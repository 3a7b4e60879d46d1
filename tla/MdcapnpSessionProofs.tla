------------------------- MODULE MdcapnpSessionProofs -------------------------
(***************************************************************************)
(* Theorems about MdcapnpSession, for every finite set of streams.         *)
(***************************************************************************)
EXTENDS MdcapnpSession, FiniteSetTheorems, TLAPS

(* The ranges of all the variables but the two counters.                   *)
RangesOK ==
  /\ tls \in BOOLEAN
  /\ mu \in Streams \cup {Nobody}
  /\ conn \in {"none", "up", "lost"}
  /\ dials \in Nat /\ leaked \in Nat
  /\ call \in [Streams -> CallStates]
  /\ accept \in {"select", "start", "fatal"}
  /\ offer \in [Streams -> {"none", "run", "end"}]
  /\ taken \subseteq Streams
  /\ stopped \subseteq Sides /\ ended \subseteq Sides
  /\ runChan \subseteq ended /\ returned \subseteq stopped \cap ended

(* The streams that are past connect.                                      *)
Connecting == {"dial", "shake", "boot"}
Past == {s \in Streams : call[s] \notin {"idle", "lock", "dial", "shake"}}

(* The stream that holds the mutex is the one that connects, and it does   *)
(* so because there is no connection.                                      *)
HolderConnects ==
  /\ mu # Nobody => call[mu] \in Connecting /\ conn = "none"
  /\ \A s \in Streams : call[s] \in Connecting => mu = s

(* A connection is in conn, being made, or left with the vat.              *)
DialsCounted ==
  dials = leaked + (IF conn # "none" \/ (mu # Nobody /\ call[mu] = "boot") THEN 1 ELSE 0)

(* A stream dials once.                                                    *)
DialsBounded == dials <= Cardinality(Past)

(* The inductive invariant.                                                *)
IInv == RangesOK /\ HolderConnects /\ DialsCounted /\ DialsBounded /\ ProxyIsConnected

-----------------------------------------------------------------------------
(* A stream that is past connect stays there.                              *)
LEMMA PastGrows ==
  ASSUME RangesOK, RangesOK', Past \subseteq Past', DialsBounded, dials' = dials
  PROVE  DialsBounded'
<1>1. IsFiniteSet(Past')
  BY MdcapnpSessionAssumption, FS_Subset DEF Past
<1>2. /\ Cardinality(Past) \in Nat /\ Cardinality(Past') \in Nat
      /\ Cardinality(Past) <= Cardinality(Past')
  BY <1>1, FS_Subset, FS_CardinalityType
<1> QED BY <1>2 DEF DialsBounded, RangesOK

(* The stream that has dialed is one more.                                 *)
LEMMA PastGrowsByOne ==
  ASSUME RangesOK, NEW s \in Streams, s \notin Past, Past' = Past \cup {s},
         DialsBounded, dials' = dials + 1
  PROVE  DialsBounded'
<1>1. IsFiniteSet(Past)
  BY MdcapnpSessionAssumption, FS_Subset DEF Past
<1>2. Cardinality(Past) \in Nat /\ Cardinality(Past') = Cardinality(Past) + 1
  BY <1>1, FS_AddElement, FS_CardinalityType
<1> QED BY <1>2 DEF DialsBounded, RangesOK

(* It holds in the initial states.                                       *)
LEMMA InitIInv == Init => IInv
<1> SUFFICES ASSUME Init PROVE IInv
  OBVIOUS
<1>1. RangesOK /\ HolderConnects /\ DialsCounted /\ ProxyIsConnected
  BY MdcapnpSessionAssumption
     DEF Init, RangesOK, CallStates, Sides, HolderConnects, Connecting, DialsCounted,
         ProxyIsConnected
<1>2. Past = {}
  BY DEF Init, Past
<1>3. DialsBounded
  BY <1>2, FS_EmptySet DEF Init, DialsBounded
<1> QED BY <1>1, <1>3 DEF IInv

(* OpenStream of the client, which holds the mutex over connect.           *)
LEMMA OpenStreamIInv ==
  ASSUME IInv, NEW s \in Streams,
         Begin(s) \/ OpenStream(s) \/ HandshakeFail(s)
           \/ BootstrapAnswer(s) \/ BootstrapTimeout(s)
  PROVE  IInv'
<1> USE MdcapnpSessionAssumption
        DEF IInv, RangesOK, CallStates, HolderConnects, Connecting, DialsCounted,
            ProxyIsConnected, server, vats
<1>1. CASE Begin(s)
  <2>1. Past \subseteq Past'
    BY <1>1 DEF Begin, Past
  <2> QED BY <1>1, <2>1, PastGrows DEF Begin
<1>2. CASE Lock(s)
  <2>1. Past \subseteq Past'
    BY <1>2 DEF Lock, Past
  <2> QED BY <1>2, <2>1, PastGrows DEF Lock
<1>3. CASE Dial(s)
  <2>1. CASE ~tls /\ call' = [call EXCEPT ![s] = "boot"] /\ dials' = dials + 1 /\ UNCHANGED mu
    <3>1. s \notin Past /\ Past' = Past \cup {s}
      BY <1>3, <2>1 DEF Dial, Past
    <3> QED BY <1>3, <2>1, <3>1, PastGrowsByOne DEF Dial
  <2>2. CASE tls /\ call' = [call EXCEPT ![s] = "shake"] /\ UNCHANGED <<mu, dials>>
    <3>1. Past \subseteq Past'
      BY <1>3, <2>2 DEF Dial, Past
    <3> QED BY <1>3, <2>2, <3>1, PastGrows DEF Dial
  <2>3. CASE Connected(s, "failed") /\ UNCHANGED dials
    <3>1. Past \subseteq Past'
      BY <1>3, <2>3 DEF Dial, Connected, Past
    <3> QED BY <1>3, <2>3, <3>1, PastGrows DEF Dial, Connected
  <2> QED BY <1>3, <2>1, <2>2, <2>3 DEF Dial
<1>4. CASE CallOpenStream(s)
  <2>1. Past \subseteq Past'
    BY <1>4 DEF CallOpenStream, Past
  <2> QED BY <1>4, <2>1, PastGrows DEF CallOpenStream
<1>5. CASE OpenStreamReturn(s)
  <2>1. Past \subseteq Past'
    BY <1>5 DEF OpenStreamReturn, Past
  <2> QED BY <1>5, <2>1, PastGrows DEF OpenStreamReturn
<1>6. CASE BootstrapAnswer(s)
  <2>1. Past \subseteq Past'
    BY <1>6 DEF BootstrapAnswer, Connected, Past
  <2> QED BY <1>6, <2>1, PastGrows DEF BootstrapAnswer, Connected
<1>7. CASE BootstrapTimeout(s)
  <2>1. Past \subseteq Past'
    BY <1>7 DEF BootstrapTimeout, Connected, Past
  <2> QED BY <1>7, <2>1, PastGrows DEF BootstrapTimeout, Connected
<1>8. CASE Handshake(s)
  <2>1. s \notin Past /\ Past' = Past \cup {s}
    BY <1>8 DEF Handshake, Past
  <2> QED BY <1>8, <2>1, PastGrowsByOne DEF Handshake
<1>9. CASE HandshakeFail(s)
  <2>1. Past \subseteq Past'
    BY <1>9 DEF HandshakeFail, Connected, Past
  <2> QED BY <1>9, <2>1, PastGrows DEF HandshakeFail, Connected
<1> QED BY <1>1, <1>2, <1>3, <1>4, <1>5, <1>6, <1>7, <1>8, <1>9 DEF OpenStream

(* The server's vat and main.                                              *)
LEMMA ServerIInv ==
  ASSUME IInv,
         \/ \E s \in Streams : Call(s) \/ AcceptStream(s)
         \/ StartHandleStream \/ AcceptClosed
  PROVE  IInv'
<1> USE MdcapnpSessionAssumption
        DEF IInv, RangesOK, CallStates, HolderConnects, Connecting, DialsCounted,
            DialsBounded, Past, ProxyIsConnected, client, vats
<1>1. ASSUME NEW s \in Streams, Call(s)
      PROVE  IInv'
  BY <1>1 DEF Call, Called
<1>2. ASSUME NEW s \in Streams, AcceptStream(s)
      PROVE  IInv'
  BY <1>2 DEF AcceptStream
<1>3. CASE StartHandleStream
  BY <1>3 DEF StartHandleStream
<1>4. CASE AcceptClosed
  BY <1>4 DEF AcceptClosed
<1> QED BY <1>1, <1>2, <1>3, <1>4

(* The goroutine that runs a vat, Close, and the connection.               *)
LEMMA VatIInv ==
  ASSUME IInv, Lose \/ \E v \in Sides : VatEnd(v) \/ Close(v) \/ CloseReturn(v)
  PROVE  IInv'
<1> USE MdcapnpSessionAssumption
        DEF IInv, RangesOK, CallStates, HolderConnects, Connecting, DialsCounted,
            DialsBounded, Past, ProxyIsConnected, client, server
<1>1. ASSUME NEW v \in Sides, VatEnd(v)
      PROVE  IInv'
  BY <1>1 DEF VatEnd
<1>2. ASSUME NEW v \in Sides, Close(v)
      PROVE  IInv'
  BY <1>2 DEF Close
<1>3. ASSUME NEW v \in Sides, CloseReturn(v)
      PROVE  IInv'
  BY <1>3 DEF CloseReturn
<1>4. CASE Lose
  BY <1>4 DEF Lose, vats
<1> QED BY <1>1, <1>2, <1>3, <1>4

(* The invariant holds in every reachable state.                           *)
LEMMA Invariance == Spec => []IInv
<1>1. IInv /\ [Next]_vars => IInv'
  <2> SUFFICES ASSUME IInv, [Next]_vars
               PROVE  IInv'
    OBVIOUS
  <2>1. CASE UNCHANGED vars
    BY <2>1 DEF vars, client, server, vats, IInv, RangesOK, HolderConnects, DialsCounted,
                DialsBounded, Past, ProxyIsConnected
  <2>2. CASE Next
    BY <2>2, OpenStreamIInv, ServerIInv, VatIInv DEF Next
  <2> QED BY <2>1, <2>2
<1> QED BY <1>1, InitIInv, PTL DEF Spec

-----------------------------------------------------------------------------
(* Every variable keeps its range; each OpenStream dials once at most, so  *)
(* that there are no more connections than streams.                        *)
THEOREM TypeCorrect == Spec => []TypeOK
<1>1. IInv => TypeOK
  <2> SUFFICES ASSUME IInv PROVE TypeOK
    OBVIOUS
  <2>1. Cardinality(Past) \in Nat /\ Cardinality(Past) <= Cardinality(Streams)
        /\ Cardinality(Streams) \in Nat
    BY MdcapnpSessionAssumption, FS_Subset, FS_CardinalityType DEF Past
  <2>2. dials \in 0 .. Cardinality(Streams) /\ leaked \in 0 .. dials
    BY <2>1 DEF IInv, RangesOK, DialsCounted, DialsBounded
  <2> QED BY <2>2 DEF IInv, RangesOK, TypeOK
<1> QED BY <1>1, Invariance, PTL

(* OpenStream connects under the mutex: however many streams are opened at *)
(* once, one connection at most is in use or being made.                   *)
THEOREM ConnectsOnce == Spec => []OneConnection
<1>1. IInv => OneConnection
  BY DEF IInv, RangesOK, DialsCounted, OneConnection
<1> QED BY <1>1, Invariance, PTL

(* An OpenStream that goes on after connect has the proxy of a connection. *)
THEOREM ProxyConnected == Spec => []ProxyIsConnected
<1>1. IInv => ProxyIsConnected
  BY DEF IInv
<1> QED BY <1>1, Invariance, PTL

=============================================================================
