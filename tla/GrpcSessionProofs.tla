-------------------------- MODULE GrpcSessionProofs --------------------------
(***************************************************************************)
(* Theorems about GrpcSession, for every set of streams and every number   *)
(* of losses, closes and restarts.                                         *)
(***************************************************************************)
EXTENDS GrpcSession, TLAPS

(* A stream is not taken before its handler has offered it, so that it is  *)
(* taken once.                                                             *)
OfferedNotTaken ==
  \A s \in Streams : handler[s] \in {"none", "offer"} => taken[s] = 0

(* How many calls of Serve may have returned without closing closedCh yet: *)
(* only Close makes room for another Serve.                                *)
ServesCounted ==
  /\ ending <= stops + 1
  /\ serve \in {"off", "on"} => ending <= stops
  /\ closing => serve = "stopped" /\ ending <= stops

(* Before any such Close there is one Serve, whose goroutine is the only one to *)
(* close closedCh.                                                         *)
OneServe ==
  stops = 0 =>
    /\ ~closing /\ accept # "panic"
    /\ serve # "stopped" => ending = 0 /\ ~closedCh
    /\ serve = "stopped" => ending = IF closedCh THEN 0 ELSE 1

(* The inductive invariant.                                                *)
IInv == TypeOK /\ OfferedNotTaken /\ HeldWhileRelayed /\ ServesCounted /\ OneServe

(* It holds in the initial states.                                       *)
LEMMA InitIInv == Init => IInv
<1> SUFFICES ASSUME Init PROVE IInv
  OBVIOUS
<1>1. /\ call \in [Streams -> {"idle", "call", "open", "failed"}]
      /\ handler \in [Streams -> {"none", "offer", "hold", "returned"}]
      /\ taken \in [Streams -> {0, 1}]
  BY DEF Init
<1>2. TypeOK
  <2>1. /\ channel = "none" /\ broken = {} /\ losses = 0
        /\ serve = "off" /\ ending = 0
        /\ accept = "bootstrap" /\ closed = {} /\ closes = 0 /\ stops = 0 /\ starts = 0
    BY DEF Init
  <2>2. closedCh \in BOOLEAN /\ closing \in BOOLEAN
    BY DEF Init
  <2> QED BY <1>1, <2>1, <2>2, GrpcSessionAssumption DEF TypeOK
<1> QED
  BY <1>2, GrpcSessionAssumption
     DEF Init, IInv, OfferedNotTaken, HeldWhileRelayed, ServesCounted, OneServe

(* The steps that are about one stream.                                    *)
LEMMA StreamIInv ==
  ASSUME IInv, NEW s \in Streams,
         \/ Bootstrap(s) \/ CallOpenStream(s)
         \/ ServeOpenStream(s) \/ AcceptStream(s)
         \/ HandleStreamEnd(s) \/ HandlerReturn(s)
  PROVE  IInv'
<1> USE GrpcSessionAssumption
        DEF IInv, TypeOK, OfferedNotTaken, HeldWhileRelayed, ServesCounted, OneServe,
            server, listener, counts, client
<1>1. CASE Bootstrap(s)
  BY <1>1 DEF Bootstrap
<1>2. CASE CallOpenStream(s)
  BY <1>2 DEF CallOpenStream
<1>3. CASE ServeOpenStream(s)
  BY <1>3 DEF ServeOpenStream
<1>4. CASE AcceptStream(s)
  BY <1>4 DEF AcceptStream
<1>5. CASE HandleStreamEnd(s)
  BY <1>5 DEF HandleStreamEnd
<1>6. CASE HandlerReturn(s)
  BY <1>6 DEF HandlerReturn
<1> QED BY <1>1, <1>2, <1>3, <1>4, <1>5, <1>6

(* The ClientConn, and Close of the client session.                        *)
LEMMA ClientIInv ==
  ASSUME IInv, Connect \/ Lose \/ ClientClose
  PROVE  IInv'
<1> USE GrpcSessionAssumption
        DEF IInv, TypeOK, OfferedNotTaken, HeldWhileRelayed, ServesCounted, OneServe,
            server, listener, counts, client
<1>1. CASE Connect
  BY <1>1 DEF Connect
<1>2. CASE Lose
  BY <1>2 DEF Lose, Opened
<1>3. CASE ClientClose
  BY <1>3 DEF ClientClose, Opened
<1> QED BY <1>1, <1>2, <1>3

(* AcceptStream in main's loop.                                            *)
LEMMA AcceptIInv ==
  ASSUME IInv, Accepting \/ AcceptClosed \/ BootstrapFail
  PROVE  IInv'
<1> USE GrpcSessionAssumption
        DEF IInv, TypeOK, OfferedNotTaken, HeldWhileRelayed, ServesCounted, OneServe,
            server, listener, counts, client
<1>1. CASE BootstrapListen
  BY <1>1 DEF BootstrapListen
<1>2. CASE BootstrapAgain
  BY <1>2 DEF BootstrapAgain
<1>3. CASE StartHandleStream
  BY <1>3 DEF StartHandleStream
<1>4. CASE AcceptClosed
  BY <1>4 DEF AcceptClosed
<1>5. CASE BootstrapFail
  BY <1>5 DEF BootstrapFail
<1> QED BY <1>1, <1>2, <1>3, <1>4, <1>5 DEF Accepting

(* The goroutine of Serve, Close, and a new process.                       *)
LEMMA ServeIInv ==
  ASSUME IInv, ServeReturn \/ ServeEnd \/ CloseStop \/ CloseEnd \/ Restart
  PROVE  IInv'
<1> USE GrpcSessionAssumption
        DEF IInv, TypeOK, OfferedNotTaken, HeldWhileRelayed, ServesCounted, OneServe,
            server, listener, counts, client
<1>1. CASE ServeReturn
  BY <1>1 DEF ServeReturn
<1>2. CASE ServeEnd
  <2>1. CASE closedCh
    BY <1>2, <2>1 DEF ServeEnd, CloseClosedCh
  <2>2. CASE ~closedCh
    BY <1>2, <2>2 DEF ServeEnd, CloseClosedCh
  <2> QED BY <2>1, <2>2
<1>3. CASE CloseStop
  BY <1>3 DEF CloseStop, Opened
<1>4. CASE CloseEnd
  BY <1>4 DEF CloseEnd, CloseClosedCh
<1>5. CASE Restart
  <2>1. TypeOK'
    <3>1. /\ handler' \in [Streams -> {"none", "offer", "hold", "returned"}]
          /\ taken' \in [Streams -> {0, 1}]
      BY <1>5 DEF Restart
    <3>2. /\ serve' = "off" /\ ending' = 0
          /\ accept' = "bootstrap" /\ starts' = starts + 1 /\ starts < MaxStarts /\ stops' = 0
          /\ UNCHANGED <<call, losses, closes>>
      BY <1>5 DEF Restart
    <3>3. /\ channel' \in {"none", "idle", "ready", "failing"}
          /\ broken' \subseteq Streams /\ closed' \subseteq Streams
      BY <1>5 DEF Restart, Opened
    <3>4. closedCh' \in BOOLEAN /\ closing' \in BOOLEAN
      BY <1>5 DEF Restart
    <3> QED BY <3>1, <3>2, <3>3, <3>4
  <2>2. OfferedNotTaken' /\ HeldWhileRelayed'
    BY <1>5 DEF Restart
  <2>3. ServesCounted' /\ OneServe'
    BY <1>5 DEF Restart
  <2> QED BY <2>1, <2>2, <2>3
<1> QED BY <1>1, <1>2, <1>3, <1>4, <1>5

(* The invariant holds in every reachable state.                           *)
LEMMA Invariance == Spec => []IInv
<1>1. IInv /\ [Next]_vars => IInv'
  <2> SUFFICES ASSUME IInv, [Next]_vars
               PROVE  IInv'
    OBVIOUS
  <2>1. CASE UNCHANGED vars
    BY <2>1 DEF vars, client, server, listener, counts, IInv, TypeOK, OfferedNotTaken,
                HeldWhileRelayed, ServesCounted, OneServe
  <2>2. CASE Next
    BY <2>2, StreamIInv, ClientIInv, AcceptIInv, ServeIInv DEF Next
  <2> QED BY <2>1, <2>2
<1> QED BY <1>1, InitIInv, PTL DEF Spec

-----------------------------------------------------------------------------
(* Every variable keeps its range: main accepts a stream once at most, and *)
(* the calls of Serve that are about to close closedCh are no more than    *)
(* the calls of Close, and one.                                            *)
THEOREM TypeCorrect == Spec => []TypeOK
<1>1. IInv => TypeOK
  BY DEF IInv
<1> QED BY <1>1, Invariance, PTL

(* The handler of a stream that main has accepted stays in its second      *)
(* select until handleStream has closed the stream or closedCh is closed:  *)
(* the RPC, and with it the tunnel, is not cut off.                        *)
THEOREM RpcOutlastsStream == Spec => []HeldWhileRelayed
<1>1. IInv => HeldWhileRelayed
  BY DEF IInv
<1> QED BY <1>1, Invariance, PTL

(* The process of a server proxy does not panic on closing closedCh twice  *)
(* unless Close of its server session has been called.                     *)
THEOREM PanicNeedsClose == Spec => []ClosedOnce
<1>1. IInv => ClosedOnce
  BY GrpcSessionAssumption DEF IInv, TypeOK, OneServe, ClosedOnce
<1> QED BY <1>1, Invariance, PTL

=============================================================================
