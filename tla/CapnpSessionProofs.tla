-------------------------- MODULE CapnpSessionProofs --------------------------
(***************************************************************************)
(* Theorems about CapnpSession, for all sets of client proxies and streams *)
(* and every number of calls of Close.                                     *)
(***************************************************************************)
EXTENDS CapnpSession, TLAPS

(* The stream that holds a client's mutex is the one that dials.           *)
Dialing == {"dial", "shake"}

HolderDials ==
  /\ \A c \in Clients : mu[c] # Nobody => call[mu[c]] \in Dialing /\ Owner[mu[c]] = c
  /\ \A s \in Streams : call[s] \in Dialing => mu[Owner[s]] = s

(* A connection is the session's, is shaking hands, has been given up      *)
(* there, or was forgotten by Close; and a client dials while it has none. *)
DialsCounted ==
  \A c \in Clients :
    /\ dials[c] = aborted[c] + closes[c]
                    + IF rpcConn[c] # "none" \/ (mu[c] # Nobody /\ call[mu[c]] = "shake")
                      THEN 1 ELSE 0
    /\ mu[c] # Nobody => rpcConn[c] = "none"

(* The handler that returns its results is the one whose stream main took. *)
DoneIsTaken ==
  \A s \in Streams : /\ taken[s] = IF handler[s] = "done" THEN 1 ELSE 0
                     /\ call[s] = "open" => handler[s] = "done"

(* A handler runs for a call on the connection that is served; the call    *)
(* has its connection by then.                                             *)
HandlerIsServed ==
  \A s \in Streams : handler[s] # "none" =>
    /\ call[s] \in {"wait", "open", "failed"}
    /\ served = <<Owner[s], conn[s]>>

(* The inductive invariant.                                                *)
IInv == TypeOK /\ HolderDials /\ DialsCounted /\ DoneIsTaken /\ HandlerIsServed

(* It holds in the initial states.                                       *)
LEMMA InitIInv == Init => IInv
BY CapnpSessionAssumption
   DEF Init, IInv, TypeOK, CallStates, Dialing, HolderDials, DialsCounted, DoneIsTaken, HandlerIsServed

(* OpenStream of the client, which takes and gives back the mutex.         *)
LEMMA OpenStreamIInv ==
  ASSUME IInv, NEW s \in Streams, Begin(s) \/ OpenStream(s) \/ HandshakeFail(s)
  PROVE  IInv'
<1> USE CapnpSessionAssumption
        DEF IInv, TypeOK, CallStates, Dialing, HolderDials, DialsCounted, DoneIsTaken, HandlerIsServed,
            server
<1>1. CASE Begin(s)
  BY <1>1 DEF Begin
<1>2. CASE BootstrapLock(s)
  BY <1>2 DEF BootstrapLock
<1>3. CASE BootstrapDial(s)
  <2> DEFINE c == Owner[s]
  <2>1. c \in Clients /\ mu[c] = s /\ rpcConn[c] = "none" /\ call[s] = "dial"
    BY <1>3 DEF BootstrapDial
  <2>2. CASE /\ tls /\ call' = [call EXCEPT ![s] = "shake"]
             /\ dials' = [dials EXCEPT ![c] = @ + 1]
             /\ conn' = [conn EXCEPT ![s] = dials[c] + 1]
             /\ UNCHANGED <<mu, rpcConn>>
    BY <1>3, <2>1, <2>2 DEF BootstrapDial
  <2>3. CASE /\ ~tls /\ call' = [call EXCEPT ![s] = "call"]
             /\ dials' = [dials EXCEPT ![c] = @ + 1]
             /\ conn' = [conn EXCEPT ![s] = dials[c] + 1]
             /\ rpcConn' = [rpcConn EXCEPT ![c] = "up"]
             /\ mu' = [mu EXCEPT ![c] = Nobody]
    BY <1>3, <2>1, <2>3 DEF BootstrapDial
  <2>4. CASE /\ call' = [call EXCEPT ![s] = "failed"]
             /\ mu' = [mu EXCEPT ![c] = Nobody]
             /\ UNCHANGED <<rpcConn, dials, conn>>
    BY <1>3, <2>1, <2>4 DEF BootstrapDial
  <2> QED BY <1>3, <2>2, <2>3, <2>4 DEF BootstrapDial
<1>4. CASE CallOpenStream(s)
  BY <1>4 DEF CallOpenStream
<1>5. CASE OpenStreamReturn(s)
  BY <1>5 DEF OpenStreamReturn
<1>6. CASE Handshake(s)
  BY <1>6 DEF Handshake
<1>7. CASE HandshakeFail(s)
  BY <1>7 DEF HandshakeFail
<1> QED BY <1>1, <1>2, <1>3, <1>4, <1>5, <1>6, <1>7 DEF OpenStream

(* The handlers of OpenStream on the server, and AcceptStream.             *)
LEMMA HandlerIInv ==
  ASSUME IInv, NEW s \in Streams, ServeOpenStream(s) \/ SelectIncoming(s) \/ AcceptStream(s)
  PROVE  IInv'
<1> USE CapnpSessionAssumption
        DEF IInv, TypeOK, CallStates, Dialing, HolderDials, DialsCounted, DoneIsTaken, HandlerIsServed,
            client
<1>1. CASE ServeOpenStream(s)
  BY <1>1 DEF ServeOpenStream
<1>2. CASE SelectIncoming(s)
  BY <1>2 DEF SelectIncoming
<1>3. CASE AcceptStream(s)
  BY <1>3 DEF AcceptStream
<1> QED BY <1>1, <1>2, <1>3

(* bootstrap of the server, and the end of its process.                    *)
LEMMA ServerIInv ==
  ASSUME IInv, Serve \/ BootstrapFail \/ ServerClose
  PROVE  IInv'
<1> USE CapnpSessionAssumption
        DEF IInv, TypeOK, CallStates, Dialing, HolderDials, DialsCounted, DoneIsTaken, HandlerIsServed,
            client
<1>1. CASE BootstrapMake
  BY <1>1 DEF BootstrapMake
<1>2. CASE BootstrapAgain
  BY <1>2 DEF BootstrapAgain
<1>3. ASSUME NEW c \in Clients, BootstrapAccept(c)
      PROVE  IInv'
  BY <1>3 DEF BootstrapAccept
<1>4. CASE BootstrapFail
  BY <1>4 DEF BootstrapFail, Exit
<1>5. CASE ServerClose
  BY <1>5 DEF ServerClose, Exit
<1> QED BY <1>1, <1>2, <1>3, <1>4, <1>5 DEF Serve

(* A connection breaks, or Close of the client session forgets it.         *)
LEMMA ConnectionIInv ==
  ASSUME IInv, NEW c \in Clients, Lose(c) \/ ClientClose(c)
  PROVE  IInv'
<1> USE CapnpSessionAssumption
        DEF IInv, TypeOK, CallStates, Dialing, HolderDials, DialsCounted, DoneIsTaken, HandlerIsServed,
            server
<1>1. CASE Lose(c)
  BY <1>1 DEF Lose
<1>2. CASE ClientClose(c)
  BY <1>2 DEF ClientClose
<1> QED BY <1>1, <1>2

(* The invariant holds in every reachable state.                           *)
LEMMA Invariance == Spec => []IInv
<1>1. IInv /\ [Next]_vars => IInv'
  <2> SUFFICES ASSUME IInv, [Next]_vars
               PROVE  IInv'
    OBVIOUS
  <2>1. CASE UNCHANGED vars
    BY <2>1 DEF vars, client, server, IInv, TypeOK, HolderDials, DialsCounted, DoneIsTaken,
                HandlerIsServed
  <2>2. CASE Next
    BY <2>2, OpenStreamIInv, HandlerIInv, ServerIInv, ConnectionIInv DEF Next
  <2> QED BY <2>1, <2>2
<1> QED BY <1>1, InitIInv, PTL DEF Spec

-----------------------------------------------------------------------------
(* Every variable keeps its range.                                         *)
THEOREM TypeCorrect == Spec => []TypeOK
<1>1. IInv => TypeOK
  BY DEF IInv
<1> QED BY <1>1, Invariance, PTL

(* ClientSession.bootstrap, under the mutex, dials once however many       *)
(* streams are opened at the same time, and once more after each Close or  *)
(* failed handshake.                                                       *)
THEOREM DialsOnce == Spec => []OneConnection
<1>1. IInv => OneConnection
  <2> SUFFICES ASSUME IInv, NEW c \in Clients
               PROVE  dials[c] <= aborted[c] + closes[c] + 1
    BY DEF OneConnection
  <2>1. closes[c] \in Nat /\ aborted[c] \in Nat
    BY DEF IInv, TypeOK
  <2>2. dials[c] = aborted[c] + closes[c] \/ dials[c] = aborted[c] + closes[c] + 1
    BY <2>1 DEF IInv, DialsCounted
  <2> QED BY <2>1, <2>2
<1> QED BY <1>1, Invariance, PTL

(* The client's OpenStream returns a stream that main of the server proxy  *)
(* has accepted, once.                                                     *)
THEOREM OpenedOnce == Spec => []OpenIsAccepted
<1>1. IInv => OpenIsAccepted
  BY DEF IInv, DoneIsTaken, OpenIsAccepted
<1> QED BY <1>1, Invariance, PTL

(* All the streams that main of the server proxy ever accepts came over    *)
(* the one connection that its first AcceptStream accepted.                *)
THEOREM FirstConnectionOnly == Spec => []OneConnectionServed
<1>1. IInv => OneConnectionServed
  <2> SUFFICES ASSUME IInv, NEW s \in Streams, NEW t \in Streams, taken[s] > 0, taken[t] > 0
               PROVE  <<Owner[s], conn[s]>> = <<Owner[t], conn[t]>>
    BY DEF OneConnectionServed
  <2>1. handler[s] = "done" /\ handler[t] = "done"
    BY DEF IInv, DoneIsTaken
  <2> QED BY <2>1 DEF IInv, HandlerIsServed
<1> QED BY <1>1, Invariance, PTL

=============================================================================
