----------------------------- MODULE GrpcSession -----------------------------
(***************************************************************************)
(* ClientSession and ServerSession of grpcnet/grpc_net.go: how a stream    *)
(* that the client proxy opens reaches the accept loop of the server       *)
(* proxy, and how long its RPC lasts.                                      *)
(*                                                                         *)
(* A stream is one bidirectional RPC.  On the server its handler offers    *)
(* the stream to main and must then stay: gRPC ends the RPC when the       *)
(* handler returns.  The client keeps one ClientConn, which connects when  *)
(* it is used and reconnects by itself, to a server proxy that was started *)
(* again, too.  main calls Close of neither session: the model does, as    *)
(* netx lets any other caller.                                             *)
(***************************************************************************)
EXTENDS Naturals

CONSTANTS
  Streams,   \* the streams the client proxy opens
  MayFail,   \* listening, connecting, connections and Serve may fail
  MaxLosses, \* bound: how often the connection breaks
  MaxCloses, \* bound: how many calls of Close there are
  MaxStarts  \* bound: how often the server proxy is started again

ASSUME GrpcSessionAssumption ==
  MayFail \in BOOLEAN /\ MaxLosses \in Nat /\ MaxCloses \in Nat /\ MaxStarts \in Nat

VARIABLES
  \* ClientSession
  channel,   \* the ClientConn: "none" (nil), "idle", "ready" or "failing"
  call,      \* the control state of each OpenStream
  broken,    \* the streams whose connection is lost
  losses,    \* how often the connection broke
  \* ServerSession
  serve,     \* "off" (rpcServer = nil), "on" (Serve runs) or "stopped"
  closedCh,  \* closedCh is closed
  ending,    \* how many calls of Serve returned and did not close closedCh yet
  closing,   \* Close holds mu and has called Stop
  accept,    \* the control state of AcceptStream in main's loop
  handler,   \* the control state of each handler of OpenStream
  taken,     \* how often main accepted each stream
  closed,    \* the streams handleStream has closed (close(done))
  \* both
  closes,    \* how many calls of Close there were, of both sessions
  stops,     \* those of the server session in this process
  starts     \* how often the server proxy was started again

client == <<channel, call, broken, losses>>
listener == <<serve, closedCh, ending, closing>>
server == <<listener, accept, handler, taken, closed>>
counts == <<closes, stops, starts>>
vars == <<client, server, counts>>

TypeOK ==
  /\ channel \in {"none", "idle", "ready", "failing"}
  /\ call \in [Streams -> {"idle", "call", "open", "failed"}]
  /\ broken \subseteq Streams /\ losses \in 0 .. MaxLosses
  /\ serve \in {"off", "on", "stopped"}
  /\ closedCh \in BOOLEAN /\ closing \in BOOLEAN
  /\ ending \in 0 .. MaxCloses + 1
  /\ accept \in {"bootstrap", "select", "start", "fatal", "panic"}
  /\ handler \in [Streams -> {"none", "offer", "hold", "returned"}]
  /\ taken \in [Streams -> {0, 1}]
  /\ closed \subseteq Streams
  /\ closes \in 0 .. MaxCloses /\ stops \in 0 .. closes /\ starts \in 0 .. MaxStarts

Init ==
  /\ channel = "none"
  /\ call = [s \in Streams |-> "idle"]
  /\ broken = {} /\ losses = 0
  /\ serve = "off" /\ closedCh = FALSE /\ ending = 0 /\ closing = FALSE
  /\ accept = "bootstrap"
  /\ handler = [s \in Streams |-> "none"]
  /\ taken = [s \in Streams |-> 0]
  /\ closed = {}
  /\ closes = 0 /\ stops = 0 /\ starts = 0

Opened == {s \in Streams : call[s] = "open"}

(* The server proxy runs until log.Fatalf or a panic.                      *)
Running == accept \notin {"fatal", "panic"}

-----------------------------------------------------------------------------
(* ClientSession *)

(* OpenStream calls bootstrap, which does no I/O: grpc.NewClient is lazy.  *)
Bootstrap(s) ==
  /\ call[s] = "idle"
  /\ call' = [call EXCEPT ![s] = "call"]
  /\ channel' = IF channel = "none" THEN "idle" ELSE channel
  /\ UNCHANGED <<broken, losses, server, counts>>

(* Mutant: the call waits until the ClientConn is ready.                   *)
CallOpenStream_WaitForReady(s) ==
  /\ call[s] = "call" /\ channel = "ready"
  /\ call' = [call EXCEPT ![s] = "open"]
  /\ UNCHANGED <<channel, broken, losses, server, counts>>

(* client.OpenStream waits while the ClientConn connects, and returns an   *)
(* error when that failed.  It does not wait for the server's handler.     *)
CallOpenStream(s) ==
  /\ call[s] = "call" /\ channel \in {"ready", "failing"}
  /\ call' = [call EXCEPT ![s] = IF channel = "ready" THEN "open" ELSE "failed"]
  /\ UNCHANGED <<channel, broken, losses, server, counts>>

(* The ClientConn, external.                                               *)
Connect ==
  /\ channel \in {"idle", "failing"}
  /\ \/ serve = "on" /\ Running /\ channel' = "ready"
     \/ (serve # "on" \/ ~Running \/ MayFail) /\ channel' = "failing"
  /\ UNCHANGED <<call, broken, losses, server, counts>>

Lose ==
  /\ channel = "ready"
  /\ \/ ~Running /\ UNCHANGED losses
     \/ MayFail /\ losses < MaxLosses /\ losses' = losses + 1
  /\ channel' = "idle"
  /\ broken' = broken \cup Opened
  /\ UNCHANGED <<call, server, counts>>

(* ClientSession.Close breaks the open streams and fails the calls under   *)
(* way; the next OpenStream makes another ClientConn.                      *)
ClientClose ==
  /\ channel # "none" /\ closes < MaxCloses
  /\ closes' = closes + 1
  /\ channel' = "none"
  /\ broken' = broken \cup Opened
  /\ call' = [s \in Streams |-> IF call[s] = "call" THEN "failed" ELSE call[s]]
  /\ UNCHANGED <<losses, server, stops, starts>>

-----------------------------------------------------------------------------
(* ServerSession *)

(* Mutant: a server that has stopped is replaced.                          *)
BootstrapListen_Replace ==
  /\ accept = "bootstrap" /\ ~closing /\ serve # "on"
  /\ serve' = "on" /\ accept' = "select"
  /\ UNCHANGED <<closedCh, ending, closing, handler, taken, closed, client, counts>>

(* The first AcceptStream, and one that follows Close, listens and starts  *)
(* Serve.  closedCh is the one of NewServerSession.                        *)
BootstrapListen ==
  /\ accept = "bootstrap" /\ ~closing /\ serve = "off"
  /\ serve' = "on" /\ accept' = "select"
  /\ UNCHANGED <<closedCh, ending, closing, handler, taken, closed, client, counts>>

BootstrapFail ==
  /\ MayFail /\ accept = "bootstrap" /\ ~closing /\ serve = "off"
  /\ accept' = "fatal"
  /\ UNCHANGED <<listener, handler, taken, closed, client, counts>>

BootstrapAgain ==
  /\ accept = "bootstrap" /\ ~closing /\ serve # "off"
  /\ accept' = "select"
  /\ UNCHANGED <<listener, handler, taken, closed, client, counts>>

(* Serve fails and returns.                                                *)
ServeReturn ==
  /\ MayFail /\ serve = "on" /\ Running
  /\ serve' = "stopped" /\ ending' = ending + 1
  /\ UNCHANGED <<closedCh, closing, accept, handler, taken, closed, client, counts>>

(* close(s.closedCh) panics the second time.                               *)
CloseClosedCh ==
  IF closedCh THEN accept' = "panic" /\ UNCHANGED closedCh
              ELSE closedCh' = TRUE /\ UNCHANGED accept

(* The goroutine that ran Serve closes closedCh.                           *)
ServeEnd ==
  /\ ending > 0 /\ Running
  /\ ending' = ending - 1
  /\ CloseClosedCh
  /\ UNCHANGED <<serve, closing, handler, taken, closed, client, counts>>

(* ServerSession.Close takes mu and calls Stop: every connection is        *)
(* closed, and Serve returns.                                              *)
CloseStop ==
  /\ Running /\ ~closing /\ serve # "off" /\ closes < MaxCloses
  /\ closes' = closes + 1 /\ stops' = stops + 1
  /\ closing' = TRUE
  /\ serve' = "stopped"
  /\ ending' = IF serve = "on" THEN ending + 1 ELSE ending
  /\ channel' = IF channel = "ready" THEN "idle" ELSE channel
  /\ broken' = broken \cup Opened
  /\ UNCHANGED <<closedCh, accept, handler, taken, closed, call, losses, starts>>

(* Close goes on when Stop has returned.                                   *)
CloseEnd ==
  /\ Running /\ closing
  /\ closing' = FALSE
  /\ serve' = "off"
  /\ CloseClosedCh
  /\ UNCHANGED <<ending, handler, taken, closed, client, counts>>

(* The server proxy is started again.  The connection to the old one is    *)
(* gone, and its streams with it.                                          *)
Restart ==
  /\ ~Running /\ starts < MaxStarts
  /\ starts' = starts + 1 /\ stops' = 0
  /\ serve' = "off" /\ closedCh' = FALSE /\ ending' = 0 /\ closing' = FALSE
  /\ accept' = "bootstrap"
  /\ handler' = [s \in Streams |-> "none"]
  /\ taken' = [s \in Streams |-> 0]
  /\ closed' = {}
  /\ channel' = IF channel = "ready" THEN "idle" ELSE channel
  /\ broken' = broken \cup Opened
  /\ UNCHANGED <<call, losses, closes>>

(* Mutant: the handler does not wait for main to come back.                *)
ServeOpenStream_TrySend(s) ==
  /\ Running /\ serve # "off" /\ s \in Opened \ broken /\ handler[s] = "none"
  /\ handler' = [handler EXCEPT ![s] = IF accept = "select" THEN "offer" ELSE "returned"]
  /\ UNCHANGED <<listener, accept, taken, closed, client, counts>>

(* gRPC calls ServerSession.OpenStream, which enters its first select.     *)
ServeOpenStream(s) ==
  /\ Running /\ serve # "off" /\ s \in Opened \ broken /\ handler[s] = "none"
  /\ handler' = [handler EXCEPT ![s] = "offer"]
  /\ UNCHANGED <<listener, accept, taken, closed, client, counts>>

(* Mutant: the handler returns once the stream is accepted.                *)
AcceptStream_NoHold(s) ==
  /\ accept = "select" /\ handler[s] = "offer"
  /\ handler' = [handler EXCEPT ![s] = "returned"]
  /\ taken' = [taken EXCEPT ![s] = @ + 1]
  /\ accept' = "start"
  /\ UNCHANGED <<listener, closed, client, counts>>

(* AcceptStream receives a stream, even if closedCh is closed, too.        *)
AcceptStream(s) ==
  /\ accept = "select" /\ handler[s] = "offer"
  /\ handler' = [handler EXCEPT ![s] = "hold"]
  /\ taken' = [taken EXCEPT ![s] = @ + 1]
  /\ accept' = "start"
  /\ UNCHANGED <<listener, closed, client, counts>>

(* main starts handleStream and calls AcceptStream again.                  *)
StartHandleStream ==
  /\ accept = "start"
  /\ accept' = "bootstrap"
  /\ UNCHANGED <<listener, handler, taken, closed, client, counts>>

(* Mutant: AcceptStream does not look at closedCh.                         *)
AcceptClosed_Never == FALSE /\ UNCHANGED vars

(* AcceptStream finds closedCh closed: main gives up.                      *)
AcceptClosed ==
  /\ accept = "select" /\ closedCh
  /\ accept' = "fatal"
  /\ UNCHANGED <<listener, handler, taken, closed, client, counts>>

(* handleStream ends and closes the stream.                                *)
HandleStreamEnd(s) ==
  /\ Running /\ taken[s] > 0 /\ s \notin closed
  /\ closed' = closed \cup {s}
  /\ UNCHANGED <<listener, accept, handler, taken, client, counts>>

(* Mutant: only the end of Serve ends the handler.                         *)
HandlerReturn_NoDone(s) ==
  /\ Running /\ handler[s] \in {"offer", "hold"} /\ closedCh
  /\ handler' = [handler EXCEPT ![s] = "returned"]
  /\ UNCHANGED <<listener, accept, taken, closed, client, counts>>

(* Mutant: the handler goes back to its first select.                      *)
HandlerReturn_Loop(s) ==
  /\ Running
  /\ \/ handler[s] = "hold" /\ s \in closed
     \/ handler[s] \in {"offer", "hold"} /\ closedCh
  /\ handler' = [handler EXCEPT ![s] = "offer"]
  /\ UNCHANGED <<listener, accept, taken, closed, client, counts>>

(* The handler returns: its stream is closed, or closedCh is.              *)
HandlerReturn(s) ==
  /\ Running
  /\ \/ handler[s] = "hold" /\ s \in closed
     \/ handler[s] \in {"offer", "hold"} /\ closedCh
  /\ handler' = [handler EXCEPT ![s] = "returned"]
  /\ UNCHANGED <<listener, accept, taken, closed, client, counts>>

-----------------------------------------------------------------------------
Accepting == BootstrapListen \/ BootstrapAgain \/ StartHandleStream

Next ==
  \/ \E s \in Streams : \/ Bootstrap(s) \/ CallOpenStream(s)
                        \/ ServeOpenStream(s) \/ AcceptStream(s)
                        \/ HandleStreamEnd(s) \/ HandlerReturn(s)
  \/ Connect \/ Lose \/ ClientClose
  \/ Accepting \/ AcceptClosed \/ BootstrapFail
  \/ ServeReturn \/ ServeEnd \/ CloseStop \/ CloseEnd
  \/ Restart

(* Goroutines that can proceed do, gRPC calls the handlers of the RPCs it  *)
(* gets.  Nothing makes handleStream end, and nobody starts a proxy again. *)
Fairness ==
  /\ WF_vars(Accepting) /\ WF_vars(AcceptClosed)
  /\ WF_vars(ServeEnd) /\ WF_vars(CloseEnd)
  /\ WF_vars(Connect)
  /\ \A s \in Streams : /\ WF_vars(CallOpenStream(s))
                        /\ WF_vars(ServeOpenStream(s))
                        /\ WF_vars(AcceptStream(s))
                        /\ WF_vars(HandlerReturn(s))

Spec == Init /\ [][Next]_vars /\ Fairness

-----------------------------------------------------------------------------
(* The RPC of an accepted stream lasts until handleStream has closed the   *)
(* stream, or the server stops: the handler is held in its second select.  *)
HeldWhileRelayed ==
  \A s \in Streams :
    taken[s] > 0 /\ s \notin closed /\ ~closedCh => handler[s] = "hold"

(* A handler does not outlive its stream (grpcStream.Close closes done).   *)
ClosedIsReturned ==
  \A s \in Streams : s \in closed ~> handler[s] = "returned" \/ ~Running

(* The client goes on before its stream is accepted; it is accepted all    *)
(* the same, unless the connection or the server fails.                    *)
OpenedIsAccepted ==
  \A s \in Streams : s \in Opened ~> taken[s] = 1 \/ s \in broken \/ closedCh

(* When Serve has returned, the proxy does not stay up without a listener: *)
(* main ends, whatever streams are still offered, and whoever stopped it.  *)
StopIsFatal == serve = "stopped" ~> ~Running

(* closedCh is closed once, however Serve ends: only Close of the server   *)
(* session, which closes it besides the goroutine of the Serve that it     *)
(* stops, makes the process panic.                                         *)
ClosedOnce == accept = "panic" => stops > 0

(* OpenStream never hangs: not on a server that is gone, and not on a      *)
(* connection that breaks and comes back.                                  *)
OpenStreamEnds ==
  \A s \in Streams : call[s] = "call" ~> call[s] \in {"open", "failed"}

=============================================================================
