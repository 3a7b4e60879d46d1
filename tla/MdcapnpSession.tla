--------------------------- MODULE MdcapnpSession ---------------------------
(***************************************************************************)
(* ClientSession and ServerSession of mdcapnp/mdcapnp_net.go: how a stream *)
(* that the client proxy opens reaches the accept loop of the server       *)
(* proxy.                                                                  *)
(*                                                                         *)
(* The first OpenStream connects, under the mutex, with or without TLS,    *)
(* and then gives the server a second to answer the bootstrap request.     *)
(* The server answers a call of OpenStream at once and leaves it to a      *)
(* goroutine to hand the stream to main.                                   *)
(*                                                                         *)
(* Each session runs a vat in a goroutine of its own, whose result goes to *)
(* runChan; only Close reads that.  main never calls Close; what it does   *)
(* is modelled all the same, as the interfaces in netx/netx.go offer it.   *)
(***************************************************************************)
EXTENDS Naturals, FiniteSets

CONSTANTS
  Streams,   \* the streams the client proxy opens
  Nobody,    \* no stream
  MayFail,   \* dialing, the connection and the vats may fail
  MayClose   \* the sessions that may be closed

Sides == {"client", "server"}

ASSUME MdcapnpSessionAssumption ==
  /\ IsFiniteSet(Streams)
  /\ Nobody \notin Streams
  /\ MayFail \in BOOLEAN /\ MayClose \subseteq Sides

VARIABLES
  \* ClientSession
  tls,       \* tlsConfig is set
  mu,        \* the stream whose OpenStream holds the mutex
  conn,      \* "none" (nil), "up", or "lost": the connection is broken
  dials,     \* connections made and given to the vat
  leaked,    \* connections given to the vat and not kept in conn
  call,      \* the control state of each OpenStream
  \* ServerSession
  accept,    \* main is in AcceptStream, or starts handleStream
  offer,     \* the goroutine that hands each stream to main
  taken,     \* the streams main has accepted
  \* both
  stopped,   \* the sessions on which Close was called (stopRun)
  ended,     \* those whose vat has ended
  runChan,   \* those whose channel holds the result of the vat
  returned   \* those whose Close has returned

client == <<tls, mu, conn, dials, leaked, call>>
server == <<accept, offer, taken>>
vats == <<stopped, ended, runChan, returned>>
vars == <<client, server, vats>>

CallStates == {"idle", "lock", "dial", "shake", "boot", "call", "wait", "open", "failed"}

TypeOK ==
  /\ tls \in BOOLEAN
  /\ mu \in Streams \cup {Nobody}
  /\ conn \in {"none", "up", "lost"}
  /\ dials \in 0 .. Cardinality(Streams)
  /\ leaked \in 0 .. dials
  /\ call \in [Streams -> CallStates]
  /\ accept \in {"select", "start", "fatal"}
  /\ offer \in [Streams -> {"none", "run", "end"}]
  /\ taken \subseteq Streams
  /\ stopped \subseteq Sides /\ ended \subseteq Sides
  /\ runChan \subseteq ended /\ returned \subseteq stopped \cap ended

Init ==
  /\ tls \in BOOLEAN
  /\ mu = Nobody /\ conn = "none" /\ dials = 0 /\ leaked = 0
  /\ call = [s \in Streams |-> "idle"]
  /\ accept = "select"
  /\ offer = [s \in Streams |-> "none"]
  /\ taken = {}
  /\ stopped = {} /\ ended = {} /\ runChan = {} /\ returned = {}

(* The server proxy is gone, or its vat, which is what accepts connections *)
(* and reads from them.                                                    *)
Unserved == accept = "fatal" \/ "server" \in ended

(* Nobody answers the client: its own vat may be gone, too.                *)
Down == Unserved \/ "client" \in ended

-----------------------------------------------------------------------------
(* ClientSession.OpenStream *)

Begin(s) ==
  /\ call[s] = "idle"
  /\ call' = [call EXCEPT ![s] = "lock"]
  /\ UNCHANGED <<tls, mu, conn, dials, leaked, server, vats>>

(* Mutant: the mutex is not taken.                                         *)
Lock_NoMutex(s) ==
  /\ call[s] = "lock"
  /\ call' = [call EXCEPT ![s] = IF conn = "none" THEN "dial" ELSE "call"]
  /\ UNCHANGED <<tls, mu, conn, dials, leaked, server, vats>>

(* The mutex is held while connecting; else proxy is read and it is given  *)
(* back at once.                                                           *)
Lock(s) ==
  /\ call[s] = "lock" /\ mu = Nobody
  /\ IF conn = "none"
     THEN mu' = s /\ call' = [call EXCEPT ![s] = "dial"]
     ELSE call' = [call EXCEPT ![s] = "call"] /\ UNCHANGED mu
  /\ UNCHANGED <<tls, conn, dials, leaked, server, vats>>

(* OpenStream after connect: unlock, then return the error or go on.       *)
Connected(s, next) == mu' = Nobody /\ call' = [call EXCEPT ![s] = next]

(* connect: net.Dial, and the first half of tls.Dial.  A connection is made *)
(* as long as the listener is open, which it may be when the vat has ended. *)
Dial(s) ==
  /\ call[s] = "dial"
  /\ \/ /\ accept # "fatal"
        /\ call' = [call EXCEPT ![s] = IF tls THEN "shake" ELSE "boot"]
        /\ dials' = IF tls THEN dials ELSE dials + 1
        /\ UNCHANGED mu
     \/ /\ MayFail \/ Unserved
        /\ Connected(s, "failed")
        /\ UNCHANGED dials
  /\ UNCHANGED <<tls, conn, leaked, server, vats>>

(* tls.Dial returns: the server's vat has accepted the connection and read *)
(* from it.  There is no deadline, and the mutex is held.                  *)
Handshake(s) ==
  /\ call[s] = "shake" /\ ~Unserved
  /\ dials' = dials + 1
  /\ call' = [call EXCEPT ![s] = "boot"]
  /\ UNCHANGED <<tls, mu, conn, leaked, server, vats>>

(* The handshake fails, or the connection breaks.                          *)
HandshakeFail(s) ==
  /\ call[s] = "shake" /\ (MayFail \/ Unserved)
  /\ Connected(s, "failed")
  /\ UNCHANGED <<tls, conn, dials, leaked, server, vats>>

(* The server answers the bootstrap request in time.                       *)
BootstrapAnswer(s) ==
  /\ call[s] = "boot" /\ ~Down
  /\ conn' = "up"
  /\ Connected(s, "call")
  /\ UNCHANGED <<tls, dials, leaked, server, vats>>

(* Mutant: connect dials again when the time is over.                      *)
BootstrapTimeout_Retry(s) ==
  /\ call[s] = "boot"
  /\ leaked' = leaked + 1
  /\ call' = [call EXCEPT ![s] = "dial"]
  /\ UNCHANGED <<tls, mu, conn, dials, server, vats>>

(* Mutant: the error of connect is not looked at.                          *)
BootstrapTimeout_NoError(s) ==
  /\ call[s] = "boot"
  /\ leaked' = leaked + 1
  /\ Connected(s, "call")
  /\ UNCHANGED <<tls, conn, dials, server, vats>>

(* Mutant: Wait with a context that never expires.                         *)
BootstrapTimeout_Never(s) == FALSE /\ UNCHANGED vars

(* The second is over, or the connection broke: connect returns an error   *)
(* and leaves the connection with the vat.                                 *)
BootstrapTimeout(s) ==
  /\ call[s] = "boot"
  /\ leaked' = leaked + 1
  /\ Connected(s, "failed")
  /\ UNCHANGED <<tls, conn, dials, server, vats>>

CallOpenStream(s) ==
  /\ call[s] = "call"
  /\ call' = [call EXCEPT ![s] = IF conn = "lost" THEN "failed" ELSE "wait"]
  /\ UNCHANGED <<tls, mu, conn, dials, leaked, server, vats>>

(* up.Wait returns, with the capability or an error.                       *)
OpenStreamReturn(s) ==
  /\ call[s] = "wait"
  /\ \/ /\ conn = "up" /\ offer[s] # "none"
        /\ call' = [call EXCEPT ![s] = "open"]
     \/ /\ conn = "lost"
        /\ call' = [call EXCEPT ![s] = "failed"]
  /\ UNCHANGED <<tls, mu, conn, dials, leaked, server, vats>>

OpenStream(s) ==
  Lock(s) \/ Dial(s) \/ Handshake(s) \/ CallOpenStream(s) \/ OpenStreamReturn(s)

-----------------------------------------------------------------------------
(* ServerSession *)

Called(s) == call[s] = "wait" /\ conn = "up" /\ offer[s] = "none"

(* Mutant: the stream is handed over only if main is waiting for it.       *)
Call_TrySend(s) ==
  /\ Called(s)
  /\ offer' = [offer EXCEPT ![s] = "end"]
  /\ IF accept = "select"
     THEN accept' = "start" /\ taken' = taken \cup {s}
     ELSE UNCHANGED <<accept, taken>>
  /\ UNCHANGED <<client, vats>>

(* Call, of OpenStream: a goroutine is started and the call is answered.   *)
Call(s) ==
  /\ Called(s)
  /\ offer' = [offer EXCEPT ![s] = "run"]
  /\ UNCHANGED <<accept, taken, client, vats>>

AcceptStream(s) ==
  /\ accept = "select" /\ offer[s] = "run"
  /\ accept' = "start"
  /\ offer' = [offer EXCEPT ![s] = "end"]
  /\ taken' = taken \cup {s}
  /\ UNCHANGED <<client, vats>>

(* AcceptStream sees that the context is done: main gives up.              *)
AcceptClosed ==
  /\ accept = "select" /\ "server" \in stopped
  /\ accept' = "fatal"
  /\ conn' = IF conn = "up" THEN "lost" ELSE conn
  /\ UNCHANGED <<tls, mu, dials, leaked, call, offer, taken, vats>>

(* main starts handleStream and calls AcceptStream again.                  *)
StartHandleStream ==
  /\ accept = "start"
  /\ accept' = "select"
  /\ UNCHANGED <<offer, taken, client, vats>>

-----------------------------------------------------------------------------
(* The goroutine that runs the vat, and Close *)

(* Mutant: a vat that was stopped reports nothing.                         *)
VatEnd_Unreported(v) ==
  /\ v \notin ended /\ (v \in stopped \/ MayFail) /\ (v = "server" => accept # "fatal")
  /\ ended' = ended \cup {v}
  /\ runChan' = IF v \in stopped THEN runChan ELSE runChan \cup {v}
  /\ conn' = IF conn = "up" THEN "lost" ELSE conn
  /\ UNCHANGED <<tls, mu, dials, leaked, call, server, stopped, returned>>

(* Run or RunWithListeners returns, stopped or with an error of its own,   *)
(* and its connections are gone.  Nothing tells AcceptStream of an error.  *)
VatEnd(v) ==
  /\ v \notin ended /\ (v \in stopped \/ MayFail) /\ (v = "server" => accept # "fatal")
  /\ ended' = ended \cup {v}
  /\ runChan' = runChan \cup {v}
  /\ conn' = IF conn = "up" THEN "lost" ELSE conn
  /\ UNCHANGED <<tls, mu, dials, leaked, call, server, stopped, returned>>

(* Close: stopRun ...                                                      *)
Close(v) ==
  /\ v \in MayClose \ stopped /\ (v = "server" => accept # "fatal")
  /\ stopped' = stopped \cup {v}
  /\ UNCHANGED <<client, server, ended, runChan, returned>>

(* ... and then the result is received (a second Close would wait for it   *)
(* for ever).                                                              *)
CloseReturn(v) ==
  /\ v \in stopped \cap runChan /\ (v = "server" => accept # "fatal")
  /\ runChan' = runChan \ {v}
  /\ returned' = returned \cup {v}
  /\ UNCHANGED <<client, server, stopped, ended>>

-----------------------------------------------------------------------------
Lose ==
  /\ MayFail /\ conn = "up"
  /\ conn' = "lost"
  /\ UNCHANGED <<tls, mu, dials, leaked, call, server, vats>>

Next ==
  \/ \E s \in Streams : \/ Begin(s) \/ OpenStream(s)
                        \/ HandshakeFail(s)
                        \/ BootstrapAnswer(s) \/ BootstrapTimeout(s)
                        \/ Call(s) \/ AcceptStream(s)
  \/ StartHandleStream \/ AcceptClosed
  \/ \E v \in Sides : VatEnd(v) \/ Close(v) \/ CloseReturn(v)
  \/ Lose

(* Goroutines that can proceed do, time passes, and the server's vat       *)
(* accepts connections, serves the calls it gets and ends when it is       *)
(* stopped.  Nothing makes it answer in time.  A handshake fails for sure  *)
(* when the server proxy has exited: not when only its vat has ended.      *)
Fairness ==
  /\ \A s \in Streams : /\ WF_vars(OpenStream(s) \/ (accept = "fatal" /\ HandshakeFail(s)))
                        /\ WF_vars(BootstrapTimeout(s))
                        /\ WF_vars(Call(s))
                        /\ WF_vars(AcceptStream(s))
  /\ WF_vars(StartHandleStream) /\ WF_vars(AcceptClosed)
  /\ \A v \in Sides : WF_vars(v \in stopped /\ VatEnd(v)) /\ WF_vars(CloseReturn(v))

Spec == Init /\ [][Next]_vars /\ Fairness

-----------------------------------------------------------------------------
(* However many streams are opened at once, one connection at most is in   *)
(* use or being made (OpenStream holds the mutex over connect).            *)
OneConnection == dials - leaked <= 1

(* No OpenStream goes on with the proxy of a connect that failed: the      *)
(* error is looked at after the mutex is given back.                       *)
ProxyIsConnected ==
  \A s \in Streams : call[s] \in {"call", "wait", "open"} => conn # "none"

(* One of the streams, which holds the mutex, is in a TLS handshake with a *)
(* server whose vat has ended by itself: main, which nobody tells, goes on *)
(* waiting for streams and keeps the process and its listener alive.       *)
HandshakeHangs ==
  \E s \in Streams : call[s] = "shake" /\ "server" \in ended \ stopped

(* OpenStream ends, although up.Wait has no timeout and the bootstrap      *)
(* request may not be answered.  The one thing that can keep it, and every *)
(* later one, which waits for the mutex, for ever is the handshake in      *)
(* tls.Dial, which comes before the timeout of a second begins.            *)
OpenStreamEnds ==
  \A s \in Streams :
    call[s] = "lock" ~> call[s] \in {"open", "failed"} \/ []HandshakeHangs

(* The client goes on before the server proxy has accepted the stream; it  *)
(* is accepted all the same, even if the connection breaks or the vat ends *)
(* meanwhile, unless the server session is closed.                         *)
OpenedIsAccepted ==
  \A s \in Streams : call[s] = "open" ~> s \in taken \/ "server" \in stopped

(* Close returns, also when the vat had already ended by itself; that of   *)
(* the server session may lose the race against main, which exits.         *)
CloseReturns ==
  \A v \in Sides : v \in stopped ~> v \in returned \/ accept = "fatal"

=============================================================================
