---------------------------- MODULE CapnpSession ----------------------------
(***************************************************************************)
(* ServerSession and ClientSession of capnpnet/capnp_net.go: how a stream  *)
(* that a client proxy opens reaches the accept loop of the server proxy.  *)
(*                                                                         *)
(* Every client proxy keeps one RPC connection, which it dials with or     *)
(* without TLS.  The server proxy accepts one connection, on the first     *)
(* AcceptStream, and shakes hands on no other; it replaces the channel     *)
(* s.incoming after the RPC system has started to serve it.  The calls on  *)
(* the bootstrap capability are executed one after the other.              *)
(*                                                                         *)
(* main never calls Close on a session; what it does is modelled all the   *)
(* same, as the interfaces in netx/netx.go offer it.                       *)
(***************************************************************************)
EXTENDS Naturals

CONSTANTS
  Clients,    \* the client proxies
  Streams,    \* the streams they open
  Owner,      \* the client proxy of each stream
  Nobody,     \* no stream, no connection
  MayFail,    \* dialing, listening and connections may fail
  MaxCloses   \* bound: how often a session is closed

ASSUME CapnpSessionAssumption ==
  /\ Owner \in [Streams -> Clients]
  /\ Nobody \notin Streams /\ Nobody \notin Clients \X Nat
  /\ MayFail \in BOOLEAN /\ MaxCloses \in Nat

VARIABLES
  \* both
  tls,       \* tlsConfig is set
  \* ClientSession, per client
  mu,        \* the stream whose OpenStream holds the mutex
  rpcConn,   \* "none" (nil), "up", or "lost": the connection is broken
  dials,     \* connections made; the last one is the session's
  aborted,   \* those given up in the handshake
  closes,    \* how often Close has closed one
  call,      \* the control state of each OpenStream
  conn,      \* the connection that the capability of each call belongs to
  \* ServerSession
  accept,    \* the control state of AcceptStream in main's loop
  served,    \* the connection that rpcConn is, as <<client, number>>
  incoming,  \* the field: channel 0 is NewServerSession's, 1 is bootstrap's
  local,     \* the channel AcceptStream receives from
  handler,   \* the control state of each openStream call
  chan,      \* the channel each call sends to
  taken      \* how often each stream was accepted

client == <<tls, mu, rpcConn, dials, aborted, closes, call, conn>>
server == <<accept, served, incoming, local, handler, chan, taken>>
vars == <<client, server>>

CallStates == {"idle", "lock", "dial", "shake", "call", "wait", "open", "failed"}

TypeOK ==
  /\ tls \in BOOLEAN
  /\ mu \in [Clients -> Streams \cup {Nobody}]
  /\ rpcConn \in [Clients -> {"none", "up", "lost"}]
  /\ dials \in [Clients -> Nat] /\ aborted \in [Clients -> Nat]
  /\ closes \in [Clients -> Nat]
  /\ call \in [Streams -> CallStates]
  /\ conn \in [Streams -> Nat]
  /\ accept \in {"bootstrap", "newConn", "select", "fatal", "panic"}
  /\ served \in (Clients \X Nat) \cup {Nobody}
  /\ incoming \in {0, 1} /\ local \in {0, 1}
  /\ handler \in [Streams -> {"none", "run", "offer", "done"}]
  /\ chan \in [Streams -> {0, 1}]
  /\ taken \in [Streams -> Nat]

Init ==
  /\ tls \in BOOLEAN
  /\ mu = [c \in Clients |-> Nobody]
  /\ rpcConn = [c \in Clients |-> "none"]
  /\ dials = [c \in Clients |-> 0] /\ aborted = [c \in Clients |-> 0]
  /\ closes = [c \in Clients |-> 0]
  /\ call = [s \in Streams |-> "idle"]
  /\ conn = [s \in Streams |-> 0]
  /\ accept = "bootstrap" /\ served = Nobody
  /\ incoming = 0 /\ local = 0
  /\ handler = [s \in Streams |-> "none"]
  /\ chan = [s \in Streams |-> 0]
  /\ taken = [s \in Streams |-> 0]

(* The process of the server proxy is gone.                                *)
Dead == accept \in {"fatal", "panic"}

(* The connection a call uses is whole.                                    *)
Alive(s) == rpcConn[Owner[s]] = "up" /\ conn[s] = dials[Owner[s]]

-----------------------------------------------------------------------------
(* ClientSession *)

Begin(s) ==
  /\ call[s] = "idle"
  /\ call' = [call EXCEPT ![s] = "lock"]
  /\ UNCHANGED <<tls, mu, rpcConn, dials, aborted, closes, conn, server>>

(* Mutant: bootstrap without the mutex.                                    *)
BootstrapLock_NoMutex(s) ==
  LET c == Owner[s]
  IN  /\ call[s] = "lock"
      /\ call' = [call EXCEPT ![s] = IF rpcConn[c] # "none" THEN "call" ELSE "dial"]
      /\ conn' = [conn EXCEPT ![s] = dials[c]]
      /\ UNCHANGED <<tls, mu, rpcConn, dials, aborted, closes, server>>

(* bootstrap takes the mutex; an existing connection is reused, in         *)
(* whatever state it is.                                                   *)
BootstrapLock(s) ==
  LET c == Owner[s]
  IN  /\ call[s] = "lock" /\ mu[c] = Nobody
      /\ \/ /\ rpcConn[c] # "none"
            /\ call' = [call EXCEPT ![s] = "call"]
            /\ conn' = [conn EXCEPT ![s] = dials[c]]
            /\ UNCHANGED mu
         \/ /\ rpcConn[c] = "none"
            /\ call' = [call EXCEPT ![s] = "dial"]
            /\ mu' = [mu EXCEPT ![c] = s]
            /\ UNCHANGED conn
      /\ UNCHANGED <<tls, rpcConn, dials, aborted, closes, server>>

(* bootstrap dials; without TLS it returns once there is a connection,     *)
(* which the server's listener queues until it is accepted.                *)
BootstrapDial(s) ==
  LET c == Owner[s]
  IN  /\ call[s] = "dial"
      /\ \/ /\ ~Dead
            /\ dials' = [dials EXCEPT ![c] = @ + 1]
            /\ conn' = [conn EXCEPT ![s] = dials[c] + 1]
            /\ call' = [call EXCEPT ![s] = IF tls THEN "shake" ELSE "call"]
            /\ rpcConn' = IF tls THEN rpcConn ELSE [rpcConn EXCEPT ![c] = "up"]
            /\ mu' = IF tls THEN mu ELSE [mu EXCEPT ![c] = Nobody]
         \/ /\ MayFail \/ Dead
            /\ call' = [call EXCEPT ![s] = "failed"]
            /\ mu' = [mu EXCEPT ![c] = Nobody]
            /\ UNCHANGED <<rpcConn, dials, conn>>
      /\ UNCHANGED <<tls, aborted, closes, server>>

(* tls.Dial returns only after the RPC system of the server has read from  *)
(* the connection, which it does with the one that was accepted.  There is *)
(* no deadline, and the mutex is held.                                     *)
Handshake(s) ==
  LET c == Owner[s]
  IN  /\ call[s] = "shake" /\ ~Dead /\ served = <<c, conn[s]>>
      /\ rpcConn' = [rpcConn EXCEPT ![c] = "up"]
      /\ call' = [call EXCEPT ![s] = "call"]
      /\ mu' = [mu EXCEPT ![c] = Nobody]
      /\ UNCHANGED <<tls, dials, aborted, closes, conn, server>>

(* Mutant: the mutex is not given back with the error.                     *)
HandshakeFail_KeepLock(s) ==
  LET c == Owner[s]
  IN  /\ call[s] = "shake" /\ (MayFail \/ Dead)
      /\ aborted' = [aborted EXCEPT ![c] = @ + 1]
      /\ call' = [call EXCEPT ![s] = "failed"]
      /\ UNCHANGED <<tls, mu, rpcConn, dials, closes, conn, server>>

(* The handshake fails, or the connection breaks.                          *)
HandshakeFail(s) ==
  LET c == Owner[s]
  IN  /\ call[s] = "shake" /\ (MayFail \/ Dead)
      /\ aborted' = [aborted EXCEPT ![c] = @ + 1]
      /\ call' = [call EXCEPT ![s] = "failed"]
      /\ mu' = [mu EXCEPT ![c] = Nobody]
      /\ UNCHANGED <<tls, rpcConn, dials, closes, conn, server>>

CallOpenStream(s) ==
  /\ call[s] = "call"
  /\ call' = [call EXCEPT ![s] = IF Alive(s) THEN "wait" ELSE "failed"]
  /\ UNCHANGED <<tls, mu, rpcConn, dials, aborted, closes, conn, server>>

(* Mutant: the results are not waited for.                                 *)
OpenStreamReturn_Early(s) ==
  /\ call[s] = "wait"
  /\ call' = [call EXCEPT ![s] = IF Alive(s) THEN "open" ELSE "failed"]
  /\ UNCHANGED <<tls, mu, rpcConn, dials, aborted, closes, conn, server>>

(* Mutant: the error of the future is not looked at.                       *)
OpenStreamReturn_NoError(s) ==
  /\ call[s] = "wait" /\ Alive(s) /\ handler[s] = "done"
  /\ call' = [call EXCEPT ![s] = "open"]
  /\ UNCHANGED <<tls, mu, rpcConn, dials, aborted, closes, conn, server>>

(* future.Struct() returns, with the results or an error.                  *)
OpenStreamReturn(s) ==
  /\ call[s] = "wait"
  /\ \/ /\ Alive(s) /\ handler[s] = "done"
        /\ call' = [call EXCEPT ![s] = "open"]
     \/ /\ ~Alive(s)
        /\ call' = [call EXCEPT ![s] = "failed"]
  /\ UNCHANGED <<tls, mu, rpcConn, dials, aborted, closes, conn, server>>

OpenStream(s) ==
  BootstrapLock(s) \/ BootstrapDial(s) \/ Handshake(s) \/ CallOpenStream(s) \/ OpenStreamReturn(s)

(* Close forgets the connection, and the next OpenStream dials another.    *)
ClientClose(c) ==
  /\ closes[c] < MaxCloses
  /\ mu[c] = Nobody /\ rpcConn[c] # "none"
  /\ rpcConn' = [rpcConn EXCEPT ![c] = "none"]
  /\ closes' = [closes EXCEPT ![c] = @ + 1]
  /\ UNCHANGED <<tls, mu, dials, aborted, call, conn, server>>

-----------------------------------------------------------------------------
(* ServerSession *)

(* Mutant: a connection is accepted for every stream.                      *)
BootstrapAccept_Again(c) ==
  /\ accept = "bootstrap"
  /\ \E n \in 1 .. dials[c] : served' = <<c, n>>
  /\ accept' = "newConn"
  /\ UNCHANGED <<incoming, local, handler, chan, taken, client>>

(* bootstrap: listener.Accept, of a connection that may be gone already,   *)
(* then rpc.NewConn ...                                                    *)
BootstrapAccept(c) ==
  /\ accept = "bootstrap" /\ served = Nobody
  /\ \E n \in 1 .. dials[c] : served' = <<c, n>>
  /\ accept' = "newConn"
  /\ UNCHANGED <<incoming, local, handler, chan, taken, client>>

(* ... and then the channel is made.                                       *)
BootstrapMake ==
  /\ accept = "newConn"
  /\ incoming' = 1 /\ local' = 1 /\ accept' = "select"
  /\ UNCHANGED <<served, handler, chan, taken, client>>

(* The process ends, and with it the connections.                          *)
Exit(how) ==
  /\ accept' = how
  /\ rpcConn' = [c \in Clients |-> IF rpcConn[c] = "up" THEN "lost" ELSE rpcConn[c]]
  /\ UNCHANGED <<tls, mu, dials, aborted, closes, call, conn>>
  /\ UNCHANGED <<served, incoming, local, handler, chan, taken>>

(* listener.Accept fails: main gives up.                                   *)
BootstrapFail ==
  /\ MayFail /\ accept = "bootstrap" /\ served = Nobody
  /\ Exit("fatal")

(* Close gets the mutex when bootstrap is not in Accept.  It closes the    *)
(* connection and the listener, and then closedCh, which was never made.   *)
ServerClose ==
  /\ MaxCloses > 0
  /\ accept \in {"bootstrap", "select"} /\ served # Nobody
  /\ Exit("panic")

(* Mutant: every later call of bootstrap makes a channel, too; two names   *)
(* are enough to tell the new one from the last.                           *)
BootstrapAgain_Make ==
  /\ accept = "bootstrap" /\ served # Nobody
  /\ incoming' = 1 - incoming /\ local' = 1 - incoming /\ accept' = "select"
  /\ UNCHANGED <<served, handler, chan, taken, client>>

(* Mutant: the same, with channels never seen before.                      *)
BootstrapAgain_Fresh ==
  /\ accept = "bootstrap" /\ served # Nobody
  /\ incoming' = incoming + 1 /\ local' = incoming + 1 /\ accept' = "select"
  /\ UNCHANGED <<served, handler, chan, taken, client>>

BootstrapAgain ==
  /\ accept = "bootstrap" /\ served # Nobody
  /\ local' = incoming /\ accept' = "select"
  /\ UNCHANGED <<served, incoming, handler, chan, taken, client>>

(* The RPC system calls ServerSession.OpenStream ...                       *)
ServeOpenStream(s) ==
  /\ call[s] = "wait" /\ served = <<Owner[s], conn[s]>> /\ Alive(s)
  /\ handler[s] = "none"
  /\ \A t \in Streams : handler[t] \notin {"run", "offer"}
  /\ handler' = [handler EXCEPT ![s] = "run"]
  /\ UNCHANGED <<accept, served, incoming, local, chan, taken, client>>

(* ... which reads s.incoming on entering its select.                      *)
SelectIncoming(s) ==
  /\ handler[s] = "run" /\ ~Dead
  /\ handler' = [handler EXCEPT ![s] = "offer"]
  /\ chan' = [chan EXCEPT ![s] = incoming]
  /\ UNCHANGED <<accept, served, incoming, local, taken, client>>

(* AcceptStream receives the stream; main starts handleStream and comes    *)
(* back.                                                                   *)
AcceptStream(s) ==
  /\ accept = "select" /\ handler[s] = "offer" /\ chan[s] = local
  /\ handler' = [handler EXCEPT ![s] = "done"]
  /\ taken' = [taken EXCEPT ![s] = @ + 1]
  /\ accept' = "bootstrap"
  /\ UNCHANGED <<served, incoming, local, chan, client>>

-----------------------------------------------------------------------------
Lose(c) ==
  /\ MayFail /\ rpcConn[c] = "up"
  /\ rpcConn' = [rpcConn EXCEPT ![c] = "lost"]
  /\ UNCHANGED <<tls, mu, dials, aborted, closes, call, conn, server>>

Serve == BootstrapMake \/ BootstrapAgain \/ \E c \in Clients : BootstrapAccept(c)

Next ==
  \/ \E s \in Streams : Begin(s) \/ OpenStream(s) \/ HandshakeFail(s)
                          \/ ServeOpenStream(s) \/ SelectIncoming(s) \/ AcceptStream(s)
  \/ Serve \/ BootstrapFail \/ ServerClose
  \/ \E c \in Clients : Lose(c) \/ ClientClose(c)

(* Goroutines that can proceed do, and the RPC system delivers what it has.*)
(* A handshake fails for sure only when the server proxy has exited.       *)
Fairness ==
  /\ WF_vars(Serve)
  /\ \A s \in Streams : /\ WF_vars(OpenStream(s) \/ (Dead /\ HandshakeFail(s)))
                        /\ WF_vars(ServeOpenStream(s) \/ SelectIncoming(s))
                        /\ WF_vars(AcceptStream(s))

Spec == Init /\ [][Next]_vars /\ Fairness

-----------------------------------------------------------------------------
(* However many streams are opened at once, a client proxy makes one       *)
(* connection (ClientSession.bootstrap under the mutex), and another one   *)
(* only after Close, or after a handshake that failed.                     *)
OneConnection == \A c \in Clients : dials[c] <= aborted[c] + closes[c] + 1

(* OpenStream returns a stream only if the server proxy has accepted it,   *)
(* and accepted it once.                                                   *)
OpenIsAccepted == \A s \in Streams : call[s] = "open" => taken[s] = 1

(* ServerSession serves the first connection it accepts and no other: all  *)
(* the streams it ever hands to main came over that one, whichever client  *)
(* proxies connect, reconnect or come back after a restart.                *)
OneConnectionServed ==
  \A s, t \in Streams :
    taken[s] > 0 /\ taken[t] > 0 => <<Owner[s], conn[s]>> = <<Owner[t], conn[t]>>

(* A call that offers its stream on the channel made by bootstrap gets it  *)
(* accepted, while the process lives.                                      *)
OfferIsTaken ==
  \A s \in Streams :
    handler[s] = "offer" /\ chan[s] = 1 ~> handler[s] = "done" \/ Dead

(* A stream of client c, which holds the mutex, is in a TLS handshake with *)
(* a server proxy that has accepted another connection, and only that one. *)
HandshakeHangs(c) ==
  /\ served # Nobody
  /\ \E s \in Streams : Owner[s] = c /\ call[s] = "shake" /\ served # <<c, conn[s]>>

(* bootstrap returns to every OpenStream, also to those that wait for the  *)
(* mutex: the one thing that can keep them for ever is the handshake in    *)
(* tls.Dial of a second client, or of a client that dials again.           *)
BootstrapReturns ==
  \A s \in Streams :
    call[s] = "lock" ~> call[s] \in {"call", "failed"} \/ []HandshakeHangs(Owner[s])

(* On a connection that broke, or that Close has closed, every OpenStream  *)
(* fails and none hangs: the session keeps a broken connection.            *)
BrokenConnectionFails ==
  \A s \in Streams :
    /\ call[s] \in {"call", "wait"} /\ ~Alive(s) ~> call[s] = "failed"
    /\ call[s] = "lock" /\ rpcConn[Owner[s]] = "lost"
         ~> call[s] = "failed" \/ rpcConn[Owner[s]] # "lost"

(* "openStream @0 (down :ByteStream) -> (up :ByteStream)" (proxy.capnp):   *)
(* a call on a connection that the server proxy serves gets its results,   *)
(* or an error.                                                            *)
OpenStreamReturns ==
  \A s \in Streams :
    call[s] = "wait" /\ served = <<Owner[s], conn[s]>> ~> call[s] \in {"open", "failed"}

=============================================================================
