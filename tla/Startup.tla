------------------------------- MODULE Startup -------------------------------
(***************************************************************************)
(* How a proxy gets from its arguments to its accept loop: splitAddress,   *)
(* the registries of session creators that the four init functions fill,   *)
(* newServerSession, newClientSession and the first AcceptStream           *)
(* (main.go, std_net.go, capnp_net.go, mdcapnp_net.go, grpc_net.go).       *)
(*                                                                         *)
(* An address is a sequence of tokens: words and the two separators the    *)
(* code looks for.                                                         *)
(***************************************************************************)
EXTENDS Naturals, Sequences

CONSTANTS
  Addresses,   \* the values -listen and -connect may have
  MayFail      \* listening and accepting may fail

ASSUME StartupAssumption ==
  /\ \A a \in Addresses : a \in Seq(STRING)
  /\ MayFail \in BOOLEAN

(* -cert and -key; -ca may also be the empty string.                       *)
CertFiles == {"ok", "bad"}
CAFiles == {"none", "ok", "unreadable", "notPEM"}

(* The environment variable SSLKEYLOGFILE: not set, or a file that can or  *)
(* cannot be opened.                                                       *)
KeyLogs == {"none", "ok", "bad"}

VARIABLES
  listen, connect, cert, ca, keylog,   \* the arguments and the environment
  pc,          \* where main is
  server,      \* the server session
  client,      \* the client session
  failed       \* net.Listen or AcceptStream failed

args == <<listen, connect, cert, ca, keylog>>
vars == <<args, pc, server, client, failed>>

-----------------------------------------------------------------------------
(* Splitting the address *)

(* strings.SplitN(s, sep, 2)                                               *)
SplitN(s, sep) ==
  LET at == {i \in DOMAIN s : s[i] = sep}
  IN  IF at = {} THEN <<s>>
      ELSE LET first == CHOOSE i \in at : \A j \in at : i <= j
           IN  <<SubSeq(s, 1, first - 1), SubSeq(s, first + 1, Len(s))>>

HasScheme(s) == Len(SplitN(s, "://")) = 2

splitAddress(s) ==
  LET parts == SplitN(s, "://")
      schemes == SplitN(parts[1], "+")
  IN  [network |-> schemes[1],
       tls |-> Len(schemes) = 2 /\ schemes[2] = <<"tls">>,
       addr |-> parts[2]]

-----------------------------------------------------------------------------
(* The registries *)

StdSchemes == {"tcp", "tcp4", "tcp6", "unix", "unixpacket"}

RpcSchemes == {"capnp", "mdcapnp", "grpc"}

(* Mutant: it is not checked that the scheme is registered.                *)
Registered_Any(network) == Len(network) = 1

(* serverSessionCreators and clientSessionCreators have the same keys.     *)
Registered(network) == Len(network) = 1 /\ network[1] \in StdSchemes \cup RpcSchemes

(* A TLS configuration has a KeyLogWriter if the file could be opened; it  *)
(* is only logged if not.                                                  *)
KeyLogWriter(a) == a.tls /\ keylog = "ok"

(* Where a listener is bound or a client dials, and whether with TLS.      *)
Endpoint(network, a) == [network |-> network, addr |-> a.addr, tls |-> a.tls]

Nowhere == [network |-> "none", addr |-> <<>>, tls |-> FALSE]

(* The server session of a creator that listens at once.                   *)
Listening(kind, at, k) == [kind |-> kind, at |-> Nowhere, listener |-> at, keylog |-> k]

(* serverSessionCreators: one function for the schemes of sockets, which   *)
(* are networks, one for each RPC system, which runs over tcp.             *)
netListen(a) == Listening("std", Endpoint(a.network[1], a), KeyLogWriter(a))

capnpServer(a) == Listening("capnp", Endpoint("tcp", a), KeyLogWriter(a))

mdcapnpServer(a) == Listening("mdcapnp", Endpoint("tcp", a), KeyLogWriter(a))

(* gRPC only notes where it will listen.                                   *)
grpcServer(a) ==
  [kind |-> "grpc", at |-> Endpoint("tcp", a), listener |-> Nowhere, keylog |-> KeyLogWriter(a)]

(* clientSessionCreators: a client notes where it will dial.               *)
Dialing(kind, at, k) == [kind |-> kind, at |-> at, keylog |-> k]

(* Mutant: sockets are dialed over tcp, as the RPC systems are.            *)
netDial_Tcp(a) == Dialing("std", Endpoint("tcp", a), KeyLogWriter(a))

netDial(a) == Dialing("std", Endpoint(a.network[1], a), KeyLogWriter(a))

capnpClient(a) == Dialing("capnp", Endpoint("tcp", a), KeyLogWriter(a))

mdcapnpClient(a) == Dialing("mdcapnp", Endpoint("tcp", a), KeyLogWriter(a))

grpcClient(a) == Dialing("grpc", Endpoint("tcp", a), KeyLogWriter(a))

ServerSession(s) ==
  LET a == splitAddress(s)
      n == a.network[1]
  IN  CASE n = "capnp"   -> capnpServer(a)
        [] n = "mdcapnp" -> mdcapnpServer(a)
        [] n = "grpc"    -> grpcServer(a)
        [] OTHER         -> netListen(a)

ClientSession(s) ==
  LET a == splitAddress(s)
      n == a.network[1]
  IN  CASE n = "capnp"   -> capnpClient(a)
        [] n = "mdcapnp" -> mdcapnpClient(a)
        [] n = "grpc"    -> grpcClient(a)
        [] OTHER         -> netDial(a)

NoSession == [kind |-> "none"]

-----------------------------------------------------------------------------
Schemes == StdSchemes \cup RpcSchemes

Kinds == {"std"} \cup RpcSchemes

Endpoints == {Nowhere} \cup [network : Schemes, addr : Seq(STRING), tls : BOOLEAN]

ServerSessions ==
  {NoSession} \cup [kind : Kinds, at : Endpoints, listener : Endpoints, keylog : BOOLEAN]

ClientSessions == {NoSession} \cup [kind : Kinds, at : Endpoints, keylog : BOOLEAN]

TypeOK ==
  /\ listen \in Addresses /\ connect \in Addresses
  /\ cert \in CertFiles /\ ca \in CAFiles /\ keylog \in KeyLogs
  /\ pc \in {"newServer", "newClient", "accept", "serving", "exit"}
  /\ server \in ServerSessions /\ client \in ClientSessions
  /\ failed \in BOOLEAN

Init ==
  /\ listen \in Addresses /\ connect \in Addresses
  /\ cert \in CertFiles /\ ca \in CAFiles /\ keylog \in KeyLogs
  /\ pc = "newServer"
  /\ server = NoSession /\ client = NoSession /\ failed = FALSE

(* log.Fatalf or log.Panicf                                                *)
Exit == pc' = "exit" /\ UNCHANGED <<args, server, client>>

(* Mutant: a certificate that cannot be loaded is only logged.             *)
getServerTLSConfig_Log(s) == TRUE

(* getServerTLSConfig loads the certificate, if TLS is asked for.          *)
getServerTLSConfig(s) == splitAddress(s).tls => cert = "ok"

(* Mutant: the CA file (by default ./ca.pem) is read without TLS, too.     *)
getClientTLSConfig_Always(s) == ca \in {"none", "ok"}

(* getClientTLSConfig reads the CA file, if there is one.                  *)
getClientTLSConfig(s) == splitAddress(s).tls => ca \in {"none", "ok"}

ServerArgsOK ==
  HasScheme(listen) /\ Registered(splitAddress(listen).network) /\ getServerTLSConfig(listen)

ClientArgsOK ==
  HasScheme(connect) /\ Registered(splitAddress(connect).network) /\ getClientTLSConfig(connect)

(* newServerSession listens, except for gRPC.                              *)
newServerSession ==
  /\ pc = "newServer" /\ ServerArgsOK
  /\ server' = ServerSession(listen)
  /\ pc' = "newClient"
  /\ UNCHANGED <<args, client, failed>>

newServerSessionFail ==
  /\ pc = "newServer"
  /\ ServerArgsOK => MayFail /\ ServerSession(listen).listener # Nowhere
  /\ failed' = ServerArgsOK
  /\ Exit

(* newClientSession connects to nothing yet.                               *)
newClientSession ==
  /\ pc = "newClient" /\ ClientArgsOK
  /\ client' = ClientSession(connect)
  /\ pc' = "accept"
  /\ UNCHANGED <<args, server, failed>>

newClientSessionFail ==
  /\ pc = "newClient" /\ ~ClientArgsOK
  /\ UNCHANGED failed
  /\ Exit

(* The bootstrap of the server session: gRPC listens now.                  *)
Bootstrap(session) ==
  IF session.kind = "grpc" THEN [session EXCEPT !.listener = session.at] ELSE session

(* main calls AcceptStream for the first time.                             *)
AcceptStream ==
  /\ pc = "accept"
  /\ server' = Bootstrap(server)
  /\ pc' = "serving"
  /\ UNCHANGED <<args, client, failed>>

(* The first call of AcceptStream, or a later one, returns an error.       *)
AcceptStreamFail ==
  /\ pc \in {"accept", "serving"} /\ MayFail
  /\ failed' = TRUE
  /\ Exit

Next ==
  \/ newServerSession \/ newServerSessionFail
  \/ newClientSession \/ newClientSessionFail
  \/ AcceptStream \/ AcceptStreamFail

Spec == Init /\ [][Next]_vars

-----------------------------------------------------------------------------
(* What the flags promise: "add tls to enable TLS, e.g. tcp+tls".          *)
AsksTLS(s) ==
  Len(s) >= 4 /\ s[2] = "+" /\ s[3] = "tls" /\ s[4] = "://" /\ s[1] \notin {"+", "://"}

(* A proxy that accepts streams uses TLS on the sides it was asked to, on  *)
(* no other, and has the files that TLS needs: no missing or broken file   *)
(* turns into a session without protection, and the keys are written       *)
(* nowhere but to the file asked for. The TLS of a side is that of the     *)
(* listener that is open, and of the dial.                                 *)
SecureAsAsked ==
  pc = "serving" =>
    /\ server.listener.tls = AsksTLS(listen) /\ client.at.tls = AsksTLS(connect)
    /\ server.listener.tls => cert = "ok"
    /\ client.at.tls => ca \notin {"unreadable", "notPEM"}
    /\ server.keylog \/ client.keylog => keylog = "ok"

(* An address the help text describes: <scheme>://<address>, where the     *)
(* scheme may have a suffix.                                               *)
WellFormed(s) ==
  \E i \in DOMAIN s : /\ s[i] = "://"
                      /\ i > 1 /\ s[1] \in StdSchemes \cup RpcSchemes
                      /\ i = 2 \/ s[2] = "+"

(* A proxy does not stop for something it was not asked to use: it starts  *)
(* without certificates where there is no TLS (the flags have default      *)
(* paths that need not exist), without a key log, and with any suffix.     *)
ExitHasCause ==
  pc = "exit" =>
    \/ failed
    \/ ~WellFormed(listen) \/ ~WellFormed(connect)
    \/ AsksTLS(listen) /\ cert = "bad"
    \/ AsksTLS(connect) /\ ca \in {"unreadable", "notPEM"}

(* Two proxies given the same address, one to listen on and one to connect *)
(* to, meet: what the client's creator will dial is where the server's     *)
(* creator, or the first AcceptStream, has listened, on the same network   *)
(* and with TLS on both sides or on neither, and both speak one protocol.  *)
SidesAgree ==
  pc = "serving" /\ listen = connect =>
    client.kind = server.kind /\ client.at = server.listener

=============================================================================
