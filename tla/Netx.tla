-------------------------------- MODULE Netx --------------------------------
(***************************************************************************)
(* The interface netx.Stream (netx/netx.go): each operation, dispatched on *)
(* the kind of the stream as Go dispatches the method call.                *)
(*                                                                         *)
(* A call that can block between two effects is given in two parts: the    *)
(* effect of the call, and the condition under which it returns.           *)
(***************************************************************************)
EXTENDS StdStream, TlsStream, CapnpStream, GrpcStream, MdcapnpStream

Kinds == {"std", "tls", "capnp", "grpc", "mdcapnp"}

(* The kinds of stdStream, without and with the suffix +tls.               *)
Sockets == {"std", "tls"}

(* The kinds whose Read or Write looks at a local flag before it blocks.   *)
ReadChecks == {"grpc"}

WriteChecks == {"capnp", "grpc"}

WriteCheck(k, s, d) ==
  CASE k = "capnp" -> CapnpWriteCheck(s, d)
    [] k = "grpc"  -> GrpcWriteCheck(s, d)

Read(k, s, d) ==
  CASE k = "std"     -> StdRead(s, d)
    [] k = "tls"     -> TlsRead(s, d)
    [] k = "capnp"   -> CapnpRead(s, d)
    [] k = "grpc"    -> GrpcRecv(s, d)
    [] k = "mdcapnp" -> MdRead(s, d)

Write(k, s, d) ==
  CASE k = "std"     -> StdWrite(s, d)
    [] k = "tls"     -> TlsWrite(s, d)
    [] k = "capnp"   -> CapnpWrite(s, d)
    [] k = "grpc"    -> GrpcSend(s, d)
    [] k = "mdcapnp" -> MdWrite(s, d)

(* The stream after a Write of m that was not refused.                     *)
Written(k, s, d, m) == IF k \in Sockets THEN StdWritten(s, d, m) ELSE Put(s, d, m)

CloseRead(k, s, d) ==
  CASE k = "std"     -> StdCloseRead(s, d)
    [] k = "tls"     -> TlsCloseRead(s, d)
    [] k = "capnp"   -> CapnpCloseRead(s, d)
    [] k = "grpc"    -> GrpcCloseRead(s, d)
    [] k = "mdcapnp" -> MdCloseRead(s, d)

CloseWrite(k, s, d) ==
  CASE k = "std"     -> StdCloseWrite(s, d)
    [] k = "tls"     -> TlsCloseWrite(s, d)
    [] k = "capnp"   -> CapnpCloseWrite(s, d)
    [] k = "grpc"    -> GrpcCloseWrite(s, d)
    [] k = "mdcapnp" -> MdCloseWrite(s, d)

(* CloseWrite waits for the peer (capnp: the return of end).               *)
CloseWriteWaits(k, s, d) == k = "capnp" /\ CapnpEndCalled(s, d)

(* Close by the endpoint that writes direction o, up to where it waits ... *)
Close(k, s, o) ==
  CASE k = "std"     -> StdClose(s, o)
    [] k = "tls"     -> TlsClose(s, o)
    [] k = "capnp"   -> CapnpCloseWrite(s, o)
    [] k = "grpc"    -> GrpcClose(s, o)
    [] k = "mdcapnp" -> MdClose(s, o)

CloseWaits(k, s, o) ==
  \/ k = "capnp"   /\ CapnpEndCalled(s, o)
  \/ k = "mdcapnp" /\ ~Any(s, o, {"lost"})

EndReturned(k, s, o) ==
  IF k = "capnp" THEN CapnpEndReturned(s, o) ELSE MdEndReturned(s, o)

(* ... and what it does after that.                                        *)
CloseRest(k, s, o) == IF k = "capnp" THEN CapnpCloseRest(s, o) ELSE s

(* Work done for the stream by the RPC system on the reader's side.        *)
Serving(k, s, d) ==
  CASE k \in Sockets -> FALSE
    [] k = "capnp"   -> CapnpServing(s, d)
    [] k = "grpc"    -> GrpcServing(s, d)
    [] k = "mdcapnp" -> MdServing(s, d)

Serve(k, s, d) ==
  CASE k = "capnp"   -> CapnpServe(s, d)
    [] k = "grpc"    -> GrpcServe(s, d)
    [] k = "mdcapnp" -> MdServe(s, d)

=============================================================================
