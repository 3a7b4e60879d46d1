------------------------------ MODULE MCTunnel ------------------------------
(***************************************************************************)
(* Instances of Tunnel for TLC: two proxies, three streams, one chunk of   *)
(* buffer per half.  The kinds a run covers are named after what they have *)
(* in common.                                                              *)
(***************************************************************************)
EXTENDS Tunnel

AllKinds == Kinds

(* RPC streams whose CloseRead or Close tells the peer (of grpcStream      *)
(* neither does: they only set a flag).                                    *)
ReadClosing == {"capnp", "mdcapnp"}

(* A broken connection reaches the reader (the pipes of capnp and mdcapnp  *)
(* are closed by a call of end only).                                      *)
LossAware == {"std", "tls", "grpc"}

OnlyCapnp == {"capnp"}

OnlyMdcapnp == {"mdcapnp"}

Nobody == {}

ClientOnly == {"up"}

=============================================================================
