--------------------------- MODULE MCGrpcSession ---------------------------
(* Two streams opened through one gRPC session.                            *)
EXTENDS GrpcSession

CONSTANTS s1, s2

TwoStreams == {s1, s2}

=============================================================================
