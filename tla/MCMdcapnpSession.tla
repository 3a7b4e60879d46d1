-------------------------- MODULE MCMdcapnpSession --------------------------
(* Three streams opened through one mdcapnp session.                       *)
EXTENDS MdcapnpSession

CONSTANTS s1, s2, s3

ThreeStreams == {s1, s2, s3}

=============================================================================
