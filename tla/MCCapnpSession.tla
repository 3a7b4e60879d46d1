--------------------------- MODULE MCCapnpSession ---------------------------
(* Two client proxies, one of which opens two streams.                     *)
EXTENDS CapnpSession

CONSTANTS c1, c2, s1, s2, s3

TwoClients == {c1, c2}

OneClient == {c1}

ThreeStreams == {s1, s2, s3}

TwoStreams == {s1, s2}

Owners == [s \in ThreeStreams |-> IF s = s3 THEN c2 ELSE c1]

SameOwner == [s \in TwoStreams |-> c1]

=============================================================================
