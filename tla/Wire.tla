-------------------------------- MODULE Wire --------------------------------
(***************************************************************************)
(* What every kind of netx.Stream has in common once the bytes have left   *)
(* the caller: a stream is two independent halves, one per direction.      *)
(*                                                                         *)
(* A half is seen by two endpoints, the one that writes it and the one     *)
(* that reads it.  Chunks are numbered by the application that sent them   *)
(* (1, 2, 3 ...); what a chunk contains never matters to this code.        *)
(***************************************************************************)
EXTENDS Integers, Sequences

CONSTANT Window   \* chunks a half holds before its writer blocks

ASSUME WindowAssumption == Window \in Nat \ {0}

(* "up" runs from the client application to the server application.        *)
Dirs == {"up", "dn"}

Opp(d) == IF d = "up" THEN "dn" ELSE "up"

(* The call ByteStream.end of capnp and mdcapnp, queued among the chunks.  *)
END == 0

(***************************************************************************)
(* What is known about a half, as a set of flags:                          *)
(*   wshut  its writer has shut it                                         *)
(*   rshut  its reader has shut it                                         *)
(*   wgone  its writer closed the whole endpoint, or dropped its reference *)
(*   rgone  its reader closed the whole endpoint (sockets only)            *)
(*   eof    the end of the stream was processed on the reader's side       *)
(*   fail   a write was refused by the reader's side, or given up          *)
(*   reset  the connection was reset (sockets only)                        *)
(*   lost   the connection that carries the stream broke                   *)
(*   shaken its writer has done the TLS handshake (TLS only)               *)
(***************************************************************************)
Flags ==
  {"wshut", "rshut", "wgone", "rgone", "eof", "fail", "reset", "lost", "shaken"}

Half == [q : Seq(Nat), f : SUBSET Flags]

Stream == [Dirs -> Half]

NewStream == [d \in Dirs |-> [q |-> <<>>, f |-> {}]]

Put(s, d, m) == [s EXCEPT ![d] = [q |-> Append(@.q, m), f |-> @.f]]

Pop(s, d) == [s EXCEPT ![d] = [q |-> Tail(@.q), f |-> @.f]]

Mark(s, d, F) == [s EXCEPT ![d] = [q |-> @.q, f |-> @.f \cup F]]

(* Some flag of F is raised on half d.                                     *)
Any(s, d, F) == s[d].f \cap F # {}

MarkBoth(s, F) == [d \in Dirs |-> [q |-> s[d].q, f |-> s[d].f \cup F]]

HasChunk(s, d) == s[d].q # <<>> /\ Head(s[d].q) # END

HasEnd(s, d) == \E i \in DOMAIN s[d].q : s[d].q[i] = END

(* A read returns a chunk, a clean end of stream, or an error.             *)
ReadResults == {"data", "eof", "err"}

(* A write is accepted, refused, or waits for the peer's answer.           *)
WriteResults == {"ok", "err", "wait"}

=============================================================================
