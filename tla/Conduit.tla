------------------------------- MODULE Conduit -------------------------------
(***************************************************************************)
(* What a relayed connection promises to the two applications at its ends, *)
(* however many proxies and whichever transports lie between them: two     *)
(* conduits, one per direction, each of which                              *)
(*   - delivers a prefix of what was sent, in order and once;              *)
(*   - ends at most once, and delivers nothing after its end;              *)
(*   - ends cleanly only when everything has arrived, unless it was cut.   *)
(* A conduit is cut by a failure and, in the direction up, by the server   *)
(* application: handleStream closes both streams when the copy from        *)
(* upstream ends.                                                          *)
(***************************************************************************)
EXTENDS Naturals, Sequences

Directions == {"up", "dn"}

VARIABLES
  sent,   \* chunks sent, per direction
  shut,   \* the directions whose sender has ended its side
  cut,    \* the directions that may end early
  rcvd,   \* chunks delivered, per direction
  seen    \* how the receiver's stream ended: "none", "eof" or "err"

Init ==
  /\ sent = [d \in Directions |-> 0]
  /\ shut = {} /\ cut = {}
  /\ rcvd = [d \in Directions |-> <<>>]
  /\ seen = [d \in Directions |-> "none"]

Send(d) ==
  /\ d \notin shut
  /\ sent' = [sent EXCEPT ![d] = @ + 1]
  /\ UNCHANGED <<shut, rcvd, seen>>

Shut(d) ==
  /\ shut' = shut \cup {d}
  /\ d = "dn" => "up" \in cut'
  /\ UNCHANGED <<sent, rcvd, seen>>

Deliver(d) ==
  /\ seen[d] = "none" /\ Len(rcvd[d]) < sent[d]
  /\ rcvd' = [rcvd EXCEPT ![d] = Append(@, Len(@) + 1)]
  /\ UNCHANGED <<sent, shut, seen>>

End(d) ==
  /\ seen[d] = "none"
  /\ \/ /\ d \in cut \/ (d \in shut /\ Len(rcvd[d]) = sent[d])
        /\ seen' = [seen EXCEPT ![d] = "eof"]
     \/ /\ d \in cut
        /\ seen' = [seen EXCEPT ![d] = "err"]
  /\ UNCHANGED <<sent, shut, rcvd>>

(* A failure may strike with any step, or between two of them, and is      *)
(* never undone.                                                           *)
Fail == cut \subseteq cut' /\ cut' \subseteq Directions

Next ==
  /\ Fail
  /\ \/ \E d \in Directions : Send(d) \/ Shut(d) \/ Deliver(d) \/ End(d)
     \/ UNCHANGED <<sent, shut, rcvd, seen>>

Spec == Init /\ [][Next]_<<sent, shut, cut, rcvd, seen>>

=============================================================================
