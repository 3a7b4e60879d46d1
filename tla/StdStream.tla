----------------------------- MODULE StdStream ------------------------------
(***************************************************************************)
(* stdStream (std_net.go): a net.Conn used as a netx.Stream.  Read, Write  *)
(* and Close are the embedded connection's; CloseRead and CloseWrite go to *)
(* the socket's shutdown.  The socket is the operating system's, modelled  *)
(* by what the relay observes of it: FIN, reset, bounded buffers.          *)
(***************************************************************************)
EXTENDS Wire

(* Queued data comes before the FIN; a reset may overtake queued data.     *)
StdRead(s, d) ==
  {r \in ReadResults :
     \/ /\ r = "data"
        /\ s[d].q # <<>> /\ ~Any(s, d, {"rgone"})
     \/ /\ r = "eof"
        /\ s[d].q = <<>> /\ ~Any(s, d, {"rgone"}) /\ Any(s, d, {"wshut", "rshut"})
     \/ /\ r = "err"
        /\ Any(s, d, {"rgone", "reset"})}

(* Refused after a local shutdown or a reset; blocks while the buffers are *)
(* full and the peer is still there.                                       *)
StdWrite(s, d) ==
  {r \in WriteResults :
     \/ /\ r = "err"
        /\ Any(s, d, {"wshut", "wgone", "reset"})
     \/ /\ r = "ok"
        /\ ~Any(s, d, {"wshut", "wgone", "reset"})
        /\ Len(s[d].q) < Window \/ Any(s, d, {"rgone"})}

(* Data for an endpoint that is closed is answered by a reset.             *)
StdWritten(s, d, m) ==
  IF Any(s, d, {"rgone"}) THEN MarkBoth(s, {"reset"}) ELSE Put(s, d, m)

(* CloseRead: shutdown(SHUT_RD).                                           *)
StdCloseRead(s, d) == Mark(s, d, {"rshut"})

(* CloseWrite: shutdown(SHUT_WR), the peer gets a FIN after the data.      *)
StdCloseWrite(s, d) == Mark(s, d, {"wshut"})

(* Close by the endpoint that writes direction o; unread data turns the    *)
(* FIN into a reset.                                                       *)
StdClose(s, o) ==
  LET t == Mark(Mark(s, o, {"wshut", "wgone"}), Opp(o), {"rgone"})
  IN  IF s[Opp(o)].q # <<>> THEN MarkBoth(t, {"reset"}) ELSE t

(* The network under the connection breaks.                                *)
StdLose(s) == MarkBoth(s, {"reset"})

=============================================================================
