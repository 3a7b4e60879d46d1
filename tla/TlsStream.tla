----------------------------- MODULE TlsStream ------------------------------
(***************************************************************************)
(* stdStream (std_net.go) over a tls.Conn, which the +tls schemes select.  *)
(* A tls.Conn has no CloseRead, so that stdStream's does nothing; it ends  *)
(* a half by an alert, which it refuses to send before its handshake is    *)
(* done; and it takes a connection that ends between two records, without  *)
(* an alert, for the end of the stream.  The flag shaken on a half says    *)
(* that the endpoint that writes it has done its handshake: the client in  *)
(* tls.Dial, the server in its first Read or Write.                        *)
(***************************************************************************)
EXTENDS StdStream

TlsShaken(s, o) == Any(s, o, {"shaken"})

(* Data, then the alert or the end of the connection; the latter may also  *)
(* fall inside a record, or inside the handshake.                          *)
TlsRead(s, d) ==
  {r \in ReadResults :
     \/ /\ r = "data"
        /\ s[d].q # <<>> /\ TlsShaken(s, Opp(d)) /\ ~Any(s, d, {"rgone"})
     \/ /\ r = "eof"
        /\ s[d].q = <<>> /\ TlsShaken(s, Opp(d)) /\ ~Any(s, d, {"rgone"})
        /\ Any(s, d, {"wshut", "wgone"})
     \/ /\ r = "err"
        /\ \/ Any(s, d, {"rgone", "reset"})
           \/ s[d].q = <<>> /\ Any(s, d, {"wgone"}) /\ ~Any(s, d, {"wshut"})}

(* A Write does the handshake first, if that is not done yet.              *)
TlsWrite(s, d) == {r \in StdWrite(s, d) : r = "ok" => TlsShaken(s, d)}

(* CloseRead finds no such method.                                         *)
TlsCloseRead(s, d) == s

(* CloseWrite sends the alert, once; before the handshake is done it is    *)
(* refused.                                                                *)
TlsCloseWrite(s, d) ==
  IF TlsShaken(s, d) /\ ~Any(s, d, {"fail"}) THEN Mark(s, d, {"wshut"}) ELSE s

(* The alert waits behind data that the peer does not take.  It is given   *)
(* up after five seconds, and nothing can be written any more.             *)
TlsAlertStuck(s, d) ==
  /\ TlsShaken(s, d) /\ Len(s[d].q) >= Window
  /\ ~Any(s, d, {"wshut", "fail", "rgone", "reset"})

TlsAlertGivenUp(s, d) == Mark(s, d, {"fail"})

(* Close without an alert: the connection below is closed.                 *)
TlsAbort(s, o) ==
  LET t == Mark(Mark(s, o, {"wgone"}), Opp(o), {"rgone"})
  IN  IF s[Opp(o)].q # <<>> THEN MarkBoth(t, {"reset"}) ELSE t

(* Close sends the alert first, unless a Write is under way or the alert   *)
(* is stuck.                                                               *)
TlsClose(s, o) == TlsAbort(TlsCloseWrite(s, o), o)

(* The handshake: the client is done when the server has answered it, the  *)
(* server when the client's last message has arrived.                      *)
TlsHandshaking(s, o) ==
  /\ ~TlsShaken(s, o) /\ (o = "dn" => TlsShaken(s, "up"))
  /\ ~Any(s, o, {"wgone", "reset"})

TlsShake(s, o) == Mark(s, o, {"shaken"})

(* tls.Dial gives up on a connection that ends during the handshake.       *)
TlsRefused(s) == ~TlsShaken(s, "up") /\ Any(s, "dn", {"wgone", "reset"})

=============================================================================
