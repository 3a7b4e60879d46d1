----------------------------- MODULE GrpcStream -----------------------------
(***************************************************************************)
(* grpcStream (grpcnet/grpc_net.go): one bidirectional gRPC call.  The     *)
(* client writes "up" and can half-close it (CloseSend); the server writes *)
(* "dn", which ends only when its handler ServerSession.OpenStream returns.*)
(* The flag eof, on both halves, says that the handler has returned.       *)
(***************************************************************************)
EXTENDS Wire

(* Read returns io.EOF after CloseRead; otherwise it calls Recv.           *)
GrpcReadCheck(s, d) == ~Any(s, d, {"rshut"})

(* Mutant: the half-close overtakes queued packets.                        *)
GrpcRecv_EofFirst(s, d) ==
  {r \in ReadResults :
     \/ r = "data" /\ s[d].q # <<>>
     \/ r = "eof"  /\ Any(s, d, IF d = "up" THEN {"wshut"} ELSE {"eof"})
     \/ r = "err"  /\ Any(s, d, IF d = "up" THEN {"eof", "lost"} ELSE {"lost"})}

(* Mutant: the error of Recv is dropped and the read tried again.          *)
GrpcRecv_Retry(s, d) ==
  {r \in ReadResults :
     \/ r = "data" /\ s[d].q # <<>>
     \/ /\ r = "eof"
        /\ s[d].q = <<>>
        /\ Any(s, d, IF d = "up" THEN {"wshut"} ELSE {"eof"})}

GrpcRecv(s, d) ==
  {r \in ReadResults :
     \/ r = "data" /\ s[d].q # <<>>
     \/ /\ r = "eof"
        /\ s[d].q = <<>>
        /\ Any(s, d, IF d = "up" THEN {"wshut"} ELSE {"eof"})
     \/ /\ r = "err"
        /\ Any(s, d, IF d = "up" THEN {"eof", "lost"} ELSE {"lost"})}

(* Write looks at writeClosed first, then calls Send.                      *)
GrpcWriteCheck(s, d) == ~Any(s, d, {"wshut"})

(* Send is refused once the call is over (the client may learn that late)  *)
(* or after CloseSend, and blocked by HTTP/2 flow control.                 *)
GrpcSend(s, d) ==
  LET shut == d = "up" /\ Any(s, d, {"wshut"})
  IN  {r \in WriteResults :
         \/ r = "err" /\ (shut \/ Any(s, d, {"eof", "lost"}))
         \/ r = "ok"  /\ ~shut /\ ~Any(s, d, {"lost"}) /\ Len(s[d].q) < Window}

GrpcCloseRead(s, d) == Mark(s, d, {"rshut"})

(* Mutant: writeClosed is taken to be set already, no CloseSend.           *)
GrpcCloseWrite_NoCloseSend(s, d) == s

(* The client's stream has CloseSend, the server's has not.                *)
GrpcCloseWrite(s, d) == Mark(s, d, {"wshut"})

(* Close: CloseRead, CloseWrite and the server's closeCallback, which      *)
(* closes the channel the handler waits on (wgone on "dn").                *)
GrpcClose(s, o) ==
  Mark(GrpcCloseWrite(GrpcCloseRead(s, Opp(o)), o), o,
       IF o = "dn" THEN {"wgone"} ELSE {})

(* The handler ServerSession.OpenStream returns after closeCallback.       *)
GrpcServing(s, d) ==
  d = "dn" /\ Any(s, d, {"wgone"}) /\ ~Any(s, d, {"eof"})

GrpcServe(s, d) == MarkBoth(s, {"eof"})

=============================================================================
