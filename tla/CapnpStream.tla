---------------------------- MODULE CapnpStream -----------------------------
(***************************************************************************)
(* capnpStream and byteStreamReader (capnpnet/capnp_net.go).  A half is a  *)
(* ByteStream capability: its writer calls write and end, its reader hosts *)
(* a byteStreamReader that feeds an io.Pipe.  The calls on one capability  *)
(* are executed one after the other, and a write returns when the pipe's   *)
(* reader has taken the chunk, so the head of q is the call in progress.   *)
(***************************************************************************)
EXTENDS Wire

(* The pipe is closed, by end or by the local CloseRead.                   *)
PipeClosed(s, d) == Any(s, d, {"rshut", "eof"})

(* byteStreamReader.Read                                                   *)
CapnpRead(s, d) ==
  {r \in ReadResults :
     \/ r = "data" /\ HasChunk(s, d) /\ ~PipeClosed(s, d)
     \/ r = "eof"  /\ PipeClosed(s, d)}

(* capnpStream.Write looks at the closed flag first ...                    *)
CapnpWriteCheck(s, d) == ~Any(s, d, {"wshut"})

(* ... and then starts a streaming call: refused on a released capability, *)
(* after an earlier failed call or on a broken connection, and blocked by  *)
(* the flow limiter.                                                       *)
CapnpWrite(s, d) ==
  {r \in WriteResults :
     \/ r = "err" /\ Any(s, d, {"wgone", "fail", "lost"})
     \/ r = "ok"  /\ ~Any(s, d, {"wgone", "fail", "lost"}) /\ Len(s[d].q) < Window}

(* Mutant: a chunk is given up while the pipe is still open.               *)
CapnpServing_NoPipe(s, d) == s[d].q # <<>>

(* byteStreamReader.Write or End is called by the peer's RPC system.  A    *)
(* chunk stays at the head until it is read or the pipe is closed.         *)
CapnpServing(s, d) ==
  s[d].q # <<>> /\ (Head(s[d].q) = END \/ PipeClosed(s, d))

CapnpServe(s, d) ==
  Mark(Pop(s, d), d, IF Head(s[d].q) = END THEN {"eof"} ELSE {"fail"})

(* Mutant: the pipe is left open.                                          *)
CapnpCloseRead_KeepPipe(s, d) ==
  IF d = "dn" THEN Mark(s, "up", {"wgone"}) ELSE s

(* byteStreamReader.Close.  On the client's stream it also releases the    *)
(* results of openStream, and with them the borrowed capability "up".      *)
CapnpCloseRead(s, d) ==
  LET t == Mark(s, d, {"rshut"})
  IN  IF d = "dn" THEN Mark(t, "up", {"wgone"}) ELSE t

(* The first CloseWrite calls end and waits for its return.                *)
CapnpEndCalled(s, d) == ~Any(s, d, {"wshut", "wgone", "lost"})

CapnpCloseWrite(s, d) ==
  LET t == Mark(s, d, {"wshut"})
  IN  IF CapnpEndCalled(s, d) THEN Put(t, d, END) ELSE t

CapnpEndReturned(s, d) == ~HasEnd(s, d) \/ Any(s, d, {"lost"})

(* Close: CloseWrite, and once that has returned CloseRead and Release.    *)
CapnpCloseRest(s, o) == Mark(CapnpCloseRead(s, Opp(o)), o, {"wgone"})

(* The RPC connection breaks: of the calls under way a prefix has arrived. *)
RpcLose(s, ku, kd) ==
  [d \in Dirs |-> [q |-> SubSeq(s[d].q, 1, IF d = "up" THEN ku ELSE kd),
                   f |-> s[d].f \cup {"lost"}]]

=============================================================================
