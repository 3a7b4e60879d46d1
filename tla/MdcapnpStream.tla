--------------------------- MODULE MdcapnpStream ----------------------------
(***************************************************************************)
(* streamImpl and byteStreamServer (mdcapnp/mdcapnp_net.go).  As in capnp  *)
(* a half is a ByteStream capability over an io.Pipe, but every Write      *)
(* waits for its return and the half-closes do nothing.                    *)
(***************************************************************************)
EXTENDS Wire

(* streamImpl.Read: a closed pipe reader fails, a closed pipe writer ends. *)
MdRead(s, d) ==
  {r \in ReadResults :
     \/ r = "data" /\ HasChunk(s, d) /\ ~Any(s, d, {"rshut", "eof"})
     \/ r = "eof"  /\ Any(s, d, {"eof"}) /\ ~Any(s, d, {"rshut"})
     \/ r = "err"  /\ Any(s, d, {"rshut"})}

(* streamImpl.Write sends the call and waits for its return.               *)
MdWrite(s, d) == IF Any(s, d, {"lost"}) THEN {"err"} ELSE {"wait"}

MdWriteReturned(s, d, m) ==
  Any(s, d, {"lost"}) \/ \A i \in DOMAIN s[d].q : s[d].q[i] # m

MdWriteReturn(s, d) == IF Any(s, d, {"lost", "fail"}) THEN "err" ELSE "ok"

(* byteStreamServer.Call                                                   *)
MdServing(s, d) ==
  s[d].q # <<>> /\ (Head(s[d].q) = END \/ Any(s, d, {"rshut", "eof"}))

MdServe(s, d) ==
  Mark(Pop(s, d), d, IF Head(s[d].q) = END THEN {"eof"} ELSE {"fail"})

(* CloseRead and CloseWrite: "rely on Close() being called".               *)
MdCloseRead(s, d) == s

MdCloseWrite(s, d) == s

(* Close shuts the pipe reader, calls end and waits for its return.        *)
MdClose(s, o) ==
  LET t == Mark(s, Opp(o), {"rshut"})
  IN  IF Any(s, o, {"lost"}) THEN t ELSE Put(t, o, END)

MdEndReturned(s, o) == ~HasEnd(s, o) \/ Any(s, o, {"lost"})

=============================================================================
