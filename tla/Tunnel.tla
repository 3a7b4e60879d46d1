------------------------------- MODULE Tunnel -------------------------------
(***************************************************************************)
(* One connection relayed end to end.  A client application dials the      *)
(* first proxy, every proxy relays to the next one, the last proxy to the  *)
(* server application (README.md, "Usage": two proxies, three streams).    *)
(*                                                                         *)
(*   application --1--> proxy 1 --2--> proxy 2 --3--> application          *)
(*                                                                         *)
(* Stream p is the "down" stream of proxy p and stream p + 1 is its "up"   *)
(* stream.  The outermost streams are sockets, the ones between proxies    *)
(* are of the kind the -listen and -connect schemes select.  A proxy runs, *)
(* for this connection, the goroutine handleStream, which also copies      *)
(* "dn", and the goroutine that copies "up" (main.go).                     *)
(***************************************************************************)
EXTENDS Netx

CONSTANTS
  Hops,       \* the number of streams in the chain
  Inners,     \* the kinds the streams between two proxies may be of
  MaxUp,      \* bound: chunks the client application sends
  MaxDn,      \* bound: chunks the server application sends
  MaxSent,    \* bound: chunks they send together
  Abrupt,     \* the applications (by the direction they write) that may
              \* close at any time, not only at the end of the stream
  MayLose,    \* the connections between proxies may break, or stall longer
              \* than TLS waits for an alert to go out
  MayRefuse   \* opening the upstream may fail

ASSUME TunnelAssumption ==
  /\ Hops \in Nat /\ Hops >= 2
  /\ Inners \subseteq Kinds
  /\ MaxUp \in Nat /\ MaxDn \in Nat /\ MaxSent \in Nat
  /\ Abrupt \subseteq Dirs
  /\ MayLose \in BOOLEAN /\ MayRefuse \in BOOLEAN

Links == 1 .. Hops
Proxies == 1 .. (Hops - 1)

(* The streams a proxy copies from and to, for each direction.             *)
Src(p, d) == IF d = "up" THEN p ELSE p + 1
Dst(p, d) == IF d = "up" THEN p + 1 ELSE p

(* The application that writes direction d sits on this stream, and reads  *)
(* the opposite direction of it.                                           *)
AppLink(d) == IF d = "up" THEN 1 ELSE Hops

MaxChunks(d) == IF d = "up" THEN MaxUp ELSE MaxDn

VARIABLES
  inner,   \* the kind of the streams between two proxies
  link,    \* the streams
  dialed,  \* the streams that exist
  hs,      \* the control state of handleStream at each proxy
  cp,      \* the copyStream goroutines, per proxy and direction
  sent,    \* chunks written by each application
  rcvd,    \* chunks delivered at the far end, per direction
  seen     \* how reading ended at the far end: "none", "eof" or "err"

Kind(l) == IF l \in {1, Hops} THEN "std" ELSE inner

vars == <<inner, link, dialed, hs, cp, sent, rcvd, seen>>

HandlerStates ==
  {"idle", "open", "opened", "relay", "upWait", "downClose", "downWait", "done"}

CopyStates ==
  {"off", "read", "recv", "write", "send", "wait", "closeRead", "closeWrite",
   "endWait", "end"}

(* copyStream: its place in the code, the chunk in io.Copy's buffer (0 for *)
(* none), the number of chunks it reports as written, copyErr # nil.       *)
Copier == [pc : CopyStates, hand : Nat, written : Nat, err : BOOLEAN]

TypeOK ==
  /\ inner \in Inners
  /\ link \in [Links -> Stream]
  /\ dialed \subseteq Links
  /\ hs \in [Proxies -> HandlerStates]
  /\ cp \in [Proxies -> [Dirs -> Copier]]
  /\ sent \in [Dirs -> Nat]
  /\ rcvd \in [Dirs -> Seq(Nat)]
  /\ seen \in [Dirs -> {"none", "eof", "err"}]

Init ==
  /\ inner \in Inners
  /\ link = [l \in Links |-> NewStream]
  /\ dialed = {1}
  /\ hs = [p \in Proxies |-> "idle"]
  /\ cp = [p \in Proxies |->
             [d \in Dirs |-> [pc |-> "off", hand |-> 0, written |-> 0, err |-> FALSE]]]
  /\ sent = [d \in Dirs |-> 0]
  /\ rcvd = [d \in Dirs |-> <<>>]
  /\ seen = [d \in Dirs |-> "none"]

rest == <<inner, sent, rcvd, seen>>

-----------------------------------------------------------------------------
(* handleStream *)

(* The accept loop of main takes the stream and starts handleStream.       *)
Accept(p) ==
  /\ hs[p] = "idle" /\ p \in dialed
  /\ hs' = [hs EXCEPT ![p] = "open"]
  /\ UNCHANGED <<link, dialed, cp, rest>>

(* client.OpenStream: the stream comes into being ...                      *)
OpenStream(p) ==
  /\ hs[p] = "open"
  /\ dialed' = dialed \cup {p + 1}
  /\ hs' = [hs EXCEPT ![p] = "opened"]
  /\ UNCHANGED <<link, cp, rest>>

(* ... and the call returns; with capnp only after the server has accepted *)
(* the stream, with TLS after the handshake.  Both directions are then     *)
(* copied.                                                                 *)
OpenStreamReturn(p) ==
  /\ hs[p] = "opened"
  /\ Kind(p + 1) = "capnp" => hs[p + 1] # "idle"
  /\ Kind(p + 1) = "tls" => TlsShaken(link[p + 1], "up")
  /\ hs' = [hs EXCEPT ![p] = "relay"]
  /\ cp' = [cp EXCEPT ![p] = [d \in Dirs |-> [cp[p][d] EXCEPT !.pc = "read"]]]
  /\ UNCHANGED <<link, dialed, rest>>

(* client.OpenStream fails: only the deferred down.Close() remains.        *)
OpenStreamFail(p) ==
  /\ hs[p] = "open" /\ MayRefuse
  /\ hs' = [hs EXCEPT ![p] = "downClose"]
  /\ UNCHANGED <<link, dialed, cp, rest>>

(* The connection ends while OpenStream waits for its results, or for the  *)
(* handshake (tls.Dial then closes its end, of which nobody is left to     *)
(* take notice).                                                           *)
OpenStreamLost(p) ==
  /\ hs[p] = "opened"
  /\ \/ Kind(p + 1) \in {"capnp", "mdcapnp"} /\ Any(link[p + 1], "up", {"lost"})
     \/ Kind(p + 1) = "tls" /\ TlsRefused(link[p + 1])
  /\ hs' = [hs EXCEPT ![p] = "downClose"]
  /\ UNCHANGED <<link, dialed, cp, rest>>

(* Mutant: handleStream goes on when the wrong copy has returned.          *)
UpClose_WrongCopy(p) ==
  LET k == Kind(p + 1)
      t == Close(k, link[p + 1], "up")
  IN  /\ hs[p] = "relay" /\ cp[p]["up"].pc = "end"
      /\ IF CloseWaits(k, link[p + 1], "up")
         THEN /\ link' = [link EXCEPT ![p + 1] = t]
              /\ hs' = [hs EXCEPT ![p] = "upWait"]
         ELSE /\ link' = [link EXCEPT ![p + 1] = CloseRest(k, t, "up")]
              /\ hs' = [hs EXCEPT ![p] = "downClose"]
      /\ UNCHANGED <<dialed, cp, rest>>

(* copyStream(up, down) has returned: the deferred up.Close() runs first.  *)
UpClose(p) ==
  LET k == Kind(p + 1)
      t == Close(k, link[p + 1], "up")
  IN  /\ hs[p] = "relay" /\ cp[p]["dn"].pc = "end"
      /\ IF CloseWaits(k, link[p + 1], "up")
         THEN /\ link' = [link EXCEPT ![p + 1] = t]
              /\ hs' = [hs EXCEPT ![p] = "upWait"]
         ELSE /\ link' = [link EXCEPT ![p + 1] = CloseRest(k, t, "up")]
              /\ hs' = [hs EXCEPT ![p] = "downClose"]
      /\ UNCHANGED <<dialed, cp, rest>>

(* With TLS no alert is sent while the other copy is in Write.             *)
UpAbort(p) ==
  /\ hs[p] = "relay" /\ cp[p]["dn"].pc = "end" /\ Kind(p + 1) = "tls"
  /\ cp[p]["up"].pc = "write" \/ (MayLose /\ TlsAlertStuck(link[p + 1], "up"))
  /\ link' = [link EXCEPT ![p + 1] = TlsAbort(@, "up")]
  /\ hs' = [hs EXCEPT ![p] = "downClose"]
  /\ UNCHANGED <<dialed, cp, rest>>

UpCloseReturn(p) ==
  LET k == Kind(p + 1)
  IN  /\ hs[p] = "upWait"
      /\ EndReturned(k, link[p + 1], "up")
      /\ link' = [link EXCEPT ![p + 1] = CloseRest(k, @, "up")]
      /\ hs' = [hs EXCEPT ![p] = "downClose"]
      /\ UNCHANGED <<dialed, cp, rest>>

(* The deferred down.Close().  With TLS the alert is neither skipped nor   *)
(* stuck here: the only copier that writes to down has returned.           *)
DownClose(p) ==
  LET k == Kind(p)
      t == Close(k, link[p], "dn")
  IN  /\ hs[p] = "downClose"
      /\ IF CloseWaits(k, link[p], "dn")
         THEN /\ link' = [link EXCEPT ![p] = t]
              /\ hs' = [hs EXCEPT ![p] = "downWait"]
         ELSE /\ link' = [link EXCEPT ![p] = CloseRest(k, t, "dn")]
              /\ hs' = [hs EXCEPT ![p] = "done"]
      /\ UNCHANGED <<dialed, cp, rest>>

DownCloseReturn(p) ==
  LET k == Kind(p)
  IN  /\ hs[p] = "downWait"
      /\ EndReturned(k, link[p], "dn")
      /\ link' = [link EXCEPT ![p] = CloseRest(k, @, "dn")]
      /\ hs' = [hs EXCEPT ![p] = "done"]
      /\ UNCHANGED <<dialed, cp, rest>>

HandleStream(p) ==
  \/ Accept(p) \/ OpenStream(p) \/ OpenStreamReturn(p) \/ OpenStreamLost(p)
  \/ UpClose(p) \/ UpAbort(p) \/ UpCloseReturn(p)
  \/ DownClose(p) \/ DownCloseReturn(p)

-----------------------------------------------------------------------------
(* copyStream: io.Copy, then src.CloseRead, then dst.CloseWrite *)

Become(p, d, c) == cp' = [cp EXCEPT ![p][d] = c]

Goto(p, d, pc) == Become(p, d, [cp[p][d] EXCEPT !.pc = pc])

(* io.Copy returns, with or without an error.                              *)
Stop(p, d, failed) ==
  Become(p, d, [cp[p][d] EXCEPT !.pc = "closeRead", !.err = failed])

CopyReadCheck(p, d) ==
  LET l == Src(p, d)
  IN  /\ cp[p][d].pc = "read" /\ Kind(l) \in ReadChecks
      /\ IF GrpcReadCheck(link[l], d) THEN Goto(p, d, "recv") ELSE Stop(p, d, FALSE)
      /\ UNCHANGED <<link, dialed, hs, rest>>

CopyRead(p, d) ==
  LET l == Src(p, d)
  IN  /\ cp[p][d].pc = IF Kind(l) \in ReadChecks THEN "recv" ELSE "read"
      /\ \/ /\ "data" \in Read(Kind(l), link[l], d)
            /\ Become(p, d, [cp[p][d] EXCEPT !.pc = "write", !.hand = Head(link[l][d].q)])
            /\ link' = [link EXCEPT ![l] = Pop(@, d)]
         \/ /\ "eof" \in Read(Kind(l), link[l], d)
            /\ Stop(p, d, FALSE)
            /\ UNCHANGED link
         \/ /\ "err" \in Read(Kind(l), link[l], d)
            /\ Stop(p, d, TRUE)
            /\ UNCHANGED link
      /\ UNCHANGED <<dialed, hs, rest>>

CopyWriteCheck(p, d) ==
  LET l == Dst(p, d)
  IN  /\ cp[p][d].pc = "write" /\ Kind(l) \in WriteChecks
      /\ IF WriteCheck(Kind(l), link[l], d) THEN Goto(p, d, "send") ELSE Stop(p, d, TRUE)
      /\ UNCHANGED <<link, dialed, hs, rest>>

(* Mutant: the chunk just written is not dropped from the buffer.          *)
NextChunk_Again(p, d) ==
  Become(p, d, [cp[p][d] EXCEPT !.pc = "write", !.written = @ + 1])

(* io.Copy after a Write that returned without an error.                   *)
NextChunk(p, d) ==
  Become(p, d, [cp[p][d] EXCEPT !.pc = "read", !.hand = 0, !.written = @ + 1])

(* Mutant: a refused chunk is taken off the count.                         *)
StopWriting_Uncount(p, d) ==
  Become(p, d, [pc |-> "closeRead", hand |-> 0,
                written |-> cp[p][d].written - 1, err |-> TRUE])

(* io.Copy after a Write that failed.  streamImpl.Write reports the chunk  *)
(* as written all the same, and io.Copy counts it before it looks at err.  *)
StopWriting(p, d) ==
  IF Kind(Dst(p, d)) = "mdcapnp"
  THEN Become(p, d, [pc |-> "closeRead", hand |-> 0,
                     written |-> cp[p][d].written + 1, err |-> TRUE])
  ELSE Stop(p, d, TRUE)

CopyWrite(p, d) ==
  LET l == Dst(p, d)
      t == Written(Kind(l), link[l], d, cp[p][d].hand)
  IN  /\ cp[p][d].pc = IF Kind(l) \in WriteChecks THEN "send" ELSE "write"
      /\ \/ /\ "ok" \in Write(Kind(l), link[l], d)
            /\ NextChunk(p, d)
            /\ link' = [link EXCEPT ![l] = t]
         \/ /\ "wait" \in Write(Kind(l), link[l], d)
            /\ Goto(p, d, "wait")
            /\ link' = [link EXCEPT ![l] = t]
         \/ /\ "err" \in Write(Kind(l), link[l], d)
            /\ StopWriting(p, d)
            /\ UNCHANGED link
      /\ UNCHANGED <<dialed, hs, rest>>

(* The write call of mdcapnp returns.                                      *)
CopyWriteReturn(p, d) ==
  LET l == Dst(p, d)
  IN  /\ cp[p][d].pc = "wait"
      /\ MdWriteReturned(link[l], d, cp[p][d].hand)
      /\ IF MdWriteReturn(link[l], d) = "ok" THEN NextChunk(p, d) ELSE StopWriting(p, d)
      /\ UNCHANGED <<link, dialed, hs, rest>>

CopyCloseRead(p, d) ==
  LET l == Src(p, d)
  IN  /\ cp[p][d].pc = "closeRead"
      /\ link' = [link EXCEPT ![l] = CloseRead(Kind(l), @, d)]
      /\ Goto(p, d, "closeWrite")
      /\ UNCHANGED <<dialed, hs, rest>>

CopyCloseWrite(p, d) ==
  LET l == Dst(p, d)
  IN  /\ cp[p][d].pc = "closeWrite"
      /\ link' = [link EXCEPT ![l] = CloseWrite(Kind(l), @, d)]
      /\ Goto(p, d, IF CloseWriteWaits(Kind(l), link[l], d) THEN "endWait" ELSE "end")
      /\ UNCHANGED <<dialed, hs, rest>>

(* CloseWrite of a TLS stream gives up.                                    *)
CopyCloseWriteStuck(p, d) ==
  LET l == Dst(p, d)
  IN  /\ cp[p][d].pc = "closeWrite" /\ Kind(l) = "tls"
      /\ MayLose /\ TlsAlertStuck(link[l], d)
      /\ link' = [link EXCEPT ![l] = TlsAlertGivenUp(@, d)]
      /\ Goto(p, d, "end")
      /\ UNCHANGED <<dialed, hs, rest>>

CopyCloseWriteReturn(p, d) ==
  LET l == Dst(p, d)
  IN  /\ cp[p][d].pc = "endWait"
      /\ CapnpEndReturned(link[l], d)
      /\ Goto(p, d, "end")
      /\ UNCHANGED <<link, dialed, hs, rest>>

CopyStream(p, d) ==
  \/ CopyReadCheck(p, d) \/ CopyRead(p, d)
  \/ CopyWriteCheck(p, d) \/ CopyWrite(p, d) \/ CopyWriteReturn(p, d)
  \/ CopyCloseRead(p, d)
  \/ CopyCloseWrite(p, d) \/ CopyCloseWriteStuck(p, d) \/ CopyCloseWriteReturn(p, d)

-----------------------------------------------------------------------------
(* The RPC systems, the network and the two applications *)

(* The handshake on stream l: tls.Dial of one proxy, and the first Read or *)
(* Write of the other, which waits for it.                                 *)
Handshake(l, o) ==
  /\ Kind(l) = "tls"
  /\ cp[l]["up"].pc = "read" \/ cp[l]["dn"].pc = "write"
  /\ o = "up" => hs[l - 1] = "opened"
  /\ TlsHandshaking(link[l], o)
  /\ link' = [link EXCEPT ![l] = TlsShake(@, o)]
  /\ UNCHANGED <<dialed, hs, cp, rest>>

ServeCall(l, d) ==
  /\ Serving(Kind(l), link[l], d)
  /\ link' = [link EXCEPT ![l] = Serve(Kind(l), @, d)]
  /\ UNCHANGED <<dialed, hs, cp, rest>>

Lose(l) ==
  /\ MayLose /\ l \in dialed
  /\ ~Any(link[l], "up", {"lost", "reset"})
  /\ \/ /\ Kind(l) \in Sockets
        /\ link' = [link EXCEPT ![l] = StdLose(@)]
     \/ /\ Kind(l) \notin Sockets
        /\ \E ku \in 0 .. Len(link[l]["up"].q), kd \in 0 .. Len(link[l]["dn"].q) :
            link' = [link EXCEPT ![l] = RpcLose(@, ku, kd)]
  /\ UNCHANGED <<dialed, hs, cp, rest>>

(* The application that writes direction d.                                *)
AppSend(d) ==
  LET l == AppLink(d)
  IN  /\ l \in dialed
      /\ sent[d] < MaxChunks(d) /\ sent["up"] + sent["dn"] < MaxSent
      /\ "ok" \in StdWrite(link[l], d)
      /\ link' = [link EXCEPT ![l] = StdWritten(@, d, sent[d] + 1)]
      /\ sent' = [sent EXCEPT ![d] = @ + 1]
      /\ UNCHANGED <<inner, dialed, hs, cp, rcvd, seen>>

AppShut(d) ==
  LET l == AppLink(d)
  IN  /\ l \in dialed /\ ~Any(link[l], d, {"wshut"})
      /\ link' = [link EXCEPT ![l] = StdCloseWrite(@, d)]
      /\ UNCHANGED <<dialed, hs, cp, rest>>

(* The application at the far end of direction d.                          *)
AppRead(d) ==
  LET l == AppLink(Opp(d))
  IN  /\ l \in dialed /\ seen[d] = "none"
      /\ ~Any(link[l], d, {"rgone"})
      /\ \/ /\ "data" \in StdRead(link[l], d)
            /\ rcvd' = [rcvd EXCEPT ![d] = Append(@, Head(link[l][d].q))]
            /\ link' = [link EXCEPT ![l] = Pop(@, d)]
            /\ UNCHANGED seen
         \/ \E r \in StdRead(link[l], d) \ {"data"} :
              /\ seen' = [seen EXCEPT ![d] = r]
              /\ UNCHANGED <<link, rcvd>>
      /\ UNCHANGED <<inner, dialed, hs, cp, sent>>

(* It closes its socket once it has read to the end, or abruptly.          *)
AppClose(d) ==
  LET l == AppLink(Opp(d))
  IN  /\ l \in dialed /\ ~Any(link[l], d, {"rgone"})
      /\ seen[d] # "none" \/ Opp(d) \in Abrupt
      /\ link' = [link EXCEPT ![l] = StdClose(@, Opp(d))]
      /\ UNCHANGED <<dialed, hs, cp, rest>>

Carried == Links \ {1, Hops}   \* the streams between two proxies

Environment ==
  \/ \E d \in Dirs : AppSend(d) \/ AppShut(d) \/ AppRead(d) \/ AppClose(d)
  \/ \E l \in Carried : Lose(l)

Next ==
  \/ \E p \in Proxies : HandleStream(p) \/ OpenStreamFail(p)
  \/ \E p \in Proxies, d \in Dirs : CopyStream(p, d)
  \/ \E l \in Carried, d \in Dirs : Handshake(l, d) \/ ServeCall(l, d)
  \/ Environment

Spec == Init /\ [][Next]_vars

-----------------------------------------------------------------------------
(* An application that has read to the end of its stream closes it.        *)
AppCloseAtEnd(d) == seen[d] # "none" /\ AppClose(d)

(* The Go scheduler runs every goroutine that can proceed, the RPC systems *)
(* deliver the calls they have, and an application keeps reading.  Nothing *)
(* makes an application send, shut or close its stream.                    *)
CopyFairness == \A p \in Proxies, d \in Dirs : WF_vars(CopyStream(p, d))

Fairness ==
  /\ \A p \in Proxies : WF_vars(HandleStream(p))
  /\ CopyFairness
  /\ \A l \in Carried, d \in Dirs : WF_vars(Handshake(l, d) \/ ServeCall(l, d))
  /\ \A d \in Dirs : WF_vars(AppRead(d)) /\ WF_vars(AppCloseAtEnd(d))

FairSpec == Spec /\ Fairness

(* Only the copiers are known to go on.                                    *)
CopySpec == Spec /\ CopyFairness

-----------------------------------------------------------------------------
(* Safety *)

(* What reaches an application is the sequence the other application sent: *)
(* relaying through io.Copy and any transport never reorders, duplicates   *)
(* or skips a chunk, whatever fails on the way.  It may only stop early.   *)
InOrder == \A d \in Dirs : rcvd[d] = [i \in 1 .. Len(rcvd[d]) |-> i]

(* The copier that reads, and the one that writes, direction d of stream l.*)
Reader(l, d) == IF d = "up" THEN l ELSE l - 1
Writer(l, d) == IF d = "up" THEN l - 1 ELSE l

(* The chunks a copier has taken from its source, and those it has put     *)
(* into its destination (a write that waits for its return is put).        *)
Fetched(c) == IF c.hand = 0 THEN c.written ELSE c.written + 1

Delivered(c) == IF c.pc = "wait" THEN c.written + 1 ELSE c.written

(* How many chunks were taken from and put into direction d of stream l.   *)
Taken(l, d) ==
  IF l = AppLink(Opp(d)) THEN Len(rcvd[d]) ELSE Fetched(cp[Reader(l, d)][d])

Given(l, d) ==
  IF l = AppLink(d) THEN sent[d] ELSE Delivered(cp[Writer(l, d)][d])

(* The reading side of a half of kind k can still be given a chunk.        *)
Readable(k, h) ==
  \/ k \in Sockets /\ "rgone" \notin h.f
  \/ k = "grpc"
  \/ k \in {"capnp", "mdcapnp"} /\ "rshut" \notin h.f /\ "eof" \notin h.f

NoEnd(q, n) == \A i \in 1 .. n : q[i] # END

(* Between the chunks taken and the chunks given lie exactly the chunks in *)
(* flight, in order, up to a call of end (capnpStream.Write checks closed  *)
(* before it sends, so a chunk may be queued behind the end).  On the half *)
(* a copier reads this also fixes what it counts as written, after a Write *)
(* that failed as well.                                                    *)
HalfInOrder(k, h, taken, given) ==
  /\ Readable(k, h) =>
       \A i \in 1 .. Len(h.q) : NoEnd(h.q, i) => h.q[i] = taken + i
  /\ Readable(k, h) /\ "lost" \notin h.f /\ NoEnd(h.q, Len(h.q))
       => given = taken + Len(h.q)
  /\ k \in Sockets \cup {"grpc"} => NoEnd(h.q, Len(h.q))
  /\ k \in Sockets => "lost" \notin h.f

HopInOrder(l, d) == HalfInOrder(Kind(l), link[l][d], Taken(l, d), Given(l, d))

(* io.Copy holds the chunk after the ones it has written, or none; it does *)
(* not run before OpenStream has returned, and waits only in mdcapnp.      *)
CopierInOrder(p, d) ==
  LET c == cp[p][d]
  IN  /\ c.pc \in {"off", "read", "recv"} => c.hand = 0
      /\ c.pc \in {"write", "send", "wait"} => c.hand # 0
      /\ c.hand # 0 => c.hand = c.written + 1
      /\ hs[p] \in {"idle", "open", "opened"} => c.pc = "off"
      /\ c.pc = "wait" => Kind(Dst(p, d)) = "mdcapnp"

(* No chunk is lost between two hops: InOrder, hop by hop.                 *)
InFlight ==
  /\ \A l \in Links, d \in Dirs : HopInOrder(l, d)
  /\ \A p \in Proxies, d \in Dirs : CopierInOrder(p, d)

AppHasShut(d) == Any(link[AppLink(d)], d, {"wshut"})

(* OpenStream failed: handleStream has gone on without an upstream.        *)
Refused(p) == hs[p] \in {"downClose", "downWait", "done"} /\ cp[p]["dn"].pc = "off"

Faulted ==
  \/ \E p \in Proxies, d \in Dirs : cp[p][d].err
  \/ \E l \in Links, d \in Dirs : Any(link[l], d, {"reset", "lost", "fail"})
  \/ \E p \in Proxies : Refused(p)

(* Unless something failed, an application that reads end of file has read *)
(* everything: the other one had shut its side, and CloseWrite never       *)
(* overtook a chunk.  The exception is in handleStream: when the server    *)
(* application shuts its side first, the relay closes both directions and  *)
(* what the client was still sending is cut off.                           *)
EofIsComplete ==
  \A d \in Dirs :
    seen[d] = "eof" /\ ~Faulted /\ (d = "up" => ~AppHasShut("dn"))
      => AppHasShut(d) /\ Len(rcvd[d]) = sent[d]

(* The whole chain behaves as two conduits: see Conduit.                   *)
Promised ==
  INSTANCE Conduit WITH
    shut <- {d \in Dirs : AppHasShut(d)},
    cut  <- {d \in Dirs : Faulted \/ (d = "up" /\ AppHasShut("dn"))}

(* The relay implements Conduit: what the proxies, their copiers and the   *)
(* transports do between the two applications amounts to steps of two      *)
(* pipes that deliver in order, end once, and end cleanly only when all    *)
(* has arrived, unless a failure, or the other direction's end at the      *)
(* server, has cut them (handleStream's deferred Close).                   *)
ImplementsConduit == Promised!Spec

(* "Signals clean EOF" (end in proxy.capnp): the copier that called end    *)
(* had copied its source to the end.                                       *)
EndIsClean ==
  \A p \in Proxies :
    LET c == cp[p]["up"]
    IN  Kind(p + 1) = "capnp" /\ c.pc = "endWait" => ~c.err

-----------------------------------------------------------------------------
(* Liveness *)

Finished ==
  /\ \A p \in Proxies : hs[p] \in {"idle", "done"}
  /\ \A p \in Proxies, d \in Dirs : cp[p][d].pc \in {"off", "end"}

(* When the server application shuts its side, every goroutine of every    *)
(* proxy ends and every stream gets closed.  When the client application   *)
(* does, the server application gets to know, and once it has closed,      *)
(* everything ends as well: with every transport whose CloseWrite tells    *)
(* the peer (streamImpl.CloseWrite does not).                              *)
ShutEndsRelay ==
  AppHasShut("dn") \/ (AppHasShut("up") /\ inner # "mdcapnp") ~> Finished

(* "Nop; rely on Close() being called" (streamImpl.CloseWrite): after the  *)
(* copier that writes a stream has called CloseWrite, Close is called.     *)
CloseFollowsCloseWrite ==
  \A p \in Proxies : cp[p]["up"].pc = "end" ~> hs[p] # "relay"

Writing(p, d) == cp[p][d].pc \in {"write", "send", "wait"}

(* A copier is not left in Write, behind full buffers, by a peer that has  *)
(* closed its read end: in direction dn, where nothing else would free it. *)
(* Up, the peer's handleStream closes the whole stream when dn has ended.  *)
(* (grpcStream.CloseRead and Close only set a flag, the call goes on: this *)
(* is no property of gRPC.)                                                *)
ClosedReadEndFreesWriter ==
  \A p \in Proxies \ {1} :
    cp[p - 1]["dn"].pc = "end" /\ Writing(p, "dn") ~> ~Writing(p, "dn")

(* "If the ByteStream is dropped without calling this, then the stream was *)
(* prematurely canceled": when the connection breaks, reading stops.       *)
Reading(p, d) == cp[p][d].pc \in {"read", "recv"}

LostStreamStopsReading ==
  \A p \in Proxies \ {1}, d \in Dirs :
    LET r == Reader(p, d)
    IN  Any(link[p], d, {"lost", "reset"}) /\ Reading(r, d) ~> ~Reading(r, d)

=============================================================================
