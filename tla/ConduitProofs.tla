--------------------------- MODULE ConduitProofs ----------------------------
(***************************************************************************)
(* The relay behaves as two conduits: what Tunnel promises in Conduit, for *)
(* every number of proxies, every set of kinds, every window and every     *)
(* number of chunks.                                                       *)
(***************************************************************************)
EXTENDS TunnelProofs, LeastNumber

(* copyStream has left io.Copy.                                            *)
Ending == {"closeRead", "closeWrite", "endWait", "end"}

(* Whoever writes direction d of stream l writes no more.                  *)
WriterEnded(l, d) ==
  IF l = AppLink(d) THEN AppHasShut(d) ELSE cp[Writer(l, d)][d].pc \in Ending

(* The copier that reads direction d of stream l reads no more.            *)
ReaderShut(l, d) ==
  l # AppLink(Opp(d)) /\ cp[Reader(l, d)][d].pc \in Ending

(* No chunk will follow on direction d of stream l, and none is left.      *)
Complete(l, d) == WriterEnded(l, d) /\ Taken(l, d) = Given(l, d)

(* Nothing has cut direction d (see cut in Promised).                      *)
Uncut(d) == ~Faulted /\ (d = "up" => ~AppHasShut("dn"))

(* A half ends only after its writer has, and nothing is missing on it.    *)
HopEnds(l, d) ==
  /\ Sound(Kind(l), link[l][d], Taken(l, d), Given(l, d))
  /\ Closing(link[l][d]) => WriterEnded(l, d)
  /\ "rshut" \in link[l][d].f => ReaderShut(l, d)

(* A copier ends only when it has copied everything.                       *)
CopierEnds(p, d) ==
  cp[p][d].pc \in Ending => cp[p][d].hand = 0 /\ Complete(Src(p, d), d)

(* An application sees the end only when it has read everything.           *)
AppEnds(d) == seen[d] = "eof" => Complete(AppLink(Opp(d)), d)

(* As long as nothing has cut it, a direction ends hop by hop, each after  *)
(* the one before it.                                                      *)
EndsInOrder(d) ==
  Uncut(d) => /\ \A l \in Links : HopEnds(l, d)
              /\ \A p \in Proxies : CopierEnds(p, d)
              /\ AppEnds(d)

(* handleStream closes its streams after the copy from upstream, or when   *)
(* there is no upstream.                                                   *)
ClosesLast ==
  \A p \in Proxies :
    hs[p] \in {"upWait", "downClose", "downWait", "done"}
      => cp[p]["dn"].pc = "end" \/ Refused(p)

(* io.Copy returns its first error.                                        *)
ErrorsEnd == \A p \in Proxies, d \in Dirs : cp[p][d].err => cp[p][d].pc \in Ending

(* No chunk is taken, or queued, that was not given.                       *)
Bounded ==
  \A l \in Links, d \in Dirs :
    /\ Taken(l, d) <= Given(l, d)
    /\ \A i \in DOMAIN link[l][d].q : link[l][d].q[i] <= Given(l, d)

-----------------------------------------------------------------------------
(* The goroutines *)

(* A copier moves from state c to state x: it stays in io.Copy, or returns *)
(* from it with an error or at the end of its source, or goes on after it. *)
Moves(p, d, c, x) ==
  \/ /\ c.pc \notin Ending /\ x.pc \notin Ending /\ x.err = c.err
  \/ /\ c.pc \notin Ending /\ x.pc \in Ending /\ x.err
  \/ /\ c.pc \in {"read", "recv"} /\ x.pc \in Ending
     /\ x.hand = c.hand /\ x.written = c.written
     /\ link' = link
     /\ \/ Any(link[Src(p, d)], d, {"rshut"})
        \/ "eof" \in Read(Kind(Src(p, d)), link[Src(p, d)], d)
  \/ /\ c.pc \in Ending \ {"end"} /\ x.pc \in Ending
     /\ x.hand = c.hand /\ x.written = c.written /\ x.err = c.err

(* The field err after the changes copyStream makes to its state.          *)
LEMMA ErrFields ==
  ASSUME NEW c \in Copier
  PROVE  /\ \A pc \in CopyStates : [c EXCEPT !.pc = pc].err = c.err
         /\ \A b \in BOOLEAN : [c EXCEPT !.pc = "closeRead", !.err = b].err = b
         /\ \A m \in Nat : [c EXCEPT !.pc = "write", !.hand = m].err = c.err
         /\ [c EXCEPT !.pc = "read", !.hand = 0, !.written = @ + 1].err = c.err
<1>1. \A n : [c EXCEPT !.pc = "read", !.hand = 0, !.written = n].err = c.err
  BY DEF Copier
<1>2. [c EXCEPT !.pc = "read", !.hand = 0, !.written = @ + 1].err = c.err
  BY <1>1
<1> QED BY <1>2 DEF Copier

(* Every step of copyStream is such a move.                                *)
LEMMA CopyMoves ==
  ASSUME TypeOK, InFlight, NEW p \in Proxies, NEW d \in Dirs, CopyStream(p, d)
  PROVE  /\ hs' = hs
         /\ cp[p][d].pc \notin {"off", "end"}
         /\ \E x \in Copier : Become(p, d, x) /\ x.pc # "off" /\ Moves(p, d, cp[p][d], x)
<1> DEFINE l == Src(p, d)
           m == Dst(p, d)
           c == cp[p][d]
           Good == \E x \in Copier : Become(p, d, x) /\ x.pc # "off" /\ Moves(p, d, c, x)
<1>1. /\ l \in Links /\ m \in Links
      /\ Kind(l) \in Kinds /\ Kind(m) \in Kinds
      /\ link[l] \in Stream /\ c \in Copier
  BY Geometry, KindType DEF TypeOK
<1>2. ASSUME NEW pc \in CopyStates, Goto(p, d, pc), pc # "off",
             \/ c.pc \notin Ending /\ pc \notin Ending
             \/ c.pc \in Ending \ {"end"} /\ pc \in Ending
      PROVE  Good
  <2> DEFINE x == [c EXCEPT !.pc = pc]
  <2>1. x \in Copier /\ x.pc = pc /\ x.hand = c.hand /\ x.written = c.written
    <3> HIDE DEF c
    <3> QED BY <1>1, GotoFields
  <2>2. x.err = c.err
    <3> HIDE DEF c
    <3> QED BY <1>1, ErrFields
  <2>3. Become(p, d, x)
    BY <1>2 DEF Goto
  <2> HIDE DEF x, c
  <2>4. Moves(p, d, c, x)
    BY <1>2, <2>1, <2>2 DEF Moves
  <2> QED BY <1>2, <2>1, <2>3, <2>4
<1>3. ASSUME NEW b \in BOOLEAN, Stop(p, d, b), c.pc \notin Ending,
             \/ b
             \/ /\ c.pc \in {"read", "recv"} /\ link' = link
                /\ \/ Any(link[l], d, {"rshut"})
                   \/ "eof" \in Read(Kind(l), link[l], d)
      PROVE  Good
  <2> DEFINE x == [c EXCEPT !.pc = "closeRead", !.err = b]
  <2>1. x \in Copier /\ x.pc = "closeRead" /\ x.hand = c.hand /\ x.written = c.written
    <3> HIDE DEF c
    <3> QED BY <1>1, StopFields
  <2>2. x.err = b
    <3> HIDE DEF c
    <3> QED BY <1>1, ErrFields
  <2>3. Become(p, d, x)
    BY <1>3 DEF Stop
  <2> HIDE DEF x, c
  <2>4. x.pc \in Ending
    BY <2>1 DEF Ending
  <2>5. Moves(p, d, c, x)
    BY <1>3, <2>1, <2>2, <2>4 DEF Moves, l
  <2> QED BY <2>1, <2>3, <2>5
<1>4. ASSUME StopWriting(p, d), c.pc \notin Ending
      PROVE  Good
  <2>1. CASE Kind(m) = "mdcapnp"
    <3> DEFINE x == [pc |-> "closeRead", hand |-> 0, written |-> c.written + 1, err |-> TRUE]
    <3>1. x \in Copier
      BY <1>1 DEF Copier, CopyStates
    <3>2. x.pc = "closeRead" /\ x.err
      OBVIOUS
    <3>3. Become(p, d, x)
      BY <1>4, <2>1 DEF StopWriting
    <3> HIDE DEF x, c
    <3>4. Moves(p, d, c, x)
      BY <1>4, <3>2 DEF Moves, Ending
    <3> QED BY <3>1, <3>2, <3>3, <3>4
  <2>2. CASE Kind(m) # "mdcapnp"
    BY <1>3, <1>4, <2>2 DEF StopWriting
  <2> QED BY <2>1, <2>2
<1>5. ASSUME NextChunk(p, d), c.pc \notin Ending
      PROVE  Good
  <2> DEFINE x == [c EXCEPT !.pc = "read", !.hand = 0, !.written = @ + 1]
  <2>1. x \in Copier /\ x.pc = "read"
    <3> HIDE DEF c
    <3> QED BY <1>1, WrittenFields
  <2>2. x.err = c.err
    <3> HIDE DEF c
    <3> QED BY <1>1, ErrFields
  <2>3. Become(p, d, x)
    BY <1>5 DEF NextChunk
  <2> HIDE DEF x, c
  <2>4. Moves(p, d, c, x)
    BY <1>5, <2>1, <2>2 DEF Moves, Ending
  <2> QED BY <2>1, <2>3, <2>4
<1>6. ASSUME "data" \in Read(Kind(l), link[l], d), c.pc \notin Ending,
             Become(p, d, [c EXCEPT !.pc = "write", !.hand = Head(link[l][d].q)])
      PROVE  Good
  <2> DEFINE n == Head(link[l][d].q)
             x == [c EXCEPT !.pc = "write", !.hand = n]
  <2>1. n \in Nat
    BY <1>1, <1>6, ReadNonEmpty DEF Stream, Half
  <2>2. x \in Copier /\ x.pc = "write"
    <3> HIDE DEF c, n
    <3> QED BY <1>1, <2>1, ReadFields
  <2>3. x.err = c.err
    <3> HIDE DEF c, n
    <3> QED BY <1>1, <2>1, ErrFields
  <2>4. Become(p, d, x)
    BY <1>6
  <2> HIDE DEF x, c
  <2>5. Moves(p, d, c, x)
    BY <1>6, <2>2, <2>3 DEF Moves, Ending
  <2> QED BY <2>2, <2>4, <2>5
<1>7. /\ {"recv", "send", "closeWrite", "wait", "endWait", "end"} \subseteq CopyStates
      /\ {"closeWrite", "endWait", "end"} \subseteq Ending
      /\ {"off", "read", "recv", "write", "send", "wait"} \cap Ending = {}
  BY DEF CopyStates, Ending
<1> HIDE DEF l, m, c, Good
<1>8. CASE CopyReadCheck(p, d)
  <2>1. c.pc = "read" /\ hs' = hs /\ link' = link
    BY <1>8 DEF CopyReadCheck, c
  <2>2. Goto(p, d, "recv") \/ (Stop(p, d, FALSE) /\ Any(link[l], d, {"rshut"}))
    BY <1>8 DEF CopyReadCheck, l, GrpcReadCheck
  <2>3. Good
    BY <1>2, <1>3, <1>7, <2>1, <2>2
  <2> QED BY <2>1, <2>3 DEF Good, c
<1>9. CASE CopyRead(p, d)
  <2>1. c.pc \in {"read", "recv"} /\ hs' = hs
    BY <1>9 DEF CopyRead, c
  <2>2. \/ /\ "data" \in Read(Kind(l), link[l], d)
           /\ Become(p, d, [c EXCEPT !.pc = "write", !.hand = Head(link[l][d].q)])
        \/ "eof" \in Read(Kind(l), link[l], d) /\ Stop(p, d, FALSE) /\ link' = link
        \/ Stop(p, d, TRUE)
    BY <1>9 DEF CopyRead, c, l
  <2> QED BY <1>3, <1>6, <1>7, <2>1, <2>2 DEF Good, c
<1>10. CASE CopyWriteCheck(p, d)
  <2>1. c.pc = "write" /\ hs' = hs /\ (Goto(p, d, "send") \/ Stop(p, d, TRUE))
    BY <1>10 DEF CopyWriteCheck, c
  <2> QED BY <1>2, <1>3, <1>7, <2>1 DEF Good, c
<1>11. CASE CopyWrite(p, d)
  <2>1. /\ c.pc \in {"write", "send"} /\ hs' = hs
        /\ NextChunk(p, d) \/ Goto(p, d, "wait") \/ StopWriting(p, d)
    BY <1>11 DEF CopyWrite, c
  <2> QED BY <1>2, <1>4, <1>5, <1>7, <2>1 DEF Good, c
<1>12. CASE CopyWriteReturn(p, d)
  <2>1. c.pc = "wait" /\ hs' = hs /\ (NextChunk(p, d) \/ StopWriting(p, d))
    BY <1>12 DEF CopyWriteReturn, c
  <2> QED BY <1>4, <1>5, <1>7, <2>1 DEF Good, c
<1>13. CASE \/ CopyCloseRead(p, d) \/ CopyCloseWrite(p, d)
            \/ CopyCloseWriteStuck(p, d) \/ CopyCloseWriteReturn(p, d)
  <2>1. /\ c.pc \in {"closeRead", "closeWrite", "endWait"} /\ hs' = hs
        /\ Goto(p, d, "closeWrite") \/ Goto(p, d, "endWait") \/ Goto(p, d, "end")
    BY <1>13 DEF CopyCloseRead, CopyCloseWrite, CopyCloseWriteStuck,
                 CopyCloseWriteReturn, c
  <2> QED BY <1>2, <1>7, <2>1 DEF Good, c, Ending
<1> QED BY <1>8, <1>9, <1>10, <1>11, <1>12, <1>13 DEF CopyStream, Good, c

(* What copiers do in any step of the relay.                               *)
LEMMA CopiersMove ==
  ASSUME TypeOK, InFlight, [Next]_vars
  PROVE  \A p \in Proxies, d \in Dirs :
           \/ cp'[p][d] = cp[p][d]
           \/ cp[p][d].pc # "end" /\ Moves(p, d, cp[p][d], cp'[p][d])
<1>1. CASE cp' = cp
  BY <1>1
<1>2. ASSUME NEW p \in Proxies, NEW d \in Dirs, CopyStream(p, d),
             NEW i \in Proxies, NEW e \in Dirs
      PROVE  \/ cp'[i][e] = cp[i][e]
             \/ cp[i][e].pc # "end" /\ Moves(i, e, cp[i][e], cp'[i][e])
  <2>1. PICK x \in Copier : Become(p, d, x) /\ Moves(p, d, cp[p][d], x)
    BY <1>2, CopyMoves
  <2>2. cp[p][d].pc # "end"
    BY <1>2, CopyMoves
  <2>3. cp'[p][d] = x /\ (<<i, e>> # <<p, d>> => cp'[i][e] = cp[i][e])
    BY <2>1 DEF Become, TypeOK
  <2> QED BY <2>1, <2>2, <2>3
<1>3. ASSUME NEW p \in Proxies, OpenStreamReturn(p), NEW i \in Proxies, NEW e \in Dirs
      PROVE  \/ cp'[i][e] = cp[i][e]
             \/ cp[i][e].pc # "end" /\ Moves(i, e, cp[i][e], cp'[i][e])
  <2>1. CASE i # p
    BY <1>3, <2>1 DEF OpenStreamReturn, TypeOK
  <2>2. CASE i = p
    <3> DEFINE c == cp[p][e]
               x == [c EXCEPT !.pc = "read"]
    <3>1. c.pc = "off" /\ c \in Copier
      BY <1>3 DEF InFlight, CopierInOrder, OpenStreamReturn, TypeOK
    <3>2. cp'[p][e] = x
      BY <1>3 DEF OpenStreamReturn, TypeOK
    <3> HIDE DEF c
    <3>3. x.pc = "read" /\ x.err = c.err
      BY <3>1, GotoFields, ErrFields DEF CopyStates
    <3> HIDE DEF x
    <3>4. c.pc # "end" /\ Moves(p, e, c, x)
      BY <3>1, <3>3 DEF Moves, Ending
    <3> QED BY <2>2, <3>2, <3>4 DEF c
  <2> QED BY <2>1, <2>2
<1>4. ASSUME NEW p \in Proxies, HandleStream(p) \/ OpenStreamFail(p), ~OpenStreamReturn(p)
      PROVE  cp' = cp
  BY <1>4 DEF HandleStream, Accept, OpenStream, OpenStreamLost, UpClose, UpAbort,
              UpCloseReturn, DownClose, DownCloseReturn, OpenStreamFail
<1>5. ASSUME Environment \/ \E l \in Carried, d \in Dirs : Handshake(l, d) \/ ServeCall(l, d)
      PROVE  cp' = cp
  BY <1>5 DEF Environment, AppSend, AppShut, AppRead, AppClose, Lose, Handshake, ServeCall
<1>6. CASE UNCHANGED vars
  BY <1>6 DEF vars
<1> QED BY <1>1, <1>2, <1>3, <1>4, <1>5, <1>6 DEF Next

(* What a copier that has left io.Copy keeps.                              *)
LEMMA EndingLasts ==
  ASSUME TypeOK, InFlight, [Next]_vars, NEW p \in Proxies, NEW d \in Dirs
  PROVE  /\ cp[p][d].pc \in Ending
              => /\ cp'[p][d].pc \in Ending /\ cp'[p][d].hand = cp[p][d].hand
                 /\ cp'[p][d].written = cp[p][d].written /\ cp'[p][d].err = cp[p][d].err
         /\ cp[p][d].pc = "end" => cp'[p][d].pc = "end"
<1>1. CASE cp'[p][d] = cp[p][d]
  BY <1>1
<1>2. CASE cp[p][d].pc # "end" /\ Moves(p, d, cp[p][d], cp'[p][d])
  BY <1>2 DEF Moves, Ending
<1> QED BY <1>1, <1>2, CopiersMove

(* io.Copy returns its first error: every step of the relay keeps this.    *)
LEMMA ErrorsEndKept ==
  ASSUME TypeOK, InFlight, ErrorsEnd, [Next]_vars
  PROVE  /\ ErrorsEnd'
         /\ \A p \in Proxies, d \in Dirs : cp[p][d].err => cp'[p][d].err
<1> SUFFICES ASSUME NEW p \in Proxies, NEW d \in Dirs
             PROVE  /\ cp'[p][d].err => cp'[p][d].pc \in Ending
                    /\ cp[p][d].err => cp'[p][d].err
  BY DEF ErrorsEnd
<1>1. cp[p][d].err => cp[p][d].pc \in Ending
  BY DEF ErrorsEnd
<1>2. CASE cp'[p][d] = cp[p][d]
  BY <1>1, <1>2
<1>3. CASE Moves(p, d, cp[p][d], cp'[p][d])
  BY <1>1, <1>3 DEF Moves, Ending
<1> QED BY <1>2, <1>3, CopiersMove

(* handleStream closes its streams last, and does not get an upstream it   *)
(* was refused: every step of the relay keeps this.                        *)
LEMMA ClosesLastKept ==
  ASSUME TypeOK, InFlight, ClosesLast, [Next]_vars
  PROVE  ClosesLast' /\ \A p \in Proxies : Refused(p) => Refused(p)'
<1> DEFINE Kept(i) ==
      /\ hs'[i] \in {"upWait", "downClose", "downWait", "done"}
           => \/ cp'[i]["dn"].pc = "end"
              \/ hs'[i] \in {"downClose", "downWait", "done"} /\ cp'[i]["dn"].pc = "off"
      /\ Refused(i) =>
           hs'[i] \in {"downClose", "downWait", "done"} /\ cp'[i]["dn"].pc = "off"
<1>1. \A i \in Proxies :
        hs[i] \in {"upWait", "downClose", "downWait", "done"}
          => cp[i]["dn"].pc = "end" \/ Refused(i)
  BY DEF ClosesLast
<1>2. ASSUME NEW i \in Proxies, hs'[i] = hs[i], cp'[i]["dn"] = cp[i]["dn"]
      PROVE  Kept(i)
  BY <1>1, <1>2 DEF Refused
<1>3. ASSUME NEW p \in Proxies, NEW d \in Dirs, CopyStream(p, d), NEW i \in Proxies
      PROVE  Kept(i)
  <2>1. hs' = hs /\ cp[p][d].pc \notin {"off", "end"}
        /\ \E x \in Copier : Become(p, d, x)
    BY <1>3, CopyMoves
  <2>2. <<i, "dn">> # <<p, d>> => cp'[i]["dn"] = cp[i]["dn"]
    BY <2>1 DEF Become, TypeOK, Dirs
  <2>3. CASE <<i, "dn">> = <<p, d>>
    <3>1. ~Refused(i) /\ cp[i]["dn"].pc # "end"
      BY <2>1, <2>3 DEF Refused
    <3> QED BY <1>1, <2>1, <3>1
  <2> QED BY <1>2, <2>1, <2>2, <2>3
<1>4. ASSUME NEW p \in Proxies, HandleStream(p) \/ OpenStreamFail(p), NEW i \in Proxies
      PROVE  Kept(i)
  <2>1. CASE i # p
    <3>1. hs'[i] = hs[i] /\ cp'[i]["dn"] = cp[i]["dn"]
      BY <1>4, <2>1
      DEF HandleStream, Accept, OpenStream, OpenStreamReturn, OpenStreamLost, UpClose,
          UpAbort, UpCloseReturn, DownClose, DownCloseReturn, OpenStreamFail, TypeOK
    <3> QED BY <1>2, <3>1
  <2>2. CASE i = p
    <3>1. hs[p] \in {"idle", "open", "opened"} => cp[p]["dn"].pc = "off"
      BY DEF InFlight, CopierInOrder, Dirs
    <3>2. CASE Accept(p) \/ OpenStream(p) \/ OpenStreamReturn(p)
      <4>1. /\ hs[p] \in {"idle", "open", "opened"}
            /\ hs'[p] \in {"open", "opened", "relay"}
        BY <3>2 DEF Accept, OpenStream, OpenStreamReturn, TypeOK
      <4> QED BY <2>2, <4>1 DEF Refused
    <3>3. CASE OpenStreamLost(p) \/ OpenStreamFail(p)
      <4>1. hs[p] \in {"open", "opened"} /\ hs'[p] = "downClose" /\ cp' = cp
        BY <3>3 DEF OpenStreamLost, OpenStreamFail, TypeOK
      <4> QED BY <2>2, <3>1, <4>1
    <3>4. CASE UpClose(p) \/ UpAbort(p)
      <4>1. hs[p] = "relay" /\ cp[p]["dn"].pc = "end" /\ cp' = cp
        BY <3>4 DEF UpClose, UpAbort
      <4> QED BY <2>2, <4>1 DEF Refused
    <3>5. CASE UpCloseReturn(p) \/ DownClose(p) \/ DownCloseReturn(p)
      <4>1. /\ hs[p] \in {"upWait", "downClose", "downWait"}
            /\ hs'[p] \in {"downClose", "downWait", "done"} /\ cp' = cp
        BY <3>5 DEF UpCloseReturn, DownClose, DownCloseReturn, TypeOK
      <4> QED BY <1>1, <2>2, <4>1 DEF Refused
    <3> QED BY <1>4, <3>2, <3>3, <3>4, <3>5 DEF HandleStream
  <2> QED BY <2>1, <2>2
<1>5. ASSUME Environment \/ \E l \in Carried, d \in Dirs : Handshake(l, d) \/ ServeCall(l, d)
      PROVE  hs' = hs /\ cp' = cp
  BY <1>5 DEF Environment, AppSend, AppShut, AppRead, AppClose, Lose, Handshake, ServeCall
<1>6. \A i \in Proxies : Kept(i)
  <2>1. CASE hs' = hs /\ cp' = cp
    BY <1>2, <2>1
  <2> QED BY <1>3, <1>4, <1>5, <2>1 DEF Next, vars
<1> QED BY <1>6 DEF ClosesLast, Refused

-----------------------------------------------------------------------------
(* Along the chain *)

(* What holds of the stream of the application that writes direction d,    *)
(* and of every stream a proxy writes when it holds of the one it reads,   *)
(* holds of all.                                                           *)
LEMMA AlongTheChain ==
  ASSUME NEW d \in Dirs, NEW S \in SUBSET Links, AppLink(d) \in S,
         \A p \in Proxies : Src(p, d) \in S => Dst(p, d) \in S
  PROVE  S = Links
<1> DEFINE At(n) == IF d = "up" THEN n + 1 ELSE Hops - n
           T == {n \in Nat : n < Hops => At(n) \in S}
<1>1. Hops \in Nat /\ Hops >= 2
  BY TunnelAssumption
<1>2. 0 \in T
  BY <1>1 DEF AppLink
<1>3. ASSUME NEW n \in T
      PROVE  n + 1 \in T
  <2>1. CASE n + 1 < Hops
    <3> DEFINE p == IF d = "up" THEN n + 1 ELSE Hops - (n + 1)
    <3>1. p \in Proxies
      BY <1>1, <2>1 DEF Proxies
    <3>2. Src(p, d) = At(n) /\ Dst(p, d) = At(n + 1)
      BY <1>1 DEF Src, Dst
    <3>3. At(n) \in S
      BY <1>1, <2>1
    <3> QED BY <3>1, <3>2, <3>3
  <2>2. CASE ~(n + 1 < Hops)
    BY <2>2
  <2> QED BY <2>1, <2>2
<1>4. T = Nat
  BY <1>2, <1>3, SetInduction
<1>5. ASSUME NEW l \in Links
      PROVE  l \in S
  <2> DEFINE n == IF d = "up" THEN l - 1 ELSE Hops - l
  <2>1. n \in Nat /\ n < Hops /\ At(n) = l
    BY <1>1 DEF Links
  <2> QED BY <1>4, <2>1
<1> QED BY <1>5

(* A copier has put no more into its destination than it took from its     *)
(* source, and as much when it has ended with its buffer empty.            *)
LEMMA CopierPasses ==
  ASSUME TypeOK, InFlight, NEW p \in Proxies, NEW d \in Dirs
  PROVE  /\ Given(Dst(p, d), d) <= Taken(Src(p, d), d)
         /\ cp[p][d].pc \in Ending /\ cp[p][d].hand = 0
              => Given(Dst(p, d), d) = Taken(Src(p, d), d)
<1> DEFINE c == cp[p][d]
<1>1. Taken(Src(p, d), d) = Fetched(c) /\ Given(Dst(p, d), d) = Delivered(c)
  BY Ends DEF Taken, Given
<1>2. c \in Copier /\ (c.pc = "wait" => c.hand # 0)
  BY DEF TypeOK, InFlight, CopierInOrder
<1> HIDE DEF c
<1>3. c.written \in Nat
  BY <1>2 DEF Copier
<1>4. Delivered(c) <= Fetched(c)
  BY <1>2, <1>3 DEF Delivered, Fetched
<1>5. c.pc \in Ending /\ c.hand = 0 => Delivered(c) = Fetched(c)
  BY <1>3 DEF Delivered, Fetched, Ending
<1> QED BY <1>1, <1>4, <1>5 DEF c

(* No stream is given more than the application has sent.                  *)
LEMMA GivenWasSent ==
  ASSUME TypeOK, InFlight, Bounded, NEW d \in Dirs
  PROVE  \A l \in Links : Given(l, d) <= sent[d]
<1> DEFINE S == {l \in Links : Given(l, d) <= sent[d]}
<1>1. sent[d] \in Nat
  BY DEF TypeOK
<1>2. AppLink(d) \in S
  BY <1>1, Geometry DEF Given
<1>3. ASSUME NEW p \in Proxies, Src(p, d) \in S
      PROVE  Dst(p, d) \in S
  <2>1. Src(p, d) \in Links /\ Dst(p, d) \in Links
    BY Geometry
  <2>2. /\ Given(Dst(p, d), d) \in Nat /\ Given(Src(p, d), d) \in Nat
        /\ Taken(Src(p, d), d) \in Nat
    BY <2>1, HalfCounts
  <2>3. /\ Given(Dst(p, d), d) <= Taken(Src(p, d), d)
        /\ Taken(Src(p, d), d) <= Given(Src(p, d), d)
        /\ Given(Src(p, d), d) <= sent[d]
    BY <1>3, <2>1, CopierPasses DEF Bounded
  <2> QED BY <1>1, <2>1, <2>2, <2>3
<1>4. S = Links
  BY <1>2, <1>3, AlongTheChain
<1> QED BY <1>4

(* When the writer of a stream has ended, the application has ended and    *)
(* the stream was given all it sent.                                       *)
LEMMA EndedWasShut ==
  ASSUME TypeOK, InFlight, NEW d \in Dirs, Uncut(d), EndsInOrder(d)
  PROVE  \A l \in Links : WriterEnded(l, d) => AppHasShut(d) /\ Given(l, d) = sent[d]
<1> DEFINE S == {l \in Links : WriterEnded(l, d) => AppHasShut(d) /\ Given(l, d) = sent[d]}
<1>1. AppLink(d) \in S
  BY Geometry DEF Given, WriterEnded
<1>2. ASSUME NEW p \in Proxies, Src(p, d) \in S
      PROVE  Dst(p, d) \in S
  <2>1. Src(p, d) \in Links /\ Dst(p, d) \in Links
    BY Geometry
  <2>2. CASE WriterEnded(Dst(p, d), d)
    <3>1. cp[p][d].pc \in Ending
      BY <2>2, Ends DEF WriterEnded
    <3>2. cp[p][d].hand = 0 /\ Complete(Src(p, d), d)
      BY <3>1 DEF EndsInOrder, CopierEnds
    <3>3. Given(Dst(p, d), d) = Given(Src(p, d), d)
      BY <3>1, <3>2, CopierPasses DEF Complete
    <3> QED BY <1>2, <2>1, <3>2, <3>3 DEF Complete
  <2> QED BY <2>1, <2>2
<1>3. S = Links
  BY <1>1, <1>2, AlongTheChain
<1> QED BY <1>3

(* While nothing has cut the direction up, no copy from upstream has ended *)
(* and no handleStream closes its streams.                                 *)
LEMMA NobodyCloses ==
  ASSUME TypeOK, InFlight, ClosesLast, EndsInOrder("dn"), Uncut("up")
  PROVE  \A p \in Proxies :
           /\ cp[p]["dn"].pc \notin Ending
           /\ hs[p] \notin {"upWait", "downClose", "downWait", "done"}
           /\ ~WriterEnded(p, "dn") /\ ~WriterEnded(p + 1, "dn")
<1>1. Uncut("dn") /\ ~AppHasShut("dn") /\ "dn" \in Dirs
  BY DEF Uncut, Dirs
<1>2. \A l \in Links : ~WriterEnded(l, "dn")
  BY <1>1, EndedWasShut
<1> TAKE p \in Proxies
<1>3. p \in Links /\ p + 1 \in Links
  BY Geometry
<1>4. cp[p]["dn"].pc \notin Ending
  <2>1. p # AppLink("dn") /\ Writer(p, "dn") = p
    BY <1>1, Ends DEF Dst
  <2> QED BY <1>2, <1>3, <2>1 DEF WriterEnded
<1>5. ~Refused(p)
  BY DEF Uncut, Faulted
<1> QED BY <1>2, <1>3, <1>4, <1>5 DEF ClosesLast, Ending

-----------------------------------------------------------------------------
(* The three kinds of step: those that move no chunk, those that take one  *)
(* from a half, and those that put one into a half                         *)

(* The directions in W end on stream i, and those in R are shut, because   *)
(* their writer has ended, or their reader.                                *)
Earned(i, W, R) ==
  \A d \in Dirs :
    Uncut(d) => (d \in W => WriterEnded(i, d)') /\ (d \in R => ReaderShut(i, d)')

CountsKept ==
  \A l \in Links, e \in Dirs : Taken(l, e)' = Taken(l, e) /\ Given(l, e)' = Given(l, e)

(* A failed write of mdcapnp is counted all the same.                      *)
CountsFail ==
  /\ Faulted'
  /\ \A l \in Links, e \in Dirs : Taken(l, e)' = Taken(l, e) /\ Given(l, e) <= Given(l, e)'

StreamSettles ==
  \E i \in Links, t \in Stream, W \in SUBSET Dirs, R \in SUBSET Dirs :
    /\ link' = [link EXCEPT ![i] = t]
    /\ Effects(Kind(i), link[i], t, W, R)
    /\ Earned(i, W, R)

Settled ==
  \/ CountsKept /\ (link' = link \/ StreamSettles)
  \/ CountsFail /\ link' = link

Popped(l, d) ==
  /\ link[l][d].q # <<>> /\ Head(link[l][d].q) = Taken(l, d) + 1
  /\ link' = [link EXCEPT ![l] = Pop(@, d)]
  /\ Taken(l, d)' = Taken(l, d) + 1
  /\ \A i \in Links, e \in Dirs : /\ <<i, e>> # <<l, d>> => Taken(i, e)' = Taken(i, e)
                                  /\ Given(i, e)' = Given(i, e)

Pushed(l, d) ==
  /\ ~WriterEnded(l, d)
  /\ \E t \in Stream :
       /\ link' = [link EXCEPT ![l] = t]
       /\ \/ t = Put(link[l], d, Given(l, d) + 1)
          \/ Failed(t) /\ Quiet(link[l], t)
  /\ Given(l, d)' = Given(l, d) + 1
  /\ \A i \in Links, e \in Dirs : /\ <<i, e>> # <<l, d>> => Given(i, e)' = Given(i, e)
                                  /\ Taken(i, e)' = Taken(i, e)

(* handleStream itself moves no chunk.                                     *)
LEMMA HandlerCounts ==
  ASSUME TypeOK, InFlight, NEW p \in Proxies, HandleStream(p) \/ OpenStreamFail(p)
  PROVE  CountsKept
<1>1. UNCHANGED <<sent, rcvd>>
  BY DEF HandleStream, Accept, OpenStream, OpenStreamReturn, OpenStreamLost, UpClose,
         UpAbort, UpCloseReturn, DownClose, DownCloseReturn, OpenStreamFail, rest
<1>2. CASE cp' = cp
  <2>1. \A i \in Proxies, e \in Dirs : /\ Fetched(cp[i][e])' = Fetched(cp[i][e])
                                       /\ Delivered(cp[i][e])' = Delivered(cp[i][e])
    BY <1>2 DEF Fetched, Delivered
  <2> QED BY <1>1, <2>1, CountsSame DEF CountsKept
<1>3. CASE OpenStreamReturn(p)
  <2>1. \A e \in Dirs : cp[p][e] \in Copier /\ cp[p][e].pc = "off"
    BY <1>3 DEF InFlight, CopierInOrder, TypeOK, OpenStreamReturn
  <2>2. \A i \in Proxies, e \in Dirs :
          cp'[i][e] = IF i = p THEN [cp[i][e] EXCEPT !.pc = "read"] ELSE cp[i][e]
    BY <1>3 DEF OpenStreamReturn, TypeOK
  <2>3. \A i \in Proxies, e \in Dirs : /\ Fetched(cp[i][e])' = Fetched(cp[i][e])
                                       /\ Delivered(cp[i][e])' = Delivered(cp[i][e])
    <3> TAKE i \in Proxies, e \in Dirs
    <3> DEFINE c == cp[i][e]
               x == [c EXCEPT !.pc = "read"]
    <3>1. CASE i = p
      <4>1. c \in Copier /\ c.pc = "off" /\ cp'[i][e] = x
        BY <2>1, <2>2, <3>1
      <4> HIDE DEF c
      <4>2. x.pc = "read" /\ x.hand = c.hand /\ x.written = c.written
        BY <4>1, GotoFields DEF CopyStates
      <4> HIDE DEF x
      <4>3. Fetched(x) = Fetched(c) /\ Delivered(x) = Delivered(c)
        BY <4>1, <4>2 DEF Fetched, Delivered
      <4>4. Fetched(cp[i][e])' = Fetched(x) /\ Delivered(cp[i][e])' = Delivered(x)
        BY <4>1 DEF Fetched, Delivered
      <4> QED BY <4>3, <4>4 DEF c
    <3>2. CASE i # p
      BY <2>2, <3>2 DEF Fetched, Delivered
    <3> QED BY <3>1, <3>2
  <2> QED BY <1>1, <2>3, CountsSame DEF CountsKept
<1> QED BY <1>2, <1>3
        DEF HandleStream, Accept, OpenStream, OpenStreamLost, UpClose,
            UpAbort, UpCloseReturn, DownClose, DownCloseReturn, OpenStreamFail

(* The proxy that has ended its copy from upstream may close the stream to *)
(* upstream, and the one from downstream.                                  *)
LEMMA CloseEarned ==
  ASSUME TypeOK, InFlight, ClosesLast, EndsInOrder("dn"), NEW p \in Proxies, cp' = cp,
         \/ hs[p] \in {"upWait", "downClose", "downWait"}
         \/ cp[p]["dn"].pc = "end"
  PROVE  Earned(p + 1, {"up"}, {"dn"}) /\ Earned(p, {"dn"}, {"up"})
<1>1. ~Uncut("up")
  BY NobodyCloses DEF Ending
<1>2. Uncut("dn") => cp'[p]["dn"].pc \in Ending
  <2>1. Uncut("dn") => ~Refused(p)
    BY DEF Uncut, Faulted
  <2> QED BY <2>1 DEF ClosesLast, Ending
<1>3. "dn" \in Dirs /\ Src(p, "dn") = p + 1 /\ Dst(p, "dn") = p
  BY DEF Dirs, Src, Dst
<1>4. Uncut("dn") => ReaderShut(p + 1, "dn")' /\ WriterEnded(p, "dn")'
  BY <1>2, <1>3, Ends DEF ReaderShut, WriterEnded
<1> QED BY <1>1, <1>4 DEF Earned

(* The steps of handleStream.                                              *)
LEMMA HandlerSettles ==
  ASSUME TypeOK, InFlight, ClosesLast, EndsInOrder("dn"), NEW p \in Proxies,
         HandleStream(p) \/ OpenStreamFail(p)
  PROVE  Settled
<1>1. CountsKept
  BY HandlerCounts
<1>2. /\ p \in Links /\ p + 1 \in Links /\ Kind(p) \in Kinds /\ Kind(p + 1) \in Kinds
      /\ link[p] \in Stream /\ link[p + 1] \in Stream
      /\ "up" \in Dirs /\ "dn" \in Dirs /\ Opp("up") = "dn" /\ Opp("dn") = "up"
  BY Geometry, KindType DEF TypeOK, Dirs, Opp
<1>3. CASE Accept(p) \/ OpenStream(p) \/ OpenStreamReturn(p) \/ OpenStreamLost(p)
             \/ OpenStreamFail(p)
  BY <1>1, <1>3 DEF Accept, OpenStream, OpenStreamReturn, OpenStreamLost, OpenStreamFail,
                    Settled
<1>4. CASE UpClose(p) \/ UpAbort(p) \/ UpCloseReturn(p)
  <2> DEFINE k == Kind(p + 1)
             s == link[p + 1]
             t == Close(k, s, "up")
  <2>1. Earned(p + 1, {"up"}, {"dn"})
    BY <1>4, CloseEarned DEF UpClose, UpAbort, UpCloseReturn
  <2>2. Effects(k, s, t, {"up"}, {"dn"})
    BY <1>2, CloseEffects
  <2>3. Effects(k, t, CloseRest(k, t, "up"), {"up"}, {"dn"})
    <3>1. t \in Stream
      BY <2>2 DEF Effects
    <3> HIDE DEF t
    <3> QED BY <1>2, <3>1, CloseRestEffects
  <2>4. Effects(k, s, CloseRest(k, t, "up"), {"up"}, {"dn"})
    BY <2>2, <2>3, EffectsTrans
  <2>5. Effects(k, s, CloseRest(k, s, "up"), {"up"}, {"dn"})
    BY <1>2, CloseRestEffects
  <2>6. Effects(k, s, TlsAbort(s, "up"), {"up"}, {"dn"})
    BY <1>2, TlsAbortEffects, EffectsMore
  <2>7. \E u : /\ link' = [link EXCEPT ![p + 1] = u]
               /\ Effects(k, s, u, {"up"}, {"dn"})
    BY <1>4, <2>2, <2>4, <2>5, <2>6 DEF UpClose, UpAbort, UpCloseReturn
  <2>8. PICK u : link' = [link EXCEPT ![p + 1] = u] /\ Effects(k, s, u, {"up"}, {"dn"})
    BY <2>7
  <2>9. u \in Stream
    BY <2>8 DEF Effects
  <2> HIDE DEF t
  <2>10. StreamSettles
    BY <1>2, <2>1, <2>8, <2>9 DEF StreamSettles
  <2> QED BY <1>1, <2>10 DEF Settled
<1>5. CASE DownClose(p) \/ DownCloseReturn(p)
  <2> DEFINE k == Kind(p)
             s == link[p]
             t == Close(k, s, "dn")
  <2>1. Earned(p, {"dn"}, {"up"})
    <3>1. hs[p] \in {"upWait", "downClose", "downWait"} /\ cp' = cp
      BY <1>5 DEF DownClose, DownCloseReturn
    <3> QED BY <3>1, CloseEarned
  <2>2. Effects(k, s, t, {"dn"}, {"up"})
    BY <1>2, CloseEffects
  <2>3. Effects(k, t, CloseRest(k, t, "dn"), {"dn"}, {"up"})
    <3>1. t \in Stream
      BY <2>2 DEF Effects
    <3> HIDE DEF t
    <3> QED BY <1>2, <3>1, CloseRestEffects
  <2>4. Effects(k, s, CloseRest(k, t, "dn"), {"dn"}, {"up"})
    BY <2>2, <2>3, EffectsTrans
  <2>5. Effects(k, s, CloseRest(k, s, "dn"), {"dn"}, {"up"})
    BY <1>2, CloseRestEffects
  <2>6. \E u : /\ link' = [link EXCEPT ![p] = u]
               /\ Effects(k, s, u, {"dn"}, {"up"})
    BY <1>5, <2>2, <2>4, <2>5 DEF DownClose, DownCloseReturn
  <2>7. PICK u : link' = [link EXCEPT ![p] = u] /\ Effects(k, s, u, {"dn"}, {"up"})
    BY <2>6
  <2>8. u \in Stream
    BY <2>7 DEF Effects
  <2> HIDE DEF t
  <2>9. StreamSettles
    BY <1>2, <2>1, <2>7, <2>8 DEF StreamSettles
  <2> QED BY <1>1, <2>9 DEF Settled
<1> QED BY <1>3, <1>4, <1>5 DEF HandleStream

(* A Write that is not refused queues the chunk, or resets the connection. *)
LEMMA WrittenOrReset ==
  ASSUME NEW k \in Kinds, NEW s \in Stream, NEW d \in Dirs, NEW m \in Nat
  PROVE  \/ Written(k, s, d, m) = Put(s, d, m)
         \/ Failed(Written(k, s, d, m)) /\ Quiet(s, Written(k, s, d, m))
<1> DEFINE t == MarkBoth(s, {"reset"})
<1>1. Quiet(s, t)
  BY QuietMarkBoth DEF Flags
<1>2. Failed(t)
  BY DEF Failed, MarkBoth, Any, Dirs
<1> HIDE DEF t
<1>3. Written(k, s, d, m) \in {Put(s, d, m), t}
  BY DEF Written, StdWritten, t
<1> QED BY <1>1, <1>2, <1>3

(* A copier that moves without taking or putting a chunk.                  *)
LEMMA CopierKeepsCounts ==
  ASSUME TypeOK, NEW p \in Proxies, NEW d \in Dirs, NEW x \in Copier,
         Become(p, d, x), UNCHANGED <<sent, rcvd>>,
         Fetched(x) = Fetched(cp[p][d]), Delivered(x) = Delivered(cp[p][d])
  PROVE  CountsKept
BY CountsBecome DEF CountsKept

(* io.Copy takes a chunk from its source.                                  *)
LEMMA CopyPops ==
  ASSUME TypeOK, InFlight, NEW p \in Proxies, NEW d \in Dirs,
         cp[p][d].pc \in {"read", "recv"}, UNCHANGED <<hs, rest>>,
         "data" \in Read(Kind(Src(p, d)), link[Src(p, d)], d),
         Become(p, d, [cp[p][d] EXCEPT !.pc = "write", !.hand = Head(link[Src(p, d)][d].q)]),
         link' = [link EXCEPT ![Src(p, d)] = Pop(@, d)]
  PROVE  Popped(Src(p, d), d)
<1> DEFINE l == Src(p, d)
           h == link[l][d]
           c == cp[p][d]
           x == [c EXCEPT !.pc = "write", !.hand = Head(h.q)]
<1>1. /\ l \in Links /\ Kind(l) \in Kinds /\ link[l] \in Stream /\ h \in Half
      /\ c \in Copier /\ c.hand = 0
  BY Geometry, KindType DEF TypeOK, Stream, InFlight, CopierInOrder
<1>2. HalfInOrder(Kind(l), h, Taken(l, d), Given(l, d))
      /\ Taken(l, d) \in Nat /\ Given(l, d) \in Nat
  BY <1>1, HalfCounts DEF InFlight, HopInOrder
<1>3. h.q # <<>> /\ Head(h.q) # END /\ Readable(Kind(l), h)
  BY <1>1, <1>2, ReadData DEF HalfInOrder
<1>4. Head(h.q) = Taken(l, d) + 1
  BY <1>1, <1>2, <1>3, PopInOrder
<1>5. Taken(l, d) = c.written
  BY <1>1, Ends DEF Taken, Fetched
<1>6. Head(h.q) \in Nat
  BY <1>2, <1>4
<1>7. x \in Copier /\ x.pc = "write" /\ x.hand = Head(h.q) /\ x.written = c.written
  <2> HIDE DEF c, h
  <2> QED BY <1>1, <1>6, ReadFields
<1>8. Fetched(x) = Taken(l, d) + 1 /\ Delivered(x) = Delivered(c)
  BY <1>2, <1>4, <1>5, <1>7 DEF Fetched, Delivered
<1>9. /\ Taken(l, d)' = Taken(l, d) + 1
      /\ \A i \in Links, e \in Dirs : <<i, e>> # <<l, d>> => Taken(i, e)' = Taken(i, e)
      /\ \A i \in Links, e \in Dirs : Given(i, e)' = Given(i, e)
  BY <1>7, <1>8, CountsBecome DEF rest
<1> QED BY <1>3, <1>4, <1>9 DEF Popped

(* io.Copy puts its chunk into its destination.                            *)
LEMMA CopyPushes ==
  ASSUME TypeOK, InFlight, NEW p \in Proxies, NEW d \in Dirs,
         cp[p][d].pc \in {"write", "send"}, UNCHANGED <<hs, rest>>,
         NextChunk(p, d) \/ Goto(p, d, "wait"),
         link' = [link EXCEPT ![Dst(p, d)] =
                    Written(Kind(Dst(p, d)), @, d, cp[p][d].hand)]
  PROVE  Pushed(Dst(p, d), d)
<1> DEFINE l == Dst(p, d)
           k == Kind(l)
           s == link[l]
           c == cp[p][d]
           g == Given(l, d)
           t == Written(k, s, d, c.hand)
<1>1. /\ l \in Links /\ k \in Kinds /\ s \in Stream
      /\ c \in Copier /\ c.hand = c.written + 1 /\ c.hand \in Nat /\ c.hand # 0
  <2>1. l \in Links /\ k \in Kinds /\ s \in Stream /\ c \in Copier
    BY Geometry, KindType DEF TypeOK
  <2>2. CopierInOrder(p, d)
    BY DEF InFlight
  <2> QED BY <2>1, <2>2 DEF CopierInOrder, Copier
<1>2. g = c.written
  BY <1>1, Ends DEF Given, Delivered
<1>3. PICK x \in Copier : Become(p, d, x) /\ Fetched(x) = Fetched(c) /\ Delivered(x) = g + 1
  <2> DEFINE y == [c EXCEPT !.pc = "read", !.hand = 0, !.written = @ + 1]
             z == [c EXCEPT !.pc = "wait"]
  <2>1. y \in Copier /\ y.pc = "read" /\ y.hand = 0 /\ y.written = c.written + 1
    <3> HIDE DEF c
    <3> QED BY <1>1, WrittenFields
  <2>2. z \in Copier /\ z.pc = "wait" /\ z.hand = c.hand /\ z.written = c.written
    <3> HIDE DEF c
    <3> QED BY <1>1, GotoFields DEF CopyStates
  <2>3. Become(p, d, y) \/ Become(p, d, z)
    BY DEF NextChunk, Goto
  <2> HIDE DEF y, z, c, g
  <2>4. Fetched(y) = Fetched(c) /\ Delivered(y) = g + 1
    BY <1>1, <1>2, <2>1 DEF Fetched, Delivered
  <2>5. Fetched(z) = Fetched(c) /\ Delivered(z) = g + 1
    BY <1>1, <1>2, <2>2 DEF Fetched, Delivered
  <2> QED BY <2>1, <2>2, <2>3, <2>4, <2>5
<1>4. /\ Given(l, d)' = g + 1
      /\ \A i \in Links, e \in Dirs : <<i, e>> # <<l, d>> => Given(i, e)' = Given(i, e)
      /\ \A i \in Links, e \in Dirs : Taken(i, e)' = Taken(i, e)
  BY <1>3, CountsBecome DEF rest
<1>5. t \in Stream
  BY <1>1, WrittenType
<1>6. t = Put(s, d, g + 1) \/ (Failed(t) /\ Quiet(s, t))
  BY <1>1, <1>2, WrittenOrReset
<1>7. ~WriterEnded(l, d)
  BY Ends DEF WriterEnded, Ending
<1>8. link' = [link EXCEPT ![l] = t]
  OBVIOUS
<1> HIDE DEF t, g
<1> QED BY <1>4, <1>5, <1>6, <1>7, <1>8 DEF Pushed, g

(* io.Copy gives up after a failed Write.                                  *)
LEMMA StopWritingFails ==
  ASSUME TypeOK, InFlight, NEW p \in Proxies, NEW d \in Dirs,
         cp[p][d].pc \in {"write", "send", "wait"}, UNCHANGED <<hs, link, rest>>,
         StopWriting(p, d)
  PROVE  Settled
<1> DEFINE c == cp[p][d]
<1>1. c \in Copier /\ c.hand = c.written + 1 /\ c.hand # 0
  BY DEF TypeOK, InFlight, CopierInOrder
<1>2. PICK x \in Copier : /\ Become(p, d, x) /\ x.err
                          /\ Fetched(x) = Fetched(c) /\ Delivered(c) <= Delivered(x)
  <2>1. CASE Kind(Dst(p, d)) = "mdcapnp"
    <3> DEFINE x == [pc |-> "closeRead", hand |-> 0, written |-> c.written + 1, err |-> TRUE]
    <3>1. Become(p, d, x)
      BY <2>1 DEF StopWriting
    <3>2. x \in Copier /\ x.err
      BY <1>1 DEF Copier, CopyStates
    <3>3. x.pc = "closeRead" /\ x.hand = 0 /\ x.written = c.written + 1
      OBVIOUS
    <3> HIDE DEF x
    <3>4. c.written \in Nat
      BY <1>1 DEF Copier
    <3>5. Fetched(x) = Fetched(c) /\ Delivered(c) <= Delivered(x)
      BY <1>1, <3>3, <3>4 DEF Fetched, Delivered
    <3> QED BY <3>1, <3>2, <3>5
  <2>2. CASE Kind(Dst(p, d)) # "mdcapnp"
    <3> DEFINE x == [c EXCEPT !.pc = "closeRead", !.err = TRUE]
    <3>1. Become(p, d, x)
      BY <2>2 DEF StopWriting, Stop
    <3> HIDE DEF c
    <3>2. x \in Copier /\ x.pc = "closeRead" /\ x.hand = c.hand /\ x.written = c.written
      BY <1>1, StopFields
    <3>3. x.err = TRUE
      BY <1>1, ErrFields
    <3> HIDE DEF x
    <3>4. c.written \in Nat /\ c.pc # "wait"
      <4>1. c.pc # "wait"
        BY <2>2 DEF InFlight, CopierInOrder, c
      <4> QED BY <1>1, <4>1 DEF Copier
    <3>5. Fetched(x) = Fetched(c) /\ Delivered(c) <= Delivered(x)
      BY <3>2, <3>4 DEF Fetched, Delivered
    <3> QED BY <3>1, <3>2, <3>3, <3>5 DEF c
  <2> QED BY <2>1, <2>2
<1>3. cp'[p][d].err
  <2>1. cp'[p][d] = x
    BY <1>2 DEF Become, TypeOK
  <2> QED BY <1>2, <2>1
<1>4. Faulted'
  BY <1>3 DEF Faulted
<1>5. \A l \in Links, e \in Dirs : Taken(l, e)' = Taken(l, e) /\ Given(l, e) <= Given(l, e)'
  <2> HIDE DEF c
  <2>1. /\ Taken(Src(p, d), d)' = Taken(Src(p, d), d)
        /\ Given(Dst(p, d), d) <= Given(Dst(p, d), d)'
        /\ \A l \in Links, e \in Dirs :
              /\ <<l, e>> # <<Src(p, d), d>> => Taken(l, e)' = Taken(l, e)
              /\ <<l, e>> # <<Dst(p, d), d>> => Given(l, e)' = Given(l, e)
    BY <1>2, CountsBecome DEF rest, c
  <2>2. \A l \in Links, e \in Dirs : Taken(l, e)' = Taken(l, e)
    BY <2>1
  <2>3. \A l \in Links, e \in Dirs : Given(l, e) \in Nat
    BY HalfCounts
  <2>4. \A l \in Links, e \in Dirs : Given(l, e) <= Given(l, e)'
    BY <2>1, <2>3
  <2> QED BY <2>2, <2>4
<1> QED BY <1>4, <1>5 DEF Settled, CountsFail

(* A step of copyStream after io.Copy, on one of its streams.              *)
LEMMA CopySettlesStream ==
  ASSUME TypeOK, NEW p \in Proxies, NEW d \in Dirs, UNCHANGED <<sent, rcvd>>,
         NEW pc \in CopyStates \ {"wait"}, Goto(p, d, pc), cp[p][d].pc # "wait",
         NEW i \in Links, NEW t, link' = [link EXCEPT ![i] = t],
         NEW W \in SUBSET Dirs, NEW R \in SUBSET Dirs,
         Effects(Kind(i), link[i], t, W, R), Earned(i, W, R)
  PROVE  Settled
<1> DEFINE c == cp[p][d]
           x == [c EXCEPT !.pc = pc]
<1>1. c \in Copier
  BY DEF TypeOK
<1>2. Become(p, d, x)
  BY DEF Goto
<1>3. x \in Copier /\ x.pc = pc /\ x.hand = c.hand /\ x.written = c.written
  <2> HIDE DEF c
  <2> QED BY <1>1, GotoFields
<1> HIDE DEF x
<1>4. Fetched(x) = Fetched(c) /\ Delivered(x) = Delivered(c)
  BY <1>3 DEF Fetched, Delivered
<1>5. CountsKept
  BY <1>2, <1>3, <1>4, CopierKeepsCounts
<1>6. t \in Stream
  BY DEF Effects
<1>7. StreamSettles
  BY <1>6 DEF StreamSettles
<1> QED BY <1>5, <1>7 DEF Settled

(* A step of copyStream that leaves its streams alone.                     *)
LEMMA CopyStays ==
  ASSUME TypeOK, InFlight, NEW p \in Proxies, NEW d \in Dirs, UNCHANGED <<sent, rcvd>>,
         link' = link,
         \/ \E pc \in CopyStates \ {"wait"} : Goto(p, d, pc) /\ cp[p][d].pc # "wait"
         \/ \E b \in BOOLEAN : Stop(p, d, b) /\ cp[p][d].pc # "wait"
         \/ NextChunk(p, d) /\ cp[p][d].pc = "wait"
  PROVE  Settled
<1> DEFINE c == cp[p][d]
           Kept(x) == Fetched(x) = Fetched(c) /\ Delivered(x) = Delivered(c)
<1>1. /\ c \in Copier /\ c.written \in Nat
      /\ c.pc = "wait" => c.hand # 0
  BY DEF TypeOK, InFlight, CopierInOrder, Copier
<1>2. ASSUME NEW pc \in CopyStates \ {"wait"}, Goto(p, d, pc), c.pc # "wait"
      PROVE  \E x \in Copier : Become(p, d, x) /\ Kept(x)
  <2> DEFINE x == [c EXCEPT !.pc = pc]
  <2>1. Become(p, d, x)
    BY <1>2 DEF Goto
  <2> HIDE DEF c
  <2>2. x \in Copier /\ x.pc = pc /\ x.hand = c.hand /\ x.written = c.written
    BY <1>1, GotoFields
  <2> HIDE DEF x
  <2>3. Kept(x)
    BY <1>2, <2>2 DEF Fetched, Delivered
  <2> QED BY <2>1, <2>2, <2>3
<1>3. ASSUME NEW b \in BOOLEAN, Stop(p, d, b), c.pc # "wait"
      PROVE  \E x \in Copier : Become(p, d, x) /\ Kept(x)
  <2> DEFINE x == [c EXCEPT !.pc = "closeRead", !.err = b]
  <2>1. Become(p, d, x)
    BY <1>3 DEF Stop
  <2> HIDE DEF c
  <2>2. x \in Copier /\ x.pc = "closeRead" /\ x.hand = c.hand /\ x.written = c.written
    BY <1>1, StopFields
  <2> HIDE DEF x
  <2>3. Kept(x)
    BY <1>3, <2>2 DEF Fetched, Delivered
  <2> QED BY <2>1, <2>2, <2>3
<1>4. ASSUME NextChunk(p, d), c.pc = "wait"
      PROVE  \E x \in Copier : Become(p, d, x) /\ Kept(x)
  <2> DEFINE x == [c EXCEPT !.pc = "read", !.hand = 0, !.written = @ + 1]
  <2>1. Become(p, d, x)
    BY <1>4 DEF NextChunk
  <2> HIDE DEF c
  <2>2. x \in Copier /\ x.pc = "read" /\ x.hand = 0 /\ x.written = c.written + 1
    BY <1>1, WrittenFields
  <2> HIDE DEF x
  <2>3. Kept(x)
    BY <1>1, <1>4, <2>2 DEF Fetched, Delivered
  <2> QED BY <2>1, <2>2, <2>3
<1>5. \E x \in Copier : Become(p, d, x) /\ Kept(x)
  BY <1>2, <1>3, <1>4
<1>6. CountsKept
  BY <1>5, CopierKeepsCounts
<1> QED BY <1>6 DEF Settled

(* Every step of copyStream settles, takes a chunk or puts one.            *)
LEMMA CopySteps ==
  ASSUME TypeOK, InFlight, ClosesLast, EndsInOrder("dn"),
         NEW p \in Proxies, NEW d \in Dirs, CopyStream(p, d)
  PROVE  Settled \/ Popped(Src(p, d), d) \/ Pushed(Dst(p, d), d)
<1> DEFINE l == Src(p, d)
           m == Dst(p, d)
           c == cp[p][d]
<1>1. /\ l \in Links /\ m \in Links
      /\ Kind(l) \in Kinds /\ Kind(m) \in Kinds
      /\ link[l] \in Stream /\ link[m] \in Stream
  BY Geometry, KindType DEF TypeOK
<1>2. {"recv", "send", "closeWrite", "endWait", "end"} \subseteq CopyStates \ {"wait"}
  BY DEF CopyStates
<1>3. ASSUME NEW pc \in {"closeWrite", "endWait", "end"}, Goto(p, d, pc)
      PROVE  cp'[p][d].pc \in Ending
  BY <1>3 DEF Goto, Become, TypeOK, Copier, Ending
<1>4. CASE CopyReadCheck(p, d)
  <2>1. /\ link' = link /\ UNCHANGED <<sent, rcvd>> /\ c.pc # "wait"
        /\ Goto(p, d, "recv") \/ Stop(p, d, FALSE)
    BY <1>4 DEF CopyReadCheck, rest
  <2> QED BY <1>2, <2>1, CopyStays
<1>5. CASE CopyRead(p, d)
  <2>1. c.pc \in {"read", "recv"} /\ UNCHANGED <<hs, rest>>
    BY <1>5 DEF CopyRead
  <2>2. \/ /\ "data" \in Read(Kind(l), link[l], d)
           /\ Become(p, d, [c EXCEPT !.pc = "write", !.hand = Head(link[l][d].q)])
           /\ link' = [link EXCEPT ![l] = Pop(@, d)]
        \/ link' = link /\ (Stop(p, d, FALSE) \/ Stop(p, d, TRUE))
    BY <1>5 DEF CopyRead
  <2>3. CASE link' = link /\ (Stop(p, d, FALSE) \/ Stop(p, d, TRUE))
    <3>1. UNCHANGED <<sent, rcvd>> /\ c.pc # "wait"
      BY <2>1 DEF rest
    <3> QED BY <2>3, <3>1, CopyStays
  <2> QED BY <2>1, <2>2, <2>3, CopyPops
<1>6. CASE CopyWriteCheck(p, d)
  <2>1. /\ link' = link /\ UNCHANGED <<sent, rcvd>> /\ c.pc # "wait"
        /\ Goto(p, d, "send") \/ Stop(p, d, TRUE)
    BY <1>6 DEF CopyWriteCheck, rest
  <2> QED BY <1>2, <2>1, CopyStays
<1>7. CASE CopyWrite(p, d)
  <2>1. c.pc \in {"write", "send"} /\ UNCHANGED <<hs, rest>>
    BY <1>7 DEF CopyWrite
  <2>2. \/ /\ NextChunk(p, d) \/ Goto(p, d, "wait")
           /\ link' = [link EXCEPT ![m] = Written(Kind(m), @, d, c.hand)]
        \/ StopWriting(p, d) /\ link' = link
    BY <1>7 DEF CopyWrite
  <2> QED BY <2>1, <2>2, CopyPushes, StopWritingFails
<1>8. CASE CopyWriteReturn(p, d)
  <2>1. /\ c.pc = "wait" /\ UNCHANGED <<hs, link, rest>>
        /\ NextChunk(p, d) \/ StopWriting(p, d)
    BY <1>8 DEF CopyWriteReturn
  <2>2. UNCHANGED <<sent, rcvd>> /\ link' = link
    BY <2>1 DEF rest
  <2> QED BY <2>1, <2>2, CopyStays, StopWritingFails
<1>9. CASE CopyCloseRead(p, d)
  <2> DEFINE W == IF d = "dn" THEN {"up"} ELSE {}
             t == CloseRead(Kind(l), link[l], d)
  <2>1. /\ c.pc = "closeRead" /\ Goto(p, d, "closeWrite") /\ UNCHANGED <<sent, rcvd>>
        /\ link' = [link EXCEPT ![l] = t]
    BY <1>9 DEF CopyCloseRead, rest
  <2>2. ASSUME NEW e \in Dirs, Uncut(e)
        PROVE  (e \in W => WriterEnded(l, e)') /\ (e \in {d} => ReaderShut(l, e)')
    <3>1. e \notin W
      BY <2>1, <2>2, NobodyCloses DEF Ending
    <3>2. cp'[p][d].pc \in Ending
      BY <1>3, <2>1
    <3>3. ReaderShut(l, d)'
      BY <3>2, Ends DEF ReaderShut
    <3> QED BY <3>1, <3>3
  <2>3. Earned(l, W, {d})
    BY <2>2 DEF Earned
  <2>4. Effects(Kind(l), link[l], t, W, {d})
    BY <1>1, CloseReadEffects
  <2>5. W \in SUBSET Dirs /\ {d} \in SUBSET Dirs
    BY DEF Dirs
  <2> HIDE DEF W, t, l, c
  <2> QED BY <1>1, <1>2, <2>1, <2>3, <2>4, <2>5, CopySettlesStream DEF c
<1>10. ASSUME NEW t, link' = [link EXCEPT ![m] = t], c.pc = "closeWrite",
              Effects(Kind(m), link[m], t, {d}, {}), UNCHANGED <<sent, rcvd>>,
              NEW pc \in {"endWait", "end"}, Goto(p, d, pc)
       PROVE  Settled
  <2>1. cp'[p][d].pc \in Ending
    BY <1>3, <1>10
  <2>2. WriterEnded(m, d)'
    BY <2>1, Ends DEF WriterEnded
  <2>3. Earned(m, {d}, {})
    BY <2>2 DEF Earned
  <2>4. {d} \in SUBSET Dirs /\ {} \in SUBSET Dirs /\ pc \in CopyStates \ {"wait"} /\ c.pc # "wait"
    BY <1>2, <1>10
  <2> HIDE DEF m, c
  <2> QED BY <1>1, <1>10, <2>3, <2>4, CopySettlesStream DEF c
<1>11. CASE CopyCloseWrite(p, d)
  <2> DEFINE t == CloseWrite(Kind(m), link[m], d)
  <2>1. /\ c.pc = "closeWrite" /\ UNCHANGED <<sent, rcvd>>
        /\ link' = [link EXCEPT ![m] = t]
        /\ Goto(p, d, "endWait") \/ Goto(p, d, "end")
    BY <1>11 DEF CopyCloseWrite, rest
  <2>2. Effects(Kind(m), link[m], t, {d}, {})
    BY <1>1, CloseWriteEffects
  <2> HIDE DEF t, m, c
  <2> QED BY <1>10, <2>1, <2>2
<1>12. CASE CopyCloseWriteStuck(p, d)
  <2> DEFINE t == TlsAlertGivenUp(link[m], d)
  <2>1. /\ c.pc = "closeWrite" /\ UNCHANGED <<sent, rcvd>> /\ Goto(p, d, "end")
        /\ link' = [link EXCEPT ![m] = t]
    BY <1>12 DEF CopyCloseWriteStuck, rest
  <2>2. Effects(Kind(m), link[m], t, {d}, {})
    BY <1>1, TlsMarkEffects, EffectsMore
  <2> HIDE DEF t, m, c
  <2> QED BY <1>10, <2>1, <2>2
<1>13. CASE CopyCloseWriteReturn(p, d)
  <2>1. /\ link' = link /\ UNCHANGED <<sent, rcvd>> /\ c.pc # "wait" /\ Goto(p, d, "end")
    BY <1>13 DEF CopyCloseWriteReturn, rest
  <2> QED BY <1>2, <2>1, CopyStays
<1> QED BY <1>4, <1>5, <1>6, <1>7, <1>8, <1>9, <1>11, <1>12, <1>13 DEF CopyStream

(* The steps of the RPC systems, the network and the applications that     *)
(* move no chunk.                                                          *)
LEMMA EnvironmentSettles ==
  ASSUME TypeOK, InFlight, ClosesLast, EndsInOrder("dn"),
         \/ \E l \in Carried, d \in Dirs : Handshake(l, d) \/ ServeCall(l, d)
         \/ \E l \in Carried : Lose(l)
         \/ \E d \in Dirs : AppShut(d) \/ AppClose(d)
         \/ UNCHANGED vars
  PROVE  Settled
<1>1. /\ UNCHANGED <<sent, rcvd, cp>>
  BY DEF Handshake, ServeCall, Lose, AppShut, AppClose, vars, rest
<1>2. CountsKept
  <2>1. \A i \in Proxies, e \in Dirs : /\ Fetched(cp[i][e])' = Fetched(cp[i][e])
                                       /\ Delivered(cp[i][e])' = Delivered(cp[i][e])
    BY <1>1 DEF Fetched, Delivered
  <2> QED BY <1>1, <2>1, CountsSame DEF CountsKept
<1>3. ASSUME NEW l \in Links, NEW t, link' = [link EXCEPT ![l] = t],
             NEW W \in SUBSET Dirs, Effects(Kind(l), link[l], t, W, {}), Earned(l, W, {})
      PROVE  Settled
  <2>1. t \in Stream
    BY <1>3 DEF Effects
  <2>2. {} \in SUBSET Dirs
    OBVIOUS
  <2>3. StreamSettles
    BY <1>3, <2>1, <2>2 DEF StreamSettles
  <2> QED BY <1>2, <2>3 DEF Settled
<1>4. ASSUME NEW l \in Links PROVE Earned(l, {}, {})
  BY DEF Earned
<1>5. ASSUME NEW l \in Carried, NEW d \in Dirs, Handshake(l, d)
      PROVE  Settled
  <2> DEFINE t == TlsShake(link[l], d)
  <2>1. l \in Links /\ link[l] \in Stream
    BY DEF Carried, TypeOK
  <2>2. Effects(Kind(l), link[l], t, {}, {})
    BY <2>1, TlsMarkEffects
  <2>3. link' = [link EXCEPT ![l] = t]
    BY <1>5 DEF Handshake
  <2>4. {} \in SUBSET Dirs
    OBVIOUS
  <2> HIDE DEF t
  <2> QED BY <1>3, <1>4, <2>1, <2>2, <2>3, <2>4
<1>6. ASSUME NEW l \in Carried, NEW d \in Dirs, ServeCall(l, d)
      PROVE  Settled
  <2> DEFINE k == Kind(l)
             t == Serve(k, link[l], d)
             W == IF k = "grpc" THEN Dirs ELSE {}
  <2>1. l \in Links /\ link[l] \in Stream /\ k \in Kinds /\ W \in SUBSET Dirs
    BY KindType DEF Carried, TypeOK
  <2>2. Effects(k, link[l], t, W, {}) /\ (k = "grpc" => Closing(link[l]["dn"]))
    BY <1>6, <2>1, ServeEffects DEF ServeCall
  <2>3. link' = [link EXCEPT ![l] = t]
    BY <1>6 DEF ServeCall
  <2>4. "dn" \in Dirs /\ l \in Proxies /\ l # AppLink("dn") /\ Dirs = {"up", "dn"}
    BY TunnelAssumption DEF Carried, Links, Proxies, AppLink, Dirs
  <2>5. ASSUME k = "grpc", Uncut("dn")
        PROVE  WriterEnded(l, "dn")
    BY <2>1, <2>2, <2>5 DEF EndsInOrder, HopEnds
  <2>6. ASSUME k = "grpc"
        PROVE  ~Uncut("up")
    <3>1. Uncut("up") => Uncut("dn")
      BY DEF Uncut
    <3>2. Uncut("up") => ~WriterEnded(l, "dn")
      BY <2>4, NobodyCloses
    <3> QED BY <2>5, <2>6, <3>1, <3>2
  <2>7. WriterEnded(l, "dn") => WriterEnded(l, "dn")'
    BY <1>1, <2>4 DEF WriterEnded, Writer
  <2>8. Earned(l, W, {})
    BY <2>4, <2>5, <2>6, <2>7 DEF Earned
  <2> HIDE DEF t, W, k
  <2> QED BY <1>3, <2>1, <2>2, <2>3, <2>8 DEF k
<1>7. ASSUME NEW l \in Carried, Lose(l)
      PROVE  Settled
  <2>1. l \in Links /\ link[l] \in Stream /\ Kind(l) \in Kinds /\ {} \in SUBSET Dirs
    BY KindType DEF Carried, TypeOK
  <2>2. CASE link' = [link EXCEPT ![l] = StdLose(@)]
    <3>1. Effects(Kind(l), link[l], StdLose(link[l]), {}, {})
      BY <2>1, LoseEffects
    <3> QED BY <1>3, <1>4, <2>1, <2>2, <3>1
  <2>3. ASSUME Kind(l) \notin Sockets, NEW ku \in 0 .. Len(link[l]["up"].q),
               NEW kd \in 0 .. Len(link[l]["dn"].q),
               link' = [link EXCEPT ![l] = RpcLose(link[l], ku, kd)]
        PROVE  Settled
    <3>1. Effects(Kind(l), link[l], RpcLose(link[l], ku, kd), {}, {})
      BY <2>1, <2>3, LoseEffects
    <3> QED BY <1>3, <1>4, <2>1, <2>3, <3>1
  <2> QED BY <1>7, <2>2, <2>3 DEF Lose
<1>8. ASSUME NEW d \in Dirs, AppShut(d)
      PROVE  Settled
  <2> DEFINE l == AppLink(d)
             t == StdCloseWrite(link[l], d)
  <2>1. l \in Links /\ link[l] \in Stream /\ Kind(l) = "std" /\ "std" \in Kinds
        /\ {d} \in SUBSET Dirs
    BY Geometry, KindType DEF TypeOK, Kinds
  <2>2. Effects("std", link[l], t, {d}, {})
    BY <2>1, CloseWriteEffects DEF CloseWrite
  <2>3. link' = [link EXCEPT ![l] = t]
    BY <1>8 DEF AppShut
  <2>4. "wshut" \in t[d].f
    BY <2>1 DEF StdCloseWrite, Mark, Stream
  <2>5. link'[l] = t
    BY <2>1, <2>3 DEF TypeOK
  <2>6. WriterEnded(l, d)'
    BY <2>4, <2>5 DEF WriterEnded, AppHasShut, Any
  <2>7. Earned(l, {d}, {})
    BY <2>6 DEF Earned
  <2> HIDE DEF l, t
  <2> QED BY <1>3, <2>1, <2>2, <2>3, <2>7
<1>9. ASSUME NEW d \in Dirs, AppClose(d)
      PROVE  Settled
  <2> DEFINE o == Opp(d)
             l == AppLink(o)
             t == StdClose(link[l], o)
  <2>1. /\ l \in Links /\ link[l] \in Stream /\ Kind(l) = "std" /\ o \in Dirs
        /\ {o} \in SUBSET Dirs
    BY Geometry, KindType, OppType DEF TypeOK
  <2>2. Effects("std", link[l], t, {o}, {}) /\ "wshut" \in t[o].f
    BY <2>1, StdCloseEffects
  <2>3. link' = [link EXCEPT ![l] = t]
    BY <1>9 DEF AppClose
  <2>4. link'[l] = t
    BY <2>1, <2>3 DEF TypeOK
  <2>5. WriterEnded(l, o)'
    BY <2>2, <2>4 DEF WriterEnded, AppHasShut, Any
  <2>6. Earned(l, {o}, {})
    BY <2>5 DEF Earned
  <2> HIDE DEF l, t, o
  <2> QED BY <1>3, <2>1, <2>2, <2>3, <2>6
<1>10. CASE UNCHANGED vars
  BY <1>2, <1>10 DEF Settled, vars
<1> QED BY <1>5, <1>6, <1>7, <1>8, <1>9, <1>10

(* An application puts the chunk it sends into its stream.                 *)
LEMMA AppPushes ==
  ASSUME TypeOK, NEW d \in Dirs, AppSend(d)
  PROVE  Pushed(AppLink(d), d)
<1> DEFINE l == AppLink(d)
           s == link[l]
           g == Given(l, d)
           t == StdWritten(s, d, g + 1)
<1>1. /\ l \in Links /\ "std" \in Kinds /\ s \in Stream
      /\ g = sent[d] /\ g \in Nat /\ g + 1 \in Nat /\ UNCHANGED <<inner, hs, cp, rcvd>>
  BY Geometry DEF TypeOK, AppSend, Kinds, Given
<1>2. t \in Stream /\ t = Written("std", s, d, g + 1)
  BY <1>1, WrittenType DEF Written, Sockets
<1>3. t = Put(s, d, g + 1) \/ (Failed(t) /\ Quiet(s, t))
  BY <1>1, <1>2, WrittenOrReset
<1>4. link' = [link EXCEPT ![l] = t]
  BY <1>1 DEF AppSend
<1>5. sent'[d] = g + 1 /\ \A e \in Dirs \ {d} : sent'[e] = sent[e]
  BY <1>1 DEF AppSend, TypeOK
<1>6. Given(l, d)' = g + 1
  BY <1>5 DEF Given
<1>7. \A i \in Links, e \in Dirs : <<i, e>> # <<l, d>> => Given(i, e)' = Given(i, e)
  BY <1>1, <1>5 DEF Given, Delivered
<1>8. \A i \in Links, e \in Dirs : Taken(i, e)' = Taken(i, e)
  BY <1>1 DEF Taken, Fetched
<1>9. ~WriterEnded(l, d)
  BY DEF WriterEnded, AppHasShut, AppSend, StdWrite, Any
<1> HIDE DEF t, g
<1> QED BY <1>2, <1>3, <1>4, <1>6, <1>7, <1>8, <1>9 DEF Pushed, g

(* An application takes a chunk from its stream, or reaches the end of it. *)
LEMMA AppReads ==
  ASSUME TypeOK, InFlight, NEW d \in Dirs, AppRead(d)
  PROVE  \/ /\ Popped(AppLink(Opp(d)), d) /\ seen' = seen
            /\ rcvd' = [rcvd EXCEPT ![d] = Append(@, Len(@) + 1)]
         \/ /\ Settled /\ UNCHANGED <<link, rcvd, cp>>
            /\ \E r \in StdRead(link[AppLink(Opp(d))], d) \ {"data"} :
                 seen' = [seen EXCEPT ![d] = r]
<1> DEFINE l == AppLink(Opp(d))
           h == link[l][d]
<1>1. /\ l \in Links /\ Kind(l) = "std" /\ "std" \in Kinds /\ link[l] \in Stream
      /\ h \in Half /\ UNCHANGED <<inner, hs, cp, sent>>
  BY Geometry, KindType, OppType DEF TypeOK, Stream, AppRead, Kinds
<1>2. ASSUME UNCHANGED <<link, rcvd>>
      PROVE  Settled
  <2>1. \A i \in Links, e \in Dirs : Taken(i, e)' = Taken(i, e) /\ Given(i, e)' = Given(i, e)
    BY <1>1, <1>2 DEF Taken, Given, Fetched, Delivered
  <2> QED BY <1>2, <2>1 DEF Settled, CountsKept
<1>3. CASE /\ "data" \in StdRead(link[l], d) /\ seen' = seen
           /\ rcvd' = [rcvd EXCEPT ![d] = Append(@, Head(h.q))]
           /\ link' = [link EXCEPT ![l] = Pop(@, d)]
  <2>1. /\ Taken(l, d) = Len(rcvd[d]) /\ Taken(l, d) \in Nat /\ Given(l, d) \in Nat
        /\ HalfInOrder("std", h, Taken(l, d), Given(l, d))
    BY <1>1, HalfCounts DEF Taken, InFlight, HopInOrder
  <2>2. h.q # <<>> /\ Head(h.q) # END /\ Readable("std", h)
    BY <1>1, <1>3, <2>1, ReadData DEF Read, HalfInOrder
  <2>3. Head(h.q) = Taken(l, d) + 1
    BY <1>1, <2>1, <2>2, PopInOrder
  <2>4. rcvd' = [rcvd EXCEPT ![d] = Append(@, Len(@) + 1)]
    BY <1>3, <2>1, <2>3
  <2>5. /\ Len(rcvd'[d]) = Len(rcvd[d]) + 1
        /\ \A e \in Dirs \ {d} : rcvd'[e] = rcvd[e]
    BY <2>4 DEF TypeOK
  <2>6. /\ Taken(l, d)' = Taken(l, d) + 1
        /\ \A i \in Links, e \in Dirs : <<i, e>> # <<l, d>> => Taken(i, e)' = Taken(i, e)
        /\ \A i \in Links, e \in Dirs : Given(i, e)' = Given(i, e)
    BY <1>1, <2>1, <2>5 DEF Taken, Given, Fetched, Delivered
  <2>7. Popped(l, d)
    BY <1>3, <2>2, <2>3, <2>6 DEF Popped
  <2> QED BY <1>3, <2>4, <2>7
<1>4. \/ /\ "data" \in StdRead(link[l], d) /\ seen' = seen
         /\ rcvd' = [rcvd EXCEPT ![d] = Append(@, Head(h.q))]
         /\ link' = [link EXCEPT ![l] = Pop(@, d)]
      \/ /\ UNCHANGED <<link, rcvd>>
         /\ \E r \in StdRead(link[l], d) \ {"data"} : seen' = [seen EXCEPT ![d] = r]
  BY DEF AppRead
<1> QED BY <1>1, <1>2, <1>3, <1>4

(* Every step of the relay settles, takes a chunk or puts one.             *)
LEMMA Steps ==
  ASSUME TypeOK, InFlight, ClosesLast, EndsInOrder("dn"), [Next]_vars
  PROVE  Settled \/ \E l \in Links, d \in Dirs : Popped(l, d) \/ Pushed(l, d)
<1>1. ASSUME NEW p \in Proxies, HandleStream(p) \/ OpenStreamFail(p)
      PROVE  Settled
  BY <1>1, HandlerSettles
<1>2. ASSUME NEW p \in Proxies, NEW d \in Dirs, CopyStream(p, d)
      PROVE  Settled \/ \E l \in Links, e \in Dirs : Popped(l, e) \/ Pushed(l, e)
  BY <1>2, CopySteps, Geometry
<1>3. ASSUME NEW d \in Dirs, AppSend(d) \/ AppRead(d)
      PROVE  Settled \/ \E l \in Links, e \in Dirs : Popped(l, e) \/ Pushed(l, e)
  BY <1>3, AppPushes, AppReads, Geometry, OppType
<1> QED BY <1>1, <1>2, <1>3, EnvironmentSettles DEF Next, Environment

-----------------------------------------------------------------------------
(* What every step of the relay keeps *)

(* One of the three kinds of step.                                         *)
Step == Settled \/ \E l \in Links, d \in Dirs : Popped(l, d) \/ Pushed(l, d)

(* A flag that was raised stays raised.                                    *)
LEMMA FlagsLast ==
  ASSUME TypeOK, Step
  PROVE  \A l \in Links, e \in Dirs : link[l][e].f \subseteq link'[l][e].f
<1>1. ASSUME NEW i \in Links, NEW t, link' = [link EXCEPT ![i] = t],
             \A e \in Dirs : link[i][e].f \subseteq t[e].f
      PROVE  \A l \in Links, e \in Dirs : link[l][e].f \subseteq link'[l][e].f
  BY <1>1 DEF TypeOK
<1>2. CASE Settled
  BY <1>1, <1>2 DEF Settled, StreamSettles, Effects
<1>3. ASSUME NEW l \in Links, NEW d \in Dirs, Popped(l, d)
      PROVE  \A i \in Links, e \in Dirs : link[i][e].f \subseteq link'[i][e].f
  <2> DEFINE t == Pop(link[l], d)
  <2>1. link[l] \in Stream
    BY DEF TypeOK
  <2>2. \A e \in Dirs : link[l][e].f \subseteq t[e].f
    BY <2>1 DEF Pop, Stream
  <2>3. link' = [link EXCEPT ![l] = t]
    BY <1>3 DEF Popped
  <2> HIDE DEF t
  <2> QED BY <1>1, <2>2, <2>3
<1>4. ASSUME NEW l \in Links, NEW d \in Dirs, Pushed(l, d)
      PROVE  \A i \in Links, e \in Dirs : link[i][e].f \subseteq link'[i][e].f
  <2> DEFINE u == Put(link[l], d, Given(l, d) + 1)
  <2>1. link[l] \in Stream
    BY DEF TypeOK
  <2>2. \A e \in Dirs : link[l][e].f \subseteq u[e].f
    BY <2>1 DEF Put, Stream
  <2> HIDE DEF u
  <2>3. PICK t \in Stream : /\ link' = [link EXCEPT ![l] = t]
                            /\ t = u \/ Quiet(link[l], t)
    BY <1>4 DEF Pushed, u
  <2>4. \A e \in Dirs : link[l][e].f \subseteq t[e].f
    BY <2>2, <2>3 DEF Quiet
  <2> QED BY <1>1, <2>3, <2>4
<1> QED BY <1>2, <1>3, <1>4 DEF Step

(* The counts of taken chunks grow, and the counts of given chunks too.    *)
LEMMA CountsGrow ==
  ASSUME TypeOK, TypeOK', Step
  PROVE  \A l \in Links, e \in Dirs :
           /\ Taken(l, e) <= Taken(l, e)' /\ Given(l, e) <= Given(l, e)'
           /\ WriterEnded(l, e) /\ ~Faulted' => Given(l, e)' = Given(l, e)
<1> TAKE l \in Links, e \in Dirs
<1>1. Taken(l, e) \in Nat /\ Given(l, e) \in Nat
  BY HalfCounts
<1>2. CASE Settled
  BY <1>1, <1>2 DEF Settled, CountsKept, CountsFail
<1>3. ASSUME NEW i \in Links, NEW d \in Dirs, Popped(i, d)
      PROVE  Taken(l, e) <= Taken(l, e)' /\ Given(l, e)' = Given(l, e)
  BY <1>1, <1>3 DEF Popped
<1>4. ASSUME NEW i \in Links, NEW d \in Dirs, Pushed(i, d)
      PROVE  /\ Taken(l, e)' = Taken(l, e) /\ Given(l, e) <= Given(l, e)'
             /\ WriterEnded(l, e) => Given(l, e)' = Given(l, e)
  BY <1>1, <1>4 DEF Pushed
<1> QED BY <1>1, <1>2, <1>3, <1>4 DEF Step

(* What has failed or ended stays so.                                      *)
LEMMA Latched ==
  ASSUME TypeOK, InFlight, ClosesLast, ErrorsEnd, [Next]_vars, Step
  PROVE  /\ Faulted => Faulted'
         /\ \A d \in Dirs : AppHasShut(d) => AppHasShut(d)'
         /\ \A d \in Dirs : Uncut(d)' => Uncut(d)
         /\ \A l \in Links, d \in Dirs : /\ WriterEnded(l, d) => WriterEnded(l, d)'
                                         /\ ReaderShut(l, d) => ReaderShut(l, d)'
<1>1. \A l \in Links, e \in Dirs : link[l][e].f \subseteq link'[l][e].f
  BY FlagsLast
<1>2. Faulted => Faulted'
  <2>1. \A p \in Proxies, d \in Dirs : cp[p][d].err => cp'[p][d].err
    BY ErrorsEndKept
  <2>2. \A p \in Proxies : Refused(p) => Refused(p)'
    BY ClosesLastKept
  <2>3. \A l \in Links, d \in Dirs : Any(link[l], d, {"reset", "lost", "fail"})
          => Any(link'[l], d, {"reset", "lost", "fail"})
    BY <1>1 DEF Any
  <2> QED BY <2>1, <2>2, <2>3 DEF Faulted
<1>3. \A d \in Dirs : AppHasShut(d) => AppHasShut(d)'
  BY <1>1, Geometry DEF AppHasShut, Any
<1>4. \A d \in Dirs : Uncut(d)' => Uncut(d)
  BY <1>2, <1>3 DEF Uncut, Dirs
<1>5. \A p \in Proxies, d \in Dirs : cp[p][d].pc \in Ending => cp'[p][d].pc \in Ending
  BY EndingLasts
<1>6. ASSUME NEW l \in Links, NEW d \in Dirs
      PROVE  /\ WriterEnded(l, d) => WriterEnded(l, d)'
             /\ ReaderShut(l, d) => ReaderShut(l, d)'
  <2>1. l # AppLink(d) => Writer(l, d) \in Proxies
    BY Ends
  <2>2. l # AppLink(Opp(d)) => Reader(l, d) \in Proxies
    BY Ends
  <2>3. WriterEnded(l, d) => WriterEnded(l, d)'
    BY <1>3, <1>5, <2>1 DEF WriterEnded
  <2>4. ReaderShut(l, d) => ReaderShut(l, d)'
    BY <1>5, <2>2 DEF ReaderShut
  <2> QED BY <2>3, <2>4
<1> QED BY <1>2, <1>3, <1>4, <1>6

(* Neither the counts of taken chunks nor what is queued exceeds what was  *)
(* given.                                                                  *)
LEMMA BoundedKept ==
  ASSUME TypeOK, TypeOK', Bounded, Step
  PROVE  Bounded'
<1> DEFINE Below(q, g) == \A i \in DOMAIN q : q[i] <= g
           Fine(l, e) == /\ Taken(l, e)' <= Given(l, e)'
                         /\ Below(link'[l][e].q, Given(l, e)')
<1> SUFFICES ASSUME NEW l \in Links, NEW e \in Dirs PROVE Fine(l, e)
  BY DEF Bounded
<1>1. /\ Taken(l, e) \in Nat /\ Given(l, e) \in Nat /\ Given(l, e)' \in Nat
      /\ Taken(l, e) <= Given(l, e) /\ Below(link[l][e].q, Given(l, e))
      /\ Given(l, e) <= Given(l, e)'
      /\ link[l] \in Stream /\ link[l][e].q \in Seq(Nat)
  <2>1. /\ Taken(l, e) \in Nat /\ Given(l, e) \in Nat /\ Given(l, e)' \in Nat
        /\ Given(l, e) <= Given(l, e)'
    <3>1. Given(l, e)' \in Nat
      <4>1. CASE l = AppLink(e)
        BY <4>1 DEF Given, TypeOK
      <4>2. CASE l # AppLink(e)
        <5>1. cp'[Writer(l, e)][e] \in Copier
          BY <4>2, Ends DEF TypeOK
        <5>2. Delivered(cp'[Writer(l, e)][e]) \in Nat
          BY <5>1, CopierCounts
        <5>3. Given(l, e)' = Delivered(cp'[Writer(l, e)][e])
          BY <4>2 DEF Given, Delivered, AppLink, Writer
        <5> QED BY <5>2, <5>3
      <4> QED BY <4>1, <4>2
    <3> QED BY <3>1, HalfCounts, CountsGrow
  <2>2. link[l] \in Stream /\ link[l][e].q \in Seq(Nat)
    BY DEF TypeOK, Stream, Half
  <2>3. Taken(l, e) <= Given(l, e) /\ Below(link[l][e].q, Given(l, e))
    BY DEF Bounded
  <2> QED BY <2>1, <2>2, <2>3
<1>2. ASSUME Taken(l, e)' = Taken(l, e),
             \A i \in DOMAIN link'[l][e].q : link'[l][e].q[i] = END
               \/ \E j \in DOMAIN link[l][e].q : link'[l][e].q[i] = link[l][e].q[j]
      PROVE  Fine(l, e)
  <2>1. \A i \in DOMAIN link[l][e].q :
          link[l][e].q[i] \in Nat /\ link[l][e].q[i] <= Given(l, e)
    BY <1>1
  <2>2. \A i \in DOMAIN link'[l][e].q : link'[l][e].q[i] <= Given(l, e)'
    <3> TAKE i \in DOMAIN link'[l][e].q
    <3>1. CASE link'[l][e].q[i] = END
      BY <1>1, <3>1 DEF END
    <3>2. ASSUME NEW j \in DOMAIN link[l][e].q, link'[l][e].q[i] = link[l][e].q[j]
          PROVE  link'[l][e].q[i] <= Given(l, e)'
      BY <1>1, <2>1, <3>2
    <3> QED BY <1>2, <3>1, <3>2
  <2>3. Taken(l, e)' <= Given(l, e)'
    BY <1>1, <1>2
  <2> QED BY <2>2, <2>3
<1>3. CASE Settled
  <2>1. Taken(l, e)' = Taken(l, e)
    BY <1>3 DEF Settled, CountsKept, CountsFail
  <2>2. CASE link' = link
    BY <1>2, <2>1, <2>2
  <2>3. CASE StreamSettles
    <3>1. PICK i \in Links, t \in Stream :
            /\ link' = [link EXCEPT ![i] = t]
            /\ \A b \in Dirs : Subsumed(link[i][b].q, t[b].q)
      BY <2>3 DEF StreamSettles, Effects
    <3>2. link'[l] = IF l = i THEN t ELSE link[l]
      BY <3>1 DEF TypeOK
    <3> QED BY <1>2, <2>1, <3>1, <3>2 DEF Subsumed
  <2> QED BY <1>3, <2>2, <2>3 DEF Settled
<1>4. ASSUME NEW i \in Links, NEW d \in Dirs, Popped(i, d)
      PROVE  Fine(l, e)
  <2>1. Given(l, e)' = Given(l, e)
    BY <1>4 DEF Popped
  <2>2. CASE <<l, e>> = <<i, d>>
    <3> DEFINE q == link[l][e].q
    <3>1. q # <<>> /\ Head(q) = Taken(l, e) + 1 /\ Taken(l, e)' = Taken(l, e) + 1
      BY <1>4, <2>2 DEF Popped
    <3>2. link'[l][e].q = Tail(q)
      BY <1>1, <1>4, <2>2 DEF Popped, Pop, TypeOK, Stream
    <3>3. /\ 1 \in DOMAIN q /\ Head(q) = q[1]
          /\ \A j \in DOMAIN Tail(q) : j + 1 \in DOMAIN q /\ Tail(q)[j] = q[j + 1]
      <4>1. q \in Seq(Nat)
        BY <1>1
      <4> HIDE DEF q
      <4> QED BY <3>1, <4>1, TailNumbers
    <3>4. Taken(l, e)' <= Given(l, e)'
      BY <1>1, <2>1, <3>1, <3>3
    <3>5. Below(Tail(q), Given(l, e)')
      BY <1>1, <2>1, <3>3
    <3> QED BY <3>2, <3>4, <3>5
  <2>3. CASE <<l, e>> # <<i, d>>
    <3>1. link'[l][e] = link[l][e] /\ Taken(l, e)' = Taken(l, e)
      BY <1>4, <2>3 DEF Popped, Pop, TypeOK, Stream
    <3> QED BY <1>2, <3>1
  <2> QED BY <2>2, <2>3
<1>5. ASSUME NEW i \in Links, NEW d \in Dirs, Pushed(i, d)
      PROVE  Fine(l, e)
  <2>1. Taken(l, e)' = Taken(l, e)
    BY <1>5 DEF Pushed
  <2>2. PICK t \in Stream : /\ link' = [link EXCEPT ![i] = t]
                            /\ t = Put(link[i], d, Given(i, d) + 1) \/ Quiet(link[i], t)
    BY <1>5 DEF Pushed
  <2>3. link'[l] = IF l = i THEN t ELSE link[l]
    BY <2>2 DEF TypeOK
  <2>4. CASE <<l, e>> = <<i, d>> /\ t = Put(link[i], d, Given(i, d) + 1)
    <3> DEFINE q == link[l][e].q
               r == Append(q, Given(l, e) + 1)
    <3>1. link'[l][e].q = r
      BY <1>1, <2>3, <2>4 DEF Put, Stream
    <3>2. Given(l, e)' = Given(l, e) + 1
      BY <1>5, <2>4 DEF Pushed
    <3>3. \A j \in DOMAIN r : r[j] = Given(l, e) + 1 \/ (j \in DOMAIN q /\ r[j] = q[j])
      <4>1. q \in Seq(Nat) /\ Given(l, e) + 1 \in Nat
        BY <1>1
      <4> HIDE DEF q
      <4> QED BY <4>1
    <3>4. \A j \in DOMAIN q : q[j] \in Nat /\ q[j] <= Given(l, e)
      BY <1>1
    <3> HIDE DEF r, q
    <3>5. Below(r, Given(l, e)')
      BY <1>1, <3>2, <3>3, <3>4
    <3>6. Taken(l, e)' <= Given(l, e)'
      BY <1>1, <2>1
    <3> QED BY <3>1, <3>5, <3>6
  <2>5. CASE ~(<<l, e>> = <<i, d>> /\ t = Put(link[i], d, Given(i, d) + 1))
    <3>1. link'[l][e].q = link[l][e].q
      BY <2>2, <2>3, <2>5, <1>1 DEF Put, Quiet, Stream
    <3> QED BY <1>2, <2>1, <3>1
  <2> QED BY <2>4, <2>5
<1> HIDE DEF Fine
<1> QED BY <1>3, <1>4, <1>5 DEF Step

(* The kind of the streams never changes, and only reading moves what an   *)
(* application has seen.                                                   *)
LEMMA Untouched ==
  ASSUME [Next]_vars
  PROVE  /\ inner' = inner
         /\ UNCHANGED <<rcvd, seen>> \/ \E d \in Dirs : AppRead(d)
         /\ sent' = sent \/ \E d \in Dirs : AppSend(d)
<1>1. ASSUME NEW p \in Proxies, HandleStream(p) \/ OpenStreamFail(p)
      PROVE  UNCHANGED rest
  BY <1>1 DEF HandleStream, Accept, OpenStream, OpenStreamReturn, OpenStreamLost, UpClose,
              UpAbort, UpCloseReturn, DownClose, DownCloseReturn, OpenStreamFail
<1>2. ASSUME NEW p \in Proxies, NEW d \in Dirs, CopyStream(p, d)
      PROVE  UNCHANGED rest
  BY <1>2 DEF CopyStream, CopyReadCheck, CopyRead, CopyWriteCheck, CopyWrite, CopyWriteReturn,
              CopyCloseRead, CopyCloseWrite, CopyCloseWriteStuck, CopyCloseWriteReturn
<1>3. ASSUME NEW l, NEW d, Handshake(l, d) \/ ServeCall(l, d) \/ Lose(l)
      PROVE  UNCHANGED rest
  BY <1>3 DEF Handshake, ServeCall, Lose
<1>4. ASSUME NEW d \in Dirs, AppShut(d) \/ AppClose(d)
      PROVE  UNCHANGED rest
  BY <1>4 DEF AppShut, AppClose
<1>5. ASSUME NEW d \in Dirs, AppSend(d)
      PROVE  UNCHANGED <<inner, rcvd, seen>>
  BY <1>5 DEF AppSend
<1>6. ASSUME NEW d \in Dirs, AppRead(d)
      PROVE  UNCHANGED <<inner, sent>>
  BY <1>6 DEF AppRead
<1>7. CASE UNCHANGED vars
  BY <1>7 DEF vars
<1>8. UNCHANGED rest => inner' = inner /\ sent' = sent /\ UNCHANGED <<rcvd, seen>>
  BY DEF rest
<1>9. \/ UNCHANGED rest
      \/ \E d \in Dirs : AppSend(d) \/ AppRead(d)
      \/ UNCHANGED vars
  BY <1>1, <1>2, <1>3, <1>4 DEF Next, Environment
<1> QED BY <1>5, <1>6, <1>7, <1>8, <1>9

(* As long as nothing has cut a direction, its halves end after their      *)
(* writers, and nothing goes missing on them.                              *)
LEMMA HopEndsKept ==
  ASSUME TypeOK, TypeOK', InFlight, ClosesLast, ErrorsEnd, [Next]_vars, Step,
         NEW d \in Dirs, Uncut(d)', EndsInOrder(d)
  PROVE  \A l \in Links : HopEnds(l, d)'
<1> TAKE l \in Links
<1>1. /\ Uncut(d) /\ ~Faulted' /\ Uncut(d)'
      /\ WriterEnded(l, d) => WriterEnded(l, d)'
      /\ ReaderShut(l, d) => ReaderShut(l, d)'
  BY Latched DEF Uncut
<1>2. HopEnds(l, d)
  BY <1>1 DEF EndsInOrder
<1>3. /\ Taken(l, d) \in Nat /\ Given(l, d) \in Nat /\ Kind(l)' = Kind(l)
      /\ link[l] \in Stream /\ link[l][d] \in Half
  BY HalfCounts, Untouched DEF TypeOK, Stream, Kind
<1>4. ASSUME link'[l][d] = link[l][d], Taken(l, d)' = Taken(l, d), Given(l, d)' = Given(l, d)
      PROVE  HopEnds(l, d)'
  BY <1>1, <1>2, <1>3, <1>4 DEF HopEnds
<1>5. ASSUME NEW i \in Links, NEW t, Failed(t), link' = [link EXCEPT ![i] = t]
      PROVE  FALSE
  <2>1. link'[i] = t
    BY <1>5 DEF TypeOK
  <2> QED BY <1>1, <1>5, <2>1 DEF Faulted, Failed
<1>6. CASE Settled
  <2>1. CountsKept
    BY <1>1, <1>6 DEF Settled, CountsFail
  <2>2. CASE link' = link
    BY <1>4, <2>1, <2>2 DEF CountsKept
  <2>3. CASE StreamSettles
    <3>1. PICK i \in Links, t \in Stream, W \in SUBSET Dirs, R \in SUBSET Dirs :
            /\ link' = [link EXCEPT ![i] = t]
            /\ Effects(Kind(i), link[i], t, W, R)
            /\ Earned(i, W, R)
      BY <2>3 DEF StreamSettles
    <3>2. link'[l] = IF l = i THEN t ELSE link[l]
      BY <3>1 DEF TypeOK
    <3>3. CASE l # i
      BY <1>4, <2>1, <3>2, <3>3 DEF CountsKept
    <3>4. CASE l = i
      <4>1. link'[l][d] = t[d]
        BY <3>2, <3>4
      <4>2. /\ \A a, g \in Nat : Sound(Kind(l), link[l][d], a, g) => Sound(Kind(l), t[d], a, g)
            /\ Closing(t[d]) => Closing(link[l][d]) \/ d \in W
            /\ "rshut" \in t[d].f => "rshut" \in link[l][d].f \/ d \in R
        BY <1>5, <3>1, <3>4 DEF Effects
      <4>3. /\ d \in W => WriterEnded(l, d)'
            /\ d \in R => ReaderShut(l, d)'
        BY <1>1, <3>1, <3>4 DEF Earned
      <4>4. Taken(l, d)' = Taken(l, d) /\ Given(l, d)' = Given(l, d)
        BY <2>1 DEF CountsKept
      <4>5. Sound(Kind(l), t[d], Taken(l, d), Given(l, d))
        BY <1>2, <1>3, <4>2 DEF HopEnds
      <4>6. Sound(Kind(l), link[l][d], Taken(l, d), Given(l, d))'
        BY <1>3, <4>1, <4>4, <4>5
      <4>7. Closing(t[d]) => WriterEnded(l, d)'
        BY <1>1, <1>2, <4>2, <4>3 DEF HopEnds
      <4>8. "rshut" \in t[d].f => ReaderShut(l, d)'
        BY <1>1, <1>2, <4>2, <4>3 DEF HopEnds
      <4> QED BY <4>1, <4>6, <4>7, <4>8 DEF HopEnds
    <3> QED BY <3>3, <3>4
  <2> QED BY <1>1, <1>6, <2>2, <2>3 DEF Settled
<1>7. ASSUME NEW i \in Links, NEW e \in Dirs, Popped(i, e)
      PROVE  HopEnds(l, d)'
  <2>1. CASE <<l, d>> # <<i, e>>
    <3>1. link'[l][d] = link[l][d]
      BY <1>3, <1>7, <2>1 DEF Popped, Pop, TypeOK, Stream
    <3> QED BY <1>4, <1>7, <2>1, <3>1 DEF Popped
  <2>2. CASE <<l, d>> = <<i, e>>
    <3> DEFINE h == link[l][d]
               r == [q |-> Tail(h.q), f |-> h.f]
    <3>1. /\ h.q # <<>> /\ Head(h.q) = Taken(l, d) + 1 /\ Taken(l, d)' = Taken(l, d) + 1
          /\ Given(l, d)' = Given(l, d)
      BY <1>7, <2>2 DEF Popped
    <3>2. link'[l][d] = r
      BY <1>3, <1>7, <2>2 DEF Popped, Pop, TypeOK, Stream
    <3>3. Head(h.q) # END
      BY <1>3, <3>1 DEF END
    <3>4. Sound(Kind(l), r, Taken(l, d) + 1, Given(l, d))
      BY <1>2, <1>3, <3>1, <3>3, PopSound DEF HopEnds
    <3>5. Closing(r) => Closing(h)
      <4>1. \A j \in DOMAIN Tail(h.q) : j + 1 \in DOMAIN h.q /\ Tail(h.q)[j] = h.q[j + 1]
        <5>1. h.q \in Seq(Nat)
          BY <1>3 DEF Half
        <5> QED BY <3>1, <5>1, TailNumbers
      <4> QED BY <4>1 DEF Closing
    <3>6. r.f = h.f
      OBVIOUS
    <3> HIDE DEF r
    <3>7. Sound(Kind(l), link[l][d], Taken(l, d), Given(l, d))'
      BY <1>3, <3>1, <3>2, <3>4
    <3>8. Closing(r) => WriterEnded(l, d)'
      BY <1>1, <1>2, <3>5 DEF HopEnds
    <3>9. "rshut" \in r.f => ReaderShut(l, d)'
      BY <1>1, <1>2, <3>6 DEF HopEnds
    <3> QED BY <3>2, <3>7, <3>8, <3>9 DEF HopEnds
  <2> QED BY <2>1, <2>2
<1>8. ASSUME NEW i \in Links, NEW e \in Dirs, Pushed(i, e)
      PROVE  HopEnds(l, d)'
  <2> DEFINE u == Put(link[i], e, Given(i, e) + 1)
  <2>1. link' = [link EXCEPT ![i] = u]
    <3> HIDE DEF u
    <3> QED BY <1>5, <1>8 DEF Pushed, u
  <2>2. CASE <<l, d>> # <<i, e>>
    <3>1. link'[l][d] = link[l][d]
      BY <1>3, <2>1, <2>2 DEF Put, TypeOK, Stream
    <3> QED BY <1>4, <1>8, <2>2, <3>1 DEF Pushed
  <2>3. CASE <<l, d>> = <<i, e>>
    <3> DEFINE h == link[l][d]
               m == Given(l, d) + 1
               r == [q |-> Append(h.q, m), f |-> h.f]
    <3>1. /\ ~WriterEnded(l, d) /\ Given(l, d)' = Given(l, d) + 1
          /\ Taken(l, d)' = Taken(l, d)
      BY <1>8, <2>3 DEF Pushed
    <3>2. link'[l][d] = r
      BY <1>3, <2>1, <2>3 DEF Put, TypeOK, Stream
    <3>3. ~Closing(h)
      BY <1>2, <3>1 DEF HopEnds
    <3>4. m \in Nat \ {END}
      BY <1>3 DEF END
    <3>5. Sound(Kind(l), r, Taken(l, d), Given(l, d) + 1)
      <4> HIDE DEF m
      <4> QED BY <1>2, <1>3, <3>3, <3>4, PutSound DEF HopEnds
    <3>6. ~Closing(r)
      <4>1. h.q \in Seq(Nat)
        BY <1>3 DEF Half
      <4>2. \A j \in DOMAIN Append(h.q, m) :
              Append(h.q, m)[j] = m \/ (j \in DOMAIN h.q /\ Append(h.q, m)[j] = h.q[j])
        <5> HIDE DEF m, h
        <5> QED BY <3>4, <4>1
      <4> HIDE DEF m
      <4> QED BY <3>3, <3>4, <4>2 DEF Closing
    <3>7. r.f = h.f
      OBVIOUS
    <3> HIDE DEF r
    <3>8. Sound(Kind(l), link[l][d], Taken(l, d), Given(l, d))'
      BY <1>3, <3>1, <3>2, <3>5
    <3>9. "rshut" \in r.f => ReaderShut(l, d)'
      BY <1>1, <1>2, <3>7 DEF HopEnds
    <3> QED BY <3>2, <3>6, <3>8, <3>9 DEF HopEnds
  <2> QED BY <2>2, <2>3
<1> QED BY <1>6, <1>7, <1>8 DEF Step

(* What is complete stays complete.                                        *)
LEMMA CompleteKept ==
  ASSUME TypeOK, TypeOK', InFlight, ClosesLast, ErrorsEnd, Bounded, [Next]_vars, Step,
         ~Faulted', NEW l \in Links, NEW d \in Dirs, Complete(l, d)
  PROVE  Complete(l, d)'
<1>1. WriterEnded(l, d) /\ WriterEnded(l, d)'
  BY Latched DEF Complete
<1>2. Taken(l, d) = Given(l, d) /\ Given(l, d) \in Nat
  BY HalfCounts DEF Complete
<1>3. Given(l, d)' = Given(l, d) /\ Taken(l, d) <= Taken(l, d)'
  BY <1>1, CountsGrow
<1>4. Taken(l, d)' <= Given(l, d)'
  BY BoundedKept DEF Bounded
<1>5. Taken(l, d)' = Taken(l, d) \/ Taken(l, d)' = Taken(l, d) + 1
  BY DEF Step, Settled, CountsKept, CountsFail, Popped, Pushed
<1>6. Taken(l, d)' = Given(l, d)'
  BY <1>2, <1>3, <1>4, <1>5
<1> QED BY <1>1, <1>6 DEF Complete

(* Who reads the end of a direction nothing has cut has read everything.   *)
LEMMA EofComplete ==
  ASSUME TypeOK, NEW l \in Links, NEW d \in Dirs, HopEnds(l, d), ~ReaderShut(l, d),
         "eof" \in Read(Kind(l), link[l], d)
  PROVE  Complete(l, d)
<1>1. /\ Kind(l) \in Kinds /\ link[l] \in Stream
      /\ Taken(l, d) \in Nat /\ Given(l, d) \in Nat
  BY KindType, HalfCounts DEF TypeOK
<1>2. "rshut" \notin link[l][d].f
  BY DEF HopEnds
<1>3. Taken(l, d) = Given(l, d) /\ Closing(link[l][d])
  BY <1>1, <1>2, ReadEof DEF HopEnds
<1> QED BY <1>3 DEF HopEnds, Complete

(* As long as nothing has cut a direction, its copiers end when they have  *)
(* copied everything, and the application when it has read everything.     *)
LEMMA EndsKept ==
  ASSUME TypeOK, TypeOK', InFlight, ClosesLast, ErrorsEnd, Bounded, [Next]_vars, Step,
         NEW d \in Dirs, EndsInOrder(d)
  PROVE  EndsInOrder(d)'
<1> SUFFICES ASSUME Uncut(d)'
             PROVE  /\ \A l \in Links : HopEnds(l, d)'
                    /\ \A p \in Proxies : CopierEnds(p, d)'
                    /\ AppEnds(d)'
  BY DEF EndsInOrder
<1>1. Uncut(d) /\ ~Faulted'
  BY Latched DEF Uncut
<1>2. /\ \A l \in Links : HopEnds(l, d)
      /\ \A p \in Proxies : CopierEnds(p, d)
      /\ AppEnds(d)
  BY <1>1 DEF EndsInOrder
<1>3. \A l \in Links : HopEnds(l, d)'
  BY HopEndsKept
<1>4. ASSUME NEW p \in Proxies, cp'[p][d].pc \in Ending
      PROVE  cp'[p][d].hand = 0 /\ Complete(Src(p, d), d)'
  <2>1. Src(p, d) \in Links
    BY Geometry
  <2>2. CASE cp[p][d].pc \in Ending
    <3>1. cp[p][d].hand = 0 /\ Complete(Src(p, d), d)
      BY <1>2, <2>2 DEF CopierEnds
    <3>2. cp'[p][d].hand = 0
      BY <2>2, <3>1, EndingLasts
    <3> QED BY <1>1, <2>1, <3>1, <3>2, CompleteKept
  <2>3. CASE cp[p][d].pc \notin Ending
    <3>1. ~cp'[p][d].err
      BY <1>1 DEF Faulted
    <3>2. Moves(p, d, cp[p][d], cp'[p][d])
      BY <1>4, <2>3, CopiersMove
    <3>3. /\ cp[p][d].pc \in {"read", "recv"} /\ cp'[p][d].hand = cp[p][d].hand
          /\ \/ Any(link[Src(p, d)], d, {"rshut"})
             \/ "eof" \in Read(Kind(Src(p, d)), link[Src(p, d)], d)
      BY <1>4, <2>3, <3>1, <3>2 DEF Moves
    <3>4. cp[p][d].hand = 0
      BY <3>3 DEF InFlight, CopierInOrder
    <3>5. ~ReaderShut(Src(p, d), d)
      BY <2>3, Ends DEF ReaderShut
    <3>6. "eof" \in Read(Kind(Src(p, d)), link[Src(p, d)], d)
      BY <1>2, <2>1, <3>3, <3>5 DEF HopEnds, Any
    <3>7. Complete(Src(p, d), d)
      BY <1>2, <2>1, <3>5, <3>6, EofComplete
    <3>8. Complete(Src(p, d), d)'
      BY <1>1, <2>1, <3>7, CompleteKept
    <3> QED BY <3>3, <3>4, <3>8
  <2> QED BY <2>2, <2>3
<1>5. ASSUME seen'[d] = "eof"
      PROVE  Complete(AppLink(Opp(d)), d)'
  <2> DEFINE l == AppLink(Opp(d))
  <2>1. l \in Links /\ Kind(l) = "std"
    BY Geometry, KindType, OppType
  <2>2. Complete(l, d)
    <3>1. CASE seen[d] = "eof"
      BY <1>2, <3>1 DEF AppEnds
    <3>2. CASE seen[d] # "eof"
      <4>1. PICK e \in Dirs : AppRead(e)
        BY <1>5, <3>2, Untouched
      <4>2. PICK r \in StdRead(link[AppLink(Opp(e))], e) : seen' = [seen EXCEPT ![e] = r]
        BY <1>5, <3>2, <4>1, AppReads
      <4>3. e = d /\ r = "eof"
        BY <1>5, <3>2, <4>2 DEF TypeOK
      <4>4. "eof" \in Read(Kind(l), link[l], d)
        BY <2>1, <4>2, <4>3 DEF Read
      <4>5. ~ReaderShut(l, d)
        BY DEF ReaderShut
      <4> HIDE DEF l
      <4> QED BY <1>2, <2>1, <4>4, <4>5, EofComplete
    <3> QED BY <3>1, <3>2
  <2> HIDE DEF l
  <2>3. Complete(l, d)'
    BY <1>1, <2>1, <2>2, CompleteKept
  <2> QED BY <2>3 DEF l
<1> QED BY <1>3, <1>4, <1>5 DEF CopierEnds, AppEnds

-----------------------------------------------------------------------------
(* An application that reads end of file has read everything *)

(* The inductive invariant: the goroutines stop in the order of the code,  *)
(* the counts add up, and each direction ends hop by hop.                  *)
EndsWell ==
  /\ ClosesLast
  /\ ErrorsEnd
  /\ Bounded
  /\ \A d \in Dirs : EndsInOrder(d)

(* It holds before the first connection.                                   *)
LEMMA EndsWellInit == Init => EndsWell
<1> SUFFICES ASSUME Init PROVE EndsWell
  OBVIOUS
<1>1. \A p \in Proxies : hs[p] = "idle"
  BY DEF Init
<1>2. \A p \in Proxies, d \in Dirs :
        cp[p][d] = [pc |-> "off", hand |-> 0, written |-> 0, err |-> FALSE]
  BY DEF Init
<1>3. \A l \in Links, d \in Dirs : link[l][d] = [q |-> <<>>, f |-> {}]
  BY DEF Init, NewStream
<1>4. \A p \in Proxies, d \in Dirs : cp[p][d].pc = "off" /\ ~cp[p][d].err
  BY <1>2
<1>5. \A l \in Links, d \in Dirs :
        link[l][d].q = <<>> /\ link[l][d].f = {} /\ Len(link[l][d].q) = 0
  BY <1>3
<1>6. \A l \in Links, d \in Dirs : Taken(l, d) = 0 /\ Given(l, d) = 0
  <2>1. \A p \in Proxies, d \in Dirs : Fetched(cp[p][d]) = 0 /\ Delivered(cp[p][d]) = 0
    BY <1>2 DEF Fetched, Delivered
  <2>2. \A d \in Dirs : Len(rcvd[d]) = 0 /\ sent[d] = 0
    BY DEF Init
  <2> QED BY <2>1, <2>2, Ends DEF Taken, Given
<1>7. ClosesLast
  BY <1>1 DEF ClosesLast
<1>8. ErrorsEnd
  BY <1>4 DEF ErrorsEnd
<1>9. Bounded
  BY <1>5, <1>6 DEF Bounded
<1>10. ASSUME NEW d \in Dirs
       PROVE  EndsInOrder(d)
  <2>1. ASSUME NEW l \in Links
        PROVE  HopEnds(l, d)
    <3>1. Balanced(link[l][d].q, 0, 0)
      <4>1. 0 \in 0 .. Len(link[l][d].q) /\ 0 = 0 + 0
        BY <1>5
      <4> QED BY <1>5, <4>1 DEF Balanced
    <3>2. Sound(Kind(l), link[l][d], 0, 0)
      BY <1>5, <3>1 DEF Sound
    <3>3. ~Closing(link[l][d])
      BY <1>5 DEF Closing
    <3> QED BY <1>5, <1>6, <3>2, <3>3 DEF HopEnds
  <2>2. \A p \in Proxies : CopierEnds(p, d)
    BY <1>4 DEF CopierEnds, Ending
  <2>3. AppEnds(d)
    BY DEF AppEnds, Init
  <2> QED BY <2>1, <2>2, <2>3 DEF EndsInOrder
<1> QED BY <1>7, <1>8, <1>9, <1>10 DEF EndsWell

(* Every step of the relay keeps it.                                       *)
LEMMA EndsWellKept ==
  ASSUME TypeOK, TypeOK', InFlight, EndsWell, [Next]_vars
  PROVE  EndsWell' /\ Step
<1>1. ClosesLast /\ ErrorsEnd /\ Bounded /\ \A d \in Dirs : EndsInOrder(d)
  BY DEF EndsWell
<1>2. Step
  <2>1. "dn" \in Dirs
    BY DEF Dirs
  <2> QED BY <1>1, <2>1, Steps DEF Step
<1>3. ClosesLast'
  BY <1>1, ClosesLastKept
<1>4. ErrorsEnd'
  BY <1>1, ErrorsEndKept
<1>5. Bounded'
  BY <1>1, <1>2, BoundedKept
<1>6. \A d \in Dirs : EndsInOrder(d)'
  BY <1>1, <1>2, EndsKept
<1> QED BY <1>2, <1>3, <1>4, <1>5, <1>6 DEF EndsWell

(* What the invariant says of an application that reads end of file.       *)
LEMMA EndsWellEof ==
  ASSUME TypeOK, InFlight, EndsWell
  PROVE  EofIsComplete
<1> SUFFICES ASSUME NEW d \in Dirs, seen[d] = "eof", Uncut(d)
             PROVE  AppHasShut(d) /\ Len(rcvd[d]) = sent[d]
  BY DEF EofIsComplete, Uncut
<1> DEFINE l == AppLink(Opp(d))
<1>1. l \in Links
  BY Geometry, OppType
<1>2. EndsInOrder(d)
  BY DEF EndsWell
<1>3. WriterEnded(l, d) /\ Taken(l, d) = Given(l, d)
  BY <1>2 DEF EndsInOrder, AppEnds, Complete
<1>4. AppHasShut(d) /\ Given(l, d) = sent[d]
  BY <1>1, <1>2, <1>3, EndedWasShut
<1>5. Taken(l, d) = Len(rcvd[d])
  BY DEF Taken
<1> QED BY <1>3, <1>4, <1>5

(* Each direction of the relay ends hop by hop, each hop after the one     *)
(* before it and with nothing missing, unless something has cut it.        *)
THEOREM RelayEndsWell == Spec => []EndsWell
<1>1. TypeOK /\ TypeOK' /\ InFlight /\ EndsWell /\ [Next]_vars => EndsWell'
  BY EndsWellKept
<1> QED BY <1>1, EndsWellInit, TypeCorrect, RelayInOrder, PTL DEF Spec

(* An application that reads end of file has read all that the other one   *)
(* sent before it shut its side: CloseWrite never overtakes a chunk, on    *)
(* any chain of streams. The exceptions are those of EofIsComplete:        *)
(* something has failed, or the server application, which shut its side    *)
(* first, reads the end of what handleStream then cut off.                 *)
THEOREM EofAfterAll == Spec => []EofIsComplete
<1>1. TypeOK /\ InFlight /\ EndsWell => EofIsComplete
  BY EndsWellEof
<1> QED BY <1>1, TypeCorrect, RelayInOrder, RelayEndsWell, PTL

-----------------------------------------------------------------------------
(* The relay implements Conduit *)

(* Nothing that is done to a socket shuts the half d, but by its writer.   *)
LEMMA OthersKeepOpen ==
  ASSUME NEW s \in Stream, NEW d \in Dirs
  PROVE  LET Open(t) == "wshut" \in t[d].f => "wshut" \in s[d].f
         IN  /\ Open(s)
             /\ \A e \in Dirs : /\ Open(Pop(s, e))
                                /\ Open(StdCloseRead(s, e))
                                /\ \A m : Open(StdWritten(s, e, m))
             /\ Open(StdCloseWrite(s, Opp(d)))
             /\ Open(StdClose(s, Opp(d)))
<1> DEFINE Open(t) == "wshut" \in t[d].f => "wshut" \in s[d].f
<1>1. Open(s)
  OBVIOUS
<1>2. ASSUME NEW e \in Dirs
      PROVE  /\ Open(Pop(s, e)) /\ Open(StdCloseRead(s, e))
             /\ \A m : Open(StdWritten(s, e, m))
  <2>1. Open(Pop(s, e))
    BY DEF Pop, Stream
  <2>2. Open(StdCloseRead(s, e))
    BY DEF StdCloseRead, Mark, Stream
  <2>3. Open(MarkBoth(s, {"reset"}))
    BY DEF MarkBoth
  <2>4. \A m : Open(Put(s, e, m))
    BY DEF Put, Stream
  <2> QED BY <2>1, <2>2, <2>3, <2>4 DEF StdWritten
<1>3. Opp(d) \in Dirs /\ Opp(d) # d /\ Opp(Opp(d)) = d
  BY OppType
<1>4. Open(StdCloseWrite(s, Opp(d)))
  BY <1>3 DEF StdCloseWrite, Mark, Stream
<1>5. Open(StdClose(s, Opp(d)))
  <2> DEFINE u == Mark(s, Opp(d), {"wshut", "wgone"})
             t == Mark(u, d, {"rgone"})
  <2>1. u \in Stream /\ u[d] = s[d]
    <3>1. u \in Stream
      BY <1>3, MarkType DEF Flags
    <3> QED BY <1>3, <3>1 DEF Mark, Stream
  <2>2. t[d].f = s[d].f \cup {"rgone"}
    <3> HIDE DEF u
    <3> QED BY <2>1 DEF Mark, Stream
  <2>3. Open(t)
    BY <2>2
  <2>4. MarkBoth(t, {"reset"})[d].f = t[d].f \cup {"reset"}
    <3> HIDE DEF t
    <3> QED BY DEF MarkBoth
  <2>5. Open(MarkBoth(t, {"reset"}))
    <3> HIDE DEF t
    <3> QED BY <2>3, <2>4
  <2>6. StdClose(s, Opp(d)) \in {t, MarkBoth(t, {"reset"})}
    BY <1>3 DEF StdClose
  <2> HIDE DEF t
  <2> QED BY <2>3, <2>5, <2>6
<1> QED BY <1>1, <1>2, <1>4, <1>5

(* Only an application shuts its side: the relay shuts and closes sockets  *)
(* only on its own ends of them.                                           *)
LEMMA OnlyAppsShut ==
  ASSUME TypeOK, [Next]_vars, NEW d \in Dirs, ~AppShut(d), ~AppClose(Opp(d)),
         AppHasShut(d)'
  PROVE  AppHasShut(d)
<1> DEFINE a == AppLink(d)
           s == link[a]
           Open(t) == "wshut" \in t[d].f => "wshut" \in s[d].f
<1>1. /\ a \in Links /\ Kind(a) = "std" /\ s \in Stream /\ Opp(d) \in Dirs
      /\ AppLink(Opp(d)) # a /\ a \in {1, Hops} /\ Opp(Opp(d)) = d
      /\ \A e \in Dirs : e = d \/ e = Opp(d)
  BY Geometry, KindType, OppType, TunnelAssumption DEF TypeOK, AppLink, Opp, Dirs
<1>2. /\ Open(s)
      /\ \A e \in Dirs : /\ Open(Pop(s, e)) /\ Open(StdCloseRead(s, e))
                         /\ \A m : Open(StdWritten(s, e, m))
      /\ Open(StdCloseWrite(s, Opp(d))) /\ Open(StdClose(s, Opp(d)))
  BY <1>1, OthersKeepOpen
<1>3. "wshut" \in link'[a][d].f
  BY DEF AppHasShut, Any
<1>4. "wshut" \in s[d].f => AppHasShut(d)
  BY DEF AppHasShut, Any
<1>5. ASSUME NEW i \in Links, NEW t, link' = [link EXCEPT ![i] = t], i = a => Open(t)
      PROVE  AppHasShut(d)
  <2>1. link'[a] = IF i = a THEN t ELSE s
    BY <1>1, <1>5 DEF TypeOK
  <2> QED BY <1>3, <1>4, <1>5, <2>1
<1> HIDE DEF s, a, Open
<1>6. CASE link' = link
  BY <1>3, <1>4, <1>6 DEF s
<1>7. ASSUME NEW p \in Proxies, HandleStream(p) \/ OpenStreamFail(p)
      PROVE  AppHasShut(d)
  <2>1. CASE Accept(p) \/ OpenStream(p) \/ OpenStreamReturn(p) \/ OpenStreamLost(p)
               \/ OpenStreamFail(p)
    BY <1>6, <2>1 DEF Accept, OpenStream, OpenStreamReturn, OpenStreamLost, OpenStreamFail
  <2>2. CASE UpClose(p) \/ UpAbort(p) \/ UpCloseReturn(p)
    <3>1. p + 1 \in Links /\ (p + 1 = a => Opp(d) = "up")
      BY Geometry, <1>1, TunnelAssumption DEF a, AppLink, Proxies, Opp, Dirs
    <3>2. PICK t : link' = [link EXCEPT ![p + 1] = t]
                   /\ (Kind(p + 1) = "std" => t \in {link[p + 1], StdClose(link[p + 1], "up")})
      BY <2>2 DEF UpClose, UpAbort, UpCloseReturn, Close, CloseRest
    <3>3. p + 1 = a => Open(t)
      BY <1>1, <1>2, <3>1, <3>2 DEF s
    <3> QED BY <1>5, <3>1, <3>2, <3>3
  <2>3. CASE DownClose(p) \/ DownCloseReturn(p)
    <3>1. p \in Links /\ (p = a => Opp(d) = "dn")
      BY Geometry, <1>1, TunnelAssumption DEF a, AppLink, Proxies, Opp, Dirs
    <3>2. PICK t : link' = [link EXCEPT ![p] = t]
                   /\ (Kind(p) = "std" => t \in {link[p], StdClose(link[p], "dn")})
      BY <2>3 DEF DownClose, DownCloseReturn, Close, CloseRest
    <3>3. p = a => Open(t)
      BY <1>1, <1>2, <3>1, <3>2 DEF s
    <3> QED BY <1>5, <3>1, <3>2, <3>3
  <2> QED BY <1>7, <2>1, <2>2, <2>3 DEF HandleStream
<1>8. ASSUME NEW p \in Proxies, NEW e \in Dirs, CopyStream(p, e)
      PROVE  AppHasShut(d)
  <2>1. /\ Src(p, e) \in Links /\ Dst(p, e) \in Links
        /\ Dst(p, e) = a => e = Opp(d)
    <3>1. Dst(p, e) # AppLink(e)
      BY Ends
    <3> QED BY <3>1, <1>1, Geometry DEF a
  <2>2. CASE CopyReadCheck(p, e) \/ CopyWriteCheck(p, e) \/ CopyWriteReturn(p, e)
               \/ CopyCloseWriteReturn(p, e)
    BY <1>6, <2>2 DEF CopyReadCheck, CopyWriteCheck, CopyWriteReturn, CopyCloseWriteReturn
  <2>3. CASE CopyRead(p, e)
    <3>1. link' = link \/ link' = [link EXCEPT ![Src(p, e)] = Pop(link[Src(p, e)], e)]
      BY <2>3 DEF CopyRead
    <3> QED BY <1>2, <1>5, <1>6, <2>1, <3>1 DEF s
  <2>4. CASE CopyWrite(p, e)
    <3>1. link' = link
            \/ link' = [link EXCEPT ![Dst(p, e)] =
                          Written(Kind(Dst(p, e)), link[Dst(p, e)], e, cp[p][e].hand)]
      BY <2>4 DEF CopyWrite
    <3>2. ASSUME Dst(p, e) = a
          PROVE  Open(Written(Kind(Dst(p, e)), link[Dst(p, e)], e, cp[p][e].hand))
      BY <1>1, <1>2, <3>2 DEF Written, s, Sockets
    <3> QED BY <1>5, <1>6, <2>1, <3>1, <3>2
  <2>5. CASE CopyCloseRead(p, e)
    <3>1. link' = [link EXCEPT ![Src(p, e)] =
                     CloseRead(Kind(Src(p, e)), link[Src(p, e)], e)]
      BY <2>5 DEF CopyCloseRead
    <3>2. ASSUME Src(p, e) = a
          PROVE  Open(CloseRead(Kind(Src(p, e)), link[Src(p, e)], e))
      BY <1>1, <1>2, <3>2 DEF CloseRead, s
    <3> QED BY <1>5, <2>1, <3>1, <3>2
  <2>6. CASE CopyCloseWrite(p, e)
    <3>1. link' = [link EXCEPT ![Dst(p, e)] =
                     CloseWrite(Kind(Dst(p, e)), link[Dst(p, e)], e)]
      BY <2>6 DEF CopyCloseWrite
    <3>2. ASSUME Dst(p, e) = a
          PROVE  Open(CloseWrite(Kind(Dst(p, e)), link[Dst(p, e)], e))
      BY <1>1, <1>2, <2>1, <3>2 DEF CloseWrite, s
    <3> QED BY <1>5, <2>1, <3>1, <3>2
  <2>7. CASE CopyCloseWriteStuck(p, e)
    <3>1. /\ link' = [link EXCEPT ![Dst(p, e)] = TlsAlertGivenUp(link[Dst(p, e)], e)]
          /\ Kind(Dst(p, e)) = "tls"
      BY <2>7 DEF CopyCloseWriteStuck
    <3> QED BY <1>1, <1>5, <2>1, <3>1
  <2> QED BY <1>8, <2>2, <2>3, <2>4, <2>5, <2>6, <2>7 DEF CopyStream
<1>9. ASSUME NEW l \in Carried, NEW e \in Dirs, Handshake(l, e) \/ ServeCall(l, e) \/ Lose(l)
      PROVE  AppHasShut(d)
  <2>1. l \in Links /\ l # a
    BY <1>1 DEF Carried
  <2>2. \E t : link' = [link EXCEPT ![l] = t]
    BY <1>9 DEF Handshake, ServeCall, Lose
  <2> QED BY <1>5, <2>1, <2>2
<1>10. ASSUME NEW e \in Dirs, AppSend(e)
       PROVE  AppHasShut(d)
  <2>1. link' = [link EXCEPT ![AppLink(e)] = StdWritten(link[AppLink(e)], e, sent[e] + 1)]
    BY <1>10 DEF AppSend
  <2> QED BY <1>2, <1>5, <2>1, Geometry DEF s
<1>11. ASSUME NEW e \in Dirs, AppRead(e)
       PROVE  AppHasShut(d)
  <2>1. link' = link
          \/ link' = [link EXCEPT ![AppLink(Opp(e))] = Pop(link[AppLink(Opp(e))], e)]
    BY <1>11 DEF AppRead
  <2> QED BY <1>2, <1>5, <1>6, <2>1, Geometry, OppType DEF s
<1>12. ASSUME NEW e \in Dirs, AppShut(e)
       PROVE  AppHasShut(d)
  <2>1. AppLink(e) \in Links /\ AppLink(e) # a
    BY <1>1, <1>12, Geometry DEF a
  <2>2. \E t : link' = [link EXCEPT ![AppLink(e)] = t]
    BY <1>12 DEF AppShut
  <2> QED BY <1>5, <2>1, <2>2
<1>13. ASSUME NEW e \in Dirs, AppClose(e)
       PROVE  AppHasShut(d)
  <2>1. AppLink(Opp(e)) \in Links /\ AppLink(Opp(e)) # a
    <3>1. e # Opp(d)
      BY <1>13
    <3>2. e = d
      BY <1>1, <3>1
    <3> QED BY <1>1, <3>2, Geometry
  <2>2. \E t : link' = [link EXCEPT ![AppLink(Opp(e))] = t]
    BY <1>13 DEF AppClose
  <2> QED BY <1>5, <2>1, <2>2
<1>14. CASE UNCHANGED vars
  BY <1>6, <1>14 DEF vars
<1> QED BY <1>7, <1>8, <1>9, <1>10, <1>11, <1>12, <1>13, <1>14 DEF Next, Environment

(* The variables of Conduit that the relay does not have.                  *)
ShutSides == {d \in Dirs : AppHasShut(d)}

CutSides == {d \in Dirs : Faulted \/ (d = "up" /\ AppHasShut("dn"))}

(* A conduit begins as the relay does.                                     *)
LEMMA ConduitInit == Init => Promised!Init
<1> SUFFICES ASSUME Init PROVE Promised!Init
  OBVIOUS
<1>1. \A l \in Links, d \in Dirs : link[l][d].f = {}
  BY DEF Init, NewStream
<1>2. \A l \in Links, d \in Dirs, F \in SUBSET Flags : ~Any(link[l], d, F)
  BY <1>1 DEF Any
<1>3. \A d \in Dirs : ~AppHasShut(d)
  BY <1>1, Geometry DEF AppHasShut, Any
<1>4. ~Faulted
  <2>1. \A p \in Proxies, d \in Dirs : ~cp[p][d].err
    BY DEF Init
  <2>2. \A p \in Proxies : ~Refused(p)
    BY DEF Init, Refused
  <2>3. \A l \in Links, d \in Dirs : ~Any(link[l], d, {"reset", "lost", "fail"})
    BY <1>2 DEF Flags
  <2> QED BY <2>1, <2>2, <2>3 DEF Faulted
<1>5. ShutSides = {} /\ CutSides = {}
  BY <1>3, <1>4 DEF ShutSides, CutSides, Dirs
<1>6. /\ sent = [d \in Dirs |-> 0] /\ rcvd = [d \in Dirs |-> <<>>]
      /\ seen = [d \in Dirs |-> "none"]
  BY DEF Init
<1> QED BY <1>5, <1>6
        DEF Promised!Init, Promised!Directions, Dirs, ShutSides, CutSides

(* Every step of the relay is a step of the two conduits.                  *)
LEMMA ConduitStep ==
  ASSUME TypeOK, TypeOK', InFlight, EndsWell, EofIsComplete', [Next]_vars
  PROVE  Promised!Next
<1>1. /\ ClosesLast /\ ErrorsEnd /\ Bounded /\ Bounded' /\ EndsWell' /\ Step
  BY EndsWellKept DEF EndsWell
<1>2. /\ Faulted => Faulted'
      /\ \A d \in Dirs : AppHasShut(d) => AppHasShut(d)'
  BY <1>1, Latched
<1>3. Dirs = {"up", "dn"} /\ Promised!Directions = Dirs
  BY DEF Dirs, Promised!Directions
<1>4. CutSides \subseteq CutSides' /\ CutSides' \subseteq Dirs
  BY <1>2, <1>3 DEF CutSides
<1>5. Promised!Fail
  BY <1>3, <1>4 DEF Promised!Fail, CutSides
<1>6. ASSUME NEW d \in Dirs, AppShut(d) \/ AppClose(Opp(d))
      PROVE  Promised!Shut(d)
  <2>1. UNCHANGED <<sent, rcvd, seen>>
    BY <1>6 DEF AppShut, AppClose, rest
  <2>2. AppHasShut(d)'
    <3>1. AppLink(d) \in Links /\ link[AppLink(d)] \in Stream /\ Opp(Opp(d)) = d
      BY Geometry, OppType DEF TypeOK
    <3>2. "wshut" \in StdCloseWrite(link[AppLink(d)], d)[d].f
      BY <3>1 DEF StdCloseWrite, Mark, Stream
    <3>3. "wshut" \in StdClose(link[AppLink(d)], d)[d].f
      BY <3>1, StdCloseEffects
    <3>4. link'[AppLink(d)] \in {StdCloseWrite(link[AppLink(d)], d), StdClose(link[AppLink(d)], d)}
      BY <1>6, <3>1 DEF AppShut, AppClose, TypeOK
    <3> QED BY <3>2, <3>3, <3>4 DEF AppHasShut, Any
  <2>3. \A e \in Dirs \ {d} : AppHasShut(e)' => AppHasShut(e)
    <3> TAKE e \in Dirs \ {d}
    <3>1. /\ AppLink(d) \in Links /\ AppLink(e) \in Links /\ AppLink(e) # AppLink(d)
          /\ Opp(Opp(d)) = d
      BY <1>3, Geometry, OppType, TunnelAssumption DEF AppLink
    <3>2. link'[AppLink(e)] = link[AppLink(e)]
      BY <1>6, <3>1 DEF AppShut, AppClose, TypeOK
    <3> QED BY <3>2 DEF AppHasShut
  <2>4. ShutSides' = ShutSides \cup {d}
    BY <1>2, <2>2, <2>3 DEF ShutSides
  <2>5. d = "dn" => "up" \in CutSides'
    BY <1>3, <2>2 DEF CutSides
  <2> QED BY <2>1, <2>4, <2>5 DEF Promised!Shut, ShutSides, CutSides
<1>7. ASSUME \A d \in Dirs : ~AppShut(d) /\ ~AppClose(d)
      PROVE  ShutSides' = ShutSides
  <2>1. \A d \in Dirs : AppHasShut(d)' => AppHasShut(d)
    BY <1>7, OnlyAppsShut, OppType
  <2> QED BY <1>2, <2>1 DEF ShutSides
<1>8. ASSUME NEW d \in Dirs, AppSend(d), ShutSides' = ShutSides
      PROVE  Promised!Send(d)
  <2>1. ~AppHasShut(d)
    BY <1>8 DEF AppHasShut, AppSend, StdWrite, Any
  <2>2. sent' = [sent EXCEPT ![d] = @ + 1] /\ UNCHANGED <<rcvd, seen>>
    BY <1>8 DEF AppSend
  <2>3. d \notin ShutSides
    BY <2>1 DEF ShutSides
  <2> QED BY <1>8, <2>2, <2>3 DEF Promised!Send, ShutSides
<1>9. ASSUME NEW d \in Dirs, AppRead(d), ShutSides' = ShutSides
      PROVE  Promised!Deliver(d) \/ Promised!End(d)
  <2> DEFINE l == AppLink(Opp(d))
  <2>1. /\ seen[d] = "none" /\ UNCHANGED <<sent, cp, hs>> /\ l \in Links
        /\ ~Any(link[l], d, {"rgone"})
    BY <1>9, Geometry, OppType DEF AppRead
  <2>2. CASE /\ Popped(l, d) /\ seen' = seen
             /\ rcvd' = [rcvd EXCEPT ![d] = Append(@, Len(@) + 1)]
    <3>1. Taken(l, d) = Len(rcvd[d])
      BY DEF Taken
    <3>2. /\ Taken(l, d) + 1 <= Given(l, d)
      <4>1. Taken(l, d)' <= Given(l, d)'
        BY <1>1, <2>1 DEF Bounded
      <4> QED BY <2>1, <2>2, <4>1 DEF Popped
    <3>3. Given(l, d) <= sent[d]
      BY <1>1, <2>1, GivenWasSent
    <3>4. Given(l, d) \in Nat /\ Taken(l, d) \in Nat /\ sent[d] \in Nat
      BY <2>1, HalfCounts DEF TypeOK
    <3>5. Len(rcvd[d]) < sent[d]
      BY <3>1, <3>2, <3>3, <3>4
    <3> QED BY <1>9, <2>1, <2>2, <3>5 DEF Promised!Deliver, ShutSides
  <2>3. CASE /\ UNCHANGED <<link, rcvd, cp>>
             /\ \E r \in StdRead(link[l], d) \ {"data"} : seen' = [seen EXCEPT ![d] = r]
    <3>1. PICK r \in StdRead(link[l], d) \ {"data"} : seen' = [seen EXCEPT ![d] = r]
      BY <2>3
    <3>2. r \in {"eof", "err"} /\ UNCHANGED <<sent, link, rcvd, cp, hs>>
      BY <2>1, <2>3, <3>1 DEF StdRead, ReadResults
    <3>3. CASE r = "eof"
      <4>1. seen'[d] = "eof"
        BY <3>1, <3>3 DEF TypeOK
      <4>2. (Faulted' <=> Faulted) /\ \A e \in Dirs : AppHasShut(e)' <=> AppHasShut(e)
        BY <3>2 DEF Faulted, AppHasShut, Refused
      <4>3. ~Faulted /\ (d = "up" => ~AppHasShut("dn"))
              => AppHasShut(d) /\ Len(rcvd[d]) = sent[d]
        <5>1. "dn" \in Dirs
          BY <1>3
        <5> QED BY <3>2, <4>1, <4>2, <5>1 DEF EofIsComplete
      <4>4. d \in CutSides \/ (d \in ShutSides /\ Len(rcvd[d]) = sent[d])
        BY <4>3 DEF CutSides, ShutSides
      <4> QED BY <1>9, <2>1, <3>1, <3>2, <3>3, <4>4 DEF Promised!End, ShutSides, CutSides
    <3>4. CASE r = "err"
      <4>1. Any(link[l], d, {"reset"})
        BY <2>1, <3>1, <3>4 DEF StdRead, Any
      <4>2. Faulted
        BY <2>1, <4>1 DEF Faulted, Any
      <4>3. d \in CutSides
        BY <4>2 DEF CutSides
      <4> QED BY <1>9, <2>1, <3>1, <3>2, <3>4, <4>3 DEF Promised!End, ShutSides, CutSides
    <3> QED BY <3>2, <3>3, <3>4
  <2> QED BY <1>9, <2>2, <2>3, AppReads
<1>10. ASSUME ShutSides' = ShutSides, UNCHANGED <<sent, rcvd, seen>>
       PROVE  Promised!Next
  BY <1>5, <1>10 DEF Promised!Next, ShutSides
<1>11. CASE \E d \in Dirs : AppShut(d) \/ AppClose(d)
  <2>1. PICK d \in Dirs : AppShut(d) \/ AppClose(Opp(d))
    BY <1>11, OppType
  <2> QED BY <1>3, <1>5, <1>6, <2>1 DEF Promised!Next
<1>12. CASE ~\E d \in Dirs : AppShut(d) \/ AppClose(d)
  <2>1. ShutSides' = ShutSides
    BY <1>7, <1>12
  <2>2. CASE \E d \in Dirs : AppSend(d) \/ AppRead(d)
    BY <1>3, <1>5, <1>8, <1>9, <2>1, <2>2 DEF Promised!Next
  <2>3. CASE ~\E d \in Dirs : AppSend(d) \/ AppRead(d)
    BY <1>10, <2>1, <2>3, Untouched
  <2> QED BY <2>2, <2>3
<1> QED BY <1>11, <1>12

(* The relay implements the two conduits of Conduit, for any number of     *)
(* proxies and whatever kinds of streams lie between them.                 *)
THEOREM RelayIsConduit == Spec => ImplementsConduit
<1>1. Init => Promised!Init
  BY ConduitInit
<1>2. TypeOK /\ TypeOK' /\ InFlight /\ EndsWell /\ EofIsComplete' /\ [Next]_vars
      => Promised!Next
  BY ConduitStep
<1> QED BY <1>1, <1>2, TypeCorrect, RelayInOrder, RelayEndsWell, EofAfterAll, PTL
        DEF Spec, ImplementsConduit, Promised!Spec

=============================================================================
