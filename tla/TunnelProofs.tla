---------------------------- MODULE TunnelProofs ----------------------------
(***************************************************************************)
(* Theorems about Tunnel, for every number of proxies, every set of kinds, *)
(* every window and every number of chunks.                                *)
(***************************************************************************)
EXTENDS StreamProofs

(* The streams and directions of a proxy.                                  *)
LEMMA Geometry ==
  /\ {1, Hops} \subseteq Links
  /\ \A p \in Proxies : p \in Links /\ p + 1 \in Links
  /\ \A p \in Proxies, d \in Dirs : Src(p, d) \in Links /\ Dst(p, d) \in Links
  /\ \A d \in Dirs : AppLink(d) \in Links
BY TunnelAssumption DEF Links, Proxies, Src, Dst, AppLink, Dirs

(* Every stream has a kind, and the outermost ones are sockets.            *)
LEMMA KindType ==
  ASSUME TypeOK
  PROVE  /\ \A l \in Links : Kind(l) \in Kinds
         /\ \A d \in Dirs : Kind(AppLink(d)) = "std"
BY TunnelAssumption DEF TypeOK, Kind, Kinds, AppLink

-----------------------------------------------------------------------------
(* Type correctness *)

(* The steps of handleStream keep the types.                               *)
LEMMA TypeHandler ==
  ASSUME TypeOK, NEW p \in Proxies, HandleStream(p) \/ OpenStreamFail(p)
  PROVE  TypeOK'
<1> USE Geometry, KindType DEF TypeOK, rest
<1>1. CASE Accept(p)
  BY <1>1 DEF Accept, HandlerStates
<1>2. CASE OpenStream(p)
  BY <1>2 DEF OpenStream, HandlerStates
<1>3. CASE OpenStreamReturn(p)
  <2>1. \A d \in Dirs : [cp[p][d] EXCEPT !.pc = "read"] \in Copier
    <3> TAKE d \in Dirs
    <3>1. cp[p][d] \in Copier
      OBVIOUS
    <3> QED BY <3>1 DEF Copier, CopyStates
  <2> QED BY <1>3, <2>1 DEF OpenStreamReturn, HandlerStates
<1>4. CASE OpenStreamLost(p)
  BY <1>4 DEF OpenStreamLost, HandlerStates
<1>5. CASE OpenStreamFail(p)
  BY <1>5 DEF OpenStreamFail, HandlerStates
<1>6. CASE UpClose(p)
  <2> DEFINE k == Kind(p + 1)
             t == Close(k, link[p + 1], "up")
  <2>1. t \in Stream
    BY CloseSettles DEF Dirs
  <2>2. CloseRest(k, t, "up") \in Stream
    BY <2>1, CloseRestQuiet DEF Dirs, Quiet
  <2>3. UNCHANGED <<dialed, cp, inner, sent, rcvd, seen>>
    BY <1>6 DEF UpClose
  <2>4. hs' \in [Proxies -> HandlerStates]
    BY <1>6 DEF UpClose, HandlerStates
  <2>5. link' \in [Links -> Stream]
    <3>1. \/ link' = [link EXCEPT ![p + 1] = t]
          \/ link' = [link EXCEPT ![p + 1] = CloseRest(k, t, "up")]
      BY <1>6 DEF UpClose
    <3> HIDE DEF t, k
    <3> QED BY <2>1, <2>2, <3>1
  <2> QED BY <2>3, <2>4, <2>5
<1>7. CASE UpCloseReturn(p)
  <2>1. CloseRest(Kind(p + 1), link[p + 1], "up") \in Stream
    BY CloseRestQuiet DEF Dirs, Quiet
  <2> QED BY <1>7, <2>1 DEF UpCloseReturn, HandlerStates
<1>8. CASE DownClose(p)
  <2> DEFINE k == Kind(p)
             t == Close(k, link[p], "dn")
  <2>1. t \in Stream
    BY CloseSettles DEF Dirs
  <2>2. CloseRest(k, t, "dn") \in Stream
    BY <2>1, CloseRestQuiet DEF Dirs, Quiet
  <2> QED BY <1>8, <2>1, <2>2 DEF DownClose, HandlerStates
<1>9. CASE DownCloseReturn(p)
  <2>1. CloseRest(Kind(p), link[p], "dn") \in Stream
    BY CloseRestQuiet DEF Dirs, Quiet
  <2> QED BY <1>9, <2>1 DEF DownCloseReturn, HandlerStates
<1>10. CASE UpAbort(p)
  <2>1. TlsAbort(link[p + 1], "up") \in Stream
    BY TlsCloseQuiet DEF Dirs, Quiet
  <2> QED BY <1>10, <2>1 DEF UpAbort, HandlerStates
<1> QED BY <1>1, <1>2, <1>3, <1>4, <1>5, <1>6, <1>7, <1>8, <1>9, <1>10
        DEF HandleStream

(* The changes copyStream makes to its own state keep its type.            *)
LEMMA TypeCopier ==
  ASSUME TypeOK, NEW p \in Proxies, NEW d \in Dirs
  PROVE  /\ \A pc \in CopyStates : Goto(p, d, pc) => (cp \in [Proxies -> [Dirs -> Copier]])'
         /\ \A b \in BOOLEAN : Stop(p, d, b) => (cp \in [Proxies -> [Dirs -> Copier]])'
         /\ NextChunk(p, d) => (cp \in [Proxies -> [Dirs -> Copier]])'
         /\ StopWriting(p, d) => (cp \in [Proxies -> [Dirs -> Copier]])'
         /\ \A m \in Nat : Become(p, d, [cp[p][d] EXCEPT !.pc = "write", !.hand = m])
              => (cp \in [Proxies -> [Dirs -> Copier]])'
<1> DEFINE c == cp[p][d]
<1>1. c \in Copier
  BY DEF TypeOK
<1>2. \A x \in Copier : Become(p, d, x) => (cp \in [Proxies -> [Dirs -> Copier]])'
  BY DEF TypeOK, Become
<1> HIDE DEF c
<1>3. \A pc \in CopyStates : [c EXCEPT !.pc = pc] \in Copier
  BY <1>1 DEF Copier
<1>4. \A b \in BOOLEAN : [c EXCEPT !.pc = "closeRead", !.err = b] \in Copier
  BY <1>1 DEF Copier, CopyStates
<1>5. [c EXCEPT !.pc = "read", !.hand = 0, !.written = @ + 1] \in Copier
  <2>1. c.written + 1 \in Nat
    BY <1>1 DEF Copier
  <2>2. \A n \in Nat : [c EXCEPT !.pc = "read", !.hand = 0, !.written = n] \in Copier
    BY <1>1 DEF Copier, CopyStates
  <2> QED BY <2>1, <2>2
<1>6. [pc |-> "closeRead", hand |-> 0, written |-> c.written + 1, err |-> TRUE] \in Copier
  BY <1>1 DEF Copier, CopyStates
<1>7. \A m \in Nat : [c EXCEPT !.pc = "write", !.hand = m] \in Copier
  BY <1>1 DEF Copier, CopyStates
<1>8. \A b \in BOOLEAN : Stop(p, d, b) => (cp \in [Proxies -> [Dirs -> Copier]])'
  BY <1>2, <1>4 DEF Stop, c
<1>9. StopWriting(p, d) => (cp \in [Proxies -> [Dirs -> Copier]])'
  BY <1>2, <1>6, <1>8 DEF StopWriting, c
<1> QED BY <1>2, <1>3, <1>5, <1>7, <1>8, <1>9 DEF Goto, NextChunk, c

(* The steps of copyStream keep the types.                                 *)
LEMMA TypeCopy ==
  ASSUME TypeOK, NEW p \in Proxies, NEW d \in Dirs, CopyStream(p, d)
  PROVE  TypeOK'
<1> DEFINE l == Src(p, d)
           m == Dst(p, d)
<1>1. /\ l \in Links /\ m \in Links
      /\ Kind(l) \in Kinds /\ Kind(m) \in Kinds
      /\ link[l] \in Stream /\ link[m] \in Stream
      /\ cp[p][d] \in Copier
  BY Geometry, KindType DEF TypeOK
<1>2. /\ {"recv", "send", "closeWrite", "wait", "endWait", "end"} \subseteq CopyStates
      /\ \A b : Goto(p, d, IF b THEN "endWait" ELSE "end")
           => Goto(p, d, "endWait") \/ Goto(p, d, "end")
  BY DEF CopyStates
<1>3. ASSUME UNCHANGED <<dialed, hs, rest>>,
             (cp \in [Proxies -> [Dirs -> Copier]])',
             link' = link \/ \E i \in Links : \E t \in Stream : link' = [link EXCEPT ![i] = t]
      PROVE  TypeOK'
  BY <1>3 DEF TypeOK, rest
<1> HIDE DEF l, m
<1>4. CASE CopyReadCheck(p, d)
  BY <1>2, <1>3, <1>4, TypeCopier DEF CopyReadCheck
<1>5. CASE CopyRead(p, d)
  <2>1. CASE /\ "data" \in Read(Kind(l), link[l], d)
             /\ Become(p, d, [cp[p][d] EXCEPT !.pc = "write", !.hand = Head(link[l][d].q)])
             /\ link' = [link EXCEPT ![l] = Pop(link[l], d)]
    <3>1. link[l][d].q # <<>>
      BY <1>1, <2>1, ReadNonEmpty
    <3>2. Head(link[l][d].q) \in Nat
      BY <1>1, <3>1 DEF Stream, Half
    <3>3. Pop(link[l], d) \in Stream
      BY <1>1, <3>1, PopType
    <3> QED BY <1>1, <1>3, <1>5, <2>1, <3>2, <3>3, TypeCopier DEF CopyRead
  <2>2. CASE (Stop(p, d, FALSE) \/ Stop(p, d, TRUE)) /\ UNCHANGED link
    BY <1>3, <1>5, <2>2, TypeCopier DEF CopyRead
  <2> QED BY <1>5, <2>1, <2>2 DEF CopyRead, l
<1>6. CASE CopyWriteCheck(p, d)
  BY <1>2, <1>3, <1>6, TypeCopier DEF CopyWriteCheck
<1>7. CASE CopyWrite(p, d)
  <2>1. Written(Kind(m), link[m], d, cp[p][d].hand) \in Stream
    BY <1>1, WrittenType DEF Copier
  <2> QED BY <1>1, <1>2, <1>3, <1>7, <2>1, TypeCopier DEF CopyWrite, m
<1>8. CASE CopyWriteReturn(p, d)
  BY <1>3, <1>8, TypeCopier DEF CopyWriteReturn
<1>9. CASE CopyCloseRead(p, d)
  <2>1. CloseRead(Kind(l), link[l], d) \in Stream
    BY <1>1, CloseReadQuiet DEF Quiet
  <2> QED BY <1>1, <1>2, <1>3, <1>9, <2>1, TypeCopier DEF CopyCloseRead, l
<1>10. CASE CopyCloseWrite(p, d)
  <2>1. CloseWrite(Kind(m), link[m], d) \in Stream
    BY <1>1, CloseWriteSettles
  <2> QED BY <1>1, <1>2, <1>3, <1>10, <2>1, TypeCopier DEF CopyCloseWrite, m
<1>11. CASE CopyCloseWriteReturn(p, d)
  BY <1>2, <1>3, <1>11, TypeCopier DEF CopyCloseWriteReturn
<1>12. CASE CopyCloseWriteStuck(p, d)
  <2>1. TlsAlertGivenUp(link[m], d) \in Stream
    BY <1>1, TlsMarkQuiet DEF Quiet
  <2> QED BY <1>1, <1>2, <1>3, <1>12, <2>1, TypeCopier DEF CopyCloseWriteStuck, m
<1> QED BY <1>4, <1>5, <1>6, <1>7, <1>8, <1>9, <1>10, <1>11, <1>12 DEF CopyStream

(* The steps of the RPC systems, the network and the applications keep the *)
(* types.                                                                  *)
LEMMA TypeEnvironment ==
  ASSUME TypeOK,
         \/ Environment
         \/ \E l \in Carried, d \in Dirs : Handshake(l, d) \/ ServeCall(l, d)
  PROVE  TypeOK'
<1> USE Geometry, KindType, OppType DEF TypeOK, rest
<1>1. ASSUME NEW l \in Links, NEW d \in Dirs, ServeCall(l, d)
      PROVE  TypeOK'
  BY <1>1, ServeSettles DEF ServeCall
<1>2. ASSUME NEW l \in Links, Lose(l)
      PROVE  TypeOK'
  <2>1. CASE link' = [link EXCEPT ![l] = StdLose(link[l])]
    BY <1>2, <2>1, StdLoseQuiet DEF Lose, Quiet
  <2>2. ASSUME Kind(l) \notin Sockets, NEW ku \in 0 .. Len(link[l]["up"].q),
               NEW kd \in 0 .. Len(link[l]["dn"].q),
               link' = [link EXCEPT ![l] = RpcLose(link[l], ku, kd)]
        PROVE  TypeOK'
    <3>1. RpcLose(link[l], ku, kd) \in Stream
      BY <2>2, RpcLoseSettles
    <3> QED BY <1>2, <2>2, <3>1 DEF Lose
  <2> QED BY <1>2, <2>1, <2>2 DEF Lose
<1>3. ASSUME NEW d \in Dirs, AppSend(d)
      PROVE  TypeOK'
  <2> DEFINE l == AppLink(d)
  <2>1. StdWritten(link[l], d, sent[d] + 1) \in Stream
    BY WrittenType DEF Written, Kinds, Sockets
  <2> QED BY <1>3, <2>1 DEF AppSend
<1>4. ASSUME NEW d \in Dirs, AppShut(d)
      PROVE  TypeOK'
  <2>1. StdCloseWrite(link[AppLink(d)], d) \in Stream
    BY MarkType DEF StdCloseWrite, Flags
  <2> QED BY <1>4, <2>1 DEF AppShut
<1>5. ASSUME NEW d \in Dirs, AppRead(d)
      PROVE  TypeOK'
  <2> DEFINE l == AppLink(Opp(d))
  <2>1. l \in Links /\ link[l] \in Stream
    OBVIOUS
  <2>2. CASE /\ "data" \in StdRead(link[l], d)
             /\ rcvd' = [rcvd EXCEPT ![d] = Append(@, Head(link[l][d].q))]
             /\ link' = [link EXCEPT ![l] = Pop(@, d)]
             /\ UNCHANGED seen
    <3>1. link[l][d].q # <<>>
      BY <2>2 DEF StdRead
    <3>2. Pop(link[l], d) \in Stream
      BY <2>1, <3>1, PopType
    <3>3. Head(link[l][d].q) \in Nat
      <4>1. link[l][d].q \in Seq(Nat)
        BY <2>1 DEF Stream, Half
      <4> QED BY <3>1, <4>1
    <3>4. UNCHANGED <<inner, dialed, hs, cp, sent, seen>>
      BY <1>5, <2>2 DEF AppRead
    <3>5. rcvd' \in [Dirs -> Seq(Nat)]
      BY <2>2, <3>3
    <3>6. link' \in [Links -> Stream]
      BY <2>1, <2>2, <3>2
    <3> QED BY <3>4, <3>5, <3>6
  <2>3. ASSUME NEW r \in StdRead(link[l], d) \ {"data"},
               seen' = [seen EXCEPT ![d] = r], UNCHANGED <<link, rcvd>>
        PROVE  TypeOK'
    <3>1. r \in {"eof", "err"}
      BY <2>3 DEF StdRead, ReadResults
    <3> QED BY <1>5, <2>3, <3>1 DEF AppRead
  <2> QED BY <1>5, <2>2, <2>3 DEF AppRead
<1>6. ASSUME NEW d \in Dirs, AppClose(d)
      PROVE  TypeOK'
  <2>1. StdClose(link[AppLink(Opp(d))], Opp(d)) \in Stream
    BY CloseSettles DEF Close, Kinds
  <2> QED BY <1>6, <2>1 DEF AppClose
<1>7. ASSUME NEW l \in Links, NEW o \in Dirs, Handshake(l, o)
      PROVE  TypeOK'
  <2>1. TlsShake(link[l], o) \in Stream
    BY TlsMarkQuiet DEF Quiet
  <2> QED BY <1>7, <2>1 DEF Handshake
<1> QED BY <1>1, <1>2, <1>3, <1>4, <1>5, <1>6, <1>7 DEF Environment, Carried

(* Type correctness: every step of every handler keeps every variable of   *)
(* the relay in its type; in particular no stream is read when its queue   *)
(* is empty and none beyond the last one of the chain is opened.           *)
THEOREM TypeCorrect == Spec => []TypeOK
<1>1. Init => TypeOK
  BY NewStreamType, Geometry
  DEF Init, TypeOK, HandlerStates, CopyStates, Copier
<1>2. TypeOK /\ [Next]_vars => TypeOK'
  <2> SUFFICES ASSUME TypeOK, [Next]_vars
               PROVE  TypeOK'
    OBVIOUS
  <2>1. CASE \E p \in Proxies : HandleStream(p) \/ OpenStreamFail(p)
    BY <2>1, TypeHandler
  <2>2. CASE \E p \in Proxies, d \in Dirs : CopyStream(p, d)
    BY <2>2, TypeCopy
  <2>3. CASE \/ Environment
             \/ \E l \in Carried, d \in Dirs : Handshake(l, d) \/ ServeCall(l, d)
    BY <2>3, TypeEnvironment
  <2>4. CASE UNCHANGED vars
    BY <2>4 DEF vars, TypeOK
  <2> QED BY <2>1, <2>2, <2>3, <2>4 DEF Next
<1> QED BY <1>1, <1>2, PTL DEF Spec

-----------------------------------------------------------------------------
(* Chunks in flight *)

(* A copier is the reader of its source and the writer of its destination, *)
(* and every half that no application reads (writes) has such a copier.    *)
LEMMA Ends ==
  /\ \A p \in Proxies, d \in Dirs :
       /\ Src(p, d) # AppLink(Opp(d)) /\ Reader(Src(p, d), d) = p
       /\ Dst(p, d) # AppLink(d) /\ Writer(Dst(p, d), d) = p
  /\ \A l \in Links, d \in Dirs :
       /\ l # AppLink(Opp(d)) => Reader(l, d) \in Proxies /\ Src(Reader(l, d), d) = l
       /\ l # AppLink(d) => Writer(l, d) \in Proxies /\ Dst(Writer(l, d), d) = l
BY TunnelAssumption
DEF Links, Proxies, Src, Dst, AppLink, Opp, Reader, Writer, Dirs

(* The counts of a copier are numbers.                                     *)
LEMMA CopierCounts ==
  ASSUME NEW c \in Copier
  PROVE  Fetched(c) \in Nat /\ Delivered(c) \in Nat
BY DEF Copier, Fetched, Delivered

(* The counts of a half are numbers.                                       *)
LEMMA HalfCounts ==
  ASSUME TypeOK, NEW l \in Links, NEW d \in Dirs
  PROVE  Taken(l, d) \in Nat /\ Given(l, d) \in Nat
<1>1. CASE l = AppLink(Opp(d))
  BY <1>1, Ends, CopierCounts DEF Taken, Given, TypeOK
<1>2. CASE l # AppLink(Opp(d))
  BY <1>2, Ends, CopierCounts DEF Taken, Given, TypeOK
<1> QED BY <1>1, <1>2

(* The counts depend on the copiers and on what the applications have sent *)
(* and received.                                                           *)
LEMMA CountsSame ==
  ASSUME TypeOK, UNCHANGED <<sent, rcvd>>,
         \A p \in Proxies, d \in Dirs : /\ Fetched(cp[p][d])' = Fetched(cp[p][d])
                                        /\ Delivered(cp[p][d])' = Delivered(cp[p][d])
  PROVE  \A l \in Links, d \in Dirs : Taken(l, d)' = Taken(l, d) /\ Given(l, d)' = Given(l, d)
<1> TAKE l \in Links, d \in Dirs
<1>1. Taken(l, d)' = Taken(l, d)
  BY Ends DEF Taken, Reader, AppLink
<1>2. Given(l, d)' = Given(l, d)
  BY Ends DEF Given, Writer, AppLink
<1> QED BY <1>1, <1>2

(* When one copier moves, only the counts at its two ends can change.      *)
LEMMA CountsBecome ==
  ASSUME TypeOK, NEW p \in Proxies, NEW d \in Dirs, NEW c \in Copier,
         Become(p, d, c), UNCHANGED <<sent, rcvd>>
  PROVE  /\ Taken(Src(p, d), d) = Fetched(cp[p][d]) /\ Taken(Src(p, d), d)' = Fetched(c)
         /\ Given(Dst(p, d), d) = Delivered(cp[p][d]) /\ Given(Dst(p, d), d)' = Delivered(c)
         /\ \A l \in Links, e \in Dirs :
              /\ <<l, e>> # <<Src(p, d), d>> => Taken(l, e)' = Taken(l, e)
              /\ <<l, e>> # <<Dst(p, d), d>> => Given(l, e)' = Given(l, e)
<1>1. /\ cp'[p][d] = c
      /\ \A i \in Proxies, e \in Dirs : <<i, e>> # <<p, d>> => cp'[i][e] = cp[i][e]
  BY DEF Become, TypeOK
<1>2. Taken(Src(p, d), d) = Fetched(cp[p][d]) /\ Taken(Src(p, d), d)' = Fetched(c)
  BY <1>1, Ends DEF Taken, Fetched, Src, Reader, AppLink
<1>3. Given(Dst(p, d), d) = Delivered(cp[p][d]) /\ Given(Dst(p, d), d)' = Delivered(c)
  BY <1>1, Ends DEF Given, Delivered, Dst, Writer, AppLink
<1>4. ASSUME NEW l \in Links, NEW e \in Dirs, <<l, e>> # <<Src(p, d), d>>
      PROVE  Taken(l, e)' = Taken(l, e)
  <2>1. l # AppLink(Opp(e)) => <<Reader(l, e), e>> # <<p, d>>
    BY <1>4, Ends
  <2> QED BY <1>1, <2>1, Ends DEF Taken, Fetched
<1>5. ASSUME NEW l \in Links, NEW e \in Dirs, <<l, e>> # <<Dst(p, d), d>>
      PROVE  Given(l, e)' = Given(l, e)
  <2>1. l # AppLink(e) => <<Writer(l, e), e>> # <<p, d>>
    BY <1>5, Ends
  <2> QED BY <1>1, <2>1, Ends DEF Given, Delivered
<1> QED BY <1>2, <1>3, <1>4, <1>5

(* A step that settles one stream and leaves the counts alone keeps every  *)
(* half in order.                                                          *)
LEMMA HopsSettle ==
  ASSUME TypeOK, InFlight, inner' = inner,
         NEW i \in Links, NEW t \in Stream, link' = [link EXCEPT ![i] = t],
         \A e \in Dirs : Settles(Kind(i), link[i][e], t[e]),
         \A l \in Links, e \in Dirs : Taken(l, e)' = Taken(l, e) /\ Given(l, e)' = Given(l, e)
  PROVE  \A l \in Links, e \in Dirs : HopInOrder(l, e)'
<1> TAKE l \in Links, e \in Dirs
<1>1. /\ HalfInOrder(Kind(l), link[l][e], Taken(l, e), Given(l, e))
      /\ Taken(l, e) \in Nat /\ Given(l, e) \in Nat /\ Kind(l) \in Kinds
      /\ link[l][e] \in Half /\ t[e] \in Half
  BY HalfCounts, KindType DEF InFlight, HopInOrder, TypeOK, Stream
<1>2. Kind(l)' = Kind(l)
  BY DEF Kind
<1>3. CASE l = i
  <2>1. link'[l][e] = t[e]
    BY <1>3 DEF TypeOK
  <2>2. HalfInOrder(Kind(l), t[e], Taken(l, e), Given(l, e))
    BY <1>1, <1>3, SettlesInOrder
  <2> QED BY <1>2, <2>1, <2>2 DEF HopInOrder
<1>4. CASE l # i
  <2>1. link'[l][e] = link[l][e]
    BY <1>4 DEF TypeOK
  <2> QED BY <1>1, <1>2, <2>1 DEF HopInOrder
<1> QED BY <1>3, <1>4

(* So does a step that leaves the streams alone.                           *)
LEMMA HopsSame ==
  ASSUME TypeOK, InFlight, UNCHANGED <<inner, link>>,
         \A l \in Links, e \in Dirs : Taken(l, e)' = Taken(l, e) /\ Given(l, e)' = Given(l, e)
  PROVE  \A l \in Links, e \in Dirs : HopInOrder(l, e)'
BY DEF InFlight, HopInOrder, Kind

(* The steps of handleStream keep the chunks in flight in order.           *)
LEMMA InFlightHandler ==
  ASSUME TypeOK, InFlight, NEW p \in Proxies, HandleStream(p) \/ OpenStreamFail(p)
  PROVE  InFlight'
<1>1. UNCHANGED <<inner, sent, rcvd>>
  BY DEF HandleStream, Accept, OpenStream, OpenStreamReturn, OpenStreamLost, UpClose,
         UpAbort, UpCloseReturn, DownClose, DownCloseReturn, OpenStreamFail, rest
<1>2. ASSUME cp' = cp
      PROVE  \A l \in Links, e \in Dirs : Taken(l, e)' = Taken(l, e) /\ Given(l, e)' = Given(l, e)
  <2>1. \A i \in Proxies, e \in Dirs : /\ Fetched(cp[i][e])' = Fetched(cp[i][e])
                                       /\ Delivered(cp[i][e])' = Delivered(cp[i][e])
    BY <1>2 DEF Fetched, Delivered
  <2> QED BY <1>1, <2>1, CountsSame
<1>3. p \in Links /\ p + 1 \in Links /\ Kind(p) \in Kinds /\ Kind(p + 1) \in Kinds
      /\ link[p] \in Stream /\ link[p + 1] \in Stream
  BY Geometry, KindType DEF TypeOK
<1>4. ASSUME cp' = cp, NEW x \in HandlerStates, hs' = [hs EXCEPT ![p] = x],
             x \in {"idle", "open", "opened"} => hs[p] \in {"idle", "open", "opened"}
      PROVE  \A i \in Proxies, e \in Dirs : CopierInOrder(i, e)'
  BY <1>1, <1>4 DEF InFlight, CopierInOrder, TypeOK, Kind
<1>5. CASE Accept(p) \/ OpenStream(p) \/ OpenStreamLost(p) \/ OpenStreamFail(p)
  <2>1. \A l \in Links, e \in Dirs : HopInOrder(l, e)'
    BY <1>1, <1>2, <1>5, HopsSame
    DEF Accept, OpenStream, OpenStreamLost, OpenStreamFail
  <2>2. \A i \in Proxies, e \in Dirs : CopierInOrder(i, e)'
    BY <1>4, <1>5 DEF Accept, OpenStream, OpenStreamLost, OpenStreamFail, HandlerStates
  <2> QED BY <2>1, <2>2 DEF InFlight
<1>6. CASE OpenStreamReturn(p)
  <2>1. \A e \in Dirs : /\ cp[p][e] \in Copier /\ cp[p][e].pc = "off" /\ cp[p][e].hand = 0
    BY <1>6 DEF InFlight, CopierInOrder, TypeOK, OpenStreamReturn
  <2>2. \A e \in Dirs : cp'[p][e] = [cp[p][e] EXCEPT !.pc = "read"]
    BY <1>6 DEF OpenStreamReturn, TypeOK
  <2>3. \A i \in Proxies \ {p}, e \in Dirs : cp'[i][e] = cp[i][e] /\ hs'[i] = hs[i]
    BY <1>6 DEF OpenStreamReturn, TypeOK
  <2>4. \A e \in Dirs : /\ cp'[p][e].pc = "read" /\ cp'[p][e].hand = cp[p][e].hand
                        /\ cp'[p][e].written = cp[p][e].written
    <3> TAKE e \in Dirs
    <3> DEFINE c == cp[p][e]
    <3>1. c \in Copier /\ cp'[p][e] = [c EXCEPT !.pc = "read"]
      BY <2>1, <2>2
    <3> HIDE DEF c
    <3>2. /\ [c EXCEPT !.pc = "read"].pc = "read"
          /\ [c EXCEPT !.pc = "read"].hand = c.hand
          /\ [c EXCEPT !.pc = "read"].written = c.written
      BY <3>1 DEF Copier
    <3> QED BY <3>1, <3>2 DEF c
  <2>5. \A i \in Proxies, e \in Dirs : /\ Fetched(cp[i][e])' = Fetched(cp[i][e])
                                       /\ Delivered(cp[i][e])' = Delivered(cp[i][e])
    BY <2>1, <2>3, <2>4 DEF Fetched, Delivered
  <2>6. \A l \in Links, e \in Dirs : HopInOrder(l, e)'
    BY <1>1, <1>6, <2>5, CountsSame, HopsSame DEF OpenStreamReturn
  <2>7. hs'[p] = "relay"
    BY <1>6 DEF OpenStreamReturn, TypeOK
  <2>8. \A i \in Proxies, e \in Dirs : CopierInOrder(i, e)'
    BY <1>1, <2>1, <2>3, <2>4, <2>7 DEF InFlight, CopierInOrder, Kind
  <2> QED BY <2>6, <2>8 DEF InFlight
<1>7. CASE UpClose(p)
  <2> DEFINE k == Kind(p + 1)
             t == Close(k, link[p + 1], "up")
  <2>1. /\ t \in Stream /\ \A e \in Dirs : Settles(k, link[p + 1][e], t[e])
        /\ ~CloseWaits(k, link[p + 1], "up") => Quiet(link[p + 1], t)
    BY <1>3, CloseSettles DEF Dirs
  <2>2. Quiet(t, CloseRest(k, t, "up"))
    BY <1>3, <2>1, CloseRestQuiet DEF Dirs
  <2>3. ~CloseWaits(k, link[p + 1], "up") => Quiet(link[p + 1], CloseRest(k, t, "up"))
    BY <2>1, <2>2, QuietTrans
  <2>4. PICK u \in Stream : /\ link' = [link EXCEPT ![p + 1] = u]
                            /\ \A e \in Dirs : Settles(k, link[p + 1][e], u[e])
    BY <1>7, <2>1, <2>3, QuietSettles DEF UpClose
  <2>5. \A l \in Links, e \in Dirs : HopInOrder(l, e)'
    BY <1>1, <1>2, <1>3, <1>7, <2>4, HopsSettle DEF UpClose
  <2>6. \A i \in Proxies, e \in Dirs : CopierInOrder(i, e)'
    BY <1>4, <1>7 DEF UpClose, HandlerStates
  <2> QED BY <2>5, <2>6 DEF InFlight
<1>8. CASE UpCloseReturn(p)
  <2> DEFINE t == CloseRest(Kind(p + 1), link[p + 1], "up")
  <2>1. t \in Stream /\ \A e \in Dirs : Settles(Kind(p + 1), link[p + 1][e], t[e])
    BY <1>3, CloseRestQuiet, QuietSettles DEF Dirs
  <2>2. \A l \in Links, e \in Dirs : HopInOrder(l, e)'
    BY <1>1, <1>2, <1>3, <1>8, <2>1, HopsSettle DEF UpCloseReturn
  <2>3. \A i \in Proxies, e \in Dirs : CopierInOrder(i, e)'
    BY <1>4, <1>8 DEF UpCloseReturn, HandlerStates
  <2> QED BY <2>2, <2>3 DEF InFlight
<1>9. CASE DownClose(p)
  <2> DEFINE k == Kind(p)
             t == Close(k, link[p], "dn")
  <2>1. /\ t \in Stream /\ \A e \in Dirs : Settles(k, link[p][e], t[e])
        /\ ~CloseWaits(k, link[p], "dn") => Quiet(link[p], t)
    BY <1>3, CloseSettles DEF Dirs
  <2>2. Quiet(t, CloseRest(k, t, "dn"))
    BY <1>3, <2>1, CloseRestQuiet DEF Dirs
  <2>3. ~CloseWaits(k, link[p], "dn") => Quiet(link[p], CloseRest(k, t, "dn"))
    BY <2>1, <2>2, QuietTrans
  <2>4. PICK u \in Stream : /\ link' = [link EXCEPT ![p] = u]
                            /\ \A e \in Dirs : Settles(k, link[p][e], u[e])
    BY <1>9, <2>1, <2>3, QuietSettles DEF DownClose
  <2>5. \A l \in Links, e \in Dirs : HopInOrder(l, e)'
    BY <1>1, <1>2, <1>3, <1>9, <2>4, HopsSettle DEF DownClose
  <2>6. \A i \in Proxies, e \in Dirs : CopierInOrder(i, e)'
    BY <1>4, <1>9 DEF DownClose, HandlerStates
  <2> QED BY <2>5, <2>6 DEF InFlight
<1>10. CASE DownCloseReturn(p)
  <2> DEFINE t == CloseRest(Kind(p), link[p], "dn")
  <2>1. t \in Stream /\ \A e \in Dirs : Settles(Kind(p), link[p][e], t[e])
    BY <1>3, CloseRestQuiet, QuietSettles DEF Dirs
  <2>2. \A l \in Links, e \in Dirs : HopInOrder(l, e)'
    BY <1>1, <1>2, <1>3, <1>10, <2>1, HopsSettle DEF DownCloseReturn
  <2>3. \A i \in Proxies, e \in Dirs : CopierInOrder(i, e)'
    BY <1>4, <1>10 DEF DownCloseReturn, HandlerStates
  <2> QED BY <2>2, <2>3 DEF InFlight
<1>11. CASE UpAbort(p)
  <2> DEFINE t == TlsAbort(link[p + 1], "up")
  <2>1. t \in Stream /\ \A e \in Dirs : Settles(Kind(p + 1), link[p + 1][e], t[e])
    BY <1>3, TlsCloseQuiet, QuietSettles DEF Dirs
  <2>2. \A l \in Links, e \in Dirs : HopInOrder(l, e)'
    BY <1>1, <1>2, <1>3, <1>11, <2>1, HopsSettle DEF UpAbort
  <2>3. \A i \in Proxies, e \in Dirs : CopierInOrder(i, e)'
    BY <1>4, <1>11 DEF UpAbort, HandlerStates
  <2> QED BY <2>2, <2>3 DEF InFlight
<1> QED BY <1>5, <1>6, <1>7, <1>8, <1>9, <1>10, <1>11 DEF HandleStream

(* The state of a copier that holds the chunk after those it has written,  *)
(* or none.                                                                *)
Holds(c) ==
  /\ c.pc \in {"off", "read", "recv"} => c.hand = 0
  /\ c.pc \in {"write", "send", "wait"} => c.hand # 0
  /\ c.hand # 0 => c.hand = c.written + 1

(* The state after Goto.                                                   *)
LEMMA GotoFields ==
  ASSUME NEW c \in Copier, NEW pc \in CopyStates
  PROVE  LET x == [c EXCEPT !.pc = pc]
         IN  x \in Copier /\ x.pc = pc /\ x.hand = c.hand /\ x.written = c.written
BY DEF Copier

(* The state after Stop.                                                   *)
LEMMA StopFields ==
  ASSUME NEW c \in Copier, NEW b \in BOOLEAN
  PROVE  LET x == [c EXCEPT !.pc = "closeRead", !.err = b]
         IN  /\ x \in Copier /\ x.pc = "closeRead"
             /\ x.hand = c.hand /\ x.written = c.written
BY DEF Copier, CopyStates

(* The state after a chunk was read.                                       *)
LEMMA ReadFields ==
  ASSUME NEW c \in Copier, NEW m \in Nat
  PROVE  LET x == [c EXCEPT !.pc = "write", !.hand = m]
         IN  x \in Copier /\ x.pc = "write" /\ x.hand = m /\ x.written = c.written
BY DEF Copier, CopyStates

(* The state after a chunk was written.                                    *)
LEMMA WrittenFields ==
  ASSUME NEW c \in Copier
  PROVE  LET x == [c EXCEPT !.pc = "read", !.hand = 0, !.written = @ + 1]
         IN  x \in Copier /\ x.pc = "read" /\ x.hand = 0 /\ x.written = c.written + 1
<1>1. \A n \in Nat :
        LET x == [c EXCEPT !.pc = "read", !.hand = 0, !.written = n]
        IN  x \in Copier /\ x.pc = "read" /\ x.hand = 0 /\ x.written = n
  BY DEF Copier, CopyStates
<1>2. c.written + 1 \in Nat
  BY DEF Copier
<1> QED BY <1>1, <1>2

(* A copier that runs and moves to a state that holds the right chunk.     *)
LEMMA CopiersBecome ==
  ASSUME TypeOK, InFlight, NEW p \in Proxies, NEW d \in Dirs, NEW c \in Copier,
         Become(p, d, c), hs' = hs, inner' = inner, cp[p][d].pc # "off", Holds(c),
         c.pc = "wait" => Kind(Dst(p, d)) = "mdcapnp"
  PROVE  \A i \in Proxies, e \in Dirs : CopierInOrder(i, e)'
<1>1. /\ cp'[p][d] = c
      /\ \A i \in Proxies, e \in Dirs : <<i, e>> # <<p, d>> => cp'[i][e] = cp[i][e]
  BY DEF Become, TypeOK
<1>2. hs[p] \notin {"idle", "open", "opened"}
  BY DEF InFlight, CopierInOrder
<1> QED BY <1>1, <1>2 DEF InFlight, CopierInOrder, Holds, Kind

(* A copier that moves without taking or putting a chunk, while its        *)
(* streams at most settle.                                                 *)
LEMMA CopySettles ==
  ASSUME TypeOK, InFlight, NEW p \in Proxies, NEW d \in Dirs, NEW c \in Copier,
         Become(p, d, c), UNCHANGED <<hs, rest>>, cp[p][d].pc # "off", Holds(c), c.pc # "wait",
         Fetched(c) = Fetched(cp[p][d]), Delivered(c) = Delivered(cp[p][d]),
         \/ link' = link
         \/ \E i \in Links : \E t \in Stream :
              /\ link' = [link EXCEPT ![i] = t]
              /\ \A e \in Dirs : Settles(Kind(i), link[i][e], t[e])
  PROVE  InFlight'
<1>1. \A l \in Links, e \in Dirs : Taken(l, e)' = Taken(l, e) /\ Given(l, e)' = Given(l, e)
  BY CountsBecome DEF rest
<1>2. \A l \in Links, e \in Dirs : HopInOrder(l, e)'
  BY <1>1, HopsSame, HopsSettle DEF rest
<1> QED BY <1>2, CopiersBecome DEF InFlight, rest

(* io.Copy reads a chunk.                                                  *)
LEMMA InFlightReadData ==
  ASSUME TypeOK, InFlight, NEW p \in Proxies, NEW d \in Dirs,
         cp[p][d].pc \in {"read", "recv"}, UNCHANGED <<hs, rest>>,
         "data" \in Read(Kind(Src(p, d)), link[Src(p, d)], d),
         Become(p, d, [cp[p][d] EXCEPT !.pc = "write", !.hand = Head(link[Src(p, d)][d].q)]),
         link' = [link EXCEPT ![Src(p, d)] = Pop(@, d)]
  PROVE  InFlight'
<1> DEFINE l == Src(p, d)
           h == link[l][d]
           c == cp[p][d]
           x == [c EXCEPT !.pc = "write", !.hand = Head(h.q)]
<1>1. /\ l \in Links /\ Kind(l) \in Kinds /\ link[l] \in Stream /\ h \in Half
      /\ c \in Copier /\ c.hand = 0
  BY Geometry, KindType DEF TypeOK, Stream, InFlight, CopierInOrder
<1>2. HalfInOrder(Kind(l), h, Taken(l, d), Given(l, d))
      /\ Taken(l, d) \in Nat /\ Given(l, d) \in Nat
  BY <1>1, HalfCounts DEF InFlight, HopInOrder
<1>3. h.q # <<>> /\ Head(h.q) # END /\ Readable(Kind(l), h)
  BY <1>1, <1>2, ReadData DEF HalfInOrder
<1>4. /\ Head(h.q) = Taken(l, d) + 1
      /\ HalfInOrder(Kind(l), [q |-> Tail(h.q), f |-> h.f], Taken(l, d) + 1, Given(l, d))
  BY <1>1, <1>2, <1>3, PopInOrder
<1>5. Taken(l, d) = c.written
  BY <1>1, Ends DEF Taken, Fetched
<1>6. Head(h.q) \in Nat
  BY <1>2, <1>4
<1>7. x \in Copier /\ x.pc = "write" /\ x.hand = Head(h.q) /\ x.written = c.written
  <2> HIDE DEF c, h
  <2> QED BY <1>1, <1>6, ReadFields
<1>8. Fetched(x) = Taken(l, d) + 1 /\ Delivered(x) = Delivered(c)
  BY <1>2, <1>4, <1>5, <1>7 DEF Fetched, Delivered
<1>9. Holds(x)
  BY <1>2, <1>4, <1>5, <1>7 DEF Holds
<1>10. /\ Taken(l, d)' = Taken(l, d) + 1
       /\ \A i \in Links, e \in Dirs : <<i, e>> # <<l, d>> => Taken(i, e)' = Taken(i, e)
       /\ \A i \in Links, e \in Dirs : Given(i, e)' = Given(i, e)
  BY <1>7, <1>8, CountsBecome DEF rest
<1>11. /\ link'[l][d] = [q |-> Tail(h.q), f |-> h.f]
       /\ \A i \in Links, e \in Dirs : <<i, e>> # <<l, d>> => link'[i][e] = link[i][e]
  BY <1>1 DEF Pop, TypeOK, Stream
<1>12. \A i \in Links, e \in Dirs : HopInOrder(i, e)'
  <2> TAKE i \in Links, e \in Dirs
  <2>1. Kind(i)' = Kind(i)
    BY DEF Kind, rest
  <2>2. CASE <<i, e>> = <<l, d>>
    BY <1>4, <1>10, <1>11, <2>1, <2>2 DEF HopInOrder
  <2>3. CASE <<i, e>> # <<l, d>>
    BY <1>10, <1>11, <2>1, <2>3 DEF HopInOrder, InFlight
  <2> QED BY <2>2, <2>3
<1>13. \A i \in Proxies, e \in Dirs : CopierInOrder(i, e)'
  BY <1>7, <1>9, CopiersBecome DEF rest
<1> QED BY <1>12, <1>13 DEF InFlight

(* io.Copy writes its chunk: the Write is accepted, or waits for an answer.*)
LEMMA InFlightWritten ==
  ASSUME TypeOK, InFlight, NEW p \in Proxies, NEW d \in Dirs,
         cp[p][d].pc \in {"write", "send"}, UNCHANGED <<hs, rest>>,
         \/ "ok" \in Write(Kind(Dst(p, d)), link[Dst(p, d)], d) /\ NextChunk(p, d)
         \/ "wait" \in Write(Kind(Dst(p, d)), link[Dst(p, d)], d) /\ Goto(p, d, "wait"),
         link' = [link EXCEPT ![Dst(p, d)] =
                    Written(Kind(Dst(p, d)), @, d, cp[p][d].hand)]
  PROVE  InFlight'
<1> DEFINE l == Dst(p, d)
           k == Kind(l)
           s == link[l]
           c == cp[p][d]
           g == Given(l, d)
           t == Written(k, s, d, c.hand)
<1>1. /\ l \in Links /\ k \in Kinds /\ s \in Stream /\ s[d] \in Half
      /\ c \in Copier /\ c.hand = c.written + 1 /\ c.hand \in Nat /\ c.hand # 0
  BY Geometry, KindType DEF TypeOK, Stream, InFlight, CopierInOrder, Copier
<1>2. HalfInOrder(k, s[d], Taken(l, d), g) /\ Taken(l, d) \in Nat /\ g \in Nat
  BY <1>1, HalfCounts DEF InFlight, HopInOrder
<1>3. g = c.written
  BY <1>1, Ends DEF Given, Delivered
<1>4. PICK x \in Copier : /\ Become(p, d, x) /\ Holds(x)
                          /\ Fetched(x) = Fetched(c) /\ Delivered(x) = g + 1
                          /\ x.pc = "wait" => k = "mdcapnp"
  <2> DEFINE y == [c EXCEPT !.pc = "read", !.hand = 0, !.written = @ + 1]
             z == [c EXCEPT !.pc = "wait"]
  <2>1. /\ y \in Copier /\ y.pc = "read" /\ y.hand = 0 /\ y.written = c.written + 1
        /\ z \in Copier /\ z.pc = "wait" /\ z.hand = c.hand /\ z.written = c.written
    <3> HIDE DEF c
    <3>1. y \in Copier /\ y.pc = "read" /\ y.hand = 0 /\ y.written = c.written + 1
      BY <1>1, WrittenFields
    <3>2. "wait" \in CopyStates
      BY DEF CopyStates
    <3>3. z \in Copier /\ z.pc = "wait" /\ z.hand = c.hand /\ z.written = c.written
      BY <1>1, <3>2, GotoFields
    <3> QED BY <3>1, <3>3
  <2>2. Become(p, d, y) \/ (Become(p, d, z) /\ k = "mdcapnp")
    BY <1>1 DEF NextChunk, Goto, Write, StdWrite, TlsWrite, CapnpWrite, GrpcSend, Kinds
  <2> HIDE DEF y, z, c, g, k
  <2>3. Holds(y) /\ Fetched(y) = Fetched(c) /\ Delivered(y) = g + 1
    BY <1>1, <1>3, <2>1 DEF Holds, Fetched, Delivered
  <2>4. Holds(z) /\ Fetched(z) = Fetched(c) /\ Delivered(z) = g + 1
    BY <1>1, <1>3, <2>1 DEF Holds, Fetched, Delivered
  <2> QED BY <2>1, <2>2, <2>3, <2>4
<1>5. /\ g' = g + 1
      /\ \A i \in Links, e \in Dirs : <<i, e>> # <<l, d>> => Given(i, e)' = Given(i, e)
      /\ \A i \in Links, e \in Dirs : Taken(i, e)' = Taken(i, e)
  BY <1>4, CountsBecome DEF rest
<1>6. /\ t \in Stream /\ link'[l] = t
      /\ \A i \in Links \ {l} : link'[i] = link[i]
  BY <1>1, WrittenType DEF TypeOK
<1>7. /\ HalfInOrder(k, t[d], Taken(l, d), g + 1)
      /\ \A e \in Dirs \ {d} : HalfInOrder(k, t[e], Taken(l, e), Given(l, e))
  <2>1. CASE t = Put(s, d, c.hand) /\ (k \in Sockets \/ "lost" \notin s[d].f)
    <3>1. t[d] = [q |-> Append(s[d].q, g + 1), f |-> s[d].f]
          /\ \A e \in Dirs \ {d} : t[e] = s[e]
      <4>1. t = [s EXCEPT ![d] = [q |-> Append(s[d].q, g + 1), f |-> s[d].f]]
        BY <1>1, <1>3, <2>1 DEF Put
      <4>2. DOMAIN s = Dirs
        BY <1>1 DEF Stream
      <4> HIDE DEF s, t, g
      <4> QED BY <4>1, <4>2
    <3>2. "lost" \notin s[d].f
      BY <1>2, <2>1 DEF HalfInOrder
    <3>3. HalfInOrder(k, t[d], Taken(l, d), g + 1)
      BY <1>1, <1>2, <3>1, <3>2, PutInOrder
    <3> QED BY <1>1, <3>1, <3>3 DEF InFlight, HopInOrder
  <2>2. CASE Quiet(s, t) /\ ~Readable(k, s[d])
    <3>1. \A e \in Dirs : Settles(k, s[e], t[e]) /\ t[e] \in Half
      BY <1>6, <2>2, QuietSettles DEF Stream
    <3>2. HalfInOrder(k, s[d], Taken(l, d), g + 1)
      BY <1>1, <1>2, <2>2, GivenFree
    <3>3. HalfInOrder(k, t[d], Taken(l, d), g + 1)
      BY <1>1, <1>2, <3>1, <3>2, SettlesInOrder
    <3>4. \A e \in Dirs : /\ HalfInOrder(k, s[e], Taken(l, e), Given(l, e))
                          /\ s[e] \in Half /\ Taken(l, e) \in Nat /\ Given(l, e) \in Nat
      BY <1>1, HalfCounts DEF InFlight, HopInOrder, Stream
    <3>5. \A e \in Dirs \ {d} : HalfInOrder(k, t[e], Taken(l, e), Given(l, e))
      BY <1>1, <3>1, <3>4, SettlesInOrder
    <3> QED BY <3>3, <3>5
  <2> QED BY <1>1, <2>1, <2>2, WriteNotRefused
<1>8. \A i \in Links, e \in Dirs : HopInOrder(i, e)'
  <2> TAKE i \in Links, e \in Dirs
  <2>1. Kind(i)' = Kind(i)
    BY DEF Kind, rest
  <2>2. CASE i = l
    BY <1>5, <1>6, <1>7, <2>1, <2>2 DEF HopInOrder
  <2>3. CASE i # l
    BY <1>5, <1>6, <2>1, <2>3 DEF HopInOrder, InFlight
  <2> QED BY <2>2, <2>3
<1>9. \A i \in Proxies, e \in Dirs : CopierInOrder(i, e)'
  BY <1>4, CopiersBecome DEF rest
<1> QED BY <1>8, <1>9 DEF InFlight

(* io.Copy gives up after a failed Write.                                  *)
LEMMA InFlightStopWriting ==
  ASSUME TypeOK, InFlight, NEW p \in Proxies, NEW d \in Dirs,
         cp[p][d].pc \in {"write", "send", "wait"}, UNCHANGED <<hs, link, rest>>,
         StopWriting(p, d),
         Kind(Dst(p, d)) = "mdcapnp" =>
           cp[p][d].pc = "wait" \/ "lost" \in link[Dst(p, d)][d].f,
         Kind(Dst(p, d)) # "mdcapnp" => cp[p][d].pc # "wait"
  PROVE  InFlight'
<1> DEFINE l == Dst(p, d)
           c == cp[p][d]
<1>1. /\ l \in Links /\ Kind(l) \in Kinds /\ link[l][d] \in Half
      /\ c \in Copier /\ c.hand = c.written + 1 /\ c.hand # 0
  BY Geometry, KindType DEF TypeOK, Stream, InFlight, CopierInOrder
<1>2. CASE Kind(l) # "mdcapnp"
  <2> DEFINE x == [c EXCEPT !.pc = "closeRead", !.err = TRUE]
  <2>1. x \in Copier /\ x.pc = "closeRead" /\ x.hand = c.hand /\ x.written = c.written
    <3> HIDE DEF c
    <3> QED BY <1>1, StopFields
  <2>2. Become(p, d, x)
    BY <1>2 DEF StopWriting, Stop
  <2>3. Holds(x) /\ Fetched(x) = Fetched(c) /\ Delivered(x) = Delivered(c)
    <3> HIDE DEF x
    <3> QED BY <1>1, <1>2, <2>1 DEF Holds, Fetched, Delivered
  <2> QED BY <2>1, <2>2, <2>3, CopySettles
<1>3. CASE Kind(l) = "mdcapnp"
  <2> DEFINE x == [pc |-> "closeRead", hand |-> 0, written |-> c.written + 1, err |-> TRUE]
  <2>1. Become(p, d, x)
    BY <1>3 DEF StopWriting
  <2>2. x \in Copier
    BY <1>1 DEF Copier, CopyStates
  <2>3. Holds(x) /\ Fetched(x) = Fetched(c) /\ Delivered(x) = c.written + 1
    BY <1>1 DEF Holds, Fetched, Delivered
  <2>4. CASE c.pc = "wait"
    <3>1. Delivered(x) = Delivered(c)
      BY <2>3, <2>4 DEF Delivered
    <3> QED BY <2>1, <2>2, <2>3, <2>4, <3>1, CopySettles
  <2>5. CASE "lost" \in link[l][d].f
    <3> HIDE DEF x
    <3>1. /\ \A i \in Links, e \in Dirs : <<i, e>> # <<l, d>> => Given(i, e)' = Given(i, e)
          /\ \A i \in Links, e \in Dirs : Taken(i, e)' = Taken(i, e)
          /\ Given(l, d)' = Delivered(x)
      BY <2>1, <2>2, <2>3, CountsBecome DEF rest
    <3>2. Given(l, d)' \in Nat /\ Taken(l, d) \in Nat /\ Given(l, d) \in Nat
      BY <1>1, <2>2, <3>1, HalfCounts, CopierCounts
    <3>3. HalfInOrder(Kind(l), link[l][d], Taken(l, d), Given(l, d))
      BY <1>1 DEF InFlight, HopInOrder
    <3>4. HalfInOrder(Kind(l), link[l][d], Taken(l, d), Given(l, d)')
      BY <1>1, <2>5, <3>2, <3>3, GivenFree
    <3>5. \A i \in Links, e \in Dirs : HopInOrder(i, e)'
      <4> TAKE i \in Links, e \in Dirs
      <4>1. Kind(i)' = Kind(i)
        BY DEF Kind, rest
      <4>2. CASE <<i, e>> = <<l, d>>
        BY <3>1, <3>4, <4>1, <4>2 DEF HopInOrder
      <4>3. CASE <<i, e>> # <<l, d>>
        BY <3>1, <4>1, <4>3 DEF HopInOrder, InFlight
      <4> QED BY <4>2, <4>3
    <3>6. \A i \in Proxies, e \in Dirs : CopierInOrder(i, e)'
      BY <2>1, <2>2, <2>3, CopiersBecome DEF rest, x
    <3> QED BY <3>5, <3>6 DEF InFlight
  <2> QED BY <1>3, <2>4, <2>5
<1> QED BY <1>2, <1>3

(* The steps of copyStream keep the chunks in flight in order.             *)
LEMMA InFlightCopy ==
  ASSUME TypeOK, InFlight, NEW p \in Proxies, NEW d \in Dirs, CopyStream(p, d)
  PROVE  InFlight'
<1> DEFINE l == Src(p, d)
           m == Dst(p, d)
           c == cp[p][d]
<1>1. /\ l \in Links /\ m \in Links
      /\ Kind(l) \in Kinds /\ Kind(m) \in Kinds
      /\ link[l] \in Stream /\ link[m] \in Stream
      /\ c \in Copier /\ Holds(c)
  BY Geometry, KindType DEF TypeOK, InFlight, CopierInOrder, Holds
<1>2. ASSUME NEW pc \in CopyStates \ {"off", "wait"}, Goto(p, d, pc),
             c.pc \notin {"off", "wait"}, UNCHANGED <<hs, rest>>,
             pc \in {"read", "recv"} => c.pc \in {"read", "recv"},
             pc \in {"write", "send"} => c.pc \in {"write", "send"},
             \/ link' = link
             \/ \E i \in Links : \E t \in Stream :
                  /\ link' = [link EXCEPT ![i] = t]
                  /\ \A e \in Dirs : Settles(Kind(i), link[i][e], t[e])
      PROVE  InFlight'
  <2> DEFINE x == [c EXCEPT !.pc = pc]
  <2>1. x \in Copier /\ x.pc = pc /\ x.hand = c.hand /\ x.written = c.written
    <3> HIDE DEF c
    <3> QED BY <1>1, <1>2, GotoFields
  <2>2. Become(p, d, x)
    BY <1>2 DEF Goto
  <2> HIDE DEF x
  <2>3. Holds(x) /\ Fetched(x) = Fetched(c) /\ Delivered(x) = Delivered(c)
    BY <1>1, <1>2, <2>1 DEF Holds, Fetched, Delivered
  <2> QED BY <1>2, <2>1, <2>2, <2>3, CopySettles
<1>3. ASSUME NEW b \in BOOLEAN, Stop(p, d, b), c.pc \notin {"off", "wait"},
             UNCHANGED <<hs, link, rest>>
      PROVE  InFlight'
  <2> DEFINE x == [c EXCEPT !.pc = "closeRead", !.err = b]
  <2>1. x \in Copier /\ x.pc = "closeRead" /\ x.hand = c.hand /\ x.written = c.written
    <3> HIDE DEF c
    <3> QED BY <1>1, <1>3, StopFields
  <2>2. Become(p, d, x)
    BY <1>3 DEF Stop
  <2> HIDE DEF x
  <2>3. Holds(x) /\ Fetched(x) = Fetched(c) /\ Delivered(x) = Delivered(c)
    BY <1>1, <1>3, <2>1 DEF Holds, Fetched, Delivered
  <2> QED BY <1>3, <2>1, <2>2, <2>3, CopySettles
<1>4. CASE CopyReadCheck(p, d)
  BY <1>2, <1>3, <1>4 DEF CopyReadCheck, CopyStates
<1>5. CASE CopyRead(p, d)
  <2>1. c.pc \in {"read", "recv"} /\ UNCHANGED <<hs, rest>>
    BY <1>5 DEF CopyRead
  <2>2. CASE /\ "data" \in Read(Kind(l), link[l], d)
             /\ Become(p, d, [c EXCEPT !.pc = "write", !.hand = Head(link[l][d].q)])
             /\ link' = [link EXCEPT ![l] = Pop(@, d)]
    BY <2>1, <2>2, InFlightReadData
  <2>3. CASE (Stop(p, d, FALSE) \/ Stop(p, d, TRUE)) /\ UNCHANGED link
    BY <1>3, <2>1, <2>3
  <2> QED BY <1>5, <2>2, <2>3 DEF CopyRead
<1>6. CASE CopyWriteCheck(p, d)
  BY <1>2, <1>3, <1>6 DEF CopyWriteCheck, CopyStates
<1>7. CASE CopyWrite(p, d)
  <2>1. c.pc \in {"write", "send"} /\ UNCHANGED <<hs, rest>>
    BY <1>7 DEF CopyWrite
  <2>2. CASE "err" \in Write(Kind(m), link[m], d) /\ StopWriting(p, d) /\ UNCHANGED link
    <3>1. Kind(m) = "mdcapnp" => "lost" \in link[m][d].f
      BY <2>2 DEF Write, MdWrite, Any
    <3> QED BY <2>1, <2>2, <3>1, InFlightStopWriting
  <2>3. CASE /\ \/ "ok" \in Write(Kind(m), link[m], d) /\ NextChunk(p, d)
                \/ "wait" \in Write(Kind(m), link[m], d) /\ Goto(p, d, "wait")
             /\ link' = [link EXCEPT ![m] = Written(Kind(m), @, d, c.hand)]
    BY <2>1, <2>3, InFlightWritten
  <2> QED BY <1>7, <2>2, <2>3 DEF CopyWrite
<1>8. CASE CopyWriteReturn(p, d)
  <2>1. c.pc = "wait" /\ UNCHANGED <<hs, link, rest>>
    BY <1>8 DEF CopyWriteReturn
  <2>2. CASE NextChunk(p, d)
    <3> DEFINE x == [c EXCEPT !.pc = "read", !.hand = 0, !.written = @ + 1]
    <3>1. x \in Copier /\ x.pc = "read" /\ x.hand = 0 /\ x.written = c.written + 1
      <4> HIDE DEF c
      <4> QED BY <1>1, WrittenFields
    <3>2. Become(p, d, x)
      BY <2>2 DEF NextChunk
    <3> HIDE DEF x
    <3>3. Holds(x) /\ Fetched(x) = Fetched(c) /\ Delivered(x) = Delivered(c)
      BY <1>1, <2>1, <3>1 DEF Holds, Fetched, Delivered
    <3> QED BY <2>1, <3>1, <3>2, <3>3, CopySettles
  <2>3. CASE StopWriting(p, d)
    <3>1. Kind(m) = "mdcapnp"
      BY <2>1 DEF InFlight, CopierInOrder
    <3> QED BY <2>1, <2>3, <3>1, InFlightStopWriting
  <2> QED BY <1>8, <2>2, <2>3 DEF CopyWriteReturn
<1>9. CASE CopyCloseRead(p, d)
  <2> DEFINE t == CloseRead(Kind(l), link[l], d)
  <2>1. t \in Stream /\ \A e \in Dirs : Settles(Kind(l), link[l][e], t[e])
    BY <1>1, CloseReadQuiet, QuietSettles
  <2> QED BY <1>1, <1>2, <1>9, <2>1 DEF CopyCloseRead, CopyStates
<1>10. CASE CopyCloseWrite(p, d)
  <2> DEFINE t == CloseWrite(Kind(m), link[m], d)
  <2>1. t \in Stream /\ \A e \in Dirs : Settles(Kind(m), link[m][e], t[e])
    BY <1>1, CloseWriteSettles
  <2> QED BY <1>1, <1>2, <1>10, <2>1 DEF CopyCloseWrite, CopyStates
<1>11. CASE CopyCloseWriteReturn(p, d)
  BY <1>2, <1>11 DEF CopyCloseWriteReturn, CopyStates
<1>12. CASE CopyCloseWriteStuck(p, d)
  <2> DEFINE t == TlsAlertGivenUp(link[m], d)
  <2>1. t \in Stream /\ \A e \in Dirs : Settles(Kind(m), link[m][e], t[e])
    BY <1>1, TlsMarkQuiet, QuietSettles
  <2> QED BY <1>1, <1>2, <1>12, <2>1 DEF CopyCloseWriteStuck, CopyStates
<1> QED BY <1>4, <1>5, <1>6, <1>7, <1>8, <1>9, <1>10, <1>11, <1>12 DEF CopyStream

(* A step that leaves the goroutines alone and settles one stream.         *)
LEMMA InFlightSettle ==
  ASSUME TypeOK, InFlight, UNCHANGED <<hs, cp, rest>>,
         NEW i \in Links, NEW t \in Stream, link' = [link EXCEPT ![i] = t],
         \A e \in Dirs : Settles(Kind(i), link[i][e], t[e])
  PROVE  InFlight'
<1>1. \A p \in Proxies, e \in Dirs : /\ Fetched(cp[p][e])' = Fetched(cp[p][e])
                                     /\ Delivered(cp[p][e])' = Delivered(cp[p][e])
  BY DEF Fetched, Delivered
<1>2. \A l \in Links, e \in Dirs : Taken(l, e)' = Taken(l, e) /\ Given(l, e)' = Given(l, e)
  BY <1>1, CountsSame DEF rest
<1>3. \A l \in Links, e \in Dirs : HopInOrder(l, e)'
  BY <1>2, HopsSettle DEF rest
<1>4. \A p \in Proxies, e \in Dirs : CopierInOrder(p, e)'
  BY DEF InFlight, CopierInOrder, Kind, rest
<1> QED BY <1>3, <1>4 DEF InFlight

(* An application sends a chunk.                                           *)
LEMMA InFlightAppSend ==
  ASSUME TypeOK, InFlight, NEW d \in Dirs, AppSend(d)
  PROVE  InFlight'
<1> DEFINE l == AppLink(d)
           s == link[l]
           g == sent[d]
           t == StdWritten(s, d, g + 1)
<1>1. /\ l \in Links /\ Kind(l) = "std" /\ "std" \in Kinds /\ s \in Stream /\ s[d] \in Half
      /\ g \in Nat /\ g + 1 \in Nat /\ UNCHANGED <<inner, hs, cp, rcvd>>
  BY Geometry, KindType DEF TypeOK, Stream, AppSend, Kinds
<1>2. /\ t \in Stream /\ link'[l] = t /\ \A i \in Links \ {l} : link'[i] = link[i]
  <2>1. t \in Stream
    BY <1>1, WrittenType DEF Written, Sockets
  <2> QED BY <1>1, <2>1 DEF AppSend, TypeOK
<1>3. /\ Given(l, d) = g /\ Given(l, d)' = g + 1
      /\ \A i \in Links, e \in Dirs : <<i, e>> # <<l, d>> => Given(i, e)' = Given(i, e)
      /\ \A i \in Links, e \in Dirs : Taken(i, e)' = Taken(i, e)
  <2>1. sent'[d] = g + 1 /\ \A e \in Dirs \ {d} : sent'[e] = sent[e]
    BY DEF AppSend, TypeOK
  <2>2. Given(l, d) = g /\ Given(l, d)' = g + 1
    BY <2>1 DEF Given
  <2>3. \A i \in Links, e \in Dirs : <<i, e>> # <<l, d>> => Given(i, e)' = Given(i, e)
    BY <1>1, <2>1 DEF Given, Delivered
  <2>4. \A i \in Links, e \in Dirs : Taken(i, e)' = Taken(i, e)
    BY <1>1 DEF Taken, Fetched
  <2> QED BY <2>2, <2>3, <2>4
<1>4. \A e \in Dirs : /\ HalfInOrder("std", s[e], Taken(l, e), Given(l, e))
                      /\ s[e] \in Half /\ t[e] \in Half
                      /\ Taken(l, e) \in Nat /\ Given(l, e) \in Nat
  BY <1>1, <1>2, HalfCounts DEF InFlight, HopInOrder, Stream
<1>5. /\ HalfInOrder("std", t[d], Taken(l, d), g + 1)
      /\ \A e \in Dirs \ {d} : HalfInOrder("std", t[e], Taken(l, e), Given(l, e))
  <2>1. CASE "rgone" \in s[d].f
    <3>1. Quiet(s, t)
      BY <1>1, <2>1, QuietMarkBoth DEF StdWritten, Any, Flags
    <3>2. \A e \in Dirs : Settles("std", s[e], t[e])
      BY <3>1, QuietSettles
    <3>3. HalfInOrder("std", s[d], Taken(l, d), g + 1)
      BY <1>1, <1>4, <2>1, GivenFree DEF Readable, Sockets
    <3>4. HalfInOrder("std", t[d], Taken(l, d), g + 1)
      BY <1>1, <1>4, <3>2, <3>3, SettlesInOrder
    <3>5. \A e \in Dirs \ {d} : HalfInOrder("std", t[e], Taken(l, e), Given(l, e))
      BY <1>1, <1>4, <3>2, SettlesInOrder
    <3> QED BY <3>4, <3>5
  <2>2. CASE "rgone" \notin s[d].f
    <3>1. t = Put(s, d, g + 1)
      BY <2>2 DEF StdWritten, Any
    <3>2. t[d] = [q |-> Append(s[d].q, g + 1), f |-> s[d].f]
          /\ \A e \in Dirs \ {d} : t[e] = s[e]
      BY <1>1, <3>1 DEF Put, Stream
    <3>3. "lost" \notin s[d].f
      BY <1>4 DEF HalfInOrder, Sockets
    <3>4. HalfInOrder("std", t[d], Taken(l, d), g + 1)
      BY <1>1, <1>3, <1>4, <3>2, <3>3, PutInOrder
    <3> QED BY <1>4, <3>2, <3>4
  <2> QED BY <2>1, <2>2
<1>6. \A i \in Links, e \in Dirs : HopInOrder(i, e)'
  <2> TAKE i \in Links, e \in Dirs
  <2>1. Kind(i)' = Kind(i)
    BY <1>1 DEF Kind
  <2>2. CASE i = l
    BY <1>1, <1>2, <1>3, <1>5, <2>1, <2>2 DEF HopInOrder
  <2>3. CASE i # l
    BY <1>2, <1>3, <2>1, <2>3 DEF HopInOrder, InFlight
  <2> QED BY <2>2, <2>3
<1>7. \A p \in Proxies, e \in Dirs : CopierInOrder(p, e)'
  BY <1>1 DEF InFlight, CopierInOrder, Kind
<1> QED BY <1>6, <1>7 DEF InFlight

(* An application reads a chunk: it is the next one, and what is left      *)
(* behind it is in order.                                                  *)
LEMMA InFlightAppRead ==
  ASSUME TypeOK, InFlight, NEW d \in Dirs, AppRead(d)
  PROVE  /\ InFlight'
         /\ \/ rcvd' = rcvd
            \/ rcvd' = [rcvd EXCEPT ![d] = Append(@, Len(@) + 1)]
<1> DEFINE l == AppLink(Opp(d))
           h == link[l][d]
<1>1. /\ l \in Links /\ Kind(l) = "std" /\ "std" \in Kinds /\ link[l] \in Stream
      /\ h \in Half /\ UNCHANGED <<inner, hs, cp, sent>>
  BY Geometry, KindType, OppType DEF TypeOK, Stream, AppRead, Kinds
<1>2. \A p \in Proxies, e \in Dirs : CopierInOrder(p, e)'
  BY <1>1 DEF InFlight, CopierInOrder, Kind
<1>3. CASE UNCHANGED <<link, rcvd>>
  <2>1. \A i \in Links, e \in Dirs : Taken(i, e)' = Taken(i, e) /\ Given(i, e)' = Given(i, e)
    BY <1>1, <1>3 DEF Taken, Given, Fetched, Delivered
  <2>2. \A i \in Links, e \in Dirs : HopInOrder(i, e)'
    BY <1>1, <1>3, <2>1, HopsSame
  <2> QED BY <1>2, <1>3, <2>2 DEF InFlight
<1>4. CASE /\ "data" \in StdRead(link[l], d)
           /\ rcvd' = [rcvd EXCEPT ![d] = Append(@, Head(h.q))]
           /\ link' = [link EXCEPT ![l] = Pop(@, d)]
  <2>1. /\ Taken(l, d) = Len(rcvd[d]) /\ Taken(l, d) \in Nat /\ Given(l, d) \in Nat
        /\ HalfInOrder("std", h, Taken(l, d), Given(l, d))
    BY <1>1, HalfCounts DEF Taken, InFlight, HopInOrder
  <2>2. h.q # <<>> /\ Head(h.q) # END /\ Readable("std", h)
    BY <1>1, <1>4, <2>1, ReadData DEF Read, HalfInOrder
  <2>3. /\ Head(h.q) = Taken(l, d) + 1
        /\ HalfInOrder("std", [q |-> Tail(h.q), f |-> h.f], Taken(l, d) + 1, Given(l, d))
    BY <1>1, <2>1, <2>2, PopInOrder
  <2>4. rcvd' = [rcvd EXCEPT ![d] = Append(@, Len(@) + 1)]
    BY <1>4, <2>1, <2>3
  <2>5. /\ Len(rcvd'[d]) = Len(rcvd[d]) + 1
        /\ \A e \in Dirs \ {d} : rcvd'[e] = rcvd[e]
    BY <2>4 DEF TypeOK
  <2>6. /\ Taken(l, d)' = Taken(l, d) + 1
        /\ \A i \in Links, e \in Dirs : <<i, e>> # <<l, d>> => Taken(i, e)' = Taken(i, e)
        /\ \A i \in Links, e \in Dirs : Given(i, e)' = Given(i, e)
    BY <1>1, <2>1, <2>5 DEF Taken, Given, Fetched, Delivered
  <2>7. /\ link'[l][d] = [q |-> Tail(h.q), f |-> h.f]
        /\ \A i \in Links, e \in Dirs : <<i, e>> # <<l, d>> => link'[i][e] = link[i][e]
    BY <1>1, <1>4 DEF Pop, TypeOK, Stream
  <2>8. \A i \in Links, e \in Dirs : HopInOrder(i, e)'
    <3> TAKE i \in Links, e \in Dirs
    <3>1. Kind(i)' = Kind(i)
      BY <1>1 DEF Kind
    <3>2. CASE <<i, e>> = <<l, d>>
      BY <1>1, <2>3, <2>6, <2>7, <3>1, <3>2 DEF HopInOrder
    <3>3. CASE <<i, e>> # <<l, d>>
      BY <2>6, <2>7, <3>1, <3>3 DEF HopInOrder, InFlight
    <3> QED BY <3>2, <3>3
  <2> QED BY <1>2, <2>4, <2>8 DEF InFlight
<1> QED BY <1>3, <1>4 DEF AppRead

(* The remaining steps of the RPC systems, the network and the             *)
(* applications raise flags, serve calls or cut queues.                    *)
LEMMA InFlightEnvironment ==
  ASSUME TypeOK, InFlight,
         \/ \E l \in Carried, d \in Dirs : Handshake(l, d) \/ ServeCall(l, d)
         \/ \E l \in Carried : Lose(l)
         \/ \E d \in Dirs : AppShut(d) \/ AppClose(d)
  PROVE  InFlight' /\ rcvd' = rcvd
<1>1. ASSUME NEW l \in Links, NEW d \in Dirs, ServeCall(l, d)
      PROVE  InFlight' /\ rcvd' = rcvd
  <2>1. Kind(l) \in Kinds /\ link[l] \in Stream
    BY KindType DEF TypeOK
  <2> QED BY <1>1, <2>1, ServeSettles, InFlightSettle DEF ServeCall, rest
<1>2. ASSUME NEW l \in Links, Lose(l)
      PROVE  InFlight' /\ rcvd' = rcvd
  <2>1. Kind(l) \in Kinds /\ link[l] \in Stream /\ UNCHANGED <<hs, cp, rest>>
    BY <1>2, KindType DEF TypeOK, Lose
  <2>2. CASE link' = [link EXCEPT ![l] = StdLose(@)]
    BY <2>1, <2>2, StdLoseQuiet, QuietSettles, InFlightSettle DEF rest
  <2>3. ASSUME Kind(l) \notin Sockets, NEW ku \in 0 .. Len(link[l]["up"].q),
               NEW kd \in 0 .. Len(link[l]["dn"].q),
               link' = [link EXCEPT ![l] = RpcLose(link[l], ku, kd)]
        PROVE  InFlight' /\ rcvd' = rcvd
    <3>1. /\ RpcLose(link[l], ku, kd) \in Stream
          /\ \A e \in Dirs : Settles(Kind(l), link[l][e], RpcLose(link[l], ku, kd)[e])
      BY <2>1, <2>3, RpcLoseSettles
    <3> QED BY <2>1, <2>3, <3>1, InFlightSettle DEF rest
  <2> QED BY <1>2, <2>2, <2>3 DEF Lose
<1>3. ASSUME NEW d \in Dirs, AppShut(d)
      PROVE  InFlight' /\ rcvd' = rcvd
  <2>1. AppLink(d) \in Links /\ link[AppLink(d)] \in Stream
    BY Geometry DEF TypeOK
  <2>2. Quiet(link[AppLink(d)], StdCloseWrite(link[AppLink(d)], d))
    BY <2>1, QuietMark DEF StdCloseWrite, Flags
  <2> QED BY <1>3, <2>1, <2>2, QuietSettles, InFlightSettle DEF AppShut, rest
<1>4. ASSUME NEW d \in Dirs, AppClose(d)
      PROVE  InFlight' /\ rcvd' = rcvd
  <2> DEFINE l == AppLink(Opp(d))
             t == StdClose(link[l], Opp(d))
  <2>1. l \in Links /\ link[l] \in Stream /\ Kind(l) = "std" /\ "std" \in Kinds
        /\ Opp(d) \in Dirs
    BY Geometry, KindType, OppType DEF TypeOK, Kinds
  <2>2. t \in Stream /\ \A e \in Dirs : Settles("std", link[l][e], t[e])
    BY <2>1, CloseSettles DEF Close
  <2>3. link' = [link EXCEPT ![l] = t] /\ UNCHANGED <<hs, cp, rest>>
    BY <1>4 DEF AppClose
  <2> HIDE DEF l, t
  <2>4. InFlight'
    BY <2>1, <2>2, <2>3, InFlightSettle
  <2> QED BY <2>3, <2>4 DEF rest
<1>5. ASSUME NEW l \in Links, NEW o \in Dirs, Handshake(l, o)
      PROVE  InFlight' /\ rcvd' = rcvd
  <2> DEFINE t == TlsShake(link[l], o)
  <2>1. t \in Stream /\ \A e \in Dirs : Settles(Kind(l), link[l][e], t[e])
    BY TlsMarkQuiet, QuietSettles DEF TypeOK
  <2> QED BY <1>5, <2>1, InFlightSettle DEF Handshake, rest
<1> QED BY <1>1, <1>2, <1>3, <1>4, <1>5 DEF Carried

(* The steps of a proxy deliver nothing to an application by themselves.   *)
LEMMA ProxyDelivers ==
  ASSUME NEW p \in Proxies, NEW d \in Dirs,
         HandleStream(p) \/ OpenStreamFail(p) \/ CopyStream(p, d)
  PROVE  rcvd' = rcvd
BY DEF HandleStream, Accept, OpenStream, OpenStreamReturn, OpenStreamLost, UpClose,
       UpAbort, UpCloseReturn, DownClose, DownCloseReturn, OpenStreamFail,
       CopyStream, CopyReadCheck, CopyRead, CopyWriteCheck, CopyWrite, CopyWriteReturn,
       CopyCloseRead, CopyCloseWrite, CopyCloseWriteStuck, CopyCloseWriteReturn, rest

(* The inductive invariant.                                                *)
Relayed == InFlight /\ InOrder

(* The relay keeps the chunks in flight in order, hop by hop, and delivers *)
(* them in order, whatever the kind of its streams and whatever fails.     *)
THEOREM RelayInOrder == Spec => [](InFlight /\ InOrder)
<1>1. Init => Relayed
  <2> SUFFICES ASSUME Init
               PROVE  Relayed
    OBVIOUS
  <2>1. \A p \in Proxies, d \in Dirs :
          /\ cp[p][d].pc = "off" /\ cp[p][d].hand = 0 /\ cp[p][d].written = 0
    BY DEF Init
  <2>2. \A l \in Links, d \in Dirs : link[l][d] = [q |-> <<>>, f |-> {}]
    BY DEF Init, NewStream
  <2>3. \A l \in Links, d \in Dirs : Taken(l, d) = 0
    BY <2>1, Ends DEF Init, Taken, Fetched
  <2>4. \A l \in Links, d \in Dirs : Given(l, d) = 0
    BY <2>1, Ends DEF Init, Given, Delivered
  <2>5. \A l \in Links, d \in Dirs : HopInOrder(l, d)
    BY <2>2, <2>3, <2>4 DEF HopInOrder, HalfInOrder, NoEnd
  <2>6. InOrder
    BY DEF InOrder, Init
  <2> QED BY <2>1, <2>5, <2>6 DEF Relayed, InFlight, CopierInOrder
<1>2. TypeOK /\ Relayed /\ [Next]_vars => Relayed'
  <2> SUFFICES ASSUME TypeOK, InFlight, InOrder, [Next]_vars
               PROVE  InFlight' /\ InOrder'
    BY DEF Relayed
  <2>1. rcvd' = rcvd => InOrder'
    BY DEF InOrder
  <2>2. ASSUME NEW p \in Proxies, HandleStream(p) \/ OpenStreamFail(p)
        PROVE  InFlight' /\ InOrder'
    <3>1. rcvd' = rcvd
      BY <2>2, ProxyDelivers DEF Dirs
    <3> QED BY <2>1, <2>2, <3>1, InFlightHandler
  <2>3. ASSUME NEW p \in Proxies, NEW d \in Dirs, CopyStream(p, d)
        PROVE  InFlight' /\ InOrder'
    BY <2>1, <2>3, ProxyDelivers, InFlightCopy
  <2>4. ASSUME NEW d \in Dirs, AppSend(d)
        PROVE  InFlight' /\ InOrder'
    BY <2>1, <2>4, InFlightAppSend DEF AppSend
  <2>5. ASSUME NEW d \in Dirs, AppRead(d)
        PROVE  InFlight' /\ InOrder'
    <3>1. InFlight'
      BY <2>5, InFlightAppRead
    <3>2. CASE rcvd' = [rcvd EXCEPT ![d] = Append(@, Len(@) + 1)]
      <4>1. /\ rcvd'[d] = Append(rcvd[d], Len(rcvd[d]) + 1)
            /\ \A e \in Dirs \ {d} : rcvd'[e] = rcvd[e]
        BY <3>2 DEF TypeOK
      <4>2. rcvd[d] \in Seq(Nat) /\ rcvd[d] = [i \in 1 .. Len(rcvd[d]) |-> i]
        BY DEF TypeOK, InOrder
      <4>3. \A s \in Seq(Nat) : s = [i \in 1 .. Len(s) |-> i] =>
              Append(s, Len(s) + 1) = [i \in 1 .. Len(Append(s, Len(s) + 1)) |-> i]
        OBVIOUS
      <4>4. rcvd'[d] = [i \in 1 .. Len(rcvd'[d]) |-> i]
        BY <4>1, <4>2, <4>3
      <4> QED BY <3>1, <4>1, <4>4 DEF InOrder
    <3> QED BY <2>1, <2>5, <3>1, <3>2, InFlightAppRead
  <2>6. CASE \/ \E l \in Carried, d \in Dirs : Handshake(l, d) \/ ServeCall(l, d)
             \/ \E l \in Carried : Lose(l)
             \/ \E d \in Dirs : AppShut(d) \/ AppClose(d)
    BY <2>1, <2>6, InFlightEnvironment
  <2>7. CASE UNCHANGED vars
    BY <2>7 DEF vars, InFlight, InOrder, HopInOrder, CopierInOrder, Taken, Given, Kind,
                Fetched, Delivered
  <2> QED BY <2>2, <2>3, <2>4, <2>5, <2>6, <2>7 DEF Next, Environment
<1>3. Spec => []Relayed
  BY <1>1, <1>2, TypeCorrect, PTL DEF Spec
<1> QED BY <1>3, PTL DEF Relayed

(* What an application receives is what the other application sent, in     *)
(* order and without a gap (main.go's pair of io.Copy per proxy).          *)
THEOREM DeliveredInOrder == Spec => []InOrder
BY RelayInOrder, PTL

=============================================================================
