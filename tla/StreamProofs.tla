---------------------------- MODULE StreamProofs ----------------------------
(***************************************************************************)
(* What the operations of netx.Stream do to a half, whatever the kind of   *)
(* the stream: the lemmas that the theorems of TunnelProofs rest on.       *)
(***************************************************************************)
EXTENDS Tunnel, TLAPS

-----------------------------------------------------------------------------
(* Every operation of every kind of stream maps streams to streams.        *)

(* A new stream is a stream (netx.Stream as OpenStream returns it).        *)
LEMMA NewStreamType == NewStream \in Stream
BY DEF NewStream, Stream, Half, Dirs

(* Queueing a chunk or an end gives a stream.                              *)
LEMMA PutType ==
  ASSUME NEW s \in Stream, NEW d \in Dirs, NEW m \in Nat
  PROVE  Put(s, d, m) \in Stream
BY DEF Put, Stream, Half

(* Taking the head of a queue that is not empty gives a stream.            *)
LEMMA PopType ==
  ASSUME NEW s \in Stream, NEW d \in Dirs, s[d].q # <<>>
  PROVE  Pop(s, d) \in Stream
BY DEF Pop, Stream, Half

(* Raising flags gives a stream.                                           *)
LEMMA MarkType ==
  ASSUME NEW s \in Stream, NEW d \in Dirs, NEW F \in SUBSET Flags
  PROVE  Mark(s, d, F) \in Stream
BY DEF Mark, Stream, Half

(* Raising flags on both halves gives a stream.                            *)
LEMMA MarkBothType ==
  ASSUME NEW s \in Stream, NEW F \in SUBSET Flags
  PROVE  MarkBoth(s, F) \in Stream
BY DEF MarkBoth, Stream, Half

(* Opp is the other direction.                                             *)
LEMMA OppType == \A d \in Dirs : Opp(d) \in Dirs /\ Opp(d) # d /\ Opp(Opp(d)) = d
BY DEF Opp, Dirs

-----------------------------------------------------------------------------
(* The queue of a half up to its first call of end.                        *)

(* Queues that agree up to n both have, or both have not, an end there.    *)
LEMMA NoEndAgree ==
  ASSUME NEW q, NEW r, NEW n \in Nat, \A i \in 1 .. n : q[i] = r[i]
  PROVE  NoEnd(q, n) <=> NoEnd(r, n)
BY DEF NoEnd

(* No end up to n + 1: none up to n, and not at n + 1.                     *)
LEMMA NoEndSplit ==
  ASSUME NEW q, NEW n \in Nat
  PROVE  NoEnd(q, n + 1) <=> NoEnd(q, n) /\ q[n + 1] # END
<1>1. 1 .. (n + 1) = (1 .. n) \cup {n + 1}
  OBVIOUS
<1> QED BY <1>1 DEF NoEnd

(* Dropping a head that is not an end.                                     *)
LEMMA NoEndTail ==
  ASSUME NEW q, NEW r, NEW n \in Nat, q[1] # END,
         \A i \in 1 .. n : r[i] = q[i + 1]
  PROVE  NoEnd(r, n) <=> NoEnd(q, n + 1)
<1>1. ASSUME NoEnd(r, n), NEW j \in 1 .. (n + 1)
      PROVE  q[j] # END
  <2>1. CASE j = 1
    BY <2>1
  <2>2. CASE j # 1
    <3>1. j - 1 \in 1 .. n /\ (j - 1) + 1 = j
      BY <2>2
    <3>2. r[j - 1] = q[j]
      BY <3>1
    <3> QED BY <1>1, <3>1, <3>2 DEF NoEnd
  <2> QED BY <2>1, <2>2
<1>2. ASSUME NoEnd(q, n + 1), NEW j \in 1 .. n
      PROVE  r[j] # END
  <2>1. j + 1 \in 1 .. (n + 1)
    OBVIOUS
  <2> QED BY <1>2, <2>1 DEF NoEnd
<1> QED BY <1>1, <1>2 DEF NoEnd

-----------------------------------------------------------------------------
(* What a step that neither sends nor receives a chunk may do to a half:   *)
(* raise flags, queue a call of end, serve a call when the reader is past  *)
(* its end, or cut the queue when the connection breaks.                   *)
Settles(k, h, t) ==
  /\ h.f \subseteq t.f
  /\ \/ t.q = h.q /\ (k \in Sockets /\ "lost" \notin h.f => "lost" \notin t.f)
     \/ k \in {"capnp", "mdcapnp"} /\ t.q = Append(h.q, END)
     \/ k \in {"capnp", "mdcapnp"} /\ ~Readable(k, t)
     \/ /\ k \notin Sockets /\ "lost" \in t.f
        /\ \E n \in 0 .. Len(h.q) : t.q = SubSeq(h.q, 1, n)

(* Such a step keeps a half in order.                                      *)
LEMMA SettlesInOrder ==
  ASSUME NEW k \in Kinds, NEW h \in Half, NEW t \in Half,
         NEW a \in Nat, NEW g \in Nat,
         HalfInOrder(k, h, a, g), Settles(k, h, t)
  PROVE  HalfInOrder(k, t, a, g)
<1>1. Readable(k, t) => Readable(k, h)
  BY DEF Settles, Readable
<1>2. CASE t.q = h.q /\ (k \in Sockets /\ "lost" \notin h.f => "lost" \notin t.f)
  BY <1>1, <1>2 DEF Settles, HalfInOrder
<1>3. CASE k \in {"capnp", "mdcapnp"} /\ t.q = Append(h.q, END)
  <2> USE DEF Sockets
  <2>1. Len(t.q) = Len(h.q) + 1 /\ t.q[Len(t.q)] = END
        /\ \A i \in 1 .. Len(h.q) : t.q[i] = h.q[i]
    BY <1>3 DEF Half, END
  <2>2. ~NoEnd(t.q, Len(t.q))
    BY <2>1 DEF NoEnd, Half
  <2>3. ASSUME NEW i \in 1 .. Len(t.q), Readable(k, t), NoEnd(t.q, i)
        PROVE  t.q[i] = a + i
    <3>1. i \in 1 .. Len(h.q)
      BY <2>1, <2>2, <2>3 DEF Half
    <3>2. NoEnd(h.q, i)
      BY <2>1, <2>3, <3>1, NoEndAgree DEF Half
    <3> QED BY <1>1, <2>1, <2>3, <3>1, <3>2 DEF HalfInOrder
  <2> QED BY <1>3, <2>2, <2>3 DEF HalfInOrder
<1>4. CASE k \in {"capnp", "mdcapnp"} /\ ~Readable(k, t)
  BY <1>4 DEF HalfInOrder, Sockets
<1>5. CASE /\ k \notin Sockets /\ "lost" \in t.f
           /\ \E n \in 0 .. Len(h.q) : t.q = SubSeq(h.q, 1, n)
  <2>1. PICK n \in 0 .. Len(h.q) : t.q = SubSeq(h.q, 1, n)
    BY <1>5
  <2>2. Len(t.q) = n /\ \A i \in 1 .. n : t.q[i] = h.q[i]
    BY <2>1 DEF Half
  <2>3. \A i \in 1 .. n : NoEnd(t.q, i) <=> NoEnd(h.q, i)
    BY <2>2, NoEndAgree
  <2>4. NoEnd(h.q, Len(h.q)) => NoEnd(t.q, n)
    <3> SUFFICES ASSUME NoEnd(h.q, Len(h.q)), NEW i \in 1 .. n
                 PROVE  t.q[i] # END
      BY DEF NoEnd
    <3>1. i \in 1 .. Len(h.q)
      BY DEF Half
    <3> QED BY <2>2, <3>1 DEF NoEnd
  <2> QED BY <1>1, <1>5, <2>2, <2>3, <2>4 DEF HalfInOrder, Half
<1> QED BY <1>2, <1>3, <1>4, <1>5 DEF Settles

(* A reader that is given a chunk gets the next one, and the rest of the   *)
(* half is in order after it.                                              *)
LEMMA PopInOrder ==
  ASSUME NEW k \in Kinds, NEW h \in Half, NEW a \in Nat, NEW g \in Nat,
         HalfInOrder(k, h, a, g), Readable(k, h), h.q # <<>>, Head(h.q) # END
  PROVE  /\ Head(h.q) = a + 1
         /\ HalfInOrder(k, [q |-> Tail(h.q), f |-> h.f], a + 1, g)
<1> DEFINE t == [q |-> Tail(h.q), f |-> h.f]
<1>1. /\ Len(h.q) \in Nat /\ Len(h.q) >= 1 /\ Head(h.q) = h.q[1]
      /\ t.q \in Seq(Nat) /\ Len(t.q) = Len(h.q) - 1
      /\ \A i \in 1 .. Len(t.q) : t.q[i] = h.q[i + 1]
  BY DEF Half
<1>2. h.q[1] = a + 1
  <2>1. NoEnd(h.q, 1)
    BY <1>1 DEF NoEnd
  <2> QED BY <1>1, <2>1 DEF HalfInOrder
<1>3. \A i \in 0 .. Len(t.q) : NoEnd(t.q, i) <=> NoEnd(h.q, i + 1)
  <2> SUFFICES ASSUME NEW i \in 0 .. Len(t.q)
               PROVE  NoEnd(t.q, i) <=> NoEnd(h.q, i + 1)
    OBVIOUS
  <2>1. \A j \in 1 .. i : t.q[j] = h.q[j + 1]
    BY <1>1
  <2>2. h.q[1] # END /\ i \in Nat
    BY <1>1
  <2> HIDE DEF t
  <2> QED BY <2>1, <2>2, NoEndTail
<1>4. NoEnd(h.q, Len(h.q)) <=> NoEnd(t.q, Len(t.q))
  <2> HIDE DEF t
  <2>1. Len(t.q) + 1 = Len(h.q) /\ Len(t.q) \in 0 .. Len(t.q)
    BY <1>1
  <2> QED BY <1>3, <2>1
<1>5. Readable(k, t)
  BY DEF Readable
<1>6. \A i \in 1 .. Len(t.q) : NoEnd(t.q, i) => t.q[i] = (a + 1) + i
  BY <1>1, <1>3 DEF HalfInOrder
<1>7. "lost" \notin t.f /\ NoEnd(t.q, Len(t.q)) => g = (a + 1) + Len(t.q)
  <2>1. t.f = h.f
    OBVIOUS
  <2> HIDE DEF t
  <2>2. "lost" \notin h.f /\ NoEnd(h.q, Len(h.q)) => g = a + Len(h.q)
    BY DEF HalfInOrder
  <2>3. a + Len(h.q) = (a + 1) + Len(t.q)
    <3>1. Len(h.q) \in Nat /\ Len(t.q) = Len(h.q) - 1
      BY <1>1
    <3>2. \A x \in Nat : \A y : y = x - 1 => a + x = (a + 1) + y
      OBVIOUS
    <3> QED BY <3>1, <3>2
  <2> QED BY <1>4, <2>1, <2>2, <2>3
<1>8. HalfInOrder(k, t, a + 1, g)
  <2> HIDE DEF t
  <2>1. t.f = h.f
    BY DEF t
  <2> QED BY <1>4, <1>5, <1>6, <1>7, <2>1 DEF HalfInOrder
<1> QED BY <1>1, <1>2, <1>8

(* A chunk put into a half whose connection is whole goes behind the ones  *)
(* already given.                                                          *)
LEMMA PutInOrder ==
  ASSUME NEW k \in Kinds, NEW h \in Half, NEW a \in Nat, NEW g \in Nat,
         HalfInOrder(k, h, a, g), "lost" \notin h.f
  PROVE  HalfInOrder(k, [q |-> Append(h.q, g + 1), f |-> h.f], a, g + 1)
<1> DEFINE t == [q |-> Append(h.q, g + 1), f |-> h.f]
<1>1. /\ Len(h.q) \in Nat /\ Len(t.q) = Len(h.q) + 1 /\ t.q[Len(t.q)] = g + 1
      /\ \A i \in 1 .. Len(h.q) : t.q[i] = h.q[i]
  BY DEF Half
<1>2. t.f = h.f /\ (Readable(k, t) <=> Readable(k, h))
  BY DEF Readable
<1> HIDE DEF t
<1>3. \A i \in 1 .. Len(h.q) : NoEnd(t.q, i) <=> NoEnd(h.q, i)
  <2> SUFFICES ASSUME NEW i \in 1 .. Len(h.q)
               PROVE  NoEnd(t.q, i) <=> NoEnd(h.q, i)
    OBVIOUS
  <2>1. i \in Nat /\ \A j \in 1 .. i : t.q[j] = h.q[j]
    BY <1>1
  <2> QED BY <2>1, NoEndAgree
<1>4. NoEnd(t.q, Len(t.q)) <=> NoEnd(h.q, Len(h.q))
  <2>1. NoEnd(t.q, Len(h.q)) <=> NoEnd(h.q, Len(h.q))
    BY <1>1, NoEndAgree
  <2>2. t.q[Len(h.q) + 1] # END
    BY <1>1 DEF END
  <2>3. NoEnd(t.q, Len(h.q) + 1) <=> NoEnd(t.q, Len(h.q)) /\ t.q[Len(h.q) + 1] # END
    BY <1>1, NoEndSplit
  <2> QED BY <1>1, <2>1, <2>2, <2>3
<1>5. Readable(k, t) /\ NoEnd(t.q, Len(t.q)) => g = a + Len(h.q)
  <2> HAVE Readable(k, t) /\ NoEnd(t.q, Len(t.q))
  <2>1. Readable(k, h) /\ NoEnd(h.q, Len(h.q))
    BY <1>2, <1>4
  <2> QED BY <2>1 DEF HalfInOrder
<1>6. ASSUME NEW i \in 1 .. Len(t.q), Readable(k, t), NoEnd(t.q, i)
      PROVE  t.q[i] = a + i
  <2>1. CASE i \in 1 .. Len(h.q)
    <3>1. Readable(k, h) /\ NoEnd(h.q, i)
      BY <1>2, <1>3, <1>6, <2>1
    <3>2. h.q[i] = a + i
      BY <2>1, <3>1 DEF HalfInOrder
    <3> QED BY <1>1, <2>1, <3>2
  <2>2. CASE i = Len(t.q)
    <3>1. g = a + Len(h.q)
      BY <1>5, <1>6, <2>2
    <3> QED BY <1>1, <2>2, <3>1
  <2> QED BY <1>1, <2>1, <2>2
<1>7. HalfInOrder(k, t, a, g + 1)
  <2>1. Readable(k, t) /\ NoEnd(t.q, Len(t.q)) => g + 1 = a + Len(t.q)
    <3>1. Len(h.q) \in Nat /\ Len(t.q) = Len(h.q) + 1
      BY <1>1
    <3>2. \A x \in Nat : g = a + x => g + 1 = a + (x + 1)
      OBVIOUS
    <3> QED BY <1>5, <3>1, <3>2
  <2>2. k \in Sockets \cup {"grpc"} => NoEnd(h.q, Len(h.q))
    BY DEF HalfInOrder
  <2>3. /\ k \in Sockets \cup {"grpc"} => NoEnd(t.q, Len(t.q))
        /\ k \in Sockets => "lost" \notin t.f
    BY <1>2, <1>4, <2>2
  <2>4. Readable(k, t) => \A i \in 1 .. Len(t.q) : NoEnd(t.q, i) => t.q[i] = a + i
    BY <1>6
  <2> QED BY <2>1, <2>3, <2>4 DEF HalfInOrder
<1> QED BY <1>7 DEF t

(* Once the reader is past its end, or the connection is lost, it no       *)
(* longer matters how many chunks its writer counts.                       *)
LEMMA GivenFree ==
  ASSUME NEW k \in Kinds, NEW h \in Half, NEW a \in Nat, NEW g \in Nat,
         NEW b \in Nat, HalfInOrder(k, h, a, g),
         ~Readable(k, h) \/ "lost" \in h.f
  PROVE  HalfInOrder(k, h, a, b)
BY DEF HalfInOrder

-----------------------------------------------------------------------------
(* A step that only raises flags, other than the one of a lost connection. *)
Quiet(s, t) ==
  /\ t \in Stream
  /\ \A e \in Dirs : /\ t[e].q = s[e].q
                     /\ s[e].f \subseteq t[e].f
                     /\ "lost" \in t[e].f => "lost" \in s[e].f

(* Such a step leaves every half in order.                                 *)
LEMMA QuietSettles ==
  ASSUME NEW k, NEW s, NEW t, Quiet(s, t)
  PROVE  t \in Stream /\ \A e \in Dirs : Settles(k, s[e], t[e])
BY DEF Quiet, Settles

(* Two such steps make one.                                                *)
LEMMA QuietTrans ==
  ASSUME NEW s, NEW t, NEW u, Quiet(s, t), Quiet(t, u)
  PROVE  Quiet(s, u)
BY DEF Quiet

(* Doing nothing is one.                                                   *)
LEMMA QuietSame ==
  ASSUME NEW s \in Stream
  PROVE  Quiet(s, s)
BY DEF Quiet

(* Raising flags on a half is one.                                         *)
LEMMA QuietMark ==
  ASSUME NEW s \in Stream, NEW d \in Dirs, NEW F \in SUBSET Flags, "lost" \notin F
  PROVE  Quiet(s, Mark(s, d, F))
<1>1. Mark(s, d, F) \in Stream
  BY MarkType
<1> QED BY <1>1 DEF Quiet, Mark, Stream, Half

(* Raising flags on both halves is one.                                    *)
LEMMA QuietMarkBoth ==
  ASSUME NEW s \in Stream, NEW F \in SUBSET Flags, "lost" \notin F
  PROVE  Quiet(s, MarkBoth(s, F))
<1>1. MarkBoth(s, F) \in Stream
  BY MarkBothType
<1> QED BY <1>1 DEF Quiet, MarkBoth, Stream, Half

(* Queueing an end after such a step keeps the halves of capnp and mdcapnp *)
(* in order.                                                               *)
LEMMA PutEndSettles ==
  ASSUME NEW k \in {"capnp", "mdcapnp"}, NEW s, NEW t, NEW d \in Dirs, Quiet(s, t)
  PROVE  /\ Put(t, d, END) \in Stream
         /\ \A e \in Dirs : Settles(k, s[e], Put(t, d, END)[e])
<1>1. t \in Stream /\ END \in Nat
  BY DEF Quiet, END
<1>2. Put(t, d, END) \in Stream
  BY <1>1, PutType
<1>3. /\ Put(t, d, END)[d] = [q |-> Append(t[d].q, END), f |-> t[d].f]
      /\ \A e \in Dirs \ {d} : Put(t, d, END)[e] = t[e]
  BY <1>1 DEF Put, Stream
<1>4. Settles(k, s[d], Put(t, d, END)[d])
  <2>1. t[d].q = s[d].q /\ s[d].f \subseteq t[d].f
    BY DEF Quiet
  <2>2. Put(t, d, END)[d].q = Append(s[d].q, END) /\ s[d].f \subseteq Put(t, d, END)[d].f
    BY <1>3, <2>1
  <2> QED BY <2>2 DEF Settles
<1>5. \A e \in Dirs \ {d} : Settles(k, s[e], Put(t, d, END)[e])
  BY <1>3 DEF Quiet, Settles
<1> QED BY <1>2, <1>4, <1>5

-----------------------------------------------------------------------------
(* The operations of netx.Stream.                                          *)

(* CloseRead, of every kind, only raises flags.                            *)
LEMMA CloseReadQuiet ==
  ASSUME NEW k \in Kinds, NEW s \in Stream, NEW d \in Dirs
  PROVE  Quiet(s, CloseRead(k, s, d))
<1>1. Quiet(s, Mark(s, d, {"rshut"}))
  BY QuietMark DEF Flags
<1>2. Mark(s, d, {"rshut"}) \in Stream
  BY <1>1 DEF Quiet
<1>3. Quiet(Mark(s, d, {"rshut"}), Mark(Mark(s, d, {"rshut"}), "up", {"wgone"}))
  BY <1>2, QuietMark DEF Flags, Dirs
<1>4. Quiet(s, Mark(Mark(s, d, {"rshut"}), "up", {"wgone"}))
  BY <1>1, <1>3, QuietTrans
<1> QED BY <1>1, <1>4, QuietSame
        DEF CloseRead, StdCloseRead, TlsCloseRead, CapnpCloseRead, GrpcCloseRead,
            MdCloseRead, Kinds

(* CloseWrite raises flags, and that of capnp queues an end.               *)
LEMMA CloseWriteSettles ==
  ASSUME NEW k \in Kinds, NEW s \in Stream, NEW d \in Dirs
  PROVE  /\ CloseWrite(k, s, d) \in Stream
         /\ \A e \in Dirs : Settles(k, s[e], CloseWrite(k, s, d)[e])
<1>1. Quiet(s, Mark(s, d, {"wshut"}))
  BY QuietMark DEF Flags
<1>2. CASE k = "capnp"
  BY <1>1, <1>2, QuietSettles, PutEndSettles DEF CloseWrite, CapnpCloseWrite
<1>3. CASE k = "mdcapnp"
  BY <1>3, QuietSame, QuietSettles DEF CloseWrite, MdCloseWrite
<1>4. CASE k \in {"std", "grpc"}
  BY <1>1, <1>4, QuietSettles DEF CloseWrite, StdCloseWrite, GrpcCloseWrite
<1>5. CASE k = "tls"
  BY <1>1, <1>5, QuietSame, QuietSettles DEF CloseWrite, TlsCloseWrite
<1> QED BY <1>2, <1>3, <1>4, <1>5 DEF Kinds

(* Close of a TLS stream, with or without the alert, raises flags only.    *)
LEMMA TlsCloseQuiet ==
  ASSUME NEW s \in Stream, NEW o \in Dirs
  PROVE  Quiet(s, TlsAbort(s, o)) /\ Quiet(s, TlsClose(s, o))
<1>1. ASSUME NEW u \in Stream
      PROVE  Quiet(u, TlsAbort(u, o))
  <2>1. Quiet(u, Mark(u, o, {"wgone"}))
    BY QuietMark DEF Flags
  <2>2. Quiet(Mark(u, o, {"wgone"}), Mark(Mark(u, o, {"wgone"}), Opp(o), {"rgone"}))
    BY <2>1, QuietMark, OppType DEF Flags, Quiet
  <2>3. Quiet(Mark(Mark(u, o, {"wgone"}), Opp(o), {"rgone"}),
              MarkBoth(Mark(Mark(u, o, {"wgone"}), Opp(o), {"rgone"}), {"reset"}))
    BY <2>2, QuietMarkBoth DEF Flags, Quiet
  <2> QED BY <2>1, <2>2, <2>3, QuietTrans DEF TlsAbort
<1>2. Quiet(s, TlsCloseWrite(s, o))
  BY QuietMark, QuietSame DEF TlsCloseWrite, Flags
<1>3. Quiet(TlsCloseWrite(s, o), TlsClose(s, o))
  BY <1>1, <1>2 DEF TlsClose, Quiet
<1> QED BY <1>1, <1>2, <1>3, QuietTrans

(* An alert given up, and a step of the handshake, raise flags only.       *)
LEMMA TlsMarkQuiet ==
  ASSUME NEW s \in Stream, NEW d \in Dirs
  PROVE  Quiet(s, TlsAlertGivenUp(s, d)) /\ Quiet(s, TlsShake(s, d))
BY QuietMark DEF TlsAlertGivenUp, TlsShake, Flags

(* Close, up to where it may wait, raises flags and may queue an end; when *)
(* it does not wait it has queued none.                                    *)
LEMMA CloseSettles ==
  ASSUME NEW k \in Kinds, NEW s \in Stream, NEW o \in Dirs
  PROVE  /\ Close(k, s, o) \in Stream
         /\ \A e \in Dirs : Settles(k, s[e], Close(k, s, o)[e])
         /\ ~CloseWaits(k, s, o) => Quiet(s, Close(k, s, o))
<1> USE OppType
<1>1. CASE k = "std"
  <2>1. Quiet(s, Mark(s, o, {"wshut", "wgone"}))
    BY QuietMark DEF Flags
  <2>2. Quiet(Mark(s, o, {"wshut", "wgone"}),
              Mark(Mark(s, o, {"wshut", "wgone"}), Opp(o), {"rgone"}))
    BY <2>1, QuietMark DEF Flags, Quiet
  <2>3. Quiet(Mark(Mark(s, o, {"wshut", "wgone"}), Opp(o), {"rgone"}),
              MarkBoth(Mark(Mark(s, o, {"wshut", "wgone"}), Opp(o), {"rgone"}), {"reset"}))
    BY <2>2, QuietMarkBoth DEF Flags, Quiet
  <2>4. Quiet(s, StdClose(s, o))
    BY <2>1, <2>2, <2>3, QuietTrans DEF StdClose
  <2> QED BY <1>1, <2>4, QuietSettles DEF Close
<1>2. CASE k = "capnp"
  <2>1. Quiet(s, Mark(s, o, {"wshut"}))
    BY QuietMark DEF Flags
  <2> QED BY <1>2, <2>1, QuietSettles, PutEndSettles
          DEF Close, CapnpCloseWrite, CloseWaits
<1>3. CASE k = "grpc"
  <2>1. Quiet(s, Mark(s, Opp(o), {"rshut"}))
    BY QuietMark DEF Flags
  <2>2. Quiet(Mark(s, Opp(o), {"rshut"}), Mark(Mark(s, Opp(o), {"rshut"}), o, {"wshut"}))
    BY <2>1, QuietMark DEF Flags, Quiet
  <2>3. \A F \in SUBSET {"wgone"} :
          Quiet(Mark(Mark(s, Opp(o), {"rshut"}), o, {"wshut"}),
                Mark(Mark(Mark(s, Opp(o), {"rshut"}), o, {"wshut"}), o, F))
    <3> TAKE F \in SUBSET {"wgone"}
    <3>1. F \in SUBSET Flags /\ "lost" \notin F
      BY DEF Flags
    <3> QED BY <2>2, <3>1, QuietMark DEF Quiet
  <2>4. Quiet(s, GrpcClose(s, o))
    BY <2>1, <2>2, <2>3, QuietTrans DEF GrpcClose, GrpcCloseRead, GrpcCloseWrite
  <2> QED BY <1>3, <2>4, QuietSettles DEF Close
<1>4. CASE k = "mdcapnp"
  <2>1. Quiet(s, Mark(s, Opp(o), {"rshut"}))
    BY QuietMark DEF Flags
  <2> QED BY <1>4, <2>1, QuietSettles, PutEndSettles DEF Close, MdClose, CloseWaits
<1>5. CASE k = "tls"
  BY <1>5, TlsCloseQuiet, QuietSettles DEF Close
<1> QED BY <1>1, <1>2, <1>3, <1>4, <1>5 DEF Kinds

(* The rest of Close only raises flags.                                    *)
LEMMA CloseRestQuiet ==
  ASSUME NEW k \in Kinds, NEW s \in Stream, NEW o \in Dirs
  PROVE  Quiet(s, CloseRest(k, s, o))
<1>1. Quiet(s, CapnpCloseRead(s, Opp(o)))
  BY CloseReadQuiet, OppType DEF CloseRead, Kinds
<1>2. Quiet(CapnpCloseRead(s, Opp(o)), Mark(CapnpCloseRead(s, Opp(o)), o, {"wgone"}))
  BY <1>1, QuietMark DEF Flags, Quiet
<1> QED BY <1>1, <1>2, QuietTrans, QuietSame DEF CloseRest, CapnpCloseRest

(* The RPC systems serve a call only when that leaves no chunk behind that *)
(* could still be read: an end closes the pipe, and a chunk is refused     *)
(* only when the pipe is closed.                                           *)
LEMMA ServeSettles ==
  ASSUME NEW k \in Kinds, NEW s \in Stream, NEW d \in Dirs, Serving(k, s, d)
  PROVE  /\ Serve(k, s, d) \in Stream
         /\ \A e \in Dirs : Settles(k, s[e], Serve(k, s, d)[e])
<1>1. CASE k \in Sockets
  BY <1>1 DEF Serving, Sockets
<1>2. CASE k = "grpc"
  <2>1. Quiet(s, GrpcServe(s, d))
    BY QuietMarkBoth DEF GrpcServe, Flags
  <2> QED BY <1>2, <2>1, QuietSettles DEF Serve
<1>3. CASE k \in {"capnp", "mdcapnp"}
  <2> DEFINE F == IF Head(s[d].q) = END THEN {"eof"} ELSE {"fail"}
             p == Pop(s, d)
  <2>1. /\ s[d].q # <<>>
        /\ Head(s[d].q) = END \/ "rshut" \in s[d].f \/ "eof" \in s[d].f
    BY <1>3 DEF Serving, CapnpServing, MdServing, PipeClosed, Any
  <2>2. Serve(k, s, d) = Mark(p, d, F)
    BY <1>3 DEF Serve, CapnpServe, MdServe
  <2>3. F \in SUBSET Flags
    BY DEF Flags
  <2>4. p \in Stream
    BY <2>1, PopType
  <2>5. p[d].f = s[d].f /\ \A e \in Dirs \ {d} : p[e] = s[e]
    BY DEF Pop, Stream
  <2> HIDE DEF F, p
  <2>6. /\ Mark(p, d, F) \in Stream
        /\ Mark(p, d, F)[d].f = s[d].f \cup F
        /\ \A e \in Dirs \ {d} : Mark(p, d, F)[e] = s[e]
    BY <2>3, <2>4, <2>5, MarkType DEF Mark, Stream
  <2>7. ~Readable(k, Mark(p, d, F)[d])
    BY <1>3, <2>1, <2>6 DEF F, Readable, Sockets
  <2>8. \A e \in Dirs : Settles(k, s[e], Mark(p, d, F)[e])
    BY <1>3, <2>6, <2>7 DEF Settles
  <2> QED BY <2>2, <2>6, <2>8
<1> QED BY <1>1, <1>2, <1>3 DEF Kinds, Sockets

(* A broken connection cuts the queues of an RPC stream and nothing else.  *)
LEMMA RpcLoseSettles ==
  ASSUME NEW k \in Kinds \ Sockets, NEW s \in Stream,
         NEW ku \in 0 .. Len(s["up"].q), NEW kd \in 0 .. Len(s["dn"].q)
  PROVE  /\ RpcLose(s, ku, kd) \in Stream
         /\ \A e \in Dirs : Settles(k, s[e], RpcLose(s, ku, kd)[e])
<1>1. ASSUME NEW e \in Dirs, NEW n \in 0 .. Len(s[e].q)
      PROVE  SubSeq(s[e].q, 1, n) \in Seq(Nat)
  BY DEF Stream, Half
<1>2. \A e \in Dirs : (IF e = "up" THEN ku ELSE kd) \in 0 .. Len(s[e].q)
  BY DEF Dirs
<1>3. \A e \in Dirs :
        RpcLose(s, ku, kd)[e] = [q |-> SubSeq(s[e].q, 1, IF e = "up" THEN ku ELSE kd),
                                 f |-> s[e].f \cup {"lost"}]
  BY DEF RpcLose
<1>4. RpcLose(s, ku, kd) \in Stream
  BY <1>1, <1>2 DEF RpcLose, Stream, Half, Flags
<1>5. ASSUME NEW e \in Dirs
      PROVE  Settles(k, s[e], RpcLose(s, ku, kd)[e])
  <2>1. PICK n \in 0 .. Len(s[e].q) :
          RpcLose(s, ku, kd)[e] = [q |-> SubSeq(s[e].q, 1, n), f |-> s[e].f \cup {"lost"}]
    BY <1>2, <1>3
  <2>2. /\ RpcLose(s, ku, kd)[e].q = SubSeq(s[e].q, 1, n)
        /\ s[e].f \subseteq RpcLose(s, ku, kd)[e].f /\ "lost" \in RpcLose(s, ku, kd)[e].f
    BY <2>1
  <2> QED BY <2>2 DEF Settles
<1> QED BY <1>4, <1>5

(* A reset of a socket only raises a flag.                                 *)
LEMMA StdLoseQuiet ==
  ASSUME NEW s \in Stream
  PROVE  Quiet(s, StdLose(s))
BY QuietMarkBoth DEF StdLose, Flags

(* Read returns a chunk only from a half that can be read.                 *)
LEMMA ReadData ==
  ASSUME NEW k \in Kinds, NEW s \in Stream, NEW d \in Dirs,
         "data" \in Read(k, s, d),
         k \in Sockets \cup {"grpc"} => NoEnd(s[d].q, Len(s[d].q))
  PROVE  s[d].q # <<>> /\ Head(s[d].q) # END /\ Readable(k, s[d])
<1>1. CASE k \in Sockets
  <2>1. s[d].q # <<>> /\ "rgone" \notin s[d].f
    BY <1>1 DEF Read, StdRead, TlsRead, Any, Sockets
  <2>2. Head(s[d].q) = s[d].q[1] /\ 1 \in 1 .. Len(s[d].q)
    BY <2>1 DEF Stream, Half
  <2> QED BY <1>1, <2>1, <2>2 DEF Readable, NoEnd
<1>2. CASE k = "grpc"
  <2>1. s[d].q # <<>>
    BY <1>2 DEF Read, GrpcRecv
  <2>2. Head(s[d].q) = s[d].q[1] /\ 1 \in 1 .. Len(s[d].q)
    BY <2>1 DEF Stream, Half
  <2> QED BY <1>2, <2>1, <2>2 DEF Readable, NoEnd
<1>3. CASE k \in {"capnp", "mdcapnp"}
  BY <1>3 DEF Read, CapnpRead, MdRead, HasChunk, PipeClosed, Any, Readable
<1> QED BY <1>1, <1>2, <1>3 DEF Kinds, Sockets

(* A Write that is not refused queues the chunk on a connection that is    *)
(* whole, except that a socket answers by a reset once its reader is gone. *)
LEMMA WriteNotRefused ==
  ASSUME NEW k \in Kinds, NEW s \in Stream, NEW d \in Dirs, NEW m \in Nat,
         "ok" \in Write(k, s, d) \/ "wait" \in Write(k, s, d)
  PROVE  \/ Written(k, s, d, m) = Put(s, d, m) /\ (k \in Sockets \/ "lost" \notin s[d].f)
         \/ Quiet(s, Written(k, s, d, m)) /\ ~Readable(k, s[d])
<1>1. CASE k \in Sockets
  BY <1>1, QuietMarkBoth DEF Written, StdWritten, Any, Readable, Flags, Sockets
<1>2. CASE k \notin Sockets
  BY <1>2 DEF Write, CapnpWrite, GrpcSend, MdWrite, Written, Any, Kinds, Sockets
<1> QED BY <1>1, <1>2

(* Read returns a chunk only when there is one.                            *)
LEMMA ReadNonEmpty ==
  ASSUME NEW k \in Kinds, NEW s, NEW d, "data" \in Read(k, s, d)
  PROVE  s[d].q # <<>>
BY DEF Read, StdRead, TlsRead, CapnpRead, GrpcRecv, MdRead, HasChunk, Kinds

(* Write, of every kind, gives a stream.                                   *)
LEMMA WrittenType ==
  ASSUME NEW k \in Kinds, NEW s \in Stream, NEW d \in Dirs, NEW m \in Nat
  PROVE  Written(k, s, d, m) \in Stream
BY PutType, MarkBothType DEF Written, StdWritten, Flags

-----------------------------------------------------------------------------
(* How a half ends.                                                        *)

(* Some failure shows on a stream.                                         *)
Failed(s) == \E e \in Dirs : Any(s, e, {"reset", "lost", "fail"})

(* The writer of a half has made known that it has ended.                  *)
Closing(h) ==
  \/ h.f \cap {"wshut", "wgone", "eof"} # {}
  \/ \E i \in DOMAIN h.q : h.q[i] = END

(* The chunks given and not yet taken are all queued, before any end.      *)
Balanced(q, taken, given) ==
  \E n \in 0 .. Len(q) :
    /\ given = taken + n
    /\ \A i \in 1 .. Len(q) : q[i] = END <=> i > n

(* Nothing is missing on a half: a pipe whose end was processed has no     *)
(* chunk left before it.                                                   *)
Sound(k, h, taken, given) ==
  /\ Balanced(h.q, taken, given)
  /\ k \in {"capnp", "mdcapnp"} /\ "eof" \in h.f => \A i \in DOMAIN h.q : h.q[i] = END

(* Queue r holds nothing but ends and what q holds.                        *)
Subsumed(q, r) == \A i \in DOMAIN r : r[i] = END \/ \E j \in DOMAIN q : r[i] = q[j]

(* What a step that neither sends nor receives a chunk does to a stream:   *)
(* it raises flags, keeps or drops what is queued, and unless it fails     *)
(* nothing goes missing, only the writers of the directions in W begin to  *)
(* end their half, and only the readers of those in R shut theirs.         *)
Effects(k, s, t, W, R) ==
  /\ t \in Stream
  /\ \A e \in Dirs : s[e].f \subseteq t[e].f /\ Subsumed(s[e].q, t[e].q)
  /\ \/ Failed(t)
     \/ \A e \in Dirs :
          /\ \A a, g \in Nat : Sound(k, s[e], a, g) => Sound(k, t[e], a, g)
          /\ Closing(t[e]) => Closing(s[e]) \/ e \in W
          /\ "rshut" \in t[e].f => "rshut" \in s[e].f \/ e \in R

(* Doing nothing is such a step.                                           *)
LEMMA EffectsSame ==
  ASSUME NEW k, NEW s \in Stream, NEW W, NEW R
  PROVE  Effects(k, s, s, W, R)
BY DEF Effects, Subsumed

(* Two such steps make one.                                                *)
LEMMA EffectsTrans ==
  ASSUME NEW k, NEW s, NEW t, NEW u, NEW W, NEW R,
         Effects(k, s, t, W, R), Effects(k, t, u, W, R)
  PROVE  Effects(k, s, u, W, R)
<1>1. /\ u \in Stream
      /\ \A e \in Dirs : s[e].f \subseteq u[e].f /\ Subsumed(s[e].q, u[e].q)
  BY DEF Effects, Subsumed
<1>2. Failed(t) => Failed(u)
  BY DEF Effects, Failed, Any
<1>3. CASE Failed(u)
  BY <1>1, <1>3 DEF Effects
<1>4. CASE ~Failed(u)
  <2>1. \A e \in Dirs :
          /\ \A a, g \in Nat : Sound(k, s[e], a, g) => Sound(k, u[e], a, g)
          /\ Closing(u[e]) => Closing(s[e]) \/ e \in W
          /\ "rshut" \in u[e].f => "rshut" \in s[e].f \/ e \in R
    BY <1>2, <1>4 DEF Effects
  <2> QED BY <1>1, <2>1 DEF Effects
<1> QED BY <1>3, <1>4

(* A step with fewer effects.                                              *)
LEMMA EffectsMore ==
  ASSUME NEW k, NEW s, NEW t, NEW W, NEW R, NEW V, NEW Q,
         Effects(k, s, t, W, R), W \subseteq V, R \subseteq Q
  PROVE  Effects(k, s, t, V, Q)
BY DEF Effects

(* A step that shows a failure.                                            *)
LEMMA EffectsFailed ==
  ASSUME NEW k, NEW s, NEW t \in Stream, NEW W, NEW R, Failed(t),
         \A e \in Dirs : s[e].f \subseteq t[e].f /\ Subsumed(s[e].q, t[e].q)
  PROVE  Effects(k, s, t, W, R)
BY DEF Effects

(* Raising flags.                                                          *)
LEMMA EffectsMark ==
  ASSUME NEW k, NEW s \in Stream, NEW d \in Dirs, NEW F \in SUBSET Flags,
         NEW W, NEW R,
         F \cap {"wshut", "wgone", "eof"} # {} => d \in W,
         "rshut" \in F => d \in R,
         "eof" \in F => k \notin {"capnp", "mdcapnp"}
  PROVE  Effects(k, s, Mark(s, d, F), W, R)
<1> DEFINE t == Mark(s, d, F)
<1>1. t \in Stream
  BY MarkType
<1>2. /\ t[d].q = s[d].q /\ t[d].f = s[d].f \cup F
      /\ \A e \in Dirs \ {d} : t[e] = s[e]
  BY DEF Mark, Stream
<1> HIDE DEF t
<1>3. \A e \in Dirs : s[e].f \subseteq t[e].f /\ Subsumed(s[e].q, t[e].q)
  BY <1>2 DEF Subsumed
<1>4. ASSUME NEW e \in Dirs
      PROVE  /\ \A a, g \in Nat : Sound(k, s[e], a, g) => Sound(k, t[e], a, g)
             /\ Closing(t[e]) => Closing(s[e]) \/ e \in W
             /\ "rshut" \in t[e].f => "rshut" \in s[e].f \/ e \in R
  BY <1>2 DEF Sound, Closing
<1> QED BY <1>1, <1>3, <1>4 DEF Effects, t

(* Raising the flag of a reset.                                            *)
LEMMA EffectsReset ==
  ASSUME NEW k, NEW s \in Stream, NEW W, NEW R
  PROVE  Effects(k, s, MarkBoth(s, {"reset"}), W, R)
<1> DEFINE t == MarkBoth(s, {"reset"})
<1>1. t \in Stream
  BY MarkBothType DEF Flags
<1>2. \A e \in Dirs : t[e].q = s[e].q /\ t[e].f = s[e].f \cup {"reset"}
  BY DEF MarkBoth
<1>3. Failed(t)
  BY <1>2 DEF Failed, Any, Dirs
<1> QED BY <1>1, <1>2, <1>3, EffectsFailed DEF Subsumed

(* What is left of a queue when its head is taken.                         *)
LEMMA TailNumbers ==
  ASSUME NEW q \in Seq(Nat), q # <<>>
  PROVE  /\ 1 \in DOMAIN q /\ Head(q) = q[1]
         /\ \A i \in DOMAIN Tail(q) : i + 1 \in DOMAIN q /\ Tail(q)[i] = q[i + 1]
OBVIOUS

(* Queueing an end behind a half keeps what is missing on it.              *)
LEMMA EndSound ==
  ASSUME NEW k, NEW h \in Half, NEW a \in Nat, NEW g \in Nat, Sound(k, h, a, g)
  PROVE  Sound(k, [q |-> Append(h.q, END), f |-> h.f], a, g)
<1> DEFINE r == Append(h.q, END)
<1>1. /\ Len(h.q) \in Nat /\ Len(r) = Len(h.q) + 1 /\ r[Len(r)] = END
      /\ \A i \in 1 .. Len(h.q) : r[i] = h.q[i]
      /\ DOMAIN r = 1 .. Len(r) /\ DOMAIN h.q = 1 .. Len(h.q)
  BY DEF Half, END
<1> HIDE DEF r
<1>2. PICK n \in 0 .. Len(h.q) : /\ g = a + n
                                 /\ \A i \in 1 .. Len(h.q) : h.q[i] = END <=> i > n
  BY DEF Sound, Balanced
<1>3. n \in 0 .. Len(r) /\ \A i \in 1 .. Len(r) : r[i] = END <=> i > n
  BY <1>1, <1>2
<1>4. Balanced(r, a, g)
  BY <1>2, <1>3 DEF Balanced
<1>5. (\A i \in DOMAIN h.q : h.q[i] = END) => \A i \in DOMAIN r : r[i] = END
  BY <1>1
<1> QED BY <1>4, <1>5 DEF Sound, r

(* Queueing an end.                                                        *)
LEMMA EffectsEnd ==
  ASSUME NEW k, NEW s \in Stream, NEW d \in Dirs, NEW W, NEW R, d \in W
  PROVE  Effects(k, s, Put(s, d, END), W, R)
<1> DEFINE t == Put(s, d, END)
<1>1. t \in Stream
  BY PutType DEF END
<1>2. /\ t[d] = [q |-> Append(s[d].q, END), f |-> s[d].f]
      /\ \A e \in Dirs \ {d} : t[e] = s[e]
      /\ s[d] \in Half
  BY DEF Put, Stream
<1> HIDE DEF t
<1>3. Subsumed(s[d].q, t[d].q)
  <2>1. /\ t[d].q = Append(s[d].q, END) /\ s[d].q \in Seq(Nat)
    BY <1>2 DEF Half
  <2>2. \A i \in DOMAIN t[d].q :
          t[d].q[i] = END \/ (i \in DOMAIN s[d].q /\ t[d].q[i] = s[d].q[i])
    BY <2>1 DEF END
  <2> QED BY <2>2 DEF Subsumed
<1>4. \A e \in Dirs : s[e].f \subseteq t[e].f /\ Subsumed(s[e].q, t[e].q)
  <2>1. \A e \in Dirs \ {d} : Subsumed(s[e].q, t[e].q) /\ t[e].f = s[e].f
    BY <1>2 DEF Subsumed
  <2>2. t[d].f = s[d].f
    BY <1>2
  <2> QED BY <1>3, <2>1, <2>2
<1>5. \A a, g \in Nat : Sound(k, s[d], a, g) => Sound(k, t[d], a, g)
  BY <1>2, EndSound
<1>6. t[d].f = s[d].f
  BY <1>2
<1>7. \A e \in Dirs :
        /\ \A a, g \in Nat : Sound(k, s[e], a, g) => Sound(k, t[e], a, g)
        /\ Closing(t[e]) => Closing(s[e]) \/ e \in W
        /\ "rshut" \in t[e].f => "rshut" \in s[e].f \/ e \in R
  BY <1>2, <1>5, <1>6
<1> QED BY <1>1, <1>4, <1>7 DEF Effects, t

(* The relay reads on: the half after its head, an end, was served.        *)
LEMMA ServedSound ==
  ASSUME NEW k, NEW h \in Half, NEW a \in Nat, NEW g \in Nat, Sound(k, h, a, g),
         h.q # <<>>, Head(h.q) = END
  PROVE  Sound(k, [q |-> Tail(h.q), f |-> h.f \cup {"eof"}], a, g)
<1> DEFINE r == Tail(h.q)
<1>1. /\ Len(h.q) \in Nat \ {0} /\ Len(r) = Len(h.q) - 1 /\ h.q[1] = END
      /\ \A i \in 1 .. Len(r) : r[i] = h.q[i + 1]
      /\ DOMAIN r = 1 .. Len(r)
  BY DEF Half
<1> HIDE DEF r
<1>2. PICK n \in 0 .. Len(h.q) : /\ g = a + n
                                 /\ \A i \in 1 .. Len(h.q) : h.q[i] = END <=> i > n
  BY DEF Sound, Balanced
<1>3. n = 0
  BY <1>1, <1>2
<1>4. \A i \in 1 .. Len(r) : r[i] = END
  <2> TAKE i \in 1 .. Len(r)
  <2>1. i + 1 \in 1 .. Len(h.q) /\ i + 1 > 0
    BY <1>1
  <2> QED BY <1>1, <1>2, <1>3, <2>1
<1>5. Balanced(r, a, g)
  BY <1>1, <1>2, <1>3, <1>4 DEF Balanced
<1> QED BY <1>1, <1>4, <1>5 DEF Sound, r

(* An end is served: the pipe is closed.                                   *)
LEMMA EffectsServed ==
  ASSUME NEW k, NEW s \in Stream, NEW d \in Dirs, s[d].q # <<>>, Head(s[d].q) = END
  PROVE  Effects(k, s, Mark(Pop(s, d), d, {"eof"}), {}, {})
<1> DEFINE t == Mark(Pop(s, d), d, {"eof"})
<1>1. Pop(s, d) \in Stream
  BY PopType
<1>2. t \in Stream
  BY <1>1, MarkType DEF Flags
<1>3. /\ t[d] = [q |-> Tail(s[d].q), f |-> s[d].f \cup {"eof"}]
      /\ \A e \in Dirs \ {d} : t[e] = s[e]
      /\ s[d] \in Half
  BY DEF Mark, Pop, Stream
<1> HIDE DEF t
<1>4. Subsumed(s[d].q, t[d].q)
  <2>1. t[d].q = Tail(s[d].q) /\ s[d].q \in Seq(Nat) /\ s[d].q # <<>>
    BY <1>3 DEF Half
  <2>2. \A i \in DOMAIN t[d].q : i + 1 \in DOMAIN s[d].q /\ t[d].q[i] = s[d].q[i + 1]
    BY <2>1
  <2> QED BY <2>2 DEF Subsumed
<1>5. \A e \in Dirs : s[e].f \subseteq t[e].f /\ Subsumed(s[e].q, t[e].q)
  BY <1>3, <1>4 DEF Subsumed
<1>6. \A a, g \in Nat : Sound(k, s[d], a, g) => Sound(k, t[d], a, g)
  BY <1>3, ServedSound
<1>7. Closing(s[d])
  <2>1. 1 \in DOMAIN s[d].q /\ s[d].q[1] = END
    BY <1>3 DEF Half
  <2> QED BY <2>1 DEF Closing
<1>8. "rshut" \in t[d].f => "rshut" \in s[d].f
  BY <1>3
<1>9. \A e \in Dirs :
        /\ \A a, g \in Nat : Sound(k, s[e], a, g) => Sound(k, t[e], a, g)
        /\ Closing(t[e]) => Closing(s[e]) \/ e \in {}
        /\ "rshut" \in t[e].f => "rshut" \in s[e].f \/ e \in {}
  BY <1>3, <1>6, <1>7, <1>8
<1> QED BY <1>2, <1>5, <1>9 DEF Effects, t

(* CloseRead shuts the half for its reader; that of the client's capnp     *)
(* stream also drops the capability to write (byteStreamReader.Close).     *)
LEMMA CloseReadEffects ==
  ASSUME NEW k \in Kinds, NEW s \in Stream, NEW d \in Dirs
  PROVE  Effects(k, s, CloseRead(k, s, d), IF d = "dn" THEN {"up"} ELSE {}, {d})
<1> DEFINE t == Mark(s, d, {"rshut"})
           W == IF d = "dn" THEN {"up"} ELSE {}
<1>1. Effects(k, s, t, W, {d})
  BY EffectsMark DEF Flags
<1>2. t \in Stream
  BY <1>1 DEF Effects
<1>3. d = "dn" => Effects(k, t, Mark(t, "up", {"wgone"}), W, {d})
  BY <1>2, EffectsMark DEF Flags, Dirs
<1>4. d = "dn" => Effects(k, s, Mark(t, "up", {"wgone"}), W, {d})
  BY <1>1, <1>3, EffectsTrans
<1>5. Effects(k, s, s, W, {d})
  BY EffectsSame
<1> QED BY <1>1, <1>4, <1>5
        DEF CloseRead, StdCloseRead, TlsCloseRead, CapnpCloseRead, GrpcCloseRead,
            MdCloseRead, Kinds

(* CloseWrite begins to end the half it writes.                            *)
LEMMA CloseWriteEffects ==
  ASSUME NEW k \in Kinds, NEW s \in Stream, NEW d \in Dirs
  PROVE  Effects(k, s, CloseWrite(k, s, d), {d}, {})
<1> DEFINE t == Mark(s, d, {"wshut"})
<1>1. Effects(k, s, t, {d}, {})
  BY EffectsMark DEF Flags
<1>2. t \in Stream
  BY <1>1 DEF Effects
<1>3. Effects(k, t, Put(t, d, END), {d}, {})
  BY <1>2, EffectsEnd
<1>4. Effects(k, s, Put(t, d, END), {d}, {})
  BY <1>1, <1>3, EffectsTrans
<1>5. Effects(k, s, s, {d}, {})
  BY EffectsSame
<1> QED BY <1>1, <1>4, <1>5
        DEF CloseWrite, StdCloseWrite, TlsCloseWrite, CapnpCloseWrite, GrpcCloseWrite,
            MdCloseWrite, Kinds

(* Closing the connection below TLS.                                       *)
LEMMA TlsAbortEffects ==
  ASSUME NEW k, NEW s \in Stream, NEW o \in Dirs
  PROVE  Effects(k, s, TlsAbort(s, o), {o}, {})
<1> DEFINE t == Mark(s, o, {"wgone"})
           u == Mark(t, Opp(o), {"rgone"})
<1>1. Effects(k, s, t, {o}, {})
  BY EffectsMark DEF Flags
<1>2. t \in Stream /\ Opp(o) \in Dirs
  BY <1>1, OppType DEF Effects
<1>3. Effects(k, t, u, {o}, {})
  <2> HIDE DEF t
  <2> QED BY <1>2, EffectsMark DEF Flags
<1>4. u \in Stream
  <2> HIDE DEF t, u
  <2> QED BY <1>3 DEF Effects
<1>5. Effects(k, u, MarkBoth(u, {"reset"}), {o}, {})
  BY <1>4, EffectsReset
<1>6. Effects(k, s, u, {o}, {}) /\ Effects(k, s, MarkBoth(u, {"reset"}), {o}, {})
  BY <1>1, <1>3, <1>5, EffectsTrans
<1> QED BY <1>6 DEF TlsAbort

(* Closing a socket.                                                       *)
LEMMA StdCloseEffects ==
  ASSUME NEW k, NEW s \in Stream, NEW o \in Dirs
  PROVE  Effects(k, s, StdClose(s, o), {o}, {}) /\ "wshut" \in StdClose(s, o)[o].f
<1> DEFINE t == Mark(s, o, {"wshut", "wgone"})
           u == Mark(t, Opp(o), {"rgone"})
<1>1. Effects(k, s, t, {o}, {})
  BY EffectsMark DEF Flags
<1>2. t \in Stream /\ Opp(o) \in Dirs
  BY <1>1, OppType DEF Effects
<1>3. Effects(k, t, u, {o}, {})
  <2> HIDE DEF t
  <2> QED BY <1>2, EffectsMark DEF Flags
<1>4. u \in Stream
  <2> HIDE DEF t, u
  <2> QED BY <1>3 DEF Effects
<1>5. Effects(k, u, MarkBoth(u, {"reset"}), {o}, {})
  BY <1>4, EffectsReset
<1>6. Effects(k, s, u, {o}, {}) /\ Effects(k, s, MarkBoth(u, {"reset"}), {o}, {})
  BY <1>1, <1>3, <1>5, EffectsTrans
<1>7. "wshut" \in t[o].f
  BY DEF Mark, Stream
<1>8. "wshut" \in u[o].f
  <2> HIDE DEF t
  <2> QED BY <1>3, <1>7 DEF Effects
<1>9. "wshut" \in MarkBoth(u, {"reset"})[o].f
  <2> HIDE DEF u
  <2> QED BY <1>8 DEF MarkBoth
<1> QED BY <1>6, <1>8, <1>9 DEF StdClose

(* Close begins to end the half the endpoint writes, and shuts the other.  *)
LEMMA CloseEffects ==
  ASSUME NEW k \in Kinds, NEW s \in Stream, NEW o \in Dirs
  PROVE  Effects(k, s, Close(k, s, o), {o}, {Opp(o)})
<1> DEFINE R == {Opp(o)}
<1>1. CASE k = "std"
  BY <1>1, StdCloseEffects, EffectsMore DEF Close
<1>2. CASE k = "tls"
  <2> DEFINE t == TlsCloseWrite(s, o)
  <2>1. Effects(k, s, t, {o}, {})
    BY <1>2, CloseWriteEffects DEF CloseWrite
  <2>2. Effects(k, t, TlsAbort(t, o), {o}, {})
    BY <2>1, TlsAbortEffects DEF Effects
  <2>3. Effects(k, s, TlsAbort(t, o), {o}, R)
    BY <2>1, <2>2, EffectsTrans, EffectsMore
  <2> QED BY <1>2, <2>3 DEF Close, TlsClose
<1>3. CASE k = "capnp"
  <2>1. Effects(k, s, CloseWrite(k, s, o), {o}, R)
    BY CloseWriteEffects, EffectsMore
  <2> QED BY <1>3, <2>1 DEF Close, CloseWrite
<1>4. CASE k = "grpc"
  <2> DEFINE t == Mark(s, Opp(o), {"rshut"})
             u == Mark(t, o, {"wshut"})
  <2>1. Effects(k, s, t, {o}, R)
    BY EffectsMark, OppType DEF Flags
  <2>2. Effects(k, t, u, {o}, R)
    <3>1. t \in Stream
      BY <2>1 DEF Effects
    <3> HIDE DEF t, R
    <3> QED BY <3>1, EffectsMark DEF Flags
  <2>3. \A F \in SUBSET {"wgone"} : Effects(k, u, Mark(u, o, F), {o}, R)
    <3> TAKE F \in SUBSET {"wgone"}
    <3>1. F \in SUBSET Flags /\ "rshut" \notin F /\ "eof" \notin F
      BY DEF Flags
    <3>2. u \in Stream
      BY <2>2 DEF Effects
    <3> HIDE DEF u
    <3> QED BY <3>1, <3>2, EffectsMark
  <2>4. \A F \in SUBSET {"wgone"} : Effects(k, s, Mark(u, o, F), {o}, R)
    BY <2>1, <2>2, <2>3, EffectsTrans
  <2> QED BY <1>4, <2>4 DEF Close, GrpcClose, GrpcCloseRead, GrpcCloseWrite
<1>5. CASE k = "mdcapnp"
  <2> DEFINE t == Mark(s, Opp(o), {"rshut"})
  <2>1. Effects(k, s, t, {o}, R)
    BY EffectsMark, OppType DEF Flags
  <2>2. Effects(k, t, Put(t, o, END), {o}, R)
    <3>1. t \in Stream
      BY <2>1 DEF Effects
    <3> QED BY <3>1, EffectsEnd
  <2>3. Effects(k, s, Put(t, o, END), {o}, R)
    BY <2>1, <2>2, EffectsTrans
  <2> QED BY <1>5, <2>1, <2>3 DEF Close, MdClose
<1> QED BY <1>1, <1>2, <1>3, <1>4, <1>5 DEF Kinds

(* So does the rest of Close.                                              *)
LEMMA CloseRestEffects ==
  ASSUME NEW k \in Kinds, NEW s \in Stream, NEW o \in Dirs
  PROVE  Effects(k, s, CloseRest(k, s, o), {o}, {Opp(o)})
<1>1. CASE k = "capnp"
  <2> DEFINE t == CapnpCloseRead(s, Opp(o))
  <2>1. Effects(k, s, t, IF Opp(o) = "dn" THEN {"up"} ELSE {}, {Opp(o)})
    BY <1>1, CloseReadEffects, OppType DEF CloseRead
  <2>2. (IF Opp(o) = "dn" THEN {"up"} ELSE {}) \subseteq {o}
    BY DEF Opp, Dirs
  <2>3. Effects(k, s, t, {o}, {Opp(o)})
    BY <2>1, <2>2, EffectsMore
  <2>4. Effects(k, t, Mark(t, o, {"wgone"}), {o}, {Opp(o)})
    BY <2>3, EffectsMark DEF Flags, Effects
  <2> QED BY <1>1, <2>3, <2>4, EffectsTrans DEF CloseRest, CapnpCloseRest
<1>2. CASE k # "capnp"
  BY <1>2, EffectsSame DEF CloseRest
<1> QED BY <1>1, <1>2

(* The RPC systems serve an end only after all that came before it, and    *)
(* fail when they drop a chunk; the gRPC handler returns after the         *)
(* server's Close only, and ends the call in both directions.              *)
LEMMA ServeEffects ==
  ASSUME NEW k \in Kinds, NEW s \in Stream, NEW d \in Dirs, Serving(k, s, d)
  PROVE  /\ Effects(k, s, Serve(k, s, d), IF k = "grpc" THEN Dirs ELSE {}, {})
         /\ k = "grpc" => Closing(s["dn"])
<1>1. CASE k \in Sockets
  BY <1>1 DEF Serving, Sockets
<1>2. CASE k = "grpc"
  <2> DEFINE t == MarkBoth(s, {"eof"})
  <2>1. t \in Stream /\ \A e \in Dirs : t[e].q = s[e].q /\ t[e].f = s[e].f \cup {"eof"}
    BY MarkBothType DEF MarkBoth, Flags
  <2> HIDE DEF t
  <2>2. \A e \in Dirs : s[e].f \subseteq t[e].f /\ Subsumed(s[e].q, t[e].q)
    BY <2>1 DEF Subsumed
  <2>3. \A e \in Dirs : \A a, g \in Nat : Sound(k, s[e], a, g) => Sound(k, t[e], a, g)
    BY <1>2, <2>1 DEF Sound
  <2>4. Effects(k, s, t, Dirs, {})
    BY <2>1, <2>2, <2>3 DEF Effects
  <2>5. Closing(s["dn"])
    BY <1>2 DEF Serving, GrpcServing, Any, Closing, Sockets
  <2> QED BY <1>2, <2>4, <2>5 DEF Serve, GrpcServe, t
<1>3. CASE k \in {"capnp", "mdcapnp"}
  <2>1. s[d].q # <<>>
    BY <1>3 DEF Serving, CapnpServing, MdServing, Sockets
  <2>2. Serve(k, s, d) = Mark(Pop(s, d), d, IF Head(s[d].q) = END THEN {"eof"} ELSE {"fail"})
    BY <1>3 DEF Serve, CapnpServe, MdServe
  <2>3. CASE Head(s[d].q) = END
    BY <1>3, <2>1, <2>2, <2>3, EffectsServed
  <2>4. CASE Head(s[d].q) # END
    <3> DEFINE t == Mark(Pop(s, d), d, {"fail"})
    <3>1. t \in Stream
      BY <2>1, PopType, MarkType DEF Flags
    <3>2. /\ t[d] = [q |-> Tail(s[d].q), f |-> s[d].f \cup {"fail"}]
          /\ \A e \in Dirs \ {d} : t[e] = s[e]
      BY DEF Mark, Pop, Stream
    <3> HIDE DEF t
    <3>3. Failed(t)
      <4>1. "fail" \in t[d].f
        BY <3>2
      <4> QED BY <4>1 DEF Failed, Any
    <3>4. \A i \in DOMAIN t[d].q : i + 1 \in DOMAIN s[d].q /\ t[d].q[i] = s[d].q[i + 1]
      <4>1. t[d].q = Tail(s[d].q) /\ s[d].q \in Seq(Nat)
        BY <3>2 DEF Stream, Half
      <4> QED BY <2>1, <4>1, TailNumbers
    <3>5. \A e \in Dirs : s[e].f \subseteq t[e].f /\ Subsumed(s[e].q, t[e].q)
      <4>1. Subsumed(s[d].q, t[d].q)
        BY <3>4 DEF Subsumed
      <4>2. \A e \in Dirs \ {d} : Subsumed(s[e].q, t[e].q)
        BY <3>2 DEF Subsumed
      <4>3. t[d].f = s[d].f \cup {"fail"}
        BY <3>2
      <4>4. \A e \in Dirs \ {d} : t[e].f = s[e].f
        BY <3>2
      <4>5. \A e \in Dirs : Subsumed(s[e].q, t[e].q)
        BY <4>1, <4>2
      <4>6. \A e \in Dirs : s[e].f \subseteq t[e].f
        BY <4>3, <4>4
      <4> QED BY <4>5, <4>6
    <3> QED BY <1>3, <2>2, <2>4, <3>1, <3>3, <3>5, EffectsFailed DEF t
  <2> QED BY <2>3, <2>4
<1> QED BY <1>1, <1>2, <1>3 DEF Kinds, Sockets

(* The TLS handshake ends nothing; an alert given up is a failure.         *)
LEMMA TlsMarkEffects ==
  ASSUME NEW k, NEW s \in Stream, NEW d \in Dirs
  PROVE  Effects(k, s, TlsShake(s, d), {}, {}) /\ Effects(k, s, TlsAlertGivenUp(s, d), {}, {})
BY EffectsMark DEF TlsShake, TlsAlertGivenUp, Flags

(* A connection that breaks is a failure.                                  *)
LEMMA LoseEffects ==
  ASSUME NEW k, NEW s \in Stream
  PROVE  /\ Effects(k, s, StdLose(s), {}, {})
         /\ \A ku \in 0 .. Len(s["up"].q), kd \in 0 .. Len(s["dn"].q) :
              k \in Kinds \ Sockets => Effects(k, s, RpcLose(s, ku, kd), {}, {})
<1>1. Effects(k, s, StdLose(s), {}, {})
  BY EffectsReset DEF StdLose
<1>2. ASSUME NEW ku \in 0 .. Len(s["up"].q), NEW kd \in 0 .. Len(s["dn"].q),
             k \in Kinds \ Sockets
      PROVE  Effects(k, s, RpcLose(s, ku, kd), {}, {})
  <2> DEFINE t == RpcLose(s, ku, kd)
  <2>1. t \in Stream
    BY <1>2, RpcLoseSettles
  <2>2. \A e \in Dirs : \E n \in 0 .. Len(s[e].q) :
          t[e].q = SubSeq(s[e].q, 1, n) /\ t[e].f = s[e].f \cup {"lost"}
    BY DEF RpcLose, Dirs
  <2> HIDE DEF t
  <2>3. ASSUME NEW e \in Dirs
        PROVE  Subsumed(s[e].q, t[e].q)
    <3>1. PICK n \in 0 .. Len(s[e].q) : t[e].q = SubSeq(s[e].q, 1, n)
      BY <2>2
    <3>2. s[e].q \in Seq(Nat)
      BY DEF Stream, Half
    <3>3. \A i \in DOMAIN t[e].q : i \in DOMAIN s[e].q /\ t[e].q[i] = s[e].q[i]
      BY <3>1, <3>2
    <3> QED BY <3>3 DEF Subsumed
  <2>4. Failed(t)
    BY <2>2 DEF Failed, Any, Dirs
  <2> QED BY <2>1, <2>2, <2>3, <2>4, EffectsFailed DEF t
<1> QED BY <1>1, <1>2

(* Taking a chunk leaves nothing missing.                                  *)
LEMMA PopSound ==
  ASSUME NEW k, NEW h \in Half, NEW a \in Nat, NEW g \in Nat, Sound(k, h, a, g),
         h.q # <<>>, Head(h.q) # END
  PROVE  Sound(k, [q |-> Tail(h.q), f |-> h.f], a + 1, g)
<1> DEFINE r == Tail(h.q)
<1>1. /\ Len(h.q) \in Nat \ {0} /\ Len(r) = Len(h.q) - 1 /\ h.q[1] # END
      /\ \A i \in 1 .. Len(r) : r[i] = h.q[i + 1]
      /\ DOMAIN r = 1 .. Len(r) /\ DOMAIN h.q = 1 .. Len(h.q)
  BY DEF Half
<1> HIDE DEF r
<1>2. PICK n \in 0 .. Len(h.q) : /\ g = a + n
                                 /\ \A i \in 1 .. Len(h.q) : h.q[i] = END <=> i > n
  BY DEF Sound, Balanced
<1>3. n - 1 \in 0 .. Len(r) /\ g = (a + 1) + (n - 1)
  <2>1. 1 \in 1 .. Len(h.q) /\ n \in Nat /\ n <= Len(h.q)
    BY <1>1
  <2>2. ~(1 > n)
    BY <1>1, <1>2, <2>1
  <2>3. Len(r) = Len(h.q) - 1 /\ Len(h.q) \in Nat /\ g = a + n
    BY <1>1, <1>2
  <2> QED BY <2>1, <2>2, <2>3
<1>4. ASSUME NEW i \in 1 .. Len(r)
      PROVE  r[i] = END <=> i > n - 1
  <2>1. i + 1 \in 1 .. Len(h.q) /\ r[i] = h.q[i + 1]
    BY <1>1
  <2>2. h.q[i + 1] = END <=> i + 1 > n
    BY <1>2, <2>1
  <2> QED BY <2>1, <2>2
<1>5. Balanced(r, a + 1, g)
  BY <1>3, <1>4 DEF Balanced
<1>6. k \in {"capnp", "mdcapnp"} => "eof" \notin h.f
  BY <1>1 DEF Sound
<1> QED BY <1>5, <1>6 DEF Sound, r

(* Queueing a chunk before the half begins to end leaves nothing missing.  *)
LEMMA PutSound ==
  ASSUME NEW k, NEW h \in Half, NEW a \in Nat, NEW g \in Nat, Sound(k, h, a, g),
         ~Closing(h), NEW m \in Nat \ {END}
  PROVE  Sound(k, [q |-> Append(h.q, m), f |-> h.f], a, g + 1)
<1> DEFINE r == Append(h.q, m)
<1>1. /\ Len(h.q) \in Nat /\ Len(r) = Len(h.q) + 1 /\ r[Len(r)] = m
      /\ \A i \in 1 .. Len(h.q) : r[i] = h.q[i]
      /\ DOMAIN h.q = 1 .. Len(h.q)
  BY DEF Half
<1> HIDE DEF r
<1>2. PICK n \in 0 .. Len(h.q) : /\ g = a + n
                                 /\ \A i \in 1 .. Len(h.q) : h.q[i] = END <=> i > n
  BY DEF Sound, Balanced
<1>3. n = Len(h.q)
  <2>1. CASE n # Len(h.q)
    <3>1. Len(h.q) \in 1 .. Len(h.q) /\ Len(h.q) > n
      BY <1>1, <1>2, <2>1
    <3> QED BY <1>1, <1>2, <3>1 DEF Closing
  <2> QED BY <2>1
<1>4. n + 1 \in 0 .. Len(r) /\ g + 1 = a + (n + 1)
  BY <1>1, <1>2
<1>5. \A i \in 1 .. Len(r) : r[i] = END <=> i > n + 1
  <2>1. \A i \in 1 .. Len(h.q) : r[i] # END
    BY <1>1, <1>2, <1>3
  <2> QED BY <1>1, <1>3, <2>1
<1>6. Balanced(r, a, g + 1)
  BY <1>4, <1>5 DEF Balanced
<1>7. "eof" \notin h.f
  BY DEF Closing
<1> QED BY <1>6, <1>7 DEF Sound, r

(* Who reads the end of a half that its reader has not shut has read all   *)
(* it was given, after its writer has made known that it has ended.        *)
LEMMA ReadEof ==
  ASSUME NEW k \in Kinds, NEW s \in Stream, NEW d \in Dirs, NEW a \in Nat, NEW g \in Nat,
         Sound(k, s[d], a, g), "rshut" \notin s[d].f, "eof" \in Read(k, s, d)
  PROVE  a = g /\ Closing(s[d])
<1> DEFINE h == s[d]
<1>1. h.q \in Seq(Nat) /\ DOMAIN h.q = 1 .. Len(h.q) /\ Len(h.q) \in Nat
  BY DEF Stream, Half
<1>2. PICK n \in 0 .. Len(h.q) : /\ g = a + n
                                 /\ \A i \in 1 .. Len(h.q) : h.q[i] = END <=> i > n
  BY DEF Sound, Balanced
<1>3. ASSUME \A i \in DOMAIN h.q : h.q[i] = END
      PROVE  a = g
  <2>1. n = 0
    <3>1. CASE n # 0
      <4>1. 1 \in 1 .. Len(h.q) /\ ~(1 > n)
        BY <1>1, <1>2, <3>1
      <4> QED BY <1>1, <1>2, <1>3, <4>1
    <3> QED BY <3>1
  <2> QED BY <1>2, <2>1
<1>4. h.q = <<>> => \A i \in DOMAIN h.q : h.q[i] = END
  BY <1>1
<1>5. CASE k \in Sockets \cup {"grpc"}
  <2>1. h.q = <<>> /\ h.f \cap {"wshut", "wgone", "eof"} # {}
    BY <1>5 DEF Read, StdRead, TlsRead, GrpcRecv, Any, Sockets
  <2> QED BY <1>3, <1>4, <2>1 DEF Closing
<1>6. CASE k \in {"capnp", "mdcapnp"}
  <2>1. "eof" \in h.f
    BY <1>6 DEF Read, CapnpRead, PipeClosed, MdRead, Any
  <2>2. \A i \in DOMAIN h.q : h.q[i] = END
    BY <1>6, <2>1 DEF Sound
  <2> QED BY <1>3, <2>1, <2>2 DEF Closing
<1> QED BY <1>5, <1>6 DEF Kinds, Sockets

=============================================================================
