--------------------------- MODULE SessionProofs ----------------------------
(***************************************************************************)
(* Proofs about Session, for every set of channels and every bound: type   *)
(* correctness, that a closed link is silent, that the PTYs agree with the *)
(* MCUs once everything said has been heard, and that what a PTY is fed    *)
(* between two breaks is contiguous.                                       *)
(*                                                                         *)
(* PtyAgrees speaks of moments when the pipe is empty.  The strengthening  *)
(* says what makes them good: while the exporter's link is up, the latest  *)
(* frame in the pipe that decides a PTY's state carries the MCU's current  *)
(* state (Latest), and when none is left the host has applied it already,  *)
(* unless the host is about to ask again (Heard).                          *)
(*                                                                         *)
(* PtyStreamContiguous compares two successive items.  Contiguous follows  *)
(* all that are on their way: each is the successor of the one before it   *)
(* (Chain), the last is the MCU's latest (Ends), or else there is a frame  *)
(* between that makes the host close the PTY.                              *)
(***************************************************************************)
EXTENDS Session, TLAPS

\* f decides whether the PTY of channel c is open.
Decides(f, c) ==
    \/ f.ftype \in {"F_HELLO", "F_ACK"}
    \/ f.ftype \in {"F_READY", "F_FLUSH"} /\ f.channel = c

Undecided(q, c) == \A i \in 1..Len(q) : ~Decides(q[i], c)

\* The latest frame of q that decides about c, if there is one, is f.
LatestIs(q, c, f) ==
    \A i \in 1..Len(q) :
        Decides(q[i], c) => q[i] = f \/ \E j \in (i + 1)..Len(q) : Decides(q[j], c)

HelloIn(q) == \E i \in 1..Len(q) : q[i].ftype = "F_HELLO"

Latest(c) ==
    link_up["exporter"] =>
        /\ LatestIs(txq["exporter"], c, Status(c))
        /\ Undecided(txq["exporter"], c) => LatestIs(net["exporter"], c, Status(c))

Heard(c) ==
    (/\ link_up["exporter"]
     /\ link_fd["host"]
     /\ Undecided(net["exporter"], c)
     /\ Undecided(txq["exporter"], c)
     /\ ~HelloIn(net["host"])
     /\ ~HelloIn(txq["host"]))
        => (pty[c] # "closed" <=> state[c] = "Active")

IInv ==
    /\ TypeOK
    /\ ClosedLinkIsSilent
    /\ \A c \in Channels : Latest(c) /\ Heard(c)

\* f carries bytes for the PTY of channel c; f makes the host close it.
IsData(f, c) == f.ftype = "F_DATA" /\ f.channel = c
Breaks(f, c) == f.ftype = "F_HELLO" \/ (f.ftype = "F_FLUSH" /\ f.channel = c)
Marks(f, c) == IsData(f, c) \/ Breaks(f, c)

\* Successive items of c in q follow each other, unless there is a break between.
Chain(q, c) ==
    \A i, j \in 1..Len(q) :
       i < j /\ IsData(q[i], c) /\ IsData(q[j], c)
          => q[j].item = q[i].item + 1 \/ \E k \in (i + 1)..(j - 1) : Marks(q[k], c)

\* If no break comes after the latest item of c in q, it is in A.
Ends(q, c, A) ==
    \A i \in 1..Len(q) :
       IsData(q[i], c) => q[i].item \in A \/ \E k \in (i + 1)..Len(q) : Marks(q[k], c)

\* What the PTY of c was fed last, as a frame, and all that is on its way to it.
First(c, n) == IF n = 0 THEN FLUSH(c) ELSE DATA(c, n)
Stream(c) == <<First(c, fed[c])>> \o (net["exporter"] \o txq["exporter"])

\* The item that the next one of c may follow without a break.
Current(c) == IF link_up["exporter"] /\ state[c] = "Active" THEN {items[c]} ELSE {}

Contiguous(c) ==
    /\ Chain(Stream(c), c)
    /\ link_fd["exporter"] => Ends(Stream(c), c, Current(c))
    /\ pty[c] # "open" => fed[c] = 0

\* Where the frames of the stream z == <<f>> \o (u \o v) are.
Places(z, f, u, v) ==
    /\ Len(z) = 1 + Len(u) + Len(v) /\ z[1] = f
    /\ \A i \in 1..Len(u) : z[i + 1] = u[i]
    /\ \A i \in 1..Len(v) : z[i + 1 + Len(u)] = v[i]
    /\ \A i \in 2..Len(z) : i - 1 \in 1..Len(u) \/ i - 1 - Len(u) \in 1..Len(v)

\* w is q without its first l frames, and with g where the next one was.
Shifted(w, q, l, g) ==
    /\ Len(w) = Len(q) - l /\ 1 <= Len(w) /\ w[1] = g
    /\ \A i \in 2..Len(w) : w[i] = q[i + l]

-----------------------------------------------------------------------------
(* Facts about the operators above and the sequence operations the actions  *)
(* use.                                                                     *)

\* Queues with the same frames in the same places are the same.
LEMMA SameElements ==
    ASSUME NEW q \in Seq(Frames), NEW r \in Seq(Frames), Len(q) = Len(r),
           \A i \in 1..Len(q) : q[i] = r[i]
    PROVE  q = r
OBVIOUS

\* Queues concatenate in either grouping.
LEMMA Associative ==
    ASSUME NEW q \in Seq(Frames), NEW r \in Seq(Frames), NEW z \in Seq(Frames)
    PROVE  q \o (r \o z) = (q \o r) \o z
OBVIOUS

\* The same under a name, which a step can use without looking into it.
Regroups(q, r, z) == q \o (r \o z) = (q \o r) \o z

\* Frames on their way may be grouped either way.
LEMMA Associates == \A q, r, z \in Seq(Frames) : Regroups(q, r, z)
BY Associative, Zenon DEF Regroups

\* Append and Tail in terms of the other operations, all of a queue, and
\* queues that make the empty one.
LEMMA SameQueues ==
    ASSUME NEW q \in Seq(Frames), NEW r \in Seq(Frames)
    PROVE  /\ \A f \in Frames : Append(q, f) = q \o <<f>>
           /\ q # <<>> => Tail(q) = SubSeq(q, 2, Len(q))
           /\ SubSeq(q, 1, Len(q)) = q
           /\ q \o r = <<>> => q = <<>> /\ r = <<>>
<1>1. \A f \in Frames : Append(q, f) = q \o <<f>>
  OBVIOUS
<1>2. q # <<>> => Tail(q) = SubSeq(q, 2, Len(q))
  OBVIOUS
<1>3. SubSeq(q, 1, Len(q)) = q
  OBVIOUS
<1>4. q \o r = <<>> => q = <<>> /\ r = <<>>
  OBVIOUS
<1> QED  BY <1>1, <1>2, <1>3, <1>4, Zenon

\* All but the last of a range.
LEMMA Upto == \A a \in Nat, b \in Nat : \A k \in a..(b - 1) : k \in a..b /\ k # b
OBVIOUS

\* The first two places of a stream.
LEMMA SecondPlace ==
    ASSUME NEW q, NEW f, NEW u \in Seq(Frames), NEW v \in Seq(Frames),
           Places(q, f, u, v), 1 \in 1..Len(u)
    PROVE  q[1] = f /\ q[2] = u[1] /\ 1 \in 1..Len(q) /\ 2 \in 1..Len(q)
BY DEF Places

\* Appending frames r to q: what is decided afterwards.
LEMMA AppendDecides ==
    ASSUME NEW q \in Seq(Frames), NEW r \in Seq(Frames), NEW c, NEW f
    PROVE  /\ q \o r \in Seq(Frames)
           /\ Undecided(q \o r, c) <=> Undecided(q, c) /\ Undecided(r, c)
           /\ HelloIn(q \o r) <=> HelloIn(q) \/ HelloIn(r)
           /\ (LatestIs(r, c, f) /\ (Undecided(r, c) => LatestIs(q, c, f)))
                <=> LatestIs(q \o r, c, f)
<1> DEFINE s == q \o r
<1>1. /\ s \in Seq(Frames)
      /\ Len(s) = Len(q) + Len(r)
      /\ \A i \in 1..Len(q) : s[i] = q[i]
      /\ \A i \in 1..Len(r) : s[i + Len(q)] = r[i]
      /\ \A i \in 1..Len(s) : i \in 1..Len(q) \/ i - Len(q) \in 1..Len(r)
      /\ \A i \in 1..Len(s) : i \notin 1..Len(q) => s[i] = r[i - Len(q)]
  OBVIOUS
<1>2. Len(q) \in Nat /\ Len(r) \in Nat
  OBVIOUS
<1> HIDE DEF s
<1>3. Undecided(s, c) <=> Undecided(q, c) /\ Undecided(r, c)
  <2>1. ASSUME Undecided(s, c) PROVE Undecided(q, c) /\ Undecided(r, c)
    <3>1. ASSUME NEW i \in 1..Len(q) PROVE ~Decides(q[i], c)
      <4>1. i \in 1..Len(s) /\ s[i] = q[i]  BY <1>1, <1>2
      <4> QED  BY <4>1, <2>1, Zenon DEF Undecided
    <3>2. ASSUME NEW i \in 1..Len(r) PROVE ~Decides(r[i], c)
      <4>1. i + Len(q) \in 1..Len(s) /\ s[i + Len(q)] = r[i]  BY <1>1, <1>2
      <4> QED  BY <4>1, <2>1, Zenon DEF Undecided
    <3> QED  BY <3>1, <3>2, Zenon DEF Undecided
  <2>2. ASSUME Undecided(q, c), Undecided(r, c) PROVE Undecided(s, c)
    <3> SUFFICES ASSUME NEW i \in 1..Len(s) PROVE ~Decides(s[i], c)
      BY Zenon DEF Undecided
    <3>1. CASE i \in 1..Len(q)
      BY <3>1, <1>1, <2>2, Zenon DEF Undecided
    <3>2. CASE i \notin 1..Len(q)
      BY <3>2, <1>1, <2>2, Zenon DEF Undecided
    <3> QED  BY <3>1, <3>2, Zenon
  <2> QED  BY <2>1, <2>2, Zenon
<1>4. HelloIn(s) <=> HelloIn(q) \/ HelloIn(r)
  <2>1. ASSUME HelloIn(s) PROVE HelloIn(q) \/ HelloIn(r)
    <3>1. PICK i \in 1..Len(s) : s[i].ftype = "F_HELLO"  BY <2>1, Zenon DEF HelloIn
    <3>2. CASE i \in 1..Len(q)  BY <3>1, <3>2, <1>1, Zenon DEF HelloIn
    <3>3. CASE i \notin 1..Len(q)  BY <3>1, <3>3, <1>1, Zenon DEF HelloIn
    <3> QED  BY <3>2, <3>3, Zenon
  <2>2. ASSUME NEW i \in 1..Len(q), q[i].ftype = "F_HELLO" PROVE HelloIn(s)
    <3>1. i \in 1..Len(s) /\ s[i] = q[i]  BY <1>1, <1>2
    <3> QED  BY <3>1, <2>2, Zenon DEF HelloIn
  <2>3. ASSUME NEW i \in 1..Len(r), r[i].ftype = "F_HELLO" PROVE HelloIn(s)
    <3>1. i + Len(q) \in 1..Len(s) /\ s[i + Len(q)] = r[i]  BY <1>1, <1>2
    <3> QED  BY <3>1, <2>3, Zenon DEF HelloIn
  <2> QED  BY <2>1, <2>2, <2>3, Zenon DEF HelloIn
<1>5. ASSUME LatestIs(r, c, f), Undecided(r, c) => LatestIs(q, c, f)
      PROVE  LatestIs(s, c, f)
  <2> SUFFICES ASSUME NEW i \in 1..Len(s), Decides(s[i], c)
               PROVE  s[i] = f \/ \E j \in (i + 1)..Len(s) : Decides(s[j], c)
    BY Zenon DEF LatestIs
  <2>1. CASE i \notin 1..Len(q)
    <3> DEFINE k == i - Len(q)
    <3>1. k \in 1..Len(r) /\ s[i] = r[k]  BY <2>1, <1>1, Zenon
    <3>2. CASE r[k] = f  BY <3>1, <3>2, Zenon
    <3>3. ASSUME NEW j \in (k + 1)..Len(r), Decides(r[j], c)
          PROVE  \E m \in (i + 1)..Len(s) : Decides(s[m], c)
      <4>1. j + Len(q) \in (i + 1)..Len(s)  BY <3>1, <1>1, <1>2
      <4>2. j \in 1..Len(r)  BY <3>1, <1>2
      <4> QED  BY <4>1, <4>2, <3>3, <1>1, Zenon
    <3> QED  BY <3>1, <3>2, <3>3, <1>5, Zenon DEF LatestIs
  <2>2. CASE i \in 1..Len(q) /\ Undecided(r, c)
    <3>1. CASE q[i] = f  BY <3>1, <2>2, <1>1, Zenon
    <3>2. ASSUME NEW j \in (i + 1)..Len(q), Decides(q[j], c)
          PROVE  \E m \in (i + 1)..Len(s) : Decides(s[m], c)
      <4>1. j \in (i + 1)..Len(s) /\ j \in 1..Len(q)  BY <2>2, <1>1, <1>2
      <4> QED  BY <4>1, <3>2, <1>1, Zenon
    <3> QED  BY <3>1, <3>2, <2>2, <1>5, <1>1, Zenon DEF LatestIs
  <2>3. CASE i \in 1..Len(q) /\ ~Undecided(r, c)
    <3>1. PICK j \in 1..Len(r) : Decides(r[j], c)  BY <2>3, Zenon DEF Undecided
    <3>2. j + Len(q) \in (i + 1)..Len(s)  BY <2>3, <1>1, <1>2
    <3> QED  BY <3>1, <3>2, <1>1, Zenon
  <2> QED  BY <2>1, <2>2, <2>3, Zenon
<1>6. ASSUME LatestIs(s, c, f)
      PROVE  LatestIs(r, c, f) /\ (Undecided(r, c) => LatestIs(q, c, f))
  <2>1. ASSUME NEW i \in 1..Len(r), Decides(r[i], c)
        PROVE  r[i] = f \/ \E j \in (i + 1)..Len(r) : Decides(r[j], c)
    <3>1. i + Len(q) \in 1..Len(s) /\ s[i + Len(q)] = r[i]  BY <1>1, <1>2
    <3>2. ASSUME NEW j \in (i + Len(q) + 1)..Len(s), Decides(s[j], c)
          PROVE  \E m \in (i + 1)..Len(r) : Decides(r[m], c)
      <4>1. j - Len(q) \in (i + 1)..Len(r)  BY <1>1, <1>2
      <4>2. j \in 1..Len(s) /\ j \notin 1..Len(q)  BY <1>1, <1>2
      <4>3. s[j] = r[j - Len(q)]  BY <4>2, <1>1, Zenon
      <4> QED  BY <4>1, <4>3, <3>2, Zenon
    <3> QED  BY <3>1, <3>2, <2>1, <1>6, Zenon DEF LatestIs
  <2>2. ASSUME Undecided(r, c), NEW i \in 1..Len(q), Decides(q[i], c)
        PROVE  q[i] = f \/ \E j \in (i + 1)..Len(q) : Decides(q[j], c)
    <3>1. i \in 1..Len(s) /\ s[i] = q[i]  BY <1>1, <1>2
    <3>2. ASSUME NEW j \in (i + 1)..Len(s), Decides(s[j], c)
          PROVE  \E m \in (i + 1)..Len(q) : Decides(q[m], c)
      <4>1. j \in 1..Len(s)  BY <1>1, <1>2
      <4>2. j \in 1..Len(q)
        <5> SUFFICES ASSUME j \notin 1..Len(q) PROVE FALSE
          BY Zenon
        <5>1. j - Len(q) \in 1..Len(r) /\ s[j] = r[j - Len(q)]  BY <4>1, <1>1, Zenon
        <5> QED  BY <5>1, <3>2, <2>2, Zenon DEF Undecided
      <4>3. j \in (i + 1)..Len(q) /\ s[j] = q[j]  BY <4>2, <1>1, <1>2
      <4> QED  BY <4>3, <3>2, Zenon
    <3> QED  BY <3>1, <3>2, <2>2, <1>6, Zenon DEF LatestIs
  <2> QED  BY <2>1, <2>2, Zenon DEF LatestIs
<1> QED  BY <1>1, <1>3, <1>4, <1>5, <1>6, Zenon DEF s

\* A queue cut in two.
LEMMA CutDecides ==
    ASSUME NEW q \in Seq(Frames), NEW k \in 0..Len(q), NEW c, NEW f
    PROVE  LET r == SubSeq(q, k + 1, Len(q))
           IN  /\ r \in Seq(Frames)
               /\ SubSeq(q, 1, k) \in Seq(Frames)
               /\ LatestIs(q, c, f) => LatestIs(r, c, f)
<1> DEFINE p == SubSeq(q, 1, k)
           r == SubSeq(q, k + 1, Len(q))
<1>1. /\ p \in Seq(Frames) /\ Len(p) = k
      /\ \A i \in 1..k : p[i] = q[i]
  OBVIOUS
<1>2. /\ r \in Seq(Frames) /\ Len(r) = Len(q) - k
      /\ \A i \in 1..(Len(q) - k) : r[i] = q[i + k]
  OBVIOUS
<1> HIDE DEF p, r
<1>3. q = p \o r
  <2>0. p \in Seq(Frames) /\ r \in Seq(Frames)
    BY <1>1, <1>2, Zenon
  <2>1. /\ p \o r \in Seq(Frames) /\ Len(p \o r) = Len(p) + Len(r)
        /\ \A i \in 1..(Len(p) + Len(r)) :
             (p \o r)[i] = IF i <= Len(p) THEN p[i] ELSE r[i - Len(p)]
    BY <2>0
  <2>2. Len(p \o r) = Len(q)  BY <2>1, <1>1, <1>2
  <2>3. ASSUME NEW i \in 1..Len(q) PROVE (p \o r)[i] = q[i]
    BY <2>1, <1>1, <1>2
  <2> QED  BY <2>1, <2>2, <2>3, SameElements, Zenon
<1>4. LatestIs(p \o r, c, f) => LatestIs(r, c, f)
  BY <1>1, <1>2, AppendDecides, Zenon
<1> QED  BY <1>1, <1>2, <1>3, <1>4, Zenon DEF p, r

\* A queue is its head followed by its tail, a queue with a frame appended is
\* the queue followed by the frame.
LEMMA HeadDecides ==
    ASSUME NEW q \in Seq(Frames), q # <<>>, NEW c, NEW f
    PROVE  /\ Head(q) \in Frames
           /\ Tail(q) \in Seq(Frames)
           /\ Undecided(q, c) <=> ~Decides(Head(q), c) /\ Undecided(Tail(q), c)
           /\ HelloIn(q) <=> Head(q).ftype = "F_HELLO" \/ HelloIn(Tail(q))
           /\ LatestIs(q, c, f) <=>
                /\ LatestIs(Tail(q), c, f)
                /\ Undecided(Tail(q), c) /\ Decides(Head(q), c) => Head(q) = f
<1> DEFINE h == Head(q)
           p == <<h>>
<1>1. h \in Frames /\ Tail(q) \in Seq(Frames) /\ p \in Seq(Frames)
  OBVIOUS
<1>2. q = p \o Tail(q)
  OBVIOUS
<1>3. Len(p) = 1 /\ p[1] = h
  BY Zenon
<1> HIDE DEF h, p
<1>4. /\ Undecided(p, c) <=> ~Decides(h, c)
      /\ HelloIn(p) <=> h.ftype = "F_HELLO"
      /\ LatestIs(p, c, f) <=> (Decides(h, c) => h = f)
  BY <1>3 DEF Undecided, HelloIn, LatestIs
<1>5. /\ Undecided(p \o Tail(q), c) <=> Undecided(p, c) /\ Undecided(Tail(q), c)
      /\ HelloIn(p \o Tail(q)) <=> HelloIn(p) \/ HelloIn(Tail(q))
      /\ (LatestIs(Tail(q), c, f) /\ (Undecided(Tail(q), c) => LatestIs(p, c, f)))
           <=> LatestIs(p \o Tail(q), c, f)
  BY <1>1, AppendDecides, Zenon
<1> QED  BY <1>1, <1>2, <1>4, <1>5, Zenon DEF h

LEMMA PushDecides ==
    ASSUME NEW q \in Seq(Frames), NEW h \in Frames, NEW c, NEW f
    PROVE  /\ Append(q, h) \in Seq(Frames)
           /\ Undecided(Append(q, h), c) <=> Undecided(q, c) /\ ~Decides(h, c)
           /\ HelloIn(Append(q, h)) <=> HelloIn(q) \/ h.ftype = "F_HELLO"
           /\ LatestIs(Append(q, h), c, f) <=>
                IF Decides(h, c) THEN h = f ELSE LatestIs(q, c, f)
<1> DEFINE p == <<h>>
<1>1. p \in Seq(Frames) /\ Append(q, h) = q \o p /\ Append(q, h) \in Seq(Frames)
  OBVIOUS
<1>3. Len(p) = 1 /\ p[1] = h
  BY Zenon
<1> HIDE DEF p
<1>4. /\ Undecided(p, c) <=> ~Decides(h, c)
      /\ HelloIn(p) <=> h.ftype = "F_HELLO"
      /\ LatestIs(p, c, f) <=> (Decides(h, c) => h = f)
  BY <1>3 DEF Undecided, HelloIn, LatestIs
<1>5. /\ Undecided(q \o p, c) <=> Undecided(q, c) /\ Undecided(p, c)
      /\ HelloIn(q \o p) <=> HelloIn(q) \/ HelloIn(p)
      /\ (LatestIs(p, c, f) /\ (Undecided(p, c) => LatestIs(q, c, f)))
           <=> LatestIs(q \o p, c, f)
  BY <1>1, AppendDecides, Zenon
<1> QED  BY <1>1, <1>4, <1>5, Zenon

-----------------------------------------------------------------------------
\* The frames the daemons build are frames.
LEMMA FrameTypes ==
    /\ HELLO \in Frames /\ ACK \in Frames
    /\ \A c \in Channels : READY(c) \in Frames /\ FLUSH(c) \in Frames
    /\ \A c \in Channels : \A n \in Nat : DATA(c, n) \in Frames
BY ChannelsAssumption, Zenon DEF HELLO, ACK, READY, FLUSH, DATA, Frame, Frames

\* The announcements of on_link_connect are a sequence of frames.
LEMMA StatusesType ==
    ASSUME TypeOK, NEW o \in Orders
    PROVE  /\ Cardinality(Channels) \in Nat
           /\ \A i \in 1..Cardinality(Channels) : o[i] \in Channels
           /\ [i \in 1..Cardinality(Channels) |-> Status(o[i])] \in Seq(Frames)
<1>1. Cardinality(Channels) \in Nat
  BY ChannelsAssumption, Zenon
<1>2. \A i \in 1..Cardinality(Channels) : o[i] \in Channels
  BY Zenon DEF Orders
<1>3. \A i \in 1..Cardinality(Channels) : Status(o[i]) \in Frames
  BY <1>2, FrameTypes, Zenon DEF Status
<1>4. [i \in 1..Cardinality(Channels) |-> Status(o[i])] \in [1..Cardinality(Channels) -> Frames]
  BY <1>3, Zenon
<1>5. \A k \in Nat : \A q \in [1..k -> Frames] : q \in Seq(Frames)
  OBVIOUS
<1> QED  BY <1>1, <1>2, <1>4, <1>5, Zenon

\* What connect_channels does to the link's variables, for the three proofs.
LEMMA ConnectFacts ==
    ASSUME TypeOK, NEW s \in Sides, NEW reply \in Seq(Frames),
           connect_channels(s, reply)
    PROVE  /\ txq' \in [Sides -> Seq(Frames)]
           /\ pty' \in [Channels -> {"closed", "open", "failed"}]
           /\ fed' \in [Channels -> Nat]
           /\ mcu_up' \in [Channels -> BOOLEAN]
           /\ state' = state /\ uart' = uart /\ items' = items
           /\ mcu_up' = (IF s = "exporter" THEN [c \in Channels |-> TRUE] ELSE mcu_up)
           /\ s = "exporter" => UNCHANGED <<pty, fed>>
           /\ s = "host" => /\ pty' = [c \in Channels |-> "closed"]
                            /\ fed' = [c \in Channels |-> 0]
<1>1. CASE s = "exporter"
  <2>1. PICK o \in Orders :
          txq' = [txq EXCEPT ![s] =
                    @ \o reply \o [i \in 1..Cardinality(Channels) |-> Status(o[i])]]
    BY <1>1, Zenon DEF connect_channels
  <2>2. [i \in 1..Cardinality(Channels) |-> Status(o[i])] \in Seq(Frames)
    BY StatusesType, Zenon
  <2>3. txq[s] \in Seq(Frames)
    BY Zenon DEF TypeOK
  <2>4. \A r \in Seq(Frames) : txq[s] \o reply \o r \in Seq(Frames)
    BY <2>3
  <2>5. txq' \in [Sides -> Seq(Frames)]
    BY <2>1, <2>2, <2>4, Zenon DEF TypeOK
  <2> QED  BY <1>1, <2>5, Zenon DEF connect_channels, ptyVars, TypeOK
<1>2. CASE s = "host"
  <2>1. txq[s] \o reply \in Seq(Frames)
    BY DEF TypeOK
  <2>2. /\ txq' = [txq EXCEPT ![s] = @ \o reply]
        /\ pty' = [c \in Channels |-> "closed"]
        /\ fed' = [c \in Channels |-> 0]
        /\ state' = state /\ uart' = uart /\ mcu_up' = mcu_up /\ items' = items
    BY <1>2, Zenon DEF connect_channels, close_all_ptys, mcuVars
  <2>3. txq' \in [Sides -> Seq(Frames)]
    BY <2>1, <2>2, Zenon DEF TypeOK
  <2>4. /\ pty' \in [Channels -> {"closed", "open", "failed"}]
        /\ fed' \in [Channels -> Nat]
    BY <2>2, Zenon
  <2>5. mcu_up' \in [Channels -> BOOLEAN]
    BY <2>2, Zenon DEF TypeOK
  <2> QED  BY <1>2, <2>2, <2>3, <2>4, <2>5, Zenon
<1> QED  BY <1>1, <1>2, Zenon DEF Sides

LEMMA TypeStep ==
    ASSUME TypeOK, [Next]_vars
    PROVE  TypeOK'
<1> USE DEF TypeOK
<1>1. ASSUME NEW s \in Sides, open_link(s) PROVE TypeOK'
  <2>1. Peer(s) \in Sides  BY Zenon DEF Peer, Sides
  <2>2. PICK k \in 0..Len(net[Peer(s)]) :
          net' = [net EXCEPT ![Peer(s)] = SubSeq(@, k + 1, Len(@))]
    BY <1>1, Zenon DEF open_link
  <2>3. SubSeq(net[Peer(s)], k + 1, Len(net[Peer(s)])) \in Seq(Frames)
    BY <2>1, CutDecides, Zenon
  <2>4. net' \in [Sides -> Seq(Frames)]
    BY <2>1, <2>2, <2>3, Zenon
  <2>5. <<HELLO>> \in Seq(Frames)
    BY FrameTypes
  <2>6. txq' \in [Sides -> Seq(Frames)]
    BY <1>1, <2>5, Zenon DEF open_link
  <2> QED  BY <1>1, <2>4, <2>6, SMTT(30) DEF open_link, mcuVars, ptyVars
<1>2. ASSUME NEW s \in Sides, drop_link(s)
      PROVE  /\ link_fd' \in [Sides -> BOOLEAN]
             /\ link_up' \in [Sides -> BOOLEAN]
             /\ txq' \in [Sides -> Seq(Frames)]
             /\ net' \in [Sides -> Seq(Frames)]
             /\ opens' \in [Sides -> Nat]
  <2>1. PICK k \in 0..Len(net[s]) : net' = [net EXCEPT ![s] = SubSeq(@, 1, k)]
    BY <1>2, Zenon DEF drop_link
  <2>2. SubSeq(net[s], 1, k) \in Seq(Frames)
    BY CutDecides, Zenon
  <2>3. net' \in [Sides -> Seq(Frames)]
    BY <2>1, <2>2, Zenon
  <2>4. <<>> \in Seq(Frames)
    OBVIOUS
  <2> QED  BY <1>2, <2>3, <2>4, Zenon DEF drop_link
<1>3. ASSUME NEW s \in Sides, close_link(s) PROVE TypeOK'
  <2>1. /\ link_fd' \in [Sides -> BOOLEAN]
        /\ link_up' \in [Sides -> BOOLEAN]
        /\ txq' \in [Sides -> Seq(Frames)]
        /\ net' \in [Sides -> Seq(Frames)]
        /\ opens' \in [Sides -> Nat]
    BY <1>3, <1>2, Zenon DEF close_link
  <2>2. CASE s = "exporter"
    BY <1>3, <2>1, <2>2, ZenonT(30) DEF close_link, ptyVars
  <2>3. CASE s # "exporter"
    <3>1. /\ pty' = [c \in Channels |-> "closed"] /\ fed' = [c \in Channels |-> 0]
          /\ state' = state /\ uart' = uart /\ mcu_up' = mcu_up /\ items' = items
      BY <1>3, <2>3, Zenon DEF close_link, close_all_ptys, mcuVars
    <3> QED  BY <2>1, <3>1, Zenon
  <2> QED  BY <2>2, <2>3, Zenon
<1>4. ASSUME Restart PROVE TypeOK'
  <2>1. "exporter" \in Sides /\ drop_link("exporter")
    BY <1>4, Zenon DEF Restart, Sides
  <2>2. /\ link_fd' \in [Sides -> BOOLEAN]
        /\ link_up' \in [Sides -> BOOLEAN]
        /\ txq' \in [Sides -> Seq(Frames)]
        /\ net' \in [Sides -> Seq(Frames)]
        /\ opens' \in [Sides -> Nat]
    BY <2>1, <1>2, Zenon
  <2> QED  BY <1>4, <2>2, Zenon DEF Restart, ptyVars
<1>5. ASSUME NEW s \in Sides, link_write(s) PROVE TypeOK'
  <2>1. /\ Append(net[s], Head(txq[s])) \in Seq(Frames)
        /\ Tail(txq[s]) \in Seq(Frames)
    BY <1>5, HeadDecides, PushDecides, Zenon DEF link_write
  <2> QED  BY <1>5, <2>1, Zenon DEF link_write, mcuVars, ptyVars
<1>6. ASSUME NEW s \in Sides, link_read(s) PROVE TypeOK'
  <2> DEFINE f == Head(net[Peer(s)])
  <2>1. Peer(s) \in Sides  BY Zenon DEF Peer, Sides
  <2>2. f \in Frames /\ Tail(net[Peer(s)]) \in Seq(Frames)
    BY <1>6, <2>1, HeadDecides, Zenon DEF link_read
  <2>3. /\ link_fd' \in [Sides -> BOOLEAN]
        /\ net' \in [Sides -> Seq(Frames)]
        /\ opens' \in [Sides -> Nat]
    BY <1>6, <2>1, <2>2, Zenon DEF link_read
  <2>4. <<ACK>> \in Seq(Frames) /\ <<>> \in Seq(Frames)
    BY FrameTypes
  <2>a. ASSUME NEW r \in Seq(Frames), connect_channels(s, r),
               link_up' = [link_up EXCEPT ![s] = TRUE]
        PROVE  TypeOK'
    <3>1. /\ txq' \in [Sides -> Seq(Frames)]
          /\ pty' \in [Channels -> {"closed", "open", "failed"}]
          /\ fed' \in [Channels -> Nat]
          /\ mcu_up' \in [Channels -> BOOLEAN]
          /\ state' = state /\ uart' = uart /\ items' = items
      BY <2>a, ConnectFacts, Zenon
    <3> QED  BY <3>1, <2>3, <2>a, Zenon
  <2>5. CASE on_hello(s)
    BY <2>4, <2>5, <2>a, Zenon DEF on_hello
  <2>6. CASE on_ack(s)
    <3>1. CASE link_up[s]
      BY <2>3, <2>6, <3>1, Zenon DEF on_ack, mcuVars, ptyVars
    <3>2. CASE ~link_up[s]
      BY <2>4, <2>6, <3>2, <2>a, Zenon DEF on_ack
    <3> QED  BY <3>1, <3>2, Zenon
  <2>7. CASE pty_on_frame(f)
    <3>1. f.ftype = "F_DATA" => f.item \in Nat
      BY <2>2, Zenon DEF Frames
    <3>2. /\ link_up' = link_up /\ txq' = txq /\ state' = state
          /\ uart' = uart /\ mcu_up' = mcu_up /\ items' = items
      BY <2>7, Zenon DEF pty_on_frame, mcuVars
    <3>3. pty' \in [Channels -> {"closed", "open", "failed"}]
      BY <2>7, Zenon DEF pty_on_frame, open_pty, close_pty, ptyVars
    <3>4. fed' \in [Channels -> Nat]
      <4>1. \/ fed' = fed
            \/ \E n \in Nat : fed' = [fed EXCEPT ![f.channel] = n]
        BY <2>7, <3>1, Zenon DEF pty_on_frame, open_pty, close_pty, ptyVars
      <4> QED  BY <4>1, Zenon
    <3> QED  BY <2>3, <3>2, <3>3, <3>4, Zenon
  <2> QED  BY <1>6, <2>5, <2>6, <2>7, Zenon DEF link_read, dispatch_frame
<1>7. ASSUME NEW c \in Channels, NEW to \in {"Active", "Resetting"},
             NEW r \in Seq(Frames), transition(c, to, r)
      PROVE  /\ state' \in [Channels -> {"Init", "Active", "Resetting"}]
             /\ txq' \in [Sides -> Seq(Frames)]
  <2>1. txq["exporter"] \o r \in Seq(Frames)  BY DEF Sides
  <2> QED  BY <1>7, <2>1, Zenon DEF transition
<1>8. ASSUME NEW c \in Channels, uart_read(c) PROVE TypeOK'
  <2>1. /\ <<DATA(c, items[c] + 1)>> \in Seq(Frames)
        /\ <<READY(c), DATA(c, items[c] + 1)>> \in Seq(Frames)
    BY FrameTypes
  <2>2. /\ state' \in [Channels -> {"Init", "Active", "Resetting"}]
        /\ txq' \in [Sides -> Seq(Frames)]
    BY <1>7, <1>8, <2>1, Zenon DEF uart_read
  <2>3. /\ link_fd' = link_fd /\ link_up' = link_up /\ net' = net
        /\ opens' = opens /\ uart' = uart /\ mcu_up' = mcu_up
        /\ pty' = pty /\ fed' = fed
        /\ items' = [items EXCEPT ![c] = @ + 1]
    BY <1>8, Zenon DEF uart_read, ptyVars
  <2> QED  BY <2>2, <2>3
<1>9. ASSUME NEW c \in Channels, reset(c)
      PROVE  /\ state' \in [Channels -> {"Init", "Active", "Resetting"}]
             /\ txq' \in [Sides -> Seq(Frames)]
             /\ items' \in [Channels -> Nat]
  <2>1. <<FLUSH(c)>> \in Seq(Frames)  BY FrameTypes
  <2>2. transition(c, "Resetting", <<FLUSH(c)>>) /\ items' = [items EXCEPT ![c] = @ + 1]
    BY <1>9, Zenon DEF reset
  <2>3. /\ state' \in [Channels -> {"Init", "Active", "Resetting"}]
        /\ txq' \in [Sides -> Seq(Frames)]
    BY <1>7, <2>1, <2>2, Zenon
  <2>4. items' \in [Channels -> Nat]
    BY <2>2
  <2> QED  BY <2>3, <2>4, Zenon
<1>10. ASSUME NEW c \in Channels, silence(c) PROVE TypeOK'
  BY <1>9, <1>10, Zenon DEF silence, ptyVars
<1>11. ASSUME NEW c \in Channels, uart_error(c) PROVE TypeOK'
  BY <1>9, <1>11, Zenon DEF uart_error, ptyVars
<1>12. ASSUME NEW c \in Channels, open_uart(c) PROVE TypeOK'
  BY <1>12, Zenon DEF open_uart, linkVars, ptyVars
<1>14. ASSUME NEW c \in Channels, pty_eio(c) PROVE TypeOK'
  BY <1>14, Zenon DEF pty_eio, linkVars, mcuVars
<1>13. CASE UNCHANGED vars
  BY <1>13, Zenon DEF vars, linkVars, mcuVars, ptyVars
<1> QED
  BY <1>1, <1>3, <1>4, <1>5, <1>6, <1>8, <1>10, <1>11, <1>12, <1>13, <1>14, Zenon DEF Next

\* Every reachable state of the two daemons is well typed: in particular the
\* queues hold only frames the dispatcher knows, for the configured channels.
THEOREM TypeCorrect == Spec => []TypeOK
<1>1. Init => TypeOK
  BY DEF Init, TypeOK
<1>2. TypeOK /\ [Next]_vars => TypeOK'
  BY TypeStep, Zenon
<1> QED  BY <1>1, <1>2, PTL DEF Spec

-----------------------------------------------------------------------------
\* A step preserves the silence of closed links.
LEMMA SilentStep ==
    ASSUME TypeOK, ClosedLinkIsSilent, [Next]_vars
    PROVE  ClosedLinkIsSilent'
<1> USE DEF ClosedLinkIsSilent
<1>0. "exporter" \in Sides /\ "host" \in Sides /\ \A s \in Sides : s \in {"exporter", "host"}
  BY Zenon DEF Sides
<1>1. ASSUME NEW s \in Sides, open_link(s) PROVE ClosedLinkIsSilent'
  BY <1>1, <1>0, Zenon DEF open_link, mcuVars, ptyVars, TypeOK
<1>2. ASSUME NEW s \in Sides, drop_link(s)
      PROVE  /\ \A t \in Sides : ~link_fd'[t] => txq'[t] = <<>> /\ ~link_up'[t]
             /\ s = "exporter" => link_up'["exporter"] = FALSE /\ link_fd'["host"] = link_fd["host"]
             /\ s = "host" => link_up'["exporter"] = link_up["exporter"]
  BY <1>2, <1>0, Zenon DEF drop_link, TypeOK
<1>3. ASSUME NEW s \in Sides, close_link(s) PROVE ClosedLinkIsSilent'
  <2>1. CASE s = "exporter"
    <3>1. /\ drop_link(s) /\ pty' = pty /\ mcu_up' = [c \in Channels |-> FALSE]
      BY <1>3, <2>1, Zenon DEF close_link, ptyVars
    <3> QED  BY <1>0, <1>2, <2>1, <3>1, Zenon
  <2>2. CASE s = "host"
    <3>1. /\ pty' = [c \in Channels |-> "closed"] /\ mcu_up' = mcu_up
          /\ drop_link(s)
      BY <1>3, <2>2, Zenon DEF close_link, close_all_ptys, mcuVars
    <3> QED  BY <1>2, <2>2, <3>1, Zenon
  <2> QED  BY <1>0, <2>1, <2>2, Zenon
<1>4. ASSUME Restart PROVE ClosedLinkIsSilent'
  <2>1. /\ drop_link("exporter") /\ pty' = pty /\ mcu_up' = [c \in Channels |-> FALSE]
    BY <1>4, Zenon DEF Restart, ptyVars
  <2> QED  BY <1>0, <1>2, <2>1, Zenon
<1>5. ASSUME NEW s \in Sides, link_write(s) PROVE ClosedLinkIsSilent'
  BY <1>5, <1>0, Zenon DEF link_write, mcuVars, ptyVars, TypeOK
<1>6. ASSUME NEW s \in Sides, link_read(s) PROVE ClosedLinkIsSilent'
  <2> DEFINE f == Head(net[Peer(s)])
  <2>1. link_fd[s] /\ link_fd' = link_fd
    BY <1>6, Zenon DEF link_read
  <2>2. <<ACK>> \in Seq(Frames) /\ <<>> \in Seq(Frames)
    BY FrameTypes
  <2>3. ASSUME NEW r \in Seq(Frames), connect_channels(s, r),
               link_up' = [link_up EXCEPT ![s] = TRUE]
        PROVE  ClosedLinkIsSilent'
    <3>1. \A t \in Sides : t # s => txq'[t] = txq[t] /\ link_up'[t] = link_up[t]
      BY <2>3, Zenon DEF connect_channels, TypeOK
    <3>2. link_up'[s]
      BY <2>3, Zenon DEF TypeOK
    <3>3. CASE s = "exporter"
      <4>1. mcu_up' = [c \in Channels |-> TRUE] /\ pty' = pty
        BY <2>3, <3>3, ConnectFacts, Zenon
      <4> QED  BY <1>0, <2>1, <3>1, <3>2, <3>3, <4>1, Zenon
    <3>4. CASE s = "host"
      <4>1. mcu_up' = mcu_up /\ pty' = [c \in Channels |-> "closed"]
        BY <2>3, <3>4, ConnectFacts, Zenon
      <4> QED  BY <1>0, <2>1, <3>1, <3>2, <3>4, <4>1, Zenon
    <3> QED  BY <1>0, <3>3, <3>4, Zenon
  <2>4. CASE on_hello(s)
    BY <2>2, <2>3, <2>4, Zenon DEF on_hello
  <2>5. CASE on_ack(s)
    <3>1. CASE link_up[s]
      BY <2>1, <2>5, <3>1, Zenon DEF on_ack, mcuVars, ptyVars
    <3>2. CASE ~link_up[s]
      BY <2>2, <2>3, <2>5, <3>2, Zenon DEF on_ack
    <3> QED  BY <3>1, <3>2, Zenon
  <2>6. CASE s = "host" /\ pty_on_frame(f)
    BY <1>0, <2>1, <2>6, Zenon DEF pty_on_frame, mcuVars
  <2> QED  BY <1>6, <2>4, <2>5, <2>6, Zenon DEF link_read, dispatch_frame
<1>7. ASSUME NEW c \in Channels, NEW to, NEW r, transition(c, to, r),
             UNCHANGED <<link_fd, link_up, mcu_up, pty>>
      PROVE  ClosedLinkIsSilent'
  <2>1. \A t \in Sides : ~link_fd[t] => txq'[t] = txq[t]
    BY <1>7, <1>0 DEF transition, TypeOK
  <2> QED  BY <1>7, <2>1, Zenon
<1>8. ASSUME NEW c \in Channels, uart_read(c) \/ silence(c) \/ uart_error(c)
      PROVE  ClosedLinkIsSilent'
  <2>1. UNCHANGED <<link_fd, link_up, mcu_up, pty>>
    BY <1>8, Zenon DEF uart_read, silence, uart_error, ptyVars
  <2>2. txq' = txq \/ \E to, r : transition(c, to, r)
    BY <1>8, Zenon DEF uart_read, silence, uart_error, reset
  <2>3. CASE txq' = txq  BY <2>1, <2>3, Zenon
  <2> QED  BY <1>7, <2>1, <2>2, <2>3, Zenon
<1>9. ASSUME NEW c \in Channels, open_uart(c) PROVE ClosedLinkIsSilent'
  BY <1>9, Zenon DEF open_uart, linkVars, ptyVars
<1>10. ASSUME NEW c \in Channels, pty_eio(c) PROVE ClosedLinkIsSilent'
  <2>1. link_fd["host"]
    BY <1>10, Zenon DEF pty_eio
  <2> QED  BY <1>10, <2>1, Zenon DEF pty_eio, linkVars, mcuVars
<1>11. CASE UNCHANGED vars
  BY <1>11, Zenon DEF vars, linkVars, mcuVars, ptyVars
<1> QED  BY <1>1, <1>3, <1>4, <1>5, <1>6, <1>8, <1>9, <1>10, <1>11, Zenon DEF Next

-----------------------------------------------------------------------------
\* Which frames decide about which PTY.
LEMMA DecidingFrames ==
    ASSUME NEW c \in Channels, NEW d \in Channels, NEW n \in Nat
    PROVE  /\ Decides(READY(c), d) <=> c = d
           /\ Decides(FLUSH(c), d) <=> c = d
           /\ ~Decides(DATA(c, n), d)
           /\ READY(c).ftype = "F_READY" /\ FLUSH(c).ftype = "F_FLUSH"
           /\ READY(c).channel = c /\ FLUSH(c).channel = c
           /\ HELLO.ftype = "F_HELLO" /\ ACK.ftype = "F_ACK"
BY Zenon DEF Decides, READY, FLUSH, DATA, HELLO, ACK, Frame

\* After on_link_connect the exporter's queue ends, for every channel, with
\* the channel's state.
LEMMA ConnectAnnounces ==
    ASSUME TypeOK, NEW reply \in Seq(Frames), NEW c \in Channels,
           connect_channels("exporter", reply)
    PROVE  /\ LatestIs(txq'["exporter"], c, Status(c))
           /\ ~Undecided(txq'["exporter"], c)
<1>1. PICK o \in Orders :
        txq' = [txq EXCEPT !["exporter"] =
                  @ \o reply \o [i \in 1..Cardinality(Channels) |-> Status(o[i])]]
  BY Zenon DEF connect_channels
<1> DEFINE p == txq["exporter"] \o reply
           r == [i \in 1..Cardinality(Channels) |-> Status(o[i])]
<1>2. /\ r \in Seq(Frames) /\ Cardinality(Channels) \in Nat
      /\ \A i \in 1..Cardinality(Channels) : o[i] \in Channels
  BY StatusesType, Zenon
<1>3. Len(r) = Cardinality(Channels)
  BY <1>2
<1>4. \A i \in 1..Len(r) : r[i] = Status(o[i])
  BY <1>3, Zenon
<1>5. p \in Seq(Frames)
  BY DEF TypeOK, Sides
<1>6. txq'["exporter"] = p \o r
  BY <1>1, Zenon DEF TypeOK, Sides
<1>7. \A d \in Channels : Decides(Status(d), c) <=> d = c
  BY DecidingFrames, Zenon DEF Status
<1>8. \E i \in 1..Cardinality(Channels) : o[i] = c
  BY <1>2, Zenon DEF Orders
<1> HIDE DEF p, r
<1>9. LatestIs(r, c, Status(c))
  <2> SUFFICES ASSUME NEW i \in 1..Len(r), Decides(r[i], c) PROVE r[i] = Status(c)
    BY Zenon DEF LatestIs
  <2> QED  BY <1>2, <1>3, <1>4, <1>7, Zenon
<1>10. ~Undecided(r, c)
  BY <1>3, <1>4, <1>7, <1>8, Zenon DEF Undecided
<1>11. /\ LatestIs(p \o r, c, Status(c))
       /\ Undecided(p \o r, c) => Undecided(r, c)
  BY <1>2, <1>5, <1>9, <1>10, AppendDecides, Zenon
<1> QED  BY <1>6, <1>10, <1>11, Zenon

\* A frame the exporter appends while its link is up: either it does not
\* decide about c and the MCU's state is as before, or it ends with the
\* state the MCU now has.
LEMMA TransitionAnnounces ==
    ASSUME IInv, NEW c \in Channels, NEW d \in Channels, NEW to,
           NEW r \in Seq(Frames), transition(d, to, r),
           UNCHANGED <<link_fd, link_up, net, pty>>,
           d # c \/ state'[c] = state[c] => Undecided(r, c),
           d = c /\ state'[c] # state[c] =>
                ~Undecided(r, c) /\ LatestIs(r, c, Status(c)')
    PROVE  Latest(c)' /\ Heard(c)'
<1>1. CASE ~link_up["exporter"]
  BY <1>1, Zenon DEF Latest, Heard
<1>2. CASE link_up["exporter"]
  <2>1. mcu_up[d]
    BY <1>2, Zenon DEF IInv, ClosedLinkIsSilent
  <2>2. /\ txq["exporter"] \in Seq(Frames)
        /\ txq'["exporter"] = txq["exporter"] \o r
        /\ txq'["host"] = txq["host"]
    BY <2>1, Zenon DEF transition, IInv, TypeOK, Sides
  <2>3. /\ LatestIs(txq["exporter"], c, Status(c))
        /\ Undecided(txq["exporter"], c) => LatestIs(net["exporter"], c, Status(c))
    BY <1>2, Zenon DEF IInv, Latest
  <2>4. d # c => state'[c] = state[c]
    BY Zenon DEF transition, IInv, TypeOK
  <2>5. CASE state'[c] = state[c]
    <3>1. Status(c)' = Status(c)
      BY <2>5, Zenon DEF Status
    <3>2. Undecided(r, c) /\ LatestIs(r, c, Status(c))
      BY <2>5, Zenon DEF Undecided, LatestIs
    <3>3. /\ LatestIs(txq'["exporter"], c, Status(c))
          /\ Undecided(txq'["exporter"], c) <=> Undecided(txq["exporter"], c)
      BY <2>2, <2>3, <3>2, AppendDecides, Zenon
    <3>4. Latest(c)'
      BY <2>3, <3>1, <3>3, Zenon DEF Latest
    <3>5. Heard(c)'
      BY <2>2, <2>5, <3>3, Zenon DEF Heard, IInv
    <3> QED  BY <3>4, <3>5, Zenon
  <2>6. CASE state'[c] # state[c]
    <3>1. /\ LatestIs(txq'["exporter"], c, Status(c)')
          /\ ~Undecided(txq'["exporter"], c)
      BY <2>2, <2>4, <2>6, AppendDecides
    <3> QED  BY <3>1, Zenon DEF Latest, Heard
  <2> QED  BY <2>5, <2>6, Zenon
<1> QED  BY <1>1, <1>2, Zenon

\* The host takes the next frame f off the exporter's pipe.  If f was the last
\* to decide about c it is the MCU's state, and the PTY is put into it.
LEMMA HostReads ==
    ASSUME IInv, NEW c \in Channels, link_read("host")
    PROVE  Latest(c)' /\ Heard(c)'
<1> DEFINE f == Head(net["exporter"])
           q == Tail(net["exporter"])
<1>1. /\ net["exporter"] \in Seq(Frames) /\ net["exporter"] # <<>>
      /\ net' = [net EXCEPT !["exporter"] = q]
      /\ link_fd' = link_fd
      /\ \/ f.ftype = "F_HELLO" /\ on_hello("host")
         \/ f.ftype = "F_ACK" /\ on_ack("host")
         \/ pty_on_frame(f)
  BY Zenon DEF link_read, dispatch_frame, Peer, IInv, TypeOK, Sides
<1>2. net'["exporter"] = q /\ net'["host"] = net["host"]
  BY <1>1, Zenon DEF IInv, TypeOK, Sides
<1>3. /\ f \in Frames /\ q \in Seq(Frames)
      /\ Undecided(net["exporter"], c) <=> ~Decides(f, c) /\ Undecided(q, c)
      /\ LatestIs(net["exporter"], c, Status(c)) <=>
           /\ LatestIs(q, c, Status(c))
           /\ Undecided(q, c) /\ Decides(f, c) => f = Status(c)
  BY <1>1, HeadDecides, Zenon
<1> HIDE DEF f, q
<1>4. <<ACK>> \in Seq(Frames) /\ <<>> \in Seq(Frames)
  BY FrameTypes
<1>5. ASSUME NEW r \in Seq(Frames), connect_channels("host", r)
      PROVE  state' = state /\ txq'["exporter"] = txq["exporter"]
  BY <1>5, Zenon DEF connect_channels, mcuVars, IInv, TypeOK, Sides
<1>6. /\ state' = state /\ txq'["exporter"] = txq["exporter"]
      /\ link_up'["exporter"] = link_up["exporter"]
  <2>1. CASE on_hello("host")
    BY <1>4, <1>5, <2>1, Zenon DEF on_hello, IInv, TypeOK, Sides
  <2>2. CASE on_ack("host")
    <3>1. CASE link_up["host"]
      BY <2>2, <3>1, Zenon DEF on_ack, mcuVars
    <3>2. CASE ~link_up["host"]
      BY <1>4, <1>5, <2>2, <3>2, Zenon DEF on_ack, IInv, TypeOK, Sides
    <3> QED  BY <3>1, <3>2, Zenon
  <2>3. CASE pty_on_frame(f)
    BY <2>3, Zenon DEF pty_on_frame, mcuVars
  <2> QED  BY <1>1, <2>1, <2>2, <2>3, Zenon
<1>7. Status(c)' = Status(c)
  BY <1>6, Zenon DEF Status
<1>8. Latest(c)'
  BY <1>2, <1>3, <1>6, <1>7, Zenon DEF Latest, IInv
<1>9. Heard(c)'
  <2> SUFFICES ASSUME link_up["exporter"], link_fd["host"],
                      Undecided(q, c), Undecided(txq["exporter"], c),
                      ~HelloIn(net["host"]), ~HelloIn(txq'["host"])
               PROVE  pty'[c] # "closed" <=> state[c] = "Active"
    BY <1>1, <1>2, <1>6, Zenon DEF Heard
  <2>1. Decides(f, c) => f = Status(c)
    BY <1>3, Zenon DEF Latest, IInv
  <2>2. /\ Status(c).ftype = IF state[c] = "Active" THEN "F_READY" ELSE "F_FLUSH"
        /\ Status(c).channel = c
    BY DecidingFrames, Zenon DEF Status
  <2>3. f.ftype # "F_HELLO" /\ f.ftype # "F_ACK"
    BY <2>1, <2>2, Zenon DEF Decides
  <2>4. pty_on_frame(f)
    BY <1>1, <2>3, Zenon
  <2>5. txq' = txq
    BY <2>4, Zenon DEF pty_on_frame
  <2>6. pty \in [Channels -> {"closed", "open", "failed"}]
    BY Zenon DEF IInv, TypeOK
  <2>7. CASE Decides(f, c)
    <3>1. f.channel = c /\ f.ftype = IF state[c] = "Active" THEN "F_READY" ELSE "F_FLUSH"
      BY <2>1, <2>2, <2>7
    <3>2. CASE state[c] = "Active"
      BY <2>4, <2>6, <3>1, <3>2, Zenon DEF pty_on_frame, open_pty, ptyVars
    <3>3. CASE state[c] # "Active"
      BY <2>4, <2>6, <3>1, <3>3, Zenon DEF pty_on_frame, close_pty
    <3> QED  BY <3>2, <3>3, Zenon
  <2>8. CASE ~Decides(f, c)
    <3>1. pty'[c] = pty[c]
      BY <2>4, <2>6, <2>8, Zenon DEF pty_on_frame, open_pty, close_pty, ptyVars, Decides
    <3> QED  BY <1>3, <2>5, <2>8, <3>1, Zenon DEF Heard, IInv
  <2> QED  BY <2>7, <2>8, Zenon
<1> QED  BY <1>8, <1>9, Zenon

\* The exporter takes the next frame off the host's pipe.
LEMMA ExporterReads ==
    ASSUME IInv, NEW c \in Channels, link_read("exporter")
    PROVE  Latest(c)' /\ Heard(c)'
<1> DEFINE f == Head(net["host"])
           q == Tail(net["host"])
<1>1. /\ net["host"] \in Seq(Frames) /\ net["host"] # <<>>
      /\ net' = [net EXCEPT !["host"] = q]
      /\ link_fd' = link_fd
      /\ \/ f.ftype = "F_HELLO" /\ on_hello("exporter")
         \/ f.ftype = "F_ACK" /\ on_ack("exporter")
  BY Zenon DEF link_read, dispatch_frame, Peer, IInv, TypeOK, Sides
<1>2. HelloIn(net["host"]) <=> f.ftype = "F_HELLO" \/ HelloIn(q)
  BY <1>1, HeadDecides, Zenon
<1> HIDE DEF f, q
<1>3. <<ACK>> \in Seq(Frames) /\ <<>> \in Seq(Frames)
  BY FrameTypes
<1>4. ASSUME NEW r \in Seq(Frames), connect_channels("exporter", r)
      PROVE  Latest(c)' /\ Heard(c)'
  <2>1. /\ LatestIs(txq'["exporter"], c, Status(c))
        /\ ~Undecided(txq'["exporter"], c)
    BY <1>4, ConnectAnnounces, Zenon DEF IInv
  <2>2. state' = state
    BY <1>4, Zenon DEF connect_channels
  <2>3. Status(c)' = Status(c)
    BY <2>2, Zenon DEF Status
  <2> QED  BY <2>1, <2>3, Zenon DEF Latest, Heard
<1>5. CASE on_hello("exporter")
  BY <1>3, <1>4, <1>5, Zenon DEF on_hello
<1>6. CASE on_ack("exporter") /\ ~link_up["exporter"]
  BY <1>3, <1>4, <1>6, Zenon DEF on_ack
<1>7. CASE f.ftype = "F_ACK" /\ on_ack("exporter") /\ link_up["exporter"]
  <2>1. /\ link_up' = link_up /\ txq' = txq /\ state' = state /\ pty' = pty
        /\ link_fd' = link_fd
    BY <1>1, <1>7, Zenon DEF on_ack, mcuVars, ptyVars
  <2>2. /\ net'["exporter"] = net["exporter"] /\ net'["host"] = q
    BY <1>1, Zenon DEF IInv, TypeOK, Sides
  <2>3. HelloIn(net["host"]) <=> HelloIn(q)
    BY <1>2, <1>7, Zenon
  <2>4. Status(c)' = Status(c)
    BY <2>1, Zenon DEF Status
  <2>5. Latest(c)'
    BY <2>1, <2>2, <2>4, Zenon DEF Latest, IInv
  <2>6. Heard(c)'
    BY <2>1, <2>2, <2>3, Zenon DEF Heard, IInv
  <2> QED  BY <2>5, <2>6, Zenon
<1> QED  BY <1>1, <1>5, <1>6, <1>7, Zenon

\* A step preserves the agreement about channel c.
LEMMA AgreeStep ==
    ASSUME IInv, [Next]_vars, NEW c \in Channels
    PROVE  Latest(c)' /\ Heard(c)'
<1>0. TypeOK /\ ClosedLinkIsSilent /\ Latest(c) /\ Heard(c)
  BY Zenon DEF IInv
<1>1. ASSUME open_link("exporter") PROVE Latest(c)' /\ Heard(c)'
  <2>1. ~link_up["exporter"] /\ link_up' = link_up
    BY <1>0, <1>1, Zenon DEF open_link, ClosedLinkIsSilent, Sides
  <2> QED  BY <2>1, Zenon DEF Latest, Heard
<1>2. ASSUME open_link("host") PROVE Latest(c)' /\ Heard(c)'
  <2>1. PICK k \in 0..Len(net["exporter"]) :
          net' = [net EXCEPT !["exporter"] = SubSeq(@, k + 1, Len(@))]
    BY <1>2, Zenon DEF open_link, Peer
  <2>2. /\ link_up' = link_up /\ state' = state
        /\ txq'["exporter"] = txq["exporter"] /\ txq'["host"] = <<HELLO>>
        /\ net["exporter"] \in Seq(Frames)
        /\ net'["exporter"] = SubSeq(net["exporter"], k + 1, Len(net["exporter"]))
    BY <1>0, <1>2, <2>1, Zenon DEF open_link, mcuVars, TypeOK, Sides
  <2>3. LatestIs(net["exporter"], c, Status(c)) => LatestIs(net'["exporter"], c, Status(c))
    BY <2>2, CutDecides, Zenon
  <2>4. Status(c)' = Status(c)
    BY <2>2, Zenon DEF Status
  <2>5. HelloIn(<<HELLO>>)
    BY DEF HelloIn, HELLO, Frame
  <2>6. Latest(c)'
    BY <1>0, <2>2, <2>3, <2>4, Zenon DEF Latest
  <2>7. Heard(c)'
    BY <2>2, <2>5, Zenon DEF Heard
  <2> QED  BY <2>6, <2>7, Zenon
<1>3. ASSUME drop_link("exporter") PROVE Latest(c)' /\ Heard(c)'
  <2>1. ~link_up'["exporter"]
    BY <1>0, <1>3, Zenon DEF drop_link, TypeOK, Sides
  <2> QED  BY <2>1, Zenon DEF Latest, Heard
<1>4. ASSUME close_link("host") PROVE Latest(c)' /\ Heard(c)'
  <2>1. drop_link("host") /\ state' = state
    BY <1>4, Zenon DEF close_link, mcuVars
  <2>2. /\ ~link_fd'["host"] /\ link_up'["exporter"] = link_up["exporter"]
        /\ txq'["exporter"] = txq["exporter"] /\ net'["exporter"] = net["exporter"]
    BY <1>0, <2>1, Zenon DEF drop_link, TypeOK, Sides
  <2>3. Status(c)' = Status(c)
    BY <2>1, Zenon DEF Status
  <2>4. Latest(c)'
    BY <1>0, <2>2, <2>3, Zenon DEF Latest
  <2>5. Heard(c)'
    BY <2>2, Zenon DEF Heard
  <2> QED  BY <2>4, <2>5, Zenon
<1>5. ASSUME NEW s \in Sides, link_write(s) PROVE Latest(c)' /\ Heard(c)'
  <2> DEFINE h == Head(txq[s])
             q == Tail(txq[s])
             p == Append(net[s], h)
  <2>1. /\ txq[s] \in Seq(Frames) /\ txq[s] # <<>> /\ net[s] \in Seq(Frames)
        /\ net' = [net EXCEPT ![s] = p] /\ txq' = [txq EXCEPT ![s] = q]
        /\ link_fd' = link_fd /\ link_up' = link_up /\ state' = state /\ pty' = pty
    BY <1>0, <1>5, Zenon DEF link_write, mcuVars, ptyVars, TypeOK
  <2>2. /\ txq'[s] = q /\ net'[s] = p
        /\ \A t \in Sides : t # s => txq'[t] = txq[t] /\ net'[t] = net[t]
    BY <1>0, <2>1, Zenon DEF TypeOK
  <2>3. /\ h \in Frames
        /\ Undecided(txq[s], c) <=> ~Decides(h, c) /\ Undecided(q, c)
        /\ HelloIn(txq[s]) <=> h.ftype = "F_HELLO" \/ HelloIn(q)
        /\ LatestIs(txq[s], c, Status(c)) <=>
             /\ LatestIs(q, c, Status(c))
             /\ Undecided(q, c) /\ Decides(h, c) => h = Status(c)
    BY <2>1, HeadDecides, Zenon
  <2>4. /\ Undecided(p, c) <=> Undecided(net[s], c) /\ ~Decides(h, c)
        /\ HelloIn(p) <=> HelloIn(net[s]) \/ h.ftype = "F_HELLO"
        /\ LatestIs(p, c, Status(c)) <=>
             IF Decides(h, c) THEN h = Status(c) ELSE LatestIs(net[s], c, Status(c))
    BY <2>1, <2>3, PushDecides, Zenon
  <2> HIDE DEF h, q, p
  <2>5. Status(c)' = Status(c)
    BY <2>1, Zenon DEF Status
  <2>6. CASE s = "exporter"
    <3>1. Latest(c)'
      BY <1>0, <2>1, <2>2, <2>3, <2>4, <2>5, <2>6, Zenon DEF Latest
    <3>2. txq'["host"] = txq["host"] /\ net'["host"] = net["host"]
      BY <2>2, <2>6, Zenon DEF Sides
    <3>3. Heard(c)'
      BY <1>0, <2>1, <2>2, <2>3, <2>4, <2>6, <3>2 DEF Heard
    <3> QED  BY <3>1, <3>3, Zenon
  <2>7. CASE s = "host"
    <3>1. txq'["exporter"] = txq["exporter"] /\ net'["exporter"] = net["exporter"]
      BY <2>2, <2>7, Zenon DEF Sides
    <3>2. Latest(c)'
      BY <1>0, <2>1, <2>5, <3>1, Zenon DEF Latest
    <3>3. Heard(c)'
      BY <1>0, <2>1, <2>2, <2>3, <2>4, <2>7, <3>1, Zenon DEF Heard
    <3> QED  BY <3>2, <3>3, Zenon
  <2> QED  BY <2>6, <2>7, Zenon DEF Sides
<1>6. ASSUME NEW d \in Channels, reset(d), state[d] # "Resetting",
             UNCHANGED <<link_fd, link_up, net, pty>>
      PROVE  Latest(c)' /\ Heard(c)'
  <2> DEFINE r == <<FLUSH(d)>>
  <2>1. transition(d, "Resetting", r)
    BY <1>6, Zenon DEF reset
  <2>2. r \in Seq(Frames) /\ Len(r) = 1 /\ r[1] = FLUSH(d)
    BY FrameTypes
  <2>3. state' = [state EXCEPT ![d] = "Resetting"]
    BY <2>1, Zenon DEF transition
  <2> HIDE DEF r
  <2>4. Decides(FLUSH(d), c) <=> d = c
    BY DecidingFrames, Zenon
  <2>5. /\ d = c => state'[c] = "Resetting" /\ state'[c] # state[c]
        /\ d # c => state'[c] = state[c]
    BY <1>0, <1>6, <2>3, Zenon DEF TypeOK
  <2>6. d # c => Undecided(r, c)
    BY <2>2, <2>4 DEF Undecided
  <2>7. d = c => ~Undecided(r, c) /\ LatestIs(r, c, Status(c)')
    BY <2>2, <2>4, <2>5 DEF Undecided, LatestIs, Status
  <2> QED  BY <1>6, <2>1, <2>2, <2>5, <2>6, <2>7, TransitionAnnounces, Zenon
<1>7. ASSUME NEW d \in Channels, uart_read(d) PROVE Latest(c)' /\ Heard(c)'
  <2> DEFINE n == items[d] + 1
  <2>0. UNCHANGED <<link_fd, link_up, net, pty>> /\ n \in Nat
    BY <1>0, <1>7 DEF uart_read, ptyVars, TypeOK
  <2> HIDE DEF n
  <2>1. /\ ~Decides(DATA(d, n), c)
        /\ Decides(READY(d), c) <=> d = c
    BY <2>0, DecidingFrames, Zenon
  <2>2. CASE state[d] = "Active" /\ transition(d, "Active", <<DATA(d, n)>>)
    <3> DEFINE r == <<DATA(d, n)>>
    <3>1. r \in Seq(Frames) /\ Len(r) = 1 /\ r[1] = DATA(d, n)
      BY <2>0, FrameTypes
    <3>2. transition(d, "Active", r)
      BY <2>2, Zenon
    <3> HIDE DEF r
    <3>3. state'[c] = state[c]
      BY <1>0, <2>2, <3>2, Zenon DEF transition, TypeOK
    <3>4. Undecided(r, c)
      BY <2>1, <3>1 DEF Undecided
    <3> QED  BY <2>0, <3>1, <3>2, <3>3, <3>4, TransitionAnnounces, Zenon
  <2>3. CASE state[d] # "Active" /\ transition(d, "Active", <<READY(d), DATA(d, n)>>)
    <3> DEFINE r == <<READY(d), DATA(d, n)>>
    <3>1. r \in Seq(Frames) /\ Len(r) = 2 /\ r[1] = READY(d) /\ r[2] = DATA(d, n)
      BY <2>0, FrameTypes
    <3>2. transition(d, "Active", r)
      BY <2>3, Zenon
    <3> HIDE DEF r
    <3>3. /\ d = c => state'[c] = "Active" /\ state'[c] # state[c]
          /\ d # c => state'[c] = state[c]
      BY <1>0, <2>3, <3>2, Zenon DEF transition, TypeOK
    <3>4. d # c => Undecided(r, c)
      BY <2>1, <3>1 DEF Undecided
    <3>5. d = c => ~Undecided(r, c) /\ LatestIs(r, c, Status(c)')
      BY <2>1, <3>1, <3>3 DEF Undecided, LatestIs, Status
    <3> QED  BY <2>0, <3>1, <3>2, <3>3, <3>4, <3>5, TransitionAnnounces, Zenon
  <2>4. CASE UNCHANGED <<state, txq>>
    <3>1. Status(c)' = Status(c)
      BY <2>4, Zenon DEF Status
    <3> QED  BY <1>0, <2>0, <2>4, <3>1, Zenon DEF Latest, Heard
  <2> QED  BY <1>7, <2>2, <2>3, <2>4, Zenon DEF uart_read, n
<1>8. ASSUME UNCHANGED <<link_fd, link_up, net, txq, state>>,
             \A d \in Channels : pty'[d] # "closed" <=> pty[d] # "closed"
      PROVE  Latest(c)' /\ Heard(c)'
  <2>1. Status(c)' = Status(c)
    BY <1>8, Zenon DEF Status
  <2> QED  BY <1>0, <1>8, <2>1, Zenon DEF Latest, Heard
<1>9. ASSUME NEW d \in Channels, silence(d) PROVE Latest(c)' /\ Heard(c)'
  BY <1>6, <1>9, Zenon DEF silence, ptyVars
<1>10. ASSUME NEW d \in Channels, uart_error(d) PROVE Latest(c)' /\ Heard(c)'
  BY <1>6, <1>8, <1>10, Zenon DEF uart_error, ptyVars
<1>11. ASSUME NEW d \in Channels, open_uart(d) PROVE Latest(c)' /\ Heard(c)'
  BY <1>8, <1>11, Zenon DEF open_uart, linkVars, ptyVars
<1>12. ASSUME NEW d \in Channels, pty_eio(d) PROVE Latest(c)' /\ Heard(c)'
  <2>1. \A e \in Channels : pty'[e] # "closed" <=> pty[e] # "closed"
    BY <1>0, <1>12, Zenon DEF pty_eio, TypeOK
  <2> QED  BY <1>8, <1>12, <2>1, Zenon DEF pty_eio, linkVars, mcuVars
<1>13. CASE UNCHANGED vars
  BY <1>8, <1>13, Zenon DEF vars, linkVars, mcuVars, ptyVars
<1>14. ASSUME NEW s \in Sides, open_link(s) \/ close_link(s) \/ link_read(s)
       PROVE  Latest(c)' /\ Heard(c)'
  <2>1. CASE s = "exporter"
    BY <1>1, <1>3, <1>14, <2>1, ExporterReads, Zenon DEF close_link
  <2>2. CASE s = "host"
    BY <1>2, <1>4, <1>14, <2>2, HostReads, Zenon
  <2> QED  BY <2>1, <2>2, Zenon DEF Sides
<1>15. ASSUME Restart PROVE Latest(c)' /\ Heard(c)'
  BY <1>3, <1>15, Zenon DEF Restart
<1> QED
  BY <1>5, <1>7, <1>9, <1>10, <1>11, <1>12, <1>13, <1>14, <1>15, Zenon DEF Next

-----------------------------------------------------------------------------
\* The inductive invariant.
THEOREM Invariance == Spec => []IInv
<1>1. Init => IInv
  BY DEF Init, IInv, TypeOK, ClosedLinkIsSilent, Latest, Heard, Sides
<1>2. IInv /\ [Next]_vars => IInv'
  <2> SUFFICES ASSUME IInv, [Next]_vars PROVE IInv'
    BY Zenon
  <2>1. TypeOK' /\ ClosedLinkIsSilent'
    BY TypeStep, SilentStep, Zenon DEF IInv
  <2>2. \A c \in Channels : Latest(c)' /\ Heard(c)'
    BY AgreeStep, Zenon
  <2> QED  BY <2>1, <2>2, Zenon DEF IInv
<1> QED  BY <1>1, <1>2, PTL DEF Spec

\* While its link fd is closed a daemon has nothing queued, no handshake and
\* no PTY open (close_link and the on_link_disconnect handlers).
THEOREM ClosedSilence == Spec => []ClosedLinkIsSilent
<1>1. IInv => ClosedLinkIsSilent
  BY Zenon DEF IInv
<1> QED  BY <1>1, Invariance, PTL

\* When everything has been heard, the host has exactly the PTYs of the active
\* MCUs open, after any sequence of reconnections, restarts and resets.
THEOREM Agreement == Spec => []PtyAgrees
<1>1. IInv => PtyAgrees
  <2> SUFFICES ASSUME IInv, link_up["exporter"], link_fd["host"],
                      Pending("exporter") = <<>>, ~HelloPending("host"),
                      NEW c \in Channels
               PROVE  pty[c] # "closed" <=> state[c] = "Active"
    BY Zenon DEF PtyAgrees
  <2>1. \A s \in Sides : net[s] \in Seq(Frames) /\ txq[s] \in Seq(Frames)
    BY Zenon DEF IInv, TypeOK
  <2>2. net["exporter"] = <<>> /\ txq["exporter"] = <<>>
    BY <2>1, SameQueues, Zenon DEF Pending, Sides
  <2>3. Undecided(net["exporter"], c) /\ Undecided(txq["exporter"], c)
    BY <2>2 DEF Undecided
  <2>4. ~HelloIn(Pending("host"))
    <3>1. Pending("host") \in Seq(Frames)
      BY <2>1 DEF Pending, Sides
    <3>2. DOMAIN Pending("host") = 1..Len(Pending("host"))
      BY <3>1
    <3> QED  BY <3>2, Zenon DEF HelloPending, HelloIn
  <2>5. ~HelloIn(net["host"]) /\ ~HelloIn(txq["host"])
    BY <2>1, <2>4, AppendDecides, Zenon DEF Pending, Sides
  <2> QED  BY <2>3, <2>5, Zenon DEF IInv, Heard
<1> QED  BY <1>1, Invariance, PTL

-----------------------------------------------------------------------------
(* The streams of the PTYs: facts about chains, then what each step does to  *)
(* the stream of a channel.                                                 *)

\* Appending frames z without an item of c to q.
LEMMA AppendChain ==
    ASSUME NEW c, NEW q \in Seq(Frames), NEW z \in Seq(Frames), NEW A, Chain(q, c),
           \A i \in 1..Len(z) : ~IsData(z[i], c)
    PROVE  /\ Chain(q \o z, c)
           /\ Ends(q, c, A) => Ends(q \o z, c, A)
           /\ (\E i \in 1..Len(z) : Breaks(z[i], c)) => Ends(q \o z, c, {})
<1> DEFINE w == q \o z
<1>1. /\ Len(w) = Len(q) + Len(z) /\ Len(q) \in Nat /\ Len(z) \in Nat
      /\ \A i \in 1..Len(q) : w[i] = q[i]
      /\ \A i \in 1..Len(z) : w[i + Len(q)] = z[i]
      /\ \A i \in 1..Len(w) : i \notin 1..Len(q) => i - Len(q) \in 1..Len(z)
      /\ \A i \in 1..Len(w) : i \notin 1..Len(q) => w[i] = z[i - Len(q)]
  OBVIOUS
<1> HIDE DEF w
<1>2. ASSUME NEW i \in 1..Len(w), IsData(w[i], c)
      PROVE  i \in 1..Len(q) /\ w[i] = q[i] /\ IsData(q[i], c)
  <2>1. i \in 1..Len(q)
    BY <1>1, <1>2, Zenon
  <2> QED  BY <1>1, <1>2, <2>1, Zenon
<1>3. Chain(w, c)
  <2> SUFFICES ASSUME NEW i \in 1..Len(w), NEW j \in 1..Len(w), i < j,
                      IsData(w[i], c), IsData(w[j], c)
               PROVE  w[j].item = w[i].item + 1
                        \/ \E k \in (i + 1)..(j - 1) : Marks(w[k], c)
    BY Zenon DEF Chain
  <2>1. /\ i \in 1..Len(q) /\ w[i] = q[i] /\ IsData(q[i], c)
        /\ j \in 1..Len(q) /\ w[j] = q[j] /\ IsData(q[j], c)
    BY <1>2, Zenon
  <2>2. CASE q[j].item = q[i].item + 1
    BY <2>1, <2>2, Zenon
  <2>3. ASSUME NEW k \in (i + 1)..(j - 1), Marks(q[k], c)
        PROVE  \E m \in (i + 1)..(j - 1) : Marks(w[m], c)
    <3>1. k \in 1..Len(q)
      BY <2>1
    <3> QED  BY <1>1, <2>3, <3>1, Zenon
  <2> QED  BY <2>1, <2>2, <2>3, Zenon DEF Chain
<1>4. ASSUME Ends(q, c, A) PROVE Ends(w, c, A)
  <2> SUFFICES ASSUME NEW i \in 1..Len(w), IsData(w[i], c)
               PROVE  w[i].item \in A \/ \E k \in (i + 1)..Len(w) : Marks(w[k], c)
    BY Zenon DEF Ends
  <2>1. i \in 1..Len(q) /\ w[i] = q[i] /\ IsData(q[i], c)
    BY <1>2, Zenon
  <2>2. CASE q[i].item \in A
    BY <2>1, <2>2, Zenon
  <2>3. ASSUME NEW k \in (i + 1)..Len(q), Marks(q[k], c)
        PROVE  \E m \in (i + 1)..Len(w) : Marks(w[m], c)
    <3>1. k \in 1..Len(q) /\ k \in (i + 1)..Len(w)
      BY <1>1, <2>1
    <3> QED  BY <1>1, <2>3, <3>1, Zenon
  <2> QED  BY <1>4, <2>1, <2>2, <2>3, Zenon DEF Ends
<1>5. ASSUME NEW j \in 1..Len(z), Breaks(z[j], c) PROVE Ends(w, c, {})
  <2> SUFFICES ASSUME NEW i \in 1..Len(w), IsData(w[i], c)
               PROVE  \E k \in (i + 1)..Len(w) : Marks(w[k], c)
    BY Zenon DEF Ends
  <2>1. i \in 1..Len(q)
    BY <1>2, Zenon
  <2>2. j + Len(q) \in (i + 1)..Len(w)
    BY <1>1, <2>1
  <2>3. Marks(w[j + Len(q)], c)
    BY <1>1, <1>5, Zenon DEF Marks
  <2> QED  BY <2>2, <2>3, Zenon
<1> QED  BY <1>3, <1>4, <1>5, Zenon DEF w

\* Appending the next item of c to q.
LEMMA PushItem ==
    ASSUME NEW c, NEW q \in Seq(Frames), NEW n \in Nat, NEW f \in Frames,
           Chain(q, c), Ends(q, c, {n}), IsData(f, c), f.item = n + 1
    PROVE  /\ Chain(q \o <<f>>, c)
           /\ Ends(q \o <<f>>, c, {n + 1})
<1> DEFINE w == q \o <<f>>
<1>1. /\ Len(w) = Len(q) + 1 /\ Len(q) \in Nat
      /\ \A i \in 1..Len(q) : w[i] = q[i]
      /\ w[Len(q) + 1] = f
      /\ \A i \in 1..Len(w) : i \in 1..Len(q) \/ i = Len(q) + 1
  OBVIOUS
<1> HIDE DEF w
<1>2. Chain(w, c)
  <2> SUFFICES ASSUME NEW i \in 1..Len(w), NEW j \in 1..Len(w), i < j,
                      IsData(w[i], c), IsData(w[j], c)
               PROVE  w[j].item = w[i].item + 1
                        \/ \E k \in (i + 1)..(j - 1) : Marks(w[k], c)
    BY Zenon DEF Chain
  <2>1. i \in 1..Len(q) /\ w[i] = q[i]
    BY <1>1
  <2>2. CASE j \in 1..Len(q)
    <3>1. w[j] = q[j] /\ \A k \in (i + 1)..(j - 1) : w[k] = q[k]
      BY <1>1, <2>1, <2>2
    <3> QED  BY <2>1, <2>2, <3>1, Zenon DEF Chain
  <2>3. CASE j = Len(q) + 1
    <3>1. w[j].item = n + 1
      BY <1>1, <2>3, Zenon
    <3>2. q[i].item \in {n} \/ \E k \in (i + 1)..Len(q) : Marks(q[k], c)
      BY <2>1, Zenon DEF Ends
    <3>3. \A k \in (i + 1)..Len(q) : k \in (i + 1)..(j - 1) /\ w[k] = q[k]
      BY <1>1, <2>1, <2>3
    <3> QED  BY <2>1, <3>1, <3>2, <3>3, Zenon
  <2> QED  BY <1>1, <2>2, <2>3, Zenon
<1>3. Ends(w, c, {n + 1})
  <2> SUFFICES ASSUME NEW i \in 1..Len(w), IsData(w[i], c)
               PROVE  w[i].item \in {n + 1} \/ \E k \in (i + 1)..Len(w) : Marks(w[k], c)
    BY Zenon DEF Ends
  <2>1. CASE i \in 1..Len(q)
    <3>1. Len(q) + 1 \in (i + 1)..Len(w) /\ Marks(w[Len(q) + 1], c)
      BY <1>1, <2>1 DEF Marks
    <3> QED  BY <3>1, Zenon
  <2>2. CASE i = Len(q) + 1
    BY <1>1, <2>2, Zenon
  <2> QED  BY <1>1, <2>1, <2>2, Zenon
<1> QED  BY <1>2, <1>3, Zenon DEF w

\* A prefix w of q.
LEMMA CutChain ==
    ASSUME NEW c, NEW q \in Seq(Frames), NEW w \in Seq(Frames), Chain(q, c),
           Len(w) <= Len(q), \A i \in 1..Len(w) : w[i] = q[i]
    PROVE  Chain(w, c)
<1> SUFFICES ASSUME NEW i \in 1..Len(w), NEW j \in 1..Len(w), i < j,
                    IsData(w[i], c), IsData(w[j], c)
             PROVE  w[j].item = w[i].item + 1
                      \/ \E k \in (i + 1)..(j - 1) : Marks(w[k], c)
  BY Zenon DEF Chain
<1>1. /\ i \in 1..Len(q) /\ j \in 1..Len(q) /\ w[i] = q[i] /\ w[j] = q[j]
      /\ \A k \in (i + 1)..(j - 1) : w[k] = q[k]
  OBVIOUS
<1> QED  BY <1>1, Zenon DEF Chain

\* The first l frames of q go, and w[1] stands where the one after them did:
\* a frame that is no item of c, that very frame, or the first of q when none
\* of those after it was a mark.
LEMMA ShiftChain ==
    ASSUME NEW c, NEW q \in Seq(Frames), NEW w \in Seq(Frames), NEW l \in Nat,
           NEW A, Chain(q, c), Len(w) = Len(q) - l, 1 <= Len(w),
           \A i \in 2..Len(w) : w[i] = q[i + l],
           \/ ~IsData(w[1], c)
           \/ w[1] = q[1 + l]
           \/ w[1] = q[1] /\ \A i \in 2..(1 + l) : ~Marks(q[i], c)
    PROVE  /\ Chain(w, c)
           /\ Ends(q, c, A) => Ends(w, c, A)
<1>1. /\ \A i \in 1..Len(w) : i + l \in 1..Len(q) /\ (i = 1 \/ i \in 2..Len(w))
      /\ 1 \in 1..Len(q) /\ Len(w) \in Nat /\ Len(q) \in Nat
  OBVIOUS
\* An item of w is one of q, with no mark between the place it had there and
\* the place that corresponds to its own.
<1>2. ASSUME NEW i \in 1..Len(w), IsData(w[i], c)
      PROVE  \E pos \in 1..Len(q) : /\ pos <= i + l /\ w[i] = q[pos]
                                    /\ \A k \in (pos + 1)..(i + l) : ~Marks(q[k], c)
  <2>1. CASE i \in 2..Len(w) \/ (i = 1 /\ w[1] = q[1 + l])
    <3>1. w[i] = q[i + l] /\ i + l \in 1..Len(q)
      BY <1>1, <2>1, Zenon
    <3>2. i + l <= i + l /\ \A k \in (i + l + 1)..(i + l) : ~Marks(q[k], c)
      BY <1>1
    <3> WITNESS i + l \in 1..Len(q)
    <3> QED  BY <3>1, <3>2, Zenon
  <2>2. CASE i = 1 /\ w[1] = q[1] /\ \A k \in 2..(1 + l) : ~Marks(q[k], c)
    BY <1>1, <2>2
  <2> QED  BY <1>1, <1>2, <2>1, <2>2, Zenon
\* So a mark of q after it, up to the place of j, is one of w.
<1>3. ASSUME NEW i \in 1..Len(w), NEW j \in 1..Len(w), NEW pos \in 1..Len(q),
             \A k \in (pos + 1)..(i + l) : ~Marks(q[k], c),
             NEW k \in (pos + 1)..(j + l), Marks(q[k], c)
      PROVE  k - l \in (i + 1)..j /\ Marks(w[k - l], c)
  <2>1. k \notin (pos + 1)..(i + l)
    BY <1>3, Zenon
  <2>2. k - l \in (i + 1)..j /\ k - l \in 2..Len(w)
    BY <2>1
  <2>3. w[k - l] = q[k]
    BY <2>2
  <2> QED  BY <1>3, <2>2, <2>3, Zenon
<1>4. Chain(w, c)
  <2> SUFFICES ASSUME NEW i \in 1..Len(w), NEW j \in 1..Len(w), i < j,
                      IsData(w[i], c), IsData(w[j], c)
               PROVE  w[j].item = w[i].item + 1
                        \/ \E k \in (i + 1)..(j - 1) : Marks(w[k], c)
    BY Zenon DEF Chain
  <2>1. PICK pos \in 1..Len(q) : /\ pos <= i + l /\ w[i] = q[pos]
                                 /\ \A k \in (pos + 1)..(i + l) : ~Marks(q[k], c)
    BY <1>2, Zenon
  <2>2. /\ w[j] = q[j + l] /\ j + l \in 1..Len(q) /\ pos < j + l
        /\ pos + 1 \in Nat /\ j + l \in Nat
    BY <1>1, <2>1
  <2>3. CASE q[j + l].item = q[pos].item + 1
    BY <2>1, <2>2, <2>3, Zenon
  <2>4. ASSUME NEW k \in (pos + 1)..((j + l) - 1), Marks(q[k], c)
        PROVE  \E m \in (i + 1)..(j - 1) : Marks(w[m], c)
    <3>1. k \in (pos + 1)..(j + l) /\ k # j + l
      BY <2>2, Upto, Zenon
    <3>2. k - l \in (i + 1)..j /\ Marks(w[k - l], c)
      BY <1>3, <2>1, <2>4, <3>1, Zenon
    <3>3. k - l \in (i + 1)..(j - 1)
      BY <3>1, <3>2
    <3> QED  BY <3>2, <3>3, Zenon
  <2>5. IsData(q[pos], c) /\ IsData(q[j + l], c)
    BY <2>1, <2>2, Zenon
  <2> QED  BY <2>2, <2>3, <2>4, <2>5, Zenon DEF Chain
<1>5. ASSUME Ends(q, c, A) PROVE Ends(w, c, A)
  <2> SUFFICES ASSUME NEW i \in 1..Len(w), IsData(w[i], c)
               PROVE  w[i].item \in A \/ \E k \in (i + 1)..Len(w) : Marks(w[k], c)
    BY Zenon DEF Ends
  <2>1. PICK pos \in 1..Len(q) : /\ pos <= i + l /\ w[i] = q[pos]
                                 /\ \A k \in (pos + 1)..(i + l) : ~Marks(q[k], c)
    BY <1>2, Zenon
  <2>2. CASE q[pos].item \in A
    BY <2>1, <2>2, Zenon
  <2>3. ASSUME NEW k \in (pos + 1)..Len(q), Marks(q[k], c)
        PROVE  \E m \in (i + 1)..Len(w) : Marks(w[m], c)
    <3>1. k \in (pos + 1)..(Len(w) + l) /\ Len(w) \in 1..Len(w)
      BY <1>1
    <3> QED  BY <1>3, <2>1, <2>3, <3>1, Zenon
  <2> QED  BY <1>5, <2>1, <2>2, <2>3, Zenon DEF Ends
<1> QED  BY <1>4, <1>5, Zenon

\* The places of a stream made of the frame f and two queues.
LEMMA StreamPlaces ==
    ASSUME NEW f \in Frames, NEW u \in Seq(Frames), NEW v \in Seq(Frames)
    PROVE  Places(<<f>> \o (u \o v), f, u, v)
<1> DEFINE x == u \o v
<1>1. /\ x \in Seq(Frames) /\ Len(x) = Len(u) + Len(v)
      /\ Len(u) \in Nat /\ Len(v) \in Nat
      /\ \A i \in 1..Len(u) : x[i] = u[i]
      /\ \A i \in 1..Len(v) : x[i + Len(u)] = v[i]
  OBVIOUS
<1> HIDE DEF x
<1> DEFINE z == <<f>> \o x
<1>2. /\ Len(z) = 1 + Len(x) /\ z[1] = f
      /\ \A i \in 1..Len(x) : z[i + 1] = x[i]
  BY <1>1
<1> HIDE DEF z
<1>3. Len(z) = 1 + Len(u) + Len(v)
  BY <1>1, <1>2
<1>4. ASSUME NEW i \in 1..Len(u) PROVE z[i + 1] = u[i]
  <2>1. i \in 1..Len(x)
    BY <1>1
  <2> QED  BY <1>1, <1>2, <2>1, Zenon
<1>5. ASSUME NEW i \in 1..Len(v) PROVE z[i + 1 + Len(u)] = v[i]
  <2>1. i + Len(u) \in 1..Len(x) /\ (i + Len(u)) + 1 = i + 1 + Len(u)
    BY <1>1
  <2>2. x[i + Len(u)] = v[i]
    BY <1>1, Zenon
  <2> QED  BY <1>2, <2>1, <2>2, Zenon
<1>6. \A i \in 2..Len(z) : i - 1 \in 1..Len(u) \/ i - 1 - Len(u) \in 1..Len(v)
  BY <1>1, <1>3
<1>7. Places(z, f, u, v)
  BY <1>2, <1>3, <1>4, <1>5, <1>6, Zenon DEF Places
<1> QED  BY <1>7, Zenon DEF z, x

\* Two frames one after the other are a pair.
LEMMA PairConcat ==
    ASSUME NEW f \in Frames, NEW g \in Frames
    PROVE  <<f>> \o <<g>> = <<f, g>>
<1> DEFINE w == <<f>> \o <<g>>
           q == <<f, g>>
<1>1. w \in Seq(Frames) /\ Len(w) = 2 /\ w[1] = f /\ w[2] = g
  OBVIOUS
<1>2. q \in Seq(Frames) /\ Len(q) = 2 /\ q[1] = f /\ q[2] = g
  OBVIOUS
<1> HIDE DEF w, q
<1>3. \A i \in 1..Len(w) : w[i] = q[i]
  BY <1>1, <1>2
<1>4. w = q
  BY <1>1, <1>2, <1>3, SameElements, Zenon
<1> QED  BY <1>4, Zenon DEF w, q

\* drain_to_fd moves a frame from the queue to the wire: the stream is the same.
LEMMA StreamPasses ==
    ASSUME NEW u \in Seq(Frames), NEW v \in Seq(Frames), v # <<>>
    PROVE  Append(u, Head(v)) \o Tail(v) = u \o v
<1>1. /\ Head(v) \in Frames /\ Tail(v) \in Seq(Frames)
      /\ v = <<Head(v)>> \o Tail(v)
  OBVIOUS
<1>2. <<Head(v)>> \in Seq(Frames)
  BY <1>1
<1>3. u \o (<<Head(v)>> \o Tail(v)) = (u \o <<Head(v)>>) \o Tail(v)
  BY <1>1, <1>2, Associative, Zenon
<1>4. u \o <<Head(v)>> = Append(u, Head(v))
  BY <1>1, SameQueues, Zenon
<1> QED  BY <1>1, <1>3, <1>4, Zenon

\* The wire loses its end and the queue all it has: the stream loses its end.
LEMMA StreamCuts ==
    ASSUME NEW f \in Frames, NEW u \in Seq(Frames), NEW v \in Seq(Frames),
           NEW k \in 0..Len(u), NEW w \in Seq(Frames), NEW q \in Seq(Frames),
           q = <<f>> \o (u \o v), w = <<f>> \o (SubSeq(u, 1, k) \o <<>>)
    PROVE  /\ Len(w) <= Len(q)
           /\ \A i \in 1..Len(w) : w[i] = q[i]
<1>0. Len(u) \in Nat /\ Len(v) \in Nat
  OBVIOUS
<1> DEFINE x == SubSeq(u, 1, k)
<1>1. x \in Seq(Frames) /\ Len(x) = k /\ \A i \in 1..k : x[i] = u[i]
  BY <1>0
<1>2. <<>> \in Seq(Frames) /\ Len(<<>>) = 0
  OBVIOUS
<1>7. w = <<f>> \o (x \o <<>>)
  BY Zenon
<1> HIDE DEF x
<1>8. Places(w, f, x, <<>>) /\ Places(q, f, u, v)
  BY <1>1, <1>2, <1>7, StreamPlaces, Zenon
<1>3. /\ Len(w) = 1 + k /\ w[1] = f
      /\ \A i \in 1..k : w[i + 1] = x[i]
  BY <1>1, <1>2, <1>8 DEF Places
<1>4. /\ Len(q) = 1 + Len(u) + Len(v) /\ q[1] = f
      /\ \A i \in 1..Len(u) : q[i + 1] = u[i]
  BY <1>8, Zenon DEF Places
<1>5. ASSUME NEW i \in 1..Len(w) PROVE w[i] = q[i]
  <2>1. CASE i = 1
    BY <1>3, <1>4, <2>1, Zenon
  <2>2. CASE i # 1
    <3>1. i - 1 \in 1..k /\ i - 1 \in 1..Len(u) /\ (i - 1) + 1 = i
      BY <1>0, <1>3, <2>2
    <3> QED  BY <1>1, <1>3, <1>4, <3>1, Zenon
  <2> QED  BY <2>1, <2>2, Zenon
<1>6. Len(w) <= Len(q)
  BY <1>0, <1>3, <1>4
<1> QED  BY <1>3, <1>5, <1>6, Zenon

\* The wire loses its first l frames and another frame comes before it.
LEMMA StreamShifts ==
    ASSUME NEW f \in Frames, NEW u \in Seq(Frames), NEW v \in Seq(Frames),
           NEW g \in Frames, NEW l \in 0..Len(u)
    PROVE  Shifted(<<g>> \o (SubSeq(u, l + 1, Len(u)) \o v), <<f>> \o (u \o v), l, g)
<1>0. Len(u) \in Nat /\ Len(v) \in Nat
  OBVIOUS
<1> DEFINE x == SubSeq(u, l + 1, Len(u))
           w == <<g>> \o (x \o v)
           q == <<f>> \o (u \o v)
<1>1. x \in Seq(Frames) /\ Len(x) = Len(u) - l /\ \A i \in 1..Len(x) : x[i] = u[i + l]
  BY <1>0
<1> HIDE DEF x
<1>2. Places(w, g, x, v) /\ Places(q, f, u, v)
  BY <1>1, StreamPlaces, Zenon
<1> HIDE DEF w, q
<1>3. /\ Len(w) = 1 + Len(x) + Len(v) /\ w[1] = g
      /\ \A i \in 1..Len(x) : w[i + 1] = x[i]
      /\ \A i \in 1..Len(v) : w[i + 1 + Len(x)] = v[i]
      /\ \A i \in 2..Len(w) : i - 1 \in 1..Len(x) \/ i - 1 - Len(x) \in 1..Len(v)
  BY <1>2, Zenon DEF Places
<1>4. /\ Len(q) = 1 + Len(u) + Len(v)
      /\ \A i \in 1..Len(u) : q[i + 1] = u[i]
      /\ \A i \in 1..Len(v) : q[i + 1 + Len(u)] = v[i]
  BY <1>2, Zenon DEF Places
<1>5. ASSUME NEW i \in 2..Len(w) PROVE w[i] = q[i + l]
  <2>1. CASE i - 1 \in 1..Len(x)
    <3>1. /\ (i - 1) + 1 = i /\ i - 1 + l \in 1..Len(u) /\ (i - 1 + l) + 1 = i + l
      BY <1>0, <1>1, <2>1
    <3>2. w[i] = x[i - 1] /\ x[i - 1] = u[i - 1 + l] /\ q[i + l] = u[i - 1 + l]
      BY <1>1, <1>3, <1>4, <2>1, <3>1, Zenon
    <3> QED  BY <3>2, Zenon
  <2>2. CASE i - 1 - Len(x) \in 1..Len(v)
    <3> DEFINE j == i - 1 - Len(x)
    <3>1. /\ j + 1 + Len(x) = i /\ j + 1 + Len(u) = i + l
      BY <1>0, <1>1
    <3>2. j \in 1..Len(v)
      BY <2>2, Zenon
    <3> HIDE DEF j
    <3> QED  BY <1>3, <1>4, <3>1, <3>2, Zenon
  <2> QED  BY <1>3, <2>1, <2>2, Zenon
<1>6. Len(w) = Len(q) - l /\ 1 <= Len(w)
  BY <1>0, <1>1, <1>3, <1>4
<1>7. Shifted(w, q, l, g)
  BY <1>3, <1>5, <1>6, Zenon DEF Shifted
<1> QED  BY <1>7, Zenon DEF w, q, x

\* The queue grows: the stream grows by the same frames.
LEMMA StreamAppends ==
    ASSUME NEW f \in Frames, NEW u \in Seq(Frames), NEW v \in Seq(Frames),
           NEW z \in Seq(Frames)
    PROVE  <<f>> \o (u \o (v \o z)) = (<<f>> \o (u \o v)) \o z
<1>1. <<f>> \in Seq(Frames) /\ u \o v \in Seq(Frames)
  OBVIOUS
<1>2. u \o (v \o z) = (u \o v) \o z
  BY Associative, Zenon
<1>3. <<f>> \o ((u \o v) \o z) = (<<f>> \o (u \o v)) \o z
  BY <1>1, Associative
<1> QED  BY <1>2, <1>3, Zenon

\* The stream of c is a sequence of frames that starts with what was fed last.
LEMMA StreamType ==
    ASSUME TypeOK, NEW c \in Channels
    PROVE  /\ First(c, fed[c]) \in Frames /\ Stream(c) \in Seq(Frames)
           /\ net["exporter"] \in Seq(Frames) /\ txq["exporter"] \in Seq(Frames)
           /\ \A n \in Nat : First(c, n) \in Frames
           /\ ~IsData(First(c, 0), c)
           /\ \A n \in Nat : n # 0 => IsData(First(c, n), c) /\ First(c, n).item = n
<1>1. /\ net["exporter"] \in Seq(Frames) /\ txq["exporter"] \in Seq(Frames)
      /\ fed[c] \in Nat
  BY Zenon DEF TypeOK, Sides
<1>2. \A n \in Nat : First(c, n) \in Frames
  BY FrameTypes, Zenon DEF First
<1>3. Stream(c) \in Seq(Frames)
  BY <1>1, <1>2 DEF Stream
<1>4. ~IsData(First(c, 0), c)
  BY Zenon DEF IsData, First, FLUSH, Frame
<1>5. \A n \in Nat : n # 0 => IsData(First(c, n), c) /\ First(c, n).item = n
  BY Zenon DEF IsData, First, DATA, Frame
<1> QED  BY <1>1, <1>2, <1>3, <1>4, <1>5, Zenon

\* A larger set of last items is a weaker claim.
LEMMA EndsWeaker ==
    ASSUME NEW q, NEW c, NEW A, NEW B, A \subseteq B, Ends(q, c, A)
    PROVE  Ends(q, c, B)
BY Zenon DEF Ends

\* The exporter queues frames z: the stream grows by them.
LEMMA StreamGrows ==
    ASSUME TypeOK, NEW c \in Channels, NEW z \in Seq(Frames),
           fed'[c] = fed[c], net'["exporter"] = net["exporter"],
           txq'["exporter"] = txq["exporter"] \o z
    PROVE  Stream(c)' = Stream(c) \o z
<1> DEFINE u == net["exporter"]
           v == txq["exporter"]
           f == First(c, fed[c])
<1>1. u \in Seq(Frames) /\ v \in Seq(Frames) /\ f \in Frames
  BY StreamType, Zenon
<1>2. Stream(c) = <<f>> \o (u \o v)
  BY Zenon DEF Stream
<1>3. Stream(c)' = <<f>> \o (u \o (v \o z))
  BY Zenon DEF Stream, First
<1> HIDE DEF f, u, v
<1>4. <<f>> \o (u \o (v \o z)) = (<<f>> \o (u \o v)) \o z
  BY <1>1, StreamAppends, Zenon
<1> QED  BY <1>2, <1>3, <1>4, Zenon

\* Frames with no item of c are queued, or none at all.
LEMMA PlainGrowth ==
    ASSUME TypeOK, NEW c \in Channels, Contiguous(c), NEW z \in Seq(Frames),
           fed'[c] = fed[c], pty'[c] = pty[c], net'["exporter"] = net["exporter"],
           txq'["exporter"] = txq["exporter"] \o z,
           \A i \in 1..Len(z) : ~IsData(z[i], c),
           link_fd'["exporter"] =>
              \/ link_fd["exporter"] /\ Current(c) \subseteq Current(c)'
              \/ \E i \in 1..Len(z) : Breaks(z[i], c)
    PROVE  Contiguous(c)'
<1>1. Stream(c)' = Stream(c) \o z /\ Stream(c) \in Seq(Frames)
  BY StreamGrows, StreamType, Zenon
<1>2. Chain(Stream(c), c) /\ (pty[c] # "open" => fed[c] = 0)
  BY Zenon DEF Contiguous
<1>3. /\ Chain(Stream(c) \o z, c)
      /\ Ends(Stream(c), c, Current(c)) => Ends(Stream(c) \o z, c, Current(c))
      /\ (\E i \in 1..Len(z) : Breaks(z[i], c)) => Ends(Stream(c) \o z, c, {})
  BY <1>1, <1>2, AppendChain, Zenon
<1>4. ASSUME link_fd'["exporter"] PROVE Ends(Stream(c) \o z, c, Current(c)')
  <2>1. CASE link_fd["exporter"] /\ Current(c) \subseteq Current(c)'
    BY <1>3, <2>1, EndsWeaker, Zenon DEF Contiguous
  <2>2. CASE \E i \in 1..Len(z) : Breaks(z[i], c)
    <3>1. {} \subseteq Current(c)'
      BY Zenon
    <3>2. Ends(Stream(c) \o z, c, {})
      BY <1>3, <2>2, Zenon
    <3> DEFINE x == Stream(c) \o z
               A == Current(c)'
    <3> HIDE DEF x, A
    <3>3. Ends(x, c, {}) /\ {} \subseteq A
      BY <3>1, <3>2, Zenon DEF x, A
    <3>4. Ends(x, c, A)
      BY <3>3, EndsWeaker
    <3> QED  BY <3>4, Zenon DEF x, A
  <2> QED  BY <1>4, <2>1, <2>2, Zenon
<1>5. Chain(Stream(c), c)'
  BY <1>1, <1>3, Zenon DEF Chain
<1>6. Ends(Stream(c), c, Current(c))' <=> Ends(Stream(c) \o z, c, Current(c)')
  BY <1>1, Zenon DEF Ends
<1> QED  BY <1>2, <1>4, <1>5, <1>6, Zenon DEF Contiguous

\* The next item of c is queued.
LEMMA ItemGrowth ==
    ASSUME TypeOK, NEW c \in Channels, Contiguous(c), NEW z \in Seq(Frames),
           NEW n \in Nat, link_fd["exporter"],
           fed'[c] = fed[c], pty'[c] = pty[c], net'["exporter"] = net["exporter"],
           txq'["exporter"] = txq["exporter"] \o (z \o <<DATA(c, n + 1)>>),
           \A i \in 1..Len(z) : ~IsData(z[i], c),
           Current(c) \subseteq {n}, Current(c)' = {n + 1}
    PROVE  Contiguous(c)'
<1> DEFINE w == Stream(c) \o z
           f == DATA(c, n + 1)
<1>1. f \in Frames /\ IsData(f, c) /\ f.item = n + 1
  BY FrameTypes DEF IsData, DATA, Frame
<1>2. Stream(c) \in Seq(Frames) /\ w \in Seq(Frames) /\ <<f>> \in Seq(Frames)
  BY <1>1, StreamType
<1> HIDE DEF f
<1>3. Stream(c)' = w \o <<f>>
  <2>1. z \o <<f>> \in Seq(Frames)
    BY <1>2
  <2>2. txq'["exporter"] = txq["exporter"] \o (z \o <<f>>)
    BY Zenon DEF f
  <2>3. Stream(c)' = Stream(c) \o (z \o <<f>>)
    BY <2>1, <2>2, StreamGrows, Zenon
  <2>4. Stream(c) \o (z \o <<f>>) = (Stream(c) \o z) \o <<f>>
    <3> DEFINE x == Stream(c)
               y == <<f>>
    <3>1. x \in Seq(Frames) /\ y \in Seq(Frames)
      BY <1>2, Zenon
    <3> HIDE DEF x, y
    <3>2. Regroups(x, z, y)
      BY <3>1, Associates, Zenon
    <3> QED  BY <3>2, Zenon DEF x, y, Regroups
  <2> QED  BY <2>3, <2>4, Zenon
<1>4. /\ Chain(Stream(c), c) /\ Ends(Stream(c), c, Current(c))
      /\ pty[c] # "open" => fed[c] = 0
  BY Zenon DEF Contiguous
<1>5. Chain(w, c) /\ Ends(w, c, Current(c))
  BY <1>2, <1>4, AppendChain, Zenon
<1>6. Ends(w, c, {n})
  BY <1>5, EndsWeaker, Zenon
<1> HIDE DEF w
<1>7. Chain(w \o <<f>>, c) /\ Ends(w \o <<f>>, c, {n + 1})
  BY <1>1, <1>2, <1>5, <1>6, PushItem, Zenon
<1>8. Chain(Stream(c), c)' /\ Ends(Stream(c), c, Current(c))'
  BY <1>3, <1>7, Zenon DEF Chain, Ends
<1> QED  BY <1>4, <1>8, Zenon DEF Contiguous

\* The wire loses its first l frames; what was fed last is forgotten, is the
\* frame taken, or stays when no mark of c was taken.
LEMMA WireShifts ==
    ASSUME TypeOK, NEW c \in Channels, Contiguous(c),
           NEW l \in 0..Len(net["exporter"]),
           net'["exporter"] = SubSeq(net["exporter"], l + 1, Len(net["exporter"])),
           txq'["exporter"] = txq["exporter"],
           link_fd'["exporter"] = link_fd["exporter"], Current(c)' = Current(c),
           fed'[c] \in Nat, pty'[c] # "open" => fed'[c] = 0,
           \/ fed'[c] = 0
           \/ l = 1 /\ First(c, fed'[c]) = net["exporter"][1]
           \/ fed'[c] = fed[c] /\ \A i \in 1..l : ~Marks(net["exporter"][i], c)
    PROVE  Contiguous(c)'
<1> DEFINE u == net["exporter"]
           v == txq["exporter"]
           f == First(c, fed[c])
           g == First(c, fed'[c])
           q == <<f>> \o (u \o v)
           w == <<g>> \o (SubSeq(u, l + 1, Len(u)) \o v)
<1>0. l \in 0..Len(u) /\ l \in Nat
  OBVIOUS
<1>1. u \in Seq(Frames) /\ v \in Seq(Frames) /\ f \in Frames /\ g \in Frames
  BY StreamType, Zenon
<1>2. Stream(c) = q /\ Stream(c)' = w
  BY Zenon DEF Stream, First
<1>3. /\ fed'[c] = 0 => ~IsData(g, c)
      /\ fed'[c] = fed[c] => f = g
  BY StreamType, Zenon
<1>4. Chain(q, c) /\ (link_fd["exporter"] => Ends(q, c, Current(c)))
  BY <1>2, Zenon DEF Contiguous
<1> HIDE DEF f, g, u, v
<1>11. q \in Seq(Frames) /\ w \in Seq(Frames)
  BY <1>0, <1>1
<1>12. Shifted(w, q, l, g) /\ Places(q, f, u, v)
  BY <1>0, <1>1, StreamShifts, StreamPlaces, Zenon
<1> HIDE DEF q, w
<1>5. /\ Len(w) = Len(q) - l /\ 1 <= Len(w)
      /\ w[1] = g /\ q[1] = f
      /\ \A i \in 2..Len(w) : w[i] = q[i + l]
  BY <1>12, Zenon DEF Shifted, Places
<1>6. \A i \in 1..Len(u) : q[i + 1] = u[i]
  BY <1>12, Zenon DEF Places
<1>7. \/ ~IsData(w[1], c)
      \/ w[1] = q[1 + l]
      \/ w[1] = q[1] /\ \A i \in 2..(1 + l) : ~Marks(q[i], c)
  <2>1. CASE fed'[c] = 0
    BY <1>3, <1>5, <2>1, Zenon
  <2>2. CASE l = 1 /\ First(c, fed'[c]) = net["exporter"][1]
    <3>1. 1 \in 1..Len(u) /\ 1 + 1 = 1 + l
      BY <1>0, <1>1, <2>2
    <3>2. q[1 + l] = u[1]
      BY <1>6, <3>1, Zenon
    <3> QED  BY <1>5, <2>2, <3>2, Zenon DEF g, u
  <2>3. CASE fed'[c] = fed[c] /\ \A i \in 1..l : ~Marks(net["exporter"][i], c)
    <3>1. ASSUME NEW i \in 2..(1 + l) PROVE ~Marks(q[i], c)
      <4>1. i - 1 \in 1..l /\ i - 1 \in 1..Len(u) /\ (i - 1) + 1 = i
        BY <1>0, <1>1
      <4>2. q[i] = u[i - 1]
        BY <1>6, <4>1, Zenon
      <4> QED  BY <2>3, <4>1, <4>2, Zenon DEF u
    <3> QED  BY <1>3, <1>5, <2>3, <3>1, Zenon
  <2> QED  BY <2>1, <2>2, <2>3, Zenon
<1>8. Chain(w, c) /\ (Ends(q, c, Current(c)) => Ends(w, c, Current(c)))
  BY <1>0, <1>4, <1>5, <1>7, <1>11, ShiftChain, Zenon
<1>9. Chain(Stream(c), c)'
  BY <1>2, <1>8, Zenon DEF Chain
<1>10. Ends(Stream(c), c, Current(c))' <=> Ends(w, c, Current(c))
  BY <1>2, Zenon DEF Ends
<1> QED  BY <1>4, <1>8, <1>9, <1>10, Zenon DEF Contiguous

\* What the host's reading of the next frame off the exporter's pipe does to
\* the PTY of c: it closes it, feeds it the item read, or leaves it.
LEMMA HostTakes ==
    ASSUME TypeOK, NEW c \in Channels, Contiguous(c), link_read("host")
    PROVE  /\ 1 \in 0..Len(net["exporter"])
           /\ net'["exporter"] = SubSeq(net["exporter"], 1 + 1, Len(net["exporter"]))
           /\ txq'["exporter"] = txq["exporter"] /\ UNCHANGED <<link_fd, state, items>>
           /\ link_up'["exporter"] = link_up["exporter"]
           /\ fed'[c] \in Nat /\ (pty'[c] # "open" => fed'[c] = 0)
           /\ \/ fed'[c] = 0
              \/ First(c, fed'[c]) = net["exporter"][1]
              \/ fed'[c] = fed[c] /\ ~Marks(net["exporter"][1], c)
<1> DEFINE u == net["exporter"]
           f == u[1]
<1>1. /\ u \in Seq(Frames) /\ u # <<>> /\ net' = [net EXCEPT !["exporter"] = Tail(u)]
      /\ link_fd' = link_fd
      /\ \/ f.ftype = "F_HELLO" /\ on_hello("host")
         \/ f.ftype = "F_ACK" /\ on_ack("host")
         \/ pty_on_frame(f)
  BY DEF link_read, dispatch_frame, Peer, TypeOK, Sides
<1>2. Len(u) \in Nat /\ 1 \in 0..Len(u) /\ f \in Frames
  BY <1>1
<1>3. net'["exporter"] = SubSeq(u, 1 + 1, Len(u))
  <2>1. Tail(u) = SubSeq(u, 2, Len(u))
    BY <1>1, SameQueues, Zenon
  <2> QED  BY <1>1, <2>1 DEF TypeOK, Sides
<1> HIDE DEF f
<1>4. <<ACK>> \in Seq(Frames) /\ <<>> \in Seq(Frames)
  BY FrameTypes
<1>5. ASSUME NEW z \in Seq(Frames), connect_channels("host", z)
      PROVE  /\ UNCHANGED <<state, items>> /\ txq'["exporter"] = txq["exporter"]
             /\ fed'[c] = 0
  <2>1. close_all_ptys /\ txq' = [txq EXCEPT !["host"] = @ \o z] /\ UNCHANGED mcuVars
    BY <1>5, Zenon DEF connect_channels
  <2>2. fed'[c] = 0
    BY <2>1, Zenon DEF close_all_ptys
  <2>3. txq'["exporter"] = txq["exporter"]
    BY <2>1, Zenon DEF TypeOK, Sides
  <2> QED  BY <2>1, <2>2, <2>3, Zenon DEF mcuVars
<1>6. /\ UNCHANGED <<state, items>> /\ txq'["exporter"] = txq["exporter"]
      /\ link_up'["exporter"] = link_up["exporter"]
      /\ \/ fed'[c] = 0
         \/ UNCHANGED <<pty, fed>> /\ f.ftype = "F_ACK"
         \/ pty_on_frame(f)
  <2>1. CASE on_hello("host")
    BY <1>4, <1>5, <2>1, Zenon DEF on_hello, TypeOK, Sides
  <2>2. CASE f.ftype = "F_ACK" /\ on_ack("host") /\ link_up["host"]
    BY <2>2, Zenon DEF on_ack, mcuVars, ptyVars
  <2>3. CASE on_ack("host") /\ ~link_up["host"]
    BY <1>4, <1>5, <2>3, Zenon DEF on_ack, TypeOK, Sides
  <2>4. CASE pty_on_frame(f)
    BY <2>4, Zenon DEF pty_on_frame, mcuVars
  <2> QED  BY <1>1, <2>1, <2>2, <2>3, <2>4, Zenon
<1>7. /\ fed'[c] \in Nat
      /\ pty'[c] # "open" => fed'[c] = 0
      /\ \/ fed'[c] = 0
         \/ First(c, fed'[c]) = f
         \/ fed'[c] = fed[c] /\ ~Marks(f, c)
  <2>0. /\ fed[c] \in Nat /\ (pty[c] # "open" => fed[c] = 0)
        /\ pty \in [Channels -> {"closed", "open", "failed"}]
        /\ fed \in [Channels -> Nat] /\ f.item \in Nat
        /\ f = [ftype |-> f.ftype, channel |-> f.channel, item |-> f.item]
    BY <1>2, Zenon DEF TypeOK, Contiguous, Frames
  <2>1. CASE fed'[c] = 0
    BY <2>1
  <2>2. CASE UNCHANGED <<pty, fed>> /\ f.ftype = "F_ACK"
    BY <2>0, <2>2, Zenon DEF Marks, IsData, Breaks
  <2>3. CASE pty_on_frame(f) /\ f.ftype = "F_READY"
    <3>1. open_pty(f.channel)
      BY <2>3, Zenon DEF pty_on_frame
    <3>2. fed'[c] = fed[c] /\ (pty'[c] # "open" => pty[c] # "open")
      BY <2>0, <3>1, Zenon DEF open_pty, ptyVars
    <3>3. ~Marks(f, c)
      BY <2>3, Zenon DEF Marks, IsData, Breaks
    <3> QED  BY <2>0, <3>2, <3>3, Zenon
  <2>4. CASE pty_on_frame(f) /\ f.ftype = "F_FLUSH"
    <3>1. close_pty(f.channel)
      BY <2>4, Zenon DEF pty_on_frame
    <3>2. CASE f.channel = c
      BY <2>0, <3>1, <3>2, Zenon DEF close_pty
    <3>3. CASE f.channel # c
      <4>1. fed'[c] = fed[c] /\ pty'[c] = pty[c]
        BY <2>0, <3>1, <3>3, Zenon DEF close_pty
      <4>2. ~Marks(f, c)
        BY <2>4, <3>3, Zenon DEF Marks, IsData, Breaks
      <4> QED  BY <2>0, <4>1, <4>2, Zenon
    <3> QED  BY <3>2, <3>3, Zenon
  <2>5. CASE pty_on_frame(f) /\ f.ftype = "F_DATA"
    <3>1. /\ fed' = IF pty[f.channel] = "open"
                    THEN [fed EXCEPT ![f.channel] = f.item] ELSE fed
          /\ pty' = pty
      BY <2>5, Zenon DEF pty_on_frame
    <3>2. CASE f.channel = c /\ pty[c] = "open"
      <4>1. fed'[c] = f.item /\ pty'[c] = "open"
        BY <2>0, <3>1, <3>2, Zenon
      <4>2. f.item # 0 => First(c, f.item) = f
        BY <2>0, <2>5, <3>2, Zenon DEF First, DATA, Frame
      <4> QED  BY <2>0, <4>1, <4>2, Zenon
    <3>3. CASE f.channel = c /\ pty[c] # "open"
      BY <2>0, <3>1, <3>3, Zenon
    <3>4. CASE f.channel # c
      <4>1. fed'[c] = fed[c] /\ pty'[c] = pty[c]
        BY <2>0, <3>1, <3>4, Zenon
      <4>2. ~Marks(f, c)
        BY <2>5, <3>4, Zenon DEF Marks, IsData, Breaks
      <4> QED  BY <2>0, <4>1, <4>2, Zenon
    <3> QED  BY <3>2, <3>3, <3>4, Zenon
  <2>6. pty_on_frame(f) => f.ftype \in {"F_READY", "F_FLUSH", "F_DATA"}
    BY Zenon DEF pty_on_frame
  <2> QED  BY <1>6, <2>1, <2>2, <2>3, <2>4, <2>5, <2>6, Zenon
<1> QED  BY <1>1, <1>2, <1>3, <1>6, <1>7, Zenon DEF f

\* So the stream stays contiguous when the host reads.
LEMMA HostFeeds ==
    ASSUME TypeOK, NEW c \in Channels, Contiguous(c), link_read("host")
    PROVE  Contiguous(c)'
<1>1. Current(c)' = Current(c) /\ link_fd'["exporter"] = link_fd["exporter"]
  BY HostTakes, Zenon DEF Current
<1>2. \/ fed'[c] = 0
      \/ 1 = 1 /\ First(c, fed'[c]) = net["exporter"][1]
      \/ fed'[c] = fed[c] /\ \A i \in 1..1 : ~Marks(net["exporter"][i], c)
  BY HostTakes
<1> QED  BY <1>1, <1>2, HostTakes, WireShifts, Zenon

\* The exporter takes the next frame off the host's pipe: what it says of its
\* channels then is not an item.
LEMMA ExporterAnswers ==
    ASSUME TypeOK, NEW c \in Channels, Contiguous(c), link_read("exporter")
    PROVE  Contiguous(c)'
<1>1. /\ net'["exporter"] = net["exporter"] /\ link_fd' = link_fd
      /\ link_fd["exporter"]
      /\ on_hello("exporter") \/ on_ack("exporter")
  BY Zenon DEF link_read, dispatch_frame, Peer, TypeOK, Sides
<1>2. ASSUME NEW z \in Seq(Frames), \A i \in 1..Len(z) : z[i].ftype = "F_ACK",
             connect_channels("exporter", z), link_up'["exporter"]
      PROVE  Contiguous(c)'
  <2>1. PICK o \in Orders :
          txq' = [txq EXCEPT !["exporter"] =
                    @ \o z \o [i \in 1..Cardinality(Channels) |-> Status(o[i])]]
    BY <1>2, Zenon DEF connect_channels
  <2> DEFINE x == [i \in 1..Cardinality(Channels) |-> Status(o[i])]
             w == z \o x
  <2>2. /\ x \in Seq(Frames) /\ Cardinality(Channels) \in Nat
        /\ \A i \in 1..Cardinality(Channels) : o[i] \in Channels
    BY StatusesType, Zenon
  <2>3. Len(x) = Cardinality(Channels)
    BY <2>2
  <2>4. \A i \in 1..Len(x) : x[i].ftype # "F_DATA"
    BY <2>2, <2>3, Zenon DEF Status, READY, FLUSH, Frame
  <2>5. txq["exporter"] \in Seq(Frames) /\ txq'["exporter"] = (txq["exporter"] \o z) \o x
    BY <2>1, Zenon DEF TypeOK, Sides
  <2> HIDE DEF x
  <2>6. txq'["exporter"] = txq["exporter"] \o w
    <3>1. txq["exporter"] \o (z \o x) = (txq["exporter"] \o z) \o x
      BY <2>2, <2>5, Associative, Zenon
    <3> QED  BY <2>5, <3>1, Zenon
  <2>7. w \in Seq(Frames)
    BY <2>2
  <2>8. \A i \in 1..Len(w) : ~IsData(w[i], c)
    <3>1. /\ Len(w) = Len(z) + Len(x) /\ Len(z) \in Nat /\ Len(x) \in Nat
          /\ \A i \in 1..Len(z) : w[i] = z[i]
          /\ \A i \in 1..Len(w) : i \notin 1..Len(z) =>
               i - Len(z) \in 1..Len(x) /\ w[i] = x[i - Len(z)]
      BY <2>2
    <3> HIDE DEF w
    <3> SUFFICES ASSUME NEW i \in 1..Len(w) PROVE w[i].ftype # "F_DATA"
      BY Zenon DEF IsData
    <3>2. CASE i \in 1..Len(z)
      BY <1>2, <3>1, <3>2, Zenon
    <3>3. CASE i \notin 1..Len(z)
      BY <2>4, <3>1, <3>3, Zenon
    <3> QED  BY <3>2, <3>3, Zenon
  <2>9. UNCHANGED <<state, items, pty, fed>>
    BY <1>2, Zenon DEF connect_channels, ptyVars
  <2>10. Current(c) \subseteq Current(c)'
    BY <1>2, <2>9, Zenon DEF Current
  <2> HIDE DEF w
  <2>11. fed'[c] = fed[c] /\ pty'[c] = pty[c]
    BY <2>9, Zenon
  <2> QED  BY <1>1, <2>6, <2>7, <2>8, <2>10, <2>11, PlainGrowth, Zenon
<1>3. /\ <<ACK>> \in Seq(Frames) /\ \A i \in 1..Len(<<ACK>>) : <<ACK>>[i].ftype = "F_ACK"
      /\ <<>> \in Seq(Frames) /\ \A i \in 1..Len(<<>>) : <<>>[i].ftype = "F_ACK"
  BY FrameTypes DEF ACK, Frame
<1>4. CASE on_hello("exporter")
  <2>1. link_up'["exporter"] /\ connect_channels("exporter", <<ACK>>)
    BY <1>4, Zenon DEF on_hello, TypeOK, Sides
  <2> QED  BY <1>2, <1>3, <2>1, Zenon
<1>5. CASE on_ack("exporter") /\ ~link_up["exporter"]
  <2>1. link_up'["exporter"] /\ connect_channels("exporter", <<>>)
    BY <1>5, Zenon DEF on_ack, TypeOK, Sides
  <2> QED  BY <1>2, <1>3, <2>1, Zenon
<1>6. CASE on_ack("exporter") /\ link_up["exporter"]
  <2>1. UNCHANGED <<link_up, txq, state, items, pty, fed>>
    BY <1>6, Zenon DEF on_ack, mcuVars, ptyVars
  <2>2. Stream(c)' = Stream(c) /\ Current(c)' = Current(c)
    BY <1>1, <2>1, Zenon DEF Stream, Current, First
  <2> QED  BY <1>1, <2>1, <2>2, Zenon DEF Contiguous, Chain, Ends
<1> QED  BY <1>1, <1>4, <1>5, <1>6, Zenon

\* A step preserves the contiguity of c's stream.
LEMMA ContiguousStep ==
    ASSUME TypeOK, ClosedLinkIsSilent, [Next]_vars, NEW c \in Channels, Contiguous(c)
    PROVE  Contiguous(c)'
<1>0. /\ "exporter" \in Sides /\ "host" \in Sides
      /\ net["exporter"] \in Seq(Frames) /\ txq["exporter"] \in Seq(Frames)
      /\ <<>> \in Seq(Frames) /\ items[c] \in Nat /\ fed[c] \in Nat
  BY DEF TypeOK, Sides
<1>1. ASSUME UNCHANGED <<link_fd, link_up, net, txq, state, pty, fed>>,
             state[c] = "Active" /\ link_up["exporter"] => items'[c] = items[c]
      PROVE  Contiguous(c)'
  <2>1. Stream(c)' = Stream(c) /\ Current(c)' = Current(c)
    BY <1>1, Zenon DEF Stream, Current, First
  <2> QED  BY <1>1, <2>1, Zenon DEF Contiguous, Chain, Ends
<1>2. ASSUME open_link("exporter") PROVE Contiguous(c)'
  <2> DEFINE z == <<HELLO>>
  <2>1. z \in Seq(Frames) /\ Len(z) = 1 /\ z[1] = HELLO
    BY FrameTypes
  <2>2. /\ txq["exporter"] = <<>> /\ txq'["exporter"] = z
        /\ net'["exporter"] = net["exporter"] /\ fed'[c] = fed[c] /\ pty'[c] = pty[c]
    BY <1>0, <1>2, Zenon DEF open_link, Peer, ptyVars, ClosedLinkIsSilent, TypeOK, Sides
  <2>3. txq'["exporter"] = txq["exporter"] \o z
    BY <2>1, <2>2
  <2>4. ~IsData(HELLO, c) /\ Breaks(HELLO, c)
    BY Zenon DEF IsData, Breaks, HELLO, Frame
  <2> HIDE DEF z
  <2>5. (\A i \in 1..Len(z) : ~IsData(z[i], c)) /\ \E i \in 1..Len(z) : Breaks(z[i], c)
    BY <2>1, <2>4
  <2> QED  BY <2>1, <2>2, <2>3, <2>5, PlainGrowth, Zenon
<1>3. ASSUME open_link("host") PROVE Contiguous(c)'
  <2>1. PICK l \in 0..Len(net["exporter"]) :
          net' = [net EXCEPT !["exporter"] = SubSeq(@, l + 1, Len(@))]
    BY <1>3, Zenon DEF open_link, Peer
  <2>2. /\ net'["exporter"] = SubSeq(net["exporter"], l + 1, Len(net["exporter"]))
        /\ txq'["exporter"] = txq["exporter"] /\ link_fd'["exporter"] = link_fd["exporter"]
        /\ UNCHANGED <<link_up, state, items, pty, fed>>
    BY <1>0, <1>3, <2>1, Zenon DEF open_link, mcuVars, ptyVars, TypeOK, Sides
  <2>3. pty[c] = "closed"
    BY <1>3, Zenon DEF open_link, ClosedLinkIsSilent
  <2>4. fed[c] = 0 /\ fed'[c] = 0
    BY <2>2, <2>3, Zenon DEF Contiguous
  <2>5. Current(c)' = Current(c)
    BY <2>2, Zenon DEF Current
  <2> QED  BY <2>2, <2>4, <2>5, WireShifts
<1>4. ASSUME drop_link("exporter"), UNCHANGED <<pty, fed>> PROVE Contiguous(c)'
  <2>1. PICK k \in 0..Len(net["exporter"]) :
          net' = [net EXCEPT !["exporter"] = SubSeq(@, 1, k)]
    BY <1>4, Zenon DEF drop_link
  <2>2. /\ net'["exporter"] = SubSeq(net["exporter"], 1, k)
        /\ txq'["exporter"] = <<>> /\ ~link_fd'["exporter"]
    BY <1>0, <1>4, <2>1, Zenon DEF drop_link, TypeOK
  <2> DEFINE u == net["exporter"]
             v == txq["exporter"]
             f == First(c, fed[c])
             q == <<f>> \o (u \o v)
             w == <<f>> \o (SubSeq(u, 1, k) \o <<>>)
  <2>3. Stream(c) = q /\ Stream(c)' = w
    BY <1>4, <2>2, Zenon DEF Stream, First
  <2>4. Chain(q, c) /\ (pty[c] # "open" => fed[c] = 0)
    BY <2>3, Zenon DEF Contiguous
  <2>5. u \in Seq(Frames) /\ v \in Seq(Frames) /\ f \in Frames /\ k \in 0..Len(u)
    BY StreamType, Zenon
  <2> HIDE DEF u, v, f
  <2>6. SubSeq(u, 1, k) \in Seq(Frames)
    BY <2>5
  <2>7. q \in Seq(Frames) /\ w \in Seq(Frames)
    BY <1>0, <2>5, <2>6
  <2>8. Len(w) <= Len(q) /\ \A i \in 1..Len(w) : w[i] = q[i]
    BY <2>5, <2>7, StreamCuts
  <2> HIDE DEF q, w
  <2>9. Chain(w, c)
    BY <2>4, <2>7, <2>8, CutChain, Zenon
  <2>10. Chain(Stream(c), c)'
    BY <2>3, <2>9, Zenon DEF Chain
  <2> QED  BY <1>4, <2>2, <2>4, <2>10, Zenon DEF Contiguous
<1>5. ASSUME fed'[c] = 0, net'["exporter"] = net["exporter"],
             txq'["exporter"] = txq["exporter"], link_fd'["exporter"] = link_fd["exporter"],
             link_up'["exporter"] = link_up["exporter"], UNCHANGED <<state, items>>
      PROVE  Contiguous(c)'
  <2>1. 0 \in 0..Len(net["exporter"])
    BY <1>0
  <2>2. net'["exporter"] = SubSeq(net["exporter"], 0 + 1, Len(net["exporter"]))
    BY <1>0, <1>5, SameQueues
  <2>3. Current(c)' = Current(c)
    BY <1>5, Zenon DEF Current
  <2>4. fed'[c] \in Nat
    BY <1>5
  <2> QED  BY <1>5, <2>1, <2>2, <2>3, <2>4, WireShifts, Zenon
<1>6. ASSUME close_link("host") PROVE Contiguous(c)'
  <2>1. /\ fed'[c] = 0 /\ net'["exporter"] = net["exporter"]
        /\ txq'["exporter"] = txq["exporter"] /\ link_fd'["exporter"] = link_fd["exporter"]
        /\ link_up'["exporter"] = link_up["exporter"] /\ UNCHANGED <<state, items>>
    BY <1>0, <1>6, ZenonT(30) DEF close_link, drop_link, close_all_ptys, mcuVars, TypeOK
  <2> QED  BY <1>5, <2>1, Zenon
<1>7. ASSUME link_write("exporter") PROVE Contiguous(c)'
  <2> DEFINE u == net["exporter"]
             v == txq["exporter"]
  <2>1. /\ v # <<>> /\ net'["exporter"] = Append(u, Head(v)) /\ txq'["exporter"] = Tail(v)
        /\ UNCHANGED <<link_fd, link_up, state, items, pty, fed>>
    BY <1>0, <1>7, Zenon DEF link_write, mcuVars, ptyVars, TypeOK
  <2>2. Append(u, Head(v)) \o Tail(v) = u \o v
    BY <1>0, <2>1, StreamPasses, Zenon
  <2>3. Stream(c)' = Stream(c) /\ Current(c)' = Current(c)
    BY <2>1, <2>2, Zenon DEF Stream, Current, First
  <2> QED  BY <2>1, <2>3, Zenon DEF Contiguous, Chain, Ends
<1>8. ASSUME link_write("host") PROVE Contiguous(c)'
  <2>1. /\ net'["exporter"] = net["exporter"] /\ txq'["exporter"] = txq["exporter"]
        /\ UNCHANGED <<link_fd, link_up, state, items, pty, fed>>
    BY <1>0, <1>8, Zenon DEF link_write, mcuVars, ptyVars, TypeOK
  <2>2. Stream(c)' = Stream(c) /\ Current(c)' = Current(c)
    BY <2>1, Zenon DEF Stream, Current, First
  <2> QED  BY <2>1, <2>2, Zenon DEF Contiguous, Chain, Ends
\* McuChannel::transition when its frames are queued, and when they are not.
<1>9. ASSUME NEW d \in Channels, NEW to, NEW z \in Seq(Frames), transition(d, to, z),
             UNCHANGED <<link_fd, link_up, net, pty, fed>>,
             \A i \in 1..Len(z) : ~IsData(z[i], c),
             d # c => items'[c] = items[c],
             d = c => to # "Active" /\ \E i \in 1..Len(z) : Breaks(z[i], c)
      PROVE  Contiguous(c)'
  <2>1. CASE mcu_up[d]
    <3>1. link_up["exporter"] /\ link_fd["exporter"]
      BY <1>0, <2>1, Zenon DEF ClosedLinkIsSilent
    <3>2. txq'["exporter"] = txq["exporter"] \o z
      BY <1>0, <1>9, <2>1, Zenon DEF transition, TypeOK
    <3>3. d # c => Current(c) \subseteq Current(c)'
      BY <1>9, Zenon DEF transition, Current, TypeOK
    <3>4. fed'[c] = fed[c] /\ pty'[c] = pty[c] /\ net'["exporter"] = net["exporter"]
      BY <1>9, Zenon
    <3> QED  BY <1>9, <3>1, <3>2, <3>3, <3>4, PlainGrowth, Zenon
  <2>2. CASE ~mcu_up[d]
    <3>1. ~link_up["exporter"] /\ txq' = txq
      BY <1>9, <2>2, Zenon DEF transition, ClosedLinkIsSilent
    <3>2. Stream(c)' = Stream(c) /\ Current(c)' = Current(c)
      BY <1>9, <3>1, Zenon DEF Stream, Current, First
    <3> QED  BY <1>9, <3>1, <3>2, Zenon DEF Contiguous, Chain, Ends
  <2> QED  BY <2>1, <2>2, Zenon
<1>10. ASSUME NEW d \in Channels, reset(d), UNCHANGED <<link_fd, link_up, net, pty, fed>>
       PROVE  Contiguous(c)'
  <2> DEFINE z == <<FLUSH(d)>>
  <2>1. z \in Seq(Frames) /\ Len(z) = 1 /\ z[1] = FLUSH(d)
    BY FrameTypes
  <2>2. transition(d, "Resetting", z) /\ (d # c => items'[c] = items[c])
    BY <1>10, Zenon DEF reset, TypeOK
  <2>3. ~IsData(FLUSH(d), c) /\ (d = c => Breaks(FLUSH(d), c))
    BY Zenon DEF IsData, Breaks, FLUSH, Frame
  <2> HIDE DEF z
  <2>4. /\ \A i \in 1..Len(z) : ~IsData(z[i], c)
        /\ d = c => "Resetting" # "Active" /\ \E i \in 1..Len(z) : Breaks(z[i], c)
    BY <2>1, <2>3
  <2> QED  BY <1>9, <1>10, <2>1, <2>2, <2>4, Zenon
<1>11. ASSUME NEW d \in Channels, uart_read(d) PROVE Contiguous(c)'
  <2> DEFINE n == items[d]
  <2>0. /\ UNCHANGED <<link_fd, link_up, net, pty, fed>> /\ n \in Nat
        /\ items' = [items EXCEPT ![d] = n + 1]
    BY <1>11, Zenon DEF uart_read, ptyVars, TypeOK
  <2>1. d # c => items'[c] = items[c]
    BY <2>0, Zenon DEF TypeOK
  <2>2. CASE state[d] # "Active" /\ UNCHANGED <<state, txq>>
    BY <1>1, <2>0, <2>1, <2>2, Zenon
  <2>3. ASSUME NEW z \in Seq(Frames), transition(d, "Active", z \o <<DATA(d, n + 1)>>),
               \A i \in 1..Len(z) : z[i].ftype = "F_READY",
               state[d] = "Active" \/ Current(d) = {}
        PROVE  Contiguous(c)'
    <3> DEFINE w == z \o <<DATA(d, n + 1)>>
    <3>1. DATA(d, n + 1) \in Frames
      BY <2>0, FrameTypes
    <3>2. /\ w \in Seq(Frames) /\ Len(w) = Len(z) + 1 /\ Len(z) \in Nat
          /\ \A i \in 1..Len(z) : w[i] = z[i]
          /\ w[Len(z) + 1] = DATA(d, n + 1)
      BY <3>1
    <3>3. transition(d, "Active", w)
      BY <2>3, Zenon
    <3>4. \A i \in 1..Len(z) : ~IsData(z[i], c)
      BY <2>3, Zenon DEF IsData
    <3>5. CASE d # c
      <4>1. ~IsData(DATA(d, n + 1), c)
        BY <3>5, Zenon DEF IsData, DATA, Frame
      <4> HIDE DEF w
      <4>2. \A i \in 1..Len(w) : ~IsData(w[i], c)
        <5> SUFFICES ASSUME NEW i \in 1..Len(w) PROVE ~IsData(w[i], c)
          BY Zenon
        <5>1. i \in 1..Len(z) \/ i = Len(z) + 1
          BY <3>2
        <5> QED  BY <3>2, <3>4, <4>1, <5>1, Zenon
      <4> QED  BY <1>9, <2>0, <2>1, <3>2, <3>3, <3>5, <4>2, Zenon
    <3>6. CASE d = c /\ mcu_up[c]
      <4>1. link_up["exporter"] /\ link_fd["exporter"]
        BY <1>0, <3>6, Zenon DEF ClosedLinkIsSilent
      <4>2. /\ txq'["exporter"] = txq["exporter"] \o w
            /\ state'[c] = "Active" /\ items'[c] = n + 1
        BY <1>0, <2>0, <3>3, <3>6, Zenon DEF transition, TypeOK
      <4>3. Current(c) \subseteq {n} /\ Current(c)' = {n + 1}
        BY <2>0, <2>3, <3>6, <4>1, <4>2, Zenon DEF Current
      <4>4. fed'[c] = fed[c] /\ pty'[c] = pty[c] /\ net'["exporter"] = net["exporter"]
        BY <2>0, Zenon
      <4>5. txq'["exporter"] = txq["exporter"] \o (z \o <<DATA(c, n + 1)>>)
        BY <3>6, <4>2, Zenon
      <4> HIDE DEF n, w
      <4> QED  BY <2>0, <3>4, <4>1, <4>3, <4>4, <4>5, ItemGrowth, Zenon
    <3>7. CASE d = c /\ ~mcu_up[c]
      <4>1. ~link_up["exporter"] /\ txq' = txq
        BY <3>3, <3>7, Zenon DEF transition, ClosedLinkIsSilent
      <4>2. Stream(c)' = Stream(c) /\ Current(c)' = Current(c)
        BY <2>0, <4>1, Zenon DEF Stream, Current, First
      <4> QED  BY <2>0, <4>1, <4>2, Zenon DEF Contiguous, Chain, Ends
    <3> QED  BY <3>5, <3>6, <3>7, Zenon
  <2>4. CASE state[d] = "Active" /\ transition(d, "Active", <<DATA(d, n + 1)>>)
    <3>1. <<>> \o <<DATA(d, n + 1)>> = <<DATA(d, n + 1)>>
      OBVIOUS
    <3>2. \A z : Len(z) = 0 => \A i \in 1..Len(z) : z[i].ftype = "F_READY"
      OBVIOUS
    <3>3. Len(<<>>) = 0
      BY Zenon
    <3> HIDE DEF n
    <3> QED  BY <1>0, <2>3, <2>4, <3>1, <3>2, <3>3, Zenon
  <2>5. CASE state[d] # "Active" /\ transition(d, "Active", <<READY(d), DATA(d, n + 1)>>)
    <3>1. <<READY(d)>> \o <<DATA(d, n + 1)>> = <<READY(d), DATA(d, n + 1)>>
      BY <2>0, FrameTypes, PairConcat
    <3>2. /\ <<READY(d)>> \in Seq(Frames)
          /\ \A i \in 1..Len(<<READY(d)>>) : <<READY(d)>>[i].ftype = "F_READY"
      BY FrameTypes DEF READY, Frame
    <3>3. Current(d) = {}
      BY <2>5, Zenon DEF Current
    <3> HIDE DEF n
    <3> QED  BY <2>3, <2>5, <3>1, <3>2, <3>3, Zenon
  <2> QED  BY <1>11, <2>2, <2>4, <2>5, Zenon DEF uart_read
<1>12. ASSUME NEW d \in Channels, silence(d) PROVE Contiguous(c)'
  BY <1>10, <1>12, Zenon DEF silence, ptyVars
<1>13. ASSUME NEW d \in Channels, uart_error(d) PROVE Contiguous(c)'
  BY <1>1, <1>10, <1>13, Zenon DEF uart_error, ptyVars
<1>14. ASSUME NEW d \in Channels, open_uart(d) PROVE Contiguous(c)'
  BY <1>1, <1>14, Zenon DEF open_uart, linkVars, ptyVars
<1>15. ASSUME NEW d \in Channels, pty_eio(d) PROVE Contiguous(c)'
  <2>1. CASE d = c
    <3>1. fed'[c] = 0 /\ UNCHANGED <<linkVars, mcuVars>>
      BY <1>15, <2>1, Zenon DEF pty_eio, TypeOK
    <3> QED  BY <1>5, <3>1, Zenon DEF linkVars, mcuVars
  <2>2. CASE d # c
    <3>1. /\ fed'[c] = fed[c] /\ pty'[c] = pty[c]
          /\ UNCHANGED <<net, txq, link_fd, link_up, state, items>>
      BY <1>15, <2>2, Zenon DEF pty_eio, linkVars, mcuVars, TypeOK
    <3>2. Stream(c)' = Stream(c) /\ Current(c)' = Current(c)
      BY <3>1, Zenon DEF Stream, Current, First
    <3> QED  BY <3>1, <3>2, Zenon DEF Contiguous, Chain, Ends
  <2> QED  BY <2>1, <2>2, Zenon
<1>16. ASSUME Restart PROVE Contiguous(c)'
  BY <1>4, <1>16, Zenon DEF Restart, ptyVars
<1>17. ASSUME close_link("exporter") PROVE Contiguous(c)'
  BY <1>4, <1>17, Zenon DEF close_link, ptyVars
<1>18. CASE UNCHANGED vars
  BY <1>1, <1>18, Zenon DEF vars, linkVars, mcuVars, ptyVars
<1>19. ASSUME NEW s \in Sides, open_link(s) \/ close_link(s) \/ link_write(s) \/ link_read(s)
       PROVE  Contiguous(c)'
  <2>1. CASE s = "exporter"
    BY <1>2, <1>7, <1>17, <1>19, <2>1, ExporterAnswers, Zenon
  <2>2. CASE s = "host"
    BY <1>3, <1>6, <1>8, <1>19, <2>2, HostFeeds, Zenon
  <2> QED  BY <2>1, <2>2, Zenon DEF Sides
<1> QED
  BY <1>11, <1>12, <1>13, <1>14, <1>15, <1>16, <1>18, <1>19, Zenon DEF Next

\* A step that feeds the PTY of c feeds it the item after the last one.
LEMMA NextItem ==
    ASSUME TypeOK, [Next]_vars, NEW c \in Channels, Contiguous(c),
           fed[c] # 0, fed'[c] # fed[c]
    PROVE  fed'[c] \in {0, fed[c] + 1}
<1>1. ASSUME link_read("host") PROVE fed'[c] \in {0, fed[c] + 1}
  <2> SUFFICES ASSUME fed'[c] # 0 PROVE fed'[c] = fed[c] + 1
    BY Zenon
  <2> DEFINE u == net["exporter"]
             v == txq["exporter"]
             f == First(c, fed[c])
             q == <<f>> \o (u \o v)
  <2>1. u[1] = First(c, fed'[c]) /\ fed'[c] \in Nat /\ 1 \in 0..Len(u)
    BY <1>1, HostTakes, Zenon
  <2>2. u \in Seq(Frames) /\ v \in Seq(Frames) /\ f \in Frames /\ fed[c] \in Nat
    BY StreamType, Zenon DEF TypeOK
  <2>3. /\ IsData(f, c) /\ f.item = fed[c]
        /\ IsData(u[1], c) /\ u[1].item = fed'[c]
    BY <2>1, <2>2, StreamType, Zenon
  <2>4. Chain(q, c)
    BY Zenon DEF Contiguous, Stream
  <2> HIDE DEF f, u, v
  <2>5. Places(q, f, u, v)
    BY <2>2, StreamPlaces, Zenon
  <2> HIDE DEF q
  <2>6. 1 \in 1..Len(u) /\ 1 + 1 = 2
    BY <2>1, <2>2
  <2>7. q[1] = f /\ q[2] = u[1] /\ 1 \in 1..Len(q) /\ 2 \in 1..Len(q)
    BY <2>2, <2>5, <2>6, SecondPlace, Zenon
  <2>8. q[2].item = q[1].item + 1 \/ \E k \in (1 + 1)..(2 - 1) : Marks(q[k], c)
    BY <2>3, <2>4, <2>7 DEF Chain
  <2>9. q[2].item = q[1].item + 1
    BY <2>8
  <2> QED  BY <2>3, <2>7, <2>9, Zenon
<1>2. ASSUME fed' = fed \/ fed'[c] = 0 PROVE fed'[c] \in {0, fed[c] + 1}
  BY <1>2, Zenon
<1>3. ASSUME NEW s \in Sides, open_link(s) \/ close_link(s) \/ link_write(s)
      PROVE  fed'[c] \in {0, fed[c] + 1}
  BY <1>2, <1>3, Zenon DEF open_link, close_link, link_write, close_all_ptys, ptyVars
<1>4. ASSUME link_read("exporter") PROVE fed'[c] \in {0, fed[c] + 1}
  <2>1. on_hello("exporter") \/ on_ack("exporter")
    BY <1>4, Zenon DEF link_read, dispatch_frame
  <2> QED  BY <1>2, <2>1, Zenon DEF on_hello, on_ack, connect_channels, ptyVars
<1>5. ASSUME NEW d \in Channels, pty_eio(d) PROVE fed'[c] \in {0, fed[c] + 1}
  BY <1>2, <1>5, Zenon DEF pty_eio, TypeOK
<1>6. ASSUME NEW d \in Channels,
             uart_read(d) \/ silence(d) \/ uart_error(d) \/ open_uart(d)
      PROVE  fed'[c] \in {0, fed[c] + 1}
  BY <1>2, <1>6, Zenon DEF uart_read, silence, uart_error, open_uart, ptyVars
<1>7. CASE Restart \/ UNCHANGED vars
  BY <1>2, <1>7, Zenon DEF Restart, vars, ptyVars
<1>8. ASSUME NEW s \in Sides, link_read(s) PROVE fed'[c] \in {0, fed[c] + 1}
  BY <1>1, <1>4, <1>8, Zenon DEF Sides
<1> QED  BY <1>3, <1>5, <1>6, <1>7, <1>8, Zenon DEF Next

\* What Klipper reads from one opening of a PTY is a contiguous part of what
\* the MCU sent: whatever a reconnection, a restart or a reset loses, the PTY
\* is closed (PtyChannel::on_frame, on_link_connect) before the next item.
THEOREM StreamsAreContiguous == Spec => PtyStreamContiguous
<1> DEFINE CInv == \A c \in Channels : Contiguous(c)
<1>1. Init => CInv
  <2> SUFFICES ASSUME Init, NEW c \in Channels PROVE Contiguous(c)
    BY Zenon
  <2>1. /\ Stream(c) = <<FLUSH(c)>> \o (<<>> \o <<>>) /\ ~link_fd["exporter"]
        /\ fed[c] = 0
    BY Zenon DEF Init, Stream, First, Sides
  <2>2. FLUSH(c) \in Frames
    BY FrameTypes, Zenon
  <2>3. Len(Stream(c)) = 1
    BY <2>1, <2>2
  <2>4. Chain(Stream(c), c)
    BY <2>3 DEF Chain
  <2> QED  BY <2>1, <2>4, Zenon DEF Contiguous
<1>2. IInv /\ CInv /\ [Next]_vars => CInv'
  BY ContiguousStep, Zenon DEF IInv
<1>3. IInv /\ CInv /\ [Next]_vars =>
        [\A c \in Channels :
           fed[c] # 0 /\ fed'[c] # fed[c] => fed'[c] \in {0, fed[c] + 1}]_vars
  BY NextItem, Zenon DEF IInv
<1> HIDE DEF CInv
<1> QED  BY <1>1, <1>2, <1>3, Invariance, PTL DEF Spec, PtyStreamContiguous
=============================================================================
