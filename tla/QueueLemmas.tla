---------------------------- MODULE QueueLemmas -----------------------------
(***************************************************************************)
(* Facts about queues that the proofs of several modules need: what        *)
(* appending to a queue, taking from it and cutting it do to its elements  *)
(* and to the order they are in.  An order is a set of pairs.              *)
(***************************************************************************)
EXTENDS Naturals, Sequences, Functions, TLAPS

\* Earlier elements of s are before later ones.
Sorted(s, R) == \A j \in 1..Len(s) : \A i \in 1..(j - 1) : <<s[i], s[j]>> \in R

\* Every element of A is before every one of B.
Before(A, B, R) == \A a \in A, b \in B : <<a, b>> \in R

\* The elements of a sequence, by position.
LEMMA Elements ==
    ASSUME NEW S, NEW s \in Seq(S)
    PROVE  /\ Len(s) \in Nat /\ DOMAIN s = 1..Len(s)
           /\ \A i \in 1..Len(s) : s[i] \in S /\ s[i] \in Range(s)
           /\ \A x \in Range(s) : x \in S /\ \E i \in 1..Len(s) : x = s[i]
BY DEF Range

\* The empty queue.
LEMMA EmptyQueue ==
    ASSUME NEW S, NEW R
    PROVE  <<>> \in Seq(S) /\ Range(<<>>) = {} /\ Sorted(<<>>, R)
BY DEF Sorted, Range

\* What is left when the first element is taken.
LEMMA TakeFirst ==
    ASSUME NEW S, NEW s \in Seq(S), s # <<>>
    PROVE  /\ Head(s) \in S /\ Head(s) \in Range(s) /\ Head(s) = s[1]
           /\ Tail(s) \in Seq(S) /\ Len(Tail(s)) = Len(s) - 1 /\ Len(s) \in Nat \ {0}
           /\ \A i \in 1..Len(Tail(s)) : Tail(s)[i] = s[i + 1]
           /\ Range(s) = {Head(s)} \cup Range(Tail(s))
<1> DEFINE t == Tail(s)
<1>1. /\ Head(s) \in S /\ Head(s) = s[1]
      /\ t \in Seq(S) /\ Len(t) = Len(s) - 1 /\ Len(s) \in Nat \ {0}
      /\ \A i \in 1..Len(t) : t[i] = s[i + 1]
  OBVIOUS
<1> HIDE DEF t
<1>2. Head(s) \in Range(s)
  BY <1>1, Elements
<1>3. Range(t) \subseteq Range(s)
  <2>1. ASSUME NEW x \in Range(t) PROVE x \in Range(s)
    <3>1. PICK i \in 1..Len(t) : x = t[i]
      BY <1>1, Elements
    <3>2. x = s[i + 1] /\ i + 1 \in 1..Len(s)
      BY <1>1, <3>1
    <3> QED  BY <3>2, Elements
  <2> QED  BY <2>1
<1>4. ASSUME NEW x \in Range(s), x # Head(s) PROVE x \in Range(t)
  <2>1. PICK i \in 1..Len(s) : x = s[i]
    BY Elements
  <2>2. i # 1 /\ i - 1 \in 1..Len(t) /\ t[i - 1] = x
    BY <1>1, <1>4, <2>1
  <2> QED  BY <1>1, <2>2, Elements
<1> QED  BY <1>1, <1>2, <1>3, <1>4 DEF t

\* Taking the first element leaves a queue in order, all of it after that element.
LEMMA TakeFirstSorted ==
    ASSUME NEW S, NEW R, NEW s \in Seq(S), s # <<>>, Sorted(s, R)
    PROVE  Sorted(Tail(s), R) /\ Before({Head(s)}, Range(Tail(s)), R)
<1> DEFINE t == Tail(s)
<1>1. /\ t \in Seq(S) /\ Len(t) = Len(s) - 1 /\ Len(s) \in Nat \ {0} /\ Head(s) = s[1]
      /\ \A i \in 1..Len(t) : t[i] = s[i + 1]
  BY TakeFirst
<1> HIDE DEF t
<1>2. ASSUME NEW j \in 1..Len(t), NEW i \in 1..(j - 1) PROVE <<t[i], t[j]>> \in R
  <2>1. j + 1 \in 1..Len(s) /\ i + 1 \in 1..((j + 1) - 1) /\ i \in 1..Len(t)
    BY <1>1
  <2>2. <<s[i + 1], s[j + 1]>> \in R
    BY <2>1 DEF Sorted
  <2> QED  BY <1>1, <2>1, <2>2, Zenon
<1>3. ASSUME NEW x \in Range(t) PROVE <<Head(s), x>> \in R
  <2>1. PICK i \in 1..Len(t) : x = t[i]
    BY <1>1, Elements
  <2>2. i + 1 \in 1..Len(s) /\ 1 \in 1..((i + 1) - 1)
    BY <1>1
  <2>3. <<s[1], s[i + 1]>> \in R
    BY <2>2 DEF Sorted
  <2> QED  BY <1>1, <2>1, <2>3
<1> QED  BY <1>2, <1>3 DEF Sorted, Before, t

\* What appending an element adds.
LEMMA AppendOne ==
    ASSUME NEW S, NEW s \in Seq(S), NEW f \in S
    PROVE  /\ Append(s, f) \in Seq(S) /\ Len(Append(s, f)) = Len(s) + 1 /\ Len(s) \in Nat
           /\ Append(s, f)[Len(s) + 1] = f
           /\ \A i \in 1..Len(s) : Append(s, f)[i] = s[i]
           /\ Range(Append(s, f)) = Range(s) \cup {f}
<1> DEFINE t == Append(s, f)
<1>1. /\ t \in Seq(S) /\ Len(t) = Len(s) + 1 /\ Len(s) \in Nat
      /\ t[Len(s) + 1] = f
      /\ \A i \in 1..Len(s) : t[i] = s[i]
  OBVIOUS
<1> HIDE DEF t
<1>2. ASSUME NEW x \in Range(t) PROVE x \in Range(s) \cup {f}
  <2>1. PICK i \in 1..Len(t) : x = t[i]
    BY <1>1, Elements
  <2>2. i \in 1..Len(s) \/ i = Len(s) + 1
    BY <1>1
  <2> QED  BY <1>1, <2>1, <2>2, Elements
<1>3. ASSUME NEW x \in Range(s) \cup {f} PROVE x \in Range(t)
  <2>1. PICK i \in 1..(Len(s) + 1) : x = t[i]
    <3>1. CASE x = f
      BY <1>1, <3>1
    <3>2. CASE x \in Range(s)
      <4>1. PICK k \in 1..Len(s) : x = s[k]
        BY <3>2, Elements
      <4> QED  BY <1>1, <4>1
    <3> QED  BY <3>1, <3>2
  <2> QED  BY <1>1, <2>1, Elements
<1> QED  BY <1>1, <1>2, <1>3 DEF t

\* Appending what comes after everything in the queue keeps it in order.
LEMMA AppendSorted ==
    ASSUME NEW S, NEW R, NEW s \in Seq(S), NEW f \in S, Sorted(s, R), Before(Range(s), {f}, R)
    PROVE  Sorted(Append(s, f), R)
<1>1. /\ Len(Append(s, f)) = Len(s) + 1 /\ Len(s) \in Nat
      /\ Append(s, f)[Len(s) + 1] = f
      /\ \A i \in 1..Len(s) : Append(s, f)[i] = s[i]
  BY AppendOne
<1>2. ASSUME NEW j \in 1..(Len(s) + 1), NEW i \in 1..(j - 1)
      PROVE  <<Append(s, f)[i], Append(s, f)[j]>> \in R
  <2>1. i \in 1..Len(s)
    OBVIOUS
  <2>2. CASE j \in 1..Len(s)
    BY <1>1, <2>1, <2>2 DEF Sorted
  <2>3. CASE j = Len(s) + 1
    <3>1. s[i] \in Range(s)
      BY <2>1, Elements
    <3> QED  BY <1>1, <2>1, <2>3, <3>1 DEF Before
  <2> QED  BY <1>1, <2>2, <2>3
<1> QED  BY <1>1, <1>2 DEF Sorted

\* Cutting the first k elements off.
LEMMA CutFirst ==
    ASSUME NEW S, NEW R, NEW s \in Seq(S), NEW k \in 0..Len(s)
    PROVE  /\ SubSeq(s, k + 1, Len(s)) \in Seq(S)
           /\ Range(SubSeq(s, k + 1, Len(s))) \subseteq Range(s)
           /\ Range(s) = Range(SubSeq(s, 1, k)) \cup Range(SubSeq(s, k + 1, Len(s)))
           /\ Sorted(s, R) => Sorted(SubSeq(s, k + 1, Len(s)), R)
<1> DEFINE a == SubSeq(s, 1, k)
           b == SubSeq(s, k + 1, Len(s))
<1>1. /\ a \in Seq(S) /\ Len(a) = k /\ \A i \in 1..k : a[i] = s[i]
      /\ b \in Seq(S) /\ Len(b) = Len(s) - k /\ \A i \in 1..(Len(s) - k) : b[i] = s[k + i]
      /\ Len(s) \in Nat /\ k \in Nat
  OBVIOUS
<1> HIDE DEF a, b
<1>2. ASSUME NEW x \in Range(b) PROVE x \in Range(s)
  <2>1. PICK i \in 1..Len(b) : x = b[i]
    BY <1>1, Elements
  <2>2. k + i \in 1..Len(s) /\ x = s[k + i]
    BY <1>1, <2>1
  <2> QED  BY <2>2, Elements
<1>3. ASSUME NEW x \in Range(a) PROVE x \in Range(s)
  <2>1. PICK i \in 1..Len(a) : x = a[i]
    BY <1>1, Elements
  <2>2. i \in 1..Len(s) /\ x = s[i]
    BY <1>1, <2>1
  <2> QED  BY <2>2, Elements
<1>4. ASSUME NEW x \in Range(s) PROVE x \in Range(a) \cup Range(b)
  <2>1. PICK i \in 1..Len(s) : x = s[i]
    BY Elements
  <2>2. CASE i <= k
    <3>1. i \in 1..Len(a) /\ x = a[i]
      BY <1>1, <2>1, <2>2
    <3> QED  BY <1>1, <3>1, Elements
  <2>3. CASE i > k
    <3>1. i - k \in 1..Len(b) /\ k + (i - k) = i
      BY <1>1, <2>3
    <3>2. x = b[i - k]
      BY <1>1, <2>1, <3>1
    <3> QED  BY <1>1, <3>1, <3>2, Elements
  <2> QED  BY <1>1, <2>2, <2>3
<1>5. ASSUME Sorted(s, R), NEW j \in 1..Len(b), NEW i \in 1..(j - 1) PROVE <<b[i], b[j]>> \in R
  <2>1. k + j \in 1..Len(s) /\ k + i \in 1..(k + j - 1) /\ i \in 1..(Len(s) - k) /\ j \in 1..(Len(s) - k)
    BY <1>1
  <2>2. <<s[k + i], s[k + j]>> \in R
    BY <1>5, <2>1 DEF Sorted
  <2> QED  BY <1>1, <2>1, <2>2, Zenon
<1>6. Sorted(s, R) => Sorted(b, R)
  BY <1>5 DEF Sorted
<1> QED  BY <1>1, <1>2, <1>3, <1>4, <1>6 DEF a, b

\* A coarser order.
LEMMA CoarserSorted ==
    ASSUME NEW S, NEW R, NEW T, NEW s \in Seq(S), Sorted(s, R), R \subseteq T
    PROVE  Sorted(s, T)
BY DEF Sorted

-----------------------------------------------------------------------------
\* Three queues in a row, what is in cq before what is in w, and that before
\* what is in q.
Pipeline(cq, w, q, R) ==
    /\ Sorted(cq, R) /\ Sorted(w, R) /\ Sorted(q, R)
    /\ Before(Range(cq), Range(w), R) /\ Before(Range(cq), Range(q), R) /\ Before(Range(w), Range(q), R)

\* Each of three queues may lose some of its elements.
LEMMA OrderShrinks ==
    ASSUME NEW cq, NEW w, NEW q, NEW cr, NEW x, NEW r, NEW R, Pipeline(cq, w, q, R),
           Sorted(cr, R), Sorted(x, R), Sorted(r, R),
           Range(cr) \subseteq Range(cq), Range(x) \subseteq Range(w), Range(r) \subseteq Range(q)
    PROVE  Pipeline(cr, x, r, R)
BY Zenon DEF Pipeline, Before

\* The first element of one queue moves to the end of the next.
LEMMA WriterMoves ==
    ASSUME NEW S, NEW R, NEW cq \in Seq(S), NEW w \in Seq(S), NEW q \in Seq(S), q # <<>>, Pipeline(cq, w, q, R)
    PROVE  /\ Pipeline(cq, Append(w, Head(q)), Tail(q), R)
           /\ Range(Append(w, Head(q))) \cup Range(Tail(q)) = Range(w) \cup Range(q)
<1> DEFINE first == Head(q)
           t == Tail(q)
           a == Append(w, first)
<1>1. first \in S /\ t \in Seq(S) /\ Range(q) = {first} \cup Range(t) /\ Sorted(t, R) /\ Before({first}, Range(t), R)
  BY TakeFirst, TakeFirstSorted, Zenon DEF Pipeline
<1>2. Before(Range(w), {first}, R) /\ Before(Range(cq), {first}, R)
  BY <1>1, Zenon DEF Pipeline, Before
<1> HIDE DEF first, t
<1>3. Range(a) = Range(w) \cup {first} /\ Sorted(a, R)
  BY <1>1, <1>2, AppendOne, AppendSorted DEF Pipeline
<1> HIDE DEF a
<1>4. Pipeline(cq, a, t, R)
  BY <1>1, <1>2, <1>3, Zenon DEF Pipeline, Before
<1>5. Range(a) \cup Range(t) = Range(w) \cup Range(q)
  BY <1>1, <1>3, Zenon
<1> QED  BY <1>4, <1>5, Zenon DEF a, first, t

\* So it does from the second queue.
LEMMA ReaderMoves ==
    ASSUME NEW S, NEW R, NEW cq \in Seq(S), NEW w \in Seq(S), NEW q \in Seq(S), w # <<>>, Pipeline(cq, w, q, R)
    PROVE  /\ Pipeline(Append(cq, Head(w)), Tail(w), q, R)
           /\ Range(Append(cq, Head(w))) \cup Range(Tail(w)) = Range(cq) \cup Range(w)
<1> DEFINE first == Head(w)
           t == Tail(w)
           a == Append(cq, first)
<1>1. first \in S /\ t \in Seq(S) /\ Range(w) = {first} \cup Range(t) /\ Sorted(t, R) /\ Before({first}, Range(t), R)
  BY TakeFirst, TakeFirstSorted DEF Pipeline
<1>2. Before({first}, Range(q), R) /\ Before(Range(cq), {first}, R)
  BY <1>1, Zenon DEF Pipeline, Before
<1> HIDE DEF first, t
<1>3. Range(a) = Range(cq) \cup {first} /\ Sorted(a, R)
  BY <1>1, <1>2, AppendOne, AppendSorted DEF Pipeline
<1> HIDE DEF a
<1>4. Pipeline(a, t, q, R)
  BY <1>1, <1>2, <1>3 DEF Pipeline, Before
<1>5. Range(a) \cup Range(t) = Range(cq) \cup Range(w)
  BY <1>1, <1>3, Zenon
<1> QED  BY <1>4, <1>5, Zenon DEF a, first, t

\* A queue in order behind another.
LEMMA Concatenated ==
    ASSUME NEW S, NEW R, NEW q \in Seq(S), NEW s \in Seq(S),
           Sorted(q, R), Sorted(s, R), Before(Range(q), Range(s), R)
    PROVE  Range(q \o s) = Range(q) \cup Range(s) /\ Sorted(q \o s, R)
<1> DEFINE z == q \o s
           len == Len(q)
<1>1. /\ z \in Seq(S) /\ Len(z) = len + Len(s) /\ len \in Nat /\ Len(s) \in Nat
      /\ \A i \in 1..len : z[i] = q[i]
      /\ \A i \in (len + 1)..(len + Len(s)) : z[i] = s[i - len]
  OBVIOUS
<1> HIDE DEF z, len
<1>2. \A i \in 1..len : q[i] \in Range(q)
  BY Elements DEF len
<1>3. \A i \in 1..Len(s) : s[i] \in Range(s)
  BY Elements, Zenon
<1>4. ASSUME NEW x \in Range(z) PROVE x \in Range(q) \cup Range(s)
  <2>1. PICK i \in 1..Len(z) : x = z[i]
    BY <1>1, Elements
  <2>2. CASE i \in 1..len
    BY <1>1, <1>2, <2>1, <2>2, Zenon
  <2>3. CASE i \notin 1..len
    <3>1. i \in (len + 1)..(len + Len(s)) /\ i - len \in 1..Len(s)
      BY <1>1, <2>3
    <3> QED  BY <1>1, <1>3, <2>1, <3>1, Zenon
  <2> QED  BY <2>2, <2>3, Zenon
<1>5. ASSUME NEW x \in Range(q) PROVE x \in Range(z)
  <2>1. PICK i \in 1..len : x = q[i]
    BY Elements, Zenon DEF len
  <2>2. i \in 1..Len(z) /\ z[i] = x
    BY <1>1, <2>1
  <2> QED  BY <1>1, <2>2, Elements, Zenon
<1>6. ASSUME NEW x \in Range(s) PROVE x \in Range(z)
  <2>1. PICK i \in 1..Len(s) : x = s[i]
    BY Elements, Zenon
  <2>2. len + i \in 1..Len(z) /\ len + i \in (len + 1)..(len + Len(s)) /\ (len + i) - len = i
    BY <1>1
  <2>3. z[len + i] = x
    BY <1>1, <2>1, <2>2, Zenon
  <2> QED  BY <1>1, <2>2, <2>3, Elements, Zenon
<1>7. ASSUME NEW j \in 1..Len(z), NEW i \in 1..(j - 1) PROVE <<z[i], z[j]>> \in R
  <2>1. CASE j \in 1..len
    <3>1. i \in 1..len /\ z[i] = q[i] /\ z[j] = q[j]
      BY <1>1, <2>1
    <3> QED  BY <2>1, <3>1, Zenon DEF Sorted, len
  <2>2. CASE j \notin 1..len /\ i \in 1..len
    <3>1. j \in (len + 1)..(len + Len(s)) /\ j - len \in 1..Len(s)
      BY <1>1, <2>2
    <3>2. z[j] \in Range(s) /\ z[i] \in Range(q)
      BY <1>1, <1>2, <1>3, <2>2, <3>1
    <3> QED  BY <3>2, Zenon DEF Before
  <2>3. CASE j \notin 1..len /\ i \notin 1..len
    <3>1. j \in (len + 1)..(len + Len(s)) /\ j - len \in 1..Len(s)
          /\ i \in (len + 1)..(len + Len(s)) /\ i - len \in 1..((j - len) - 1)
      BY <1>1, <2>3
    <3>2. <<s[i - len], s[j - len]>> \in R
      BY <3>1 DEF Sorted
    <3> QED  BY <1>1, <3>1, <3>2, Zenon
  <2> QED  BY <2>1, <2>2, <2>3
<1> QED  BY <1>4, <1>5, <1>6, <1>7, Zenon DEF Sorted, z

\* The elements of one queue behind another.
LEMMA ConcatRange ==
    ASSUME NEW S, NEW q \in Seq(S), NEW s \in Seq(S)
    PROVE  Range(q \o s) = Range(q) \cup Range(s)
<1> DEFINE R == S \X S
<1>1. ASSUME NEW x \in Seq(S) PROVE Sorted(x, R)
  <2>1. ASSUME NEW j \in 1..Len(x), NEW i \in 1..(j - 1) PROVE <<x[i], x[j]>> \in R
    <3>1. i \in 1..Len(x)
      BY Elements
    <3>2. x[i] \in S /\ x[j] \in S
      BY <3>1, Elements
    <3> QED  BY <3>2
  <2> QED  BY <2>1 DEF Sorted
<1>2. \A f \in Range(q) \cup Range(s) : f \in S
  BY Elements
<1>3. Before(Range(q), Range(s), R)
  BY <1>2 DEF Before
<1> QED  BY <1>1, <1>3, Concatenated
=============================================================================
