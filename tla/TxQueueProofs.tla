--------------------------- MODULE TxQueueProofs ----------------------------
(***************************************************************************)
(* For a store of any size, and any frames: the indices of the ring buffer *)
(* stay in range, and the ring buffer implements the byte queue of         *)
(* ByteFifo with one byte less than the store.                             *)
(***************************************************************************)
EXTENDS TxQueue, SequenceTheorems, TLAPS

\* The indices only ever exceed the size of the store by less than that size.
LEMMA ModSmall ==
  ASSUME NEW x \in 0..(LINK_TXBUF_SIZE - 1)
  PROVE  x % LINK_TXBUF_SIZE = x
  BY SizeAssumption, SMT

LEMMA ModWrap ==
  ASSUME NEW x \in LINK_TXBUF_SIZE..(2 * LINK_TXBUF_SIZE - 1)
  PROVE  x % LINK_TXBUF_SIZE = x - LINK_TXBUF_SIZE
  BY SizeAssumption, SMT

LEMMA ModInSlots ==
  ASSUME NEW x \in Nat
  PROVE  x % LINK_TXBUF_SIZE \in Slots
  BY SizeAssumption, SMT DEF Slots

\* The distance from a read position to a write position, without the modulus.
LEMMA DistanceValue ==
  ASSUME NEW h \in Slots, NEW t \in Slots
  PROVE  (t + LINK_TXBUF_SIZE - h) % LINK_TXBUF_SIZE =
            IF t >= h THEN t - h ELSE t + LINK_TXBUF_SIZE - h
<1> DEFINE N == LINK_TXBUF_SIZE
<1>1. N \in Nat \ {0} /\ h \in 0..(N-1) /\ t \in 0..(N-1)
  BY SizeAssumption DEF Slots
<1>2. CASE t >= h
  <2>1. t + N - h \in N..(2*N - 1)
    BY <1>1, <1>2
  <2> QED
    BY <1>1, <1>2, <2>1, ModWrap
<1>3. CASE t < h
  <2>1. t + N - h \in 0..(N-1)
    BY <1>1, <1>3
  <2> QED
    BY <1>1, <1>3, <2>1, ModSmall
<1> QED
  BY <1>1, <1>2, <1>3

\* Number of queued bytes, without the modulus.
LEMMA UsedValue ==
  ASSUME head \in Slots, tail \in Slots
  PROVE  /\ used = IF tail >= head THEN tail - head
                                   ELSE tail + LINK_TXBUF_SIZE - head
         /\ used \in Slots
         /\ avail \in 0..used
         /\ head + avail <= LINK_TXBUF_SIZE
         /\ ~is_empty <=> used > 0
<1>1. used = IF tail >= head THEN tail - head ELSE tail + LINK_TXBUF_SIZE - head
  BY DistanceValue DEF used
<1> QED
  BY <1>1, SizeAssumption DEF Slots, avail, is_empty

\* The slot of the queued byte at distance d from head, without the modulus.
LEMMA SlotValue ==
  ASSUME NEW h \in Slots, NEW d \in 0..LINK_TXBUF_SIZE
  PROVE  /\ (h + d) % LINK_TXBUF_SIZE =
              IF h + d < LINK_TXBUF_SIZE THEN h + d ELSE h + d - LINK_TXBUF_SIZE
         /\ (h + d) % LINK_TXBUF_SIZE \in Slots
<1>1. LINK_TXBUF_SIZE \in Nat \ {0} /\ h \in 0..(LINK_TXBUF_SIZE-1)
  BY SizeAssumption DEF Slots
<1>2. CASE h + d < LINK_TXBUF_SIZE
  BY <1>1, <1>2, ModSmall DEF Slots
<1>3. CASE h + d >= LINK_TXBUF_SIZE
  <2>1. h + d \in LINK_TXBUF_SIZE..(2 * LINK_TXBUF_SIZE - 1)
    BY <1>1, <1>3
  <2>2. (h + d) % LINK_TXBUF_SIZE = h + d - LINK_TXBUF_SIZE
    BY <1>1, <2>1, ModWrap
  <2> QED
    BY <1>1, <1>3, <2>2 DEF Slots
<1> QED
  BY <1>1, <1>2, <1>3

-----------------------------------------------------------------------------
\* Type correctness: no step of the queue leaves the store.
LEMMA TypeStep == TypeOK /\ [Next]_vars => TypeOK'
<1> SUFFICES ASSUME TypeOK, [Next]_vars
             PROVE  TypeOK'
  OBVIOUS
<1>1. ASSUME NEW data \in Frames, enqueue(data)
      PROVE  TypeOK'
  <2>1. data \in Seq(Byte) /\ Len(data) \in Nat
    BY FramesAssumption
  <2>2. tail \in Nat /\ \A i \in 1..Len(data) : data[i] \in Byte
    BY <2>1, SizeAssumption, ElementOfSeq DEF TypeOK, Slots
  <2>3. CASE Len(data) = 0 \/ overflows(data)
    BY <1>1, <2>3 DEF TypeOK, enqueue, Call
  <2>4. CASE ~(Len(data) = 0 \/ overflows(data))
    <3>1. tail' \in Slots
      BY <1>1, <2>1, <2>2, <2>4, ModInSlots DEF enqueue
    <3>2. copied(data) \in [Slots -> Byte]
      <4>1. Len(data) <= LINK_TXBUF_SIZE
        BY <2>1, <2>4, UsedValue, SizeAssumption DEF overflows, TypeOK, Slots
      <4> SUFFICES ASSUME NEW i \in Slots
                   PROVE  copied(data)[i] \in Byte
        BY DEF copied
      <4> QED
        BY <2>1, <2>2, <4>1, SizeAssumption DEF copied, TypeOK, Slots
    <3> QED
      BY <1>1, <2>4, <3>1, <3>2 DEF TypeOK, enqueue, Call
  <2> QED
    BY <2>3, <2>4
<1>2. ASSUME drain_to_fd
      PROVE  TypeOK'
  <2>1. PICK written \in 0..avail :
           /\ wire' = [i \in 1..written |-> buf[head + i - 1]]
           /\ head' = (head + written) % LINK_TXBUF_SIZE
    BY <1>2 DEF drain_to_fd
  <2>2. /\ written \in Nat /\ written <= avail
        /\ head \in Nat /\ head + avail <= LINK_TXBUF_SIZE /\ avail \in Nat
    BY <2>1, UsedValue, SizeAssumption DEF TypeOK, Slots
  <2>3. head' \in Slots
    BY <2>1, <2>2, ModInSlots
  <2>4. wire' \in Seq(Byte)
    <3>1. \A i \in 1..written : buf[head + i - 1] \in Byte
      BY <2>2, SizeAssumption DEF TypeOK, Slots
    <3> QED
      BY <2>1, <2>2, <3>1
  <2> QED
    BY <1>2, <2>3, <2>4 DEF TypeOK, drain_to_fd, Call
<1>3. ASSUME reset
      PROVE  TypeOK'
  BY <1>3, SizeAssumption DEF TypeOK, reset, Slots, Call
<1>4. CASE UNCHANGED vars
  BY <1>4 DEF TypeOK, vars
<1> QED
  BY <1>1, <1>2, <1>3, <1>4 DEF Next

THEOREM TypeCorrect == Spec => []TypeOK
<1>1. Init => TypeOK
  BY SizeAssumption, ByteAssumption DEF Init, TypeOK, Slots, Call
<1> QED
  BY <1>1, TypeStep, PTL DEF Spec

-----------------------------------------------------------------------------
\* The refinement mapping yields a byte sequence of the expected length.
LEMMA QueuedSeq ==
  ASSUME TypeOK
  PROVE  /\ used \in Nat
         /\ Queued \in Seq(Byte)
         /\ Len(Queued) = used
         /\ \A i \in 1..used :
              Queued[i] = buf[(head + i - 1) % LINK_TXBUF_SIZE]
<1>1. used \in Nat /\ used < LINK_TXBUF_SIZE
  BY UsedValue, SizeAssumption DEF TypeOK, Slots
<1>2. \A i \in 1..used : buf[(head + i - 1) % LINK_TXBUF_SIZE] \in Byte
  <2> SUFFICES ASSUME NEW i \in 1..used
               PROVE  buf[(head + i - 1) % LINK_TXBUF_SIZE] \in Byte
    OBVIOUS
  <2>1. head + i - 1 \in Nat
    BY <1>1 DEF TypeOK, Slots
  <2> QED
    BY <2>1, ModInSlots DEF TypeOK
<1> QED
  BY <1>1, <1>2 DEF Queued

\* A frame that fits is appended: no queued byte is overwritten, on either
\* side of the wrap-around.
LEMMA EnqueueAppends ==
  ASSUME TypeOK, TypeOK', NEW data \in Seq(Byte), enqueue(data),
         Len(data) # 0, ~overflows(data)
  PROVE  Queued' = Queued \o data
<1> DEFINE N == LINK_TXBUF_SIZE
           n == Len(data)
<1>1. /\ N \in Nat \ {0} /\ head \in 0..(N-1) /\ tail \in 0..(N-1)
      /\ n \in Nat \ {0} /\ head' = head /\ buf' = copied(data)
  BY SizeAssumption DEF TypeOK, Slots, enqueue
<1>2. /\ used = IF tail >= head THEN tail - head ELSE tail + N - head
      /\ used \in 0..(N-1)
  BY UsedValue DEF TypeOK, Slots
<1>3. n <= N - 1 - used
  BY <1>1, <1>2 DEF overflows
<1>4. tail' = IF tail + n < N THEN tail + n ELSE tail + n - N
  <2>1. tail' = (tail + n) % N
    BY DEF enqueue
  <2>2. n \in 0..N
    BY <1>1, <1>2, <1>3
  <2> QED
    BY <2>1, <2>2, SlotValue DEF TypeOK
<1>5. used' = used + n
  <2>1. used' = IF tail' >= head' THEN tail' - head' ELSE tail' + N - head'
    BY DistanceValue DEF used, TypeOK
  <2> QED
    BY <1>1, <1>2, <1>3, <1>4, <2>1
<1>6. Queued' = [i \in 1..(used + n) |-> buf'[(head + i - 1) % N]]
  BY <1>1, <1>5 DEF Queued
<1>7. ASSUME NEW i \in 1..(used + n)
      PROVE  buf'[(head + i - 1) % N] = IF i <= used THEN Queued[i] ELSE data[i - used]
  <2>1. i - 1 \in 0..N /\ i \in Nat
    BY <1>1, <1>2, <1>3
  <2>2. /\ (head + (i - 1)) % N = IF head + (i - 1) < N THEN head + (i - 1)
                                                    ELSE head + (i - 1) - N
        /\ (head + (i - 1)) % N \in Slots
    BY <2>1, SlotValue DEF TypeOK
  <2>3. head + i - 1 = head + (i - 1)
    BY <1>1, <2>1
  <2> DEFINE k == (head + i - 1) % N
  <2>4. /\ k = IF head + i - 1 < N THEN head + i - 1 ELSE head + i - 1 - N
        /\ k \in Slots
    BY <1>1, <2>1, <2>2, <2>3
  <2>5. buf'[k] = IF k \in tail..(tail + n - 1) THEN data[k - tail + 1]
                  ELSE IF k + N < tail + n THEN data[k + N - tail + 1]
                                           ELSE buf[k]
    BY <1>1, <2>4 DEF copied
  <2>8. i <= used => Queued[i] = buf[k]
    BY <1>2, <2>1, QueuedSeq
  <2> HIDE DEF k
  <2>6. CASE i <= used
    <3>1. k \notin tail..(tail + n - 1) /\ ~(k + N < tail + n)
      BY <1>1, <1>2, <1>3, <2>1, <2>4, <2>6 DEF Slots
    <3> QED
      BY <2>5, <2>6, <2>8, <3>1 DEF k
  <2>7. CASE i > used
    <3>1. CASE k \in tail..(tail + n - 1)
      <4>1. k - tail + 1 = i - used
        BY <1>1, <1>2, <1>3, <2>1, <2>4, <2>7, <3>1 DEF Slots
      <4> QED
        BY <1>2, <2>1, <2>5, <2>7, <3>1, <4>1 DEF k
    <3>2. CASE k \notin tail..(tail + n - 1)
      <4>1. k + N < tail + n /\ k + N - tail + 1 = i - used
        BY <1>1, <1>2, <1>3, <2>1, <2>4, <2>7, <3>2 DEF Slots
      <4> QED
        BY <1>2, <2>1, <2>5, <2>7, <3>2, <4>1 DEF k
    <3> QED
      BY <3>1, <3>2
  <2> QED
    BY <1>2, <2>1, <2>6, <2>7
<1>8. /\ Queued \o data \in Seq(Byte)
      /\ Len(Queued \o data) = used + n
      /\ \A i \in 1..(used + n) : (Queued \o data)[i] =
            IF i <= used THEN Queued[i] ELSE data[i - used]
  <2>1. Queued \in Seq(Byte) /\ Len(Queued) = used
    BY QueuedSeq
  <2>2. /\ Queued \o data \in Seq(Byte)
        /\ Len(Queued \o data) = Len(Queued) + Len(data)
        /\ \A i \in 1..(Len(Queued) + Len(data)) : (Queued \o data)[i] =
              IF i <= Len(Queued) THEN Queued[i] ELSE data[i - Len(Queued)]
    BY <2>1, ConcatProperties, Zenon
  <2> QED
    BY <2>1, <2>2
<1>9. /\ Queued' \in Seq(Byte) /\ Len(Queued') = used + n
      /\ \A i \in 1..(used + n) : Queued'[i] = (Queued \o data)[i]
  <2>1. \A i \in 1..(used + n) : Queued'[i] = (Queued \o data)[i]
    BY <1>6, <1>7, <1>8
  <2>2. \A i \in 1..(used + n) : (Queued \o data)[i] \in Byte
    BY <1>8, ElementOfSeq
  <2>3. used + n \in Nat
    BY <1>1, <1>2
  <2>4. \A i \in 1..(used + n) : buf'[(head + i - 1) % N] \in Byte
    BY <1>7, <1>8, <2>2
  <2> DEFINE f(i) == buf'[(head + i - 1) % N]
  <2>5. [i \in 1..(used + n) |-> f(i)] \in Seq(Byte)
    BY <2>3, <2>4, IsASeq
  <2>6. DOMAIN Queued' = 1..(used + n)
    BY <1>6
  <2>7. Len(Queued') = used + n
    BY <1>6, <2>3, <2>5, <2>6, LenProperties
  <2> QED
    BY <1>6, <2>1, <2>5, <2>7, Zenon
<1> QED
  BY <1>8, <1>9, SeqEqual

\* A drain writes the oldest bytes and leaves the others, even when it stops
\* at the end of the store.
LEMMA DrainTakesOldest ==
  ASSUME TypeOK, TypeOK', NEW written \in 0..avail,
         wire' = [i \in 1..written |-> buf[head + i - 1]],
         head' = (head + written) % LINK_TXBUF_SIZE,
         UNCHANGED <<buf, tail>>
  PROVE  /\ written \in 0..Len(Queued)
         /\ wire' = SubSeq(Queued, 1, written)
         /\ Queued' = SubSeq(Queued, written + 1, Len(Queued))
<1> DEFINE N == LINK_TXBUF_SIZE
<1>1. N \in Nat \ {0} /\ head \in 0..(N-1) /\ tail \in 0..(N-1)
  BY SizeAssumption DEF TypeOK, Slots
<1>2. /\ used = IF tail >= head THEN tail - head ELSE tail + N - head
      /\ used \in 0..(N-1) /\ avail \in 0..used /\ head + avail <= N
  BY UsedValue DEF TypeOK, Slots
<1>3. written \in 0..used /\ head + written <= N
  BY <1>1, <1>2
<1>4. head' = IF head + written < N THEN head + written ELSE head + written - N
  <2>1. written \in 0..N
    BY <1>1, <1>2, <1>3
  <2> QED
    BY <2>1, SlotValue DEF TypeOK
<1>5. used' = used - written
  <2>1. used' = IF tail' >= head' THEN tail' - head' ELSE tail' + N - head'
    BY DistanceValue DEF used, TypeOK
  <2> QED
    BY <1>1, <1>2, <1>3, <1>4, <2>1 DEF avail
<1>6. /\ Queued \in Seq(Byte) /\ Len(Queued) = used /\ used \in Nat
      /\ \A i \in 1..used : Queued[i] = buf[(head + i - 1) % N]
      /\ \A i \in 1..used : Queued[i] \in Byte
  BY QueuedSeq, ElementOfSeq
<1>7. wire' = SubSeq(Queued, 1, written)
  <2>1. ASSUME NEW i \in 1..written
        PROVE  wire'[i] = Queued[i]
    <3>1. head + i - 1 \in 0..(N-1) /\ i \in 1..used
      BY <1>1, <1>2, <1>3
    <3> QED
      BY <1>6, <3>1, ModSmall
  <2>2. /\ SubSeq(Queued, 1, written) \in Seq(Byte)
        /\ Len(SubSeq(Queued, 1, written)) = written
        /\ \A i \in 1..written : SubSeq(Queued, 1, written)[i] = Queued[i]
    BY <1>3, <1>6, SubSeqProperties
  <2>3. wire' \in Seq(Byte) /\ Len(wire') = written
    BY <1>3, LenProperties DEF TypeOK
  <2> QED
    BY <2>1, <2>2, <2>3, SeqEqual
<1>8. Queued' = SubSeq(Queued, written + 1, used)
  <2> DEFINE m == used - written
  <2>1. m \in Nat
    BY <1>2, <1>3
  <2>2. Queued' \in Seq(Byte) /\ Len(Queued') = m
    <3>1. \A i \in 1..m : buf'[(head' + i - 1) % N] \in Byte
      <4> SUFFICES ASSUME NEW i \in 1..m
                   PROVE  buf'[(head' + i - 1) % N] \in Byte
        OBVIOUS
      <4>1. head' + i - 1 \in Nat
        BY <2>1 DEF TypeOK, Slots
      <4> QED
        BY <4>1, ModInSlots, Zenon DEF TypeOK
    <3>2. Queued' = [i \in 1..m |-> buf'[(head' + i - 1) % N]]
      BY <1>5 DEF Queued
    <3> HIDE DEF m
    <3> QED
      BY <2>1, <3>1, <3>2
  <2>3. /\ SubSeq(Queued, written + 1, used) \in Seq(Byte)
        /\ Len(SubSeq(Queued, written + 1, used)) = m
        /\ \A i \in 1..m : SubSeq(Queued, written + 1, used)[i] = Queued[written + i]
    BY <1>3, <1>6, SubSeqProperties
  <2>4. ASSUME NEW i \in 1..m
        PROVE  Queued'[i] = Queued[written + i]
    <3>1. Queued'[i] = buf[(head' + i - 1) % N]
      BY <1>5 DEF Queued
    <3>2. Queued[written + i] = buf[(head + (written + i) - 1) % N]
      BY <1>3, <1>6
    <3>3. (head' + (i - 1)) % N = (head + (written + i - 1)) % N
      <4>1. i - 1 \in 0..N /\ written + i - 1 \in 0..N
        BY <1>1, <1>2, <1>3
      <4>2. (head' + (i - 1)) % N =
              IF head' + (i - 1) < N THEN head' + (i - 1) ELSE head' + (i - 1) - N
        BY <4>1, SlotValue DEF TypeOK
      <4>3. (head + (written + i - 1)) % N =
              IF head + (written + i - 1) < N THEN head + (written + i - 1)
                                              ELSE head + (written + i - 1) - N
        BY <4>1, SlotValue DEF TypeOK
      <4> QED
        BY <1>1, <1>2, <1>3, <1>4, <4>1, <4>2, <4>3
    <3>4. /\ head' + i - 1 = head' + (i - 1)
          /\ head + (written + i) - 1 = head + (written + i - 1)
      BY <1>1, <1>3, <1>4
    <3> QED
      BY <3>1, <3>2, <3>3, <3>4
  <2> QED
    BY <2>2, <2>3, <2>4, SeqEqual, Zenon
<1> QED
  BY <1>3, <1>6, <1>7, <1>8

-----------------------------------------------------------------------------
\* Every step of the ring buffer is a step, or a stutter, of the byte queue.
LEMMA StepRefines ==
  ASSUME TypeOK, TypeOK', [Next]_vars
  PROVE  [Fifo!FifoNext]_(Fifo!fifoVars)
<1> USE DEF Fifo!FifoNext
<1>1. /\ Queued \in Seq(Byte) /\ Len(Queued) = used /\ used \in Nat
  BY QueuedSeq
<1>2. ASSUME NEW data \in Frames, enqueue(data)
      PROVE  Fifo!FifoNext
  <2>1. data \in Seq(Byte) /\ Len(data) \in Nat
    BY FramesAssumption
  <2>0. call' = Fifo!Call("enqueue", data)
    BY <1>2 DEF enqueue, Call, Fifo!Call
  <2>2. CASE Len(data) = 0
    <3>1. data = <<>>
      BY <2>1, <2>2
    <3>2. Queued' = Queued /\ wire' = <<>>
      BY <1>2, <2>2 DEF enqueue, Queued, used
    <3>3. Queued \o data = Queued
      BY <1>1, <3>1, ConcatEmptySeq
    <3>4. Len(Queued) + Len(data) <= LINK_TXBUF_SIZE - 1
      BY <1>1, <2>2, UsedValue, SizeAssumption DEF TypeOK, Slots
    <3>5. Fifo!Accept(data)
      BY <2>0, <3>2, <3>3, <3>4 DEF Fifo!Accept
    <3> QED
      BY <3>5
  <2>3. CASE Len(data) # 0 /\ overflows(data)
    <3>1. Queued' = Queued /\ wire' = <<>>
      BY <1>2, <2>3 DEF enqueue, Queued, used
    <3>2. Len(Queued) + Len(data) > LINK_TXBUF_SIZE - 1
      BY <1>1, <2>1, <2>3, SizeAssumption DEF overflows
    <3>3. Fifo!Refuse(data)
      BY <2>0, <3>1, <3>2 DEF Fifo!Refuse
    <3> QED
      BY <3>3
  <2>4. CASE Len(data) # 0 /\ ~overflows(data)
    <3>1. Queued' = Queued \o data /\ wire' = <<>>
      BY <1>2, <2>1, <2>4, EnqueueAppends DEF enqueue
    <3>2. Len(Queued) + Len(data) <= LINK_TXBUF_SIZE - 1
      BY <1>1, <2>1, <2>4, SizeAssumption DEF overflows
    <3>3. Fifo!Accept(data)
      BY <2>0, <3>1, <3>2 DEF Fifo!Accept
    <3> QED
      BY <3>3
  <2> QED
    BY <2>2, <2>3, <2>4
<1>3. ASSUME drain_to_fd
      PROVE  Fifo!FifoNext
  <2>1. PICK written \in 0..avail :
           /\ wire' = [i \in 1..written |-> buf[head + i - 1]]
           /\ head' = (head + written) % LINK_TXBUF_SIZE
    BY <1>3 DEF drain_to_fd
  <2>2. UNCHANGED <<buf, tail>>
    BY <1>3 DEF drain_to_fd
  <2>3. /\ written \in 0..Len(Queued)
        /\ wire' = SubSeq(Queued, 1, written)
        /\ Queued' = SubSeq(Queued, written + 1, Len(Queued))
    BY <2>1, <2>2, DrainTakesOldest, Zenon
  <2>4. Fifo!Write(written)
    BY <1>3, <2>3 DEF Fifo!Write, drain_to_fd, Call, Fifo!Call
  <2> QED
    BY <2>3, <2>4
<1>4. ASSUME reset
      PROVE  Fifo!FifoNext
  <2>1. used' = 0
    <3>1. (0 + LINK_TXBUF_SIZE - 0) % LINK_TXBUF_SIZE = 0
      BY SizeAssumption, ModWrap
    <3> QED
      BY <1>4, <3>1 DEF reset, used
  <2>2. Queued' = <<>>
    BY <2>1 DEF Queued
  <2>3. Fifo!Clear
    BY <1>4, <2>2 DEF Fifo!Clear, reset, Call, Fifo!Call
  <2> QED
    BY <2>3
<1>5. CASE UNCHANGED vars
  BY <1>5 DEF vars, Fifo!fifoVars, Queued, used
<1> QED
  BY <1>2, <1>3, <1>4, <1>5 DEF Next

\* The ring buffer of any size implements the bounded byte queue: what
\* TxQueue's callers rely on when they enqueue frames and drain to the link.
THEOREM RingImplementsFifo == Spec => RingIsFifo
<1>1. Init => Fifo!FifoInit
  <2> SUFFICES ASSUME Init
               PROVE  Queued = <<>> /\ wire = <<>>
    BY DEF Fifo!FifoInit, Init, Call, Fifo!Call
  <2>1. used = 0
    BY SizeAssumption, ModWrap DEF Init, used
  <2> QED
    BY <2>1 DEF Queued, Init
<1>2. TypeOK /\ TypeOK' /\ [Next]_vars => [Fifo!FifoNext]_(Fifo!fifoVars)
  BY StepRefines
<1> QED
  BY <1>1, <1>2, TypeCorrect, PTL DEF Spec, RingIsFifo, Fifo!FifoSpec
=============================================================================
