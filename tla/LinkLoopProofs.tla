--------------------------- MODULE LinkLoopProofs ---------------------------
(***************************************************************************)
(* Proofs about LinkLoop for every size of the ring, the marks, the frames *)
(* and the sets of channels, and every bound.  The argument for            *)
(* OnlyBurstsDrop: while backpressure is off the queue exceeds the mark by *)
(* no more than what no mark holds back, since a serial read that reaches  *)
(* the mark pauses every channel; from then on only the serial events      *)
(* still in the batch are read (SerialDue), each of them once.             *)
(* At the end, two theorems about the tokens of TokenMap, which has no     *)
(* state.                                                                  *)
(***************************************************************************)
EXTENDS LinkLoop, TokenMap, FiniteSetTheorems, TLAPS

\* Multiplication by a natural number is monotonic.
LEMMA Times ==
    ASSUME NEW t \in Nat, NEW a \in Nat, NEW b \in Nat, a <= b
    PROVE  t * a \in Nat /\ t * a <= t * b
OBVIOUS

\* A product grows by its factor.
LEMMA TimesPred ==
    ASSUME NEW t \in Nat, NEW a \in Nat
    PROVE  t * (a + 1) = t * a + t
OBVIOUS


\* The constants are numbers in the order the assumptions give.
LEMMA Sizes ==
    /\ READ \in Nat \ {0} /\ MAX_FRAME \in Nat \ {0} /\ READ <= MAX_FRAME
    /\ MaxReads \in Nat /\ MaxControl \in Nat /\ Kernel \in Nat \ {0}
    /\ LINK_HIGH_WATER \in Nat \ {0} /\ LINK_LOW_WATER \in Nat
    /\ LINK_LOW_WATER < LINK_HIGH_WATER
    /\ LINK_TXBUF_SIZE \in Nat /\ LINK_HIGH_WATER + MAX_FRAME < LINK_TXBUF_SIZE
BY SizesAssumption DEF LINK_TXBUF_SIZE

\* TxQueue::enqueue never overfills the store, and drops a frame only when the
\* frames offered, and the first one dropped, are more than there is room for.
LEMMA FittingFacts ==
    ASSUME used \in 0..(LINK_TXBUF_SIZE - 1), NEW n \in Nat, NEW size \in Nat \ {0}
    PROVE  /\ Fitting(n, size) \in 0..n
           /\ used + Fitting(n, size) * size \in 0..(LINK_TXBUF_SIZE - 1)
           /\ n * size \in Nat /\ Fitting(n, size) * size <= n * size
           /\ Fitting(n, size) < n =>
                /\ used + Fitting(n, size) * size + size >= LINK_TXBUF_SIZE
                /\ used + n * size >= LINK_TXBUF_SIZE
<1> DEFINE free == LINK_TXBUF_SIZE - 1 - used
           most == free \div size
<1>0. free \in Nat /\ n * size \in Nat
  BY Sizes
<1>1. most \in Nat /\ most * size <= free /\ free < (most + 1) * size
  BY <1>0
<1>2. ASSUME NEW k \in Nat, k <= most PROVE k * size \in Nat /\ k * size <= free
  BY <1>0, <1>1, <1>2
<1>3. ASSUME most < n PROVE (most + 1) * size <= n * size
  BY <1>1, <1>3, Times
<1>4. (most + 1) * size = most * size + size /\ most * size \in Nat
  BY <1>1
<1> HIDE DEF most
<1>5. Fitting(n, size) = IF n < most THEN n ELSE most
  BY DEF Fitting, most
<1>6. Fitting(n, size) \in 0..n /\ Fitting(n, size) <= most
  BY <1>1, <1>5
<1>7. Fitting(n, size) * size \in Nat /\ Fitting(n, size) * size <= free
  BY <1>2, <1>6
<1>8. Fitting(n, size) * size <= n * size
  BY <1>6, Times
<1>9. ASSUME Fitting(n, size) < n
      PROVE  /\ used + Fitting(n, size) * size + size >= LINK_TXBUF_SIZE
             /\ used + n * size >= LINK_TXBUF_SIZE
  <2>1. Fitting(n, size) = most /\ most < n
    BY <1>1, <1>5, <1>9
  <2> QED  BY <1>0, <1>1, <1>3, <1>4, <2>1, Sizes
<1> QED  BY <1>0, <1>6, <1>7, <1>8, <1>9, Sizes

-----------------------------------------------------------------------------
\* Removing a member of a finite set lowers its size by one.
LEMMA RemoveOne ==
    ASSUME NEW S, IsFiniteSet(S), NEW x \in S
    PROVE  Cardinality(S \ {x}) \in Nat /\ Cardinality(S) = Cardinality(S \ {x}) + 1
<1>1. Cardinality(S) \in Nat
  BY FS_CardinalityType
<1>2. IsFiniteSet(S \ {x}) /\ Cardinality(S \ {x}) = Cardinality(S) - 1
  BY FS_RemoveElement
<1>3. Cardinality(S \ {x}) \in Nat
  BY <1>2, FS_CardinalityType
<1> QED  BY <1>1, <1>2, <1>3

\* What the serial channels of a batch may still queue.
SerialDue(b) == READ * Cardinality(Serial \cap b)

\* What they queue at most, all in one batch.
MostSerial == READ * Cardinality(Serial)

\* The serial channels are finitely many.
LEMMA Cards ==
    ASSUME NEW b
    PROVE  /\ IsFiniteSet(Serial \cap b) /\ Cardinality(Serial \cap b) \in Nat
           /\ Cardinality(Serial) \in Nat /\ Cardinality(Serial \cap b) <= Cardinality(Serial)
<1>1. IsFiniteSet(Serial) /\ Serial \cap b \subseteq Serial
  BY ChannelsAssumption, FS_Subset DEF Channels
<1> QED  BY <1>1, FS_Subset, FS_CardinalityType

\* No batch holds more than every serial channel.
LEMMA DueBound ==
    ASSUME NEW b
    PROVE  SerialDue(b) \in Nat /\ MostSerial \in Nat /\ SerialDue(b) <= MostSerial
<1>1. /\ Cardinality(Serial \cap b) \in Nat /\ Cardinality(Serial) \in Nat /\ READ \in Nat
      /\ Cardinality(Serial \cap b) <= Cardinality(Serial)
  BY Cards, Sizes
<1>2. /\ READ * Cardinality(Serial \cap b) \in Nat
      /\ READ * Cardinality(Serial \cap b) <= READ * Cardinality(Serial)
  BY <1>1, Times, Zenon
<1>3. READ * Cardinality(Serial) \in Nat
  BY <1>1
<1> QED  BY <1>2, <1>3, Zenon DEF SerialDue, MostSerial

\* A batch with fewer events holds no more serial reads.
LEMMA DueFewer ==
    ASSUME NEW b, NEW d, Serial \cap d \subseteq b
    PROVE  SerialDue(d) <= SerialDue(b)
<1>1. Serial \cap d \in SUBSET (Serial \cap b)
  OBVIOUS
<1>2. Cardinality(Serial \cap d) <= Cardinality(Serial \cap b)
  BY <1>1, Cards, FS_Subset
<1> QED  BY <1>2, Cards, Sizes, Times DEF SerialDue

\* The event of a serial channel is handled.
LEMMA DueHandled ==
    ASSUME NEW b, NEW c \in Serial, c \in b
    PROVE  SerialDue(b \ {c}) + READ = SerialDue(b)
<1>1. Serial \cap (b \ {c}) = (Serial \cap b) \ {c} /\ c \in Serial \cap b
  OBVIOUS
<1> DEFINE s == Cardinality(Serial \cap (b \ {c}))
<1>2. s \in Nat /\ Cardinality(Serial \cap b) = s + 1
  BY <1>1, Cards, RemoveOne, Zenon
<1>3. READ * (s + 1) = READ * s + READ
  BY <1>2, Sizes, TimesPred
<1>4. SerialDue(b \ {c}) = READ * s /\ SerialDue(b) = READ * (s + 1)
  BY <1>2 DEF SerialDue
<1> QED  BY <1>3, <1>4

-----------------------------------------------------------------------------
-----------------------------------------------------------------------------
\* What holds whatever the sizes: a link that is down has an empty queue, no
\* backpressure and no event of its own.
IInv ==
    /\ TypeOK
    /\ PausedOnlyByBackpressure
    /\ link = "down" => used = 0 /\ ~link_bp /\ batch \cap LinkEvents = {}

\* Queueing frames keeps the ring within its store.
LEMMA EnqueueType ==
    ASSUME TypeOK, NEW n \in Nat, NEW size \in Nat \ {0}, enqueue(n, size)
    PROVE  /\ used' \in 0..(LINK_TXBUF_SIZE - 1) /\ dropped' \in BOOLEAN /\ head' = head
BY FittingFacts DEF TypeOK, enqueue

\* The history counts bytes.
LEMMA UnheldType ==
    ASSUME TypeOK, NEW n \in Nat, Unheld(n)
    PROVE  unheld' \in Nat
BY DEF TypeOK, Unheld

\* The test of the high-water mark pauses all the channels or none.
LEMMA PauseType ==
    ASSUME IInv, check_bp_high
    PROVE  /\ link_bp' \in BOOLEAN /\ paused' \subseteq Channels /\ (paused' # {} => link_bp')
           /\ (used' = 0 /\ ~link_bp => ~link_bp')
<1>1. CASE ~link_bp /\ used' >= LINK_HIGH_WATER
  <2>1. link_bp' = TRUE /\ paused' = Channels
    BY <1>1 DEF check_bp_high
  <2>2. used' # 0
    BY <1>1, Sizes
  <2> QED  BY <2>1, <2>2
<1>2. CASE ~(~link_bp /\ used' >= LINK_HIGH_WATER)
  BY <1>2 DEF IInv, TypeOK, PausedOnlyByBackpressure, check_bp_high
<1> QED  BY <1>1, <1>2

\* Every step keeps what holds whatever the sizes.
LEMMA IInvStep == IInv /\ [Next]_vars => IInv'
<1> SUFFICES ASSUME IInv, [Next]_vars PROVE IInv'
  OBVIOUS
<1> USE Sizes
<1>0. TypeOK
  BY DEF IInv
<1>1. CASE open_link
  <2>1. head' \in 0..(LINK_TXBUF_SIZE - 1) /\ used' \in 0..(LINK_TXBUF_SIZE - 1)
        /\ control' \in 0..MaxControl /\ room' \in 0..Kernel
    BY <1>1 DEF open_link
  <2>3. unheld' \in Nat /\ dropped' = FALSE
    BY <1>0, <1>1, UnheldType DEF open_link
  <2>2. paused' = {}
    BY <1>1 DEF open_link, IInv, PausedOnlyByBackpressure
  <2> QED  BY <1>1, <2>1, <2>2, <2>3, Zenon DEF open_link, IInv, TypeOK, PausedOnlyByBackpressure
<1>2. CASE close_link
  <2>1. head' \in 0..(LINK_TXBUF_SIZE - 1) /\ used' \in 0..(LINK_TXBUF_SIZE - 1)
        /\ control' \in 0..MaxControl
    BY <1>2 DEF close_link
  <2>2. link_bp' = FALSE /\ paused' = {}
    BY <1>2 DEF close_link, resume_source_reads, IInv, TypeOK, PausedOnlyByBackpressure
  <2>3. batch' \cap LinkEvents = {} /\ batch' \subseteq batch
    BY <1>2 DEF close_link
  <2>4. used' = 0 /\ link' = "down" /\ writable' = FALSE /\ edge' = FALSE
        /\ dropped' = FALSE /\ UNCHANGED room
    BY <1>2 DEF close_link
  <2>5. unheld' \in Nat
    BY <1>0, <1>2, UnheldType DEF close_link
  <2> QED  BY <2>1, <2>2, <2>3, <2>4, <2>5, Zenon DEF IInv, TypeOK, PausedOnlyByBackpressure
<1>3. CASE run
  <2>1. used' \in 0..(LINK_TXBUF_SIZE - 1) /\ dropped' \in BOOLEAN /\ head' = head /\ unheld' \in Nat
        /\ control' \in 0..MaxControl
    <3>1. CASE UNCHANGED queue
      BY <1>0, <3>1 DEF queue, TypeOK
    <3>2. CASE \E n \in 1..MaxControl : enqueue_control(n)
      BY <1>0, <3>2, EnqueueType, UnheldType DEF enqueue_control, TypeOK
    <3> QED  BY <1>3, <3>1, <3>2 DEF run
  <2>2. batch' \subseteq Channels \cup LinkEvents \cup Listener
    BY <1>3 DEF run, LinkEvents
  <2>3. writable' \in BOOLEAN /\ edge' \in BOOLEAN
    BY <1>0, <1>3, Zenon DEF run, TypeOK
  <2> QED  BY <1>3, <2>1, <2>2, <2>3 DEF run, IInv, TypeOK, PausedOnlyByBackpressure
<1>4. ASSUME NEW c \in Serial, serial_event(c) PROVE IInv'
  <2>1. used' \in 0..(LINK_TXBUF_SIZE - 1) /\ dropped' \in BOOLEAN /\ head' = head /\ unheld' \in Nat
        /\ (link = "down" => used' = used)
    <3>1. CASE UNCHANGED <<head, used, dropped, unheld>>
      BY <1>0, <3>1 DEF TypeOK
    <3>2. CASE link = "up" /\ \E size \in 1..READ : enqueue(1, size) /\ Unheld(0)
      BY <1>0, <3>2, EnqueueType, UnheldType
    <3> QED  BY <1>4, <3>1, <3>2 DEF serial_event
  <2>2. link_bp' \in BOOLEAN /\ paused' \subseteq Channels /\ (paused' # {} => link_bp')
        /\ (used' = 0 /\ ~link_bp => ~link_bp')
    BY <1>4, PauseType DEF serial_event
  <2>3. writable' \in BOOLEAN /\ edge' \in BOOLEAN
    BY <1>4, <1>0, <2>1 DEF serial_event, set_link_write_interest, TypeOK
  <2> QED  BY <1>4, <2>1, <2>2, <2>3 DEF serial_event, Handled, IInv, TypeOK, PausedOnlyByBackpressure
<1>5. ASSUME NEW c \in Tcp, tcp_event(c) PROVE IInv'
  <2>1. used' \in 0..(LINK_TXBUF_SIZE - 1) /\ dropped' \in BOOLEAN /\ head' = head /\ unheld' \in Nat
        /\ (link = "down" => used' = used)
    <3>1. CASE UNCHANGED <<head, used, dropped, unheld>>
      BY <1>0, <3>1 DEF TypeOK
    <3>2. CASE link = "up" /\ \E n \in 1..MaxReads : enqueue(n, MAX_FRAME) /\ Unheld(n * MAX_FRAME)
      <4>1. PICK n \in 1..MaxReads : enqueue(n, MAX_FRAME) /\ Unheld(n * MAX_FRAME)
        BY <3>2
      <4>2. n \in Nat /\ n * MAX_FRAME \in Nat
        OBVIOUS
      <4> QED  BY <1>0, <3>2, <4>1, <4>2, EnqueueType, UnheldType
    <3> QED  BY <1>5, <3>1, <3>2 DEF tcp_event
  <2>2. link_bp' \in BOOLEAN /\ paused' \subseteq Channels /\ (paused' # {} => link_bp')
        /\ (used' = 0 /\ ~link_bp => ~link_bp')
    <3>1. CASE link_bp
      BY <1>5, <1>0, <3>1 DEF tcp_event, TypeOK, Channels
    <3>2. CASE ~link_bp
      BY <1>5, <3>2, PauseType DEF tcp_event
    <3> QED  BY <3>1, <3>2
  <2>3. writable' \in BOOLEAN /\ edge' \in BOOLEAN
    BY <1>5, <1>0, <2>1 DEF tcp_event, set_link_write_interest, TypeOK
  <2> QED  BY <1>5, <2>1, <2>2, <2>3 DEF tcp_event, Handled, IInv, TypeOK, PausedOnlyByBackpressure
<1>6. CASE accept
  <2>1. used' \in 0..(LINK_TXBUF_SIZE - 1) /\ dropped' \in BOOLEAN /\ head' = head /\ unheld' \in Nat
        /\ control' \in 0..MaxControl /\ (link = "down" => used' = used)
    <3>1. CASE UNCHANGED queue
      BY <1>0, <3>1 DEF queue, TypeOK
    <3>2. CASE link = "up" /\ enqueue_control(1)
      BY <1>0, <3>2, EnqueueType, UnheldType DEF enqueue_control, TypeOK
    <3> QED  BY <1>6, <3>1, <3>2 DEF accept
  <2>2. link_bp' \in BOOLEAN /\ paused' \subseteq Channels /\ (paused' # {} => link_bp')
        /\ (used' = 0 /\ ~link_bp => ~link_bp')
    <3>1. CASE check_bp_high
      BY <3>1, PauseType
    <3>2. CASE link_bp /\ UNCHANGED link_bp /\ \E c \in Tcp : paused' = paused \ {c}
      BY <1>0, <3>2 DEF TypeOK
    <3> QED  BY <1>6, <3>1, <3>2 DEF accept
  <2>3. writable' \in BOOLEAN /\ edge' \in BOOLEAN
    BY <1>6, <1>0, <2>1 DEF accept, set_link_write_interest, TypeOK
  <2> QED  BY <1>6, <2>1, <2>2, <2>3 DEF accept, Handled, IInv, TypeOK, PausedOnlyByBackpressure
<1>7. CASE link_read
  <2>0. link # "down"
    BY <1>7 DEF link_read, Handled, IInv, LinkEvents
  <2>1. used' \in 0..(LINK_TXBUF_SIZE - 1) /\ dropped' \in BOOLEAN /\ head' = head /\ unheld' \in Nat
        /\ control' \in 0..MaxControl
    <3>1. CASE UNCHANGED queue
      BY <1>0, <3>1 DEF queue, TypeOK
    <3>2. CASE \E n \in 0..MaxControl : enqueue_control(n)
      BY <1>0, <3>2, EnqueueType, UnheldType DEF enqueue_control, TypeOK
    <3> QED  BY <1>7, <3>1, <3>2 DEF link_read
  <2>2. link_bp' \in BOOLEAN /\ paused' \subseteq Channels /\ (paused' # {} => link_bp')
    <3>1. CASE check_bp_high
      BY <3>1, PauseType
    <3>2. CASE UNCHANGED <<link_bp, paused>>
      BY <3>2 DEF IInv, TypeOK, PausedOnlyByBackpressure
    <3> QED  BY <1>7, <3>1, <3>2 DEF link_read
  <2>3. writable' \in BOOLEAN /\ edge' \in BOOLEAN
    <3>1. CASE set_link_write_interest(used' > 0)
      BY <1>0, <2>1, <3>1 DEF set_link_write_interest, TypeOK
    <3>2. CASE UNCHANGED <<writable, edge>>
      BY <1>0, <3>2 DEF TypeOK
    <3> QED  BY <1>7, <3>1, <3>2 DEF link_read
  <2> QED  BY <1>7, <2>0, <2>1, <2>2, <2>3 DEF link_read, Handled, IInv, TypeOK, PausedOnlyByBackpressure
<1>8. CASE link_write
  <2>0. link # "down"
    BY <1>8 DEF link_write, Handled, IInv, LinkEvents
  <2>1. avail \in Nat /\ avail <= used
    BY <1>0 DEF avail, TypeOK
  <2>2. PICK n \in {IF avail < room THEN avail ELSE room} :
          head' = advanced(n) /\ used' = used - n /\ room' = room - n
    BY <1>8 DEF link_write
  <2>3. n \in Nat /\ n <= used /\ n <= room
    BY <1>0, <2>1, <2>2 DEF TypeOK
  <2>4. used' \in 0..(LINK_TXBUF_SIZE - 1) /\ room' \in 0..Kernel
    BY <1>0, <2>2, <2>3 DEF TypeOK
  <2>5. head' \in 0..(LINK_TXBUF_SIZE - 1)
    BY <1>0, <2>2, <2>3 DEF TypeOK, advanced
  <2>6. link_bp' \in BOOLEAN /\ paused' \subseteq Channels /\ (paused' # {} => link_bp')
    BY <1>8, Zenon DEF link_write, resume_source_reads, IInv, TypeOK, PausedOnlyByBackpressure
  <2>7. writable' \in BOOLEAN /\ edge' \in BOOLEAN
    BY <1>0, <1>8, Zenon DEF link_write, TypeOK
  <2>8. control' \in 0..MaxControl
    BY <1>0, <1>8 DEF link_write, TypeOK
  <2>9. unheld' \in Nat /\ dropped' = FALSE
    BY <1>0, <1>8, UnheldType DEF link_write
  <2> QED  BY <1>8, <2>0, <2>4, <2>5, <2>6, <2>7, <2>8, <2>9 DEF link_write, Handled, IInv, TypeOK, PausedOnlyByBackpressure
<1>9. CASE Transmit
  BY <1>9 DEF Transmit, queue, IInv, TypeOK, PausedOnlyByBackpressure
<1>10. CASE UNCHANGED vars
  BY <1>10 DEF vars, queue, IInv, TypeOK, PausedOnlyByBackpressure
<1> QED  BY <1>1, <1>2, <1>3, <1>4, <1>5, <1>6, <1>7, <1>8, <1>9, <1>10 DEF Next

-----------------------------------------------------------------------------
\* The room above the high-water mark holds all that is read after it is

-----------------------------------------------------------------------------
\* What the queue holds above the mark: while backpressure is off, only what no
\* mark holds back; under it, a read of each serial channel besides, those of
\* the batch still to come.
Room ==
    /\ ~link_bp => used <= LINK_HIGH_WATER - 1 + unheld
    /\ link_bp => /\ Serial \subseteq paused
                  /\ used + SerialDue(batch) <= LINK_HIGH_WATER - 1 + unheld + MostSerial
    /\ DropsNeedABurst

\* The numbers of a state and of the next one.
LEMMA Numbers ==
    ASSUME IInv, IInv'
    PROVE  /\ {used, used', unheld, unheld'} \subseteq Nat
           /\ {SerialDue(batch), SerialDue(batch'), MostSerial} \subseteq Nat
           /\ SerialDue(batch) <= MostSerial /\ SerialDue(batch') <= MostSerial
           /\ link_bp \in BOOLEAN /\ link_bp' \in BOOLEAN
BY DueBound, Sizes DEF IInv, TypeOK

\* Below the mark a frame of any size fits.
LEMMA RoomForAFrame ==
    ASSUME NEW u \in Nat, u < LINK_HIGH_WATER
    PROVE  ~(u + MAX_FRAME >= LINK_TXBUF_SIZE)
BY Sizes

\* Bytes that do not fit exceed the room above the mark.
LEMMA Overfull ==
    ASSUME NEW u \in Nat, NEW t \in Nat, NEW r \in Nat, NEW e \in Nat, NEW m \in Nat,
           u + t + r <= LINK_HIGH_WATER - 1 + e + m, u + t + r >= LINK_TXBUF_SIZE
    PROVE  e + m > LINK_TXBUF_SIZE - LINK_HIGH_WATER
BY Sizes

\* A step that queues or drops t bytes that nothing holds back and r bytes of a
\* serial channel, or that drains the queue.
LEMMA Account ==
    ASSUME IInv, IInv', Room, NEW t \in Nat, NEW r \in Nat, Unheld(t),
           used' <= used + t + r,
           dropped' => used + t + r >= LINK_TXBUF_SIZE /\ used' + MAX_FRAME >= LINK_TXBUF_SIZE,
           link_bp' => Serial \subseteq paused',
           r > 0 => r <= SerialDue(batch),
           link_bp' => SerialDue(batch') + r <= MostSerial,
           link_bp /\ link_bp' => SerialDue(batch') + r <= SerialDue(batch),
           ~link_bp' /\ (link_bp \/ r > 0) => used' < LINK_HIGH_WATER
    PROVE  Room'
<1>0. /\ used \in Nat /\ used' \in Nat /\ unheld \in Nat /\ unheld' \in Nat
      /\ SerialDue(batch) \in Nat /\ SerialDue(batch') \in Nat /\ MostSerial \in Nat
      /\ SerialDue(batch) <= MostSerial /\ SerialDue(batch') <= MostSerial
  BY Numbers
<1>1. /\ ~link_bp => used <= LINK_HIGH_WATER - 1 + unheld
      /\ link_bp => used + SerialDue(batch) <= LINK_HIGH_WATER - 1 + unheld + MostSerial
  BY DEF Room
<1>2. CASE used' < LINK_HIGH_WATER
  <2>1. unheld' = 0
    BY <1>2 DEF Unheld
  <2>2. ~dropped'
    <3>1. ASSUME dropped' PROVE used' + MAX_FRAME >= LINK_TXBUF_SIZE
      BY <3>1, Zenon
    <3> QED  BY <1>0, <1>2, <3>1, RoomForAFrame, Zenon
  <2>3. /\ used' <= LINK_HIGH_WATER - 1 + unheld'
        /\ used' + SerialDue(batch') <= LINK_HIGH_WATER - 1 + unheld' + MostSerial
    BY <1>0, <1>2, <2>1, Sizes
  <2> QED  BY <2>2, <2>3 DEF Room, DropsNeedABurst, SerialDue
<1>3. CASE ~(used' < LINK_HIGH_WATER)
  <2>1. unheld' = unheld + t
    BY <1>3 DEF Unheld
  <2>2. ~link_bp' => ~link_bp /\ r = 0
    BY <1>3
  <2>3. ~link_bp' => used' <= LINK_HIGH_WATER - 1 + unheld'
    BY <1>0, <1>1, <2>1, <2>2, Sizes
  <2>4. link_bp' => used' + SerialDue(batch') <= LINK_HIGH_WATER - 1 + unheld' + MostSerial
    BY <1>0, <1>1, <2>1, Sizes
  <2>5. used + t + r <= LINK_HIGH_WATER - 1 + unheld' + MostSerial
    BY <1>0, <1>1, <2>1, Sizes
  <2>6. dropped' => unheld' + MostSerial > LINK_TXBUF_SIZE - LINK_HIGH_WATER
    <3>1. ASSUME dropped' PROVE used + t + r >= LINK_TXBUF_SIZE
      BY <3>1, Zenon
    <3> QED  BY <1>0, <2>5, <3>1, Overfull, Zenon
  <2> QED  BY <2>3, <2>4, <2>6 DEF Room, DropsNeedABurst, SerialDue, MostSerial
<1> QED  BY <1>2, <1>3

\* A step that leaves the queue alone.
LEMMA Idle ==
    ASSUME IInv, IInv', Room, UNCHANGED <<used, dropped, unheld>>,
           link_bp' => Serial \subseteq paused',
           ~link_bp' => ~link_bp,
           link_bp => SerialDue(batch') <= SerialDue(batch)
    PROVE  Room'
<1>0. /\ used \in Nat /\ unheld \in Nat /\ SerialDue(batch) \in Nat /\ SerialDue(batch') \in Nat
      /\ MostSerial \in Nat /\ SerialDue(batch') <= MostSerial
  BY Numbers
<1>1. ~link_bp' => used' <= LINK_HIGH_WATER - 1 + unheld'
  BY DEF Room
<1>2. used' + SerialDue(batch') <= LINK_HIGH_WATER - 1 + unheld' + MostSerial
  BY <1>0, Sizes DEF Room
<1>3. DropsNeedABurst'
  BY DEF Room, DropsNeedABurst
<1> QED  BY <1>1, <1>2, <1>3 DEF Room, SerialDue

\* What TxQueue::enqueue adds to the queue, and when it drops.
LEMMA Queued ==
    ASSUME TypeOK, NEW n \in Nat, NEW size \in 1..MAX_FRAME, enqueue(n, size)
    PROVE  /\ n * size \in Nat /\ used' <= used + n * size
           /\ dropped' => /\ used + n * size >= LINK_TXBUF_SIZE
                          /\ used' + MAX_FRAME >= LINK_TXBUF_SIZE
<1> DEFINE f == Fitting(n, size) * size
<1>1. /\ Fitting(n, size) \in Nat /\ f \in Nat /\ n * size \in Nat /\ f <= n * size
      /\ Fitting(n, size) < n => used + f + size >= LINK_TXBUF_SIZE /\ used + n * size >= LINK_TXBUF_SIZE
  <2>1. used \in 0..(LINK_TXBUF_SIZE - 1) /\ size \in Nat \ {0}
    BY Sizes DEF TypeOK
  <2>2. /\ Fitting(n, size) \in 0..n /\ n * size \in Nat /\ f <= n * size
        /\ used + f \in 0..(LINK_TXBUF_SIZE - 1)
        /\ Fitting(n, size) < n => used + f + size >= LINK_TXBUF_SIZE /\ used + n * size >= LINK_TXBUF_SIZE
    BY <2>1, FittingFacts, Zenon
  <2>3. Fitting(n, size) \in Nat
    BY <2>2
  <2>4. f \in Nat
    BY <2>1, <2>3
  <2> QED  BY <2>2, <2>3, <2>4, Zenon
<1>2. used' = used + f /\ used \in Nat
  BY Sizes DEF enqueue, TypeOK
<1>3. ASSUME dropped' PROVE Fitting(n, size) < n
  <2>1. dropped' = (Fitting(n, size) < n)
    BY Zenon DEF enqueue
  <2> QED  BY <1>3, <2>1
<1> HIDE DEF f
<1>4. used' <= used + n * size
  BY <1>1, <1>2
<1>5. Fitting(n, size) < n =>
        used + n * size >= LINK_TXBUF_SIZE /\ used' + MAX_FRAME >= LINK_TXBUF_SIZE
  BY <1>1, <1>2, Sizes
<1> QED  BY <1>1, <1>3, <1>4, <1>5, Zenon

\* The test of the mark pauses the serial channels, unless it finds the queue
\* below the mark.
LEMMA Tested ==
    ASSUME IInv, IInv', Room, check_bp_high
    PROVE  /\ link_bp' => Serial \subseteq paused'
           /\ link_bp => link_bp'
           /\ ~link_bp' => used' < LINK_HIGH_WATER
<1>1. used' \in Nat
  BY Numbers
<1> QED  BY <1>1, Sizes DEF check_bp_high, Room, IInv, TypeOK, Channels

\* The event of a UART or PTY.
LEMMA SerialKeeps ==
    ASSUME IInv, IInv', Room, NEW c \in Serial, serial_event(c)
    PROVE  Room'
<1>1. c \in batch /\ batch' = batch \ {c}
  BY DEF serial_event, Handled
<1>2. SerialDue(batch') + READ = SerialDue(batch)
  BY <1>1, DueHandled
<1>3. /\ SerialDue(batch) \in Nat /\ SerialDue(batch') \in Nat /\ MostSerial \in Nat
      /\ SerialDue(batch) <= MostSerial /\ used \in Nat /\ used' \in Nat
  BY Numbers
<1>4. /\ link_bp' => Serial \subseteq paused'
      /\ link_bp => link_bp'
      /\ ~link_bp' => used' < LINK_HIGH_WATER
  BY Tested DEF serial_event
<1>5. CASE UNCHANGED <<head, used, dropped, unheld>>
  <2>1. SerialDue(batch') <= SerialDue(batch)
    BY <1>2, <1>3, Sizes
  <2> QED  BY <1>4, <1>5, <2>1, Idle
<1>6. CASE \E size \in 1..READ : enqueue(1, size) /\ Unheld(0)
  <2>1. PICK size \in 1..READ : enqueue(1, size) /\ Unheld(0)
    BY <1>6
  <2>2. size \in 1..MAX_FRAME /\ 1 * size = size /\ size <= READ
    BY Sizes
  <2>3. /\ used' <= used + size
        /\ dropped' => used + size >= LINK_TXBUF_SIZE /\ used' + MAX_FRAME >= LINK_TXBUF_SIZE
    BY <2>1, <2>2, Queued DEF IInv
  <2>4. used' <= used + 0 + READ
    BY <1>3, <2>2, <2>3, Sizes
  <2>5. dropped' => used + 0 + READ >= LINK_TXBUF_SIZE /\ used' + MAX_FRAME >= LINK_TXBUF_SIZE
    <3>1. used + size >= LINK_TXBUF_SIZE => used + 0 + READ >= LINK_TXBUF_SIZE
      BY <1>3, <2>2, Sizes
    <3> QED  BY <2>3, <3>1, Zenon
  <2>6. READ <= SerialDue(batch) /\ SerialDue(batch') + READ <= MostSerial
        /\ SerialDue(batch') + READ <= SerialDue(batch)
    BY <1>2, <1>3, Sizes
  <2> QED  BY <1>4, <2>1, <2>4, <2>5, <2>6, Account, Sizes
<1> QED  BY <1>5, <1>6 DEF serial_event

\* A step that queues n frames of one size that nothing holds back and reads no
\* serial channel.
LEMMA UnheldKeeps ==
    ASSUME IInv, IInv', Room, NEW n \in Nat, NEW size \in 1..MAX_FRAME,
           enqueue(n, size), Unheld(n * size),
           link_bp' => Serial \subseteq paused',
           link_bp => link_bp',
           link_bp => SerialDue(batch') <= SerialDue(batch)
    PROVE  Room'
<1>0. /\ SerialDue(batch') \in Nat /\ SerialDue(batch) \in Nat /\ MostSerial \in Nat
      /\ SerialDue(batch') <= MostSerial /\ used \in Nat
  BY Numbers
<1> DEFINE t == n * size
<1>1. /\ t \in Nat /\ used' <= used + t /\ Unheld(t)
      /\ dropped' => used + t >= LINK_TXBUF_SIZE /\ used' + MAX_FRAME >= LINK_TXBUF_SIZE
  BY Queued DEF IInv
<1> HIDE DEF t
<1>2. /\ used' <= used + t + 0
      /\ dropped' => used + t + 0 >= LINK_TXBUF_SIZE /\ used' + MAX_FRAME >= LINK_TXBUF_SIZE
  BY <1>0, <1>1
<1>3. /\ SerialDue(batch') + 0 <= MostSerial
      /\ link_bp => SerialDue(batch') + 0 <= SerialDue(batch)
  BY <1>0
<1> QED  BY <1>1, <1>2, <1>3, Account

\* Control frames are frames of size one.
LEMMA ControlKeeps ==
    ASSUME IInv, IInv', Room, NEW n \in Nat, enqueue_control(n),
           link_bp' => Serial \subseteq paused',
           link_bp => link_bp',
           link_bp => SerialDue(batch') <= SerialDue(batch)
    PROVE  Room'
<1>1. enqueue(n, 1) /\ Unheld(n * 1) /\ 1 \in 1..MAX_FRAME
  BY Sizes DEF enqueue_control
<1> QED  BY <1>1, UnheldKeeps

\* A handler of another event leaves the serial events of the batch.
LEMMA OthersHandled ==
    ASSUME IInv, NEW e, Handled(e)
    PROVE  SerialDue(batch') <= SerialDue(batch)
BY DueFewer DEF Handled

\* The event of a TCP connection.
LEMMA TcpKeeps ==
    ASSUME IInv, IInv', Room, NEW c \in Tcp, tcp_event(c)
    PROVE  Room'
<1>1. SerialDue(batch') <= SerialDue(batch)
  BY OthersHandled DEF tcp_event
<1>2. (link_bp' => Serial \subseteq paused') /\ (link_bp => link_bp')
  <2>1. CASE link_bp
    BY <2>1 DEF tcp_event, Room
  <2>2. CASE ~link_bp
    BY <2>2, Tested DEF tcp_event
  <2> QED  BY <2>1, <2>2
<1>3. CASE UNCHANGED <<head, used, dropped, unheld>>
  <2>1. ~link_bp' => ~link_bp
    BY <1>2
  <2> QED  BY <1>1, <1>2, <1>3, <2>1, Idle
<1>4. CASE \E n \in 1..MaxReads : enqueue(n, MAX_FRAME) /\ Unheld(n * MAX_FRAME)
  <2>1. PICK n \in 1..MaxReads : enqueue(n, MAX_FRAME) /\ Unheld(n * MAX_FRAME)
    BY <1>4
  <2>2. n \in Nat /\ MAX_FRAME \in 1..MAX_FRAME
    BY Sizes
  <2> QED  BY <1>1, <1>2, <2>1, <2>2, UnheldKeeps
<1> QED  BY <1>3, <1>4 DEF tcp_event

\* The listener's event: the connection accepted is not a serial channel.
LEMMA AcceptKeeps ==
    ASSUME IInv, IInv', Room, accept
    PROVE  Room'
<1>1. SerialDue(batch') <= SerialDue(batch)
  BY OthersHandled DEF accept
<1>2. (link_bp' => Serial \subseteq paused') /\ (link_bp => link_bp')
  <2>1. CASE check_bp_high
    BY <2>1, Tested
  <2>2. CASE link_bp /\ UNCHANGED link_bp /\ \E c \in Tcp : paused' = paused \ {c}
    BY <2>2, ChannelsAssumption DEF Room
  <2> QED  BY <2>1, <2>2 DEF accept
<1>3. CASE UNCHANGED queue
  <2>1. ~link_bp' => ~link_bp
    BY <1>2
  <2> QED  BY <1>1, <1>2, <1>3, <2>1, Idle DEF queue
<1>4. CASE enqueue_control(1)
  BY <1>1, <1>2, <1>4, ControlKeeps
<1> QED  BY <1>3, <1>4 DEF accept

\* The frames read from the link.
LEMMA ReadKeeps ==
    ASSUME IInv, IInv', Room, link_read
    PROVE  Room'
<1>1. SerialDue(batch') <= SerialDue(batch)
  BY OthersHandled DEF link_read
<1>2. (link_bp' => Serial \subseteq paused') /\ (link_bp => link_bp')
  <2>1. CASE check_bp_high
    BY <2>1, Tested
  <2>2. CASE UNCHANGED <<link_bp, paused>>
    BY <2>2 DEF Room
  <2> QED  BY <2>1, <2>2 DEF link_read
<1>3. CASE UNCHANGED queue
  <2>1. ~link_bp' => ~link_bp
    BY <1>2
  <2> QED  BY <1>1, <1>2, <1>3, <2>1, Idle DEF queue
<1>4. CASE \E n \in 0..MaxControl : enqueue_control(n)
  <2>1. PICK n \in 0..MaxControl : enqueue_control(n)
    BY <1>4
  <2>2. n \in Nat
    BY Sizes
  <2> QED  BY <1>1, <1>2, <2>1, <2>2, ControlKeeps
<1> QED  BY <1>3, <1>4 DEF link_read

\* The top of the loop: poll() reports no serial channel that is paused.
LEMMA RunKeeps ==
    ASSUME IInv, IInv', Room, run
    PROVE  Room'
<1>1. UNCHANGED <<link_bp, paused>>
  BY DEF run
<1>2. link_bp => SerialDue(batch') <= SerialDue(batch)
  <2>1. PICK ready \in SUBSET ((Channels \ paused) \cup Listener \cup {"link_in"}) :
          batch' = ready \cup (IF rearmed THEN {"link_out"} ELSE {})
    BY DEF run
  <2>2. ASSUME link_bp PROVE Serial \cap batch' \subseteq batch
    <3>1. Serial \subseteq paused
      BY <2>2 DEF Room
    <3>2. Serial \cap {"link_in", "link_out", "listen"} = {}
      BY ChannelsAssumption DEF Channels, LinkEvents
    <3>3. batch' \subseteq (Channels \ paused) \cup {"link_in", "link_out", "listen"}
      BY <2>1 DEF Listener
    <3> QED  BY <3>1, <3>2, <3>3
  <2> QED  BY <2>2, DueFewer
<1>3. link_bp' => Serial \subseteq paused'
  BY <1>1 DEF Room
<1>4. CASE UNCHANGED queue
  BY <1>1, <1>2, <1>3, <1>4, Idle DEF queue
<1>5. CASE \E n \in 1..MaxControl : enqueue_control(n)
  <2>1. PICK n \in 1..MaxControl : enqueue_control(n)
    BY <1>5
  <2>2. n \in Nat
    BY Sizes
  <2> QED  BY <1>1, <1>2, <1>3, <2>1, <2>2, ControlKeeps
<1> QED  BY <1>4, <1>5 DEF run

\* A write drains the queue; it ends backpressure below the low-water mark only.
LEMMA WriteKeeps ==
    ASSUME IInv, IInv', Room, link_write
    PROVE  Room'
<1>0. /\ SerialDue(batch') \in Nat /\ SerialDue(batch) \in Nat /\ MostSerial \in Nat
      /\ SerialDue(batch') <= MostSerial /\ used \in Nat /\ used' \in Nat
  BY Numbers
<1>1. SerialDue(batch') <= SerialDue(batch)
  BY OthersHandled DEF link_write
<1>2. used' <= used
  <2>1. avail \in Nat /\ room \in Nat
    BY Sizes DEF IInv, TypeOK, avail
  <2>2. PICK n \in {IF avail < room THEN avail ELSE room} : used' = used - n
    BY DEF link_write
  <2> QED  BY <1>0, <2>1, <2>2
<1>3. Unheld(0) /\ dropped' = FALSE
  BY DEF link_write
<1>4. /\ link_bp' => Serial \subseteq paused'
      /\ ~link_bp' /\ link_bp => used' < LINK_HIGH_WATER
  <2>1. CASE link_bp /\ drained
    BY <1>0, <2>1, Sizes DEF link_write, drained
  <2>2. CASE ~(link_bp /\ drained)
    BY <2>2 DEF link_write, Room
  <2> QED  BY <2>1, <2>2
<1>5. /\ used' <= used + 0 + 0 /\ SerialDue(batch') + 0 <= MostSerial
      /\ SerialDue(batch') + 0 <= SerialDue(batch)
  BY <1>0, <1>1, <1>2
<1> QED  BY <1>3, <1>4, <1>5, Account

\* A new link starts with HELLO in an empty queue, and a failed one is emptied.
LEMMA LinkKeeps ==
    ASSUME IInv, IInv', Room, open_link \/ close_link
    PROVE  Room'
<1>0. used \in Nat
  BY Numbers
<1>1. link_bp' = FALSE
  BY DEF open_link, close_link, IInv, TypeOK
<1>2. CASE open_link
  <2>1. used = 0 /\ ~link_bp /\ used' = 1 /\ Unheld(1) /\ dropped' = FALSE
    BY <1>2 DEF open_link, IInv
  <2>2. used' <= used + 1 + 0
    BY <2>1
  <2> QED  BY <1>1, <2>1, <2>2, Account
<1>3. CASE close_link
  <2>1. used' = 0 /\ Unheld(0) /\ dropped' = FALSE
    BY <1>3 DEF close_link
  <2>2. used' <= used + 0 + 0 /\ used' < LINK_HIGH_WATER
    BY <1>0, <2>1, Sizes
  <2> QED  BY <1>1, <2>1, <2>2, Account
<1> QED  BY <1>2, <1>3

\* Every step keeps the account of the room above the mark.
LEMMA RoomStep == IInv /\ IInv' /\ Room /\ [Next]_vars => Room'
<1> SUFFICES ASSUME IInv, IInv', Room, [Next]_vars PROVE Room'
  OBVIOUS
<1>1. CASE Transmit
  BY <1>1 DEF Transmit, queue, Room, DropsNeedABurst
<1>2. CASE UNCHANGED vars
  BY <1>2 DEF vars, queue, Room, DropsNeedABurst
<1> QED  BY <1>1, <1>2, LinkKeeps, RunKeeps, SerialKeeps, TcpKeeps, AcceptKeeps, ReadKeeps, WriteKeeps
         DEF Next

-----------------------------------------------------------------------------
\* The initial state has an empty queue and no pause.
LEMMA InitKeeps == Init => IInv /\ Room
<1> SUFFICES ASSUME Init PROVE IInv /\ Room
  OBVIOUS
<1>1. head \in 0..(LINK_TXBUF_SIZE - 1) /\ used \in 0..(LINK_TXBUF_SIZE - 1) /\ unheld \in Nat
      /\ control \in 0..MaxControl /\ room \in 0..Kernel /\ used <= LINK_HIGH_WATER - 1 + unheld
  BY Sizes DEF Init
<1> QED  BY <1>1, Zenon DEF Init, IInv, TypeOK, PausedOnlyByBackpressure, Room, DropsNeedABurst

\* daemon.rs keeps the ring's positions inside its store, whatever the sizes.
THEOREM TypeCorrect == Spec => []TypeOK
<1>1. IInv => TypeOK
  BY DEF IInv
<1> QED  BY <1>1, InitKeeps, IInvStep, PTL DEF Spec

\* No channel is left paused when backpressure is off: close_link and link_write
\* resume them all, and open_link may forget link_bp.
THEOREM PausesAreBackpressure == Spec => []PausedOnlyByBackpressure
<1>1. IInv => PausedOnlyByBackpressure
  BY DEF IInv
<1> QED  BY <1>1, InitKeeps, IInvStep, PTL DEF Spec

\* TxQueue::enqueue drops a frame only when the TCP data and control frames that
\* come above the high-water mark exceed what one read of every UART and PTY
\* leaves of the room there, in a ring of the code's proportions
\* (LINK_TXBUF_SIZE), however many channels, reads and control frames there are.
THEOREM OnlyBurstsDrop == Spec => []DropsNeedABurst
<1>1. IInv /\ Room /\ [Next]_vars => (IInv /\ Room)'
  BY IInvStep, RoomStep
<1>2. Room => DropsNeedABurst
  BY DEF Room
<1> QED  BY <1>1, <1>2, InitKeeps, PTL DEF Spec

-----------------------------------------------------------------------------
\* Division undoes what tcp_slot_token composed.
LEMMA Divided ==
    ASSUME NEW a \in 0..62, NEW b \in 0..255
    PROVE  (a * 256 + b) \div 256 = a /\ (a * 256 + b) % 256 = b
OBVIOUS

\* Every event reaches the channel, and a TCP event the slot, whose fd was
\* registered (channel_id_for_token, tcp_event).
THEOREM TokensRouteBack ==
    ASSUME NEW ch_id \in ChannelIds, NEW slot \in Slots
    PROVE  /\ channel_id_for_token(primary_token(ch_id)) = ch_id
           /\ channel_id_for_token(tcp_slot_token(ch_id, slot)) = ch_id
           /\ slot_of(tcp_slot_token(ch_id, slot)) = slot
           /\ channel_id_for_token(TOKEN_LINK) = None
<1>1. ch_id \in 0..62 /\ slot \in 0..255
  BY DEF ChannelIds, MAX_CHANNEL_ID, Slots, MAX_TCP_CONNS
<1>2. tcp_slot_token(ch_id, slot) - TCP_BASE = ch_id * 256 + slot /\ tcp_slot_token(ch_id, slot) > 63
  BY <1>1 DEF tcp_slot_token, TCP_BASE, MAX_TCP_CONNS
<1>3. (tcp_slot_token(ch_id, slot) - TCP_BASE) \div MAX_TCP_CONNS = ch_id
      /\ slot_of(tcp_slot_token(ch_id, slot)) = slot
  BY <1>1, <1>2, Divided DEF slot_of, MAX_TCP_CONNS
<1>4. tcp_slot_token(ch_id, slot) \in Int
  BY <1>1 DEF tcp_slot_token, TCP_BASE, MAX_TCP_CONNS
<1>5. channel_id_for_token(tcp_slot_token(ch_id, slot)) = ch_id
  BY <1>1, <1>2, <1>3, <1>4 DEF channel_id_for_token, MAX_CHANNEL_ID
<1>6. channel_id_for_token(primary_token(ch_id)) = ch_id
  BY <1>1 DEF channel_id_for_token, primary_token
<1> QED  BY <1>3, <1>5, <1>6 DEF channel_id_for_token, TOKEN_LINK

\* A TCP channel tells its listener's token from those of its slots, and no
\* token of one channel is one of another.
THEOREM TokensAreDistinct ==
    ASSUME NEW a \in ChannelIds, NEW b \in ChannelIds, NEW s \in Slots, NEW t \in Slots
    PROVE  /\ primary_token(a) # tcp_slot_token(b, s)
           /\ primary_token(a) = primary_token(b) => a = b
           /\ tcp_slot_token(a, s) = tcp_slot_token(b, t) => a = b /\ s = t
<1>1. primary_token(a) # tcp_slot_token(b, s)
  BY DEF primary_token, tcp_slot_token, ChannelIds, Slots, TCP_BASE, MAX_CHANNEL_ID, MAX_TCP_CONNS
<1>2. primary_token(a) = primary_token(b) => a = b
  BY DEF primary_token, ChannelIds
<1> QED  BY <1>1, <1>2, TokensRouteBack
=============================================================================
