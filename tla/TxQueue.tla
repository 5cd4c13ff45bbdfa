------------------------------ MODULE TxQueue -------------------------------
(***************************************************************************)
(* The outbound ring buffer of the link (protocol.rs, struct TxQueue).     *)
(* One slot always stays free, so that head = tail means empty and never   *)
(* full.  A drain writes one contiguous segment: when the data wraps only  *)
(* the part up to the end of the buffer is offered to write(2).            *)
(***************************************************************************)
EXTENDS Integers, Sequences

CONSTANTS LINK_TXBUF_SIZE,   \* bytes in the backing store
          Byte,              \* the byte values told apart
          Frames             \* the byte sequences callers enqueue

ASSUME SizeAssumption == LINK_TXBUF_SIZE \in Nat \ {0}
ASSUME ByteAssumption == 0 \in Byte
ASSUME FramesAssumption == Frames \subseteq Seq(Byte)

VARIABLES buf,    \* the backing store
          head,   \* read position
          tail,   \* write position
          wire,   \* the bytes the latest write(2) accepted
          call    \* the latest call, as its caller sees it

vars == <<buf, head, tail, wire, call>>

Call(op, data) == [op |-> op, data |-> data]

Slots == 0..(LINK_TXBUF_SIZE - 1)

\* Number of bytes currently queued.
used == (tail + LINK_TXBUF_SIZE - head) % LINK_TXBUF_SIZE

is_empty == head = tail

Init ==
    /\ buf = [i \in Slots |-> 0]
    /\ head = 0
    /\ tail = 0
    /\ wire = <<>>
    /\ call = Call("new", <<>>)

reset ==
    /\ head' = 0
    /\ tail' = 0
    /\ wire' = <<>>
    /\ call' = Call("reset", <<>>)
    /\ UNCHANGED buf

\* Faulty variant: the test forgets the slot that keeps full from empty.
overflows_last_slot(data) == Len(data) > LINK_TXBUF_SIZE - used

\* The test that makes enqueue drop the whole frame.
overflows(data) == Len(data) > LINK_TXBUF_SIZE - 1 - used

\* The two copy_from_slice calls: up to the end of the store, then its start.
copied(data) ==
    [i \in Slots |->
        IF i \in tail..(tail + Len(data) - 1) THEN data[i - tail + 1]
        ELSE IF i + LINK_TXBUF_SIZE < tail + Len(data)
             THEN data[i + LINK_TXBUF_SIZE - tail + 1]
             ELSE buf[i]]

\* Faulty variant: tail runs past the end of the store.
enqueue_unwrapped(data) ==
    /\ wire' = <<>>
    /\ call' = Call("enqueue", data)
    /\ UNCHANGED head
    /\ IF Len(data) = 0 \/ overflows(data)
       THEN UNCHANGED <<buf, tail>>
       ELSE /\ buf' = copied(data)
            /\ tail' = tail + Len(data)

enqueue(data) ==
    /\ wire' = <<>>
    /\ call' = Call("enqueue", data)
    /\ UNCHANGED head
    /\ IF Len(data) = 0 \/ overflows(data)
       THEN UNCHANGED <<buf, tail>>
       ELSE /\ buf' = copied(data)
            /\ tail' = (tail + Len(data)) % LINK_TXBUF_SIZE

\* The contiguous segment starting at head.
avail == IF tail >= head THEN tail - head ELSE LINK_TXBUF_SIZE - head

\* write(2) accepts some prefix of the segment; none is EAGAIN, or an error
\* that the caller answers by closing the link.
drain_to_fd ==
    /\ ~is_empty
    /\ \E written \in 0..avail :
         /\ wire' = [i \in 1..written |-> buf[head + i - 1]]
         /\ head' = (head + written) % LINK_TXBUF_SIZE
    /\ call' = Call("drain_to_fd", <<>>)
    /\ UNCHANGED <<buf, tail>>

Next ==
    \/ \E data \in Frames : enqueue(data)
    \/ drain_to_fd
    \/ reset

Spec == Init /\ [][Next]_vars

-----------------------------------------------------------------------------
\* Head and tail stay inside the store and the store keeps its length, so no
\* slice of enqueue or drain_to_fd is out of range.
TypeOK ==
    /\ buf \in [Slots -> Byte]
    /\ head \in Slots
    /\ tail \in Slots
    /\ wire \in Seq(Byte)
    /\ call.op \in {"new", "reset", "enqueue", "drain_to_fd"}

\* The queued bytes, oldest first.
Queued == [i \in 1..used |-> buf[(head + i - 1) % LINK_TXBUF_SIZE]]

Fifo == INSTANCE ByteFifo
            WITH content <- Queued, Capacity <- LINK_TXBUF_SIZE - 1

\* The ring buffer behaves as a bounded byte queue: TxQueue::enqueue accepts
\* a frame whole or drops it whole and never overwrites a queued byte, and
\* drain_to_fd writes the oldest bytes, in order, across the wrap-around.
RingIsFifo == Fifo!FifoSpec
=============================================================================
