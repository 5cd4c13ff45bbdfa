------------------------------ MODULE LinkLoop ------------------------------
(***************************************************************************)
(* The event loop of one daemon (daemon.rs, run) around its TX queue:      *)
(* backpressure at the high- and low-water marks, and the write interest   *)
(* of the link, which mio registers edge-triggered.  The queue is the ring *)
(* of TxQueue reduced to where it starts and how full it is.               *)
(*                                                                         *)
(* An edge is reported once: when the tty becomes writable while it is     *)
(* registered for writing, or when the registration is renewed while the   *)
(* tty is writable.  poll() returns a batch of events, which are handled   *)
(* one by one whatever the earlier ones have changed.  The link's event is *)
(* split into its read and its write, between which other events may come. *)
(***************************************************************************)
EXTENDS Integers, FiniteSets

CONSTANTS LINK_HIGH_WATER, LINK_LOW_WATER,
          Serial,      \* channels that read once per event (UART, PTY)
          Tcp,         \* connections that are read until they would block
          READ,        \* most that a serial channel queues in one event
          MAX_FRAME,   \* largest frame of a TCP channel
          Guard,       \* guard margin of the TX queue
          MaxReads,    \* bound: frames a connection queues in one event
          MaxControl,  \* bound: control frames queued before the queue empties
          Kernel       \* bytes the tty takes before it stops being writable

LINK_TXBUF_SIZE == LINK_HIGH_WATER + MAX_FRAME + Guard

Channels == Serial \cup Tcp
LinkEvents == {"link_in", "link_out"}
Listener == IF Tcp = {} THEN {} ELSE {"listen"}

ASSUME SizesAssumption ==
    /\ {LINK_HIGH_WATER, READ, MAX_FRAME, Guard, Kernel} \subseteq Nat \ {0}
    /\ {LINK_LOW_WATER, MaxReads, MaxControl} \subseteq Nat
    /\ LINK_LOW_WATER < LINK_HIGH_WATER /\ READ <= MAX_FRAME
ASSUME ChannelsAssumption ==
    /\ IsFiniteSet(Channels)
    /\ Serial \cap Tcp = {}
    /\ Channels \cap (LinkEvents \cup {"listen"}) = {}

VARIABLES
    link,       \* "down", "open" or "up": disconnected and link_up
    head,       \* read position of the TX queue
    used,       \* bytes in the TX queue
    dropped,    \* a frame of the latest handler that queued any did not fit
    unheld,     \* history: bytes of TCP data and control frames queued or
                \* dropped since the queue was last below the high-water mark
    control,    \* control frames queued since the queue was empty
    link_bp,
    paused,     \* the channels whose reads are off
    writable,   \* the link is registered for writing
    edge,       \* a writable event of the link is still to be reported
    room,       \* bytes the tty would take
    batch       \* the reported events not handled yet

queue == <<head, used, dropped, unheld, control>>
vars == <<link, queue, link_bp, paused, writable, edge, room, batch>>

Init ==
    /\ link = "down"
    /\ head = 0 /\ used = 0 /\ dropped = FALSE /\ unheld = 0 /\ control = 0
    /\ link_bp = FALSE
    /\ paused = {}
    /\ writable = FALSE /\ edge = FALSE
    /\ room = Kernel
    /\ batch = {}

set_link_write_interest(want) ==
    /\ writable' = want
    /\ edge' = (want /\ room > 0)

\* TxQueue::enqueue of n frames of one size: how many of them fit.
Fitting(n, size) ==
    LET most == (LINK_TXBUF_SIZE - 1 - used) \div size
    IN  IF n < most THEN n ELSE most

enqueue(n, size) ==
    /\ used' = used + Fitting(n, size) * size
    /\ dropped' = (Fitting(n, size) < n)
    /\ UNCHANGED head

\* History: n more bytes that the high-water mark does not hold back.
Unheld(n) == unheld' = IF used' < LINK_HIGH_WATER THEN 0 ELSE unheld + n

\* n control frames, of size one.
enqueue_control(n) ==
    /\ control + n <= MaxControl
    /\ control' = control + n
    /\ enqueue(n, 1) /\ Unheld(n)

\* Faulty variant: the mark is tested before the handler runs.
check_bp_high_before ==
    IF ~link_bp /\ used >= LINK_HIGH_WATER
    THEN link_bp' = TRUE /\ paused' = Channels
    ELSE UNCHANGED <<link_bp, paused>>

\* check_bp_high, after what the handler queued.
check_bp_high ==
    IF ~link_bp /\ used' >= LINK_HIGH_WATER
    THEN link_bp' = TRUE /\ paused' = Channels
    ELSE UNCHANGED <<link_bp, paused>>

-----------------------------------------------------------------------------
\* open_link: HELLO is the first frame of an empty queue.
open_link ==
    /\ link = "down" /\ batch = {}
    /\ link' = "open"
    /\ head' = 0 /\ used' = 1 /\ control' = 0
    /\ dropped' = FALSE /\ Unheld(1)
    /\ link_bp' = FALSE
    /\ room' = Kernel
    /\ writable' = TRUE /\ edge' = TRUE
    /\ UNCHANGED <<paused, batch>>

\* Faulty variant: the paused reads are not resumed.
resume_none == UNCHANGED paused

resume_source_reads == paused' = {}

\* close_link, on a read or write error while the link's event is handled or on
\* the keepalive timeout at the top of the loop.  The events of the link that
\* are left in the batch are skipped.
close_link ==
    /\ link # "down"
    /\ batch = {} \/ batch \cap LinkEvents # {}
    /\ link' = "down"
    /\ head' = 0 /\ used' = 0 /\ control' = 0
    /\ dropped' = FALSE /\ Unheld(0)
    /\ IF link_bp THEN link_bp' = FALSE /\ resume_source_reads
                  ELSE UNCHANGED <<link_bp, paused>>
    /\ writable' = FALSE /\ edge' = FALSE
    /\ batch' = batch \ LinkEvents
    /\ UNCHANGED room

\* Faulty variant: the write interest is not renewed before poll().
rearmed_never == edge

\* A queue that is not empty renews the write interest before poll().
rearmed == edge \/ (used' > 0 /\ room > 0)

\* The top of the loop: the control frames of the keepalive and of the
\* channels' ticks, the renewed write interest, and poll().  Any channel that
\* is not paused may be readable, and the listener of the TCP connections.
run ==
    /\ link # "down" /\ batch = {}
    /\ \/ UNCHANGED queue
       \/ link = "up" /\ \E n \in 1..MaxControl : enqueue_control(n)
    /\ writable' = (writable \/ used' > 0)
    /\ edge' = FALSE
    /\ \E ready \in SUBSET ((Channels \ paused) \cup Listener \cup {"link_in"}) :
         batch' = ready \cup (IF rearmed THEN {"link_out"} ELSE {})
    /\ UNCHANGED <<link, link_bp, paused, room>>

Handled(event) ==
    /\ event \in batch
    /\ batch' = batch \ {event}

\* The event of a UART or PTY: one read of it, one frame; check_bp_high.
serial_event(c) ==
    /\ Handled(c)
    /\ \/ UNCHANGED <<head, used, dropped, unheld>>
       \/ link = "up" /\ \E size \in 1..READ : enqueue(1, size) /\ Unheld(0)
    /\ check_bp_high
    /\ set_link_write_interest(used' > 0)
    /\ UNCHANGED <<link, control, room>>

\* tcp_event: reads until the socket would block, then the registration is
\* made anew, which pauses a connection accepted under backpressure.
tcp_event(c) ==
    /\ Handled(c)
    /\ \/ UNCHANGED <<head, used, dropped, unheld>>
       \/ /\ link = "up"
          /\ \E n \in 1..MaxReads : enqueue(n, MAX_FRAME) /\ Unheld(n * MAX_FRAME)
    /\ IF link_bp THEN UNCHANGED link_bp /\ paused' = paused \cup {c}
                  ELSE check_bp_high
    /\ set_link_write_interest(used' > 0)
    /\ UNCHANGED <<link, control, room>>

\* accept: TCONN is queued, and the connection is registered for reading
\* even under backpressure.  Without a link or a free slot it is dropped.
accept ==
    /\ Handled("listen")
    /\ \/ /\ link = "up"
          /\ enqueue_control(1)
          /\ IF link_bp THEN UNCHANGED link_bp /\ \E c \in Tcp : paused' = paused \ {c}
                        ELSE check_bp_high
       \/ UNCHANGED queue /\ check_bp_high
    /\ set_link_write_interest(used' > 0)
    /\ UNCHANGED <<link, room>>

\* link_read: the frames read are answered by control frames; a data frame
\* among them tests the high-water mark.  HELLO or ACK brings the link up.
\* PONG, or a part of a frame, leaves the write interest alone.
link_read ==
    /\ Handled("link_in")
    /\ link' \in {link, "up"}
    /\ \/ /\ \E n \in 0..MaxControl : enqueue_control(n)
          /\ check_bp_high \/ UNCHANGED <<link_bp, paused>>
          /\ set_link_write_interest(used' > 0)
       \/ UNCHANGED <<queue, link_bp, paused, writable, edge>> /\ link' = link
    /\ UNCHANGED room

\* Bytes from head to the end of the queue or of the store.
avail == IF head + used < LINK_TXBUF_SIZE THEN used ELSE LINK_TXBUF_SIZE - head

\* Faulty variant: the read position runs past the end of the store.
advanced_unwrapped(n) == head + n

advanced(n) == (head + n) % LINK_TXBUF_SIZE

\* Faulty variant: the low-water mark must be met exactly.
drained_exactly == used' = LINK_LOW_WATER

drained == used' <= LINK_LOW_WATER

\* link_write, after link_read when both are reported: one write(2) of one
\* segment, the low-water mark, and no more write interest once empty.
link_write ==
    /\ "link_in" \notin batch
    /\ Handled("link_out")
    /\ \E n \in {IF avail < room THEN avail ELSE room} :
         head' = advanced(n) /\ used' = used - n /\ room' = room - n
    /\ control' = IF used' = 0 THEN 0 ELSE control
    /\ dropped' = FALSE /\ Unheld(0)
    /\ IF link_bp /\ drained THEN link_bp' = FALSE /\ resume_source_reads
                             ELSE UNCHANGED <<link_bp, paused>>
    /\ IF used' = 0 THEN writable' = FALSE /\ edge' = FALSE
                    ELSE UNCHANGED <<writable, edge>>
    /\ UNCHANGED link

\* The tty transmits.
Transmit ==
    /\ room < Kernel
    /\ room' \in (room + 1)..Kernel
    /\ edge' = (edge \/ (room = 0 /\ writable))
    /\ UNCHANGED <<link, queue, link_bp, paused, writable, batch>>

Next ==
    \/ open_link \/ close_link \/ run
    \/ \E c \in Serial : serial_event(c)
    \/ \E c \in Tcp : tcp_event(c)
    \/ accept \/ link_read \/ link_write
    \/ Transmit

Spec == Init /\ [][Next]_vars

\* The loop goes on, every event of a batch is handled, the device is found
\* again after a failure, and the tty transmits.
FairSpec ==
    /\ Spec
    /\ WF_vars(open_link) /\ WF_vars(run) /\ WF_vars(accept)
    /\ WF_vars(link_read) /\ WF_vars(link_write)
    /\ \A c \in Serial : WF_vars(serial_event(c))
    /\ \A c \in Tcp : WF_vars(tcp_event(c))
    /\ WF_vars(Transmit)

-----------------------------------------------------------------------------
\* The ring's positions stay inside the store.
TypeOK ==
    /\ link \in {"down", "open", "up"}
    /\ head \in 0..(LINK_TXBUF_SIZE - 1)
    /\ used \in 0..(LINK_TXBUF_SIZE - 1)
    /\ dropped \in BOOLEAN
    /\ unheld \in Nat
    /\ control \in 0..MaxControl
    /\ link_bp \in BOOLEAN
    /\ paused \subseteq Channels
    /\ writable \in BOOLEAN
    /\ edge \in BOOLEAN
    /\ room \in 0..Kernel
    /\ batch \subseteq Channels \cup LinkEvents \cup Listener

\* "TX ring-buffer capacity: high-water + one max frame + guard margin", a frame
\* being dropped only if "the caller did not apply backpressure correctly": the
\* claim that TxQueue::enqueue finds room for every frame.
NoFrameDropped == ~dropped

\* What the marks do guarantee (check_bp_high): the UARTs and PTYs never queue
\* more than one read each above the high-water mark, so that a frame is dropped
\* only when the TCP data and control frames since the queue was below the mark,
\* which nothing holds back, exceed the room that those reads leave.
DropsNeedABurst ==
    dropped => unheld + READ * Cardinality(Serial) > LINK_TXBUF_SIZE - LINK_HIGH_WATER

\* No channel stays paused once backpressure is off, a link that failed while
\* it was on included (close_link, link_write).
PausedOnlyByBackpressure == paused # {} => link_bp

\* The write interest is edge-triggered and a write stops at the end of the
\* ring; still, a queue that does not empty is written again and again while
\* the tty transmits (run).
QueueMoves == []<>(used = 0) \/ []<><<used' < used>>_vars

\* Backpressure ends while the tty transmits (link_write).
PauseEnds == link_bp ~> ~link_bp
=============================================================================
