----------------------------- MODULE PtyChannel -----------------------------
(***************************************************************************)
(* One host-side serial channel (channel.rs, struct PtyChannel): the PTY   *)
(* Klipper opens, the bytes on their way to it, and its epoll interest,    *)
(* which is edge-triggered.  The daemon's calls come in any order the link *)
(* may bring them.                                                         *)
(*                                                                         *)
(* An edge is due when Klipper writes or makes room while the master is    *)
(* registered for it, and when the registration is renewed while there is  *)
(* input or room.  The tty holds no more than one read takes.  Payloads of *)
(* the link are numbered.                                                  *)
(***************************************************************************)
EXTENDS Naturals, Sequences

CONSTANTS Room,     \* payloads the PTY holds for Klipper
          MaxRx     \* bound: payloads of the link

VARIABLES
    master,     \* master_fd and slave_fd are open
    interest,   \* what the master is registered for, {} if it is not
    txbuf,      \* payloads not yet written to the master
    bp_paused,
    \* the environment
    edges,      \* events epoll has still to report
    ready,      \* the event of the master in the batch poll() returned
    input,      \* Klipper has written what was not read
    room,       \* payloads the PTY would take
    \* history
    rx,         \* payloads of the link
    start,      \* rx when the PTY was opened
    written,    \* what was written to the PTY since then
    broken      \* a write failed since then

ptyVars == <<master, interest, txbuf, bp_paused>>
envVars == <<edges, ready, input, room>>
history == <<rx, start, written, broken>>
vars == <<ptyVars, envVars, history>>

Init ==
    /\ master = FALSE
    /\ interest = {}
    /\ txbuf = <<>>
    /\ bp_paused = FALSE
    /\ edges = {} /\ ready = {}
    /\ input = FALSE
    /\ room = 0
    /\ rx = 0 /\ start = 0 /\ written = <<>> /\ broken = FALSE

wanted(paused, pending) ==
    (IF paused THEN {} ELSE {"READABLE"}) \cup (IF pending # <<>> THEN {"WRITABLE"} ELSE {})

Due(i, r) == (IF i THEN {"READABLE"} ELSE {}) \cup (IF r > 0 THEN {"WRITABLE"} ELSE {})

\* update_interest, for the state the handler leaves: the registration is made
\* anew.
update_interest ==
    IF ~master' THEN UNCHANGED <<interest, edges>>
    ELSE /\ interest' = wanted(bp_paused', txbuf')
         /\ edges' = interest' \cap Due(input', room')

\* Faulty variant: what waits for the old PTY is kept for the next.
close_pty_keeps ==
    /\ master' = FALSE
    /\ interest' = {} /\ edges' = {}
    /\ input' = FALSE /\ room' = 0
    /\ written' = <<>>
    /\ broken' = FALSE
    /\ UNCHANGED <<txbuf, start>>

\* What Klipper has not read, and what it has written, is lost with the PTY.
close_pty ==
    /\ master' = FALSE
    /\ interest' = {} /\ edges' = {}
    /\ txbuf' = <<>>
    /\ input' = FALSE /\ room' = 0
    /\ written' = <<>>
    /\ broken' = FALSE
    /\ UNCHANGED start

\* open_pty: openpty, ttyname or the symlink may fail.
open_pty ==
    IF master THEN UNCHANGED <<ptyVars, edges, input, room, start, written, broken>>
    ELSE \/ UNCHANGED <<ptyVars, edges, input, room, start, written, broken>>
         \/ /\ master' = TRUE
            /\ room' = Room
            /\ start' = rx
            /\ UNCHANGED <<txbuf, bp_paused, input, written, broken>>
            /\ update_interest

\* Faulty variant: the interest is renewed only if something was written.
pty_drain_quietly(pending) ==
    \/ pending = <<>> /\ UNCHANGED <<txbuf, room, written, broken, interest, edges>>
    \/ \E n \in {IF Len(pending) < room THEN Len(pending) ELSE room} :
         /\ pending # <<>>
         /\ txbuf' = SubSeq(pending, n + 1, Len(pending))
         /\ written' = written \o SubSeq(pending, 1, n)
         /\ room' = room - n
         /\ UNCHANGED <<broken, interest, edges>>

\* pty_drain: the PTY takes what it has room for, or the write fails and all is
\* dropped.
pty_drain(pending) ==
    \/ pending = <<>> /\ UNCHANGED <<txbuf, room, written, broken, interest, edges>>
    \/ \E n \in {IF Len(pending) < room THEN Len(pending) ELSE room} :
         /\ pending # <<>>
         /\ txbuf' = SubSeq(pending, n + 1, Len(pending))
         /\ written' = written \o SubSeq(pending, 1, n)
         /\ room' = room - n
         /\ UNCHANGED broken
         /\ update_interest
    \/ /\ pending # <<>>
       /\ txbuf' = <<>>
       /\ broken' = TRUE
       /\ UNCHANGED <<written, room>>
       /\ update_interest

-----------------------------------------------------------------------------
\* on_frame; DATA without a PTY is dropped.
on_frame ==
    \/ /\ close_pty                                               \* F_FLUSH
       /\ UNCHANGED <<bp_paused, ready, rx>>
    \/ /\ open_pty                                                \* F_READY
       /\ UNCHANGED <<ready, rx>>
    \/ /\ rx < MaxRx                                              \* F_DATA
       /\ rx' = rx + 1
       /\ IF master THEN UNCHANGED <<master, bp_paused, input>> /\ pty_drain(Append(txbuf, rx + 1))
          ELSE UNCHANGED <<ptyVars, edges, input, room, written, broken>>
       /\ UNCHANGED <<ready, start>>

on_link_connect == close_pty /\ UNCHANGED <<bp_paused, ready, rx>>

\* close_link: the reads are resumed, then on_link_disconnect.
on_link_disconnect == close_pty /\ bp_paused' = FALSE /\ UNCHANGED <<ready, rx>>

pause_source_reads ==
    /\ ~bp_paused
    /\ bp_paused' = TRUE
    /\ UNCHANGED <<master, txbuf, ready, input, room, history>>
    /\ update_interest

resume_source_reads ==
    /\ bp_paused
    /\ bp_paused' = FALSE
    /\ UNCHANGED <<master, txbuf, ready, input, room, history>>
    /\ update_interest

\* poll() reports what is due.
poll ==
    /\ ready = {}
    /\ edges # {}
    /\ ready' = edges
    /\ edges' = {}
    /\ UNCHANGED <<ptyVars, input, room, history>>

\* handle_event: the read, whose bytes are queued for the link, then the write.
\* The event may be one of a PTY that was closed, and opened anew, since.  EIO is
\* the only error of a non-blocking read of an open PTY; the code ignores others.
handle_event ==
    /\ ready # {}
    /\ ready' = {}
    /\ \/ /\ master
          /\ input' = (input /\ "READABLE" \notin ready)
          /\ UNCHANGED <<master, bp_paused, rx, start>>
          /\ IF "WRITABLE" \in ready THEN pty_drain(txbuf)
             ELSE UNCHANGED <<txbuf, room, written, broken, interest, edges>>
       \/ /\ master /\ "READABLE" \in ready                       \* EIO
          /\ close_pty
          /\ UNCHANGED <<bp_paused, rx>>
       \/ /\ ~master
          /\ UNCHANGED <<ptyVars, edges, input, room, history>>

-----------------------------------------------------------------------------
\* Klipper at the slave.
Writes ==
    /\ master
    /\ input' = TRUE
    /\ edges' = edges \cup (interest \cap {"READABLE"})
    /\ UNCHANGED <<ptyVars, ready, room, history>>

Reads ==
    /\ master /\ room < Room
    /\ room' = Room
    /\ edges' = edges \cup (interest \cap {"WRITABLE"})
    /\ UNCHANGED <<ptyVars, ready, input, history>>

Next ==
    \/ on_frame \/ on_link_connect \/ on_link_disconnect
    \/ pause_source_reads \/ resume_source_reads
    \/ poll \/ handle_event
    \/ Writes \/ Reads

Spec == Init /\ [][Next]_vars

\* The loop goes on, backpressure ends, and Klipper reads what it is given.  A
\* channel that is paused and resumed for ever is polled in between: the reads
\* are resumed at the low-water mark, and a channel of the same batch that could
\* fill the queue again was paused too.
Fairness ==
    /\ SF_vars(poll) /\ WF_vars(handle_event)
    /\ WF_vars(resume_source_reads) /\ WF_vars(Reads)

FairSpec == Spec /\ Fairness

-----------------------------------------------------------------------------
\* A PTY that is closed is registered for nothing.
TypeOK ==
    /\ master \in BOOLEAN
    /\ interest \in IF master THEN SUBSET {"READABLE", "WRITABLE"} ELSE {{}}
    /\ txbuf \in Seq(Nat)
    /\ bp_paused \in BOOLEAN
    /\ edges \subseteq interest
    /\ ready \subseteq {"READABLE", "WRITABLE"}
    /\ input \in BOOLEAN
    /\ room \in 0..Room
    /\ rx \in Nat /\ start \in 0..rx
    /\ written \in Seq(Nat)
    /\ broken \in BOOLEAN

\* The registration follows the channel through pauses, partial writes, and
\* closings and openings while it is paused (update_interest).
InterestMatches ==
    master => /\ "READABLE" \in interest <=> ~bp_paused
              /\ txbuf # <<>> => "WRITABLE" \in interest

\* What one opening of the PTY is fed, with what still waits for it, is what
\* the link brought since it was opened: all of it, in order, and nothing from
\* before, unless a write failed (on_frame, pty_drain, close_pty).
PtyStream ==
    /\ master /\ ~broken => written \o txbuf = [i \in 1..(rx - start) |-> start + i]
    /\ ~master => txbuf = <<>>

\* Whatever waits for Klipper is written while Klipper reads, although a write
\* is tried only on an edge (pty_drain, handle_event); and what Klipper writes is
\* read, although the edge came while the channel was paused
\* (resume_source_reads), or is lost with the PTY.
PtyServes ==
    /\ txbuf # <<>> ~> txbuf = <<>>
    /\ input ~> ~input
=============================================================================
