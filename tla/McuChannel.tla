----------------------------- MODULE McuChannel -----------------------------
(***************************************************************************)
(* One exporter-side MCU channel (channel.rs, struct McuChannel) with its  *)
(* UART, timers and epoll interest, driven by the daemon's event loop.     *)
(*                                                                         *)
(* One tick is a second.  Between two ticks the daemon runs the channel's  *)
(* tick() at least once, and reads the UART if it is registered readable   *)
(* and has input.  The tty holds no more than one read takes, so a read    *)
(* empties it.  Instants are ages (last_rx) and countdowns (reopen_at).    *)
(***************************************************************************)
EXTENDS Naturals

CONSTANTS RESET_SILENCE,   \* ticks of silence after which the MCU has reset
          REOPEN_DELAY,    \* ticks until a UART that did not open is retried
          READ_RETRY,      \* ticks until a UART that failed is reopened
          MaxTx,           \* bound: payloads waiting for the UART
          MayPause,        \* whether the link's backpressure ever sets in
          None             \* Option::None

ASSUME TimesAssumption ==
    RESET_SILENCE \in Nat /\ REOPEN_DELAY \in Nat /\ READ_RETRY \in Nat
ASSUME OtherAssumption == MaxTx \in Nat /\ MayPause \in BOOLEAN /\ None \notin Nat

VARIABLES
    state,       \* McuState
    fd,          \* the UART is open
    interest,    \* what the UART is registered for, {} if deregistered
    txbuf,       \* payloads from the host not yet written to the UART
    last_rx,     \* age of the latest read, or None
    reopen_at,   \* ticks until the next attempt to open, or None
    bp_paused,
    link_up,
    told,        \* latest state frame queued in this session, "none" if none
    \* the environment
    input,       \* what the MCU sent and was not read: "none", "noise" or
                 \* "sync", with a sync byte in it
    ready,       \* the UART's event in the batch poll() returned
    sent,        \* the MCU sent something since the latest tick
    quiet,       \* ticks for which the MCU had sent nothing at the latest tick
    ticked       \* tick() has run since the latest tick

chVars == <<state, fd, interest, txbuf, last_rx, reopen_at, bp_paused, link_up, told>>
mcuVars == <<input, sent, quiet>>
vars == <<chVars, mcuVars, ready, ticked>>

Status == IF state = "Active" THEN "F_READY" ELSE "F_FLUSH"

\* Faulty variant: the buffered bytes are forgotten.
wanted_no_write(paused, pending) == IF paused THEN {} ELSE {"READABLE"}

\* What update_interest registers.
wanted(paused, pending) ==
    (IF paused THEN {} ELSE {"READABLE"}) \cup (IF pending > 0 THEN {"WRITABLE"} ELSE {})

\* open_uart, with its two outcomes; opening flushes the tty.
open_uart ==
    \/ /\ fd' = TRUE
       /\ reopen_at' = None
       /\ interest' = wanted(bp_paused, txbuf)
    \/ /\ fd' = FALSE
       /\ reopen_at' = REOPEN_DELAY
       /\ interest' = {}

\* McuChannel::new.
Init ==
    /\ state = "Init"
    /\ \/ fd = TRUE /\ reopen_at = None /\ interest = {"READABLE"}
       \/ fd = FALSE /\ reopen_at = REOPEN_DELAY /\ interest = {}
    /\ txbuf = 0
    /\ last_rx = None
    /\ bp_paused = FALSE
    /\ link_up = FALSE
    /\ told = "none"
    /\ input = "none"
    /\ ready = {}
    /\ sent = FALSE
    /\ quiet = 0
    /\ ticked = FALSE

-----------------------------------------------------------------------------
\* Faulty variant: the announcement is made even with the link down.
announce_always(frame) == told' = frame

announce(frame) == told' = IF link_up THEN frame ELSE told

\* Faulty variant: the host's bytes survive a reset of the MCU.
to_resetting_keep_txbuf ==
    IF state = "Resetting" THEN UNCHANGED <<state, last_rx, txbuf, told>>
    ELSE /\ state' = "Resetting"
         /\ last_rx' = None
         /\ announce("F_FLUSH")
         /\ UNCHANGED txbuf

\* transition(Resetting); the interest is left as it is.
to_resetting ==
    IF state = "Resetting" THEN UNCHANGED <<state, last_rx, txbuf, told>>
    ELSE /\ state' = "Resetting"
         /\ last_rx' = None
         /\ txbuf' = 0
         /\ announce("F_FLUSH")

\* uart_drain: the UART takes some of the bytes, or fails and all are dropped.
uart_drain(pending) ==
    IF pending = 0 THEN UNCHANGED <<txbuf, interest>>
    ELSE \E left \in 0..pending :
           /\ txbuf' = left
           /\ interest' = wanted(bp_paused, left)

\* uart_read that yields bytes; nothing to read is a read of a stale event.
uart_read ==
    /\ input' = "none"
    /\ last_rx' = IF input = "none" THEN last_rx ELSE 0
    /\ IF state # "Active" /\ input = "sync"
       THEN state' = "Active" /\ announce("F_READY")
       ELSE UNCHANGED <<state, told>>

\* Faulty variant: a failed UART is closed but its reopening not scheduled.
uart_read_fails_for_good ==
    /\ fd' = FALSE
    /\ interest' = {}
    /\ input' = "none"
    /\ UNCHANGED reopen_at
    /\ to_resetting

\* uart_read that fails.
uart_read_fails ==
    /\ fd' = FALSE
    /\ interest' = {}
    /\ input' = "none"
    /\ reopen_at' = READ_RETRY
    /\ to_resetting

\* poll() returns an event for the UART.
poll ==
    /\ ready = {}
    /\ \E r \in SUBSET interest :
         /\ r # {}
         /\ "READABLE" \in r => input # "none"
         /\ ready' = r
    /\ UNCHANGED <<chVars, mcuVars, ticked>>

\* handle_event for the UART's event, when its turn in the batch has come.
handle_event ==
    /\ ready # {}
    /\ ready' = {}
    /\ \/ /\ "READABLE" \in ready
          /\ uart_read
          /\ UNCHANGED <<fd, reopen_at>>
          /\ uart_drain(IF "WRITABLE" \in ready THEN txbuf ELSE 0)
       \/ /\ "READABLE" \notin ready
          /\ UNCHANGED <<state, fd, last_rx, reopen_at, told, input>>
          /\ uart_drain(txbuf)
       \/ /\ "READABLE" \in ready
          /\ uart_read_fails
    /\ UNCHANGED <<bp_paused, link_up, sent, quiet, ticked>>

\* on_frame with F_DATA.
on_frame ==
    /\ fd
    /\ state = "Active"
    /\ txbuf < MaxTx
    /\ uart_drain(txbuf + 1)
    /\ UNCHANGED <<state, fd, last_rx, reopen_at, bp_paused, link_up, told>>
    /\ UNCHANGED <<mcuVars, ready, ticked>>

on_link_connect ==
    /\ link_up' = TRUE
    /\ told' = Status
    /\ UNCHANGED <<state, fd, interest, txbuf, last_rx, reopen_at, bp_paused>>
    /\ UNCHANGED <<mcuVars, ready, ticked>>

\* What close_link calls: resume_source_reads, then on_link_disconnect.
on_link_disconnect ==
    /\ link_up' = FALSE
    /\ told' = "none"
    /\ bp_paused' = FALSE
    /\ txbuf' = 0
    /\ interest' = IF fd THEN wanted(FALSE, 0) ELSE interest
    /\ UNCHANGED <<state, fd, last_rx, reopen_at, mcuVars, ready, ticked>>

\* Backpressure sets in only while the session has frames to queue.
pause_source_reads ==
    /\ MayPause
    /\ link_up
    /\ ~bp_paused
    /\ bp_paused' = TRUE
    /\ interest' = IF fd THEN wanted(TRUE, txbuf) ELSE interest
    /\ UNCHANGED <<state, fd, txbuf, last_rx, reopen_at, link_up, told>>
    /\ UNCHANGED <<mcuVars, ready, ticked>>

resume_source_reads ==
    /\ bp_paused
    /\ bp_paused' = FALSE
    /\ interest' = IF fd THEN wanted(FALSE, txbuf) ELSE interest
    /\ UNCHANGED <<state, fd, txbuf, last_rx, reopen_at, link_up, told>>
    /\ UNCHANGED <<mcuVars, ready, ticked>>

\* Faulty variant: the deadline is met one tick early.
silent_early == last_rx # None /\ last_rx >= RESET_SILENCE

silent == last_rx # None /\ last_rx > RESET_SILENCE

\* tick(), which the loop calls between two batches of events.
tick ==
    /\ ready = {}
    /\ ticked' = TRUE
    /\ \/ /\ ~fd
          /\ reopen_at = 0
          /\ open_uart
          /\ UNCHANGED <<state, txbuf, last_rx, told>>
       \/ /\ fd
          /\ state = "Active" /\ silent
          /\ to_resetting
          /\ UNCHANGED <<fd, interest, reopen_at>>
       \/ /\ IF fd THEN ~(state = "Active" /\ silent) ELSE reopen_at # 0
          /\ UNCHANGED <<state, fd, interest, txbuf, last_rx, reopen_at, told>>
    /\ UNCHANGED <<bp_paused, link_up, mcuVars, ready>>

-----------------------------------------------------------------------------
\* The MCU sends; the bytes are lost unless the UART is open.
McuSends ==
    /\ sent' = TRUE
    /\ \E bytes \in {"noise", "sync"} :
         input' = IF ~fd THEN "none" ELSE IF input = "sync" THEN "sync" ELSE bytes
    /\ UNCHANGED <<chVars, quiet, ready, ticked>>

Older(age, limit) == IF age = None \/ age > limit THEN age ELSE age + 1

Tick ==
    /\ ticked
    /\ ready = {}
    /\ ~("READABLE" \in interest /\ input # "none")
    /\ ticked' = FALSE
    /\ sent' = FALSE
    /\ quiet' = IF sent THEN 1 ELSE Older(quiet, RESET_SILENCE)
    /\ last_rx' = Older(last_rx, RESET_SILENCE)
    /\ reopen_at' = IF reopen_at \in {None, 0} THEN reopen_at ELSE reopen_at - 1
    /\ UNCHANGED <<state, fd, interest, txbuf, bp_paused, link_up, told, input, ready>>

Next ==
    \/ poll \/ handle_event \/ tick
    \/ on_frame \/ on_link_connect \/ on_link_disconnect
    \/ pause_source_reads \/ resume_source_reads
    \/ McuSends \/ Tick

Spec == Init /\ [][Next]_vars

-----------------------------------------------------------------------------
\* A UART that is closed is registered for nothing.
TypeOK ==
    /\ state \in {"Init", "Active", "Resetting"}
    /\ fd \in BOOLEAN
    /\ interest \in IF fd THEN SUBSET {"READABLE", "WRITABLE"} ELSE {{}}
    /\ txbuf \in Nat
    /\ last_rx \in Nat \cup {None}
    /\ reopen_at \in Nat \cup {None}
    /\ bp_paused \in BOOLEAN
    /\ link_up \in BOOLEAN
    /\ told \in {"none", "F_READY", "F_FLUSH"}
    /\ input \in {"none", "noise", "sync"}
    /\ ready \in SUBSET {"READABLE", "WRITABLE"}
    /\ sent \in BOOLEAN
    /\ quiet \in Nat
    /\ ticked \in BOOLEAN

\* The channel never waits for a timer it has not set: a closed UART has its
\* reopening scheduled (uart_read, open_uart), and while the MCU is active the
\* UART is open and the silence deadline runs (next_deadline).
NeverStuck ==
    /\ ~fd => reopen_at # None
    /\ state = "Active" => fd /\ last_rx # None

\* The epoll registration follows the channel through every mix of pauses,
\* closes, partial writes and resets (update_interest): reads are on exactly
\* when the channel is not paused, and bytes for the UART are never left
\* without an event that will write them.
InterestMatches ==
    fd => /\ "READABLE" \in interest <=> ~bp_paused
          /\ txbuf > 0 => "WRITABLE" \in interest

\* While the link is up the host was last told the state the MCU is in, and
\* nothing is said while it is down (transition, on_link_connect).
ToldTheState == told = IF link_up THEN Status ELSE "none"

\* No byte the host sent before a reset is left to be written after it: the
\* buffer is in use only while the MCU is active (transition, on_frame).
NoStaleCommands == txbuf > 0 => state = "Active"

\* "How long the MCU must be silent before we declare a reset": a tick takes
\* the MCU to be resetting only after it sent nothing for RESET_SILENCE.
ResetMeansSilence ==
    [][fd /\ fd' /\ state = "Active" /\ state' = "Resetting"
         => quiet > RESET_SILENCE]_vars

\* With backpressure too, a tick takes the MCU to be resetting only if it sent
\* nothing for RESET_SILENCE or if bytes of it are waiting to be read: bytes
\* that were read always count (uart_read, tick).
ResetMeansUnheard ==
    [][fd /\ fd' /\ state = "Active" /\ state' = "Resetting"
         => quiet > RESET_SILENCE \/ input # "none"]_vars
=============================================================================
