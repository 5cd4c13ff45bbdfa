---------------------------- MODULE SerialProofs ----------------------------
(***************************************************************************)
(* Proofs about the two ends of a serial channel, for all durations and    *)
(* sizes and any number of payloads.                                       *)
(*                                                                         *)
(* McuChannel: the safety invariants are inductive together, once it is    *)
(* added that an event is pending only for an open UART.  That a reset     *)
(* means silence is proved for a channel that is never paused; the paused  *)
(* case does not have it.                                                  *)
(*                                                                         *)
(* PtyChannel: a PTY that is closed holds nothing and was fed nothing,     *)
(* which is what makes the next opening start afresh.                      *)
(***************************************************************************)
EXTENDS MCSerial, Sequences, SequenceTheorems, TLAPS


IInv ==
    /\ TypeOK
    /\ NeverStuck
    /\ InterestMatches
    /\ ToldTheState
    /\ NoStaleCommands
    /\ ready # {} => fd

\* What update_interest registers is right for the buffer it looks at.
LEMMA WantedFacts ==
    ASSUME NEW paused \in BOOLEAN, NEW pending \in Nat
    PROVE  /\ wanted(paused, pending) \in SUBSET {"READABLE", "WRITABLE"}
           /\ "READABLE" \in wanted(paused, pending) <=> ~paused
           /\ pending > 0 => "WRITABLE" \in wanted(paused, pending)
BY DEF wanted

\* uart_drain leaves a buffer and an interest that go together.
LEMMA DrainFacts ==
    ASSUME IInv, fd, NEW n \in Nat, uart_drain(n), n = 0 \/ state = "Active"
    PROVE  /\ txbuf' \in Nat
           /\ interest' \in SUBSET {"READABLE", "WRITABLE"}
           /\ "READABLE" \in interest' <=> ~bp_paused
           /\ txbuf' > 0 => "WRITABLE" \in interest' /\ state = "Active"
<1> USE DEF IInv, TypeOK
<1>1. CASE n = 0
  BY <1>1, Zenon DEF uart_drain, InterestMatches, NoStaleCommands
<1>2. CASE n # 0
  <2>1. PICK left \in 0..n : txbuf' = left /\ interest' = wanted(bp_paused, left)
    BY <1>2 DEF uart_drain
  <2>2. left \in Nat /\ bp_paused \in BOOLEAN
    OBVIOUS
  <2> QED  BY <1>2, <2>1, <2>2, WantedFacts
<1> QED  BY <1>1, <1>2

\* transition(Resetting).
LEMMA ResettingFacts ==
    ASSUME IInv, to_resetting
    PROVE  /\ state' = "Resetting"
           /\ last_rx' \in Nat \cup {None}
           /\ txbuf' = 0
           /\ told' = IF link_up THEN "F_FLUSH" ELSE "none"
<1>1. CASE state = "Resetting"
  BY <1>1 DEF to_resetting, IInv, TypeOK, NoStaleCommands, ToldTheState, Status
<1>2. CASE state # "Resetting"
  BY <1>2 DEF to_resetting, announce, IInv, TypeOK, ToldTheState
<1> QED  BY <1>1, <1>2

\* Every step of the MCU channel.
LEMMA Step ==
    ASSUME IInv, [Next]_vars
    PROVE  IInv'
<1> USE DEF IInv, mcuVars
<1>1. ASSUME poll PROVE IInv'
  <2>1. ready' \in SUBSET {"READABLE", "WRITABLE"} /\ fd
    BY <1>1, Zenon DEF poll, TypeOK
  <2>2. UNCHANGED <<chVars, mcuVars, ticked>>
    BY <1>1 DEF poll
  <2> QED  BY <2>1, <2>2 DEF chVars, TypeOK, NeverStuck, InterestMatches, ToldTheState,
                         NoStaleCommands, Status
<1>2. ASSUME handle_event PROVE IInv'
  <2>1. /\ fd /\ ready' = {}
        /\ bp_paused' = bp_paused /\ link_up' = link_up /\ sent' = sent
        /\ quiet' = quiet /\ ticked' = ticked
    BY <1>2 DEF handle_event
  <2>2. CASE uart_read_fails
    <3>1. /\ fd' = FALSE /\ interest' = {} /\ input' = "none" /\ reopen_at' = READ_RETRY
          /\ to_resetting
      BY <2>2 DEF uart_read_fails
    <3>2. /\ state' = "Resetting" /\ last_rx' \in Nat \cup {None} /\ txbuf' = 0
          /\ told' = IF link_up THEN "F_FLUSH" ELSE "none"
      BY <3>1, ResettingFacts
    <3>3. reopen_at' \in Nat /\ reopen_at' # None
      BY <3>1, TimesAssumption, OtherAssumption
    <3>4. TypeOK'
      BY <2>1, <3>1, <3>2, <3>3, Zenon DEF TypeOK
    <3> QED  BY <2>1, <3>1, <3>2, <3>3, <3>4
             DEF NeverStuck, InterestMatches, ToldTheState, NoStaleCommands, Status
  <2>3. CASE /\ UNCHANGED <<state, fd, last_rx, reopen_at, told, input>>
             /\ uart_drain(txbuf)
    <3>1. /\ txbuf' \in Nat
          /\ interest' \in SUBSET {"READABLE", "WRITABLE"}
          /\ "READABLE" \in interest' <=> ~bp_paused
          /\ txbuf' > 0 => "WRITABLE" \in interest' /\ state = "Active"
      BY <2>1, <2>3, DrainFacts DEF TypeOK, NoStaleCommands
    <3> QED  BY <2>1, <2>3, <3>1
             DEF TypeOK, NeverStuck, InterestMatches, ToldTheState, NoStaleCommands, Status
  <2>4. CASE /\ uart_read
             /\ UNCHANGED <<fd, reopen_at>>
             /\ uart_drain(IF "WRITABLE" \in ready THEN txbuf ELSE 0)
    <3> DEFINE n == IF "WRITABLE" \in ready THEN txbuf ELSE 0
    <3>1. n \in Nat /\ (n = 0 \/ state = "Active")
      BY DEF TypeOK, NoStaleCommands
    <3>2. /\ txbuf' \in Nat
          /\ interest' \in SUBSET {"READABLE", "WRITABLE"}
          /\ "READABLE" \in interest' <=> ~bp_paused
          /\ txbuf' > 0 => "WRITABLE" \in interest' /\ state = "Active"
      BY <2>1, <2>4, <3>1, DrainFacts
    <3>3. /\ state' \in {"Init", "Active", "Resetting"}
          /\ state = "Active" => state' = "Active"
          /\ last_rx' \in Nat \cup {None} /\ input' = "none"
          /\ state' = "Active" => last_rx' # None
      BY <2>4, OtherAssumption DEF uart_read, TypeOK, NeverStuck
    <3>4. told' = IF link_up THEN (IF state' = "Active" THEN "F_READY" ELSE "F_FLUSH")
                  ELSE "none"
      BY <2>4 DEF uart_read, announce, ToldTheState, Status
    <3>5. TypeOK'
      BY <2>1, <2>4, <3>2, <3>3, <3>4 DEF TypeOK
    <3> QED  BY <2>1, <2>4, <3>2, <3>3, <3>4, <3>5
             DEF NeverStuck, InterestMatches, ToldTheState, NoStaleCommands, Status
  <2> QED  BY <1>2, <2>2, <2>3, <2>4 DEF handle_event
<1>3. ASSUME on_frame PROVE IInv'
  <2>1. /\ txbuf' \in Nat
        /\ interest' \in SUBSET {"READABLE", "WRITABLE"}
        /\ "READABLE" \in interest' <=> ~bp_paused
        /\ txbuf' > 0 => "WRITABLE" \in interest' /\ state = "Active"
    BY <1>3, DrainFacts DEF on_frame, TypeOK
  <2> QED  BY <1>3, <2>1 DEF on_frame, TypeOK, NeverStuck, InterestMatches,
                             ToldTheState, NoStaleCommands, Status
<1>4. ASSUME on_link_connect PROVE IInv'
  BY <1>4 DEF on_link_connect, TypeOK, NeverStuck, InterestMatches, ToldTheState,
              NoStaleCommands, Status
<1>5. ASSUME NEW p \in BOOLEAN, NEW n \in Nat,
             bp_paused' = p, txbuf' = n, n > 0 => state = "Active",
             interest' = (IF fd THEN wanted(p, n) ELSE interest)
      PROVE  /\ interest' \in IF fd THEN SUBSET {"READABLE", "WRITABLE"} ELSE {{}}
             /\ fd => ("READABLE" \in interest' <=> ~bp_paused')
             /\ fd /\ txbuf' > 0 => "WRITABLE" \in interest'
  BY <1>5, WantedFacts, Zenon DEF TypeOK
<1>6. ASSUME on_link_disconnect PROVE IInv'
  <2>1. /\ bp_paused' = FALSE /\ txbuf' = 0
        /\ interest' = IF fd THEN wanted(FALSE, 0) ELSE interest
    BY <1>6 DEF on_link_disconnect
  <2>2. /\ interest' \in IF fd THEN SUBSET {"READABLE", "WRITABLE"} ELSE {{}}
        /\ fd => ("READABLE" \in interest' <=> ~bp_paused')
    BY <2>1, Zenon DEF wanted, TypeOK
  <2>3. /\ UNCHANGED <<state, fd, last_rx, reopen_at, ready, input, sent, quiet, ticked>>
        /\ link_up' = FALSE /\ told' = "none"
    BY <1>6 DEF on_link_disconnect
  <2>4. TypeOK'
    BY <2>1, <2>2, <2>3, Zenon DEF TypeOK
  <2>5. NeverStuck' /\ NoStaleCommands' /\ (ready' # {} => fd')
    BY <2>1, <2>3 DEF NeverStuck, NoStaleCommands
  <2>6. InterestMatches'
    <3>1. fd' = fd /\ bp_paused' = FALSE /\ txbuf' = 0
      BY <2>1, <2>3
    <3>2. fd => "READABLE" \in interest'
      BY <2>1 DEF wanted
    <3> QED  BY <3>1, <3>2 DEF InterestMatches
  <2>7. ToldTheState'
    BY <2>3 DEF ToldTheState, Status
  <2> QED  BY <2>4, <2>5, <2>6, <2>7
<1>7. ASSUME pause_source_reads PROVE IInv'
  <2>1. txbuf \in Nat /\ (txbuf > 0 => state = "Active")
    BY DEF TypeOK, NoStaleCommands
  <2> QED  BY <1>5, <1>7, <2>1, ZenonT(30) DEF pause_source_reads, TypeOK, NeverStuck,
                    InterestMatches, ToldTheState, NoStaleCommands, Status
<1>8. ASSUME resume_source_reads PROVE IInv'
  <2>1. txbuf \in Nat /\ (txbuf > 0 => state = "Active")
    BY DEF TypeOK, NoStaleCommands
  <2> QED  BY <1>5, <1>8, <2>1, ZenonT(30) DEF resume_source_reads, TypeOK, NeverStuck,
                    InterestMatches, ToldTheState, NoStaleCommands, Status
<1>9. ASSUME tick PROVE IInv'
  <2>1. /\ ready = {} /\ ready' = ready /\ ticked' = TRUE
        /\ UNCHANGED <<bp_paused, link_up, input, sent, quiet>>
    BY <1>9 DEF tick
  <2>2. CASE /\ ~fd
             /\ open_uart
             /\ UNCHANGED <<state, txbuf, last_rx, told>>
    <3>1. state # "Active" /\ txbuf \in Nat /\ bp_paused \in BOOLEAN
      BY <2>2 DEF NeverStuck, TypeOK
    <3>2. CASE fd' = TRUE /\ reopen_at' = None /\ interest' = wanted(bp_paused, txbuf)
      BY <2>1, <2>2, <3>1, <3>2, WantedFacts
         DEF TypeOK, NeverStuck, InterestMatches, ToldTheState, NoStaleCommands, Status
    <3>3. CASE fd' = FALSE /\ reopen_at' = REOPEN_DELAY /\ interest' = {}
      BY <2>1, <2>2, <3>1, <3>3, TimesAssumption, OtherAssumption, Zenon
         DEF TypeOK, NeverStuck, InterestMatches, ToldTheState, NoStaleCommands, Status
    <3> QED  BY <2>2, <3>2, <3>3, Zenon DEF open_uart
  <2>3. CASE fd /\ to_resetting /\ UNCHANGED <<fd, interest, reopen_at>>
    <3>1. /\ state' = "Resetting" /\ last_rx' \in Nat \cup {None} /\ txbuf' = 0
          /\ told' = IF link_up THEN "F_FLUSH" ELSE "none"
      BY <2>3, ResettingFacts
    <3> QED  BY <2>1, <2>3, <3>1
             DEF TypeOK, NeverStuck, InterestMatches, ToldTheState, NoStaleCommands, Status
  <2>4. CASE UNCHANGED <<state, fd, interest, txbuf, last_rx, reopen_at, told>>
    BY <2>1, <2>4
       DEF TypeOK, NeverStuck, InterestMatches, ToldTheState, NoStaleCommands, Status
  <2> QED  BY <1>9, <2>2, <2>3, <2>4 DEF tick
<1>10. ASSUME McuSends PROVE IInv'
  BY <1>10 DEF McuSends, chVars, TypeOK, NeverStuck, InterestMatches, ToldTheState,
               NoStaleCommands, Status
<1>11. ASSUME Tick PROVE IInv'
  <2>1. /\ last_rx' \in Nat \cup {None} /\ (last_rx # None => last_rx' # None)
        /\ quiet' \in Nat
    BY <1>11, TimesAssumption, OtherAssumption DEF Tick, Older, TypeOK
  <2>2. /\ reopen_at' \in Nat \cup {None} /\ (reopen_at # None => reopen_at' # None)
    BY <1>11, OtherAssumption DEF Tick, TypeOK
  <2> QED  BY <1>11, <2>1, <2>2, Zenon DEF Tick, TypeOK, NeverStuck, InterestMatches,
                                    ToldTheState, NoStaleCommands, Status
<1>12. CASE UNCHANGED vars
  BY <1>12 DEF vars, chVars, TypeOK, NeverStuck, InterestMatches, ToldTheState,
               NoStaleCommands, Status
<1> QED  BY <1>1, <1>2, <1>3, <1>4, <1>6, <1>7, <1>8, <1>9, <1>10, <1>11, <1>12 DEF Next

\* The channel's state stays well typed and accountable: timers set whenever
\* they are needed, interest in step with pauses and buffered bytes, the host
\* told the state the MCU is in, no command kept over a reset.
THEOREM Invariance == Spec => []IInv
<1>1. Init => IInv
  <2> SUFFICES ASSUME Init PROVE IInv
    OBVIOUS
  <2>1. /\ reopen_at \in Nat \cup {None}
        /\ ~fd => reopen_at # None
    BY TimesAssumption, OtherAssumption DEF Init
  <2>2. TypeOK
    BY <2>1, Zenon DEF Init, TypeOK
  <2> QED  BY <2>1, <2>2 DEF Init, IInv, NeverStuck, InterestMatches, ToldTheState,
                             NoStaleCommands
<1>2. IInv /\ [Next]_vars => IInv'
  BY Step
<1> QED  BY <1>1, <1>2, PTL DEF Spec

\* The epoll registration is right after every handler.
THEOREM InterestCorrect == Spec => []InterestMatches
<1>1. IInv => InterestMatches
  BY DEF IInv
<1> QED  BY <1>1, Invariance, PTL

\* No timer the channel relies on is ever missing.
THEOREM NeverStuckCorrect == Spec => []NeverStuck
<1>1. IInv => NeverStuck
  BY DEF IInv
<1> QED  BY <1>1, Invariance, PTL

\* The state of the channel is well typed and a closed UART is not registered.
THEOREM TypeCorrect == Spec => []TypeOK
<1>1. IInv => TypeOK
  BY DEF IInv
<1> QED  BY <1>1, Invariance, PTL

\* While the link is up the host was last told the state the MCU is in.
THEOREM HostIsTold == Spec => []ToldTheState
<1>1. IInv => ToldTheState
  BY DEF IInv
<1> QED  BY <1>1, Invariance, PTL

\* No byte of the host is kept over a reset of the MCU.
THEOREM CommandsAreFresh == Spec => []NoStaleCommands
<1>1. IInv => NoStaleCommands
  BY DEF IInv
<1> QED  BY <1>1, Invariance, PTL

-----------------------------------------------------------------------------
\* A tick that finds the UART open and the MCU active, and only such a step,
\* takes the MCU to be resetting without closing the UART.
LEMMA OnlyTickDeclares ==
    ASSUME IInv, [Next]_vars, fd, fd', state = "Active", state' = "Resetting"
    PROVE  /\ last_rx \in Nat /\ quiet \in Nat
           /\ last_rx > RESET_SILENCE
<1>1. last_rx \in Nat /\ quiet \in Nat
  BY DEF IInv, TypeOK, NeverStuck
<1>2. CASE tick
  BY <1>1, <1>2, TimesAssumption DEF tick, silent, to_resetting
<1>3. CASE handle_event
  BY <1>3 DEF handle_event, uart_read, uart_read_fails
<1>4. tick \/ handle_event \/ UNCHANGED state
  BY DEF Next, poll, on_frame, on_link_connect, on_link_disconnect,
         pause_source_reads, resume_source_reads, McuSends, Tick, vars, chVars
<1> QED  BY <1>1, <1>2, <1>3, <1>4

\* When nothing is unread, the time since the latest read is no longer than the
\* MCU's silence.
Heard ==
    state = "Active" /\ input = "none" => last_rx <= quiet /\ (sent => last_rx = 0)

\* Backpressure or not, a reset is declared only of an MCU that was silent for
\* longer than RESET_SILENCE or whose bytes are unread.
THEOREM ResetIsUnheard == Spec => ResetMeansUnheard
<1>1. Init => Heard
  BY DEF Init, Heard
<1>2. ASSUME IInv, Heard, [Next]_vars PROVE Heard'
  <2> USE DEF Heard, mcuVars
  <2>0. /\ state \in {"Init", "Active", "Resetting"}
        /\ state = "Active" => last_rx \in Nat /\ fd
        /\ quiet \in Nat
    BY <1>2 DEF IInv, TypeOK, NeverStuck
  <2>1. ASSUME to_resetting PROVE Heard'
    BY <2>1 DEF to_resetting
  <2>2. ASSUME uart_read, UNCHANGED <<sent, quiet>> PROVE Heard'
    BY <2>0, <2>2, <1>2 DEF uart_read
  <2>3. CASE handle_event
    BY <1>2, <2>1, <2>2, <2>3 DEF handle_event, uart_read_fails
  <2>4. CASE tick
    BY <1>2, <2>1, <2>4 DEF tick, open_uart
  <2>5. CASE Tick
    BY <1>2, <2>0, <2>5, TimesAssumption, OtherAssumption DEF Tick, Older
  <2>6. CASE McuSends
    BY <1>2, <2>0, <2>6 DEF McuSends, chVars
  <2>7. CASE poll \/ on_frame \/ on_link_connect
    BY <1>2, <2>7 DEF poll, on_frame, on_link_connect, chVars
  <2>8. CASE on_link_disconnect \/ pause_source_reads \/ resume_source_reads
    BY <1>2, <2>8, Zenon DEF on_link_disconnect, pause_source_reads, resume_source_reads
  <2>9. CASE UNCHANGED vars
    BY <1>2, <2>9 DEF vars, chVars
  <2> QED  BY <1>2, <2>3, <2>4, <2>5, <2>6, <2>7, <2>8, <2>9 DEF Next
<1>3. ASSUME IInv, Heard, [Next]_vars
      PROVE  [fd /\ fd' /\ state = "Active" /\ state' = "Resetting"
                => quiet > RESET_SILENCE \/ input # "none"]_vars
  BY <1>3, OnlyTickDeclares, TimesAssumption DEF Heard
<1> QED  BY <1>1, <1>2, <1>3, Invariance, PTL DEF Spec, ResetMeansUnheard

-----------------------------------------------------------------------------
\* Without pauses every byte is read in the tick it was sent in, so the time
\* since the latest read is no longer than the MCU's silence.
Prompt ==
    /\ ~bp_paused
    /\ state = "Active" => /\ last_rx <= quiet
                           /\ sent => input # "none" \/ last_rx = 0

\* A channel that is never paused declares a reset only of an MCU that was
\* silent for longer than RESET_SILENCE.
THEOREM SilenceWithoutPauses == ~MayPause /\ Spec => ResetMeansSilence
<1> DEFINE Inv == IInv /\ Prompt
<1>1. Init => Prompt
  BY DEF Init, Prompt
<1>2. ASSUME ~MayPause, Inv, [Next]_vars PROVE Prompt'
  <2> USE DEF Prompt, mcuVars
  <2>0. /\ state \in {"Init", "Active", "Resetting"}
        /\ state = "Active" => last_rx \in Nat /\ fd
        /\ quiet \in Nat /\ ~bp_paused
        /\ fd => "READABLE" \in interest
    BY <1>2 DEF IInv, TypeOK, NeverStuck, InterestMatches
  <2>1. ASSUME to_resetting, ~bp_paused' PROVE Prompt'
    BY <2>1 DEF to_resetting
  <2>2. ASSUME uart_read, UNCHANGED <<bp_paused, sent, quiet>> PROVE Prompt'
    BY <2>0, <2>2, <1>2 DEF uart_read
  <2>3. CASE handle_event
    BY <1>2, <2>1, <2>2, <2>3 DEF handle_event, uart_read_fails
  <2>4. CASE tick
    BY <1>2, <2>1, <2>4 DEF tick, open_uart
  <2>5. CASE Tick
    BY <1>2, <2>0, <2>5, TimesAssumption, OtherAssumption DEF Tick, Older
  <2>6. CASE McuSends
    BY <1>2, <2>0, <2>6 DEF McuSends, chVars
  <2>7. CASE poll \/ on_frame \/ on_link_connect
    BY <1>2, <2>7 DEF poll, on_frame, on_link_connect, chVars
  <2>a. CASE on_link_disconnect
    BY <1>2, <2>a DEF on_link_disconnect
  <2>8. CASE pause_source_reads \/ resume_source_reads
    BY <1>2, <2>8, Zenon DEF pause_source_reads, resume_source_reads
  <2>9. CASE UNCHANGED vars
    BY <1>2, <2>9 DEF vars, chVars
  <2> QED  BY <1>2, <2>3, <2>4, <2>5, <2>6, <2>7, <2>8, <2>9, <2>a DEF Next
<1>3. ASSUME Inv, [Next]_vars, fd, fd', state = "Active", state' = "Resetting"
      PROVE  quiet > RESET_SILENCE
  BY <1>3, OnlyTickDeclares, TimesAssumption DEF Prompt
<1>4. Inv /\ [Next]_vars =>
        [fd /\ fd' /\ state = "Active" /\ state' = "Resetting"
           => quiet > RESET_SILENCE]_vars
  BY <1>3
<1>5. ~MayPause /\ Inv /\ [Next]_vars => Prompt'
  BY <1>2
<1>6. CASE ~MayPause
  <2>1. IInv /\ Prompt /\ [Next]_vars => Prompt'
    BY <1>5, <1>6
  <2> QED  BY <1>1, <1>4, <2>1, Invariance, PTL DEF Spec, ResetMeansSilence
<1> QED  BY <1>6

-----------------------------------------------------------------------------
\* The host's end.
\* The payloads a to b of the link, in order.
From(a, b) == [i \in 1..(b - a) |-> a + i]

PtyInv ==
    /\ Pty!TypeOK
    /\ master => pty_interest = Pty!wanted(pty_paused, pty_txbuf)
    /\ ~master => pty_txbuf = <<>> /\ written = <<>> /\ ~broken
    /\ master /\ ~broken => written \o pty_txbuf = From(start, rx)

\* One more payload of the link.
LEMMA FromNext ==
    ASSUME NEW a \in Nat, NEW b \in Nat, a <= b
    PROVE  Append(From(a, b), b + 1) = From(a, b + 1)
<1>1. From(a, b) \in Seq(Nat) /\ Len(From(a, b)) = b - a
  BY DEF From
<1>2. Append(From(a, b), b + 1) \in Seq(Nat) /\ From(a, b + 1) \in Seq(Nat)
  BY <1>1 DEF From
<1>3. Len(Append(From(a, b), b + 1)) = b + 1 - a /\ Len(From(a, b + 1)) = b + 1 - a
  BY <1>1 DEF From
<1>4. ASSUME NEW i \in 1..(b + 1 - a)
      PROVE  Append(From(a, b), b + 1)[i] = From(a, b + 1)[i]
  BY <1>1 DEF From
<1> QED  BY <1>2, <1>3, <1>4, SeqEqual, Zenon

\* Concatenation is associative.
LEMMA Associative ==
    ASSUME NEW s \in Seq(Nat), NEW t \in Seq(Nat), NEW u \in Seq(Nat)
    PROVE  (s \o t) \o u = s \o (t \o u)
BY SMTT(30)

\* Cutting a sequence in two and moving the first part over loses nothing.
LEMMA Cut ==
    ASSUME NEW w \in Seq(Nat), NEW p \in Seq(Nat), NEW n \in 0..Len(p)
    PROVE  /\ w \o SubSeq(p, 1, n) \in Seq(Nat) /\ SubSeq(p, n + 1, Len(p)) \in Seq(Nat)
           /\ (w \o SubSeq(p, 1, n)) \o SubSeq(p, n + 1, Len(p)) = w \o p
<1> DEFINE l == SubSeq(p, 1, n)
           r == SubSeq(p, n + 1, Len(p))
<1>1. \A i \in 1..Len(p) : p[i] \in Nat
  BY ElementOfSeq
<1>2. l \in Seq(Nat) /\ r \in Seq(Nat)
  BY <1>1, SubSeqProperties
<1>3. l \o r = p
  <2>1. 1 \in 1..(Len(p) + 1) /\ n \in (1 - 1)..Len(p) /\ Len(p) \in n..Len(p)
    BY LenProperties
  <2>2. l \o r = SubSeq(p, 1, Len(p))
    BY <2>1, ConcatAdjacentSubSeq, Zenon
  <2> QED  BY <2>2, SubSeqFull, Zenon
<1> HIDE DEF l, r
<1>4. (w \o l) \o r = w \o (l \o r)
  BY <1>2, Associative, Zenon
<1>5. w \o l \in Seq(Nat)
  BY <1>2, ConcatProperties
<1> USE DEF l, r
<1> QED  BY <1>2, <1>3, <1>4, <1>5, Zenon

\* Appending to a sequence gives one that is not empty.
LEMMA AppendSeq ==
    ASSUME NEW p \in Seq(Nat), NEW x \in Nat
    PROVE  Append(p, x) \in Seq(Nat) /\ Append(p, x) # <<>>
BY AppendProperties

\* Appending to the end of a concatenation.
LEMMA AppendLast ==
    ASSUME NEW w \in Seq(Nat), NEW p \in Seq(Nat), NEW x \in Nat
    PROVE  w \o Append(p, x) = Append(w \o p, x)
<1>1. /\ Append(p, x) = p \o <<x>> /\ <<x>> \in Seq(Nat) /\ w \o p \in Seq(Nat)
  BY AppendIsConcat, ConcatProperties
<1>2. Append(w \o p, x) = (w \o p) \o <<x>>
  BY <1>1, AppendIsConcat
<1> QED  BY <1>1, <1>2, ConcatAssociative

-----------------------------------------------------------------------------
\* Renewing the registration leaves it as wanted.
LEMMA Renewed ==
    ASSUME Pty!update_interest, master'
    PROVE  /\ pty_interest' = Pty!wanted(pty_paused', pty_txbuf')
           /\ pty_interest' \subseteq {"READABLE", "WRITABLE"} /\ edges' \subseteq pty_interest'
BY DEF Pty!update_interest, Pty!wanted

\* Closing the PTY leaves nothing behind.
LEMMA Closed ==
    ASSUME PtyInv, Pty!close_pty, pty_paused' \in BOOLEAN, pty_ready' \subseteq {"READABLE", "WRITABLE"},
           UNCHANGED rx, Room \in Nat
    PROVE  PtyInv'
<1>1. pty_txbuf' \in Seq(Nat) /\ written' \in Seq(Nat) /\ room' \in 0..Room
  BY DEF Pty!close_pty
<1>2. rx' \in Nat /\ start' \in 0..rx'
  BY DEF Pty!close_pty, PtyInv, Pty!TypeOK
<1> QED  BY <1>1, <1>2, Zenon DEF Pty!close_pty, PtyInv, Pty!TypeOK

\* Writing to the PTY keeps the stream: what pending holds is all that was to
\* come after what was written.
LEMMA Drained ==
    ASSUME PtyInv, Room \in Nat, master, UNCHANGED <<master, pty_paused, start>>,
           NEW pending \in Seq(Nat), Pty!pty_drain(pending),
           pending = <<>> => pty_txbuf = <<>>,
           rx' \in Nat, rx <= rx', pty_input' \in BOOLEAN, pty_ready' \subseteq {"READABLE", "WRITABLE"},
           ~broken => written \o pending = From(start, rx')
    PROVE  PtyInv'
<1>0. /\ written \in Seq(Nat) /\ room \in 0..Room /\ start \in 0..rx /\ rx \in Nat /\ master' = TRUE
      /\ pty_interest = Pty!wanted(pty_paused, pty_txbuf) /\ edges \subseteq pty_interest
      /\ pty_interest \subseteq {"READABLE", "WRITABLE"} /\ pty_paused \in BOOLEAN /\ broken \in BOOLEAN
      /\ pty_txbuf \in Seq(Nat)
  BY DEF PtyInv, Pty!TypeOK
<1>1. start' \in 0..rx'
  BY <1>0
<1>2. CASE pending = <<>> /\ UNCHANGED <<pty_txbuf, room, written, broken, pty_interest, edges>>
  <2>1. ~broken' => written' \o pty_txbuf' = From(start', rx')
    BY <1>2, Zenon
  <2> QED  BY <1>0, <1>1, <1>2, <2>1 DEF PtyInv, Pty!TypeOK
<1>3. ASSUME NEW n \in {IF Len(pending) < room THEN Len(pending) ELSE room},
             pty_txbuf' = SubSeq(pending, n + 1, Len(pending)),
             written' = written \o SubSeq(pending, 1, n),
             room' = room - n, UNCHANGED broken, Pty!update_interest
      PROVE  PtyInv'
  <2>1. n \in 0..Len(pending) /\ room' \in 0..Room
    <3>1. Len(pending) \in Nat /\ room \in Nat
      BY <1>0, LenProperties
    <3>2. n \in Nat /\ n <= Len(pending) /\ n <= room
      BY <3>1
    <3> QED  BY <1>0, <1>3, <3>1, <3>2
  <2>2. written' \in Seq(Nat) /\ pty_txbuf' \in Seq(Nat) /\ written' \o pty_txbuf' = written \o pending
    BY <1>0, <1>3, <2>1, Cut, Zenon
  <2>3. /\ pty_interest' = Pty!wanted(pty_paused', pty_txbuf')
        /\ pty_interest' \subseteq {"READABLE", "WRITABLE"} /\ edges' \subseteq pty_interest'
    BY <1>0, <1>3, Renewed, SMTT(30)
  <2>4. ~broken' => written' \o pty_txbuf' = From(start', rx')
    BY <1>3, <2>2, Zenon
  <2> QED  BY <1>0, <1>1, <1>3, <2>1, <2>2, <2>3, <2>4, Zenon DEF PtyInv, Pty!TypeOK
<1>4. CASE pty_txbuf' = <<>> /\ broken' = TRUE /\ UNCHANGED <<written, room>> /\ Pty!update_interest
  <2>1. /\ pty_interest' = Pty!wanted(pty_paused', pty_txbuf')
        /\ pty_interest' \subseteq {"READABLE", "WRITABLE"} /\ edges' \subseteq pty_interest'
    BY <1>0, <1>4, Renewed
  <2>2. pty_txbuf' \in Seq(Nat)
    BY <1>4
  <2> QED  BY <1>0, <1>1, <1>4, <2>1, <2>2 DEF PtyInv, Pty!TypeOK
<1> QED  BY <1>2, <1>3, <1>4, Zenon DEF Pty!pty_drain

\* Every step keeps the invariant.
LEMMA PtyStep ==
    ASSUME Room \in Nat, PtyInv, [Pty!Next]_(Pty!vars)
    PROVE  PtyInv'
<1>0. /\ pty_paused \in BOOLEAN /\ pty_ready \subseteq {"READABLE", "WRITABLE"} /\ pty_input \in BOOLEAN
      /\ rx \in Nat /\ start \in 0..rx /\ pty_txbuf \in Seq(Nat) /\ written \in Seq(Nat)
      /\ room \in 0..Room /\ edges \subseteq pty_interest /\ pty_interest \subseteq {"READABLE", "WRITABLE"}
  BY DEF PtyInv, Pty!TypeOK
<1>1. CASE Pty!close_pty /\ pty_paused' \in BOOLEAN /\ pty_ready' \subseteq {"READABLE", "WRITABLE"} /\ UNCHANGED rx
  BY <1>1, Closed
<1>2. CASE Pty!open_pty /\ UNCHANGED <<pty_ready, rx>>
  <2>1. CASE UNCHANGED <<Pty!ptyVars, edges, pty_input, room, start, written, broken>>
    BY <1>2, <2>1 DEF Pty!ptyVars, PtyInv, Pty!TypeOK
  <2>2. CASE /\ ~master /\ master' = TRUE /\ room' = Room /\ start' = rx
             /\ UNCHANGED <<pty_txbuf, pty_paused, pty_input, written, broken>> /\ Pty!update_interest
    <3>1. /\ pty_interest' = Pty!wanted(pty_paused', pty_txbuf')
          /\ pty_interest' \subseteq {"READABLE", "WRITABLE"} /\ edges' \subseteq pty_interest'
      BY <2>2, Renewed
    <3>2. pty_txbuf' = <<>> /\ written' = <<>> /\ start' = rx /\ rx' = rx
      BY <1>2, <2>2 DEF PtyInv
    <3>3. <<>> \o <<>> = From(rx, rx)
      BY <1>0 DEF From
    <3>4. room' \in 0..Room /\ start' \in 0..rx'
      BY <1>0, <2>2, <3>2
    <3> QED  BY <1>0, <1>2, <2>2, <3>1, <3>2, <3>3, <3>4 DEF PtyInv, Pty!TypeOK
  <2> QED  BY <1>2, <2>1, <2>2, Zenon DEF Pty!open_pty
<1>3. CASE rx' = rx + 1 /\ master /\ UNCHANGED <<master, pty_paused, pty_input, pty_ready, start>>
           /\ Pty!pty_drain(Append(pty_txbuf, rx + 1))
  <2>1. Append(pty_txbuf, rx + 1) \in Seq(Nat) /\ Append(pty_txbuf, rx + 1) # <<>>
    <3>1. rx + 1 \in Nat
      BY <1>0
    <3> QED  BY <1>0, <3>1, AppendSeq, Zenon
  <2>2. ~broken => written \o Append(pty_txbuf, rx + 1) = From(start, rx + 1)
    <3>1. ~broken => written \o pty_txbuf = From(start, rx)
      BY <1>3 DEF PtyInv
    <3>2. written \o Append(pty_txbuf, rx + 1) = Append(written \o pty_txbuf, rx + 1)
      BY <1>0, AppendLast
    <3>3. Append(From(start, rx), rx + 1) = From(start, rx + 1)
      <4>1. start \in Nat /\ start <= rx
        BY <1>0
      <4> QED  BY <1>0, <4>1, FromNext, Zenon
    <3> QED  BY <3>1, <3>2, <3>3, Zenon
  <2>3. rx' \in Nat /\ rx <= rx' /\ pty_input' \in BOOLEAN /\ pty_ready' \subseteq {"READABLE", "WRITABLE"}
    BY <1>0, <1>3
  <2> QED  BY <1>3, <2>1, <2>2, <2>3, Drained, Zenon
<1>4. CASE rx' = rx + 1 /\ ~master /\ UNCHANGED <<Pty!ptyVars, edges, pty_input, room, written, broken, pty_ready, start>>
  BY <1>0, <1>4 DEF Pty!ptyVars, PtyInv, Pty!TypeOK
<1>5. CASE (Pty!pause_source_reads \/ Pty!resume_source_reads)
  <2>1. pty_paused' \in BOOLEAN /\ UNCHANGED <<master, pty_txbuf, pty_ready, pty_input, room, Pty!history>> /\ Pty!update_interest
    BY <1>5, Zenon DEF Pty!pause_source_reads, Pty!resume_source_reads
  <2>2. CASE master
    <3>1. /\ pty_interest' = Pty!wanted(pty_paused', pty_txbuf')
          /\ pty_interest' \subseteq {"READABLE", "WRITABLE"} /\ edges' \subseteq pty_interest'
      BY <2>1, <2>2, Renewed
    <3> QED  BY <2>1, <2>2, <3>1 DEF Pty!history, PtyInv, Pty!TypeOK
  <2>3. CASE ~master
    BY <2>1, <2>3, Zenon DEF Pty!update_interest, Pty!history, PtyInv, Pty!TypeOK
  <2> QED  BY <2>2, <2>3
<1>6. CASE Pty!poll
  <2>1. edges' \subseteq pty_interest' /\ pty_ready' \subseteq {"READABLE", "WRITABLE"}
    BY <1>0, <1>6 DEF Pty!poll
  <2> QED  BY <1>6, <2>1 DEF Pty!poll, Pty!ptyVars, Pty!history, PtyInv, Pty!TypeOK
<1>7. CASE Pty!handle_event
  <2>1. CASE master /\ "WRITABLE" \in pty_ready /\ Pty!pty_drain(pty_txbuf) /\ pty_ready' = {}
             /\ pty_input' = (pty_input /\ "READABLE" \notin pty_ready) /\ UNCHANGED <<master, pty_paused, rx, start>>
    <3>1. ~broken => written \o pty_txbuf = From(start, rx')
      BY <2>1 DEF PtyInv
    <3>2. rx' \in Nat /\ rx <= rx' /\ pty_input' \in BOOLEAN /\ pty_ready' \subseteq {"READABLE", "WRITABLE"}
      BY <1>0, <2>1
    <3> QED  BY <1>0, <2>1, <3>1, <3>2, Drained, Zenon
  <2>2. CASE /\ master /\ pty_ready' = {} /\ pty_input' = (pty_input /\ "READABLE" \notin pty_ready)
             /\ UNCHANGED <<master, pty_paused, rx, start>>
             /\ UNCHANGED <<pty_txbuf, room, written, broken, pty_interest, edges>>
    BY <1>0, <2>2 DEF PtyInv, Pty!TypeOK
  <2>3. CASE pty_ready' = {} /\ UNCHANGED <<Pty!ptyVars, edges, pty_input, room, Pty!history>>
    BY <2>3 DEF Pty!ptyVars, Pty!history, PtyInv, Pty!TypeOK
  <2> QED  BY <1>0, <1>1, <1>7, <2>1, <2>2, <2>3 DEF Pty!handle_event
<1>8. CASE Pty!Writes
  BY <1>0, <1>8 DEF Pty!Writes, Pty!ptyVars, Pty!history, PtyInv, Pty!TypeOK
<1>9. CASE Pty!Reads
  <2>1. edges' \subseteq pty_interest' /\ room' \in 0..Room
    BY <1>0, <1>9 DEF Pty!Reads, Pty!ptyVars
  <2> QED  BY <1>9, <2>1 DEF Pty!Reads, Pty!ptyVars, Pty!history, PtyInv, Pty!TypeOK
<1>10. CASE UNCHANGED Pty!vars
  BY <1>10 DEF Pty!vars, Pty!ptyVars, Pty!envVars, Pty!history, PtyInv, Pty!TypeOK
<1>11. CASE Pty!on_frame
  <2>1. CASE Pty!close_pty /\ UNCHANGED <<pty_paused, pty_ready, rx>>
    BY <1>0, <1>1, <2>1
  <2>2. CASE Pty!open_pty /\ UNCHANGED <<pty_ready, rx>>
    BY <1>2, <2>2
  <2>3. CASE /\ rx' = rx + 1 /\ UNCHANGED <<pty_ready, start>>
             /\ IF master THEN UNCHANGED <<master, pty_paused, pty_input>> /\ Pty!pty_drain(Append(pty_txbuf, rx + 1))
                ELSE UNCHANGED <<Pty!ptyVars, edges, pty_input, room, written, broken>>
    BY <1>3, <1>4, <2>3
  <2> QED  BY <1>11, <2>1, <2>2, <2>3 DEF Pty!on_frame
<1>12. CASE Pty!on_link_connect \/ Pty!on_link_disconnect
  BY <1>0, <1>1, <1>12, Zenon DEF Pty!on_link_connect, Pty!on_link_disconnect
<1> QED  BY <1>5, <1>6, <1>7, <1>8, <1>9, <1>10, <1>11, <1>12 DEF Pty!Next

\* The PTY is closed at first.
LEMMA PtyStart == Room \in Nat /\ Pty!Init => PtyInv
<1> SUFFICES ASSUME Room \in Nat, Pty!Init PROVE PtyInv
  OBVIOUS
<1>1. pty_txbuf \in Seq(Nat) /\ written \in Seq(Nat) /\ room \in 0..Room /\ rx \in Nat /\ start \in 0..rx
  BY DEF Pty!Init
<1> QED  BY <1>1, Zenon DEF Pty!Init, PtyInv, Pty!TypeOK

-----------------------------------------------------------------------------
\* The invariant, for the host's end alone and for either end.
LEMMA PtyAlways == Pty!Spec => []PtyInv
<1>1. Pty!Init => PtyInv
  BY PtyStart, RoomAssumption
<1>2. PtyInv /\ [Pty!Next]_(Pty!vars) => PtyInv'
  BY PtyStep, RoomAssumption
<1> QED  BY <1>1, <1>2, PTL DEF Pty!Spec

\* The invariant of the PTY channel, in a behaviour of either end.
LEMMA EitherAlways == EitherSpec => []PtyInv
<1>1. EitherInit => PtyInv
  BY PtyStart, RoomAssumption DEF EitherInit
<1>2. PtyInv /\ [EitherNext]_<<side, vars, ptyVars>> => PtyInv'
  <2> SUFFICES ASSUME PtyInv, [EitherNext]_<<side, vars, ptyVars>> PROVE PtyInv'
    OBVIOUS
  <2>1. [Pty!Next]_(Pty!vars)
    BY DEF EitherNext, ptyVars, Pty!vars, Pty!ptyVars, Pty!envVars, Pty!history
  <2> QED  BY <2>1, PtyStep, RoomAssumption
<1> QED  BY <1>1, <1>2, PTL DEF EitherSpec

\* Each opening of the PTY is fed exactly what the link brought since then, in
\* order, however often the channel is closed, paused or written in part
\* (on_frame, pty_drain, close_pty).
THEOREM StreamIsExact == EitherSpec => []PtyStream
<1>1. PtyInv => PtyStream
  BY DEF PtyInv, PtyStream, Pty!PtyStream, From
<1> QED  BY <1>1, EitherAlways, PTL

\* The registration of the PTY with epoll is what the channel's state calls
\* for, however often it is paused, closed and opened anew (update_interest).
THEOREM RegistrationMatches == Pty!Spec => []Pty!InterestMatches
<1>1. PtyInv => Pty!InterestMatches
  BY DEF PtyInv, Pty!InterestMatches, Pty!wanted
<1> QED  BY <1>1, PtyAlways, PTL
=============================================================================
