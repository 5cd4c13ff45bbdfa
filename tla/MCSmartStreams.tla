--------------------------- MODULE MCSmartStreams ---------------------------
(***************************************************************************)
(* Two instances of SmartProxy for the order of what it relays: one MCU    *)
(* with two payloads, two commands of each of two successive clients and a *)
(* fault or a second connection; and two MCUs with a client each, without  *)
(* faults.                                                                 *)
(***************************************************************************)
EXTENDS Naturals

CONSTANT None

VARIABLES mcus, process, booted, firmware, usb_q, usb_writer, wire, aligned, mcu_task,
          cmd_task, uart_cmd, ctrl_q, dicts, published, dictionary, serving, slot, conns,
          faults, mcu_sent, arrived, lost, mcu_got, torn, garbled, junk

One == INSTANCE SmartProxy WITH
         NumUarts <- 1, Sockets <- {0}, DictLen <- 1, DICT_FRAG_MAX <- 1, Count <- 1,
         MaxFirmware <- 1, MaxConns <- 2, MaxMcu <- 2, MaxCmds <- 2, MaxJunk <- 0, MaxTurns <- 1

Two == INSTANCE SmartProxy WITH
         NumUarts <- 2, Sockets <- {0, 1}, DictLen <- 1, DICT_FRAG_MAX <- 1, Count <- 1,
         MaxFirmware <- 1, MaxConns <- 1, MaxMcu <- 1, MaxCmds <- 1, MaxJunk <- 0, MaxTurns <- 0

StreamsInit ==
    \/ mcus = 1 /\ One!Init
    \/ mcus = 2 /\ Two!Init

StreamsNext ==
    /\ UNCHANGED mcus
    /\ \/ mcus = 1 /\ One!Next
       \/ mcus = 2 /\ Two!Next

StreamsSpec == StreamsInit /\ [][StreamsNext]_<<mcus, One!vars>>

\* The properties of SmartProxy: a client is given every payload of its own MCU
\* that arrives while it is served, in order (the demux, the relay loop,
\* write_task); the commands of a connection reach its MCU in order, none of
\* them twice, and none is lost but with a task or a process (dispatch_raw,
\* cmd_fwd_task, the exporter's demux).
ClientStream == IF mcus = 1 THEN One!ClientStream ELSE Two!ClientStream
CommandOrder == IF mcus = 1 THEN One!CommandOrder ELSE Two!CommandOrder
=============================================================================
