------------------------------ MODULE MCSerial ------------------------------
(***************************************************************************)
(* The two ends of a serial channel, each in its own environment: a run is *)
(* one of McuChannel on the exporter or one of PtyChannel on the host.     *)
(***************************************************************************)
EXTENDS McuChannel

CONSTANTS Room, MaxRx

ASSUME RoomAssumption == Room \in Nat

VARIABLES side, master, pty_interest, pty_txbuf, pty_paused, edges, pty_ready,
          pty_input, room, rx, start, written, broken

Pty == INSTANCE PtyChannel WITH
         interest <- pty_interest, txbuf <- pty_txbuf, bp_paused <- pty_paused,
         ready <- pty_ready, input <- pty_input

ptyVars == <<master, pty_interest, pty_txbuf, pty_paused, edges, pty_ready, pty_input,
             room, rx, start, written, broken>>

EitherInit ==
    /\ side \in {"exporter", "host"}
    /\ Init
    /\ Pty!Init

EitherNext ==
    \/ side = "exporter" /\ Next /\ UNCHANGED <<side, ptyVars>>
    \/ side = "host" /\ Pty!Next /\ UNCHANGED <<side, vars>>

EitherSpec == EitherInit /\ [][EitherNext]_<<side, vars, ptyVars>> /\ Pty!Fairness

\* The properties of PtyChannel: each opening of the PTY is fed what the link
\* brought since then (on_frame, pty_drain, close_pty); whatever waits on
\* either side of the PTY is passed on (handle_event, update_interest).
PtyStream == Pty!PtyStream
PtyServes == Pty!PtyServes
=============================================================================
