------------------------------- MODULE Relay --------------------------------
(***************************************************************************)
(* The transparent relay of windlass-bridge (windlass/exporter.rs and      *)
(* host.rs): tokio tasks joined by unbounded queues.  On the exporter two  *)
(* tasks per UART, on the host an accept loop per Unix socket and two      *)
(* tasks per connection; on each side one task writes the USB link and the *)
(* main loop reads and routes it.  One step of a task is one message; the  *)
(* tasks run on several threads, so steps interleave freely.               *)
(*                                                                         *)
(* A frame is named by its channel, the connection it was read from (0 for *)
(* the MCU) and its number there.  KlipperFramer yields nothing before it  *)
(* is in sync, so a reader may lose the frames at the start of its stream; *)
(* the codecs themselves are in Decoders.  AsyncSerial reports no end of   *)
(* file, so the `None` arms of the readers of a serial device never run.   *)
(***************************************************************************)
EXTENDS Naturals, Sequences, Functions

CONSTANTS Uarts, Sockets,   \* the ch_ids given to the exporter and to the host
          MaxConns,         \* bound: connections per socket
          MaxMcu,           \* bound: frames from an MCU
          MaxCmds,          \* bound: frames from a client
          MaxFaults         \* bound: I/O errors and exits

ASSUME RelayBounds == {MaxConns, MaxMcu, MaxCmds, MaxFaults} \subseteq Nat

Sides == {"exporter", "host"}
Peer(s) == IF s = "exporter" THEN "host" ELSE "exporter"
Conns == 1..MaxConns

Frame(ch, conn, n) == [ch |-> ch, conn |-> conn, n |-> n]

VARIABLES
    running,      \* side -> the process is running
    usb_q,        \* side -> usb_tx/usb_rx, or what is left of it
    usb_writer,   \* side -> the USB writer task runs
    wire,         \* side -> frames written to the link, not yet read by the peer
    torn,         \* side -> TunnelCodec may hold part of a frame that never ends
    uart_reader,  \* ch -> the UART -> USB task runs
    uart_synced,  \* ch -> its KlipperFramer is in sync
    uart_writer,  \* ch -> the USB -> UART task runs
    uart_q,       \* ch -> uart_write_tx
    serving,      \* ch -> the connection handle_klipper_connection is in, or 0
    slot,         \* ch -> the connection klipper_tx_slot sends to, or 0
    conns,        \* ch -> connection -> its two tasks and queues
    faults,
    \* history
    mcu_sent,     \* ch -> frames the MCU has sent
    arrived,      \* ch -> the latest frame of the MCU the host has read, or 0
    lost,         \* frames that were dropped on their way to the peer's main loop
    uart_out      \* ch -> frames written to the UART

exporterVars == <<uart_reader, uart_synced, uart_writer, uart_q>>
hostVars == <<serving, slot, conns>>
usbVars == <<usb_q, usb_writer, wire, torn>>
history == <<mcu_sent, arrived, lost, uart_out>>
vars == <<running, usbVars, exporterVars, hostVars, faults, history>>

\* peer: the client's end of the socket.  reader, writer: the tasks socket ->
\* USB and USB -> socket.  klipper_q: the queue of the latter.  unread: what
\* the client has written, got: what was written to it, seen: the frame that
\* had arrived last when it was accepted, broke: a write to it failed.
NoConn == [peer |-> "none", reader |-> "none", writer |-> "none", synced |-> FALSE,
           klipper_q |-> <<>>, unread |-> <<>>, sent |-> 0, got |-> <<>>, seen |-> 0,
           broke |-> FALSE]

Init ==
    /\ running = [s \in Sides |-> TRUE]
    /\ usb_q = [s \in Sides |-> <<>>]
    /\ usb_writer = [s \in Sides |-> TRUE]
    /\ wire = [s \in Sides |-> <<>>]
    /\ torn = [s \in Sides |-> FALSE]
    /\ uart_reader = [ch \in Uarts |-> TRUE]
    /\ uart_synced = [ch \in Uarts |-> FALSE]
    /\ uart_writer = [ch \in Uarts |-> TRUE]
    /\ uart_q = [ch \in Uarts |-> <<>>]
    /\ serving = [ch \in Sockets |-> 0]
    /\ slot = [ch \in Sockets |-> 0]
    /\ conns = [ch \in Sockets |-> [c \in Conns |-> NoConn]]
    /\ faults = 0
    /\ mcu_sent = [ch \in Uarts |-> 0]
    /\ arrived = [ch \in Sockets |-> 0]
    /\ lost = {}
    /\ uart_out = [ch \in Uarts |-> <<>>]

Fault ==
    /\ faults < MaxFaults
    /\ faults' = faults + 1

-----------------------------------------------------------------------------
\* The USB link, on either side.

\* usb_tx.send: fails once the writer task is gone.
send_usb(s, f) ==
    IF usb_writer[s]
    THEN usb_q' = [usb_q EXCEPT ![s] = Append(@, f)] /\ UNCHANGED lost
    ELSE lost' = lost \cup {f} /\ UNCHANGED usb_q

usb_write(s) ==
    /\ running[s]
    /\ usb_writer[s]
    /\ usb_q[s] # <<>>
    /\ usb_q' = [usb_q EXCEPT ![s] = Tail(@)]
    /\ wire' = [wire EXCEPT ![s] = Append(@, Head(usb_q[s]))]
    /\ UNCHANGED <<running, usb_writer, torn, exporterVars, hostVars, faults, history>>

\* A write error ends the writer task, and only it; usb_rx goes with it.
usb_write_error(s) ==
    /\ running[s]
    /\ usb_writer[s]
    /\ usb_q[s] # <<>>
    /\ Fault
    /\ usb_writer' = [usb_writer EXCEPT ![s] = FALSE]
    /\ usb_q' = [usb_q EXCEPT ![s] = <<>>]
    /\ lost' = lost \cup Range(usb_q[s])
    /\ torn' = [torn EXCEPT ![Peer(s)] = TRUE]
    /\ UNCHANGED <<running, wire, exporterVars, hostVars, mcu_sent, arrived, uart_out>>

\* The main loop of run_exporter: a frame of an unknown channel is dropped, as
\* is one whose UART task has ended.
route_to_uart(f) ==
    uart_q' = IF f.ch \in Uarts /\ uart_writer[f.ch]
              THEN [uart_q EXCEPT ![f.ch] = Append(@, f)] ELSE uart_q

\* TunnelCodec with part of a frame in its buffer may take the next frames for
\* the rest of it, until it finds a frame again.  (What it makes of such bytes
\* carries no valid CRC; Klipper drops it, so here it is lost.)
swallowed(s, f) ==
    /\ torn[s]
    /\ lost' = lost \cup {f}
    /\ UNCHANGED torn

found(s) == torn' = [torn EXCEPT ![s] = FALSE]

exporter_usb_read ==
    /\ running["exporter"]
    /\ wire["host"] # <<>>
    /\ wire' = [wire EXCEPT !["host"] = Tail(@)]
    /\ LET f == Head(wire["host"])
       IN  \/ found("exporter") /\ route_to_uart(f) /\ UNCHANGED lost
           \/ swallowed("exporter", f) /\ UNCHANGED uart_q
    /\ UNCHANGED <<running, usb_q, usb_writer, uart_reader, uart_synced, uart_writer,
                   hostVars, faults, mcu_sent, arrived, uart_out>>

\* Faulty variant: the demux gives a frame up when the slot is locked.
route_to_client_try_lock(f) ==
    \/ UNCHANGED conns
    \/ /\ f.ch \in Sockets /\ slot[f.ch] # 0 /\ conns[f.ch][slot[f.ch]].writer = "run"
       /\ conns' = [conns EXCEPT ![f.ch][slot[f.ch]].klipper_q = Append(@, f)]

\* The main loop of run_host: the frame goes to the sender in the slot; it is
\* dropped if there is none, or if that connection's writer has ended.
route_to_client(f) ==
    conns' = IF f.ch \in Sockets /\ slot[f.ch] # 0 /\ conns[f.ch][slot[f.ch]].writer = "run"
             THEN [conns EXCEPT ![f.ch][slot[f.ch]].klipper_q = Append(@, f)]
             ELSE conns

host_usb_read ==
    /\ running["host"]
    /\ wire["exporter"] # <<>>
    /\ wire' = [wire EXCEPT !["exporter"] = Tail(@)]
    /\ LET f == Head(wire["exporter"])
       IN  \/ /\ found("host")
              /\ route_to_client(f)
              /\ arrived' = [ch \in Sockets |-> IF ch = f.ch THEN f.n ELSE arrived[ch]]
              /\ UNCHANGED lost
           \/ swallowed("host", f) /\ UNCHANGED <<conns, arrived>>
    /\ UNCHANGED <<running, usb_q, usb_writer, exporterVars, serving, slot, faults,
                   mcu_sent, uart_out>>

-----------------------------------------------------------------------------
\* The exporter's tasks.

\* Task UART -> USB: one frame of the MCU.  The framer is unsynced until it
\* has passed a sync byte; a failed send ends the task.
uart_to_usb(ch) ==
    /\ running["exporter"]
    /\ uart_reader[ch]
    /\ mcu_sent[ch] < MaxMcu
    /\ mcu_sent' = [mcu_sent EXCEPT ![ch] = @ + 1]
    /\ LET f == Frame(ch, 0, mcu_sent[ch] + 1)
       IN  \/ /\ uart_synced' = [uart_synced EXCEPT ![ch] = TRUE]
              /\ send_usb("exporter", f)
              /\ uart_reader' = [uart_reader EXCEPT ![ch] = usb_writer["exporter"]]
           \/ /\ ~uart_synced[ch]
              /\ lost' = lost \cup {f}
              /\ UNCHANGED <<uart_synced, usb_q, uart_reader>>
    /\ UNCHANGED <<running, usb_writer, wire, torn, uart_writer, uart_q, hostVars, faults,
                   arrived, uart_out>>

uart_read_error(ch) ==
    /\ running["exporter"]
    /\ uart_reader[ch]
    /\ Fault
    /\ uart_reader' = [uart_reader EXCEPT ![ch] = FALSE]
    /\ UNCHANGED <<running, usbVars, uart_synced, uart_writer, uart_q, hostVars, history>>

\* Task USB -> UART.
usb_to_uart(ch) ==
    /\ running["exporter"]
    /\ uart_writer[ch]
    /\ uart_q[ch] # <<>>
    /\ uart_q' = [uart_q EXCEPT ![ch] = Tail(@)]
    /\ uart_out' = [uart_out EXCEPT ![ch] = Append(@, Head(uart_q[ch]))]
    /\ UNCHANGED <<running, usbVars, uart_reader, uart_synced, uart_writer, hostVars,
                   faults, mcu_sent, arrived, lost>>

uart_write_error(ch) ==
    /\ running["exporter"]
    /\ uart_writer[ch]
    /\ uart_q[ch] # <<>>
    /\ Fault
    /\ uart_writer' = [uart_writer EXCEPT ![ch] = FALSE]
    /\ uart_q' = [uart_q EXCEPT ![ch] = <<>>]
    /\ UNCHANGED <<running, usbVars, uart_reader, uart_synced, hostVars, history>>

-----------------------------------------------------------------------------
\* The host's tasks, and the clients of its sockets.  The one client of a
\* socket is Klipper, which connects again after it has disconnected.
Conn(ch, c, r) == conns' = [conns EXCEPT ![ch][c] = r]

Connects(ch, c) ==
    /\ running["host"]
    /\ conns[ch][c].peer = "none"
    /\ c > 1 => conns[ch][c - 1].peer = "closed"
    /\ Conn(ch, c, [NoConn EXCEPT !.peer = "open"])
    /\ UNCHANGED <<running, usbVars, exporterVars, serving, slot, faults, history>>

Sends(ch, c) ==
    LET r == conns[ch][c]
    IN  /\ r.peer = "open"
        /\ r.sent < MaxCmds
        /\ Conn(ch, c, [r EXCEPT !.sent = @ + 1,
                                 !.unread = Append(@, Frame(ch, c, r.sent + 1))])
        /\ UNCHANGED <<running, usbVars, exporterVars, serving, slot, faults, history>>

Disconnects(ch, c) ==
    /\ conns[ch][c].peer = "open"
    /\ Conn(ch, c, [conns[ch][c] EXCEPT !.peer = "closed"])
    /\ UNCHANGED <<running, usbVars, exporterVars, serving, slot, faults, history>>

\* Faulty variant: the accept loop does not wait for the connection to end.
free_always(ch) == TRUE

\* The accept loop awaits handle_klipper_connection.
free(ch) == serving[ch] = 0

\* listener.accept and the start of handle_klipper_connection: the sender goes
\* into the slot and both tasks are spawned.
accept(ch, c) ==
    /\ running["host"]
    /\ free(ch)
    /\ conns[ch][c].peer # "none"
    /\ conns[ch][c].reader = "none"
    /\ \A d \in 1..(c - 1) : conns[ch][d].reader # "none"
    /\ serving' = [serving EXCEPT ![ch] = c]
    /\ slot' = [slot EXCEPT ![ch] = c]
    /\ Conn(ch, c, [conns[ch][c] EXCEPT !.reader = "run", !.writer = "run",
                                         !.seen = arrived[ch]])
    /\ UNCHANGED <<running, usbVars, exporterVars, faults, history>>

\* Task socket -> USB: a frame, with the framer's loss at the start; a failed
\* send ends the task.
sock_to_usb(ch, c) ==
    LET r == conns[ch][c]
        rest == [r EXCEPT !.unread = Tail(@)]
    IN  /\ running["host"]
        /\ r.reader = "run"
        /\ r.unread # <<>>
        /\ \/ /\ send_usb("host", Head(r.unread))
              /\ Conn(ch, c, [rest EXCEPT !.synced = TRUE,
                                          !.reader = IF usb_writer["host"] THEN "run" ELSE "done"])
           \/ /\ ~r.synced
              /\ Conn(ch, c, rest)
              /\ UNCHANGED <<usb_q, lost>>
        /\ UNCHANGED <<running, usb_writer, wire, torn, exporterVars, serving, slot, faults,
                       mcu_sent, arrived, uart_out>>

\* The client is gone: end of file, or a read error that loses what was unread.
sock_read_end(ch, c) ==
    /\ running["host"]
    /\ conns[ch][c].reader = "run"
    /\ conns[ch][c].peer = "closed"
    /\ Conn(ch, c, [conns[ch][c] EXCEPT !.reader = "done", !.unread = <<>>])
    /\ UNCHANGED <<running, usbVars, exporterVars, serving, slot, faults, history>>

\* Task USB -> socket: a frame is written, or the write fails because the
\* client is gone.
usb_to_sock(ch, c) ==
    LET r == conns[ch][c]
    IN  /\ running["host"]
        /\ r.writer = "run"
        /\ r.klipper_q # <<>>
        /\ Conn(ch, c, IF r.peer = "open"
                       THEN [r EXCEPT !.got = Append(@, Head(r.klipper_q)), !.klipper_q = Tail(@)]
                       ELSE [r EXCEPT !.writer = "done", !.klipper_q = <<>>, !.broke = TRUE])
        /\ UNCHANGED <<running, usbVars, exporterVars, serving, slot, faults, history>>

\* klipper_rx.recv() returns None: the queue is empty and its sender dropped.
usb_to_sock_end(ch, c) ==
    /\ running["host"]
    /\ conns[ch][c].writer = "run"
    /\ conns[ch][c].klipper_q = <<>>
    /\ slot[ch] # c
    /\ Conn(ch, c, [conns[ch][c] EXCEPT !.writer = "done"])
    /\ UNCHANGED <<running, usbVars, exporterVars, serving, slot, faults, history>>

\* Faulty variant: both tasks are waited for.
over_both(ch, c) == conns[ch][c].reader = "done" /\ conns[ch][c].writer = "done"

\* select! returns when either task has ended.
over(ch, c) == conns[ch][c].reader = "done" \/ conns[ch][c].writer = "done"

\* Faulty variant: the sender stays in the slot.
cleared_not(ch) == slot

cleared(ch) == [slot EXCEPT ![ch] = 0]

\* The end of handle_klipper_connection: the slot is cleared, and a task that
\* has not ended runs on.
connection_over(ch) ==
    LET c == serving[ch]
    IN  /\ running["host"]
        /\ c # 0
        /\ over(ch, c)
        /\ slot' = cleared(ch)
        /\ serving' = [serving EXCEPT ![ch] = 0]
        /\ UNCHANGED <<running, usbVars, exporterVars, conns, faults, history>>

-----------------------------------------------------------------------------
\* A read error on the link ends the main loop, so the process, and with it
\* every task and socket.
Exit(s) ==
    /\ running[s]
    /\ Fault
    /\ running' = [running EXCEPT ![s] = FALSE]
    /\ usb_q' = [usb_q EXCEPT ![s] = <<>>]
    /\ lost' = lost \cup Range(usb_q[s])
    /\ IF s = "exporter"
       THEN uart_q' = [ch \in Uarts |-> <<>>] /\ UNCHANGED hostVars
       ELSE /\ serving' = [ch \in Sockets |-> 0]
            /\ slot' = [ch \in Sockets |-> 0]
            /\ conns' = [ch \in Sockets |-> [c \in Conns |->
                 IF conns[ch][c].peer = "none" THEN NoConn
                 ELSE [conns[ch][c] EXCEPT !.peer = "closed", !.reader = "done",
                                           !.writer = "done", !.klipper_q = <<>>, !.unread = <<>>]]]
            /\ UNCHANGED uart_q
    /\ torn' = [torn EXCEPT ![s] = FALSE, ![Peer(s)] = @ \/ usb_q[s] # <<>>]
    /\ UNCHANGED <<usb_writer, wire, uart_reader, uart_synced, uart_writer,
                   mcu_sent, arrived, uart_out>>

\* The process is started again.  open_serial discards the input that is
\* waiting (TCSAFLUSH).
Start(s) ==
    /\ ~running[s]
    /\ running' = [running EXCEPT ![s] = TRUE]
    /\ usb_writer' = [usb_writer EXCEPT ![s] = TRUE]
    /\ \E k \in 0..Len(wire[Peer(s)]) :
          /\ wire' = [wire EXCEPT ![Peer(s)] = SubSeq(@, k + 1, Len(@))]
          /\ lost' = lost \cup Range(SubSeq(wire[Peer(s)], 1, k))
          /\ torn' = [torn EXCEPT ![s] = k > 0]
    /\ IF s = "exporter"
       THEN /\ uart_reader' = [ch \in Uarts |-> TRUE]
            /\ uart_synced' = [ch \in Uarts |-> FALSE]
            /\ uart_writer' = [ch \in Uarts |-> TRUE]
       ELSE UNCHANGED <<uart_reader, uart_synced, uart_writer>>
    /\ UNCHANGED <<usb_q, uart_q, hostVars, faults, mcu_sent, arrived, uart_out>>

Client(ch, c) == Connects(ch, c) \/ Sends(ch, c) \/ Disconnects(ch, c)
Task(ch, c) ==
    \/ accept(ch, c) \/ sock_to_usb(ch, c) \/ sock_read_end(ch, c)
    \/ usb_to_sock(ch, c) \/ usb_to_sock_end(ch, c)

Next ==
    \/ \E s \in Sides : usb_write(s) \/ usb_write_error(s) \/ Exit(s) \/ Start(s)
    \/ exporter_usb_read
    \/ host_usb_read
    \/ \E ch \in Uarts : \/ uart_to_usb(ch) \/ uart_read_error(ch)
                         \/ usb_to_uart(ch) \/ uart_write_error(ch)
    \/ \E ch \in Sockets : connection_over(ch) \/ \E c \in Conns : Client(ch, c) \/ Task(ch, c)

Spec == Init /\ [][Next]_vars

\* tokio polls every task that has work.
FairSpec ==
    /\ Spec
    /\ \A s \in Sides : WF_vars(usb_write(s))
    /\ WF_vars(exporter_usb_read) /\ WF_vars(host_usb_read)
    /\ \A ch \in Uarts : WF_vars(usb_to_uart(ch))
    /\ \A ch \in Sockets :
          /\ WF_vars(connection_over(ch))
          /\ \A c \in Conns : WF_vars(Task(ch, c))

-----------------------------------------------------------------------------
\* A client is given every frame of its own MCU that arrives while it is
\* served, in order (run_host's demux, usb_to_sock), whatever connections came
\* before and whichever task ends first: a number is missing only where the
\* frame never arrived.
ClientStream ==
    \A ch \in Sockets, c \in Conns :
       LET r == conns[ch][c]
           s == <<Frame(ch, 0, r.seen)>> \o r.got \o r.klipper_q
       IN  /\ \A i \in 2..Len(s) :
                /\ s[i].ch = ch /\ s[i].conn = 0 /\ s[i].n > s[i - 1].n
                /\ \A n \in (s[i - 1].n + 1)..(s[i].n - 1) : Frame(ch, 0, n) \in lost
           /\ slot[ch] = c /\ r.writer = "run" => s[Len(s)].n = arrived[ch]

\* "Clear the sender slot so the USB demux stops routing to the old client": no
\* frame is queued for a connection that is no longer served.
OldClientQuiet ==
    [][\A ch \in Sockets, c \in Conns :
          Len(conns'[ch][c].klipper_q) > Len(conns[ch][c].klipper_q) => c = serving[ch]]_vars

\* What reaches a UART.  Commands of one connection keep their order; those of
\* an old connection come after those of a newer one only if the old
\* connection was given up because a write to it failed, when its reader is
\* left running (handle_klipper_connection's select!).
CommandOrder ==
    \A ch \in Uarts \cap Sockets :
       \A j \in DOMAIN uart_out[ch] : \A i \in 1..(j - 1) :
          LET a == uart_out[ch][i]
              b == uart_out[ch][j]
          IN  /\ a.conn = b.conn => a.n < b.n
              /\ a.conn > b.conn => conns[ch][b.conn].broke

\* No task outlives its client for ever: when Klipper has disconnected, both
\* tasks of the connection end, whichever notices first.
TasksEnd ==
    \A ch \in Sockets, c \in Conns :
       conns[ch][c].peer = "closed" ~> conns[ch][c].reader = "done" /\ conns[ch][c].writer = "done"
=============================================================================
