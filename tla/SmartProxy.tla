----------------------------- MODULE SmartProxy -----------------------------
(***************************************************************************)
(* The smart proxy of windlass-bridge (windlass/smart_exporter.rs and      *)
(* smart_host.rs).  The exporter fetches the dictionary of each MCU and    *)
(* sends it once, in fragments, over the control channel; the host gathers *)
(* it, and from then on answers Klipper's `identify` itself and relays all *)
(* other payloads.  As in Relay a step is one message of one tokio task.   *)
(*                                                                         *)
(* The transports of the crates windlass and anchor are external: a        *)
(* payload goes in on one side and comes out on the other.  A payload is   *)
(* its number; a byte of a dictionary is its channel, its firmware and its *)
(* position.                                                               *)
(***************************************************************************)
EXTENDS Naturals, Sequences, FiniteSets, Functions

CONSTANTS NumUarts,       \* the exporter's channels are 0 .. NumUarts - 1
          Sockets,        \* the host's channels
          DictLen,        \* bytes of a dictionary
          DICT_FRAG_MAX,
          Count,          \* bytes Klipper asks for in one identify
          MaxFirmware,    \* bound: firmware versions
          MaxConns,       \* bound: connections per socket
          MaxMcu,         \* bound: payloads of an MCU
          MaxCmds,        \* bound: commands of a client
          MaxJunk,        \* bound: made-up frames of a known channel
          MaxTurns,       \* bound: I/O errors, exits, and connections after the first
          None            \* a dictionary that has not arrived

Uarts == 0..(NumUarts - 1)
ChIds == 0..NumUarts      \* with one that neither side has configured
Sides == {"exporter", "host"}
Peer(s) == IF s = "exporter" THEN "host" ELSE "exporter"
Conns == 1..MaxConns

ASSUME DictAssumption == DictLen \in Nat /\ DICT_FRAG_MAX \in Nat \ {0} /\ Count \in Nat \ {0}
ASSUME ProxyAssumption == NumUarts \in Nat /\ Sockets \subseteq Uarts
ASSUME ProxyBounds == {MaxFirmware, MaxConns, MaxMcu, MaxCmds, MaxJunk, MaxTurns} \subseteq Nat

Dictionary(ch, v) == [i \in 1..DictLen |-> <<ch, v, i>>]

\* PayloadTunnelFrame: ctrl frames have ch_id CTRL_CH on the wire and name the
\* MCU's channel inside.
Frame(kind, ch, conn, data) == [kind |-> kind, ch |-> ch, conn |-> conn, data |-> data]
DICT_FRAG(ch, bytes) == Frame("CTRL_DICT_FRAG", ch, 0, bytes)
DICT_DONE(ch) == Frame("CTRL_DICT_DONE", ch, 0, <<>>)
Payload(ch, conn, n) == Frame("payload", ch, conn, <<n>>)
Control(f) == f.kind # "payload"

VARIABLES
    process,      \* side -> "down", "boot" (exporter only) or "run"
    booted,       \* channels the exporter has set up
    firmware,     \* ch -> the version the MCU runs
    usb_q,        \* side -> the queue of the USB writer
    usb_writer,   \* side -> whether sends to that queue succeed
    wire,         \* side -> frames written to the link, not yet read by the peer
    aligned,      \* side -> its PayloadTunnelCodec is at a frame boundary
    mcu_task,     \* ch -> the MCU -> USB task runs
    cmd_task,     \* ch -> the USB -> MCU task runs
    uart_cmd,     \* ch -> its queue
    ctrl_q,       \* ctrl_tx, to gather_dictionary
    dicts,        \* ch -> bytes gathered, none for a channel not in the map
    published,    \* ch -> the watch channel of the dictionary
    dictionary,   \* ch -> what the accept task took from it, or None
    serving,      \* ch -> the connection of handle_klipper_smart_connection, or 0
    slot,         \* ch -> the connection mcu_payload_slot sends to, or 0
    conns,        \* ch -> connection -> its tasks and queues, and its client
    faults,
    \* history
    mcu_sent,     \* ch -> payloads of the MCU
    arrived,      \* ch -> the latest payload of the MCU the host has read, or 0
    lost,         \* payloads dropped on their way to the peer's tasks
    mcu_got,      \* ch -> commands sent to the MCU
    torn,         \* ch -> a process ended or started during the transfer
    garbled,      \* a decoder has been off a frame boundary
    junk          \* frames of a known channel it made up

usbVars == <<usb_q, usb_writer, wire, aligned>>
exporterVars == <<booted, firmware, mcu_task, cmd_task, uart_cmd>>
dictVars == <<ctrl_q, dicts, published, dictionary>>
connVars == <<serving, slot, conns>>
history == <<mcu_sent, arrived, lost, mcu_got, torn, garbled, junk>>
vars == <<process, usbVars, exporterVars, dictVars, connVars, faults, history>>

\* relay: the relay loop; fwd: cmd_fwd_task; writer: write_task.
\* The client: what it has written, the dictionary it is fetching, whether an
\* identify is unanswered, whether it has the whole dictionary.
NoConn == [peer |-> "none", relay |-> "none", fwd |-> "none", writer |-> "none",
           from_mcu |-> <<>>, to_exporter |-> <<>>, to_klipper |-> <<>>,
           unread |-> <<>>, fetched |-> <<>>, asking |-> FALSE, complete |-> FALSE,
           sent |-> 0, got |-> <<>>, seen |-> 0]

\* A connection that is over; what its client was given is forgotten.
Ended == [NoConn EXCEPT !.peer = "closed", !.relay = "done", !.fwd = "done", !.writer = "done"]

\* Either process may be started first.
Init ==
    /\ process \in {[exporter |-> "down", host |-> h] : h \in {"down", "run"}}
    /\ booted = 0
    /\ firmware = [ch \in Uarts |-> 1]
    /\ usb_q = [s \in Sides |-> <<>>]
    /\ usb_writer = [s \in Sides |-> TRUE]
    /\ wire = [s \in Sides |-> <<>>]
    /\ aligned = [s \in Sides |-> TRUE]
    /\ mcu_task = [ch \in Uarts |-> FALSE]
    /\ cmd_task = [ch \in Uarts |-> FALSE]
    /\ uart_cmd = [ch \in Uarts |-> <<>>]
    /\ ctrl_q = <<>>
    /\ dicts = [ch \in ChIds |-> <<>>]
    /\ published = [ch \in Sockets |-> None]
    /\ dictionary = [ch \in Sockets |-> None]
    /\ serving = [ch \in Sockets |-> 0]
    /\ slot = [ch \in Sockets |-> 0]
    /\ conns = [ch \in Sockets |-> [c \in Conns |-> NoConn]]
    /\ faults = 0
    /\ mcu_sent = [ch \in Uarts |-> 0]
    /\ arrived = [ch \in Sockets |-> 0]
    /\ lost = {}
    /\ mcu_got = [ch \in Uarts |-> <<>>]
    /\ torn = [ch \in Uarts |-> FALSE]
    /\ garbled = FALSE
    /\ junk = 0

Running(s) == process[s] = "run"

Turns == faults + Cardinality({x \in Sockets \X (2..MaxConns) : conns[x[1]][x[2]].peer # "none"})

Fault ==
    /\ Turns < MaxTurns
    /\ faults' = faults + 1

-----------------------------------------------------------------------------
min(a, b) == IF a <= b THEN a ELSE b

\* The exporter.

\* Faulty variant: the last, shorter chunk is left out (chunks_exact).
chunks_exact(bytes) ==
    [k \in 1..(Len(bytes) \div DICT_FRAG_MAX) |->
       SubSeq(bytes, (k - 1) * DICT_FRAG_MAX + 1, k * DICT_FRAG_MAX)]

chunks(bytes) ==
    [k \in 1..((Len(bytes) + DICT_FRAG_MAX - 1) \div DICT_FRAG_MAX) |->
       SubSeq(bytes, (k - 1) * DICT_FRAG_MAX + 1, min(k * DICT_FRAG_MAX, Len(bytes)))]

\* Faulty variant: the end of the dictionary is not signalled.
send_dictionary_open(ch, bytes) ==
    LET parts == chunks(bytes)
    IN  [k \in 1..Len(parts) |-> DICT_FRAG(ch, parts[k])]

\* send_dictionary: the frames queued for the USB writer.
send_dictionary(ch, bytes) ==
    LET parts == chunks(bytes)
    IN  [k \in 1..Len(parts) |-> DICT_FRAG(ch, parts[k])] \o <<DICT_DONE(ch)>>

\* One turn of the set-up loop of run_smart_exporter: the dictionary is fetched
\* and queued and the channel's tasks are spawned.  The USB writer and the main
\* loop start after the last channel.
setup_channel ==
    LET ch == booted
    IN  /\ process["exporter"] = "boot"
        /\ ch < NumUarts
        /\ usb_q' = [usb_q EXCEPT !["exporter"] =
                       @ \o send_dictionary(ch, Dictionary(ch, firmware[ch]))]
        /\ mcu_task' = [mcu_task EXCEPT ![ch] = TRUE]
        /\ cmd_task' = [cmd_task EXCEPT ![ch] = TRUE]
        /\ booted' = ch + 1
        /\ process' = [process EXCEPT !["exporter"] = IF ch + 1 = NumUarts THEN "run" ELSE "boot"]
        /\ UNCHANGED <<usb_writer, wire, aligned, firmware, uart_cmd, dictVars, connVars,
                       faults, history>>

Loses(frames) == lost' = lost \cup {f \in frames : ~Control(f)}

\* usb_tx.send: fails once the USB writer is gone.
send_usb(s, f) ==
    IF usb_writer[s]
    THEN usb_q' = [usb_q EXCEPT ![s] = Append(@, f)] /\ UNCHANGED lost
    ELSE Loses({f}) /\ UNCHANGED usb_q

\* Task MCU -> USB.  A failed send ends it.
mcu_to_usb(ch) ==
    /\ mcu_task[ch]
    /\ mcu_sent[ch] < MaxMcu
    /\ mcu_sent' = [mcu_sent EXCEPT ![ch] = @ + 1]
    /\ send_usb("exporter", Payload(ch, 0, mcu_sent[ch] + 1))
    /\ mcu_task' = [mcu_task EXCEPT ![ch] = usb_writer["exporter"]]
    /\ UNCHANGED <<process, usb_writer, wire, aligned, booted, firmware, cmd_task, uart_cmd,
                   dictVars, connVars, faults, arrived, mcu_got, torn, garbled, junk>>

\* Task USB -> MCU.
usb_to_mcu(ch) ==
    /\ cmd_task[ch]
    /\ uart_cmd[ch] # <<>>
    /\ uart_cmd' = [uart_cmd EXCEPT ![ch] = Tail(@)]
    /\ mcu_got' = [mcu_got EXCEPT ![ch] = Append(@, Head(uart_cmd[ch]))]
    /\ UNCHANGED <<process, usbVars, booted, firmware, mcu_task, cmd_task, dictVars, connVars,
                   faults, mcu_sent, arrived, lost, torn, garbled, junk>>

\* The transport of the MCU fails: the task that uses it ends, the rest goes on.
\* The task that sends owns the transport; its end may end the other one too.
mcu_error(ch) ==
    /\ Fault
    /\ \/ /\ mcu_task[ch]
          /\ mcu_task' = [mcu_task EXCEPT ![ch] = FALSE]
          /\ UNCHANGED <<cmd_task, uart_cmd, lost>>
       \/ /\ cmd_task[ch] /\ uart_cmd[ch] # <<>>
          /\ cmd_task' = [cmd_task EXCEPT ![ch] = FALSE]
          /\ uart_cmd' = [uart_cmd EXCEPT ![ch] = <<>>]
          /\ Loses(Range(uart_cmd[ch]))
          /\ \E alive \in BOOLEAN : mcu_task' = [mcu_task EXCEPT ![ch] = @ /\ alive]
    /\ UNCHANGED <<process, usbVars, booted, firmware, dictVars, connVars,
                   mcu_sent, arrived, mcu_got, torn, garbled, junk>>

-----------------------------------------------------------------------------
\* The USB link.
usb_write(s) ==
    /\ Running(s)
    /\ usb_writer[s]
    /\ usb_q[s] # <<>>
    /\ usb_q' = [usb_q EXCEPT ![s] = Tail(@)]
    /\ wire' = [wire EXCEPT ![s] = Append(@, Head(usb_q[s]))]
    /\ UNCHANGED <<process, usb_writer, aligned, exporterVars, dictVars, connVars, faults, history>>

\* Where a frame may be cut, the decoder of s may lose the frame boundary.
Misaligns(s, cut) ==
    /\ aligned' \in {aligned} \cup (IF cut THEN {[aligned EXCEPT ![s] = FALSE]} ELSE {})
    /\ garbled' = (garbled \/ FALSE \in Range(aligned'))

\* A write error ends the USB writer, and only it.
usb_write_error(s) ==
    /\ Running(s)
    /\ usb_writer[s]
    /\ usb_q[s] # <<>>
    /\ Fault
    /\ usb_writer' = [usb_writer EXCEPT ![s] = FALSE]
    /\ usb_q' = [usb_q EXCEPT ![s] = <<>>]
    /\ Loses(Range(usb_q[s]))
    /\ Misaligns(Peer(s), TRUE)
    /\ UNCHANGED <<process, wire, exporterVars, dictVars, connVars,
                   mcu_sent, arrived, mcu_got, torn, junk>>

\* What PayloadTunnelCodec yields: the frame, or off a frame boundary whatever
\* the bytes happen to say, here a frame of no known channel or, MaxJunk times,
\* one of a known channel.  Nothing brings it back to a boundary.
Junk == UNION {{DICT_FRAG(ch, <<<<ch, 0, 0>>>>), DICT_DONE(ch), Payload(ch, 0, 0)} : ch \in Uarts}

decoded(s) ==
    IF aligned[s] THEN {Head(wire[Peer(s)])}
    ELSE {Payload(NumUarts, 0, 0)} \cup (IF junk < MaxJunk THEN Junk ELSE {})

counted(s, f) == junk' = IF ~aligned[s] /\ f \in Junk THEN junk + 1 ELSE junk

\* The main loop of run_smart_exporter: control frames are ignored.
exporter_usb_read ==
    /\ Running("exporter")
    /\ wire["host"] # <<>>
    /\ wire' = [wire EXCEPT !["host"] = Tail(@)]
    /\ \E f \in decoded("exporter") :
          /\ counted("exporter", f)
          /\ IF ~Control(f) /\ f.ch \in Uarts /\ cmd_task[f.ch]
             THEN uart_cmd' = [uart_cmd EXCEPT ![f.ch] = Append(@, f)] /\ UNCHANGED lost
             ELSE Loses({f}) /\ UNCHANGED uart_cmd
    /\ UNCHANGED <<process, usb_q, usb_writer, aligned, booted, firmware, mcu_task, cmd_task,
                   dictVars, connVars, faults, mcu_sent, arrived, mcu_got, torn, garbled>>

\* Faulty variant: the demux gives a payload up when the slot is locked.
route_to_client_try_lock(f) ==
    \/ UNCHANGED conns
    \/ /\ f.ch \in Sockets /\ slot[f.ch] # 0
       /\ conns' = [conns EXCEPT ![f.ch][slot[f.ch]].from_mcu = Append(@, f)]

\* A payload goes to the connection in the slot or, without one, nowhere.
route_to_client(f) ==
    conns' = IF f.ch \in Sockets /\ slot[f.ch] # 0
             THEN [conns EXCEPT ![f.ch][slot[f.ch]].from_mcu = Append(@, f)]
             ELSE conns

\* The main loop of run_smart_host.
host_usb_read ==
    /\ Running("host")
    /\ wire["exporter"] # <<>>
    /\ wire' = [wire EXCEPT !["exporter"] = Tail(@)]
    /\ \E f \in decoded("host") :
          /\ counted("host", f)
          /\ IF Control(f)
             THEN ctrl_q' = Append(ctrl_q, f) /\ UNCHANGED <<conns, arrived>>
             ELSE /\ route_to_client(f)
                  /\ arrived' = [ch \in Sockets |-> IF ch = f.ch THEN f.data[1] ELSE arrived[ch]]
                  /\ UNCHANGED ctrl_q
    /\ UNCHANGED <<process, usb_q, usb_writer, aligned, exporterVars, dicts, published, dictionary,
                   serving, slot, faults, mcu_sent, lost, mcu_got, torn, garbled>>

-----------------------------------------------------------------------------
\* The dictionary at the host.
\* gather_dictionary, one control payload: DICT_DONE publishes what there is,
\* nothing at all included.
gather_dictionary ==
    LET f == Head(ctrl_q)
        ch == f.ch
    IN  /\ Running("host")
        /\ ctrl_q # <<>>
        /\ ctrl_q' = Tail(ctrl_q)
        /\ \/ /\ f.kind = "CTRL_DICT_FRAG"
              /\ dicts' = [dicts EXCEPT ![ch] = @ \o f.data]
              /\ UNCHANGED published
           \/ /\ f.kind = "CTRL_DICT_DONE"
              /\ dicts' = [dicts EXCEPT ![ch] = <<>>]
              /\ published' = IF ch \in Sockets THEN [published EXCEPT ![ch] = dicts[ch]]
                              ELSE published
        /\ UNCHANGED <<process, usbVars, exporterVars, dictionary, connVars, faults, history>>

\* The accept task takes the first dictionary it sees, once.
take_dictionary(ch) ==
    /\ Running("host")
    /\ dictionary[ch] = None
    /\ published[ch] # None
    /\ dictionary' = [dictionary EXCEPT ![ch] = published[ch]]
    /\ UNCHANGED <<process, usbVars, exporterVars, ctrl_q, dicts, published, connVars,
                   faults, history>>

-----------------------------------------------------------------------------
\* Klipper, the client of a socket: it fetches the dictionary and only then
\* sends commands.
Conn(ch, c, r) == conns' = [conns EXCEPT ![ch][c] = r]

Identify(ch, c, offset) == Frame("identify", ch, c, <<offset>>)

Connects(ch, c) ==
    /\ Running("host")
    /\ conns[ch][c].peer = "none"
    /\ c > 1 => conns[ch][c - 1].peer = "closed" /\ Turns < MaxTurns
    /\ Conn(ch, c, [NoConn EXCEPT !.peer = "open"])
    /\ UNCHANGED <<process, usbVars, exporterVars, dictVars, serving, slot, faults, history>>

Sends(ch, c) ==
    LET r == conns[ch][c]
    IN  /\ r.peer = "open"
        /\ \/ /\ ~r.complete /\ ~r.asking
              /\ Conn(ch, c, [r EXCEPT !.asking = TRUE,
                                !.unread = Append(@, Identify(ch, c, Len(r.fetched)))])
           \/ /\ r.complete /\ r.sent < MaxCmds
              /\ Conn(ch, c, [r EXCEPT !.sent = @ + 1,
                                !.unread = Append(@, Payload(ch, c, r.sent + 1))])
        /\ UNCHANGED <<process, usbVars, exporterVars, dictVars, serving, slot, faults, history>>

Disconnects(ch, c) ==
    /\ conns[ch][c].peer = "open"
    /\ Conn(ch, c, [conns[ch][c] EXCEPT !.peer = "closed"])
    /\ UNCHANGED <<process, usbVars, exporterVars, dictVars, serving, slot, faults, history>>

-----------------------------------------------------------------------------
\* handle_klipper_smart_connection.  The accept task starts it, once it has the
\* dictionary, and waits for its end.
accept(ch, c) ==
    /\ Running("host")
    /\ dictionary[ch] # None
    /\ serving[ch] = 0
    /\ conns[ch][c].peer # "none"
    /\ conns[ch][c].relay = "none"
    /\ \A d \in 1..(c - 1) : conns[ch][d].relay # "none"
    /\ serving' = [serving EXCEPT ![ch] = c]
    /\ slot' = [slot EXCEPT ![ch] = c]
    /\ Conn(ch, c, [conns[ch][c] EXCEPT !.relay = "run", !.fwd = "run", !.writer = "run",
                                        !.seen = arrived[ch]])
    /\ UNCHANGED <<process, usbVars, exporterVars, dictVars, faults, history>>

\* Faulty variant: the relay loop hands MCU payloads on only.
to_klipper_payloads(r, f) ==
    [r EXCEPT !.to_klipper = IF r.writer = "run" /\ f.kind = "payload" THEN Append(@, f) ELSE @]

\* to_klipper_tx.send, to_exporter_tx.send: nothing, once the receiving task has ended.
to_klipper(r, f) == [r EXCEPT !.to_klipper = IF r.writer = "run" THEN Append(@, f) ELSE @]

\* Faulty variant: the payload is consumed before it is sent.
to_exporter_consumed(r, f) == r

to_exporter(r, f) == [r EXCEPT !.to_exporter = IF r.fwd = "run" THEN Append(@, f) ELSE @]

\* Faulty variant: the offset is taken as counting from one.
identify_from_1(bytes, start) ==
    SubSeq(bytes, start + 2, min(start + 1 + Count, Len(bytes)))

\* The answer to identify(offset, count): dictionary[start..end].
identify(bytes, start) ==
    IF start <= Len(bytes) THEN SubSeq(bytes, start + 1, min(start + Count, Len(bytes)))
    ELSE <<>>

\* The relay loop, a message of the client: dispatch_raw and dispatch.
relay_client(ch, c) ==
    LET r == conns[ch][c]
        f == Head(r.unread)
        rest == [r EXCEPT !.unread = Tail(@)]
    IN  /\ r.relay = "run"
        /\ r.unread # <<>>
        /\ Conn(ch, c, IF f.kind = "identify"
                       THEN to_klipper(rest, Frame("identify_response", ch, c,
                                                   identify(dictionary[ch], f.data[1])))
                       ELSE to_exporter(rest, f))
        /\ UNCHANGED <<process, usbVars, exporterVars, dictVars, serving, slot, faults, history>>

\* The relay loop, a payload of the MCU.
relay_mcu(ch, c) ==
    LET r == conns[ch][c]
    IN  /\ r.relay = "run"
        /\ r.from_mcu # <<>>
        /\ Conn(ch, c, to_klipper([r EXCEPT !.from_mcu = Tail(@)], Head(r.from_mcu)))
        /\ UNCHANGED <<process, usbVars, exporterVars, dictVars, serving, slot, faults, history>>

\* The client is gone, seen as the end of the input or as a read error that
\* loses what was unread: both tasks are aborted and the slot is cleared.  An
\* aborted task runs on to its next await.
relay_end(ch, c) ==
    LET r == conns[ch][c]
    IN  /\ r.relay = "run"
        /\ r.peer = "closed"
        /\ Conn(ch, c, [Ended EXCEPT !.to_exporter = r.to_exporter,
                                     !.fwd = IF r.fwd = "run" THEN "aborted" ELSE @])
        /\ slot' = [slot EXCEPT ![ch] = 0]
        /\ serving' = [serving EXCEPT ![ch] = 0]
        /\ UNCHANGED <<process, usbVars, exporterVars, dictVars, faults, history>>

\* What Klipper makes of a message: an empty identify_response ends the dictionary.
delivered(r, f) ==
    IF f.kind = "identify_response"
    THEN [r EXCEPT !.asking = FALSE, !.fetched = @ \o f.data, !.complete = (f.data = <<>>)]
    ELSE [r EXCEPT !.got = Append(@, f)]

\* write_task: a message is written, or the write fails because the client is gone.
write_task(ch, c) ==
    LET r == conns[ch][c]
    IN  /\ r.writer = "run"
        /\ r.to_klipper # <<>>
        /\ Conn(ch, c, IF r.peer = "open"
                       THEN delivered([r EXCEPT !.to_klipper = Tail(@)], Head(r.to_klipper))
                       ELSE [r EXCEPT !.writer = "done", !.to_klipper = <<>>])
        /\ UNCHANGED <<process, usbVars, exporterVars, dictVars, serving, slot, faults, history>>

\* cmd_fwd_task; a failed send ends it.
cmd_fwd_task(ch, c) ==
    LET r == conns[ch][c]
        stays == usb_writer["host"]
    IN  /\ r.fwd \in {"run", "aborted"}
        /\ r.to_exporter # <<>>
        /\ send_usb("host", Head(r.to_exporter))
        /\ Conn(ch, c, [r EXCEPT !.to_exporter = IF stays THEN Tail(@) ELSE <<>>,
                                 !.fwd = IF stays THEN @ ELSE "done"])
        /\ UNCHANGED <<process, usb_writer, wire, aligned, exporterVars, dictVars, serving, slot,
                       faults, mcu_sent, arrived, mcu_got, torn, garbled, junk>>

\* The abort takes effect, and what the task had not forwarded is lost.
cmd_fwd_abort(ch, c) ==
    /\ conns[ch][c].fwd = "aborted"
    /\ Conn(ch, c, [conns[ch][c] EXCEPT !.fwd = "done", !.to_exporter = <<>>])
    /\ UNCHANGED <<process, usbVars, exporterVars, dictVars, serving, slot, faults, history>>

-----------------------------------------------------------------------------
\* A dictionary is on its way: fragments of it have been written, and not yet
\* been published.
Underway(ch) ==
    \/ dicts[ch] # <<>>
    \/ \E f \in Range(ctrl_q \o wire["exporter"]) : Control(f) /\ f.ch = ch

Tears == torn' = [ch \in Uarts |-> torn[ch] \/ Underway(ch)]

\* A process ends: its main loop ends with an error of the link, or, before it,
\* the set-up of a channel fails.
Exit(s) ==
    /\ process[s] # "down"
    /\ Fault
    /\ process' = [process EXCEPT ![s] = "down"]
    /\ usb_q' = [usb_q EXCEPT ![s] = <<>>]
    /\ Loses(Range(usb_q[s]) \cup
             (IF s = "exporter" THEN UNION {Range(uart_cmd[ch]) : ch \in Uarts} ELSE {}))
    /\ Misaligns(Peer(s), Running(s) /\ usb_q[s] # <<>>)
    /\ Tears
    /\ IF s = "exporter"
       THEN /\ mcu_task' = [ch \in Uarts |-> FALSE]
            /\ cmd_task' = [ch \in Uarts |-> FALSE]
            /\ uart_cmd' = [ch \in Uarts |-> <<>>]
            /\ booted' = 0
            /\ UNCHANGED <<dictVars, connVars>>
       ELSE /\ ctrl_q' = <<>>
            /\ dicts' = [ch \in ChIds |-> <<>>]
            /\ published' = [ch \in Sockets |-> None]
            /\ dictionary' = [ch \in Sockets |-> None]
            /\ serving' = [ch \in Sockets |-> 0]
            /\ slot' = [ch \in Sockets |-> 0]
            /\ conns' = [ch \in Sockets |-> [c \in Conns |->
                 IF conns[ch][c].peer = "none" THEN NoConn
                 ELSE Ended]]
            /\ UNCHANGED <<mcu_task, cmd_task, uart_cmd, booted>>
    /\ UNCHANGED <<usb_writer, wire, firmware, mcu_sent, arrived, mcu_got, junk>>

\* A process starts, with a decoder at a boundary if the input is.  open_serial
\* discards input that is waiting (TCSAFLUSH), maybe up to the middle of a frame.
Start(s) ==
    LET w == wire[Peer(s)]
    IN  /\ process[s] = "down"
        /\ process' = [process EXCEPT ![s] = IF s = "exporter" THEN "boot" ELSE "run"]
        /\ usb_writer' = [usb_writer EXCEPT ![s] = TRUE]
        /\ \E k \in 0..Len(w), cut \in BOOLEAN :
              /\ cut => k < Len(w)
              /\ wire' = [wire EXCEPT ![Peer(s)] = SubSeq(w, k + 1, Len(w))]
              /\ Loses(Range(SubSeq(w, 1, k)))
              /\ aligned' = [aligned EXCEPT ![s] = ~cut]
              /\ garbled' = (garbled \/ cut)
        /\ Tears
        /\ UNCHANGED <<usb_q, exporterVars, dictVars, connVars, faults, mcu_sent, arrived, mcu_got, junk>>

\* The MCU is given other firmware.  (Before the first start of the exporter it
\* would only rename the first version.)
Flash(ch) ==
    /\ process["exporter"] = "down"
    /\ faults > 0
    /\ firmware[ch] < MaxFirmware
    /\ firmware' = [firmware EXCEPT ![ch] = @ + 1]
    /\ UNCHANGED <<process, usbVars, booted, mcu_task, cmd_task, uart_cmd, dictVars, connVars,
                   faults, history>>

Client(ch, c) == Connects(ch, c) \/ Sends(ch, c) \/ Disconnects(ch, c)
Relay(ch, c) == relay_client(ch, c) \/ relay_mcu(ch, c) \/ relay_end(ch, c)

Next ==
    \/ \E s \in Sides : usb_write(s) \/ usb_write_error(s) \/ Exit(s) \/ Start(s)
    \/ setup_channel \/ exporter_usb_read \/ host_usb_read \/ gather_dictionary
    \/ \E ch \in Uarts : mcu_to_usb(ch) \/ usb_to_mcu(ch) \/ mcu_error(ch) \/ Flash(ch)
    \/ \E ch \in Sockets :
          \/ take_dictionary(ch)
          \/ \E c \in Conns : \/ Client(ch, c) \/ accept(ch, c) \/ Relay(ch, c)
                              \/ write_task(ch, c) \/ cmd_fwd_task(ch, c) \/ cmd_fwd_abort(ch, c)

Spec == Init /\ [][Next]_vars

\* The accept task of a channel waits for the dictionary, for a connection, and
\* then runs the relay loop.
accept_task(ch) == take_dictionary(ch) \/ \E c \in Conns : accept(ch, c) \/ Relay(ch, c)

\* tokio polls every task that has work; Klipper goes on asking.
FairSpec ==
    /\ Spec
    /\ WF_vars(setup_channel) /\ WF_vars(usb_write("exporter"))
    /\ WF_vars(host_usb_read) /\ WF_vars(gather_dictionary)
    /\ \A ch \in Sockets :
          /\ WF_vars(accept_task(ch))
          /\ WF_vars(\E c \in Conns : write_task(ch, c))
          /\ WF_vars(\E c \in Conns : Sends(ch, c))

-----------------------------------------------------------------------------
\* What the host takes for the dictionary of a channel is one that its MCU had,
\* whole and not mixed with another channel's (send_dictionary, chunks,
\* gather_dictionary), unless a process ended or started while it was under way.
DictionaryWhole ==
    \A ch \in Sockets :
       dictionary[ch] # None /\ ~torn[ch] /\ ~garbled
         => \E v \in 1..firmware[ch] : dictionary[ch] = Dictionary(ch, v)

\* The chunks that answer Klipper's successive identify requests put together
\* the host's dictionary, payloads of the MCU in between notwithstanding
\* (dispatch, pending_responses, write_task).
FetchedWhole ==
    \A ch \in Sockets, c \in Conns :
       conns[ch][c].complete /\ conns[ch][c].relay = "run" => conns[ch][c].fetched = dictionary[ch]

\* A client is given every payload of its own MCU that arrives while it is
\* served, in order (the demux, the relay loop, write_task): a number is
\* missing only where the payload never arrived.
ClientStream ==
    ~garbled =>
    \A ch \in Sockets, c \in Conns :
       LET r == conns[ch][c]
           s == <<Payload(ch, 0, r.seen)>> \o r.got
                \o SelectSeq(r.to_klipper, LAMBDA f : f.kind = "payload")
                \o (IF r.writer = "run" THEN r.from_mcu ELSE <<>>)
       IN  /\ \A i \in 2..Len(s) :
                /\ s[i].ch = ch /\ s[i].conn = 0 /\ s[i].data[1] > s[i - 1].data[1]
                /\ \A n \in (s[i - 1].data[1] + 1)..(s[i].data[1] - 1) : Payload(ch, 0, n) \in lost
           /\ slot[ch] = c /\ r.writer = "run" => s[Len(s)].data[1] = arrived[ch]

\* "All other commands are forwarded to the exporter": the commands of a
\* connection are, from the MCU back to the socket, in their order and none
\* twice (dispatch_raw, cmd_fwd_task, the exporter's demux and task), those of a
\* connection that is over and of an exporter that restarts too; and while the
\* connection lasts each is somewhere on that way or was lost with a task or a
\* process.
CommandOrder ==
    ~garbled =>
    \A ch \in Sockets, c \in Conns :
       LET r == conns[ch][c]
           way == mcu_got[ch] \o uart_cmd[ch] \o wire["host"] \o usb_q["host"]
                  \o r.to_exporter \o r.unread
           s == SelectSeq(way, LAMBDA f : f.kind = "payload" /\ f.ch = ch /\ f.conn = c)
       IN  /\ \A i \in 1..(Len(s) - 1) : s[i].data[1] < s[i + 1].data[1]
           /\ r.fwd = "run" => {Payload(ch, c, n) : n \in 1..r.sent} \subseteq Range(s) \cup lost

\* "publish each channel's complete dictionary": an exporter that starts while
\* the host runs gets every channel of the host ready (run_smart_exporter,
\* gather_dictionary, the accept tasks), whatever has happened before and
\* whatever its MCUs do, unless a process or the exporter's USB writer ends first.
DictArrives ==
    process["exporter"] = "boot" /\ Running("host") /\ ~garbled
      ~> \/ \A ch \in Sockets : dictionary[ch] # None
         \/ process["exporter"] = "down" \/ process["host"] = "down" \/ ~usb_writer["exporter"]

\* "Klipper's 'identify' handshake is answered locally": once the channel is
\* ready a Klipper that connects and stays has the whole dictionary at last,
\* with the exporter gone, its tasks ended or the link dead.
KlipperServed ==
    \A ch \in Sockets, c \in Conns :
       dictionary[ch] # None /\ conns[ch][c].peer = "open"
         ~> conns[ch][c].complete \/ conns[ch][c].peer # "open"
=============================================================================
