------------------------------ MODULE Session -------------------------------
(***************************************************************************)
(* Two serialmux daemons and the USB link between them (daemon.rs), with   *)
(* an McuChannel on the exporter and a PtyChannel on the host for every    *)
(* channel id (channel.rs).  The module is about the session protocol:     *)
(* the HELLO / ACK handshake, and the READY / FLUSH / DATA frames by which *)
(* the host's PTY follows the state of the exporter's MCU, while either    *)
(* side closes and reopens its link fd and the exporter restarts.          *)
(*                                                                         *)
(* The link is a FIFO of frames each way.  It loses frames where the code  *)
(* or the kernel discards bytes: close_link resets the TX queue, closing   *)
(* or unplugging discards what was written but not yet transmitted, and    *)
(* opening flushes received but unread input (TCSAFLUSH).  Time does not   *)
(* appear: a keepalive timeout is one of the causes of CloseLink, and MCU  *)
(* silence may be noticed whenever the MCU is active.                      *)
(***************************************************************************)
EXTENDS Naturals, Sequences, FiniteSets

CONSTANTS Channels,     \* channel ids
          MaxOpens,     \* bound: times each side opens the link
          MaxItems,     \* bound: UART reads and MCU resets per channel
          PtyMayFail    \* whether openpty, the symlink or a PTY read may fail

\* The last conjunct follows from the one before it.
ASSUME ChannelsAssumption == /\ Channels \subseteq Nat /\ IsFiniteSet(Channels)
                             /\ Cardinality(Channels) \in Nat
ASSUME BoundsAssumption == MaxOpens \in Nat /\ MaxItems \in Nat
ASSUME PtyAssumption == PtyMayFail \in BOOLEAN

Sides == {"exporter", "host"}
Peer(s) == IF s = "exporter" THEN "host" ELSE "exporter"

VARIABLES
    link_fd,   \* side -> link fd is open (the code's ~disconnected)
    link_up,   \* side -> handshake complete
    txq,       \* side -> frames in the TX queue
    net,       \* side -> frames it wrote that the peer has not read
    opens,     \* side -> times the link was opened
    state,     \* channel -> McuChannel.state
    uart,      \* channel -> McuChannel.fd is Some
    mcu_up,    \* channel -> McuChannel.link_up
    items,     \* channel -> UART reads and MCU resets so far: a reset takes a
               \*            number too, so it shows as a gap in the stream
    pty,       \* channel -> "open", "closed", or "failed": closed on its own
               \*            account, by a failed open_pty or EIO
    fed        \* channel -> latest item handed to the PTY since it was
               \*            opened, 0 if none

linkVars == <<link_fd, link_up, txq, net, opens>>
mcuVars == <<state, uart, mcu_up, items>>
ptyVars == <<pty, fed>>
vars == <<linkVars, mcuVars, ptyVars>>

-----------------------------------------------------------------------------
\* Frames: type, channel and, for F_DATA, which UART read it carries.
Frame(ftype, channel, item) ==
    [ftype |-> ftype, channel |-> channel, item |-> item]

HELLO == Frame("F_HELLO", 0, 0)
ACK == Frame("F_ACK", 0, 0)
READY(c) == Frame("F_READY", c, 0)

FLUSH(c) == Frame("F_FLUSH", c, 0)
DATA(c, n) == Frame("F_DATA", c, n)

Frames == [ftype : {"F_HELLO", "F_ACK", "F_READY", "F_FLUSH", "F_DATA"},
           channel : Channels \cup {0}, item : Nat]

\* What McuChannel::on_link_connect announces.
Status(c) == IF state[c] = "Active" THEN READY(c) ELSE FLUSH(c)

\* The daemon visits its channels in the order of a HashMap: any order.
Orders == {o \in [1..Cardinality(Channels) -> Channels] :
             \A c \in Channels : \E i \in DOMAIN o : o[i] = c}

-----------------------------------------------------------------------------
Init ==
    /\ link_fd = [s \in Sides |-> FALSE]
    /\ link_up = [s \in Sides |-> FALSE]
    /\ txq = [s \in Sides |-> <<>>]
    /\ net = [s \in Sides |-> <<>>]
    /\ opens = [s \in Sides |-> 0]
    /\ state = [c \in Channels |-> "Init"]
    /\ uart \in [Channels -> BOOLEAN]
    /\ mcu_up = [c \in Channels |-> FALSE]
    /\ items = [c \in Channels |-> 0]
    /\ pty = [c \in Channels |-> "closed"]
    /\ fed = [c \in Channels |-> 0]

\* A successful open_link: the input queued for s is flushed, which takes any
\* prefix of what is in flight, and the handshake starts.
open_link(s) ==
    /\ ~link_fd[s]
    /\ opens[s] < MaxOpens
    /\ opens' = [opens EXCEPT ![s] = @ + 1]
    /\ link_fd' = [link_fd EXCEPT ![s] = TRUE]
    /\ txq' = [txq EXCEPT ![s] = <<HELLO>>]
    /\ \E k \in 0..Len(net[Peer(s)]) :
         net' = [net EXCEPT ![Peer(s)] = SubSeq(@, k + 1, Len(@))]
    /\ UNCHANGED <<link_up, mcuVars, ptyVars>>

\* PtyChannel::close_pty on every channel.
close_all_ptys ==
    /\ pty' = [c \in Channels |-> "closed"]
    /\ fed' = [c \in Channels |-> 0]

\* Faulty variant: close_link without txq.reset().
drop_link_keeps_queue(s) ==
    /\ link_fd[s]
    /\ opens[s] < MaxOpens
    /\ link_fd' = [link_fd EXCEPT ![s] = FALSE]
    /\ link_up' = [link_up EXCEPT ![s] = FALSE]
    /\ UNCHANGED <<txq, net, opens>>

\* The link part of close_link; what the kernel had not transmitted may go.
drop_link(s) ==
    /\ link_fd[s]
    /\ opens[s] < MaxOpens
    /\ link_fd' = [link_fd EXCEPT ![s] = FALSE]
    /\ link_up' = [link_up EXCEPT ![s] = FALSE]
    /\ txq' = [txq EXCEPT ![s] = <<>>]
    /\ \E k \in 0..Len(net[s]) : net' = [net EXCEPT ![s] = SubSeq(@, 1, k)]
    /\ UNCHANGED opens

\* A read error, a write error or a keepalive timeout.
close_link(s) ==
    /\ drop_link(s)
    /\ IF s = "exporter"
       THEN /\ mcu_up' = [c \in Channels |-> FALSE]
            /\ UNCHANGED <<state, uart, items, ptyVars>>
       ELSE /\ close_all_ptys
            /\ UNCHANGED mcuVars

\* The exporter process dies and is started again.  (For the host a restart
\* has the effect of close_link: its PTYs go with the process.)
Restart ==
    /\ drop_link("exporter")
    /\ state' = [c \in Channels |-> "Init"]
    /\ uart' \in [Channels -> BOOLEAN]
    /\ mcu_up' = [c \in Channels |-> FALSE]
    /\ UNCHANGED <<items, ptyVars>>

\* drain_to_fd: a frame leaves the TX queue for the wire.
link_write(s) ==
    /\ link_fd[s]
    /\ txq[s] # <<>>
    /\ net' = [net EXCEPT ![s] = Append(@, Head(txq[s]))]
    /\ txq' = [txq EXCEPT ![s] = Tail(@)]
    /\ UNCHANGED <<link_fd, link_up, opens, mcuVars, ptyVars>>

-----------------------------------------------------------------------------
\* Faulty variant: a PTY that is open stays open across on_link_connect.
connect_channels_keep_pty(s, reply) ==
    IF s = "exporter"
    THEN /\ mcu_up' = [c \in Channels |-> TRUE]
         /\ \E o \in Orders :
              txq' = [txq EXCEPT ![s] =
                        @ \o reply \o [i \in 1..Cardinality(Channels) |-> Status(o[i])]]
         /\ UNCHANGED <<state, uart, items, ptyVars>>
    ELSE /\ txq' = [txq EXCEPT ![s] = @ \o reply]
         /\ UNCHANGED <<mcuVars, ptyVars>>

\* on_link_connect on every channel of s, after the frames in reply.
connect_channels(s, reply) ==
    IF s = "exporter"
    THEN /\ mcu_up' = [c \in Channels |-> TRUE]
         /\ \E o \in Orders :
              txq' = [txq EXCEPT ![s] =
                        @ \o reply \o [i \in 1..Cardinality(Channels) |-> Status(o[i])]]
         /\ UNCHANGED <<state, uart, items, ptyVars>>
    ELSE /\ close_all_ptys
         /\ txq' = [txq EXCEPT ![s] = @ \o reply]
         /\ UNCHANGED mcuVars

\* Faulty variant: a HELLO is acknowledged but, when the link is up already,
\* the channel states are not sent again.
on_hello_once(s) ==
    IF link_up[s]
    THEN /\ txq' = [txq EXCEPT ![s] = Append(@, ACK)]
         /\ UNCHANGED <<link_up, mcuVars, ptyVars>>
    ELSE /\ link_up' = [link_up EXCEPT ![s] = TRUE]
         /\ connect_channels(s, <<ACK>>)

\* Faulty variant: HELLO is not acknowledged.
on_hello_no_ack(s) ==
    /\ link_up' = [link_up EXCEPT ![s] = TRUE]
    /\ connect_channels(s, <<>>)

\* Whether the peer's HELLO is the first of this session or the peer
\* reconnected, the channels are told and the link is up.
on_hello(s) ==
    /\ link_up' = [link_up EXCEPT ![s] = TRUE]
    /\ connect_channels(s, <<ACK>>)

on_ack(s) ==
    IF link_up[s]
    THEN UNCHANGED <<link_up, txq, mcuVars, ptyVars>>
    ELSE /\ link_up' = [link_up EXCEPT ![s] = TRUE]
         /\ connect_channels(s, <<>>)

\* PtyChannel::open_pty.
open_pty(c) ==
    \/ /\ pty[c] = "open"
       /\ UNCHANGED ptyVars
    \/ /\ pty[c] # "open"
       /\ \E outcome \in {"open"} \cup (IF PtyMayFail THEN {"failed"} ELSE {}) :
            pty' = [pty EXCEPT ![c] = outcome]
       /\ UNCHANGED fed

close_pty(c) ==
    /\ pty' = [pty EXCEPT ![c] = "closed"]
    /\ fed' = [fed EXCEPT ![c] = 0]

\* PtyChannel::on_frame; only the host has PTY channels.
pty_on_frame(f) ==
    /\ UNCHANGED <<link_up, txq, mcuVars>>
    /\ \/ f.ftype = "F_READY" /\ open_pty(f.channel)
       \/ f.ftype = "F_FLUSH" /\ close_pty(f.channel)
       \/ /\ f.ftype = "F_DATA"
          /\ fed' = IF pty[f.channel] = "open"
                    THEN [fed EXCEPT ![f.channel] = f.item] ELSE fed
          /\ UNCHANGED pty

\* An exporter's channels have no use for READY, FLUSH or DATA here.
dispatch_frame(s, f) ==
    \/ f.ftype = "F_HELLO" /\ on_hello(s)
    \/ f.ftype = "F_ACK" /\ on_ack(s)
    \/ s = "host" /\ pty_on_frame(f)

\* The next frame from the peer is read and dispatched.
link_read(s) ==
    /\ link_fd[s]
    /\ net[Peer(s)] # <<>>
    /\ net' = [net EXCEPT ![Peer(s)] = Tail(@)]
    /\ UNCHANGED <<link_fd, opens>>
    /\ dispatch_frame(s, Head(net[Peer(s)]))

-----------------------------------------------------------------------------
\* McuChannel::transition with the frames that follow it in the same call.
transition(c, to, frames) ==
    /\ state' = [state EXCEPT ![c] = to]
    /\ txq' = IF mcu_up[c] THEN [txq EXCEPT !["exporter"] = @ \o frames] ELSE txq

\* uart_read with n > 0.  Before the sync byte is seen the bytes are dropped.
uart_read(c) ==
    /\ uart[c]
    /\ items[c] < MaxItems
    /\ items' = [items EXCEPT ![c] = @ + 1]
    /\ UNCHANGED <<link_fd, link_up, net, opens, uart, mcu_up, ptyVars>>
    /\ \/ state[c] = "Active" /\ transition(c, "Active", <<DATA(c, items[c] + 1)>>)
       \/ /\ state[c] # "Active"   \* with the sync byte in it
          /\ transition(c, "Active", <<READY(c), DATA(c, items[c] + 1)>>)
       \/ state[c] # "Active" /\ UNCHANGED <<state, txq>>

\* The MCU is taken to be resetting.
reset(c) ==
    /\ items[c] < MaxItems
    /\ items' = [items EXCEPT ![c] = @ + 1]
    /\ transition(c, "Resetting", <<FLUSH(c)>>)

\* A tick that finds the MCU silent for longer than RESET_SILENCE.
silence(c) ==
    /\ uart[c]
    /\ state[c] = "Active"
    /\ reset(c)
    /\ UNCHANGED <<link_fd, link_up, net, opens, uart, mcu_up, ptyVars>>

\* uart_read fails: the UART is closed and the MCU taken to be resetting.
uart_error(c) ==
    /\ uart[c]
    /\ uart' = [uart EXCEPT ![c] = FALSE]
    /\ \/ state[c] = "Resetting" /\ UNCHANGED <<state, txq, items>>
       \/ state[c] # "Resetting" /\ reset(c)
    /\ UNCHANGED <<link_fd, link_up, net, opens, mcu_up, ptyVars>>

\* A tick after reopen_at, when opening succeeds.
open_uart(c) ==
    /\ ~uart[c]
    /\ uart' = [uart EXCEPT ![c] = TRUE]
    /\ UNCHANGED <<linkVars, state, mcu_up, items, ptyVars>>

\* A read of the PTY master fails with EIO.
pty_eio(c) ==
    /\ PtyMayFail
    /\ pty[c] = "open"
    /\ pty' = [pty EXCEPT ![c] = "failed"]
    /\ fed' = [fed EXCEPT ![c] = 0]
    /\ UNCHANGED <<linkVars, mcuVars>>

-----------------------------------------------------------------------------
Next ==
    \/ \E s \in Sides : open_link(s) \/ close_link(s) \/ link_write(s) \/ link_read(s)
    \/ Restart
    \/ \E c \in Channels : \/ uart_read(c) \/ silence(c) \/ uart_error(c)
                          \/ open_uart(c) \/ pty_eio(c)

\* The event loop keeps retrying to open, drains the queue and reads the link.
Fairness ==
    \A s \in Sides : /\ WF_vars(open_link(s))
                     /\ WF_vars(link_write(s))
                     /\ WF_vars(link_read(s))

Spec == Init /\ [][Next]_vars
FairSpec == Spec /\ Fairness

-----------------------------------------------------------------------------
\* Every frame on its way has a type and a channel the daemons know.
TypeOK ==
    /\ link_fd \in [Sides -> BOOLEAN]
    /\ link_up \in [Sides -> BOOLEAN]
    /\ txq \in [Sides -> Seq(Frames)]
    /\ net \in [Sides -> Seq(Frames)]
    /\ opens \in [Sides -> Nat]
    /\ state \in [Channels -> {"Init", "Active", "Resetting"}]
    /\ uart \in [Channels -> BOOLEAN]
    /\ mcu_up \in [Channels -> BOOLEAN]
    /\ items \in [Channels -> Nat]
    /\ pty \in [Channels -> {"closed", "open", "failed"}]
    /\ fed \in [Channels -> Nat]

\* All that s has said and the peer has not heard, in order.
Pending(s) == net[s] \o txq[s]
HelloPending(s) == \E i \in DOMAIN Pending(s) : Pending(s)[i].ftype = "F_HELLO"

\* The PTY mirrors the MCU (PtyChannel::on_frame, McuChannel::transition and
\* the rebroadcast on HELLO): whatever reconnections happened, once the host
\* has heard all the exporter said, and no HELLO is on its way to make the
\* exporter repeat itself, the host has opened the PTY exactly for the
\* channels whose MCU is active.
PtyAgrees ==
    (/\ link_up["exporter"]
     /\ link_fd["host"]
     /\ Pending("exporter") = <<>>
     /\ ~HelloPending("host"))
        => \A c \in Channels : pty[c] # "closed" <=> state[c] = "Active"

\* A closed link is silent (close_link, on_link_disconnect): no frame waits
\* in its queue for the next session, the handshake is undone, the MCU
\* channels know it, and no PTY is left open.
ClosedLinkIsSilent ==
    /\ \A s \in Sides : ~link_fd[s] => txq[s] = <<>> /\ ~link_up[s]
    /\ \A c \in Channels : mcu_up[c] = link_up["exporter"]
    /\ ~link_fd["host"] => \A c \in Channels : pty[c] = "closed"

\* What Klipper reads from one opening of a PTY is a contiguous part of what
\* the MCU sent, with no reset inside it: bytes lost to a reconnection, a
\* restart or a reset always show as a close of the PTY.
PtyStreamContiguous ==
    [][\A c \in Channels :
         fed[c] # 0 /\ fed'[c] # fed[c] => fed'[c] \in {0, fed[c] + 1}]_vars

\* When the link fds stop failing the handshake completes on both sides,
\* whichever side opened first and whatever was flushed (open_link), and every
\* PTY settles to the state of its MCU.
LinkSettles ==
    <>[](/\ \A s \in Sides : link_up[s]
         /\ \A c \in Channels : pty[c] # "closed" <=> state[c] = "Active")
=============================================================================
