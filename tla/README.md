# A TLA+ model of serialmux

`serialmux` carries the serial ports of a printer's microcontrollers (MCUs), and
TCP connections, over one USB CDC ACM link between an *exporter* (the printer,
which owns the UARTs) and a *host* (the Pi, which offers PTYs to Klipper).
`windlass-bridge` does the same for MCUs that speak Klipper's protocol, as a
transparent relay or as a proxy that answers for the MCU. This directory specifies
both in TLA+, checks them with TLC on small instances and proves the main invariants
with TLAPS for every instance. The reference is the Rust code in `serialmux-rs/src`.

## The system

| Part | Code | Modules |
| --- | --- | --- |
| TX queue: ring buffer of outgoing bytes | `protocol.rs` `TxQueue` | `TxQueue`, `ByteFifo`, `TxQueueProofs` |
| Link session: open, close, HELLO/ACK, dispatch | `daemon.rs` | `Session`, `SessionProofs` |
| Keepalive: PING/PONG, timeout | `daemon.rs` `tick_keepalive` | `Keepalive`, `KeepaliveProofs` |
| MCU channel: UART, timers, epoll interest | `channel.rs` `McuChannel` | `McuChannel`, `SerialProofs`; its protocol in `Session` |
| PTY channel: PTY, write buffer, epoll interest | `channel.rs` `PtyChannel` | `PtyChannel`, `SerialProofs`; its protocol in `Session` |
| TCP tunnel channels | `channel.rs` `TcpSourceChannel`, `TcpDestChannel` | `TcpTunnel` |
| Event loop, backpressure | `daemon.rs` `run`, `check_bp_high` | `LinkLoop`, `LinkLoopProofs` |
| Token map | `channel.rs` `channel_id_for_token` | `TokenMap`, `LinkLoopProofs` |
| Frame format and parser | `protocol.rs` `build_frame`, `FrameParser` | `FrameParser`, `Decoders` |
| windlass codecs | `windlass/framing.rs` | `WindlassCodec`, `Decoders` |
| windlass transparent relay | `windlass/exporter.rs`, `host.rs` | `Relay`, `RelayProofs` |
| windlass smart proxy | `windlass/smart_exporter.rs`, `smart_host.rs` | `SmartProxy`, `SmartProxyProofs` |
| windlass serial device | `windlass/async_serial.rs` | what the tasks see of it, in `Relay` and `SmartProxy` |
| System calls (termios, openpty, sysfs) | `serial.rs` | outcomes are nondeterministic choices of the callers |
| Command lines, logging, device search | `main.rs`, `logging.rs`, `windlass/mod.rs`, `bin/` | not modelled |
| C original | `src/` | not modelled |

Each serialmux daemon is one thread around `mio::Poll`: a handler runs to its end
before the next one starts, so a handler is one action. Interleaving comes from the two
daemons, the kernel, the cable and the devices. `windlass-bridge` is a set of tokio
tasks on several threads, joined by queues: there a step is one message of one task.

## Modules

**TxQueue / ByteFifo.** `TxQueue` has the store, `head` and `tail`, one action per
method; `wire` is what the latest `write(2)` accepted and `call` is the call as its
caller sees it. `ByteFifo` is what callers rely on: a frame is taken whole or refused
whole, bytes leave in order, and only `reset` discards. Because `call` is part of
both, a loss in `enqueue` cannot pass for a `reset`.

**Session.** Two daemons and a FIFO of frames each way. `link_fd`, `link_up` and `txq`
are the fields of `Daemon`; `state`, `uart` and `mcu_up` those of `McuChannel`; `pty`
those of `PtyChannel`. Frames are lost where the code or the kernel loses bytes:
`close_link` resets the queue and may lose what was not transmitted, `open_link`
flushes input (TCSAFLUSH). The daemon visits channels in `HashMap` order, so
announcements come in any order (`Orders`). UART reads are numbered, and an MCU reset
takes a number too, so a gap in what a PTY is fed shows.

**Keepalive.** Two connected daemons, time in ticks of `MAX_TICK`, instants as ages.
`last_tx` is assigned wherever the code assigns it, which is more often than a frame
is sent.

**McuChannel.** One channel with the environment that drives it: the MCU, the event
batch `poll()` returned, the daemon's calls. One tick is a second.

**TcpTunnel.** One TCP tunnel over a session that reconnects: the exporter accepts
clients into slots (round robin), the host connects to the service. A slot holds the
`TcpConn` of either side; payloads are numbered per connection, and `sent`, `got` and
`ended` record what entered, what left and how a connection ended. A connect may stay
in progress, a socket may take nothing, and a connection that reaches
`CONN_HIGH_WATER` is closed. A frame names only its slot, so a slot that is given away
while something of its old connection is left (frames on their way, or the host's end
still draining) mixes the two: `overlaps` records such pairs, the properties of streams
and closes speak of the connections that are in none, and `RoundBeforeReuse` bounds when
a pair can arise.

**PtyChannel.** One channel with the daemon that calls it and Klipper at the slave side.
Payloads of the link are numbered, and `start`, `written` and `broken` record what the
present opening of the PTY was fed. `MCSerial` puts it beside `McuChannel`: a behaviour
is one of either end; `MCChannels` adds, in the same way, a TCP channel on a link that
stays up. Likewise `MCTunnel` has the behaviours of `TxQueue` and those of a TCP channel
whose link reconnects, and `MCSmartStreams` those of two instances of `SmartProxy`.

**LinkLoop.** One daemon's loop: the top of the loop with `poll()`, then one action per
event of the batch. The ring is a position and a fill level, of the size the code gives
it: the high-water mark, one largest frame and a margin (`Guard`). `dropped` says that
the latest handler lost a frame; `unheld` counts the bytes of TCP data and control
frames queued since the queue was below the mark. The kernel is modelled at its least
helpful: an edge is reported only when the tty *becomes* writable or the registration is
renewed.

**TokenMap.** The tokens of the fds and the way back from them, with the constants of
the code. No state, so no run: the two theorems about it, in `LinkLoopProofs`, say all
there is.

**FrameParser, WindlassCodec, Decoders.** The four decoders as operators on a buffer:
`drain_frames` of serialmux, `TunnelCodec`, `PayloadTunnelCodec` and `KlipperFramer` of
windlass. `Decoders` feeds one of them a stream of small bytes in pieces. `Meaning` and
`KlipperMeaning` say which frames a stream contains, without a buffer and without
reads.

**Relay.** Both processes of the transparent relay: the USB writer and the main loop of
each side, two tasks per UART, the accept loop of a socket and two tasks per connection.
A write error ends one task, a read error of the link ends the process, which is started
again. `torn` says that a frame was cut on the link, so that `TunnelCodec` may swallow
what follows. Klipper connects again after it has disconnected.

**SmartProxy.** Both processes of the smart proxy. The exporter fetches the dictionary
of each MCU and sends it once, in fragments; the host gathers it, answers `identify`
from it, and relays all other payloads. A byte of a dictionary is its channel, firmware
and position, so a dictionary made of parts of two shows. `aligned` says whether
`PayloadTunnelCodec`, which has no marker to find a frame by, still reads at a frame
boundary; when it does not, it may yield frames nobody sent (`MaxJunk` bounds them).

**QueueLemmas.** What appending to a queue, taking from it and cutting it do to its
elements and their order, for the proofs about both windlass modules; and what a move
from one queue to the next does to the order of a control queue, link and USB queue
taken together (`Pipeline`).

Operators commented *Faulty variant* are plausible bugs. No specification uses them;
each is swapped in for the operator it varies, to show that a property can fail.

## Runs

| Run | Bounds | Shows |
| --- | --- | --- |
| `session` | 1 channel, 2 opens per side, 4 reads or resets, PTY may fail | the PTY agrees with the MCU once all is heard; a closed link is silent; each PTY opening carries a contiguous stream; the handshake completes and the PTY settles |
| `keepalive` | 3 and 10 ticks, as in the code, traffic on both sides that comes and goes | a quiet link hears a sign of life each interval; a cut cable is noticed by both |
| `keepalive_one_way` | 3 and 10 ticks, traffic from the exporter | **violated**: see findings |
| `channels` | MCU: silence 3, reopen 2, retry 1, 2 payloads. PTY: room for 1 payload, 4 payloads. TCP: 2 slots, 3 clients, 1 payload, 1 open per side | MCU: timers, interest, announcements, buffer, and resets only of an MCU that was not heard. PTY: each opening is fed what came since; nothing waits for ever. TCP: a slot is reused early only when the free ones are used; no client without its connection; both ends close |
| `tunnel` | ring of 6, two byte values, frames up to 3 bytes and one too large; TCP: 1 slot, 2 clients, 3 payloads, 2 opens per side | indices stay in range and the ring is a bounded FIFO, wrap-around and partial writes included; unless two connections overlapped in the slot, streams are exact, a clean close loses nothing, and the host keeps no connection the exporter has dropped |
| `tcp_orphan` | 1 slot, 1 client, 2 opens per side | **violated**: see findings |
| `link_loop` | ring of 11, marks 6 and 3, largest frame 4, 2 serial channels reading up to 2, 1 TCP connection with up to 2 frames per event | a frame is dropped only after a burst of TCP data and control frames larger than the room the serial reads leave; the queue is always written; backpressure ends and leaves nobody paused |
| `link_overflow` | ring of 15, marks 10 and 5, 1 serial channel, otherwise the same | **violated**: see findings |
| `decoders` | streams of 8 bytes over 5 values, reads of up to 7; payloads of at most 1, Klipper frames of 2 or 3 | each decoder delivers the frames of the stream, in every cutting and with any damage, and keeps less than a frame |
| `relay` | 1 MCU, 2 connections, 2 MCU frames, 1 command each, 1 fault | a served client gets every frame that arrives; nothing is queued for an old one; commands keep their order; tasks end with their client |
| `smart_proxy` | 1 MCU with 2 firmwares, dictionary of 3 bytes in fragments of 2, 2 connections, 1 payload and 1 command, 1 fault, exit or further connection, 1 made-up frame | dictionaries arrive, whole unless a restart cut them; Klipper fetches the one the host has |
| `smart_streams` | 1 MCU, 2 payloads, 2 connections of 2 commands each, 1 fault, exit or further connection; or 2 MCUs with 1 payload, 1 connection and 1 command each, no fault | payloads reach the clients of their MCU, in order and with no gap of the host's making; commands keep their order, reach their own MCU, and are lost only with a task or process |

Two opens per side are the fewest with a reconnection while the peer stays up, a
reconnection of both, and a restart in between. Four items allow READY, data, a reset
and data again. A link is closed only while its side may open it again, so a bounded run
never ends with the link down merely because the bound ran out. The ring of six holds
five bytes, so frames of three wrap in every position. In `link_loop` the room above the
mark is one largest frame and one byte, as in the code: two serial channels read 4 of
these 5 bytes in a batch, so a TCP frame beside them already overflows. One slot for two
clients in `tunnel` is reused, both early and after all of the first connection is gone;
two slots for three clients in `channels` are what round-robin allocation needs to
differ from taking the lowest free slot. With room for one payload in the PTY a second
waits, and a third may come between closing and opening. Eight bytes of a decoder's
stream hold two frames, or a damaged header that claims a valid frame's bytes, and
exceed the buffer of six, so that `feed` takes two passes. One fault of `relay` is a
failed write, a failed read, or an exit with the restart it brings; two connections are
what a detached task of the old one needs to meet the new one. A dictionary of three
bytes has a full fragment and a shorter last one. Two payloads and two commands are the
fewest with an order and a gap to get wrong, and two MCUs the fewest with a payload of
another; with faults as well the second MCU is beyond a few minutes. The runs of
`session`, `tcp_orphan`, the decoders and windlass stop when their clients, payloads or
stream are used up, hence `CHECK_DEADLOCK FALSE` there; in `channels` and `tunnel` the
TCP part may stop, by a step of its own, and the others may not.

**Fairness.** `Session` assumes weak fairness of opening, writing and reading the link:
`run()` retries after `reopen_at`, and re-arms the link fd while the queue is not empty.
It assumes none of closing, of the MCU or of the UART. `Keepalive` assumes weak fairness
of time and of the timers, as `poll()` blocks at most `MAX_TICK`. For a TCP channel
`MCChannels` assumes it of opening and reading the link and, per connection, of its
write or failure: a connect or a write finally succeeds or fails. `LinkLoop` assumes it
of the loop, of each event of a batch, of reopening and of the tty. `PtyChannel` assumes
it of the handler, of the end of backpressure and of a Klipper that reads, and strong
fairness of `poll()`: a channel paused and resumed for ever is polled in between, since
it is resumed at the low-water mark and whoever could fill the queue again was paused
with it. `Relay` and `SmartProxy` assume weak fairness per task, as tokio polls every
task that is woken, and, in `SmartProxy`, of a Klipper that goes on asking for the
dictionary; neither assumes it of errors, exits or restarts.

## Findings

Three runs show the code at odds with what it says of itself:

1. *One-way traffic closes a good link* (`daemon.rs:339`, `:477`; `keepalive_one_way`).
   `last_tx` is renewed after every routed frame and every channel event, sent or not. A
   side that only receives never pings, the sender never pings either, and after
   `KA_TIMEOUT` the sender closes the link. The C code renews it only in its
   `enqueue_frame` and at open.
2. *Clients are orphaned when the host reconnects* (`channel.rs:1020`; `tcp_orphan`).
   HELLO while the exporter's link is up only sets `link_up` of `TcpSourceChannel`; the
   host has dropped its connections, the clients stay connected and their data goes
   nowhere.
3. *The TCP read loop overflows the queue* (`channel.rs:850`; `link_overflow`). "Pause all
   channel reads when the TX queue exceeds this many bytes": the mark is tested after the
   handler, which reads a connection until it would block, so one event may queue many
   frames, and the events of the batch that follow are handled under backpressure too. The
   room above the mark is one largest frame and 64 bytes, 16,458 in all. Frames that do
   not fit are dropped, an ACK or a READY among them. What the marks do guarantee is
   `DropsNeedABurst`: each serial channel queues at most one read of 4,106 bytes above the
   mark, so that four of them (16,424) always fit, and every loss needs TCP data or
   control frames beyond what those reads leave.

Limits of the code that the models make precise:

4. *Backpressure looks like silence* (`channel.rs:404`). A paused UART is not read, so
   `last_rx` ages and a talking MCU is declared resetting. `ResetMeansUnheard` therefore
   allows a reset while input waits unread; `SilenceWithoutPauses` proves that a channel
   that is never paused does not do this.
5. *Slots that are reused at once* (`channel.rs:1351`). A TCONN for a slot the host still
   drains is ignored, and frames of the old connection reach the new one: without an
   exception for it `StreamExact`, `CleanCloseComplete`, `NoOrphanAtHost` and
   `NoOrphanAtExporter` fail with one slot and two clients. Round-robin
   allocation (`channel.rs:781`) puts it off: `RoundBeforeReuse` says that a connection
   meets what is left of an older one only after as many accepts as there were slots not
   taken by others when the older one was accepted. The properties are about connections
   to which this did not happen.
6. *A dictionary is sent once* (`smart_exporter.rs:121`). A host that starts after the
   exporter flushes it and waits for ever; fragments of a transfer that was cut stay and
   are joined to the next; the first dictionary taken is kept for the life of the host.
   `DictArrives` and `DictionaryWhole` exclude these cases and hold in all others.
7. *Commands of an old connection may follow those of a new one* (`host.rs:227`), only
   if the old one was given up because a write to it failed; `CommandOrder` says so.

## Proofs

- `TxQueueProofs`: `TypeCorrect` and `RingImplementsFifo`, for every size, byte set and
  frames. Lemmas remove the modulus (`DistanceValue`, `SlotValue`); `EnqueueAppends` and
  `DrainTakesOldest` show what a call does to the queued sequence.
- `SessionProofs`: `TypeCorrect`, `ClosedSilence` and `Agreement`, for any finite set of
  channels and any bounds. `PtyAgrees` is not inductive: it speaks only of states where
  nothing is pending. `IInv` adds, per channel, that the latest deciding frame on its
  way to the host (READY or FLUSH) names the MCU's present state (`Latest`), and that
  if none is on its way the PTY has that state already, unless a HELLO will cause a
  repeat (`Heard`). IInv was checked with TLC on two channels first.
  `StreamsAreContiguous` (`PtyStreamContiguous`): the property compares the item the PTY
  is fed with the one before, so `Contiguous` follows all items on their way. In the
  sequence of what was fed last, what is on the link and what is queued, each item of a
  channel is the successor of the one before it (`Chain`), and the last one is the MCU's
  latest (`Ends`), unless a HELLO or a FLUSH, on which the host closes the PTY, lies
  between.
- `KeepaliveProofs`: `QuietLinkIsHeard` (`HeardWithinInterval`), for any `KA_INTERVAL`
  and `KA_TIMEOUT`. `last_tx` alone proves nothing, as it is also assigned where nothing
  is queued. The invariant says when it can be believed: `Honest`, an age of `last_tx`
  younger than the latest channel event stands for a frame that is on its way or was
  read since; `Prompt`, once the timers have run a side has sent within the interval;
  `OnlyControl`, a tick after the latest event only PING and PONG are on their way.
  `IdleLinkStaysUp`: with `KA_INTERVAL < KA_TIMEOUT` and no channel traffic at all, a
  timeout never closes a good link. This is the property that fails in finding 1, so the
  theorem says that the traffic, and not the choice of the intervals, is its cause.
- `SerialProofs`, about `McuChannel`: `TypeCorrect`, `InterestCorrect`,
  `NeverStuckCorrect`, `HostIsTold`, `CommandsAreFresh` and `ResetIsUnheard`, for any
  times and buffer bound; with `MayPause` false also `SilenceWithoutPauses`. About
  `PtyChannel`: `StreamIsExact` and `RegistrationMatches`, for any `Room` in Nat and any
  number of payloads. `PtyInv` adds to `PtyStream` that a closed PTY holds nothing and
  was fed nothing, so that an opening starts afresh, and that an open one is registered
  for exactly what `update_interest` computes.
- `LinkLoopProofs`: `TypeCorrect`, `PausesAreBackpressure` and `OnlyBurstsDrop`
  (`DropsNeedABurst`), for any sizes, finite sets of channels, reads per event and numbers
  of control frames. The property speaks of the moment of a loss only. `Room` follows the
  queue before it: below the mark nothing is counted; from the mark on, what is queued
  above it is at most `unheld` and a read of each serial channel whose event of the batch
  has been handled (`SerialDue` counts those to come), since a paused channel has no event
  in a later batch. The `Due...` lemmas say how each event lowers it.
- `LinkLoopProofs` also has `TokensRouteBack` and `TokensAreDistinct`, about `TokenMap`.
- `RelayProofs`, for any channels, connections and bounds. `OldClientsAreQuiet`
  (`OldClientQuiet`): the demux looks only at the slot, so the invariant is that the slot
  is empty or holds the sender of the connection that is served (`SlotIsServed`).
  `ClientsAreServed` (`ClientStream`): frames of an MCU lie in order on the whole way from
  the UART to Klipper, and what a connection has got or has queued is what arrived since
  it was accepted, but for what was lost before it arrived. `CommandsInOrder`
  (`CommandOrder`): commands are in order along their way, unless their connection was
  given up after a failed write; an order is a set of pairs of commands, and each queue
  is sorted by it and comes after the queues in front of it.
- `SmartProxyProofs`, for any MCUs, sockets, connections, dictionary and fragment sizes.
  `KlipperHasTheDictionary` (`FetchedWhole`): `Fetch` says of each connection that what
  Klipper has put together, the one answer that may be on its way, and the one request
  that may be unread fit together as a beginning of the host's dictionary.
  `DictionariesAreWhole` (`DictionaryWhole`): a dictionary is known to be whole only when
  it is published, so `DictInv` follows the transfer. For a channel with no torn transfer
  on a link that never lost its frame boundary, what the host has gathered is the first
  p pieces of one dictionary, the pieces on their way (`ctrl_q`, link, USB queue) are the
  ones after p, in order and without a gap (`OnItsWay`), and a channel that is not yet
  booted has none (`NotBegun`). Both invariants were checked with TLC first, on the
  constants of `smart_proxy` completely and with two MCUs and three faults in part.

The assumptions are those on the constants (`ASSUME` in each module, and in the
statement of a theorem where it has one). Only model checked:

- the liveness properties, which these provers do not reach;
- the decoders, which are recursive over data, on which the provers cannot induct;
- `TcpTunnel`, and with it how long round-robin allocation puts off the reuse of a slot;
- `ClientStream` and `CommandOrder` of `SmartProxy`, whose queues are those of `Relay`.

## Abstractions

Frames are atomic in `Session` (the parser reassembles them); payloads are numbers; the
TX queues of `Session` and `TcpTunnel` have no capacity (`LinkLoop` has, so the streams
of `TcpTunnel` are exact as far as finding 3 does not drop their frames); time is absent
from `Session`, where any close may be a timeout. The EIO branch of `PtyChannel` is
kept, although the daemon holds the slave fd open; other errors of a read of an open
PTY, which the code ignores, are left out. In `PtyChannel` the tty holds no more than
one read takes. `TcpTunnel` leaves out restarts of the exporter, failed registrations,
and pause and resume of its sockets. `LinkLoop` bounds the control frames queued before
the queue empties (`MaxControl`), which are not subject to backpressure, and the frames
a connection has ready (`MaxReads`). It lets other events come between the read and the
write of one link event, which only adds behaviours. `FrameParser` leaves out type and
channel, which the parser does not look at and the checksum does not cover. `Relay` and
`SmartProxy` take frames as whole, with the damage a cut one does in `torn` and
`aligned`; a message of Klipper to the smart proxy holds one command (`dispatch_raw`
forwards the rest of a message from the first command that is not `identify` on); the
checksums of Klipper's frames, and the transports of the crates windlass and anchor, are
external.

## Not modelled

- *System calls, command lines, device search, logging*: they run once, or are thin
  wrappers whose outcomes the callers choose among.
- *The C daemon*: the Rust code is its port. It differs in pushing a frame in three
  parts, in `last_tx`, in testing for silence only while the link is up, and in testing
  the high-water mark before a data frame is queued; a model of it would be a second project beside this one.
- In `Session`, the host-to-MCU direction and the queue bound, with what a dropped ACK
  or READY does; in `TcpTunnel`, socket interest, pause and restart of the exporter.
