----------------------------- MODULE TcpTunnel ------------------------------
(***************************************************************************)
(* One TCP channel of serialmux (channel.rs): TcpSourceChannel accepts     *)
(* connections on the exporter, TcpDestChannel opens one to the service on *)
(* the host for each, and both name a connection by its slot (cid).        *)
(*                                                                         *)
(* Connections are numbered as they are accepted.  The number travels in   *)
(* the frames of the model only: the code sees the cid, the properties     *)
(* compare the number.  A payload is the position of a read in the stream  *)
(* of its connection.  net[s] holds what s has queued or written and the   *)
(* peer has not read; opening and closing the link lose what they lose in  *)
(* Session.  An event that is both readable and writable is two actions,   *)
(* and a loop of reads or accepts is a sequence of them.                   *)
(***************************************************************************)
EXTENDS Naturals, Sequences, FiniteSets, FiniteSetsExt

CONSTANTS MAX_TCP_CONNS,     \* slots
          CONN_HIGH_WATER,   \* payloads waiting for a socket
          MaxConns,          \* bound: connections accepted
          MaxItems,          \* bound: reads of all connections and sides
          MaxOpens,          \* bound: times each side opens the link
          None               \* an empty slot

Sides == {"exporter", "host"}
Peer(s) == IF s = "exporter" THEN "host" ELSE "exporter"
Slots == 0..(MAX_TCP_CONNS - 1)
Conns == 1..MaxConns

VARIABLES
    link_fd,     \* side -> the link fd is open
    link_up,     \* side -> handshake complete
    net,         \* side -> frames on their way to the peer
    opens,       \* side -> times the link was opened
    conns,       \* side -> slot -> TcpConn or None
    next_slot,   \* where the exporter looks for a free slot, modulo the slots
    accepted,    \* connections accepted so far
    \* history
    sent,        \* side -> connection -> payloads read from its socket
    got,         \* side -> connection -> payloads written to its socket
    ended,       \* side -> connection -> "no", "drained": closed on TCLOSE with
                 \*    all written, or "cut": closed in any other way
    overlaps,    \* <<old, new>>: new got its slot while something of old was left
    others       \* connection -> slots in use by others when it got its own

linkVars == <<link_fd, link_up, opens>>
slotVars == <<next_slot, accepted, overlaps, others>>
vars == <<linkVars, net, conns, slotVars, sent, got, ended>>

Frame(ftype, i, conn, n) == [ftype |-> ftype, cid |-> i, conn |-> conn, n |-> n]
HELLO == Frame("F_HELLO", 0, 0, 0)
ACK == Frame("F_ACK", 0, 0, 0)
TCONN(i, conn) == Frame("F_TCONN", i, conn, 0)
TDATA(i, conn, n) == Frame("F_TDATA", i, conn, n)

TCLOSE(i, conn) == Frame("F_TCLOSE", i, conn, 0)

TcpConn(conn, connecting) ==
    [conn |-> conn, connecting |-> connecting, close_pending |-> FALSE, txbuf |-> <<>>]

Init ==
    /\ link_fd = [s \in Sides |-> FALSE]
    /\ link_up = [s \in Sides |-> FALSE]
    /\ opens = [s \in Sides |-> 0]
    /\ net = [s \in Sides |-> <<>>]
    /\ conns = [s \in Sides |-> [i \in Slots |-> None]]
    /\ next_slot = 0
    /\ accepted = 0
    /\ sent = [s \in Sides |-> [c \in Conns |-> 0]]
    /\ got = [s \in Sides |-> [c \in Conns |-> 0]]
    /\ ended = [s \in Sides |-> [c \in Conns |-> "no"]]
    /\ overlaps = {}
    /\ others = [c \in Conns |-> 0]

Holds(s, c) == \E i \in Slots : conns[s][i] # None /\ conns[s][i].conn = c

-----------------------------------------------------------------------------
\* close_slot(notify = false) on every slot of s.
close_all(s) ==
    /\ conns' = [conns EXCEPT ![s] = [i \in Slots |-> None]]
    /\ ended' = [ended EXCEPT ![s] = [c \in Conns |-> IF Holds(s, c) THEN "cut" ELSE @[c]]]

\* open_link, with the flush of what has arrived.
open_link(s) ==
    /\ ~link_fd[s]
    /\ opens[s] < MaxOpens
    /\ opens' = [opens EXCEPT ![s] = @ + 1]
    /\ link_fd' = [link_fd EXCEPT ![s] = TRUE]
    /\ \E k \in 0..Len(net[Peer(s)]) :
         net' = [net EXCEPT ![s] = Append(@, HELLO),
                            ![Peer(s)] = SubSeq(@, k + 1, Len(@))]
    /\ UNCHANGED <<link_up, conns, slotVars, sent, got, ended>>

\* close_link, with what the queue and the kernel had not transmitted.
close_link(s) ==
    /\ link_fd[s]
    /\ opens[s] < MaxOpens
    /\ link_fd' = [link_fd EXCEPT ![s] = FALSE]
    /\ link_up' = [link_up EXCEPT ![s] = FALSE]
    /\ \E k \in 0..Len(net[s]) : net' = [net EXCEPT ![s] = SubSeq(@, 1, k)]
    /\ close_all(s)
    /\ UNCHANGED <<opens, slotVars, sent, got>>

\* Faulty variant: the host keeps the connections of the previous session.
on_link_connect_keeps(s) == UNCHANGED <<conns, ended>>

\* The host drops what is left of the previous session; the exporter does not.
on_link_connect(s) ==
    IF s = "host" THEN close_all(s) ELSE UNCHANGED <<conns, ended>>

\* F_HELLO and F_ACK in dispatch_frame; rest is net without the frame.
handshake(s, f, rest) ==
    /\ net' = IF f.ftype = "F_HELLO" THEN [rest EXCEPT ![s] = Append(@, ACK)] ELSE rest
    /\ link_up' = [link_up EXCEPT ![s] = TRUE]
    /\ IF f.ftype = "F_ACK" /\ link_up[s]
       THEN UNCHANGED <<conns, ended>> ELSE on_link_connect(s)
    /\ UNCHANGED <<link_fd, opens, slotVars, sent, got>>

-----------------------------------------------------------------------------
\* Faulty variant: a slot is closed without telling the peer.
close_slot_quietly(s, i, notify, frames) ==
    /\ conns' = [conns EXCEPT ![s][i] = None]
    /\ ended' = [ended EXCEPT ![s][conns[s][i].conn] = IF notify THEN "cut" ELSE "drained"]
    /\ net' = frames

\* close_slot on a slot in use.  Not to notify means that the peer closed and
\* all it sent has been written.
close_slot(s, i, notify, frames) ==
    /\ conns' = [conns EXCEPT ![s][i] = None]
    /\ ended' = [ended EXCEPT ![s][conns[s][i].conn] = IF notify THEN "cut" ELSE "drained"]
    /\ net' = IF notify /\ (s = "exporter" => link_up[s])
              THEN [frames EXCEPT ![s] = Append(@, TCLOSE(i, conns[s][i].conn))]
              ELSE frames

\* Faulty variant: the lowest free slot.
alloc_slot_lowest(i) ==
    /\ conns["exporter"][i] = None
    /\ \A j \in 0..(i - 1) : conns["exporter"][j] # None

\* The first free slot, round-robin from next_slot.
alloc_slot(i) ==
    \E k \in Slots :
       /\ i = (next_slot + k) % MAX_TCP_CONNS
       /\ conns["exporter"][i] = None
       /\ \A j \in 0..(k - 1) : conns["exporter"][(next_slot + j) % MAX_TCP_CONNS] # None

\* History: the connections of which slot i has something left on the host or on
\* the way.
Remains(i) ==
    {c \in Conns :
       \/ conns["host"][i] # None /\ conns["host"][i].conn = c
       \/ \E s \in Sides : \E k \in DOMAIN net[s] : net[s][k].cid = i /\ net[s][k].conn = c}

\* A connection is accepted.  With the link down or no slot free the code drops
\* it, which leaves no trace.
accept ==
    /\ link_up["exporter"]
    /\ accepted < MaxConns
    /\ accepted' = accepted + 1
    /\ \E i \in Slots :
         /\ alloc_slot(i)
         /\ next_slot' = (i + 1) % MAX_TCP_CONNS
         /\ conns' = [conns EXCEPT !["exporter"][i] = TcpConn(accepted', FALSE)]
         /\ net' = [net EXCEPT !["exporter"] = Append(@, TCONN(i, accepted'))]
         /\ overlaps' = overlaps \cup (Remains(i) \X {accepted'})
    /\ others' = [others EXCEPT ![accepted'] =
                    Cardinality({j \in Slots : conns["exporter"][j] # None})]
    /\ UNCHANGED <<linkVars, sent, got, ended>>

Readable(s, i) ==
    /\ conns[s][i] # None
    /\ ~conns[s][i].connecting
    /\ ~conns[s][i].close_pending

Reads == MapThenSumSet(LAMBDA x : sent[x[1]][x[2]], Sides \X Conns)

\* The readable part of tcp_event: a read yields data,
tcp_read(s, i) ==
    /\ Readable(s, i)
    /\ Reads < MaxItems
    /\ LET c == conns[s][i].conn
       IN  /\ sent' = [sent EXCEPT ![s][c] = @ + 1]
           /\ net' = [net EXCEPT ![s] = Append(@, TDATA(i, c, sent[s][c] + 1))]
    /\ UNCHANGED <<linkVars, conns, slotVars, got, ended>>

\* or the end of the stream, or an error.
tcp_eof(s, i) ==
    /\ Readable(s, i)
    /\ close_slot(s, i, TRUE, net)
    /\ UNCHANGED <<linkVars, slotVars, sent, got>>

\* The writable part of tcp_event: an asynchronous connect is over, the socket
\* takes some of the payloads, and a slot that waited for that is closed.
tcp_write(s, i) ==
    /\ conns[s][i] # None
    /\ conns[s][i].connecting \/ conns[s][i].txbuf # <<>>
    /\ \E k \in 0..Len(conns[s][i].txbuf) :
         LET c == conns[s][i]
             left == SubSeq(c.txbuf, k + 1, Len(c.txbuf))
         IN  /\ c.connecting \/ k > 0
             /\ got' = [got EXCEPT ![s][c.conn] = @ + k]
             /\ IF left = <<>> /\ c.close_pending
                THEN close_slot(s, i, FALSE, net)
                ELSE /\ conns' = [conns EXCEPT ![s][i] =
                                    [c EXCEPT !.connecting = FALSE, !.txbuf = left]]
                     /\ UNCHANGED <<net, ended>>
    /\ UNCHANGED <<linkVars, slotVars, sent>>

\* The connect or the write fails.
tcp_write_fails(s, i) ==
    /\ conns[s][i] # None
    /\ conns[s][i].connecting \/ conns[s][i].txbuf # <<>>
    /\ close_slot(s, i, TRUE, net)
    /\ UNCHANGED <<linkVars, slotVars, sent, got>>

-----------------------------------------------------------------------------
\* open_conn: the connect starts, or fails and the exporter is told.
open_conn(f, rest) ==
    \/ /\ conns' = [conns EXCEPT !["host"][f.cid] = TcpConn(f.conn, TRUE)]
       /\ net' = rest
       /\ UNCHANGED ended
    \/ /\ net' = [rest EXCEPT !["host"] = Append(@, TCLOSE(f.cid, f.conn))]
       /\ ended' = [ended EXCEPT !["host"][f.conn] = "cut"]
       /\ UNCHANGED conns

\* Faulty variant: a close overtakes the data that waits for the socket.
on_tclose_at_once(s, f, rest) == close_slot(s, f.cid, FALSE, rest)

\* Faulty variant: every close waits for a write, also when none will come.
on_tclose_waits(s, f, rest) ==
    /\ conns' = [conns EXCEPT ![s][f.cid].close_pending = TRUE]
    /\ net' = rest
    /\ UNCHANGED ended

\* F_TCLOSE for a slot in use: at once, or when the data is written.
on_tclose(s, f, rest) ==
    IF conns[s][f.cid].txbuf = <<>>
    THEN close_slot(s, f.cid, FALSE, rest)
    ELSE /\ conns' = [conns EXCEPT ![s][f.cid].close_pending = TRUE]
         /\ net' = rest
         /\ UNCHANGED ended

\* Faulty variant: data is ignored while the connect is in progress.
on_tdata_connected(s, f, rest) ==
    /\ conns' = IF conns[s][f.cid].connecting THEN conns
                ELSE [conns EXCEPT ![s][f.cid].txbuf = Append(@, [conn |-> f.conn, n |-> f.n])]
    /\ net' = rest
    /\ UNCHANGED ended

\* F_TDATA for a slot in use.
on_tdata(s, f, rest) ==
    IF Len(conns[s][f.cid].txbuf) > CONN_HIGH_WATER
    THEN close_slot(s, f.cid, TRUE, rest)
    ELSE /\ conns' = [conns EXCEPT ![s][f.cid].txbuf = Append(@, [conn |-> f.conn, n |-> f.n])]
         /\ net' = rest
         /\ UNCHANGED ended

\* on_frame: a TCONN for a slot in use, and data or a close for an empty one,
\* are ignored.
on_frame(s, f, rest) ==
    /\ \/ f.ftype = "F_TCONN" /\ conns[s][f.cid] = None /\ open_conn(f, rest)
       \/ f.ftype = "F_TDATA" /\ conns[s][f.cid] # None /\ on_tdata(s, f, rest)
       \/ f.ftype = "F_TCLOSE" /\ conns[s][f.cid] # None /\ on_tclose(s, f, rest)
       \/ /\ (f.ftype = "F_TCONN") # (conns[s][f.cid] = None)
          /\ net' = rest
          /\ UNCHANGED <<conns, ended>>
    /\ UNCHANGED <<linkVars, slotVars, sent, got>>

\* A frame is read and dispatched; channels get theirs even before the
\* handshake is complete.
link_read(s) ==
    /\ link_fd[s]
    /\ net[Peer(s)] # <<>>
    /\ LET f == Head(net[Peer(s)])
           rest == [net EXCEPT ![Peer(s)] = Tail(@)]
       IN  IF f.ftype \in {"F_HELLO", "F_ACK"} THEN handshake(s, f, rest)
                                              ELSE on_frame(s, f, rest)

Next ==
    \/ accept
    \/ \E s \in Sides :
         \/ open_link(s) \/ close_link(s) \/ link_read(s)
         \/ \E i \in Slots : \/ tcp_read(s, i) \/ tcp_eof(s, i)
                             \/ tcp_write(s, i) \/ tcp_write_fails(s, i)

Spec == Init /\ [][Next]_vars

-----------------------------------------------------------------------------
\* A cid does not say which connection of its slot is meant: what is left of an
\* old connection is taken for the new one, and the other way round.
Overlapped(c) == \E p \in overlaps : c \in {p[1], p[2]}

\* "Round-robin" (alloc_slot): a slot is not given away while something of its
\* connection is left before every slot that was free then has been used.
RoundBeforeReuse == \A p \in overlaps : p[2] - p[1] >= MAX_TCP_CONNS - others[p[1]]

\* A socket is given the bytes of its own connection, in order and without a
\* gap (tcp_event, on_frame), whatever connections its slot had before, unless
\* something of them was left: what waits for it continues what it got.
StreamExact ==
    \A s \in Sides, i \in Slots :
       conns[s][i] # None /\ ~Overlapped(conns[s][i].conn) =>
          \A k \in DOMAIN conns[s][i].txbuf :
             conns[s][i].txbuf[k] =
                [conn |-> conns[s][i].conn, n |-> got[s][conns[s][i].conn] + k]

\* A close never overtakes data (close_pending): an end that closed because
\* the other did had written all that the other had read.
CleanCloseComplete ==
    \A s \in Sides, c \in Conns :
       ended[s][c] = "drained" /\ ~Overlapped(c) => got[s][c] = sent[Peer(s)][c]

Pending(s, ftype, c) ==
    \E k \in DOMAIN net[s] : net[s][k].ftype = ftype /\ net[s][k].conn = c

\* The host keeps no connection to the service whose client is gone
\* (on_link_connect, close_slot): the exporter still has it, its close is on
\* its way or being carried out, or the exporter is yet to say HELLO.
NoOrphanAtHost ==
    link_fd["exporter"] /\ ~Pending("exporter", "F_HELLO", 0) =>
       \A i \in Slots :
          LET c == conns["host"][i]
          IN  c # None => \/ Holds("exporter", c.conn)
                          \/ c.close_pending
                          \/ Pending("exporter", "F_TCLOSE", c.conn)
                          \/ Overlapped(c.conn)

\* "Data is forwarded bidirectionally until one side sends F_TCLOSE": while a
\* client is connected the host has the connection, is yet to hear of it, or
\* has said that it is closed.
NoOrphanAtExporter ==
    link_fd["host"] /\ ~Pending("host", "F_HELLO", 0) =>
       \A i \in Slots :
          LET c == conns["exporter"][i]
          IN  c # None => \/ Holds("host", c.conn)
                          \/ c.close_pending
                          \/ Pending("exporter", "F_TCONN", c.conn)
                          \/ Pending("host", "F_TCLOSE", c.conn)
                          \/ Overlapped(c.conn)

\* Both ends of a connection close: when one has, the other does (close_slot,
\* close_pending).
EndsTogether ==
    \A s \in Sides, c \in Conns :
       ended[s][c] # "no" ~> ~Holds(Peer(s), c) \/ Overlapped(c)
=============================================================================
