---------------------------- MODULE RelayProofs -----------------------------
(***************************************************************************)
(* Proofs about Relay, for any channels and any bounds: the demux of the   *)
(* host queues frames for the connection that is served and no other, a    *)
(* client is given every frame that arrives while it is served, and the    *)
(* commands reach a UART in order.                                         *)
(*                                                                         *)
(* IInv: the demux looks only at klipper_tx_slot, which never holds the    *)
(* sender of another connection.  PipeInv and StreamInv: the frames of an  *)
(* MCU between the exporter and a client are in order and without gaps     *)
(* but for what is lost.  CommandInv and ConnsInv: the commands between a  *)
(* client and a UART are in order, and a reader outlives its connection    *)
(* only when a write to the client has failed.                             *)
(***************************************************************************)
EXTENDS Relay, QueueLemmas

Frames == [ch : Uarts \cup Sockets, conn : Nat, n : Nat]

Records == [peer : {"none", "open", "closed"}, reader : {"none", "run", "done"},
            writer : {"none", "run", "done"}, synced : BOOLEAN,
            klipper_q : Seq(Frames), unread : Seq(Frames), sent : Nat,
            got : Seq(Frames), seen : Nat, broke : BOOLEAN]

TypeOK ==
    /\ usb_q \in [Sides -> Seq(Frames)]
    /\ usb_writer \in [Sides -> BOOLEAN]
    /\ wire \in [Sides -> Seq(Frames)]
    /\ conns \in [Sockets -> [Conns -> Records]]
    /\ serving \in [Sockets -> Conns \cup {0}]
    /\ slot \in [Sockets -> Conns \cup {0}]
    /\ mcu_sent \in [Uarts -> Nat]
    /\ arrived \in [Sockets -> Nat]

\* The slot is empty or holds the sender of the connection that is served.
SlotIsServed == \A ch \in Sockets : slot[ch] \in {0, serving[ch]}

IInv == TypeOK /\ SlotIsServed

\* The order of the frames of one source: by their numbers.
McuOrder == {p \in Frames \X Frames : p[1].ch = p[2].ch => p[1].n < p[2].n}

\* What a client has written and no task has read: its own numbered commands.
UnreadOK(ch, c, r) ==
    /\ Sorted(r.unread, McuOrder)
    /\ \A u \in Range(r.unread) : u.ch = ch /\ u.conn = c /\ u.n <= r.sent

\* A reader runs on after its connection only if a write to the client failed.
OneConnInv(ch, c, r, sv, sl) ==
    /\ UnreadOK(ch, c, r)
    /\ r.peer = "none" => r = NoConn
    /\ r.reader = "run" => r.broke \/ (sv = c /\ sl = c)
    /\ r.reader = "run" /\ r.writer = "done" => r.broke

\* What a step may do to the queue of a connection.
Quiet(ch, c) == Len(conns'[ch][c].klipper_q) > Len(conns[ch][c].klipper_q) => c = serving[ch]
AllQuiet == \A ch \in Sockets, c \in Conns : Quiet(ch, c)

-----------------------------------------------------------------------------
\* The rest of a queue, and its first frame.
LEMMA HeadTail ==
    ASSUME NEW q \in Seq(Frames), q # <<>>
    PROVE  Head(q) \in Frames /\ Tail(q) \in Seq(Frames) /\ Len(Tail(q)) <= Len(q)
<1>1. Len(Tail(q)) = Len(q) - 1 /\ Len(q) \in Nat
  BY TakeFirst, Zenon
<1> QED  BY <1>1, TakeFirst

\* Appending a frame to a queue.
LEMMA AppendFrame ==
    ASSUME NEW q \in Seq(Frames), NEW f \in Frames
    PROVE  /\ Append(q, f) \in Seq(Frames) /\ Len(Append(q, f)) = Len(q) + 1 /\ Len(q) \in Nat
           /\ Range(Append(q, f)) = Range(q) \cup {f}
BY AppendOne

\* Taking the first frame of a queue in order.
LEMMA TakeFrameSorted ==
    ASSUME NEW q \in Seq(Frames), q # <<>>, Sorted(q, McuOrder)
    PROVE  Sorted(Tail(q), McuOrder) /\ Before({Head(q)}, Range(Tail(q)), McuOrder)
BY TakeFirstSorted, Zenon

\* Connections are numbered from one.
LEMMA ConnNumbers == \A c \in Conns : c \in Nat /\ c # 0
BY DEF Conns

\* A count of commands is not less than itself.
LEMMA Unsent == \A k \in Nat : k <= k
OBVIOUS

\* What is not above a count is not above a larger one.
LEMMA Beyond == \A i, j, k \in Nat : i <= j /\ k > j => i <= k
OBVIOUS

\* A connection with a task has a peer.
LEMMA LiveConn ==
    ASSUME NEW ch, NEW c, NEW r, NEW sv, NEW sl, OneConnInv(ch, c, r, sv, sl),
           r.reader = "run" \/ r.writer = "run"
    PROVE  r.peer # "none"
BY DEF OneConnInv, NoConn

\* A step that leaves the connections alone.
LEMMA SameConns ==
    ASSUME IInv, conns' = conns
    PROVE  AllQuiet
<1>1. ASSUME NEW ch \in Sockets, NEW c \in Conns PROVE Quiet(ch, c)
  <2>1. conns[ch][c].klipper_q \in Seq(Frames)
    BY <1>1, ZenonT(30) DEF IInv, TypeOK, Records
  <2>2. Len(conns[ch][c].klipper_q) \in Nat
    BY <2>1, Elements, Zenon
  <2> QED  BY <2>2 DEF Quiet
<1> QED  BY <1>1, Zenon DEF AllQuiet

\* A step that changes one connection, and does not lengthen its queue.
LEMMA OneConn ==
    ASSUME IInv, NEW ch \in Sockets, NEW c \in Conns, NEW r \in Records, Conn(ch, c, r),
           Len(r.klipper_q) <= Len(conns[ch][c].klipper_q)
    PROVE  conns' \in [Sockets -> [Conns -> Records]] /\ AllQuiet
<1>1. conns \in [Sockets -> [Conns -> Records]]
  BY Zenon DEF IInv, TypeOK
<1>2. conns' = [conns EXCEPT ![ch] = [conns[ch] EXCEPT ![c] = r]]
  BY <1>1, Zenon DEF Conn
<1>3. conns' \in [Sockets -> [Conns -> Records]]
  BY <1>1, <1>2, Zenon
<1>4. ASSUME NEW d \in Sockets, NEW e \in Conns PROVE Quiet(d, e)
  <2>1. /\ conns[d][e] \in Records
        /\ conns'[d][e] = IF d = ch /\ e = c THEN r ELSE conns[d][e]
    BY <1>1, <1>2, Zenon
  <2>2. /\ Len(conns[d][e].klipper_q) \in Nat
        /\ Len(r.klipper_q) \in Nat
    BY <2>1, Elements DEF Records
  <2> QED  BY <2>1, <2>2 DEF Quiet
<1> QED  BY <1>3, <1>4, Zenon DEF AllQuiet

\* A frame of the USB link reaches the queue of the served connection only.
LEMMA RouteKeeps ==
    ASSUME IInv, NEW f \in Frames, route_to_client(f)
    PROVE  conns' \in [Sockets -> [Conns -> Records]] /\ AllQuiet
<1>1. conns \in [Sockets -> [Conns -> Records]]
  BY Zenon DEF IInv, TypeOK
<1> DEFINE ch == f.ch
           c == slot[ch]
           r == conns[ch][c]
           q == Append(r.klipper_q, f)
<1>2. CASE ~(ch \in Sockets /\ c # 0 /\ r.writer = "run")
  BY <1>1, <1>2, SameConns, Zenon DEF route_to_client
<1>3. CASE ch \in Sockets /\ c \in Conns /\ c # 0 /\ r.writer = "run"
  <2>1. r \in Records /\ r.klipper_q \in Seq(Frames)
    BY <1>1, <1>3 DEF Records
  <2>2. q \in Seq(Frames)
    BY <2>1, AppendFrame, Zenon
  <2>3. [r EXCEPT !.klipper_q = q] \in Records
    <3> HIDE DEF r, q
    <3> QED  BY <2>1, <2>2, Zenon DEF Records
  <2>4. conns' = [conns EXCEPT ![ch] = [conns[ch] EXCEPT ![c] = [r EXCEPT !.klipper_q = q]]]
    BY <1>1, <1>3, Zenon DEF route_to_client
  <2>5. c = serving[ch]
    BY <1>3, Zenon DEF IInv, SlotIsServed
  <2> HIDE DEF r, q, c, ch
  <2>6. conns' \in [Sockets -> [Conns -> Records]]
    BY <1>1, <1>3, <2>3, <2>4, Zenon
  <2>7. ASSUME NEW d \in Sockets, NEW e \in Conns PROVE Quiet(d, e)
    <3>1. CASE d = ch /\ e = c
      BY <2>5, <3>1, Zenon DEF Quiet
    <3>2. CASE ~(d = ch /\ e = c)
      <4>1. conns[d][e] \in Records /\ conns'[d][e] = conns[d][e]
        BY <1>1, <1>3, <2>4, <3>2, Zenon
      <4>2. Len(conns[d][e].klipper_q) \in Nat
        BY <4>1, Elements, Zenon DEF Records
      <4> QED  BY <4>1, <4>2 DEF Quiet
    <3> QED  BY <3>1, <3>2, Zenon
  <2> QED  BY <2>6, <2>7, Zenon DEF AllQuiet
<1> QED  BY <1>2, <1>3, Zenon DEF IInv, TypeOK

\* usb_tx.send keeps the types of the queue.
LEMMA SendType ==
    ASSUME IInv, NEW s \in Sides, NEW f \in Frames, send_usb(s, f)
    PROVE  usb_q' \in [Sides -> Seq(Frames)]
<1>1. usb_q \in [Sides -> Seq(Frames)]
  BY Zenon DEF IInv, TypeOK
<1>2. Append(usb_q[s], f) \in Seq(Frames)
  BY <1>1, AppendFrame, Zenon
<1> QED  BY <1>1, <1>2, Zenon DEF send_usb

-----------------------------------------------------------------------------
\* The USB writer moves frames to the link and changes no connection.
LEMMA WriterKeeps ==
    ASSUME IInv, NEW s \in Sides, usb_write(s) \/ usb_write_error(s)
    PROVE  IInv' /\ AllQuiet
<1>1. AllQuiet
  BY SameConns, Zenon DEF usb_write, usb_write_error, hostVars
<1>2. usb_q[s] \in Seq(Frames) /\ wire[s] \in Seq(Frames) /\ usb_q[s] # <<>>
  BY Zenon DEF usb_write, usb_write_error, IInv, TypeOK
<1>3. /\ Head(usb_q[s]) \in Frames /\ Tail(usb_q[s]) \in Seq(Frames)
      /\ Append(wire[s], Head(usb_q[s])) \in Seq(Frames) /\ <<>> \in Seq(Frames)
  BY <1>2, HeadTail, AppendOne, EmptyQueue, Zenon
<1>4. usb_q' \in [Sides -> Seq(Frames)] /\ wire' \in [Sides -> Seq(Frames)]
  BY <1>3, ZenonT(30) DEF usb_write, usb_write_error, IInv, TypeOK
<1>5. usb_writer' \in [Sides -> BOOLEAN]
  BY Zenon DEF usb_write, usb_write_error, IInv, TypeOK
<1>6. UNCHANGED <<hostVars, mcu_sent, arrived>>
  BY Zenon DEF usb_write, usb_write_error, history
<1> QED  BY <1>1, <1>4, <1>5, <1>6, Zenon DEF IInv, TypeOK, SlotIsServed, hostVars

\* The main loops: only the host's changes a queue of a connection.
LEMMA ReadersKeep ==
    ASSUME IInv, exporter_usb_read \/ host_usb_read
    PROVE  IInv' /\ AllQuiet
<1>0. "exporter" \in Sides /\ "host" \in Sides
  BY Zenon DEF Sides
<1>1. CASE exporter_usb_read
  <2>1. wire["host"] \in Seq(Frames) /\ wire["host"] # <<>>
    BY <1>0, <1>1, Zenon DEF exporter_usb_read, IInv, TypeOK
  <2>2. Tail(wire["host"]) \in Seq(Frames)
    BY <2>1, HeadTail, Zenon
  <2>3. wire' \in [Sides -> Seq(Frames)]
    BY <1>0, <1>1, <2>2, Zenon DEF exporter_usb_read, IInv, TypeOK
  <2>4. AllQuiet
    BY <1>1, SameConns, Zenon DEF exporter_usb_read, hostVars
  <2> QED  BY <1>1, <2>3, <2>4, Zenon DEF exporter_usb_read, hostVars, IInv, TypeOK, SlotIsServed
<1>2. CASE host_usb_read
  <2> DEFINE f == Head(wire["exporter"])
  <2>1. wire["exporter"] \in Seq(Frames) /\ wire["exporter"] # <<>>
    BY <1>0, <1>2, Zenon DEF host_usb_read, IInv, TypeOK
  <2>2. f \in Frames /\ Tail(wire["exporter"]) \in Seq(Frames)
    BY <2>1, HeadTail, Zenon
  <2>3. wire' \in [Sides -> Seq(Frames)]
    BY <1>0, <1>2, <2>2, Zenon DEF host_usb_read, IInv, TypeOK
  <2>4. \/ /\ route_to_client(f)
           /\ arrived' = [ch \in Sockets |-> IF ch = f.ch THEN f.n ELSE arrived[ch]]
        \/ UNCHANGED <<conns, arrived>>
    BY <1>2, Zenon DEF host_usb_read
  <2> HIDE DEF f
  <2>5. arrived' \in [Sockets -> Nat]
    BY <2>2, <2>4, Zenon DEF IInv, TypeOK, Frames
  <2>6. conns' \in [Sockets -> [Conns -> Records]] /\ AllQuiet
    BY <2>2, <2>4, RouteKeeps, SameConns, Zenon DEF IInv, TypeOK
  <2>7. UNCHANGED <<usb_q, usb_writer, serving, slot, mcu_sent>>
    BY <1>2, Zenon DEF host_usb_read
  <2> QED  BY <2>3, <2>5, <2>6, <2>7, Zenon DEF IInv, TypeOK, SlotIsServed
<1> QED  BY <1>1, <1>2, Zenon

\* The tasks of a UART change no connection.
LEMMA UartKeeps ==
    ASSUME IInv, NEW ch \in Uarts,
           uart_to_usb(ch) \/ uart_read_error(ch) \/ usb_to_uart(ch) \/ uart_write_error(ch)
    PROVE  IInv' /\ AllQuiet
<1>1. CASE uart_to_usb(ch)
  <2> DEFINE f == Frame(ch, 0, mcu_sent[ch] + 1)
  <2>1. f \in Frames
    BY DEF Frame, Frames, IInv, TypeOK
  <2>2. send_usb("exporter", f) \/ UNCHANGED usb_q
    BY <1>1, Zenon DEF uart_to_usb
  <2>3. "exporter" \in Sides
    BY Zenon DEF Sides
  <2> HIDE DEF f
  <2>4. usb_q' \in [Sides -> Seq(Frames)]
    BY <2>1, <2>2, <2>3, SendType, Zenon DEF IInv, TypeOK
  <2>5. mcu_sent' \in [Uarts -> Nat]
    BY <1>1 DEF uart_to_usb, IInv, TypeOK
  <2>6. UNCHANGED <<usb_writer, wire, hostVars, arrived>>
    BY <1>1, Zenon DEF uart_to_usb
  <2>7. AllQuiet
    BY <2>6, SameConns, Zenon DEF hostVars
  <2> QED  BY <2>4, <2>5, <2>6, <2>7, Zenon DEF hostVars, IInv, TypeOK, SlotIsServed
<1>2. CASE uart_read_error(ch) \/ usb_to_uart(ch) \/ uart_write_error(ch)
  <2>1. UNCHANGED <<usbVars, hostVars, mcu_sent, arrived>>
    BY <1>2, Zenon DEF uart_read_error, usb_to_uart, uart_write_error, history
  <2>2. AllQuiet
    BY <2>1, SameConns, Zenon DEF hostVars
  <2> QED  BY <2>1, <2>2, Zenon DEF usbVars, hostVars, IInv, TypeOK, SlotIsServed
<1> QED  BY <1>1, <1>2, Zenon

\* A client lengthens no queue.
LEMMA ClientKeeps ==
    ASSUME IInv, NEW ch \in Sockets, NEW c \in Conns, Client(ch, c)
    PROVE  IInv' /\ AllQuiet
<1> DEFINE r == conns[ch][c]
<1>1. r \in Records
  BY Zenon DEF IInv, TypeOK
<1>2. /\ r.klipper_q \in Seq(Frames) /\ r.unread \in Seq(Frames) /\ r.sent \in Nat
      /\ Len(r.klipper_q) \in Nat /\ <<>> \in Seq(Frames) /\ Len(<<>>) = 0
  BY <1>1, Elements, EmptyQueue DEF Records
<1>3. UNCHANGED <<usbVars, serving, slot, mcu_sent, arrived>>
  BY Zenon DEF Client, Connects, Sends, Disconnects, history
<1>4. \E n \in Records : Conn(ch, c, n) /\ Len(n.klipper_q) <= Len(r.klipper_q)
  <2>1. CASE Connects(ch, c)
    <3> DEFINE n == [NoConn EXCEPT !.peer = "open"]
    <3>1. n \in Records /\ n.klipper_q = <<>>
      BY <1>2, Zenon DEF NoConn, Records
    <3>2. Conn(ch, c, n)
      BY <2>1, Zenon DEF Connects
    <3> HIDE DEF n
    <3> QED  BY <1>2, <3>1, <3>2
  <2>2. CASE Sends(ch, c)
    <3> DEFINE k == r.sent + 1
               u == Append(r.unread, Frame(ch, c, k))
               n == [r EXCEPT !.sent = k, !.unread = u]
    <3>1. k \in Nat /\ Frame(ch, c, k) \in Frames
      BY <1>2 DEF Frame, Frames, Conns
    <3>2. u \in Seq(Frames)
      BY <1>2, <3>1, AppendFrame, Zenon
    <3>3. Conn(ch, c, n)
      BY <2>2, Zenon DEF Sends
    <3> HIDE DEF k, u, r
    <3>4. n \in Records /\ n.klipper_q = r.klipper_q
      BY <1>1, <3>1, <3>2, Zenon DEF Records
    <3> HIDE DEF n
    <3> QED  BY <1>2, <3>3, <3>4
  <2>3. CASE Disconnects(ch, c)
    <3> DEFINE n == [r EXCEPT !.peer = "closed"]
    <3>1. Conn(ch, c, n)
      BY <2>3, Zenon DEF Disconnects
    <3> HIDE DEF r
    <3>2. n \in Records /\ n.klipper_q = r.klipper_q
      BY <1>1, Zenon DEF Records
    <3> HIDE DEF n
    <3> QED  BY <1>2, <3>1, <3>2
  <2> QED  BY <2>1, <2>2, <2>3, Zenon DEF Client
<1>5. conns' \in [Sockets -> [Conns -> Records]] /\ AllQuiet
  BY <1>4, OneConn, Zenon
<1> QED  BY <1>3, <1>5, Zenon DEF usbVars, IInv, TypeOK, SlotIsServed

\* The end of a task, and a frame written to the client.
LEMMA SocketTasksKeep ==
    ASSUME IInv, NEW ch \in Sockets, NEW c \in Conns,
           sock_read_end(ch, c) \/ usb_to_sock(ch, c) \/ usb_to_sock_end(ch, c)
    PROVE  IInv' /\ AllQuiet
<1> DEFINE r == conns[ch][c]
<1>1. r \in Records
  BY Zenon DEF IInv, TypeOK
<1>2. /\ r.klipper_q \in Seq(Frames) /\ r.got \in Seq(Frames)
      /\ Len(r.klipper_q) \in Nat /\ <<>> \in Seq(Frames) /\ Len(<<>>) = 0
  BY <1>1, Elements, EmptyQueue DEF Records
<1>3. UNCHANGED <<usbVars, serving, slot, mcu_sent, arrived>>
  BY Zenon DEF sock_read_end, usb_to_sock, usb_to_sock_end, history
<1>4. \E n \in Records : Conn(ch, c, n) /\ Len(n.klipper_q) <= Len(r.klipper_q)
  <2>1. CASE sock_read_end(ch, c)
    <3> DEFINE n == [r EXCEPT !.reader = "done", !.unread = <<>>]
    <3>1. Conn(ch, c, n)
      BY <2>1, Zenon DEF sock_read_end
    <3> HIDE DEF r
    <3>2. n \in Records /\ n.klipper_q = r.klipper_q
      BY <1>1, <1>2, Zenon DEF Records
    <3> HIDE DEF n
    <3> QED  BY <1>2, <3>1, <3>2
  <2>2. CASE usb_to_sock(ch, c) /\ r.peer = "open"
    <3> DEFINE h == Head(r.klipper_q)
               t == Tail(r.klipper_q)
               g == Append(r.got, h)
               n == [r EXCEPT !.got = g, !.klipper_q = t]
    <3>1. r.klipper_q # <<>> /\ Conn(ch, c, n)
      BY <2>2, Zenon DEF usb_to_sock
    <3>2. h \in Frames /\ t \in Seq(Frames) /\ Len(t) <= Len(r.klipper_q)
      BY <1>2, <3>1, HeadTail, Zenon
    <3>3. g \in Seq(Frames)
      BY <1>2, <3>2, AppendFrame, Zenon
    <3> HIDE DEF r, h, t, g
    <3>4. n \in Records /\ n.klipper_q = t
      BY <1>1, <3>2, <3>3, Zenon DEF Records
    <3> HIDE DEF n
    <3> QED  BY <3>1, <3>2, <3>4, Zenon
  <2>3. CASE usb_to_sock(ch, c) /\ r.peer # "open"
    <3> DEFINE n == [r EXCEPT !.writer = "done", !.klipper_q = <<>>, !.broke = TRUE]
    <3>1. Conn(ch, c, n)
      BY <2>3, Zenon DEF usb_to_sock
    <3> HIDE DEF r
    <3>2. n \in Records /\ n.klipper_q = <<>>
      BY <1>1, <1>2, Zenon DEF Records
    <3> HIDE DEF n
    <3> QED  BY <1>2, <3>1, <3>2
  <2>4. CASE usb_to_sock_end(ch, c)
    <3> DEFINE n == [r EXCEPT !.writer = "done"]
    <3>1. Conn(ch, c, n)
      BY <2>4, Zenon DEF usb_to_sock_end
    <3> HIDE DEF r
    <3>2. n \in Records /\ n.klipper_q = r.klipper_q
      BY <1>1, Zenon DEF Records
    <3> HIDE DEF n
    <3> QED  BY <1>2, <3>1, <3>2
  <2> QED  BY <2>1, <2>2, <2>3, <2>4, Zenon
<1>5. conns' \in [Sockets -> [Conns -> Records]] /\ AllQuiet
  BY <1>4, OneConn, Zenon
<1> QED  BY <1>3, <1>5, Zenon DEF usbVars, IInv, TypeOK, SlotIsServed

\* Accepting fills the slot with the connection that is now served.
LEMMA AcceptKeeps ==
    ASSUME IInv, NEW ch \in Sockets, NEW c \in Conns, accept(ch, c)
    PROVE  IInv' /\ AllQuiet
<1> DEFINE r == conns[ch][c]
           n == [r EXCEPT !.reader = "run", !.writer = "run", !.seen = arrived[ch]]
<1>1. r \in Records /\ arrived[ch] \in Nat
  BY Zenon DEF IInv, TypeOK
<1>2. Conn(ch, c, n)
  BY Zenon DEF accept
<1>3. n \in Records /\ n.klipper_q = r.klipper_q /\ r.klipper_q \in Seq(Frames)
  <2> HIDE DEF r
  <2> QED  BY <1>1, Zenon DEF Records
<1>4. Len(n.klipper_q) <= Len(r.klipper_q)
  BY <1>3, Elements
<1>5. conns' \in [Sockets -> [Conns -> Records]] /\ AllQuiet
  <2> HIDE DEF n
  <2> QED  BY <1>2, <1>3, <1>4, OneConn, Zenon
<1>6. /\ serving' \in [Sockets -> Conns \cup {0}] /\ slot' \in [Sockets -> Conns \cup {0}]
      /\ SlotIsServed'
  BY Zenon DEF accept, IInv, TypeOK, SlotIsServed
<1>7. UNCHANGED <<usbVars, mcu_sent, arrived>>
  BY Zenon DEF accept, history
<1> QED  BY <1>5, <1>6, <1>7, Zenon DEF usbVars, IInv, TypeOK

\* A frame of the client goes to the USB queue; the other queue is left alone.
LEMMA SockToUsbKeeps ==
    ASSUME IInv, NEW ch \in Sockets, NEW c \in Conns, sock_to_usb(ch, c)
    PROVE  IInv' /\ AllQuiet
<1> DEFINE r == conns[ch][c]
           h == Head(r.unread)
           t == Tail(r.unread)
           rest == [r EXCEPT !.unread = t]
           on == IF usb_writer["host"] THEN "run" ELSE "done"
           n == [rest EXCEPT !.synced = TRUE, !.reader = on]
<1>1. r \in Records /\ r.unread \in Seq(Frames) /\ r.klipper_q \in Seq(Frames)
  BY ZenonT(30) DEF IInv, TypeOK, Records
<1>2. h \in Frames /\ t \in Seq(Frames)
  BY <1>1, HeadTail, Zenon DEF sock_to_usb
<1>3. \/ send_usb("host", h) /\ Conn(ch, c, n)
      \/ Conn(ch, c, rest) /\ UNCHANGED usb_q
  BY Zenon DEF sock_to_usb
<1>4. UNCHANGED <<usb_writer, wire, serving, slot, mcu_sent, arrived>>
  BY Zenon DEF sock_to_usb
<1>5. on \in {"run", "done"}
  BY Zenon
<1>6. "host" \in Sides
  BY Zenon DEF Sides
<1>7. /\ rest \in Records /\ rest.klipper_q = r.klipper_q
      /\ n \in Records /\ n.klipper_q = r.klipper_q
  <2> HIDE DEF r, t, on
  <2> QED  BY <1>1, <1>2, <1>5, Zenon DEF Records
<1>8. Len(rest.klipper_q) <= Len(r.klipper_q) /\ Len(n.klipper_q) <= Len(r.klipper_q)
  <2> HIDE DEF rest, n
  <2> QED  BY <1>1, <1>7, Elements
<1>9. conns' \in [Sockets -> [Conns -> Records]] /\ AllQuiet
  <2> HIDE DEF rest, n, h
  <2> QED  BY <1>3, <1>7, <1>8, OneConn, Zenon
<1>10. usb_q' \in [Sides -> Seq(Frames)]
  <2> HIDE DEF rest, n, h
  <2> QED  BY <1>2, <1>3, <1>6, SendType, Zenon DEF IInv, TypeOK
<1> QED  BY <1>4, <1>9, <1>10, Zenon DEF IInv, TypeOK, SlotIsServed

\* The end of a connection clears its slot.
LEMMA OverKeeps ==
    ASSUME IInv, NEW ch \in Sockets, connection_over(ch)
    PROVE  IInv' /\ AllQuiet
<1>1. /\ serving' \in [Sockets -> Conns \cup {0}] /\ slot' \in [Sockets -> Conns \cup {0}]
      /\ SlotIsServed'
  BY Zenon DEF connection_over, cleared, IInv, TypeOK, SlotIsServed
<1>2. UNCHANGED <<usbVars, conns, mcu_sent, arrived>>
  BY Zenon DEF connection_over, history
<1>3. AllQuiet
  BY <1>2, SameConns, Zenon
<1> QED  BY <1>1, <1>2, <1>3, Zenon DEF usbVars, IInv, TypeOK

\* A process ends, with its queues and connections.
LEMMA ExitKeeps ==
    ASSUME IInv, NEW s \in Sides, Exit(s)
    PROVE  IInv' /\ AllQuiet
<1>1. <<>> \in Seq(Frames) /\ Len(<<>>) = 0
  BY EmptyQueue, Zenon
<1>2. usb_q' \in [Sides -> Seq(Frames)]
  BY <1>1, Zenon DEF Exit, IInv, TypeOK
<1>3. UNCHANGED <<usb_writer, wire, mcu_sent, arrived>>
  BY Zenon DEF Exit
<1>4. CASE s = "exporter"
  <2>1. UNCHANGED hostVars
    BY <1>4, Zenon DEF Exit
  <2>2. AllQuiet
    BY <2>1, SameConns, Zenon DEF hostVars
  <2> QED  BY <1>2, <1>3, <2>1, <2>2, Zenon DEF hostVars, IInv, TypeOK, SlotIsServed
<1>5. CASE s # "exporter"
  <2> DEFINE Ended(r) == IF r.peer = "none" THEN NoConn
                         ELSE [r EXCEPT !.peer = "closed", !.reader = "done", !.writer = "done",
                                        !.klipper_q = <<>>, !.unread = <<>>]
  <2>1. conns' = [ch \in Sockets |-> [c \in Conns |-> Ended(conns[ch][c])]]
    BY <1>5, Zenon DEF Exit
  <2>2. serving' = [ch \in Sockets |-> 0] /\ slot' = [ch \in Sockets |-> 0]
    BY <1>5, Zenon DEF Exit
  <2>3. ASSUME NEW r \in Records PROVE Ended(r) \in Records /\ Ended(r).klipper_q = <<>>
    BY <1>1, Zenon DEF NoConn, Records
  <2> HIDE DEF Ended
  <2>4. conns' \in [Sockets -> [Conns -> Records]]
    BY <2>1, <2>3, Zenon DEF IInv, TypeOK
  <2>5. ASSUME NEW ch \in Sockets, NEW c \in Conns PROVE Quiet(ch, c)
    <3>1. conns[ch][c] \in Records
      BY Zenon DEF IInv, TypeOK
    <3>2. conns'[ch][c].klipper_q = <<>>
      BY <2>1, <2>3, <3>1, Zenon
    <3>3. Len(conns[ch][c].klipper_q) \in Nat
      BY <3>1, Elements DEF Records
    <3> QED  BY <1>1, <3>2, <3>3 DEF Quiet
  <2>6. SlotIsServed' /\ serving' \in [Sockets -> Conns \cup {0}] /\ slot' \in [Sockets -> Conns \cup {0}]
    BY <2>2, Zenon DEF SlotIsServed
  <2> QED  BY <1>2, <1>3, <2>4, <2>5, <2>6, Zenon DEF IInv, TypeOK, AllQuiet
<1> QED  BY <1>4, <1>5, Zenon

\* A start cuts the input that waits and changes no connection.
LEMMA StartKeeps ==
    ASSUME IInv, NEW s \in Sides, Start(s)
    PROVE  IInv' /\ AllQuiet
<1> DEFINE w == wire[Peer(s)]
<1>1. Peer(s) \in Sides
  BY Zenon DEF Peer, Sides
<1>2. w \in Seq(Frames)
  BY <1>1, Zenon DEF IInv, TypeOK
<1>3. PICK k \in 0..Len(w) : wire' = [wire EXCEPT ![Peer(s)] = SubSeq(w, k + 1, Len(w))]
  BY <1>1, Zenon DEF Start, IInv, TypeOK
<1>4. SubSeq(w, k + 1, Len(w)) \in Seq(Frames)
  <2>1. \A i \in 1..Len(w) : w[i] \in Frames
    BY <1>2, Elements, Zenon
  <2>2. Len(w) \in Nat
    BY <1>2, Elements, Zenon
  <2> HIDE DEF w
  <2> QED  BY <1>2, <2>1, <2>2, CutFirst, Zenon
<1>5. wire' \in [Sides -> Seq(Frames)]
  <2> HIDE DEF w
  <2> QED  BY <1>1, <1>3, <1>4, Zenon DEF IInv, TypeOK
<1>6. usb_writer' \in [Sides -> BOOLEAN]
  BY Zenon DEF Start, IInv, TypeOK
<1>7. UNCHANGED <<usb_q, hostVars, mcu_sent, arrived>>
  BY Zenon DEF Start
<1>8. AllQuiet
  BY <1>7, SameConns, Zenon DEF hostVars
<1> QED  BY <1>5, <1>6, <1>7, <1>8, Zenon DEF hostVars, IInv, TypeOK, SlotIsServed

\* Every step keeps the invariant, and is quiet.
LEMMA StepKeeps ==
    ASSUME IInv, [Next]_vars
    PROVE  IInv' /\ AllQuiet
<1>1. ASSUME NEW s \in Sides, usb_write(s) \/ usb_write_error(s) \/ Exit(s) \/ Start(s)
      PROVE  IInv' /\ AllQuiet
  BY <1>1, WriterKeeps, ExitKeeps, StartKeeps, Zenon
<1>2. ASSUME NEW ch \in Sockets, connection_over(ch) \/ \E c \in Conns : Client(ch, c) \/ Task(ch, c)
      PROVE  IInv' /\ AllQuiet
  BY <1>2, OverKeeps, ClientKeeps, AcceptKeeps, SockToUsbKeeps, SocketTasksKeep, Zenon DEF Task
<1>3. ASSUME UNCHANGED vars PROVE IInv' /\ AllQuiet
  <2>1. AllQuiet
    BY <1>3, SameConns, Zenon DEF vars, hostVars
  <2> QED  BY <1>3, <2>1, Zenon DEF vars, usbVars, hostVars, history, IInv, TypeOK, SlotIsServed
<1> QED  BY <1>1, <1>2, <1>3, ReadersKeep, UartKeeps, Zenon DEF Next

\* The invariant holds at the start.
LEMMA InitKeeps == Init => IInv
<1> SUFFICES ASSUME Init PROVE IInv
  BY Zenon
<1>1. <<>> \in Seq(Frames)
  BY EmptyQueue, Zenon
<1>2. NoConn \in Records
  BY <1>1, Zenon DEF NoConn, Records
<1> QED  BY <1>1, <1>2, Zenon DEF Init, IInv, TypeOK, SlotIsServed

-----------------------------------------------------------------------------
\* No frame is queued for a connection that is no longer served, although its
\* tasks may run on and the next connection is accepted while they do
\* (handle_klipper_connection, run_host's demux).
THEOREM OldClientsAreQuiet == Spec => OldClientQuiet
<1>1. IInv /\ [Next]_vars => IInv'
  BY StepKeeps, Zenon
<1>2. IInv /\ [Next]_vars =>
        [\A ch \in Sockets, c \in Conns :
            Len(conns'[ch][c].klipper_q) > Len(conns[ch][c].klipper_q) => c = serving[ch]]_vars
  BY StepKeeps, Zenon DEF AllQuiet, Quiet
<1> QED  BY <1>1, <1>2, InitKeeps, PTL DEF Spec, OldClientQuiet

-----------------------------------------------------------------------------
(***************************************************************************)
(* The frames of an MCU on their way to the host's main loop.              *)
(***************************************************************************)
\* w: the exporter's wire, q: its queue, sent, arr, gone: mcu_sent, arrived and
\* lost.  The frames are in the order of their numbers, later than what has
\* arrived, and each that was sent since is among them or lost.
Pipe(w, q, sent, arr, gone) ==
    /\ Sorted(w, McuOrder) /\ Sorted(q, McuOrder) /\ Before(Range(w), Range(q), McuOrder)
    /\ \A f \in Range(w) \cup Range(q) :
          /\ f.ch \in Uarts /\ f.conn = 0 /\ f.n <= sent[f.ch]
          /\ f.ch \in Sockets => arr[f.ch] < f.n
    /\ \A ch \in Sockets \cap Uarts :
          /\ arr[ch] <= sent[ch]
          /\ \A n \in (arr[ch] + 1)..sent[ch] :
                Frame(ch, 0, n) \in gone \cup Range(w) \cup Range(q)

PipeInv == Pipe(wire["exporter"], usb_q["exporter"], mcu_sent, arrived, lost)

\* The order, by the fields of the frames.
LEMMA McuOrderMeans ==
    ASSUME NEW a \in Frames, NEW b \in Frames
    PROVE  <<a, b>> \in McuOrder <=> (a.ch = b.ch => a.n < b.n)
BY Zenon DEF McuOrder

\* A frame is written.
LEMMA PipeWrite ==
    ASSUME NEW w \in Seq(Frames), NEW q \in Seq(Frames), NEW sent, NEW arr, NEW gone,
           Pipe(w, q, sent, arr, gone), q # <<>>
    PROVE  Pipe(Append(w, Head(q)), Tail(q), sent, arr, gone)
<1> DEFINE f == Head(q)
           t == Tail(q)
           v == Append(w, f)
<1>1. f \in Frames /\ f \in Range(q) /\ t \in Seq(Frames) /\ Range(q) = {f} \cup Range(t)
  BY TakeFirst, Zenon
<1>2. Sorted(t, McuOrder) /\ Before({f}, Range(t), McuOrder)
  BY TakeFirstSorted, Zenon DEF Pipe
<1> HIDE DEF f, t
<1>3. Range(v) = Range(w) \cup {f}
  BY <1>1, AppendFrame, Zenon
<1>4. Before(Range(w), {f}, McuOrder)
  BY <1>1, Zenon DEF Pipe, Before
<1>5. Sorted(v, McuOrder)
  BY <1>1, <1>4, AppendSorted, Zenon DEF Pipe
<1> HIDE DEF v
<1>6. Before(Range(v), Range(t), McuOrder)
  BY <1>1, <1>2, <1>3, Zenon DEF Pipe, Before
<1>7. Range(v) \cup Range(t) = Range(w) \cup Range(q)
  BY <1>1, <1>3, Zenon
<1>8. Pipe(v, t, sent, arr, gone)
  BY <1>2, <1>5, <1>6, <1>7, Zenon DEF Pipe
<1> QED  BY <1>8, Zenon DEF v, t, f

\* What waits is lost.
LEMMA PipeDropQueue ==
    ASSUME NEW w \in Seq(Frames), NEW q \in Seq(Frames), NEW sent, NEW arr, NEW gone,
           Pipe(w, q, sent, arr, gone)
    PROVE  Pipe(w, <<>>, sent, arr, gone \cup Range(q))
<1>1. Range(<<>>) = {} /\ Sorted(<<>>, McuOrder)
  BY EmptyQueue, Zenon
<1> QED  BY <1>1, Zenon DEF Pipe, Before

\* More is lost.
LEMMA PipeLost ==
    ASSUME NEW w, NEW q, NEW sent, NEW arr, NEW gone, NEW more, Pipe(w, q, sent, arr, gone),
           gone \subseteq more
    PROVE  Pipe(w, q, sent, arr, more)
BY Zenon DEF Pipe

\* What has been written is lost, from its start.
LEMMA PipeCut ==
    ASSUME NEW w \in Seq(Frames), NEW q \in Seq(Frames), NEW sent, NEW arr, NEW gone,
           Pipe(w, q, sent, arr, gone), NEW k \in 0..Len(w)
    PROVE  Pipe(SubSeq(w, k + 1, Len(w)), q, sent, arr, gone \cup Range(SubSeq(w, 1, k)))
<1> DEFINE a == SubSeq(w, 1, k)
           b == SubSeq(w, k + 1, Len(w))
<1>1. /\ Range(b) \subseteq Range(w) /\ Range(w) = Range(a) \cup Range(b)
      /\ Sorted(w, McuOrder) => Sorted(b, McuOrder)
  BY CutFirst, Zenon
<1> HIDE DEF a, b
<1>2. Pipe(b, q, sent, arr, gone \cup Range(a))
  BY <1>1, Zenon DEF Pipe, Before
<1> QED  BY <1>2, Zenon DEF a, b

\* f has arrived; nothing between what had and f is still to come.
Advance(f, arr) == [ch \in Sockets |-> IF ch = f.ch THEN f.n ELSE arr[ch]]
NextIn(f, arr, gone) ==
    /\ f.conn = 0
    /\ f.ch \in Sockets => /\ arr[f.ch] < f.n
                           /\ \A n \in (arr[f.ch] + 1)..(f.n - 1) : Frame(f.ch, 0, n) \in gone

\* The host reads a frame: nothing that was sent before it is still to come.
LEMMA PipeRead ==
    ASSUME NEW w \in Seq(Frames), NEW q \in Seq(Frames), NEW sent, NEW arr, NEW gone,
           Pipe(w, q, sent, arr, gone), w # <<>>,
           sent \in [Uarts -> Nat], arr \in [Sockets -> Nat]
    PROVE  /\ Pipe(Tail(w), q, sent, Advance(Head(w), arr), gone)
           /\ Pipe(Tail(w), q, sent, arr, gone \cup {Head(w)})
           /\ NextIn(Head(w), arr, gone)
<1> DEFINE f == Head(w)
           t == Tail(w)
           new == Advance(f, arr)
<1>1. f \in Frames /\ f \in Range(w) /\ t \in Seq(Frames) /\ Range(w) = {f} \cup Range(t)
  BY TakeFirst, Zenon
<1>2. Sorted(t, McuOrder) /\ Before({f}, Range(t), McuOrder)
  BY TakeFirstSorted, Zenon DEF Pipe
<1>3. Range(t) \subseteq Frames /\ Range(q) \subseteq Frames
  BY <1>1, Elements, Zenon
<1> HIDE DEF f, t
<1>4. f.ch \in Uarts /\ f.conn = 0 /\ f.n \in Nat /\ f.n <= sent[f.ch] /\ (f.ch \in Sockets => arr[f.ch] < f.n)
  BY <1>1, Zenon DEF Pipe, Frames
<1>5. ASSUME NEW g \in Range(t) \cup Range(q), g.ch = f.ch PROVE g.n > f.n
  <2>1. <<f, g>> \in McuOrder
    BY <1>1, <1>2, Zenon DEF Pipe, Before
  <2>2. g \in Frames /\ f.n < g.n
    BY <1>1, <1>3, <1>5, <2>1, McuOrderMeans, Zenon
  <2> QED  BY <1>4, <2>2, Zenon DEF Frames
<1>6. ASSUME f.ch \in Sockets, NEW n \in (arr[f.ch] + 1)..(f.n - 1) PROVE Frame(f.ch, 0, n) \in gone
  <2>1. arr[f.ch] \in Nat /\ sent[f.ch] \in Nat /\ n \in (arr[f.ch] + 1)..sent[f.ch]
    BY <1>4, <1>6
  <2>2. Frame(f.ch, 0, n) \in gone \cup Range(w) \cup Range(q)
    BY <1>4, <1>6, <2>1, Zenon DEF Pipe
  <2>3. Frame(f.ch, 0, n) # f
    BY <1>4, <2>1 DEF Frame
  <2>4. Frame(f.ch, 0, n) \notin Range(t) \cup Range(q)
    <3> DEFINE g == Frame(f.ch, 0, n)
    <3>1. g.ch = f.ch /\ g.n = n /\ n \in Nat /\ ~(n > f.n)
      BY <1>4, <1>6, <2>1 DEF Frame
    <3> HIDE DEF g
    <3> QED  BY <1>5, <3>1, Zenon DEF g
  <2> QED  BY <1>1, <2>2, <2>3, <2>4, Zenon
<1>7. Pipe(t, q, sent, arr, gone \cup {f})
  BY <1>1, <1>2, Zenon DEF Pipe, Before
<1>8. Pipe(t, q, sent, new, gone)
  <2>1. Sorted(t, McuOrder) /\ Sorted(q, McuOrder) /\ Before(Range(t), Range(q), McuOrder)
    BY <1>1, <1>2, Zenon DEF Pipe, Before
  <2>2. ASSUME NEW g \in Range(t) \cup Range(q)
        PROVE  /\ g.ch \in Uarts /\ g.conn = 0 /\ g.n <= sent[g.ch]
               /\ g.ch \in Sockets => new[g.ch] < g.n
    <3>1. /\ g.ch \in Uarts /\ g.conn = 0 /\ g.n <= sent[g.ch]
          /\ g.ch \in Sockets => arr[g.ch] < g.n
      BY <1>1, Zenon DEF Pipe
    <3>2. g.n \in Nat
      BY <1>3, Zenon DEF Frames
    <3>3. g.ch \in Sockets => new[g.ch] < g.n
      BY <1>4, <1>5, <3>1, <3>2, Zenon DEF Advance
    <3> QED  BY <3>1, <3>3, Zenon
  <2>3. ASSUME NEW ch \in Sockets \cap Uarts
        PROVE  /\ new[ch] <= sent[ch]
               /\ \A n \in (new[ch] + 1)..sent[ch] : Frame(ch, 0, n) \in gone \cup Range(t) \cup Range(q)
    <3>1. /\ arr[ch] <= sent[ch] /\ arr[ch] \in Nat /\ sent[ch] \in Nat
          /\ \A n \in (arr[ch] + 1)..sent[ch] : Frame(ch, 0, n) \in gone \cup Range(w) \cup Range(q)
      BY Zenon DEF Pipe
    <3>2. CASE ch # f.ch
      <4>1. \A n \in Nat : Frame(ch, 0, n) # f
        BY <3>2 DEF Frame
      <4> QED  BY <1>1, <3>1, <3>2, <4>1 DEF Advance
    <3>3. CASE ch = f.ch
      <4>1. new[ch] = f.n /\ f.n <= sent[ch] /\ arr[ch] < f.n
        BY <1>4, <3>3, Zenon DEF Advance
      <4>2. ASSUME NEW n \in (f.n + 1)..sent[ch] PROVE Frame(ch, 0, n) \in gone \cup Range(t) \cup Range(q)
        <5>1. n \in (arr[ch] + 1)..sent[ch] /\ n # f.n
          BY <1>4, <3>1, <4>1
        <5>2. Frame(ch, 0, n) # f
          BY <5>1 DEF Frame
        <5> QED  BY <1>1, <3>1, <5>1, <5>2, Zenon
      <4> QED  BY <4>1, <4>2, Zenon
    <3> QED  BY <3>2, <3>3, Zenon
  <2> HIDE DEF new
  <2> QED  BY <2>1, <2>2, <2>3, Zenon DEF Pipe
<1>9. NextIn(f, arr, gone)
  BY <1>4, <1>6, Zenon DEF NextIn
<1> HIDE DEF new
<1> QED  BY <1>7, <1>8, <1>9, Zenon DEF f, t, new

\* The MCU sends a frame, which is queued or lost.
LEMMA PipeSend ==
    ASSUME NEW w \in Seq(Frames), NEW q \in Seq(Frames), NEW sent, NEW arr, NEW gone,
           Pipe(w, q, sent, arr, gone), NEW ch \in Uarts,
           sent \in [Uarts -> Nat], arr \in [Sockets -> Nat]
    PROVE  LET f == Frame(ch, 0, sent[ch] + 1)
               more == [sent EXCEPT ![ch] = @ + 1]
           IN  /\ Pipe(w, Append(q, f), more, arr, gone)
               /\ Pipe(w, q, more, arr, gone \cup {f})
<1> DEFINE f == Frame(ch, 0, sent[ch] + 1)
           more == [sent EXCEPT ![ch] = @ + 1]
           v == Append(q, f)
<1>1. f \in Frames /\ f.ch = ch /\ f.conn = 0 /\ f.n = sent[ch] + 1 /\ sent[ch] \in Nat
  BY DEF Frame, Frames
<1>2. /\ more[ch] = f.n /\ \A u \in Uarts : more[u] \in Nat /\ sent[u] \in Nat /\ sent[u] <= more[u]
      /\ \A u \in Uarts : u # ch => more[u] = sent[u]
  BY <1>1
<1>3. Range(w) \subseteq Frames /\ Range(q) \subseteq Frames
  BY Elements, Zenon
<1>4. \A g \in Range(w) \cup Range(q) : <<g, f>> \in McuOrder
  <2>1. ASSUME NEW g \in Range(w) \cup Range(q) PROVE <<g, f>> \in McuOrder
    <3>1. g \in Frames /\ g.n \in Nat /\ g.n <= sent[g.ch]
      BY <1>3, Zenon DEF Pipe, Frames
    <3>2. g.ch = f.ch => g.n < f.n
      BY <1>1, <3>1
    <3> QED  BY <1>1, <3>1, <3>2, McuOrderMeans, Zenon
  <2> QED  BY <2>1, Zenon
<1> HIDE DEF f
<1>5. Range(v) = Range(q) \cup {f}
  BY <1>1, AppendFrame, Zenon
<1>6. Sorted(v, McuOrder)
  BY <1>1, <1>4, AppendSorted, Zenon DEF Pipe, Before
<1> HIDE DEF v, more
<1>7. ASSUME NEW u \in Sockets \cap Uarts
      PROVE  arr[u] <= more[u] /\ \A n \in (arr[u] + 1)..more[u] :
                Frame(u, 0, n) \in gone \cup Range(w) \cup Range(q) \cup {f}
  <2>1. /\ arr[u] <= sent[u] /\ arr[u] \in Nat /\ sent[u] \in Nat /\ more[u] \in Nat /\ sent[u] <= more[u]
        /\ \A n \in (arr[u] + 1)..sent[u] : Frame(u, 0, n) \in gone \cup Range(w) \cup Range(q)
    BY <1>2, Zenon DEF Pipe
  <2>2. CASE u # ch
    BY <1>2, <2>1, <2>2, Zenon
  <2>3. CASE u = ch
    <3>1. ASSUME NEW n \in (arr[u] + 1)..more[u]
          PROVE  Frame(u, 0, n) \in gone \cup Range(w) \cup Range(q) \cup {f}
      <4>1. n = f.n \/ n \in (arr[u] + 1)..sent[u]
        BY <1>1, <1>2, <2>1, <2>3
      <4>2. n = f.n => Frame(u, 0, n) = f
        BY <1>1, <2>3, Zenon DEF f
      <4> QED  BY <2>1, <4>1, <4>2, Zenon
    <3> QED  BY <2>1, <3>1
  <2> QED  BY <2>2, <2>3, Zenon
<1>8. ASSUME NEW g \in Range(w) \cup Range(q)
      PROVE  g.ch \in Uarts /\ g.conn = 0 /\ g.n <= more[g.ch] /\ (g.ch \in Sockets => arr[g.ch] < g.n)
  <2>1. g.ch \in Uarts /\ g.conn = 0 /\ g.n <= sent[g.ch] /\ (g.ch \in Sockets => arr[g.ch] < g.n)
    BY Zenon DEF Pipe
  <2>2. g.n \in Nat
    BY <1>3, Zenon DEF Frames
  <2> QED  BY <1>2, <2>1, <2>2
<1>9. f.ch \in Uarts /\ f.n <= more[f.ch] /\ (f.ch \in Sockets => arr[f.ch] < f.n)
  <2>1. f.ch \in Sockets => arr[f.ch] \in Nat /\ arr[f.ch] <= sent[f.ch]
    BY <1>1, Zenon DEF Pipe
  <2> QED  BY <1>1, <1>2, <2>1
<1>10. Pipe(w, q, more, arr, gone \cup {f})
  BY <1>7, <1>8, Zenon DEF Pipe
<1>11. Pipe(w, v, more, arr, gone)
  BY <1>1, <1>4, <1>5, <1>6, <1>7, <1>8, <1>9, Zenon DEF Pipe, Before
<1> QED  BY <1>10, <1>11, Zenon DEF f, v, more

\* The USB writer of the exporter, and the ends of the two processes.
LEMMA PipeWriterKeeps ==
    ASSUME IInv, PipeInv, NEW s \in Sides, usb_write(s) \/ usb_write_error(s) \/ Exit(s)
    PROVE  PipeInv' /\ lost \subseteq lost'
<1> DEFINE w == wire["exporter"]
           q == usb_q["exporter"]
<1>1. /\ w \in Seq(Frames) /\ q \in Seq(Frames) /\ "exporter" \in Sides
      /\ usb_q \in [Sides -> Seq(Frames)] /\ wire \in [Sides -> Seq(Frames)]
  BY Zenon DEF IInv, TypeOK, Sides
<1>2. Pipe(w, q, mcu_sent, arrived, lost)
  BY Zenon DEF PipeInv
<1>3. mcu_sent' = mcu_sent /\ arrived' = arrived
  BY Zenon DEF usb_write, usb_write_error, Exit, history
<1>4. lost \subseteq lost'
  BY Zenon DEF usb_write, usb_write_error, Exit, history
<1>5. CASE s # "exporter"
  <2>1. wire'["exporter"] = w /\ usb_q'["exporter"] = q
    BY <1>1, <1>5, Zenon DEF usb_write, usb_write_error, Exit
  <2> HIDE DEF w, q
  <2>2. Pipe(w, q, mcu_sent, arrived, lost')
    BY <1>2, <1>4, PipeLost, Zenon
  <2> QED  BY <1>3, <1>4, <2>1, <2>2, Zenon DEF PipeInv
<1>6. CASE s = "exporter" /\ usb_write(s)
  <2>1. wire'["exporter"] = Append(w, Head(q)) /\ usb_q'["exporter"] = Tail(q) /\ q # <<>> /\ lost' = lost
    BY <1>1, <1>6, Zenon DEF usb_write, history
  <2> HIDE DEF w, q
  <2>2. Pipe(Append(w, Head(q)), Tail(q), mcu_sent, arrived, lost)
    BY <1>1, <1>2, <2>1, PipeWrite, Zenon
  <2> QED  BY <1>3, <2>1, <2>2, Zenon DEF PipeInv
<1>7. CASE s = "exporter" /\ (usb_write_error(s) \/ Exit(s))
  <2>1. wire'["exporter"] = w /\ usb_q'["exporter"] = <<>> /\ lost' = lost \cup Range(q)
    BY <1>1, <1>7, Zenon DEF usb_write_error, Exit
  <2> HIDE DEF w, q
  <2>2. Pipe(w, <<>>, mcu_sent, arrived, lost \cup Range(q))
    BY <1>1, <1>2, PipeDropQueue, Zenon
  <2> QED  BY <1>3, <1>4, <2>1, <2>2, Zenon DEF PipeInv
<1> QED  BY <1>5, <1>6, <1>7, Zenon

\* A start of the host cuts what waits for it.
LEMMA PipeStartKeeps ==
    ASSUME IInv, PipeInv, NEW s \in Sides, Start(s)
    PROVE  PipeInv' /\ lost \subseteq lost'
<1> DEFINE w == wire["exporter"]
           q == usb_q["exporter"]
<1>1. /\ w \in Seq(Frames) /\ q \in Seq(Frames) /\ "exporter" \in Sides
      /\ wire \in [Sides -> Seq(Frames)]
  BY Zenon DEF IInv, TypeOK, Sides
<1>2. Pipe(w, q, mcu_sent, arrived, lost)
  BY Zenon DEF PipeInv
<1>3. mcu_sent' = mcu_sent /\ arrived' = arrived /\ usb_q' = usb_q
  BY Zenon DEF Start
<1>4. CASE s = "host"
  <2>1. PICK k \in 0..Len(w) : /\ wire' = [wire EXCEPT !["exporter"] = SubSeq(w, k + 1, Len(w))]
                               /\ lost' = lost \cup Range(SubSeq(w, 1, k))
    BY <1>1, <1>4, Zenon DEF Start, Peer
  <2>2. wire'["exporter"] = SubSeq(w, k + 1, Len(w))
    BY <1>1, <2>1, Zenon
  <2> HIDE DEF w, q
  <2>3. Pipe(SubSeq(w, k + 1, Len(w)), q, mcu_sent, arrived, lost \cup Range(SubSeq(w, 1, k)))
    BY <1>1, <1>2, PipeCut, Zenon
  <2> QED  BY <1>3, <2>1, <2>2, <2>3, Zenon DEF PipeInv, q
<1>5. CASE s = "exporter"
  <2>1. wire'["exporter"] = w /\ lost \subseteq lost'
    BY <1>1, <1>5, Zenon DEF Start, Peer
  <2> HIDE DEF w
  <2>2. Pipe(w, q, mcu_sent, arrived, lost')
    BY <1>2, <2>1, PipeLost, Zenon
  <2> QED  BY <1>3, <2>1, <2>2, Zenon DEF PipeInv
<1> QED  BY <1>4, <1>5, Zenon DEF Sides

\* A frame of the MCU enters, and a frame of the link is read.
LEMMA PipeEndsKeep ==
    ASSUME IInv, PipeInv, host_usb_read \/ exporter_usb_read \/ \E ch \in Uarts : uart_to_usb(ch)
    PROVE  PipeInv' /\ lost \subseteq lost'
<1> DEFINE w == wire["exporter"]
           q == usb_q["exporter"]
<1>1. /\ w \in Seq(Frames) /\ q \in Seq(Frames) /\ "exporter" \in Sides /\ "host" \in Sides
      /\ wire \in [Sides -> Seq(Frames)] /\ usb_q \in [Sides -> Seq(Frames)]
      /\ mcu_sent \in [Uarts -> Nat] /\ arrived \in [Sockets -> Nat]
  BY Zenon DEF IInv, TypeOK, Sides
<1>2. Pipe(w, q, mcu_sent, arrived, lost)
  BY Zenon DEF PipeInv
<1>3. CASE exporter_usb_read
  <2>1. /\ wire'["exporter"] = w /\ usb_q'["exporter"] = q
        /\ mcu_sent' = mcu_sent /\ arrived' = arrived /\ lost \subseteq lost'
    BY <1>1, <1>3, Zenon DEF exporter_usb_read, swallowed
  <2> HIDE DEF w, q
  <2>2. Pipe(w, q, mcu_sent, arrived, lost')
    BY <1>2, <2>1, PipeLost, Zenon
  <2> QED  BY <2>1, <2>2, Zenon DEF PipeInv
<1>4. CASE host_usb_read
  <2> DEFINE f == Head(w)
             new == Advance(f, arrived)
  <2>1. /\ w # <<>> /\ wire'["exporter"] = Tail(w) /\ usb_q'["exporter"] = q /\ mcu_sent' = mcu_sent
        /\ \/ arrived' = new /\ lost' = lost
           \/ arrived' = arrived /\ lost' = lost \cup {f}
    BY <1>1, <1>4, Zenon DEF host_usb_read, swallowed, Advance
  <2> HIDE DEF w, q
  <2>2. /\ Pipe(Tail(w), q, mcu_sent, new, lost)
        /\ Pipe(Tail(w), q, mcu_sent, arrived, lost \cup {f})
    BY <1>1, <1>2, <2>1, PipeRead, Zenon
  <2> HIDE DEF f, new
  <2>3. lost \subseteq lost'
    BY <2>1, Zenon
  <2> QED  BY <2>1, <2>2, <2>3, Zenon DEF PipeInv
<1>5. ASSUME NEW ch \in Uarts, uart_to_usb(ch) PROVE PipeInv' /\ lost \subseteq lost'
  <2> DEFINE f == Frame(ch, 0, mcu_sent[ch] + 1)
             more == [mcu_sent EXCEPT ![ch] = @ + 1]
  <2>1. /\ wire'["exporter"] = w /\ arrived' = arrived /\ mcu_sent' = more
        /\ \/ usb_q'["exporter"] = Append(q, f) /\ lost' = lost
           \/ usb_q'["exporter"] = q /\ lost' = lost \cup {f}
    BY <1>1, <1>5, Zenon DEF uart_to_usb, send_usb
  <2> HIDE DEF w, q
  <2>2. Pipe(w, Append(q, f), more, arrived, lost) /\ Pipe(w, q, more, arrived, lost \cup {f})
    BY <1>1, <1>2, PipeSend, Zenon
  <2> HIDE DEF f, more
  <2>3. lost \subseteq lost'
    BY <2>1, Zenon
  <2> QED  BY <2>1, <2>2, <2>3, Zenon DEF PipeInv
<1> QED  BY <1>3, <1>4, <1>5, Zenon

\* Every step: the other tasks leave the exporter's link alone.
LEMMA PipeStep ==
    ASSUME IInv, PipeInv, [Next]_vars
    PROVE  PipeInv' /\ lost \subseteq lost'
<1> DEFINE Aside == /\ wire' = wire /\ mcu_sent' = mcu_sent /\ arrived' = arrived
                    /\ usb_q'["exporter"] = usb_q["exporter"] /\ lost \subseteq lost'
<1>1. ASSUME Aside PROVE PipeInv' /\ lost \subseteq lost'
  <2> DEFINE w == wire["exporter"]
             q == usb_q["exporter"]
  <2>1. Pipe(w, q, mcu_sent, arrived, lost)
    BY Zenon DEF PipeInv
  <2> HIDE DEF w, q
  <2>2. Pipe(w, q, mcu_sent, arrived, lost')
    BY <1>1, <2>1, PipeLost, Zenon
  <2> QED  BY <1>1, <2>2, Zenon DEF PipeInv, w, q
<1>2. ASSUME NEW ch \in Uarts, uart_read_error(ch) \/ usb_to_uart(ch) \/ uart_write_error(ch)
      PROVE  Aside
  BY <1>2, Zenon DEF uart_read_error, usb_to_uart, uart_write_error, usbVars, history
<1>3. ASSUME NEW ch \in Sockets, NEW c \in Conns, Client(ch, c) \/ Task(ch, c) PROVE Aside
  <2>1. CASE Client(ch, c)
    BY <2>1, Zenon DEF Client, Connects, Sends, Disconnects, usbVars, history
  <2>2. CASE sock_to_usb(ch, c)
    <3>1. usb_q \in [Sides -> Seq(Frames)] /\ "exporter" \in Sides
      BY Zenon DEF IInv, TypeOK, Sides
    <3> QED  BY <2>2, <3>1, Zenon DEF sock_to_usb, send_usb
  <2>3. CASE accept(ch, c) \/ sock_read_end(ch, c) \/ usb_to_sock(ch, c) \/ usb_to_sock_end(ch, c)
    BY <2>3, Zenon DEF accept, sock_read_end, usb_to_sock, usb_to_sock_end, usbVars, history
  <2> QED  BY <1>3, <2>1, <2>2, <2>3, Zenon DEF Task
<1>4. ASSUME NEW ch \in Sockets, connection_over(ch) PROVE Aside
  BY <1>4, Zenon DEF connection_over, usbVars, history
<1>5. ASSUME UNCHANGED vars PROVE Aside
  BY <1>5, Zenon DEF vars, usbVars, history
<1> HIDE DEF Aside
<1> QED  BY <1>1, <1>2, <1>3, <1>4, <1>5, PipeWriterKeeps, PipeStartKeeps, PipeEndsKeep, Zenon DEF Next

\* What a client was given and is to be given, after the frame it started from.
Stream(ch, r) == <<Frame(ch, 0, r.seen)>> \o r.got \o r.klipper_q

Follows(ch, a, b, gone) ==
    /\ b.ch = ch /\ b.conn = 0 /\ b.n > a.n
    /\ \A n \in (a.n + 1)..(b.n - 1) : Frame(ch, 0, n) \in gone

StreamOK(ch, s, gone) == \A i \in 2..Len(s) : Follows(ch, s[i - 1], s[i], gone)

\* A connection that is not accepted has been given nothing.
RecordOK(ch, r, gone) ==
    /\ StreamOK(ch, Stream(ch, r), gone)
    /\ r.reader = "none" => r.writer # "run" /\ r.got = <<>> /\ r.klipper_q = <<>>

\* The stream of the client that is served reaches to what has arrived.
ReachesEnd(ch, r, arr) == Stream(ch, r)[Len(Stream(ch, r))].n = arr[ch]

StreamInv ==
    \A ch \in Sockets, c \in Conns :
       /\ RecordOK(ch, conns[ch][c], lost)
       /\ slot[ch] = c /\ conns[ch][c].writer = "run" => ReachesEnd(ch, conns[ch][c], arrived)

\* A stream starts with the frame before it.
LEMMA StreamType ==
    ASSUME NEW ch \in Sockets, NEW r \in Records
    PROVE  /\ Stream(ch, r) \in Seq(Frames)
           /\ Len(Stream(ch, r)) = 1 + Len(r.got) + Len(r.klipper_q)
           /\ Len(r.got) \in Nat /\ Len(r.klipper_q) \in Nat
           /\ Len(Stream(ch, r)) \in Nat /\ Len(Stream(ch, r)) >= 1
<1>1. r.got \in Seq(Frames) /\ r.klipper_q \in Seq(Frames) /\ Frame(ch, 0, r.seen) \in Frames
  BY Zenon DEF Records, Frame, Frames
<1> DEFINE s == Stream(ch, r)
           a == Len(r.got)
           b == Len(r.klipper_q)
<1>2. s \in Seq(Frames) /\ Len(s) = 1 + a + b /\ a \in Nat /\ b \in Nat
  BY <1>1 DEF Stream
<1> HIDE DEF s, a, b
<1>3. Len(s) \in Nat /\ Len(s) >= 1
  BY <1>2
<1> QED  BY <1>2, <1>3, Zenon DEF s, a, b

\* A frame that was queued is written: the stream is the same.
LEMMA StreamShift ==
    ASSUME NEW ch \in Sockets, NEW r \in Records, NEW n \in Records, r.klipper_q # <<>>,
           n.seen = r.seen, n.got = Append(r.got, Head(r.klipper_q)), n.klipper_q = Tail(r.klipper_q)
    PROVE  Stream(ch, n) = Stream(ch, r)
<1> DEFINE x == Frame(ch, 0, r.seen)
           g == r.got
           q == r.klipper_q
<1>1. g \in Seq(Frames) /\ q \in Seq(Frames) /\ x \in Frames /\ q # <<>>
  BY Zenon DEF Records, Frame, Frames
<1>2. Stream(ch, n) = <<x>> \o Append(g, Head(q)) \o Tail(q) /\ Stream(ch, r) = <<x>> \o g \o q
  BY Zenon DEF Stream
<1> HIDE DEF x, g, q
<1>3. <<x>> \o Append(g, Head(q)) \o Tail(q) = <<x>> \o g \o q
  BY <1>1, SMTT(30)
<1> QED  BY <1>2, <1>3, Zenon

\* Nothing was given yet.
LEMMA StreamFresh ==
    ASSUME NEW ch \in Sockets, NEW r \in Records, NEW gone, r.got = <<>>, r.klipper_q = <<>>
    PROVE  StreamOK(ch, Stream(ch, r), gone) /\ Stream(ch, r)[Len(Stream(ch, r))].n = r.seen
<1>1. Stream(ch, r) = <<Frame(ch, 0, r.seen)>>
  BY DEF Stream
<1> QED  BY <1>1 DEF StreamOK, Frame

\* The queue is dropped: a stream that is right up to its end is right up to
\* an earlier one.
LEMMA StreamCut ==
    ASSUME NEW ch \in Sockets, NEW r \in Records, NEW n \in Records, NEW gone,
           StreamOK(ch, Stream(ch, r), gone), n.seen = r.seen, n.got = r.got, n.klipper_q = <<>>
    PROVE  StreamOK(ch, Stream(ch, n), gone)
<1> DEFINE s == Stream(ch, r)
           t == Stream(ch, n)
<1>1. Len(s) \in Nat /\ Len(t) \in Nat /\ Len(t) <= Len(s)
  <2>1. Len(s) = 1 + Len(r.got) + Len(r.klipper_q) /\ Len(r.got) \in Nat /\ Len(r.klipper_q) \in Nat
    BY StreamType, Zenon
  <2>2. Len(t) = 1 + Len(n.got) + Len(n.klipper_q) /\ Len(n.klipper_q) = 0
    BY StreamType, Zenon
  <2> DEFINE a == Len(r.got)
             b == Len(r.klipper_q)
  <2>3. Len(s) = 1 + a + b /\ Len(t) = 1 + a + 0 /\ a \in Nat /\ b \in Nat
    BY <2>1, <2>2, Zenon
  <2> HIDE DEF s, t, a, b
  <2> QED  BY <2>3
<1>2. \A i \in 1..Len(t) : t[i] = s[i]
  <2> DEFINE x == Frame(ch, 0, r.seen)
             g == r.got
             q == r.klipper_q
  <2>1. g \in Seq(Frames) /\ q \in Seq(Frames) /\ x \in Frames
    BY Zenon DEF Records, Frame, Frames
  <2>2. t = <<x>> \o g \o <<>> /\ s = <<x>> \o g \o q
    BY Zenon DEF Stream
  <2> HIDE DEF x, g, q, s, t
  <2> QED  BY <2>1, <2>2
<1> HIDE DEF s, t
<1>3. ASSUME NEW i \in 2..Len(t) PROVE Follows(ch, t[i - 1], t[i], gone)
  <2>1. i \in 2..Len(s) /\ i - 1 \in 1..Len(t) /\ i \in 1..Len(t)
    BY <1>1
  <2>2. t[i - 1] = s[i - 1] /\ t[i] = s[i]
    BY <1>2, <2>1, Zenon
  <2> QED  BY <2>1, <2>2, Zenon DEF StreamOK, s
<1> QED  BY <1>3, Zenon DEF StreamOK, t

\* The next frame is queued.
LEMMA StreamNext ==
    ASSUME NEW ch \in Sockets, NEW r \in Records, NEW n \in Records, NEW gone, NEW arr, NEW f \in Frames,
           StreamOK(ch, Stream(ch, r), gone), ReachesEnd(ch, r, arr), f.ch = ch, NextIn(f, arr, gone),
           arr[ch] \in Nat,
           n.seen = r.seen, n.got = r.got, n.klipper_q = Append(r.klipper_q, f)
    PROVE  StreamOK(ch, Stream(ch, n), gone) /\ Stream(ch, n)[Len(Stream(ch, n))].n = f.n
<1> DEFINE s == Stream(ch, r)
           t == Stream(ch, n)
<1>1. s \in Seq(Frames) /\ Len(s) \in Nat /\ Len(s) >= 1
  BY StreamType, Zenon
<1>2. t = Append(s, f)
  <2> DEFINE x == Frame(ch, 0, r.seen)
             g == r.got
             q == r.klipper_q
  <2>1. g \in Seq(Frames) /\ q \in Seq(Frames) /\ x \in Frames
    BY Zenon DEF Records, Frame, Frames
  <2>2. t = <<x>> \o g \o Append(q, f) /\ s = <<x>> \o g \o q
    BY Zenon DEF Stream
  <2> HIDE DEF x, g, q, s, t
  <2> QED  BY <2>1, <2>2, SMTT(30)
<1>3. s[Len(s)].n = arr[ch] /\ \A i \in 2..Len(s) : Follows(ch, s[i - 1], s[i], gone)
  BY Zenon DEF StreamOK, ReachesEnd
<1> HIDE DEF s, t
<1>4. Len(t) = Len(s) + 1 /\ t[Len(t)] = f /\ \A i \in 1..Len(s) : t[i] = s[i]
  BY <1>1, <1>2, AppendOne
<1>5. Follows(ch, s[Len(s)], f, gone)
  BY <1>3, Zenon DEF Follows, NextIn, Frames
<1>6. ASSUME NEW i \in 2..Len(t) PROVE Follows(ch, t[i - 1], t[i], gone)
  <2>1. CASE i \in 2..Len(s)
    <3>1. i - 1 \in 1..Len(s) /\ i \in 1..Len(s)
      BY <1>1, <2>1
    <3> QED  BY <1>3, <1>4, <2>1, <3>1, Zenon
  <2>2. CASE i = Len(t)
    <3>1. i - 1 = Len(s) /\ Len(s) \in 1..Len(s)
      BY <1>1, <1>4, <2>2
    <3> QED  BY <1>4, <1>5, <2>2, <3>1, Zenon
  <2> QED  BY <1>1, <1>4, <2>1, <2>2
<1> QED  BY <1>4, <1>6, Zenon DEF StreamOK, t

\* What is lost stays lost.
LEMMA RecordStays ==
    ASSUME NEW ch, NEW r, NEW gone, NEW more, RecordOK(ch, r, gone), gone \subseteq more
    PROVE  RecordOK(ch, r, more)
BY Zenon DEF RecordOK, StreamOK, Follows

\* A step that leaves the connections alone, and fills no slot.
LEMMA StreamSame ==
    ASSUME StreamInv, lost \subseteq lost', conns' = conns, arrived' = arrived,
           \A ch \in Sockets : slot'[ch] \in {0, slot[ch]}
    PROVE  StreamInv'
<1>1. ASSUME NEW ch \in Sockets, NEW c \in Conns
      PROVE  /\ RecordOK(ch, conns[ch][c], lost')
             /\ slot'[ch] = c /\ conns[ch][c].writer = "run" => ReachesEnd(ch, conns[ch][c], arrived)
  <2>1. RecordOK(ch, conns[ch][c], lost')
    BY RecordStays, Zenon DEF StreamInv
  <2>2. c # 0
    BY ConnNumbers, Zenon
  <2> QED  BY <2>1, <2>2, Zenon DEF StreamInv
<1> QED  BY <1>1, Zenon DEF StreamInv

\* A step that changes one connection and no slot.
LEMMA StreamOne ==
    ASSUME IInv, StreamInv, lost \subseteq lost', arrived' = arrived, slot' = slot,
           NEW ch \in Sockets, NEW c \in Conns, NEW r \in Records, Conn(ch, c, r),
           RecordOK(ch, r, lost),
           slot[ch] = c /\ r.writer = "run" => ReachesEnd(ch, r, arrived)
    PROVE  StreamInv'
<1>1. conns' = [conns EXCEPT ![ch] = [conns[ch] EXCEPT ![c] = r]]
  BY Zenon DEF Conn, IInv, TypeOK
<1>2. ASSUME NEW d \in Sockets, NEW e \in Conns
      PROVE  /\ RecordOK(d, conns'[d][e], lost')
             /\ slot[d] = e /\ conns'[d][e].writer = "run" => ReachesEnd(d, conns'[d][e], arrived)
  <2>1. conns'[d][e] = IF d = ch /\ e = c THEN r ELSE conns[d][e]
    BY <1>1, Zenon DEF IInv, TypeOK
  <2>2. RecordOK(d, conns'[d][e], lost)
    BY <2>1, Zenon DEF StreamInv
  <2>3. slot[d] = e /\ conns'[d][e].writer = "run" => ReachesEnd(d, conns'[d][e], arrived)
    BY <2>1, Zenon DEF StreamInv
  <2> QED  BY <2>2, <2>3, RecordStays, Zenon
<1> QED  BY <1>2, Zenon DEF StreamInv

\* A connection whose stream is as it was.
LEMMA StreamAlike ==
    ASSUME IInv, StreamInv, lost \subseteq lost', arrived' = arrived, slot' = slot,
           NEW ch \in Sockets, NEW c \in Conns, NEW n \in Records, Conn(ch, c, n),
           Stream(ch, n) = Stream(ch, conns[ch][c]),
           n.reader = "none" => conns[ch][c].reader = "none" /\ n.got = conns[ch][c].got /\ n.klipper_q = conns[ch][c].klipper_q,
           n.writer = "run" => conns[ch][c].writer = "run"
    PROVE  StreamInv'
<1>1. RecordOK(ch, n, lost)
  BY Zenon DEF StreamInv, RecordOK
<1>2. slot[ch] = c /\ n.writer = "run" => ReachesEnd(ch, n, arrived)
  BY Zenon DEF StreamInv, ReachesEnd
<1> QED  BY <1>1, <1>2, StreamOne, Zenon

\* A connection that has been given nothing, or whose writer is at its end.
LEMMA StreamEnded ==
    ASSUME IInv, StreamInv, lost \subseteq lost', arrived' = arrived, slot' = slot,
           NEW ch \in Sockets, NEW c \in Conns, NEW n \in Records, Conn(ch, c, n), n.writer # "run",
           n.klipper_q = <<>>, n.got = <<>> \/ (n.got = conns[ch][c].got /\ n.seen = conns[ch][c].seen),
           n.reader = "none" => n.got = <<>>
    PROVE  StreamInv'
<1> DEFINE r == conns[ch][c]
<1>1. r \in Records /\ StreamOK(ch, Stream(ch, r), lost)
  BY Zenon DEF IInv, TypeOK, StreamInv, RecordOK
<1> HIDE DEF r
<1>2. StreamOK(ch, Stream(ch, n), lost)
  BY <1>1, StreamFresh, StreamCut, Zenon DEF r
<1>3. RecordOK(ch, n, lost)
  BY <1>2, Zenon DEF RecordOK
<1> QED  BY <1>3, StreamOne, Zenon

\* What a client does leaves its stream alone.
LEMMA StreamClient ==
    ASSUME IInv, StreamInv, lost \subseteq lost', NEW ch \in Sockets, NEW c \in Conns, Client(ch, c)
    PROVE  StreamInv'
<1> DEFINE r == conns[ch][c]
<1>1. r \in Records
  BY Zenon DEF IInv, TypeOK
<1>2. /\ r.unread \in Seq(Frames) /\ r.sent \in Nat /\ <<>> \in Seq(Frames)
  BY <1>1, EmptyQueue, Zenon DEF Records
<1>3. arrived' = arrived /\ slot' = slot
  BY Zenon DEF Client, Connects, Sends, Disconnects, history
<1>4. CASE Connects(ch, c)
  <2> DEFINE n == [NoConn EXCEPT !.peer = "open"]
  <2>1. n \in Records /\ n.klipper_q = <<>> /\ n.got = <<>> /\ n.writer # "run"
    BY <1>2, Zenon DEF NoConn, Records
  <2>2. Conn(ch, c, n)
    BY <1>4, Zenon DEF Connects
  <2> HIDE DEF n
  <2> QED  BY <1>3, <2>1, <2>2, StreamEnded, Zenon
<1>5. CASE Sends(ch, c) \/ Disconnects(ch, c)
  <2> DEFINE k == r.sent + 1
             u == Append(r.unread, Frame(ch, c, k))
             m == [r EXCEPT !.sent = k, !.unread = u]
             n == [r EXCEPT !.peer = "closed"]
  <2>1. Conn(ch, c, m) \/ Conn(ch, c, n)
    BY <1>5, Zenon DEF Sends, Disconnects
  <2>2. k \in Nat /\ Frame(ch, c, k) \in Frames
    BY <1>2 DEF Frame, Frames, Conns
  <2>3. u \in Seq(Frames)
    BY <1>2, <2>2, AppendFrame, Zenon
  <2> HIDE DEF k, u, r
  <2>4. /\ m \in Records /\ m.seen = r.seen /\ m.got = r.got /\ m.klipper_q = r.klipper_q
        /\ m.reader = r.reader /\ m.writer = r.writer
    BY <1>1, <2>2, <2>3, Zenon DEF Records
  <2>5. /\ n \in Records /\ n.seen = r.seen /\ n.got = r.got /\ n.klipper_q = r.klipper_q
        /\ n.reader = r.reader /\ n.writer = r.writer
    BY <1>1, Zenon DEF Records
  <2> HIDE DEF m, n
  <2>6. Stream(ch, m) = Stream(ch, r) /\ Stream(ch, n) = Stream(ch, r)
    BY <2>4, <2>5, Zenon DEF Stream
  <2> QED  BY <1>3, <2>1, <2>4, <2>5, <2>6, StreamAlike, Zenon DEF r
<1> QED  BY <1>4, <1>5, Zenon DEF Client

\* The tasks of a connection move or drop what is queued.
LEMMA StreamTasks ==
    ASSUME IInv, StreamInv, lost \subseteq lost', NEW ch \in Sockets, NEW c \in Conns,
           \/ sock_to_usb(ch, c) \/ sock_read_end(ch, c)
           \/ usb_to_sock(ch, c) \/ usb_to_sock_end(ch, c)
    PROVE  StreamInv'
<1> DEFINE r == conns[ch][c]
<1>1. r \in Records
  BY Zenon DEF IInv, TypeOK
<1>2. /\ r.unread \in Seq(Frames) /\ r.klipper_q \in Seq(Frames) /\ r.got \in Seq(Frames)
      /\ <<>> \in Seq(Frames)
  BY <1>1, EmptyQueue, Zenon DEF Records
<1>3. arrived' = arrived /\ slot' = slot
  BY Zenon DEF sock_to_usb, sock_read_end, usb_to_sock, usb_to_sock_end, history
<1>4. CASE sock_to_usb(ch, c)
  <2> DEFINE t == Tail(r.unread)
             on == IF usb_writer["host"] THEN "run" ELSE "done"
             m == [r EXCEPT !.unread = t]
             n == [m EXCEPT !.synced = TRUE, !.reader = on]
  <2>1. Conn(ch, c, m) \/ Conn(ch, c, n)
    BY <1>4, Zenon DEF sock_to_usb
  <2>2. t \in Seq(Frames) /\ on \in {"run", "done"} /\ r.reader = "run"
    BY <1>2, <1>4, HeadTail, Zenon DEF sock_to_usb
  <2> HIDE DEF t, on, r
  <2>3. /\ m \in Records /\ m.seen = r.seen /\ m.got = r.got /\ m.klipper_q = r.klipper_q
        /\ m.reader = r.reader /\ m.writer = r.writer
        /\ n \in Records /\ n.seen = r.seen /\ n.got = r.got /\ n.klipper_q = r.klipper_q
        /\ n.reader = on /\ n.writer = r.writer
    BY <1>1, <2>2, Zenon DEF Records
  <2> HIDE DEF m, n
  <2>4. Stream(ch, m) = Stream(ch, r) /\ Stream(ch, n) = Stream(ch, r)
    BY <2>3, Zenon DEF Stream
  <2> QED  BY <1>3, <2>1, <2>2, <2>3, <2>4, StreamAlike, Zenon DEF r
<1>5. CASE sock_read_end(ch, c) \/ usb_to_sock_end(ch, c)
  <2> DEFINE m == [r EXCEPT !.reader = "done", !.unread = <<>>]
             n == [r EXCEPT !.writer = "done"]
  <2>1. Conn(ch, c, m) \/ Conn(ch, c, n)
    BY <1>5, Zenon DEF sock_read_end, usb_to_sock_end
  <2> HIDE DEF r
  <2>2. /\ m \in Records /\ m.seen = r.seen /\ m.got = r.got /\ m.klipper_q = r.klipper_q
        /\ m.reader = "done" /\ m.writer = r.writer
        /\ n \in Records /\ n.seen = r.seen /\ n.got = r.got /\ n.klipper_q = r.klipper_q
        /\ n.reader = r.reader /\ n.writer = "done"
    BY <1>1, <1>2, Zenon DEF Records
  <2> HIDE DEF m, n
  <2>3. Stream(ch, m) = Stream(ch, r) /\ Stream(ch, n) = Stream(ch, r)
    BY <2>2, Zenon DEF Stream
  <2> QED  BY <1>3, <2>1, <2>2, <2>3, StreamAlike, Zenon DEF r
<1>6. CASE usb_to_sock(ch, c) /\ r.peer = "open"
  <2> DEFINE h == Head(r.klipper_q)
             t == Tail(r.klipper_q)
             g == Append(r.got, h)
             n == [r EXCEPT !.got = g, !.klipper_q = t]
  <2>1. r.klipper_q # <<>> /\ Conn(ch, c, n) /\ r.writer = "run"
    BY <1>6, Zenon DEF usb_to_sock
  <2>2. h \in Frames /\ t \in Seq(Frames)
    BY <1>2, <2>1, HeadTail, Zenon
  <2>3. g \in Seq(Frames)
    BY <1>2, <2>2, AppendFrame, Zenon
  <2>4. r.reader # "none"
    BY <2>1, Zenon DEF StreamInv, RecordOK
  <2> HIDE DEF r, h, t, g
  <2>5. /\ n \in Records /\ n.seen = r.seen /\ n.got = g /\ n.klipper_q = t
        /\ n.reader = r.reader /\ n.writer = r.writer
    BY <1>1, <2>2, <2>3, Zenon DEF Records
  <2> HIDE DEF n
  <2>6. Stream(ch, n) = Stream(ch, r)
    BY <1>1, <2>1, <2>5, StreamShift, Zenon DEF g, h, t
  <2> QED  BY <1>3, <2>1, <2>4, <2>5, <2>6, StreamAlike, Zenon DEF r
<1>7. CASE usb_to_sock(ch, c) /\ r.peer # "open"
  <2> DEFINE n == [r EXCEPT !.writer = "done", !.klipper_q = <<>>, !.broke = TRUE]
  <2>1. r.klipper_q # <<>> /\ Conn(ch, c, n)
    BY <1>7, Zenon DEF usb_to_sock
  <2>2. r.reader # "none"
    BY <2>1, Zenon DEF StreamInv, RecordOK
  <2> HIDE DEF r
  <2>3. /\ n \in Records /\ n.seen = r.seen /\ n.got = r.got /\ n.klipper_q = <<>>
        /\ n.reader = r.reader /\ n.writer = "done"
    BY <1>1, <1>2, Zenon DEF Records
  <2> HIDE DEF n
  <2> QED  BY <1>3, <2>1, <2>2, <2>3, StreamEnded, Zenon DEF r
<1> QED  BY <1>4, <1>5, <1>6, <1>7, Zenon

\* A new client starts from what has arrived.
LEMMA StreamAccept ==
    ASSUME IInv, StreamInv, lost \subseteq lost', NEW ch \in Sockets, NEW c \in Conns, accept(ch, c)
    PROVE  StreamInv'
<1> DEFINE r == conns[ch][c]
           a == arrived[ch]
           n == [r EXCEPT !.reader = "run", !.writer = "run", !.seen = a]
<1>1. r \in Records /\ a \in Nat
  BY Zenon DEF IInv, TypeOK
<1>2. conns' = [conns EXCEPT ![ch] = [conns[ch] EXCEPT ![c] = n]]
  BY Zenon DEF accept, Conn, IInv, TypeOK
<1>3. r.got = <<>> /\ r.klipper_q = <<>>
  BY Zenon DEF accept, StreamInv, RecordOK
<1>4. n \in Records /\ n.got = <<>> /\ n.klipper_q = <<>> /\ n.seen = a /\ n.reader # "none"
  <2> HIDE DEF r, a
  <2> QED  BY <1>1, <1>3, Zenon DEF Records
<1>5. arrived' = arrived /\ slot' = [slot EXCEPT ![ch] = c]
  BY Zenon DEF accept, history
<1> HIDE DEF n
<1>6. RecordOK(ch, n, lost) /\ ReachesEnd(ch, n, arrived)
  BY <1>4, StreamFresh, Zenon DEF RecordOK, ReachesEnd, a
<1>7. ASSUME NEW d \in Sockets, NEW e \in Conns
      PROVE  /\ RecordOK(d, conns'[d][e], lost')
             /\ slot'[d] = e /\ conns'[d][e].writer = "run" => ReachesEnd(d, conns'[d][e], arrived)
  <2>1. conns'[d][e] = IF d = ch /\ e = c THEN n ELSE conns[d][e]
    BY <1>2, Zenon DEF IInv, TypeOK
  <2>2. RecordOK(d, conns'[d][e], lost)
    BY <1>6, <2>1, Zenon DEF StreamInv
  <2>3. slot'[d] = IF d = ch THEN c ELSE slot[d]
    BY <1>5, Zenon DEF IInv, TypeOK
  <2>4. slot'[d] = e /\ conns'[d][e].writer = "run" => ReachesEnd(d, conns'[d][e], arrived)
    BY <1>6, <2>1, <2>3, Zenon DEF StreamInv
  <2> QED  BY <2>2, <2>4, RecordStays, Zenon
<1> QED  BY <1>5, <1>7, Zenon DEF StreamInv

\* The demux: the frame follows the last one of the client it is queued for.
LEMMA StreamRead ==
    ASSUME IInv, PipeInv, StreamInv, lost \subseteq lost', host_usb_read
    PROVE  StreamInv'
<1> DEFINE w == wire["exporter"]
           f == Head(w)
<1>1. /\ w \in Seq(Frames) /\ w # <<>> /\ usb_q["exporter"] \in Seq(Frames)
      /\ mcu_sent \in [Uarts -> Nat] /\ arrived \in [Sockets -> Nat]
      /\ conns \in [Sockets -> [Conns -> Records]] /\ slot \in [Sockets -> Conns \cup {0}]
  BY Zenon DEF host_usb_read, IInv, TypeOK, Sides
<1>2. NextIn(f, arrived, lost) /\ f \in Frames
  <2> HIDE DEF w
  <2> QED  BY <1>1, PipeRead, HeadTail, Zenon DEF PipeInv, w
<1>3. slot' = slot
  BY Zenon DEF host_usb_read
<1>4. CASE UNCHANGED <<conns, arrived>>
  BY <1>3, <1>4, StreamSame, Zenon
<1>5. CASE route_to_client(f) /\ arrived' = Advance(f, arrived)
  <2>1. ASSUME NEW d \in Sockets, NEW e \in Conns
        PROVE  /\ RecordOK(d, conns'[d][e], lost)
               /\ slot[d] = e /\ conns'[d][e].writer = "run" => ReachesEnd(d, conns'[d][e], arrived')
    <3> DEFINE r == conns[d][e]
               q == Append(r.klipper_q, f)
               n == [r EXCEPT !.klipper_q = q]
    <3>a. e # 0
      BY DEF Conns
    <3>b. r \in Records
      BY <1>1, Zenon
    <3>1. /\ RecordOK(d, r, lost) /\ r \in Records /\ e # 0
          /\ slot[d] = e /\ r.writer = "run" => ReachesEnd(d, r, arrived)
      BY <3>a, <3>b, Zenon DEF StreamInv
    <3>0. r.klipper_q \in Seq(Frames)
      BY <3>1, Zenon DEF Records
    <3> HIDE DEF f
    <3>2. CASE d # f.ch
      <4>1. conns'[d][e] = r
        BY <1>1, <1>5, <3>2, Zenon DEF route_to_client
      <4>2. arrived'[d] = arrived[d]
        BY <1>5, <3>2, Zenon DEF Advance
      <4> HIDE DEF r
      <4> QED  BY <3>1, <4>1, <4>2, Zenon DEF ReachesEnd
    <3>3. CASE d = f.ch /\ ~(slot[d] = e /\ r.writer = "run")
      <4>1. conns'[d][e] = r
        BY <1>1, <1>5, <3>1, <3>3, Zenon DEF route_to_client
      <4> HIDE DEF r
      <4> QED  BY <3>1, <3>3, <4>1, Zenon
    <3>4. CASE d = f.ch /\ slot[d] = e /\ r.writer = "run"
      <4>1. conns'[d][e] = n
        BY <1>1, <1>5, <3>1, <3>4, Zenon DEF route_to_client
      <4>2. arrived'[d] = f.n /\ arrived[d] \in Nat
        BY <1>1, <1>5, <3>4, Zenon DEF Advance
      <4>3. q \in Seq(Frames)
        BY <1>2, <3>0, AppendFrame, Zenon
      <4> HIDE DEF q, r
      <4>4. /\ n \in Records /\ n.seen = r.seen /\ n.got = r.got /\ n.klipper_q = q
            /\ n.reader = r.reader
        BY <3>1, <4>3, Zenon DEF Records
      <4> HIDE DEF n
      <4>5. StreamOK(d, Stream(d, n), lost) /\ Stream(d, n)[Len(Stream(d, n))].n = f.n
        BY <1>2, <3>1, <3>4, <4>2, <4>4, StreamNext, Zenon DEF q, RecordOK
      <4>6. r.reader # "none"
        BY <3>1, <3>4, Zenon DEF RecordOK
      <4> QED  BY <4>1, <4>2, <4>4, <4>5, <4>6, Zenon DEF RecordOK, ReachesEnd
    <3> QED  BY <3>2, <3>3, <3>4, Zenon
  <2> QED  BY <1>3, <2>1, RecordStays, Zenon DEF StreamInv
<1> QED  BY <1>4, <1>5, Zenon DEF host_usb_read, Advance

\* The end of a connection, and of a process.
LEMMA StreamExit ==
    ASSUME IInv, StreamInv, lost \subseteq lost', NEW s \in Sides, Exit(s)
    PROVE  StreamInv'
<1>1. arrived' = arrived
  BY Zenon DEF Exit
<1>2. CASE s = "exporter"
  <2>1. conns' = conns /\ slot' = slot
    BY <1>2, Zenon DEF Exit, hostVars
  <2> QED  BY <1>1, <2>1, StreamSame, Zenon
<1>3. CASE s # "exporter"
  <2> DEFINE Ended(r) == IF r.peer = "none" THEN NoConn
                         ELSE [r EXCEPT !.peer = "closed", !.reader = "done", !.writer = "done",
                                        !.klipper_q = <<>>, !.unread = <<>>]
  <2>1. conns' = [ch \in Sockets |-> [c \in Conns |-> Ended(conns[ch][c])]]
    BY <1>3, Zenon DEF Exit
  <2>2. slot' = [ch \in Sockets |-> 0]
    BY <1>3, Zenon DEF Exit
  <2>3. ASSUME NEW r \in Records
        PROVE  /\ Ended(r) \in Records /\ Ended(r).klipper_q = <<>> /\ Ended(r).writer # "run"
               /\ \/ Ended(r).got = <<>>
                  \/ Ended(r).got = r.got /\ Ended(r).seen = r.seen /\ Ended(r).reader # "none"
    <3>1. <<>> \in Seq(Frames)
      BY EmptyQueue, Zenon
    <3> QED  BY <3>1, Zenon DEF NoConn, Records
  <2> HIDE DEF Ended
  <2>4. ASSUME NEW ch \in Sockets, NEW c \in Conns
        PROVE  RecordOK(ch, conns'[ch][c], lost) /\ slot'[ch] # c
    <3> DEFINE r == conns[ch][c]
               n == conns'[ch][c]
    <3>1. r \in Records /\ StreamOK(ch, Stream(ch, r), lost)
      BY Zenon DEF IInv, TypeOK, StreamInv, RecordOK
    <3>2. /\ n \in Records /\ n.klipper_q = <<>> /\ n.writer # "run"
          /\ n.got = <<>> \/ (n.got = r.got /\ n.seen = r.seen /\ n.reader # "none")
      BY <2>1, <2>3, <3>1, Zenon
    <3>3. slot'[ch] # c
      BY <2>2, ConnNumbers, Zenon
    <3> HIDE DEF r, n
    <3>4. StreamOK(ch, Stream(ch, n), lost)
      BY <3>1, <3>2, StreamFresh, StreamCut, Zenon
    <3> QED  BY <3>2, <3>3, <3>4, Zenon DEF RecordOK, n
  <2> QED  BY <1>1, <2>4, RecordStays, Zenon DEF StreamInv
<1> QED  BY <1>2, <1>3, Zenon

\* Every step.
LEMMA StreamStep ==
    ASSUME IInv, PipeInv, StreamInv, [Next]_vars
    PROVE  StreamInv'
<1>1. lost \subseteq lost'
  BY PipeStep, Zenon
<1> DEFINE Aside == conns' = conns /\ arrived' = arrived /\ \A ch \in Sockets : slot'[ch] \in {0, slot[ch]}
<1>2. ASSUME NEW s \in Sides, usb_write(s) \/ usb_write_error(s) \/ Start(s) PROVE Aside
  BY <1>2, Zenon DEF usb_write, usb_write_error, Start, hostVars, history
<1>3. ASSUME exporter_usb_read \/ UNCHANGED vars PROVE Aside
  BY <1>3, Zenon DEF exporter_usb_read, vars, hostVars, history
<1>4. ASSUME NEW ch \in Uarts,
             uart_to_usb(ch) \/ uart_read_error(ch) \/ usb_to_uart(ch) \/ uart_write_error(ch)
      PROVE  Aside
  BY <1>4, Zenon DEF uart_to_usb, uart_read_error, usb_to_uart, uart_write_error, hostVars, history
<1>5. ASSUME NEW ch \in Sockets, connection_over(ch) PROVE Aside
  BY <1>5, Zenon DEF connection_over, cleared, history, IInv, TypeOK
<1>6. Aside => StreamInv'
  BY <1>1, StreamSame, Zenon
<1> HIDE DEF Aside
<1> QED  BY Zenon, <1>1, <1>2, <1>3, <1>4, <1>5, <1>6, StreamExit, StreamRead, StreamAccept, StreamTasks,
            StreamClient DEF Next, Task

\* At the start nothing was sent.
LEMMA StreamInit == Init => PipeInv /\ StreamInv
<1> SUFFICES ASSUME Init PROVE PipeInv /\ StreamInv
  BY Zenon
<1>1. Range(<<>>) = {} /\ Sorted(<<>>, McuOrder)
  BY EmptyQueue, Zenon
<1>2. PipeInv
  <2>1. /\ wire["exporter"] = <<>> /\ usb_q["exporter"] = <<>>
        /\ mcu_sent = [ch \in Uarts |-> 0] /\ arrived = [ch \in Sockets |-> 0]
    BY Zenon DEF Init, Sides
  <2> QED  BY <1>1, <2>1 DEF PipeInv, Pipe, Before
<1>3. ASSUME NEW ch \in Sockets, NEW c \in Conns
      PROVE  RecordOK(ch, conns[ch][c], lost) /\ conns[ch][c].writer # "run"
  <2>1. conns[ch][c] = NoConn
    BY Zenon DEF Init
  <2>2. /\ NoConn \in Records /\ NoConn.got = <<>> /\ NoConn.klipper_q = <<>>
        /\ NoConn.writer # "run"
    BY EmptyQueue, Zenon DEF NoConn, Records
  <2> QED  BY <2>1, <2>2, StreamFresh, Zenon DEF RecordOK
<1> QED  BY <1>2, <1>3, Zenon DEF StreamInv

\* Whatever connections come and go, tasks and processes end, and frames are
\* lost on the link, a client is given each frame that arrives while it is
\* served, in order (run_host's demux, usb_to_sock).
THEOREM ClientsAreServed == Spec => []ClientStream
<1> DEFINE Inv == IInv /\ PipeInv /\ StreamInv
<1>1. Inv /\ [Next]_vars => Inv'
  BY StepKeeps, PipeStep, StreamStep, Zenon
<1>2. Init => Inv
  BY InitKeeps, StreamInit, Zenon
<1>3. Inv => ClientStream
  BY ZenonT(30) DEF StreamInv, RecordOK, StreamOK, Follows, Stream, ReachesEnd, ClientStream
<1> HIDE DEF Inv
<1> QED  BY <1>1, <1>2, <1>3, PTL DEF Spec

-----------------------------------------------------------------------------
(***************************************************************************)
(* The commands of the clients on their way to the UARTs.                  *)
(***************************************************************************)
ToMcu == {f \in Frames : f.ch \in Sockets /\ f.conn \in Conns}

CommandsOrder(cs) ==
    {p \in ToMcu \X ToMcu : p[1].ch = p[2].ch =>
        /\ p[1].conn = p[2].conn => p[1].n < p[2].n
        /\ p[1].conn > p[2].conn => cs[p[2].ch][p[2].conn].broke}

\* A command that a task has read, before those of its client not yet read.
ReadFrom(f, cs) ==
    /\ f.ch \in Sockets /\ f.conn \in Conns
    /\ cs[f.ch][f.conn].reader # "none"
    /\ f.n <= cs[f.ch][f.conn].sent
    /\ \A u \in Range(cs[f.ch][f.conn].unread) : f.n < u.n

\* w, q: wire and queue of the host, out, uq: what was written to each UART
\* and the queue of its task.
Commands(w, q, out, uq, cs) ==
    /\ Sorted(w, CommandsOrder(cs)) /\ Sorted(q, CommandsOrder(cs))
    /\ Before(Range(w), Range(q), CommandsOrder(cs))
    /\ \A f \in Range(w) \cup Range(q) : ReadFrom(f, cs)
    /\ \A ch \in Uarts :
          /\ Sorted(out[ch], CommandsOrder(cs)) /\ Sorted(uq[ch], CommandsOrder(cs))
          /\ Before(Range(out[ch]), Range(uq[ch]), CommandsOrder(cs))
          /\ Before(Range(out[ch]) \cup Range(uq[ch]), Range(w) \cup Range(q), CommandsOrder(cs))
          /\ \A f \in Range(out[ch]) \cup Range(uq[ch]) : f.ch = ch /\ ReadFrom(f, cs)

\* What a step may do to a connection: a write that failed stays failed, an
\* accepted connection accepted; what is new to read was sent later.
LaterRecord(r, n) ==
    /\ r.broke => n.broke
    /\ r.reader # "none" => n.reader # "none"
    /\ r.sent <= n.sent
    /\ \A u \in Range(n.unread) : u \in Range(r.unread) \/ u.n > r.sent

Later(cs, ds) == \A ch \in Sockets, c \in Conns : LaterRecord(cs[ch][c], ds[ch][c])

\* The order, by the fields of the frames.
LEMMA OrderMeans ==
    ASSUME NEW a \in ToMcu, NEW b \in ToMcu, NEW cs
    PROVE  <<a, b>> \in CommandsOrder(cs) <=>
             (a.ch = b.ch => /\ a.conn = b.conn => a.n < b.n
                             /\ a.conn > b.conn => cs[b.ch][b.conn].broke)
BY Zenon DEF CommandsOrder

\* The connections move on.
LEMMA CommandsGrow ==
    ASSUME NEW w \in Seq(Frames), NEW q \in Seq(Frames), NEW cs, NEW ds,
           NEW out \in [Uarts -> Seq(Frames)], NEW uq \in [Uarts -> Seq(Frames)],
           cs \in [Sockets -> [Conns -> Records]], ds \in [Sockets -> [Conns -> Records]],
           Later(cs, ds), Commands(w, q, out, uq, cs)
    PROVE  Commands(w, q, out, uq, ds)
<1> DEFINE R == CommandsOrder(cs)
           S == CommandsOrder(ds)
<1>1. R \subseteq S
  <2>1. ASSUME NEW p \in R PROVE p \in S
    <3>1. /\ p \in ToMcu \X ToMcu /\ p[2].ch \in Sockets /\ p[2].conn \in Conns
          /\ p[1].ch = p[2].ch =>
               /\ p[1].conn = p[2].conn => p[1].n < p[2].n
               /\ p[1].conn > p[2].conn => cs[p[2].ch][p[2].conn].broke
      BY Zenon DEF CommandsOrder, ToMcu
    <3>2. cs[p[2].ch][p[2].conn].broke => ds[p[2].ch][p[2].conn].broke
      BY <3>1, Zenon DEF Later, LaterRecord
    <3> QED  BY <3>1, <3>2, Zenon DEF CommandsOrder
  <2> QED  BY <2>1, Zenon
<1>2. ASSUME NEW f \in Frames, ReadFrom(f, cs) PROVE ReadFrom(f, ds)
  <2> DEFINE r == cs[f.ch][f.conn]
             n == ds[f.ch][f.conn]
  <2>1. /\ f.ch \in Sockets /\ f.conn \in Conns /\ r.reader # "none" /\ f.n <= r.sent
        /\ \A u \in Range(r.unread) : f.n < u.n
    BY <1>2, Zenon DEF ReadFrom
  <2>2. r \in Records /\ n \in Records /\ LaterRecord(r, n)
    BY <2>1, Zenon DEF Later
  <2> HIDE DEF r, n
  <2>3. r.sent \in Nat /\ n.sent \in Nat /\ f.n \in Nat /\ n.unread \in Seq(Frames)
    BY <2>2, Zenon DEF Records, Frames
  <2>4. Range(n.unread) \subseteq Frames
    BY <2>3, Elements, Zenon
  <2>5. f.n <= n.sent
    BY <2>1, <2>2, <2>3 DEF LaterRecord
  <2>6. ASSUME NEW u \in Range(n.unread) PROVE f.n < u.n
    <3>1. u.n \in Nat
      BY <2>4, Zenon DEF Frames
    <3> QED  BY <2>1, <2>2, <2>3, <3>1 DEF LaterRecord
  <2>7. n.reader # "none"
    BY <2>1, <2>2, Zenon DEF LaterRecord
  <2> QED  BY <2>1, <2>5, <2>6, <2>7, Zenon DEF ReadFrom, n
<1>3. Range(w) \subseteq Frames /\ Range(q) \subseteq Frames
  BY Elements, Zenon
<1>4. \A ch \in Uarts : Range(out[ch]) \subseteq Frames /\ Range(uq[ch]) \subseteq Frames
  BY Elements, Zenon
<1> HIDE DEF R, S
<1>5. Sorted(w, S) /\ Sorted(q, S) /\ \A ch \in Uarts : Sorted(out[ch], S) /\ Sorted(uq[ch], S)
  BY <1>1, CoarserSorted, Zenon DEF Commands, R
<1>6. /\ Before(Range(w), Range(q), S)
      /\ \A ch \in Uarts :
           /\ Before(Range(out[ch]), Range(uq[ch]), S)
           /\ Before(Range(out[ch]) \cup Range(uq[ch]), Range(w) \cup Range(q), S)
  BY <1>1, Zenon DEF Commands, R, Before
<1>7. /\ \A f \in Range(w) \cup Range(q) : ReadFrom(f, ds)
      /\ \A ch \in Uarts : \A f \in Range(out[ch]) \cup Range(uq[ch]) : f.ch = ch /\ ReadFrom(f, ds)
  BY <1>2, <1>3, <1>4, Zenon DEF Commands
<1> QED  BY <1>5, <1>6, <1>7, Zenon DEF Commands, S

\* A command is written to the link.
LEMMA CommandsWrite ==
    ASSUME NEW w \in Seq(Frames), NEW q \in Seq(Frames), NEW cs, NEW out, NEW uq,
           Commands(w, q, out, uq, cs), q # <<>>
    PROVE  Commands(Append(w, Head(q)), Tail(q), out, uq, cs)
<1> DEFINE f == Head(q)
           t == Tail(q)
           v == Append(w, f)
           R == CommandsOrder(cs)
<1>1. f \in Frames /\ f \in Range(q) /\ t \in Seq(Frames) /\ Range(q) = {f} \cup Range(t)
  BY TakeFirst, Zenon
<1> HIDE DEF R
<1>2. Sorted(t, R) /\ Before({f}, Range(t), R)
  BY TakeFirstSorted, Zenon DEF Commands, R
<1> HIDE DEF f, t
<1>3. Range(v) = Range(w) \cup {f}
  BY <1>1, AppendFrame, Zenon
<1>4. Before(Range(w), {f}, R) /\ Sorted(w, R)
  BY <1>1, Zenon DEF Commands, Before, R
<1>5. Sorted(v, R)
  BY <1>1, <1>4, AppendSorted, Zenon
<1> HIDE DEF v
<1>6. Before(Range(v), Range(t), R)
  BY <1>1, <1>2, <1>3, Zenon DEF Commands, Before, R
<1>7. Range(v) \cup Range(t) = Range(w) \cup Range(q)
  BY <1>1, <1>3, Zenon
<1>8. Commands(v, t, out, uq, cs)
  BY <1>2, <1>5, <1>6, <1>7, Zenon DEF Commands, R
<1> QED  BY <1>8, Zenon DEF v, t, f

\* Commands on the link, in the queue or waiting for a UART are lost.
LEMMA CommandsLess ==
    ASSUME NEW w \in Seq(Frames), NEW q \in Seq(Frames), NEW cs, NEW out, NEW uq,
           NEW v, NEW p, NEW up, Commands(w, q, out, uq, cs),
           Range(v) \subseteq Range(w), Sorted(v, CommandsOrder(cs)),
           Range(p) \subseteq Range(q), Sorted(p, CommandsOrder(cs)),
           \A ch \in Uarts : up[ch] \in {<<>>, uq[ch]}
    PROVE  Commands(v, p, out, up, cs)
<1> DEFINE R == CommandsOrder(cs)
<1> HIDE DEF R
<1>1. Range(<<>>) = {} /\ Sorted(<<>>, R)
  BY EmptyQueue, Zenon
<1>2. ASSUME NEW ch \in Uarts
      PROVE  Range(up[ch]) \subseteq Range(uq[ch]) /\ Sorted(up[ch], R)
  BY <1>1, Zenon DEF Commands, R
<1>3. Before(Range(v), Range(p), R) /\ Sorted(v, R) /\ Sorted(p, R)
  BY Zenon DEF Commands, Before, R
<1>4. ASSUME NEW ch \in Uarts
      PROVE  /\ Before(Range(out[ch]), Range(up[ch]), R)
             /\ Before(Range(out[ch]) \cup Range(up[ch]), Range(v) \cup Range(p), R)
  BY <1>2, Zenon DEF Commands, Before, R
<1>5. /\ \A f \in Range(v) \cup Range(p) : ReadFrom(f, cs)
      /\ \A ch \in Uarts : \A f \in Range(out[ch]) \cup Range(up[ch]) : f.ch = ch /\ ReadFrom(f, cs)
  BY <1>2, Zenon DEF Commands
<1>6. \A ch \in Uarts : Sorted(out[ch], R)
  BY Zenon DEF Commands, R
<1> QED  BY <1>2, <1>3, <1>4, <1>5, <1>6, Zenon DEF Commands, R

\* The exporter's main loop moves a command to the queue of its UART.
LEMMA CommandsRoute ==
    ASSUME NEW w \in Seq(Frames), NEW q \in Seq(Frames), NEW cs, NEW out,
           NEW uq \in [Uarts -> Seq(Frames)], Commands(w, q, out, uq, cs), w # <<>>,
           Head(w).ch \in Uarts
    PROVE  Commands(Tail(w), q, out, [uq EXCEPT ![Head(w).ch] = Append(uq[Head(w).ch], Head(w))], cs)
<1> DEFINE f == Head(w)
           t == Tail(w)
           u == f.ch
           v == Append(uq[u], f)
           up == [uq EXCEPT ![u] = v]
           R == CommandsOrder(cs)
<1>1. f \in Frames /\ f \in Range(w) /\ t \in Seq(Frames) /\ Range(w) = {f} \cup Range(t)
  BY TakeFirst, Zenon
<1> HIDE DEF R
<1>2. Sorted(t, R) /\ Before({f}, Range(t), R)
  BY TakeFirstSorted, Zenon DEF Commands, R
<1> HIDE DEF f, t
<1>3. u \in Uarts
  BY Zenon DEF f
<1>4. Range(v) = Range(uq[u]) \cup {f}
  BY <1>1, <1>3, AppendFrame, Zenon
<1>5. Before(Range(uq[u]), {f}, R) /\ Sorted(uq[u], R)
  BY <1>1, <1>3, Zenon DEF Commands, Before, R
<1>6. Sorted(v, R)
  BY <1>1, <1>3, <1>5, AppendSorted, Zenon
<1>7. \A ch \in Uarts : up[ch] = IF ch = u THEN v ELSE uq[ch]
  BY Zenon
<1> HIDE DEF v, up
<1>8. ASSUME NEW ch \in Uarts
      PROVE  /\ Sorted(out[ch], R) /\ Sorted(up[ch], R)
             /\ Before(Range(out[ch]), Range(up[ch]), R)
             /\ Before(Range(out[ch]) \cup Range(up[ch]), Range(t) \cup Range(q), R)
             /\ \A g \in Range(out[ch]) \cup Range(up[ch]) : g.ch = ch /\ ReadFrom(g, cs)
  <2>1. CASE ch # u
    <3>1. up[ch] = uq[ch]
      BY <1>7, <2>1, Zenon
    <3> QED  BY <1>1, <3>1, Zenon DEF Commands, Before, R
  <2>2. CASE ch = u
    <3>1. up[ch] = v
      BY <1>7, <2>2, Zenon
    <3>2. Before(Range(out[ch]), Range(v), R)
      BY <1>1, <1>4, <2>2, Zenon DEF Commands, Before, R
    <3>3. Before(Range(out[ch]) \cup Range(v), Range(t) \cup Range(q), R)
      BY <1>1, <1>2, <1>4, <2>2, Zenon DEF Commands, Before, R
    <3>4. \A g \in Range(out[ch]) \cup Range(v) : g.ch = ch /\ ReadFrom(g, cs)
      BY <1>1, <1>4, <2>2, Zenon DEF Commands
    <3> QED  BY <1>6, <3>1, <3>2, <3>3, <3>4, Zenon DEF Commands, R
  <2> QED  BY <2>1, <2>2, Zenon
<1>9. Sorted(q, R) /\ Before(Range(t), Range(q), R) /\ \A g \in Range(t) \cup Range(q) : ReadFrom(g, cs)
  BY <1>1, Zenon DEF Commands, Before, R
<1>10. Commands(t, q, out, up, cs)
  BY <1>2, <1>8, <1>9, Zenon DEF Commands, R
<1> QED  BY <1>10, Zenon DEF t, up, v, f

\* A command is written to its UART.
LEMMA CommandsOut ==
    ASSUME NEW w, NEW q, NEW cs, NEW out \in [Uarts -> Seq(Frames)],
           NEW uq \in [Uarts -> Seq(Frames)], Commands(w, q, out, uq, cs),
           NEW u \in Uarts, uq[u] # <<>>
    PROVE  Commands(w, q, [out EXCEPT ![u] = Append(out[u], Head(uq[u]))],
                    [uq EXCEPT ![u] = Tail(uq[u])], cs)
<1> DEFINE b == uq[u]
           f == Head(b)
           t == Tail(b)
           v == Append(out[u], f)
           oo == [out EXCEPT ![u] = v]
           up == [uq EXCEPT ![u] = t]
           R == CommandsOrder(cs)
<1> HIDE DEF b
<1>1. b \in Seq(Frames) /\ b # <<>>
  BY Zenon DEF b
<1>2. f \in Frames /\ f \in Range(b) /\ t \in Seq(Frames) /\ Range(b) = {f} \cup Range(t)
  BY <1>1, TakeFirst, Zenon
<1> HIDE DEF R
<1>3. Sorted(b, R)
  BY Zenon DEF Commands, R, b
<1>4. Sorted(t, R) /\ Before({f}, Range(t), R)
  BY <1>1, <1>3, TakeFirstSorted, Zenon
<1> HIDE DEF f, t
<1>5. Range(v) = Range(out[u]) \cup {f}
  BY <1>2, AppendFrame, Zenon
<1>6. Before(Range(out[u]), {f}, R) /\ Sorted(out[u], R)
  BY <1>2, Zenon DEF Commands, Before, R, b
<1>7. Sorted(v, R)
  BY <1>2, <1>6, AppendSorted, Zenon
<1>8. \A ch \in Uarts : /\ oo[ch] = IF ch = u THEN v ELSE out[ch]
                        /\ up[ch] = IF ch = u THEN t ELSE uq[ch]
  BY Zenon
<1> HIDE DEF v, oo, up
<1>9. ASSUME NEW ch \in Uarts
      PROVE  /\ Sorted(oo[ch], R) /\ Sorted(up[ch], R)
             /\ Before(Range(oo[ch]), Range(up[ch]), R)
             /\ Before(Range(oo[ch]) \cup Range(up[ch]), Range(w) \cup Range(q), R)
             /\ \A g \in Range(oo[ch]) \cup Range(up[ch]) : g.ch = ch /\ ReadFrom(g, cs)
  <2>1. CASE ch # u
    <3>1. up[ch] = uq[ch] /\ oo[ch] = out[ch]
      BY <1>8, <2>1, Zenon
    <3> QED  BY <3>1, Zenon DEF Commands, R
  <2>2. CASE ch = u
    <3>1. up[ch] = t /\ oo[ch] = v
      BY <1>8, <2>2, Zenon
    <3>2. Before(Range(v), Range(t), R)
      BY <1>2, <1>4, <1>5, <2>2, Zenon DEF Commands, Before, R, b
    <3>3. Range(v) \cup Range(t) = Range(out[u]) \cup Range(uq[u])
      BY <1>2, <1>5, Zenon DEF b
    <3> QED  BY <1>4, <1>7, <2>2, <3>1, <3>2, <3>3, Zenon DEF Commands, R
  <2> QED  BY <2>1, <2>2, Zenon
<1>10. Commands(w, q, oo, up, cs)
  BY <1>9, Zenon DEF Commands, R
<1> QED  BY <1>10, Zenon DEF t, up, v, f, oo, b

\* A command read from a client is queued, after all that were read before.
LEMMA CommandsSend ==
    ASSUME NEW w \in Seq(Frames), NEW q \in Seq(Frames), NEW cs, NEW ds,
           NEW out \in [Uarts -> Seq(Frames)], NEW uq \in [Uarts -> Seq(Frames)],
           Commands(w, q, out, uq, cs), Commands(w, q, out, uq, ds),
           NEW h \in Frames, ReadFrom(h, ds),
           \A a \in Frames : ReadFrom(a, cs) => <<a, h>> \in CommandsOrder(ds)
    PROVE  Commands(w, Append(q, h), out, uq, ds)
<1> DEFINE R == CommandsOrder(ds)
           v == Append(q, h)
<1>1. Range(w) \subseteq Frames /\ Range(q) \subseteq Frames
  BY Elements, Zenon
<1>2. \A ch \in Uarts : Range(out[ch]) \subseteq Frames /\ Range(uq[ch]) \subseteq Frames
  BY Elements, Zenon
<1> HIDE DEF R
<1>3. Before(Range(w) \cup Range(q), {h}, R)
  BY <1>1, Zenon DEF Commands, Before, R
<1>4. ASSUME NEW ch \in Uarts PROVE Before(Range(out[ch]) \cup Range(uq[ch]), {h}, R)
  BY <1>2, Zenon DEF Commands, Before, R
<1>5. Range(v) = Range(q) \cup {h}
  BY AppendFrame, Zenon
<1>6. Before(Range(q), {h}, R) /\ Sorted(q, R)
  BY <1>3, Zenon DEF Commands, Before, R
<1>7. Sorted(v, R)
  BY <1>6, AppendSorted, Zenon
<1> HIDE DEF v
<1>8. Before(Range(w), Range(v), R)
  BY <1>3, <1>5, Zenon DEF Commands, Before, R
<1>9. ASSUME NEW ch \in Uarts
      PROVE  Before(Range(out[ch]) \cup Range(uq[ch]), Range(w) \cup Range(v), R)
  <2>1. Before(Range(out[ch]) \cup Range(uq[ch]), Range(w) \cup Range(q), R)
    BY Zenon DEF Commands, R
  <2> QED  BY <1>4, <1>5, <2>1, Zenon DEF Before
<1>10. Commands(w, v, out, uq, ds)
  BY <1>5, <1>7, <1>8, <1>9, Zenon DEF Commands, R
<1> QED  BY <1>10, Zenon DEF v

CommandInv == Commands(wire["host"], usb_q["host"], uart_out, uart_q, conns)

\* Connections are made and accepted in the order of their numbers.
InOrder(cs, sv) ==
    \A c \in Conns, d \in Conns : d > c =>
       /\ sv = c => cs[d].reader = "none"
       /\ cs[d].reader # "none" => cs[c].reader # "none"
       /\ cs[d].peer # "none" => cs[c].peer # "none"

ConnsInv ==
    \A ch \in Sockets : /\ \A c \in Conns : OneConnInv(ch, c, conns[ch][c], serving[ch], slot[ch])
                        /\ InOrder(conns[ch], serving[ch])

\* Nothing is done to it.
LEMMA LaterSame ==
    ASSUME NEW r \in Records
    PROVE  LaterRecord(r, r)
BY DEF LaterRecord, Records

\* A step that changes one connection and neither accepts nor makes it.
LEMMA ConnsOne ==
    ASSUME IInv, ConnsInv, serving' = serving, slot' = slot,
           NEW ch \in Sockets, NEW c \in Conns, NEW n \in Records, Conn(ch, c, n),
           OneConnInv(ch, c, n, serving[ch], slot[ch]), LaterRecord(conns[ch][c], n),
           n.peer = "none" <=> conns[ch][c].peer = "none",
           n.reader = "none" <=> conns[ch][c].reader = "none"
    PROVE  ConnsInv' /\ Later(conns, conns')
<1>1. conns \in [Sockets -> [Conns -> Records]]
  BY Zenon DEF IInv, TypeOK
<1>2. conns' = [conns EXCEPT ![ch] = [conns[ch] EXCEPT ![c] = n]]
  BY <1>1, Zenon DEF Conn
<1>3. ASSUME NEW d \in Sockets, NEW e \in Conns
      PROVE  /\ OneConnInv(d, e, conns'[d][e], serving[d], slot[d])
             /\ LaterRecord(conns[d][e], conns'[d][e])
             /\ conns'[d][e].peer = "none" <=> conns[d][e].peer = "none"
             /\ conns'[d][e].reader = "none" <=> conns[d][e].reader = "none"
  <2>1. conns'[d][e] = IF d = ch /\ e = c THEN n ELSE conns[d][e]
    BY <1>1, <1>2, Zenon
  <2>2. CASE d = ch /\ e = c
    BY <2>1, <2>2, Zenon
  <2>3. CASE ~(d = ch /\ e = c)
    <3>1. conns'[d][e] = conns[d][e] /\ conns[d][e] \in Records
      BY <1>1, <2>1, <2>3, Zenon
    <3> QED  BY <3>1, LaterSame, Zenon DEF ConnsInv
  <2> QED  BY <2>2, <2>3, Zenon
<1>4. ASSUME NEW d \in Sockets PROVE InOrder(conns'[d], serving[d])
  BY <1>3, ZenonT(30) DEF ConnsInv, InOrder
<1> QED  BY <1>3, <1>4, Zenon DEF ConnsInv, Later

\* A step that leaves the connections alone.
LEMMA ConnsSame ==
    ASSUME IInv, ConnsInv, serving' = serving, slot' = slot, conns' = conns
    PROVE  ConnsInv' /\ Later(conns, conns')
<1>1. ASSUME NEW ch \in Sockets, NEW c \in Conns PROVE LaterRecord(conns[ch][c], conns[ch][c])
  BY LaterSame, Zenon DEF IInv, TypeOK
<1> QED  BY <1>1, Zenon DEF ConnsInv, Later

\* A client connects when its last connection is closed.
LEMMA ConnsConnect ==
    ASSUME IInv, ConnsInv, NEW ch \in Sockets, NEW c \in Conns, Connects(ch, c)
    PROVE  ConnsInv' /\ Later(conns, conns')
<1> DEFINE r == conns[ch][c]
           n == [NoConn EXCEPT !.peer = "open"]
<1>1. conns \in [Sockets -> [Conns -> Records]]
  BY Zenon DEF IInv, TypeOK
<1>2. conns' = [conns EXCEPT ![ch] = [conns[ch] EXCEPT ![c] = n]] /\ serving' = serving /\ slot' = slot
  BY <1>1, Zenon DEF Connects, Conn
<1>3. r = NoConn
  BY Zenon DEF ConnsInv, OneConnInv, Connects
<1>4. /\ r.reader = "none" /\ n.reader = "none" /\ r.peer = "none" /\ n.peer = "open"
      /\ n.unread = <<>> /\ r.broke = FALSE /\ r.sent = 0 /\ n.sent = 0
  BY <1>3 DEF NoConn
<1>5. Range(<<>>) = {} /\ Sorted(<<>>, McuOrder)
  BY EmptyQueue, Zenon
<1> HIDE DEF r, n
<1>6. LaterRecord(r, n) /\ OneConnInv(ch, c, n, serving[ch], slot[ch])
  BY <1>4, <1>5 DEF LaterRecord, OneConnInv, UnreadOK
<1>7. ASSUME NEW d \in Sockets, NEW e \in Conns
      PROVE  /\ OneConnInv(d, e, conns'[d][e], serving[d], slot[d])
             /\ LaterRecord(conns[d][e], conns'[d][e])
             /\ conns'[d][e].reader = "none" <=> conns[d][e].reader = "none"
             /\ conns'[d][e].peer = IF d = ch /\ e = c THEN "open" ELSE conns[d][e].peer
  <2>1. conns'[d][e] = IF d = ch /\ e = c THEN n ELSE conns[d][e]
    BY <1>1, <1>2, Zenon
  <2>2. CASE d = ch /\ e = c
    BY <1>4, <1>6, <2>1, <2>2, Zenon DEF r
  <2>3. CASE ~(d = ch /\ e = c)
    <3>1. conns'[d][e] = conns[d][e] /\ conns[d][e] \in Records
      BY <1>1, <2>1, <2>3, Zenon
    <3> QED  BY <2>3, <3>1, LaterSame, Zenon DEF ConnsInv
  <2> QED  BY <2>2, <2>3, Zenon
<1>8. ASSUME NEW e \in Conns, e < c PROVE conns[ch][e].peer # "none"
  <2>0. c > 1 /\ c - 1 \in Conns
    BY <1>8, RelayBounds DEF Conns
  <2>1. c - 1 \in Conns /\ conns[ch][c - 1].peer = "closed"
    BY <2>0, Zenon DEF Connects
  <2>2. e = c - 1 \/ c - 1 > e
    BY <1>8 DEF Conns
  <2>3. InOrder(conns[ch], serving[ch])
    BY Zenon DEF ConnsInv
  <2> QED  BY <2>1, <2>2, <2>3, Zenon DEF InOrder
<1>9. ASSUME NEW d \in Sockets PROVE InOrder(conns'[d], serving[d])
  <2>1. ASSUME NEW x \in Conns, NEW y \in Conns, y > x
        PROVE  /\ serving[d] = x => conns'[d][y].reader = "none"
               /\ conns'[d][y].reader # "none" => conns'[d][x].reader # "none"
               /\ conns'[d][y].peer # "none" => conns'[d][x].peer # "none"
    <3>1. /\ serving[d] = x => conns[d][y].reader = "none"
          /\ conns[d][y].reader # "none" => conns[d][x].reader # "none"
          /\ conns[d][y].peer # "none" => conns[d][x].peer # "none"
      BY <2>1, Zenon DEF ConnsInv, InOrder
    <3>2. x < y
      BY <2>1, Zenon DEF Conns
    <3> QED  BY <1>7, <1>8, <3>1, <3>2, ZenonT(30)
  <2> QED  BY <2>1, Zenon DEF InOrder
<1> QED  BY <1>2, <1>7, <1>9, Zenon DEF ConnsInv, Later

\* A client numbers its commands as it sends them.
LEMMA ConnsClient ==
    ASSUME IInv, ConnsInv, NEW ch \in Sockets, NEW c \in Conns, Sends(ch, c) \/ Disconnects(ch, c)
    PROVE  ConnsInv' /\ Later(conns, conns')
<1> DEFINE r == conns[ch][c]
           k == r.sent + 1
           f == Frame(ch, c, k)
           u == Append(r.unread, f)
           m == [r EXCEPT !.sent = k, !.unread = u]
           n == [r EXCEPT !.peer = "closed"]
<1>1. r \in Records /\ OneConnInv(ch, c, r, serving[ch], slot[ch])
  BY Zenon DEF IInv, TypeOK, ConnsInv
<1>2. r.unread \in Seq(Frames) /\ r.sent \in Nat
  BY <1>1, Zenon DEF Records
<1>3. serving' = serving /\ slot' = slot /\ (Conn(ch, c, m) \/ Conn(ch, c, n)) /\ r.peer = "open"
  BY Zenon DEF Sends, Disconnects
<1>4. k \in Nat /\ k > r.sent /\ f \in Frames /\ f.ch = ch /\ f.conn = c /\ f.n = k
  BY <1>2 DEF Frame, Frames, Conns
<1>5. Range(r.unread) \subseteq Frames
  BY <1>2, Elements, Zenon
<1>6. Before(Range(r.unread), {f}, McuOrder)
  <2>1. ASSUME NEW g \in Range(r.unread) PROVE <<g, f>> \in McuOrder
    <3>1. g \in Frames /\ g.n \in Nat /\ g.n <= r.sent
      BY <1>1, <1>5, Zenon DEF OneConnInv, UnreadOK, Frames
    <3>2. g.n < f.n
      BY <1>2, <1>4, <3>1
    <3> QED  BY <1>4, <3>1, <3>2, McuOrderMeans, Zenon
  <2> QED  BY <2>1, Zenon DEF Before
<1> HIDE DEF f
<1>7. u \in Seq(Frames) /\ Range(u) = Range(r.unread) \cup {f}
  BY <1>2, <1>4, AppendFrame, Zenon
<1>8. Sorted(u, McuOrder)
  BY <1>1, <1>2, <1>4, <1>6, AppendSorted, Zenon DEF OneConnInv, UnreadOK
<1> HIDE DEF k, u, r
<1>9. /\ m \in Records /\ m.peer = r.peer /\ m.reader = r.reader /\ m.writer = r.writer
      /\ m.broke = r.broke /\ m.sent = k /\ m.unread = u
  BY <1>1, <1>4, <1>7, Zenon DEF Records
<1>10. /\ n \in Records /\ n.peer = "closed" /\ n.reader = r.reader /\ n.writer = r.writer
       /\ n.broke = r.broke /\ n.sent = r.sent /\ n.unread = r.unread
  BY <1>1, Zenon DEF Records
<1> HIDE DEF m, n
<1>11. UnreadOK(ch, c, m)
  <2>1. ASSUME NEW g \in Range(u) PROVE g.ch = ch /\ g.conn = c /\ g.n <= k
    <3>1. CASE g = f
      BY <1>4, <3>1
    <3>2. CASE g \in Range(r.unread)
      <4>1. g.ch = ch /\ g.conn = c /\ g.n <= r.sent /\ g.n \in Nat
        BY <1>1, <1>5, <3>2, Zenon DEF OneConnInv, UnreadOK, Frames
      <4> QED  BY <1>2, <1>4, <4>1, Beyond, Zenon
    <3> QED  BY <1>7, <3>1, <3>2, Zenon
  <2> QED  BY <1>8, <1>9, <2>1, Zenon DEF UnreadOK
<1>12. /\ OneConnInv(ch, c, m, serving[ch], slot[ch]) /\ m.peer # "none" /\ r.peer # "none"
       /\ OneConnInv(ch, c, n, serving[ch], slot[ch]) /\ n.peer # "none"
  BY <1>1, <1>3, <1>9, <1>10, <1>11, Zenon DEF OneConnInv, UnreadOK
<1>13. LaterRecord(r, m)
  <2>1. r.sent <= m.sent
    BY <1>2, <1>4, <1>9
  <2>2. \A g \in Range(m.unread) : g \in Range(r.unread) \/ g.n > r.sent
    BY <1>4, <1>7, <1>9, Zenon
  <2> QED  BY <1>9, <2>1, <2>2, Zenon DEF LaterRecord
<1>14. LaterRecord(r, n)
  BY <1>2, <1>10, Unsent, Zenon DEF LaterRecord
<1> QED  BY <1>3, <1>9, <1>10, <1>12, <1>13, <1>14, ConnsOne, Zenon DEF r

\* The tasks of a connection.
LEMMA ConnsTasks ==
    ASSUME IInv, ConnsInv, NEW ch \in Sockets, NEW c \in Conns,
           sock_read_end(ch, c) \/ usb_to_sock(ch, c) \/ usb_to_sock_end(ch, c)
    PROVE  ConnsInv' /\ Later(conns, conns')
<1> DEFINE r == conns[ch][c]
<1>1. r \in Records /\ OneConnInv(ch, c, r, serving[ch], slot[ch])
  BY Zenon DEF IInv, TypeOK, ConnsInv
<1>2. /\ r.unread \in Seq(Frames) /\ r.klipper_q \in Seq(Frames) /\ r.got \in Seq(Frames)
      /\ <<>> \in Seq(Frames) /\ r.sent \in Nat
  BY <1>1, EmptyQueue, Zenon DEF Records
<1>3. serving' = serving /\ slot' = slot
  BY Zenon DEF sock_read_end, usb_to_sock, usb_to_sock_end
<1>4. r.reader = "run" \/ r.writer = "run"
  BY Zenon DEF sock_read_end, usb_to_sock, usb_to_sock_end
<1>5. r.peer # "none"
  BY <1>1, <1>4, LiveConn, Zenon
<1>6. Range(<<>>) = {} /\ Sorted(<<>>, McuOrder)
  BY EmptyQueue, Zenon
<1>7. CASE sock_read_end(ch, c)
  <2> DEFINE n == [r EXCEPT !.reader = "done", !.unread = <<>>]
  <2>1. Conn(ch, c, n) /\ r.reader = "run"
    BY <1>7, Zenon DEF sock_read_end
  <2> HIDE DEF r
  <2>2. /\ n \in Records /\ n.peer = r.peer /\ n.reader = "done" /\ n.writer = r.writer
        /\ n.broke = r.broke /\ n.sent = r.sent /\ n.unread = <<>>
    BY <1>1, <1>2, Zenon DEF Records
  <2> HIDE DEF n
  <2>3. LaterRecord(r, n) /\ OneConnInv(ch, c, n, serving[ch], slot[ch])
    BY <1>2, <1>5, <1>6, <2>2, Unsent, Zenon DEF LaterRecord, OneConnInv, UnreadOK
  <2>4. (n.peer = "none" <=> r.peer = "none") /\ (n.reader = "none" <=> r.reader = "none")
    BY <2>1, <2>2, Zenon
  <2> QED  BY <1>3, <2>1, <2>2, <2>3, <2>4, ConnsOne, Zenon DEF r
<1>8. CASE usb_to_sock(ch, c) /\ r.peer = "open"
  <2> DEFINE h == Head(r.klipper_q)
             t == Tail(r.klipper_q)
             g == Append(r.got, h)
             n == [r EXCEPT !.got = g, !.klipper_q = t]
  <2>1. r.klipper_q # <<>> /\ Conn(ch, c, n)
    BY <1>8, Zenon DEF usb_to_sock
  <2>2. h \in Frames /\ t \in Seq(Frames)
    BY <1>2, <2>1, HeadTail, Zenon
  <2>3. g \in Seq(Frames)
    BY <1>2, <2>2, AppendFrame, Zenon
  <2> HIDE DEF r, h, t, g
  <2>4. /\ n \in Records /\ n.peer = r.peer /\ n.reader = r.reader /\ n.writer = r.writer
        /\ n.broke = r.broke /\ n.sent = r.sent /\ n.unread = r.unread
    BY <1>1, <2>2, <2>3, Zenon DEF Records
  <2> HIDE DEF n
  <2>5. LaterRecord(r, n) /\ OneConnInv(ch, c, n, serving[ch], slot[ch])
    BY <1>1, <1>2, <1>5, <2>4, Unsent, Zenon DEF LaterRecord, OneConnInv, UnreadOK
  <2> QED  BY <1>3, <2>1, <2>4, <2>5, ConnsOne, Zenon DEF r
<1>9. CASE usb_to_sock(ch, c) /\ r.peer # "open"
  <2> DEFINE n == [r EXCEPT !.writer = "done", !.klipper_q = <<>>, !.broke = TRUE]
  <2>1. Conn(ch, c, n)
    BY <1>9, Zenon DEF usb_to_sock
  <2> HIDE DEF r
  <2>2. /\ n \in Records /\ n.peer = r.peer /\ n.reader = r.reader /\ n.writer = "done"
        /\ n.broke = TRUE /\ n.sent = r.sent /\ n.unread = r.unread
    BY <1>1, <1>2, Zenon DEF Records
  <2> HIDE DEF n
  <2>3. LaterRecord(r, n) /\ OneConnInv(ch, c, n, serving[ch], slot[ch])
    BY <1>1, <1>2, <1>5, <2>2, Unsent, Zenon DEF LaterRecord, OneConnInv, UnreadOK
  <2> QED  BY <1>3, <2>1, <2>2, <2>3, ConnsOne, Zenon DEF r
<1>10. CASE usb_to_sock_end(ch, c)
  <2> DEFINE n == [r EXCEPT !.writer = "done"]
  <2>1. Conn(ch, c, n) /\ slot[ch] # c
    BY <1>10, Zenon DEF usb_to_sock_end
  <2> HIDE DEF r
  <2>2. /\ n \in Records /\ n.peer = r.peer /\ n.reader = r.reader /\ n.writer = "done"
        /\ n.broke = r.broke /\ n.sent = r.sent /\ n.unread = r.unread
    BY <1>1, Zenon DEF Records
  <2> HIDE DEF n
  <2>3. LaterRecord(r, n) /\ OneConnInv(ch, c, n, serving[ch], slot[ch])
    BY <1>1, <1>2, <1>5, <2>1, <2>2, Unsent, Zenon DEF LaterRecord, OneConnInv, UnreadOK
  <2> QED  BY <1>3, <2>1, <2>2, <2>3, ConnsOne, Zenon DEF r
<1> QED  BY <1>7, <1>8, <1>9, <1>10, Zenon

\* Connections are accepted one after the other.
LEMMA ConnsAccept ==
    ASSUME IInv, ConnsInv, NEW ch \in Sockets, NEW c \in Conns, accept(ch, c)
    PROVE  ConnsInv' /\ Later(conns, conns')
<1> DEFINE r == conns[ch][c]
           a == arrived[ch]
           n == [r EXCEPT !.reader = "run", !.writer = "run", !.seen = a]
<1>1. /\ conns \in [Sockets -> [Conns -> Records]] /\ r \in Records /\ a \in Nat
      /\ serving \in [Sockets -> Conns \cup {0}] /\ slot \in [Sockets -> Conns \cup {0}]
  BY Zenon DEF IInv, TypeOK
<1>2. /\ conns' = [conns EXCEPT ![ch] = [conns[ch] EXCEPT ![c] = n]]
      /\ serving' = [serving EXCEPT ![ch] = c] /\ slot' = [slot EXCEPT ![ch] = c]
      /\ serving[ch] = 0 /\ r.peer # "none" /\ r.reader = "none"
      /\ \A d \in 1..(c - 1) : conns[ch][d].reader # "none"
  BY <1>1, Zenon DEF accept, Conn, free
<1>3. OneConnInv(ch, c, r, serving[ch], slot[ch])
  BY Zenon DEF ConnsInv
<1> HIDE DEF r, a
<1>4. /\ n \in Records /\ n.peer = r.peer /\ n.reader = "run" /\ n.writer = "run"
      /\ n.broke = r.broke /\ n.sent = r.sent /\ n.unread = r.unread /\ r.sent \in Nat
  BY <1>1, Zenon DEF Records
<1> HIDE DEF n
<1>5. LaterRecord(r, n) /\ OneConnInv(ch, c, n, c, c)
  BY <1>2, <1>3, <1>4 DEF LaterRecord, OneConnInv, UnreadOK
<1>6. ASSUME NEW d \in Sockets, NEW e \in Conns
      PROVE  /\ OneConnInv(d, e, conns'[d][e], serving'[d], slot'[d])
             /\ LaterRecord(conns[d][e], conns'[d][e])
             /\ conns'[d][e].peer = conns[d][e].peer
             /\ conns'[d][e].reader = IF d = ch /\ e = c THEN "run" ELSE conns[d][e].reader
  <2>1. /\ conns'[d][e] = IF d = ch /\ e = c THEN n ELSE conns[d][e]
        /\ serving'[d] = IF d = ch THEN c ELSE serving[d]
        /\ slot'[d] = IF d = ch THEN c ELSE slot[d]
    BY <1>1, <1>2, Zenon
  <2>2. CASE d = ch /\ e = c
    BY <1>4, <1>5, <2>1, <2>2, Zenon DEF r
  <2>3. CASE ~(d = ch /\ e = c)
    <3>1. conns'[d][e] = conns[d][e] /\ conns[d][e] \in Records
      BY <1>1, <2>1, <2>3, Zenon
    <3>2. OneConnInv(d, e, conns[d][e], serving[d], slot[d]) /\ e # 0
      BY DEF ConnsInv, Conns
    <3>3. OneConnInv(d, e, conns[d][e], serving'[d], slot'[d])
      BY <1>2, <2>1, <2>3, <3>2, Zenon DEF OneConnInv
    <3> QED  BY <2>3, <3>1, <3>3, LaterSame, Zenon
  <2> QED  BY <2>2, <2>3, Zenon
<1>7. ASSUME NEW d \in Sockets PROVE InOrder(conns'[d], serving'[d])
  <2>1. ASSUME NEW x \in Conns, NEW y \in Conns, y > x
        PROVE  /\ serving'[d] = x => conns'[d][y].reader = "none"
               /\ conns'[d][y].reader # "none" => conns'[d][x].reader # "none"
               /\ conns'[d][y].peer # "none" => conns'[d][x].peer # "none"
    <3>1. /\ serving[d] = x => conns[d][y].reader = "none"
          /\ conns[d][y].reader # "none" => conns[d][x].reader # "none"
          /\ conns[d][y].peer # "none" => conns[d][x].peer # "none"
      BY <2>1, Zenon DEF ConnsInv, InOrder
    <3>2. x # y /\ (y = c => x \in 1..(c - 1))
      BY <2>1 DEF Conns
    <3>3. serving'[d] = IF d = ch THEN c ELSE serving[d]
      BY <1>1, <1>2, Zenon
    <3>4. conns'[d][y].reader # "none" => conns'[d][x].reader # "none"
      <4>1. conns'[d][x].reader \in {conns[d][x].reader, "run"}
        BY <1>6, Zenon
      <4>2. (d = ch /\ y = c) \/ conns'[d][y].reader = conns[d][y].reader
        BY <1>6, Zenon
      <4> QED  BY <1>2, <3>1, <3>2, <4>1, <4>2, Zenon
    <3>5. serving'[d] = x => conns'[d][y].reader = "none"
      BY <1>2, <1>6, <3>1, <3>2, <3>3 DEF r
    <3> QED  BY <1>6, <3>1, <3>4, <3>5, Zenon
  <2> QED  BY <2>1, Zenon DEF InOrder
<1> QED  BY <1>6, <1>7, Zenon DEF ConnsInv, Later

\* A connection is over with its reader at its end, or after a failed write.
LEMMA ConnsOver ==
    ASSUME IInv, ConnsInv, NEW ch \in Sockets, connection_over(ch)
    PROVE  ConnsInv' /\ Later(conns, conns')
<1>1. /\ conns' = conns /\ serving[ch] # 0
      /\ serving' = [serving EXCEPT ![ch] = 0] /\ slot' = [slot EXCEPT ![ch] = 0]
      /\ conns[ch][serving[ch]].reader = "done" \/ conns[ch][serving[ch]].writer = "done"
  BY Zenon DEF connection_over, over, cleared
<1>2. serving \in [Sockets -> Conns \cup {0}] /\ slot \in [Sockets -> Conns \cup {0}]
  BY Zenon DEF IInv, TypeOK
<1>3. ASSUME NEW d \in Sockets, NEW e \in Conns
      PROVE  OneConnInv(d, e, conns[d][e], serving'[d], slot'[d])
  <2>1. OneConnInv(d, e, conns[d][e], serving[d], slot[d])
    BY Zenon DEF ConnsInv
  <2>2. CASE d # ch
    BY <1>1, <1>2, <2>1, <2>2, Zenon
  <2>3. CASE d = ch
    <3>1. conns[d][e].reader = "run" => conns[d][e].broke
      BY <1>1, <2>1, <2>3, Zenon DEF OneConnInv
    <3> QED  BY <2>1, <3>1, Zenon DEF OneConnInv
  <2> QED  BY <2>2, <2>3, Zenon
<1>4. ASSUME NEW d \in Sockets PROVE InOrder(conns[d], serving'[d])
  <2>1. \A x \in Conns : serving'[d] = x => serving[d] = x
    BY <1>1, <1>2 DEF Conns
  <2>2. InOrder(conns[d], serving[d])
    BY Zenon DEF ConnsInv
  <2> QED  BY <2>1, <2>2, Zenon DEF InOrder
<1>5. ASSUME NEW d \in Sockets, NEW e \in Conns PROVE LaterRecord(conns[d][e], conns[d][e])
  BY LaterSame, Zenon DEF IInv, TypeOK
<1> QED  BY <1>1, <1>3, <1>4, <1>5, Zenon DEF ConnsInv, Later

\* A process ends, and with it every task.
LEMMA ConnsExit ==
    ASSUME IInv, ConnsInv, NEW s \in Sides, Exit(s)
    PROVE  ConnsInv' /\ Later(conns, conns')
<1>1. CASE s = "exporter"
  BY <1>1, ConnsSame, Zenon DEF Exit, hostVars
<1>2. CASE s # "exporter"
  <2> DEFINE Ended(r) == IF r.peer = "none" THEN NoConn
                         ELSE [r EXCEPT !.peer = "closed", !.reader = "done", !.writer = "done",
                                        !.klipper_q = <<>>, !.unread = <<>>]
  <2>1. conns' = [ch \in Sockets |-> [c \in Conns |-> Ended(conns[ch][c])]]
    BY <1>2, Zenon DEF Exit
  <2>2. serving' = [ch \in Sockets |-> 0] /\ slot' = [ch \in Sockets |-> 0]
    BY <1>2, Zenon DEF Exit
  <2>3. ASSUME NEW r \in Records, r.peer # "none"
        PROVE  /\ Ended(r).peer = "closed" /\ Ended(r).reader = "done" /\ Ended(r).sent = r.sent
               /\ Ended(r).broke = r.broke /\ Ended(r).unread = <<>> /\ r.sent \in Nat
    BY <2>3, Zenon DEF Records
  <2>4. ASSUME NEW r, r.peer = "none" PROVE Ended(r) = NoConn
    BY <2>4, Zenon
  <2> HIDE DEF Ended
  <2>5. Range(<<>>) = {} /\ Sorted(<<>>, McuOrder)
    BY EmptyQueue, Zenon
  <2>6. ASSUME NEW ch \in Sockets, NEW c \in Conns
        PROVE  /\ OneConnInv(ch, c, conns'[ch][c], 0, 0)
               /\ LaterRecord(conns[ch][c], conns'[ch][c])
               /\ conns'[ch][c].peer = "none" <=> conns[ch][c].peer = "none"
               /\ conns'[ch][c].reader = "none" <=> conns[ch][c].peer = "none"
    <3> DEFINE r == conns[ch][c]
               n == conns'[ch][c]
    <3>1. n = Ended(r) /\ r \in Records /\ (r.peer = "none" => r = NoConn)
      BY <2>1, ZenonT(30) DEF IInv, TypeOK, ConnsInv, OneConnInv
    <3> HIDE DEF r, n
    <3>2. CASE r.peer = "none"
      <4>1. n = NoConn /\ r = NoConn
        BY <2>4, <3>1, <3>2, Zenon
      <4>2. NoConn.unread = <<>> /\ NoConn.reader = "none" /\ NoConn.peer = "none"
        BY Zenon DEF NoConn
      <4>3. OneConnInv(ch, c, n, 0, 0) /\ LaterRecord(r, n)
        BY <2>5, <3>1, <4>1, <4>2, LaterSame, Zenon DEF OneConnInv, UnreadOK
      <4> QED  BY <3>2, <4>1, <4>2, <4>3, Zenon DEF r, n
    <3>3. CASE r.peer # "none"
      <4>1. /\ n.peer = "closed" /\ n.reader = "done" /\ n.sent = r.sent
            /\ n.broke = r.broke /\ n.unread = <<>> /\ r.sent \in Nat
        BY <2>3, <3>1, <3>3, Zenon
      <4>2. OneConnInv(ch, c, n, 0, 0) /\ LaterRecord(r, n)
        BY <2>5, <4>1, Unsent, Zenon DEF OneConnInv, UnreadOK, LaterRecord
      <4> QED  BY <3>3, <4>1, <4>2, Zenon DEF r, n
    <3> QED  BY <3>2, <3>3, Zenon
  <2>7. ASSUME NEW ch \in Sockets PROVE InOrder(conns'[ch], serving'[ch])
    <3>1. \A x \in Conns : serving'[ch] # x
      BY <2>2, ConnNumbers, Zenon
    <3>2. InOrder(conns[ch], serving[ch])
      BY Zenon DEF ConnsInv
    <3> QED  BY <2>6, <3>1, <3>2, Zenon DEF InOrder
  <2> QED  BY <2>2, <2>6, <2>7, Zenon DEF ConnsInv, Later
<1> QED  BY <1>1, <1>2, Zenon

\* A frame from the link adds nothing to read.
LEMMA ConnsRead ==
    ASSUME IInv, ConnsInv, host_usb_read
    PROVE  ConnsInv' /\ Later(conns, conns')
<1> DEFINE w == wire["exporter"]
           f == Head(w)
           ch == f.ch
           c == slot[ch]
           r == conns[ch][c]
           q == Append(r.klipper_q, f)
           n == [r EXCEPT !.klipper_q = q]
<1>1. w \in Seq(Frames) /\ w # <<>> /\ conns \in [Sockets -> [Conns -> Records]] /\ slot \in [Sockets -> Conns \cup {0}]
  BY Zenon DEF host_usb_read, IInv, TypeOK, Sides
<1>2. f \in Frames
  <2> HIDE DEF w
  <2> QED  BY <1>1, HeadTail, Zenon
<1>3. slot' = slot /\ serving' = serving /\ (conns' = conns \/ route_to_client(f))
  BY Zenon DEF host_usb_read
<1> HIDE DEF f
<1>4. CASE conns' = conns
  BY <1>3, <1>4, ConnsSame, Zenon
<1>5. CASE conns' # conns
  <2>1. ch \in Sockets /\ c \in Conns /\ r.writer = "run" /\ Conn(ch, c, n)
    BY <1>1, <1>3, <1>5, Zenon DEF route_to_client, Conn
  <2>2. r \in Records /\ OneConnInv(ch, c, r, serving[ch], slot[ch])
    BY <1>1, <2>1, Zenon DEF ConnsInv
  <2>3. r.klipper_q \in Seq(Frames) /\ r.sent \in Nat
    BY <2>2, Zenon DEF Records
  <2>4. q \in Seq(Frames)
    BY <1>2, <2>3, AppendFrame, Zenon
  <2>5. r.peer # "none"
    BY <2>1, <2>2, LiveConn, Zenon
  <2> HIDE DEF r, q
  <2>6. /\ n \in Records /\ n.peer = r.peer /\ n.reader = r.reader /\ n.writer = r.writer
        /\ n.broke = r.broke /\ n.sent = r.sent /\ n.unread = r.unread
    BY <2>2, <2>4, Zenon DEF Records
  <2> HIDE DEF n, c, ch
  <2>7. LaterRecord(r, n) /\ OneConnInv(ch, c, n, serving[ch], slot[ch])
    BY <2>2, <2>3, <2>5, <2>6, Unsent, Zenon DEF LaterRecord, OneConnInv, UnreadOK
  <2> QED  BY <1>3, <2>1, <2>6, <2>7, ConnsOne, Zenon DEF r
<1> QED  BY <1>4, <1>5, Zenon

\* The types of the queue and of the output of a UART.
UartType == uart_q \in [Uarts -> Seq(Frames)] /\ uart_out \in [Uarts -> Seq(Frames)]

\* A command is read.  Those read before it are of the same client and earlier,
\* of an older client, or of a newer one; in the last case this reader was
\* left running, since the newer client was accepted.
LEMMA SockCommands ==
    ASSUME IInv, ConnsInv, CommandInv, UartType, NEW ch \in Sockets, NEW c \in Conns, sock_to_usb(ch, c)
    PROVE  ConnsInv' /\ Later(conns, conns') /\ CommandInv'
<1> DEFINE r == conns[ch][c]
           h == Head(r.unread)
           t == Tail(r.unread)
           on == IF usb_writer["host"] THEN "run" ELSE "done"
           m == [r EXCEPT !.unread = t]
           n == [m EXCEPT !.synced = TRUE, !.reader = on]
           w == wire["host"]
           q == usb_q["host"]
<1>1. r \in Records /\ OneConnInv(ch, c, r, serving[ch], slot[ch]) /\ InOrder(conns[ch], serving[ch])
  BY Zenon DEF IInv, TypeOK, ConnsInv
<1>2. /\ r.unread \in Seq(Frames) /\ r.sent \in Nat /\ r.unread # <<>> /\ r.reader = "run"
      /\ Sorted(r.unread, McuOrder) /\ \A u \in Range(r.unread) : u.ch = ch /\ u.conn = c /\ u.n <= r.sent
  BY <1>1, Zenon DEF Records, sock_to_usb, OneConnInv, UnreadOK
<1>3. /\ serving' = serving /\ slot' = slot /\ wire' = wire /\ uart_q' = uart_q /\ uart_out' = uart_out
      /\ \/ send_usb("host", h) /\ Conn(ch, c, n)
         \/ Conn(ch, c, m) /\ UNCHANGED usb_q
  BY Zenon DEF sock_to_usb, exporterVars
<1>4. w \in Seq(Frames) /\ q \in Seq(Frames) /\ "host" \in Sides /\ usb_q \in [Sides -> Seq(Frames)]
  BY Zenon DEF IInv, TypeOK, Sides
<1>5. usb_q'["host"] = q \/ (usb_q'["host"] = Append(q, h) /\ Conn(ch, c, n) /\ on = "run")
  BY <1>3, <1>4, Zenon DEF send_usb
<1>6. on \in {"run", "done"}
  BY Zenon
<1>7. r.peer # "none"
  BY <1>1, <1>2, LiveConn, Zenon
<1> HIDE DEF r, on
<1>8. h \in Frames /\ h \in Range(r.unread) /\ t \in Seq(Frames) /\ Range(r.unread) = {h} \cup Range(t)
  BY <1>2, TakeFirst, Zenon
<1>9. Sorted(t, McuOrder) /\ Before({h}, Range(t), McuOrder)
  BY <1>2, TakeFrameSorted, Zenon
<1> HIDE DEF h, t
<1>10. /\ m \in Records /\ m.peer = r.peer /\ m.reader = r.reader /\ m.writer = r.writer
       /\ m.broke = r.broke /\ m.sent = r.sent /\ m.unread = t
       /\ n \in Records /\ n.peer = r.peer /\ n.reader = on /\ n.writer = r.writer
       /\ n.broke = r.broke /\ n.sent = r.sent /\ n.unread = t
  BY <1>1, <1>6, <1>8, Zenon DEF Records
<1> HIDE DEF m, n
<1>11. LaterRecord(r, m) /\ LaterRecord(r, n) /\ n.reader # "none"
  BY <1>2, <1>6, <1>8, <1>10, Unsent, Zenon DEF LaterRecord
<1>12. UnreadOK(ch, c, m) /\ UnreadOK(ch, c, n)
  BY <1>2, <1>8, <1>9, <1>10, Zenon DEF UnreadOK
<1>13. OneConnInv(ch, c, m, serving[ch], slot[ch]) /\ OneConnInv(ch, c, n, serving[ch], slot[ch])
  BY <1>1, <1>2, <1>6, <1>7, <1>10, <1>12, Zenon DEF OneConnInv
<1>14. ConnsInv' /\ Later(conns, conns')
  BY <1>2, <1>3, <1>10, <1>11, <1>13, ConnsOne, Zenon DEF r
<1>15. conns \in [Sockets -> [Conns -> Records]] /\ conns' \in [Sockets -> [Conns -> Records]]
  BY SockToUsbKeeps, Zenon DEF IInv, TypeOK
<1>16. Commands(w, q, uart_out, uart_q, conns)
  BY Zenon DEF CommandInv
<1> HIDE DEF w, q
<1>17. Commands(w, q, uart_out, uart_q, conns')
  BY <1>4, <1>14, <1>15, <1>16, CommandsGrow, Zenon DEF UartType
<1>18. CASE usb_q'["host"] = q
  <2>1. CommandInv'
    BY <1>3, <1>17, <1>18, Zenon DEF CommandInv, w
  <2> QED  BY <1>14, <2>1, Zenon
<1>19. CASE usb_q'["host"] = Append(q, h) /\ Conn(ch, c, n)
  <2>1. conns'[ch][c] = n
    BY <1>15, <1>19, Zenon DEF Conn
  <2>2. h.ch = ch /\ h.conn = c /\ h.n <= r.sent
    BY <1>2, <1>8, Zenon
  <2>3. ASSUME NEW u \in Range(t) PROVE h.n < u.n
    <3>1. u \in Frames /\ u.ch = ch /\ <<h, u>> \in McuOrder
      <4>1. Range(t) \subseteq Frames
        BY <1>8, Elements, Zenon
      <4> QED  BY <1>2, <1>8, <1>9, <4>1, Zenon DEF Before
    <3> QED  BY <1>8, <2>2, <3>1, McuOrderMeans, Zenon
  <2>4. ReadFrom(h, conns')
    BY <1>10, <1>11, <2>1, <2>2, <2>3, Zenon DEF ReadFrom
  <2>5. ASSUME NEW a \in Frames, ReadFrom(a, conns) PROVE <<a, h>> \in CommandsOrder(conns')
    <3>1. a \in ToMcu /\ h \in ToMcu
      BY <1>8, <2>2, <2>5, Zenon DEF ReadFrom, ToMcu
    <3>2. ASSUME a.ch = h.ch, a.conn = h.conn PROVE a.n < h.n
      BY <1>8, <2>2, <2>5, <3>2, Zenon DEF ReadFrom, r
    <3>3. ASSUME a.ch = h.ch, a.conn > h.conn PROVE conns'[h.ch][h.conn].broke
      <4>1. a.conn \in Conns /\ a.conn > c /\ conns[ch][a.conn].reader # "none"
        BY <2>2, <2>5, <3>3, Zenon DEF ReadFrom
      <4>2. serving[ch] # c
        BY <1>1, <4>1, Zenon DEF InOrder
      <4>3. r.broke
        BY <1>1, <1>2, <4>2, Zenon DEF OneConnInv
      <4> QED  BY <1>10, <2>1, <2>2, <4>3, Zenon
    <3> QED  BY <3>1, <3>2, <3>3, OrderMeans, Zenon
  <2> HIDE DEF h
  <2>6. Commands(w, Append(q, h), uart_out, uart_q, conns')
    BY <1>4, <1>8, <1>16, <1>17, <2>4, <2>5, CommandsSend, Zenon DEF UartType
  <2>7. CommandInv'
    BY <1>3, <1>19, <2>6, Zenon DEF CommandInv, w
  <2> QED  BY <1>14, <2>7, Zenon
<1> QED  BY <1>5, <1>14, <1>18, <1>19, Zenon

\* The other steps, and the connections.
LEMMA ConnsStep ==
    ASSUME IInv, ConnsInv, CommandInv, UartType, [Next]_vars
    PROVE  ConnsInv' /\ Later(conns, conns')
<1> DEFINE Aside == conns' = conns /\ slot' = slot /\ serving' = serving
<1>1. ASSUME NEW s \in Sides, usb_write(s) \/ usb_write_error(s) \/ Start(s) PROVE Aside
  BY <1>1, Zenon DEF usb_write, usb_write_error, Start, hostVars
<1>2. ASSUME exporter_usb_read \/ UNCHANGED vars PROVE Aside
  BY <1>2, Zenon DEF exporter_usb_read, vars, hostVars
<1>3. ASSUME NEW ch \in Uarts,
             uart_to_usb(ch) \/ uart_read_error(ch) \/ usb_to_uart(ch) \/ uart_write_error(ch)
      PROVE  Aside
  BY <1>3, Zenon DEF uart_to_usb, uart_read_error, usb_to_uart, uart_write_error, hostVars
<1>4. Aside => ConnsInv' /\ Later(conns, conns')
  BY ConnsSame, Zenon
<1> HIDE DEF Aside
<1> QED  BY <1>1, <1>2, <1>3, <1>4, ConnsExit, ConnsRead, ConnsAccept, ConnsTasks, ConnsConnect,
            ConnsClient, ConnsOver, SockCommands, Zenon DEF Next, Task, Client

\* What a step that reads no command does to those on their way.
CommandsStay ==
    LET w == wire["host"]
        q == usb_q["host"]
    IN  \/ /\ Range(wire'["host"]) \subseteq Range(w)
           /\ Sorted(w, CommandsOrder(conns)) => Sorted(wire'["host"], CommandsOrder(conns))
           /\ usb_q'["host"] \in {<<>>, q}
           /\ \A ch \in Uarts : uart_q'[ch] \in {<<>>, uart_q[ch]}
           /\ uart_out' = uart_out
        \/ /\ q # <<>> /\ wire'["host"] = Append(w, Head(q)) /\ usb_q'["host"] = Tail(q)
           /\ uart_q' = uart_q /\ uart_out' = uart_out
        \/ /\ w # <<>> /\ wire'["host"] = Tail(w) /\ usb_q'["host"] = q
           /\ Head(w).ch \in Uarts
           /\ uart_q' = [uart_q EXCEPT ![Head(w).ch] = Append(uart_q[Head(w).ch], Head(w))]
           /\ uart_out' = uart_out
        \/ /\ wire'["host"] = w /\ usb_q'["host"] = q
           /\ \E u \in Uarts : /\ uart_q[u] # <<>>
                               /\ uart_out' = [uart_out EXCEPT ![u] = Append(uart_out[u], Head(uart_q[u]))]
                               /\ uart_q' = [uart_q EXCEPT ![u] = Tail(uart_q[u])]

\* Such a step keeps the order.
LEMMA StayKeeps ==
    ASSUME IInv, IInv', UartType, UartType', CommandInv, CommandsStay, Later(conns, conns')
    PROVE  CommandInv'
<1> DEFINE w == wire["host"]
           q == usb_q["host"]
           v == wire'["host"]
           p == usb_q'["host"]
<1>1. /\ w \in Seq(Frames) /\ q \in Seq(Frames) /\ v \in Seq(Frames) /\ p \in Seq(Frames)
      /\ conns \in [Sockets -> [Conns -> Records]] /\ conns' \in [Sockets -> [Conns -> Records]]
      /\ uart_q \in [Uarts -> Seq(Frames)] /\ uart_out \in [Uarts -> Seq(Frames)]
      /\ uart_q' \in [Uarts -> Seq(Frames)] /\ uart_out' \in [Uarts -> Seq(Frames)]
  BY Zenon DEF IInv, TypeOK, UartType, Sides
<1>2. Commands(w, q, uart_out, uart_q, conns)
  BY Zenon DEF CommandInv
<1>3. Commands(v, p, uart_out', uart_q', conns)
  <2>1. CASE /\ Range(v) \subseteq Range(w)
             /\ Sorted(w, CommandsOrder(conns)) => Sorted(v, CommandsOrder(conns))
             /\ p \in {<<>>, q}
             /\ \A ch \in Uarts : uart_q'[ch] \in {<<>>, uart_q[ch]}
             /\ uart_out' = uart_out
    <3> HIDE DEF w, q, v, p
    <3>1. Range(<<>>) = {} /\ Sorted(<<>>, CommandsOrder(conns))
      BY EmptyQueue, Zenon
    <3>2. Sorted(v, CommandsOrder(conns)) /\ Sorted(p, CommandsOrder(conns)) /\ Range(p) \subseteq Range(q)
      BY <1>2, <2>1, <3>1, Zenon DEF Commands
    <3> QED  BY <1>1, <1>2, <2>1, <3>2, CommandsLess, Zenon
  <2>2. CASE /\ q # <<>> /\ v = Append(w, Head(q)) /\ p = Tail(q)
             /\ uart_q' = uart_q /\ uart_out' = uart_out
    <3> HIDE DEF w, q, v, p
    <3>1. Commands(Append(w, Head(q)), Tail(q), uart_out, uart_q, conns)
      BY <1>1, <1>2, <2>2, CommandsWrite, Zenon
    <3> QED  BY <2>2, <3>1, Zenon
  <2>3. CASE /\ w # <<>> /\ v = Tail(w) /\ p = q /\ Head(w).ch \in Uarts
             /\ uart_q' = [uart_q EXCEPT ![Head(w).ch] = Append(uart_q[Head(w).ch], Head(w))]
             /\ uart_out' = uart_out
    <3> HIDE DEF w, q, v, p
    <3>1. Commands(Tail(w), q, uart_out, [uart_q EXCEPT ![Head(w).ch] = Append(uart_q[Head(w).ch], Head(w))], conns)
      BY <1>1, <1>2, <2>3, CommandsRoute, Zenon
    <3> QED  BY <2>3, <3>1, Zenon
  <2>4. ASSUME v = w, p = q, NEW u \in Uarts, uart_q[u] # <<>>,
               uart_out' = [uart_out EXCEPT ![u] = Append(uart_out[u], Head(uart_q[u]))],
               uart_q' = [uart_q EXCEPT ![u] = Tail(uart_q[u])]
        PROVE  Commands(v, p, uart_out', uart_q', conns)
    <3> HIDE DEF w, q, v, p
    <3>1. Commands(w, q, [uart_out EXCEPT ![u] = Append(uart_out[u], Head(uart_q[u]))],
                   [uart_q EXCEPT ![u] = Tail(uart_q[u])], conns)
      BY <1>1, <1>2, <2>4, CommandsOut, Zenon
    <3> QED  BY <2>4, <3>1, Zenon
  <2> QED  BY <2>1, <2>2, <2>3, <2>4, Zenon DEF CommandsStay
<1> HIDE DEF v, p
<1>4. Commands(v, p, uart_out', uart_q', conns')
  BY <1>1, <1>3, CommandsGrow, Zenon
<1> QED  BY <1>4, Zenon DEF CommandInv, v, p

\* Which of the four a step is; and the types of the UART queues.
LEMMA UartStep ==
    ASSUME IInv, UartType, [Next]_vars
    PROVE  UartType' /\ (CommandsStay \/ \E ch \in Sockets, c \in Conns : sock_to_usb(ch, c))
<1> DEFINE w == wire["host"]
           q == usb_q["host"]
<1>1. /\ w \in Seq(Frames) /\ q \in Seq(Frames) /\ "host" \in Sides /\ "exporter" \in Sides
      /\ wire \in [Sides -> Seq(Frames)] /\ usb_q \in [Sides -> Seq(Frames)]
  BY Zenon DEF IInv, TypeOK, Sides
<1>2. <<>> \in Seq(Frames)
  BY EmptyQueue, Zenon
<1> DEFINE Aside == wire'["host"] = w /\ usb_q'["host"] \in {<<>>, q} /\ uart_q' = uart_q /\ uart_out' = uart_out
<1>3. Aside => UartType' /\ CommandsStay
  BY Zenon DEF UartType, CommandsStay
<1>4. ASSUME NEW s \in Sides, usb_write(s) PROVE UartType' /\ CommandsStay
  <2>1. uart_q' = uart_q /\ uart_out' = uart_out
    BY <1>4, Zenon DEF usb_write, exporterVars, history
  <2>2. CASE s # "host"
    BY <1>1, <1>3, <1>4, <2>1, <2>2, Zenon DEF usb_write
  <2>3. CASE s = "host"
    BY <1>1, <1>4, <2>1, <2>3, Zenon DEF usb_write, CommandsStay, UartType
  <2> QED  BY <2>2, <2>3, Zenon
<1>5. ASSUME NEW s \in Sides, usb_write_error(s) PROVE Aside
  BY <1>1, <1>5, Zenon DEF usb_write_error, exporterVars
<1>6. ASSUME NEW s \in Sides, Exit(s) PROVE UartType' /\ CommandsStay
  <2>1. /\ wire' = wire /\ usb_q'["host"] \in {<<>>, q} /\ uart_out' = uart_out
        /\ uart_q' = uart_q \/ uart_q' = [ch \in Uarts |-> <<>>]
    BY <1>1, <1>6, Zenon DEF Exit
  <2> QED  BY <1>2, <2>1, Zenon DEF UartType, CommandsStay
<1>7. ASSUME NEW s \in Sides, Start(s) PROVE UartType' /\ CommandsStay
  <2>1. uart_q' = uart_q /\ uart_out' = uart_out /\ usb_q' = usb_q
    BY <1>7, Zenon DEF Start
  <2>2. CASE s # "exporter"
    <3>1. wire'["host"] = w
      BY <1>1, <1>7, <2>2, Zenon DEF Start, Peer
    <3> QED  BY <1>3, <2>1, <3>1, Zenon
  <2>3. CASE s = "exporter"
    <3>1. PICK k \in 0..Len(w) : wire' = [wire EXCEPT !["host"] = SubSeq(w, k + 1, Len(w))]
      BY <1>1, <1>7, <2>3, Zenon DEF Start, Peer
    <3>2. wire'["host"] = SubSeq(w, k + 1, Len(w))
      BY <1>1, <3>1, Zenon
    <3> HIDE DEF w
    <3> DEFINE R == CommandsOrder(conns)
    <3> HIDE DEF R
    <3>3. Range(wire'["host"]) \subseteq Range(w) /\ (Sorted(w, R) => Sorted(wire'["host"], R))
      BY <1>1, <3>2, CutFirst
    <3> QED  BY <2>1, <3>3, Zenon DEF UartType, CommandsStay, R, w
  <2> QED  BY <2>2, <2>3, Zenon
<1>8. ASSUME exporter_usb_read PROVE UartType' /\ CommandsStay
  <2> DEFINE f == Head(w)
             t == Tail(w)
             b == Append(uart_q[f.ch], f)
  <2>1. /\ w # <<>> /\ wire'["host"] = t /\ usb_q' = usb_q /\ uart_out' = uart_out
        /\ uart_q' = uart_q \/ (f.ch \in Uarts /\ uart_q' = [uart_q EXCEPT ![f.ch] = b])
    BY <1>1, <1>8, Zenon DEF exporter_usb_read, route_to_uart
  <2> DEFINE R == CommandsOrder(conns)
  <2> HIDE DEF R, w
  <2>2. f \in Frames /\ Range(t) \subseteq Range(w) /\ (Sorted(w, R) => Sorted(t, R))
    BY <1>1, <2>1, TakeFirst, TakeFirstSorted, Zenon
  <2>3. f.ch \in Uarts => b \in Seq(Frames)
    BY <2>2, AppendOne, Zenon DEF UartType
  <2> HIDE DEF b, f, t
  <2>4. UartType'
    BY <2>1, <2>3, Zenon DEF UartType
  <2>5. CASE uart_q' = uart_q
    BY <2>1, <2>2, <2>4, <2>5, Zenon DEF CommandsStay, R, w
  <2>6. CASE f.ch \in Uarts /\ uart_q' = [uart_q EXCEPT ![f.ch] = b]
    <3>1. CommandsStay
      BY <2>1, <2>6, Zenon DEF CommandsStay, w, t, f, b
    <3> QED  BY <2>4, <3>1, Zenon
  <2> QED  BY <2>1, <2>5, <2>6, Zenon
<1>9. ASSUME host_usb_read PROVE Aside
  BY <1>1, <1>9, Zenon DEF host_usb_read, exporterVars
<1>10. ASSUME NEW ch \in Uarts, uart_to_usb(ch) PROVE Aside
  BY <1>1, <1>10, Zenon DEF uart_to_usb, send_usb
<1>11. ASSUME NEW ch \in Uarts, uart_read_error(ch) PROVE Aside
  BY <1>11, Zenon DEF uart_read_error, usbVars, history
<1>12. ASSUME NEW ch \in Uarts, usb_to_uart(ch) PROVE UartType' /\ CommandsStay
  <2> DEFINE b == uart_q[ch]
             o == Append(uart_out[ch], Head(b))
             t == Tail(b)
  <2>1. /\ wire' = wire /\ usb_q' = usb_q /\ b # <<>>
        /\ uart_q' = [uart_q EXCEPT ![ch] = t] /\ uart_out' = [uart_out EXCEPT ![ch] = o]
    BY <1>12, Zenon DEF usb_to_uart, usbVars, UartType
  <2>2. t \in Seq(Frames) /\ o \in Seq(Frames)
    <3>1. b \in Seq(Frames) /\ uart_out[ch] \in Seq(Frames)
      BY Zenon DEF UartType
    <3> HIDE DEF b
    <3> QED  BY <2>1, <3>1, HeadTail, AppendOne, Zenon
  <2>3. UartType'
    <3> HIDE DEF t, o
    <3> QED  BY <2>1, <2>2, Zenon DEF UartType
  <2>4. CommandsStay
    BY <2>1, Zenon DEF CommandsStay
  <2> QED  BY <2>3, <2>4, Zenon
<1>13. ASSUME NEW ch \in Uarts, uart_write_error(ch) PROVE UartType' /\ CommandsStay
  <2>1. wire' = wire /\ usb_q' = usb_q /\ uart_out' = uart_out /\ uart_q' = [uart_q EXCEPT ![ch] = <<>>]
    BY <1>13, Zenon DEF uart_write_error, usbVars, history
  <2> QED  BY <1>2, <2>1, Zenon DEF UartType, CommandsStay
<1>14. ASSUME NEW ch \in Sockets, NEW c \in Conns,
              \/ Client(ch, c) \/ accept(ch, c) \/ sock_read_end(ch, c) \/ usb_to_sock(ch, c)
              \/ usb_to_sock_end(ch, c)
       PROVE  Aside
  BY <1>14, Zenon DEF Client, Connects, Sends, Disconnects, accept, sock_read_end, usb_to_sock,
               usb_to_sock_end, usbVars, exporterVars, history
<1>15. ASSUME NEW ch \in Sockets, connection_over(ch) PROVE Aside
  BY <1>15, Zenon DEF connection_over, usbVars, exporterVars, history
<1>16. ASSUME NEW ch \in Sockets, NEW c \in Conns, sock_to_usb(ch, c) PROVE UartType'
  BY <1>16, Zenon DEF sock_to_usb, exporterVars, UartType
<1>17. ASSUME UNCHANGED vars PROVE Aside
  BY <1>17, Zenon DEF vars, usbVars, exporterVars, history
<1> HIDE DEF Aside
<1> QED  BY Zenon, <1>3, <1>4, <1>5, <1>6, <1>7, <1>8, <1>9, <1>10, <1>11, <1>12, <1>13, <1>14, <1>15,
            <1>16, <1>17 DEF Next, Task

\* At the start no command is on its way.
LEMMA CommandInit == Init => UartType /\ CommandInv /\ ConnsInv
<1> SUFFICES ASSUME Init PROVE UartType /\ CommandInv /\ ConnsInv
  BY Zenon
<1>1. Range(<<>>) = {} /\ Sorted(<<>>, McuOrder) /\ Sorted(<<>>, CommandsOrder(conns)) /\ <<>> \in Seq(Frames)
  BY EmptyQueue, EmptyQueue, Zenon
<1>2. UartType
  BY <1>1, Zenon DEF Init, UartType
<1>3. CommandInv
  <2>1. /\ wire["host"] = <<>> /\ usb_q["host"] = <<>>
        /\ \A ch \in Uarts : uart_q[ch] = <<>> /\ uart_out[ch] = <<>>
    BY Zenon DEF Init, Sides
  <2> QED  BY <1>1, <2>1, Zenon DEF CommandInv, Commands, Before
<1>4. ASSUME NEW ch \in Sockets, NEW c \in Conns
      PROVE  /\ OneConnInv(ch, c, conns[ch][c], serving[ch], slot[ch])
             /\ conns[ch][c].reader = "none" /\ conns[ch][c].peer = "none"
  <2>1. conns[ch][c] = NoConn
    BY Zenon DEF Init
  <2>2. NoConn.unread = <<>> /\ NoConn.reader = "none" /\ NoConn.peer = "none"
    BY Zenon DEF NoConn
  <2> QED  BY <1>1, <2>1, <2>2, Zenon DEF OneConnInv, UnreadOK
<1>5. ASSUME NEW ch \in Sockets PROVE InOrder(conns[ch], serving[ch])
  BY <1>4, Zenon DEF InOrder
<1> QED  BY <1>2, <1>3, <1>4, <1>5, Zenon DEF ConnsInv

\* What is written to a UART is in order: the commands of a connection always,
\* those of two connections unless a write to the older one failed.
THEOREM CommandsInOrder == Spec => []CommandOrder
<1> DEFINE Inv == IInv /\ UartType /\ CommandInv /\ ConnsInv
<1>1. Inv /\ [Next]_vars => Inv'
  <2> SUFFICES ASSUME Inv, [Next]_vars PROVE Inv'
    BY Zenon
  <2>1. IInv' /\ UartType' /\ ConnsInv' /\ Later(conns, conns')
    BY StepKeeps, UartStep, ConnsStep, Zenon
  <2>2. CommandInv'
    BY <2>1, UartStep, StayKeeps, SockCommands, Zenon
  <2> QED  BY <2>1, <2>2, Zenon
<1>2. Init => Inv
  BY InitKeeps, CommandInit, Zenon
<1>3. Inv => CommandOrder
  <2> SUFFICES ASSUME Inv, NEW ch \in Uarts \cap Sockets, NEW j \in DOMAIN uart_out[ch],
                      NEW i \in 1..(j - 1)
               PROVE  /\ uart_out[ch][i].conn = uart_out[ch][j].conn => uart_out[ch][i].n < uart_out[ch][j].n
                      /\ uart_out[ch][i].conn > uart_out[ch][j].conn => conns[ch][uart_out[ch][j].conn].broke
    BY Zenon DEF CommandOrder
  <2> DEFINE o == uart_out[ch]
  <2>1. o \in Seq(Frames) /\ Sorted(o, CommandsOrder(conns)) /\ \A f \in Range(o) : f.ch = ch
    BY Zenon DEF UartType, CommandInv, Commands
  <2>2. j \in 1..Len(o) /\ i \in 1..Len(o) /\ i \in 1..(j - 1)
    BY <2>1
  <2>3. o[i].ch = ch /\ o[j].ch = ch
    BY <2>1, <2>2, Elements, Zenon
  <2>4. <<o[i], o[j]>> \in CommandsOrder(conns)
    BY <2>1, <2>2, Zenon DEF Sorted
  <2> HIDE DEF o
  <2>5. o[i] \in ToMcu /\ o[j] \in ToMcu
    BY <2>4, Zenon DEF CommandsOrder
  <2>6. /\ o[i].conn = o[j].conn => o[i].n < o[j].n
        /\ o[i].conn > o[j].conn => conns[ch][o[j].conn].broke
    BY <2>3, <2>4, <2>5, OrderMeans, Zenon
  <2> QED  BY <2>6, Zenon DEF o
<1> HIDE DEF Inv
<1> QED  BY <1>1, <1>2, <1>3, PTL DEF Spec
=============================================================================
