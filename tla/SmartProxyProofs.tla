-------------------------- MODULE SmartProxyProofs --------------------------
(***************************************************************************)
(* Proofs about SmartProxy, for any number of MCUs, sockets, connections   *)
(* and commands and any size of the dictionaries, fragments and identify   *)
(* requests: Klipper puts together the host's dictionary, and that is one  *)
(* an MCU had.                                                             *)
(*                                                                         *)
(* Fetch: what Klipper has, the one answer on its way to it and the one    *)
(* request it has open fit together as a beginning of the dictionary.      *)
(* DictInv: what the host has gathered are the first pieces of a           *)
(* dictionary, and the rest of them, on their way, are in order and        *)
(* without a gap, unless the transfer was torn.                            *)
(***************************************************************************)
EXTENDS SmartProxy, QueueLemmas

Bytes == Uarts \X Nat \X Nat
Numbers == {<<n>> : n \in Nat}

Payloads == [kind : {"payload"}, ch : ChIds, conn : Nat, data : Numbers]
Controls == [kind : {"CTRL_DICT_FRAG", "CTRL_DICT_DONE"}, ch : Uarts, conn : Nat, data : Seq(Bytes)]
Tunnelled == Payloads \cup Controls
Requests == [kind : {"identify"}, ch : ChIds, conn : Nat, data : Numbers]
Answers == [kind : {"identify_response"}, ch : ChIds, conn : Nat, data : Seq(Bytes)]

Records ==
    [peer : {"none", "open", "closed"}, relay : {"none", "run", "done"},
     fwd : {"none", "run", "aborted", "done"}, writer : {"none", "run", "done"},
     from_mcu : Seq(Payloads), to_exporter : Seq(Payloads),
     to_klipper : Seq(Payloads \cup Answers), unread : Seq(Payloads \cup Requests),
     fetched : Seq(Bytes), asking : BOOLEAN, complete : BOOLEAN,
     sent : Nat, got : Seq(Payloads), seen : Nat]

TaskType ==
    /\ process \in [Sides -> {"down", "boot", "run"}]
    /\ booted \in 0..NumUarts
    /\ firmware \in [Uarts -> Nat \ {0}]
    /\ usb_writer \in [Sides -> BOOLEAN]
    /\ aligned \in [Sides -> BOOLEAN]
    /\ mcu_task \in [Uarts -> BOOLEAN]
    /\ cmd_task \in [Uarts -> BOOLEAN]

QueueType ==
    /\ usb_q \in [Sides -> Seq(Tunnelled)]
    /\ wire \in [Sides -> Seq(Tunnelled)]
    /\ uart_cmd \in [Uarts -> Seq(Payloads)]
    /\ ctrl_q \in Seq(Controls)

DictType ==
    /\ dicts \in [ChIds -> Seq(Bytes)]
    /\ published \in [Sockets -> Seq(Bytes) \cup {None}]
    /\ dictionary \in [Sockets -> Seq(Bytes) \cup {None}]

ConnType ==
    /\ serving \in [Sockets -> Conns \cup {0}]
    /\ slot \in [Sockets -> Conns \cup {0}]
    /\ conns \in [Sockets -> [Conns -> Records]]

HistoryType ==
    /\ mcu_sent \in [Uarts -> Nat]
    /\ arrived \in [Sockets -> Nat]
    /\ mcu_got \in [Uarts -> Seq(Payloads)]
    /\ torn \in [Uarts -> BOOLEAN]
    /\ garbled \in BOOLEAN

TypeOK == TaskType /\ QueueType /\ DictType /\ ConnType /\ HistoryType

-----------------------------------------------------------------------------
\* The shapes of the frames.
LEMMA FrameTypes ==
    /\ \A ch \in ChIds, conn \in Nat, num \in Nat :
          Payload(ch, conn, num) \in Payloads /\ Frame("identify", ch, conn, <<num>>) \in Requests
    /\ \A ch \in Uarts, data \in Seq(Bytes) : DICT_FRAG(ch, data) \in Controls
    /\ \A ch \in Uarts : DICT_DONE(ch) \in Controls
    /\ \A ch \in ChIds, conn \in Nat, data \in Seq(Bytes) :
          Frame("identify_response", ch, conn, data) \in Answers
BY DEF Payload, Frame, DICT_FRAG, DICT_DONE, Payloads, Requests, Controls, Answers, Numbers

\* What the kind of a frame tells.
LEMMA KindMeans ==
    /\ \A f \in Tunnelled : (Control(f) => f \in Controls) /\ (~Control(f) => f \in Payloads)
    /\ \A f \in Payloads \cup Answers :
          (f.kind = "identify_response" => f \in Answers) /\ (f.kind # "identify_response" => f \in Payloads)
    /\ \A f \in Payloads \cup Requests :
          (f.kind = "identify" => f \in Requests) /\ (f.kind # "identify" => f \in Payloads)
BY Zenon DEF Control, Tunnelled, Payloads, Controls, Requests, Answers

\* A number is the only element of the data of a payload and of a request.
LEMMA NumberMeans ==
    \A f \in Payloads \cup Requests : f.data[1] \in Nat /\ f.data = <<f.data[1]>>
BY DEF Payloads, Requests, Numbers

\* A queue of control frames and one more.
LEMMA LastControl ==
    ASSUME NEW s \in Seq(Controls), NEW f \in Controls
    PROVE  /\ s \o <<f>> \in Seq(Controls) /\ Len(s \o <<f>>) = Len(s) + 1
           /\ \A k \in 1..Len(s) : (s \o <<f>>)[k] = s[k]
           /\ (s \o <<f>>)[Len(s) + 1] = f
OBVIOUS

\* The part of a dictionary that begins behind another.
LEMMA Behind ==
    \A lo, n \in Nat : \A from \in 1..n : \A hi \in from..n :
       from = lo + 1 => hi \in Nat /\ lo <= hi /\ hi <= n
OBVIOUS

\* Sides, channels and connections.
LEMMA Indices ==
    /\ "exporter" \in Sides /\ "host" \in Sides /\ "exporter" # "host"
    /\ Peer("exporter") = "host" /\ Peer("host") = "exporter"
    /\ \A side \in Sides : Peer(side) \in Sides /\ (side = "exporter" \/ side = "host")
    /\ Uarts \subseteq ChIds /\ Sockets \subseteq Uarts /\ NumUarts \in ChIds
    /\ Conns \subseteq Nat \ {0}
BY ProxyAssumption, ProxyBounds DEF Sides, Peer, Uarts, ChIds, Conns

\* A frame is appended to a queue.
LEMMA AppendTunnelled ==
    ASSUME NEW q \in Seq(Tunnelled), NEW f \in Tunnelled
    PROVE  Append(q, f) \in Seq(Tunnelled) /\ Range(Append(q, f)) = Range(q) \cup {f}
BY AppendOne

\* What a decoder yields.
LEMMA DecodedType ==
    ASSUME TypeOK, NEW side \in Sides, wire[Peer(side)] # <<>>, NEW f \in decoded(side)
    PROVE  /\ f \in Tunnelled
           /\ aligned[side] => f = Head(wire[Peer(side)])
<1>1. CASE aligned[side]
  <2>1. wire[Peer(side)] \in Seq(Tunnelled)
    BY Indices, Zenon DEF TypeOK, QueueType
  <2>2. Head(wire[Peer(side)]) \in Tunnelled
    BY <2>1, TakeFirst, Zenon
  <2> QED  BY <1>1, <2>2, Zenon DEF decoded
<1>2. CASE ~aligned[side]
  <2>1. Payload(NumUarts, 0, 0) \in Tunnelled
    BY FrameTypes, Indices, Zenon DEF Tunnelled
  <2>2. ASSUME NEW ch \in Uarts
        PROVE  {DICT_FRAG(ch, <<<<ch, 0, 0>>>>), DICT_DONE(ch), Payload(ch, 0, 0)} \subseteq Tunnelled
    <3>1. <<ch, 0, 0>> \in Bytes
      BY Zenon DEF Bytes
    <3>2. <<<<ch, 0, 0>>>> \in Seq(Bytes)
      BY <3>1
    <3>3. DICT_FRAG(ch, <<<<ch, 0, 0>>>>) \in Controls /\ DICT_DONE(ch) \in Controls
      BY <3>2, FrameTypes, Zenon
    <3>4. Payload(ch, 0, 0) \in Payloads
      BY FrameTypes, Indices, Zenon
    <3> QED  BY <3>3, <3>4, Zenon DEF Tunnelled
  <2>3. Junk \subseteq Tunnelled
    <3>1. ASSUME NEW x \in Junk PROVE x \in Tunnelled
      <4>1. PICK ch \in Uarts :
               x \in {DICT_FRAG(ch, <<<<ch, 0, 0>>>>), DICT_DONE(ch), Payload(ch, 0, 0)}
        BY <3>1, Zenon DEF Junk
      <4> QED  BY <2>2, <4>1, Zenon
    <3> QED  BY <3>1, Zenon
  <2> QED  BY <1>2, <2>1, <2>3, Zenon DEF decoded
<1> QED  BY <1>1, <1>2, Zenon DEF TypeOK, TaskType

-----------------------------------------------------------------------------
(***************************************************************************)
(* The dictionary at a client.  Klipper asks for one chunk at a time: its  *)
(* request, or the answer, is the only one on its way, and is about the    *)
(* bytes that follow those it has.                                         *)
(***************************************************************************)
Asks(r) ==
    \A i \in 1..Len(r.unread) : r.unread[i].kind = "identify" =>
       /\ r.asking /\ ~r.complete /\ r.unread[i].data = <<Len(r.fetched)>>
       /\ \A j \in 1..Len(r.unread) : r.unread[j].kind = "identify" => j = i
       /\ \A j \in 1..Len(r.to_klipper) : r.to_klipper[j].kind = "payload"

Answered(r, D) ==
    \A i \in 1..Len(r.to_klipper) : r.to_klipper[i].kind # "payload" =>
       /\ r.asking /\ ~r.complete /\ r.to_klipper[i].data = identify(D, Len(r.fetched))
       /\ \A j \in 1..Len(r.to_klipper) : r.to_klipper[j].kind # "payload" => j = i

Prefix(s, D) == Len(s) <= Len(D) /\ s = SubSeq(D, 1, Len(s))

Fetch(r, D) ==
    /\ r.relay = "none" => r.to_klipper = <<>> /\ r.fetched = <<>> /\ ~r.complete
    /\ r.relay \in {"none", "run"} => Asks(r)
    /\ r.relay = "run" => /\ D \in Seq(Bytes) \ {None} /\ Answered(r, D) /\ Prefix(r.fetched, D)
                          /\ r.complete => r.fetched = D

\* What a client fetches is all that Fetch is about.
Fetching(r) == <<r.relay, r.to_klipper, r.unread, r.fetched, r.asking, r.complete>>

\* A step that leaves alone what the invariant looks at keeps it.
LEMMA FetchSame ==
    ASSUME NEW r \in Records, NEW n \in Records, NEW D, Fetch(r, D), Fetching(n) = Fetching(r)
    PROVE  Fetch(n, D)
<1>1. /\ n.relay = r.relay /\ n.to_klipper = r.to_klipper /\ n.unread = r.unread
      /\ n.fetched = r.fetched /\ n.asking = r.asking /\ n.complete = r.complete
  BY Zenon DEF Fetching
<1> QED  BY <1>1 DEF Fetch, Asks, Answered

\* A step that only drops what was on its way to the client, or adds a payload.
LEMMA FetchKlipper ==
    ASSUME NEW r \in Records, NEW n \in Records, NEW D, Fetch(r, D), r.relay # "none",
           n.relay = r.relay, n.unread = r.unread,
           n.fetched = r.fetched, n.asking = r.asking, n.complete = r.complete,
           \/ n.to_klipper = <<>>
           \/ \E f \in Payloads : n.to_klipper = Append(r.to_klipper, f)
    PROVE  Fetch(n, D)
<1>1. CASE n.to_klipper = <<>>
  <2>1. Len(n.to_klipper) = 0 /\ 1..Len(n.to_klipper) = {}
    BY <1>1
  <2> QED  BY <2>1 DEF Fetch, Asks, Answered
<1>2. ASSUME NEW f \in Payloads, n.to_klipper = Append(r.to_klipper, f) PROVE Fetch(n, D)
  <2> DEFINE kq == r.to_klipper
             m == Append(kq, f)
  <2>1. kq \in Seq(Payloads \cup Answers) /\ f \in Payloads \cup Answers /\ f.kind = "payload"
    BY Zenon DEF Records, Payloads
  <2>2. Len(m) = Len(kq) + 1 /\ Len(kq) \in Nat /\ m[Len(kq) + 1] = f /\ \A i \in 1..Len(kq) : m[i] = kq[i]
    BY <2>1, AppendOne
  <2> HIDE DEF m
  <2>3. \A i \in 1..Len(m) : (i \in 1..Len(kq) /\ m[i] = kq[i]) \/ m[i].kind = "payload"
    BY <2>1, <2>2
  <2>4. n.to_klipper = m
    BY <1>2, Zenon DEF m
  <2>5. ASSUME Asks(r) PROVE Asks(n)
    <3>1. (\A j \in 1..Len(kq) : kq[j].kind = "payload") => \A j \in 1..Len(m) : m[j].kind = "payload"
      BY <2>3, Zenon
    <3>2. ASSUME NEW i \in 1..Len(n.unread), n.unread[i].kind = "identify"
          PROVE  /\ n.asking /\ ~n.complete /\ n.unread[i].data = <<Len(n.fetched)>>
                 /\ \A j \in 1..Len(n.unread) : n.unread[j].kind = "identify" => j = i
                 /\ \A j \in 1..Len(kq) : kq[j].kind = "payload"
      BY <2>5, <3>2, Zenon DEF Asks
    <3> QED  BY <2>4, <3>1, <3>2, Zenon DEF Asks
  <2>6. ASSUME Answered(r, D) PROVE Answered(n, D)
    BY <2>3, <2>4, <2>6, SMTT(30) DEF Answered
  <2> QED  BY <2>5, <2>6, Zenon DEF Fetch
<1> QED  BY <1>1, <1>2, Zenon

\* The client sends a request or a command.
LEMMA FetchSends ==
    ASSUME NEW r \in Records, NEW n \in Records, NEW D, Fetch(r, D),
           n.relay = r.relay, n.to_klipper = r.to_klipper,
           n.fetched = r.fetched, n.complete = r.complete,
           NEW f \in Payloads \cup Requests, n.unread = Append(r.unread, f),
           \/ f.kind = "payload" /\ n.asking = r.asking
           \/ ~r.complete /\ ~r.asking /\ n.asking /\ f.data = <<Len(r.fetched)>>
    PROVE  Fetch(n, D)
<1> DEFINE u == r.unread
           m == Append(u, f)
<1>1. u \in Seq(Payloads \cup Requests)
  BY Zenon DEF Records
<1>2. Len(m) = Len(u) + 1 /\ Len(u) \in Nat /\ m[Len(u) + 1] = f /\ \A i \in 1..Len(u) : m[i] = u[i]
  BY <1>1, AppendOne
<1> HIDE DEF m
<1>3. /\ n.unread = m
      /\ \A i \in 1..Len(m) : (i \in 1..Len(u) /\ m[i] = u[i]) \/ (i = Len(u) + 1 /\ m[i] = f)
  BY <1>2 DEF m
<1>4. r.to_klipper \in Seq(Payloads \cup Answers)
  BY Zenon DEF Records
<1>5. ASSUME r.relay = "none" PROVE r.to_klipper = <<>>
  BY <1>5, Zenon DEF Fetch
<1>6. CASE f.kind = "payload" /\ n.asking = r.asking
  <2>1. Asks(r) => Asks(n)
    BY <1>3, <1>6, SMTT(30) DEF Asks
  <2>2. Answered(r, D) => Answered(n, D)
    BY <1>6, Zenon DEF Answered
  <2> QED  BY <2>1, <2>2, Zenon DEF Fetch
<1>7. CASE ~r.complete /\ ~r.asking /\ n.asking /\ f.data = <<Len(r.fetched)>>
  <2>1. ASSUME Asks(r) PROVE \A i \in 1..Len(u) : u[i].kind # "identify"
    BY <1>7, <2>1, Zenon DEF Asks
  <2>2. ASSUME Answered(r, D) PROVE \A i \in 1..Len(r.to_klipper) : r.to_klipper[i].kind = "payload"
    BY <1>7, <2>2, Zenon DEF Answered
  <2>3. ASSUME Asks(r), \A i \in 1..Len(r.to_klipper) : r.to_klipper[i].kind = "payload"
        PROVE  Asks(n)
    BY <1>3, <1>7, <2>1, <2>3 DEF Asks
  <2>4. ASSUME Answered(r, D) PROVE Answered(n, D)
    BY <2>2, <2>4, Zenon DEF Answered
  <2>5. CASE r.relay = "none"
    <3>1. 1..Len(r.to_klipper) = {}
      BY <1>5, <2>5
    <3>2. Asks(r)
      BY <2>5, Zenon DEF Fetch
    <3>3. Asks(n)
      BY <2>3, <3>1, <3>2, Zenon
    <3> QED  BY <2>5, <3>3, Zenon DEF Fetch
  <2>6. CASE r.relay # "none"
    BY <2>2, <2>3, <2>4, <2>6, Zenon DEF Fetch
  <2> QED  BY <2>5, <2>6, Zenon
<1> QED  BY <1>6, <1>7, Zenon

\* The relay loop takes a message of the client, and answers a request.
LEMMA FetchRelay ==
    ASSUME NEW r \in Records, NEW n \in Records, NEW D, Fetch(r, D), r.relay = "run",
           r.unread # <<>>, n.relay = r.relay, n.unread = Tail(r.unread),
           n.fetched = r.fetched, n.asking = r.asking, n.complete = r.complete,
           \/ n.to_klipper = r.to_klipper
           \/ \E a \in Answers : /\ Head(r.unread).kind = "identify"
                                 /\ a.data = identify(D, Head(r.unread).data[1])
                                 /\ n.to_klipper = Append(r.to_klipper, a)
    PROVE  Fetch(n, D)
<1> DEFINE u == r.unread
           t == Tail(u)
           kq == r.to_klipper
<1>1. u \in Seq(Payloads \cup Requests) /\ kq \in Seq(Payloads \cup Answers) /\ r.fetched \in Seq(Bytes)
  BY Zenon DEF Records
<1>2. /\ Head(u) = u[1] /\ Len(t) = Len(u) - 1 /\ Len(u) \in Nat \ {0}
      /\ \A i \in 1..Len(t) : t[i] = u[i + 1]
  BY <1>1, TakeFirst
<1> HIDE DEF t
<1>3. /\ n.unread = t
      /\ \A i \in 1..Len(t) : i + 1 \in 1..Len(u) /\ i + 1 # 1 /\ t[i] = u[i + 1]
  BY <1>2 DEF t
<1>4. Asks(r) /\ Answered(r, D)
  BY Zenon DEF Fetch
<1>5. ASSUME n.to_klipper = kq PROVE Fetch(n, D)
  <2>1. \A i, j \in 1..Len(t) : i + 1 = j + 1 => i = j
    BY <1>2
  <2>2. Asks(n)
    BY <1>3, <1>4, <1>5, <2>1 DEF Asks
  <2>3. Answered(n, D)
    BY <1>4, <1>5, Zenon DEF Answered
  <2> QED  BY <2>2, <2>3, Zenon DEF Fetch
<1>6. ASSUME NEW a \in Answers, u[1].kind = "identify", a.data = identify(D, u[1].data[1]),
             n.to_klipper = Append(kq, a)
      PROVE  Fetch(n, D)
  <2> DEFINE m == Append(kq, a)
  <2>1. a \in Payloads \cup Answers /\ a.kind # "payload"
    BY Zenon DEF Answers
  <2>2. Len(m) = Len(kq) + 1 /\ Len(kq) \in Nat /\ m[Len(kq) + 1] = a /\ \A i \in 1..Len(kq) : m[i] = kq[i]
    BY <1>1, <2>1, AppendOne
  <2>3. 1 \in 1..Len(u)
    BY <1>2
  <2>4. /\ r.asking /\ ~r.complete /\ u[1].data = <<Len(r.fetched)>>
        /\ \A j \in 1..Len(u) : u[j].kind = "identify" => j = 1
        /\ \A j \in 1..Len(kq) : kq[j].kind = "payload"
    BY <1>4, <1>6, <2>3, Zenon DEF Asks
  <2>5. a.data = identify(D, Len(r.fetched))
    BY <1>6, <2>4
  <2> HIDE DEF m
  <2>6. /\ n.to_klipper = m
        /\ \A i \in 1..Len(m) : m[i].kind # "payload" => i = Len(kq) + 1 /\ m[i] = a
    BY <1>6, <2>2, <2>4 DEF m
  <2>7. Answered(n, D)
    BY <2>4, <2>5, <2>6, Zenon DEF Answered
  <2>8. Asks(n)
    BY <1>3, <2>4 DEF Asks
  <2> QED  BY <2>7, <2>8, Zenon DEF Fetch
<1> QED  BY <1>2, <1>5, <1>6, Zenon

\* Two successive parts of a dictionary are its longer part.
LEMMA Joined ==
    ASSUME NEW D \in Seq(Bytes), NEW lo \in Nat, NEW hi \in Nat, lo <= hi, hi <= Len(D)
    PROVE  /\ SubSeq(D, lo + 1, hi) \in Seq(Bytes) /\ Len(SubSeq(D, 1, hi)) = hi
           /\ SubSeq(D, 1, lo) \o SubSeq(D, lo + 1, hi) = SubSeq(D, 1, hi)
           /\ SubSeq(D, lo + 1, hi) = <<>> => lo = hi
<1> DEFINE s == SubSeq(D, 1, lo)
           m == SubSeq(D, lo + 1, hi)
           whole == SubSeq(D, 1, hi)
           w == s \o m
<1>1. Len(D) \in Nat
  OBVIOUS
<1>2. s \in Seq(Bytes) /\ Len(s) = lo /\ \A i \in 1..lo : s[i] = D[i]
  BY <1>1
<1>3. m \in Seq(Bytes) /\ Len(m) = hi - lo /\ \A i \in 1..(hi - lo) : m[i] = D[lo + i]
  BY <1>1
<1>4. whole \in Seq(Bytes) /\ Len(whole) = hi /\ \A i \in 1..hi : whole[i] = D[i]
  BY <1>1
<1> HIDE DEF s, m, whole
<1>5. /\ w \in Seq(Bytes) /\ Len(w) = hi
      /\ \A i \in 1..hi : w[i] = IF i <= lo THEN s[i] ELSE m[i - lo]
  <2>1. s \in Seq(Bytes) /\ m \in Seq(Bytes)
    BY <1>2, <1>3, Zenon
  <2>2. /\ w \in Seq(Bytes) /\ Len(w) = Len(s) + Len(m)
        /\ \A i \in 1..Len(s) : w[i] = s[i]
        /\ \A i \in (Len(s) + 1)..(Len(s) + Len(m)) : w[i] = m[i - Len(s)]
    BY <2>1
  <2>3. Len(s) = lo /\ Len(s) + Len(m) = hi
    BY <1>2, <1>3
  <2> HIDE DEF w
  <2> QED  BY <2>2, <2>3
<1> HIDE DEF w
<1>6. ASSUME NEW i \in 1..hi PROVE w[i] = whole[i]
  <2>1. CASE i <= lo
    <3>1. i \in 1..lo
      BY <2>1
    <3> QED  BY <1>2, <1>4, <1>5, <2>1, <3>1, Zenon
  <2>2. CASE i > lo
    <3>1. i - lo \in 1..(hi - lo) /\ lo + (i - lo) = i /\ ~(i <= lo)
      BY <2>2
    <3> QED  BY <1>3, <1>4, <1>5, <3>1, Zenon
  <2> QED  BY <2>1, <2>2
<1>7. w = whole
  BY <1>4, <1>5, <1>6
<1>8. m = <<>> => hi - lo = 0
  BY <1>3, Zenon
<1>9. m \in Seq(Bytes) /\ Len(whole) = hi /\ s \o m = whole /\ (m = <<>> => lo = hi)
  BY <1>3, <1>4, <1>7, <1>8 DEF w
<1> QED  BY <1>9, Zenon DEF s, m, whole

\* What one identify answers: some more of the dictionary, and nothing only
\* when there is no more.
LEMMA Chunk ==
    ASSUME NEW D \in Seq(Bytes), NEW s \in Seq(Bytes), Prefix(s, D)
    PROVE  /\ identify(D, Len(s)) \in Seq(Bytes)
           /\ Prefix(s \o identify(D, Len(s)), D)
           /\ identify(D, Len(s)) = <<>> => s = D
<1> DEFINE lo == Len(s)
           l == Len(D)
           hi == min(lo + Count, l)
           m == SubSeq(D, lo + 1, hi)
<1>1. lo \in Nat /\ l \in Nat /\ lo <= l /\ Count \in Nat \ {0} /\ s = SubSeq(D, 1, lo)
  BY DictAssumption DEF Prefix
<1>2. hi = IF lo + Count <= l THEN lo + Count ELSE l
  BY Zenon DEF min
<1>3. hi \in Nat /\ lo <= hi /\ hi <= l /\ (lo = hi => lo = l)
  BY <1>1, <1>2
<1>4. identify(D, lo) = m
  BY <1>1, Zenon DEF identify
<1> HIDE DEF lo, hi
<1>5. /\ m \in Seq(Bytes) /\ SubSeq(D, 1, lo) \o m = SubSeq(D, 1, hi) /\ Len(SubSeq(D, 1, hi)) = hi
      /\ m = <<>> => lo = hi
  BY <1>1, <1>3, Joined, ZenonT(30)
<1>6. s \o m = SubSeq(D, 1, hi)
  BY <1>1, <1>5, Zenon
<1>7. Prefix(s \o m, D)
  BY <1>3, <1>5, <1>6, Zenon DEF Prefix
<1>8. SubSeq(D, 1, l) = D
  OBVIOUS
<1>9. m = <<>> => s = D
  BY <1>1, <1>3, <1>5, <1>8, Zenon
<1> QED  BY <1>4, <1>5, <1>7, <1>9, Zenon DEF lo

\* The client is given a message.
LEMMA FetchDelivered ==
    ASSUME NEW r \in Records, NEW n \in Records, NEW D, Fetch(r, D), r.relay # "none",
           r.to_klipper # <<>>, n.relay = r.relay, n.unread = r.unread,
           n.to_klipper = Tail(r.to_klipper),
           \/ /\ Head(r.to_klipper).kind # "identify_response"
              /\ n.fetched = r.fetched /\ n.asking = r.asking /\ n.complete = r.complete
           \/ /\ Head(r.to_klipper).kind = "identify_response"
              /\ n.asking = FALSE /\ n.complete = (Head(r.to_klipper).data = <<>>)
              /\ n.fetched = r.fetched \o Head(r.to_klipper).data
    PROVE  Fetch(n, D)
<1> DEFINE kq == r.to_klipper
           t == Tail(kq)
<1>1. kq \in Seq(Payloads \cup Answers) /\ r.fetched \in Seq(Bytes)
  BY Zenon DEF Records
<1>2. /\ Head(kq) = kq[1] /\ Len(t) = Len(kq) - 1 /\ Len(kq) \in Nat \ {0}
      /\ \A i \in 1..Len(t) : t[i] = kq[i + 1]
  BY <1>1, TakeFirst, ZenonT(30)
<1> HIDE DEF t
<1>3. /\ n.to_klipper = t /\ 1 \in 1..Len(kq)
      /\ \A i \in 1..Len(t) : i + 1 \in 1..Len(kq) /\ i + 1 # 1 /\ t[i] = kq[i + 1]
      /\ \A i, j \in 1..Len(t) : i + 1 = j + 1 => i = j
  BY <1>2 DEF t
<1>4. CASE /\ kq[1].kind # "identify_response"
           /\ n.fetched = r.fetched /\ n.asking = r.asking /\ n.complete = r.complete
  <2>1. Asks(r) => Asks(n)
    BY <1>3, <1>4 DEF Asks
  <2>2. Answered(r, D) => Answered(n, D)
    BY <1>3, <1>4 DEF Answered
  <2> QED  BY <1>4, <2>1, <2>2, Zenon DEF Fetch
<1>5. CASE /\ kq[1].kind = "identify_response"
           /\ n.asking = FALSE /\ n.complete = (kq[1].data = <<>>)
           /\ n.fetched = r.fetched \o kq[1].data
  <2>1. CASE r.relay = "run"
    <3>1. Asks(r) /\ Answered(r, D) /\ Prefix(r.fetched, D) /\ D \in Seq(Bytes)
      BY <2>1, Zenon DEF Fetch
    <3>2. /\ kq[1].data = identify(D, Len(r.fetched))
          /\ \A j \in 1..Len(kq) : kq[j].kind # "payload" => j = 1
      BY <1>3, <1>5, <3>1, Zenon DEF Answered
    <3>3. \A i \in 1..Len(t) : t[i].kind = "payload"
      BY <1>3, <3>2
    <3>4. \A i \in 1..Len(r.unread) : r.unread[i].kind # "identify"
      BY <1>3, <1>5, <3>1, Zenon DEF Asks
    <3>5. Asks(n) /\ Answered(n, D)
      BY <1>3, <3>3, <3>4, Zenon DEF Asks, Answered
    <3>6. Prefix(n.fetched, D) /\ (n.complete => r.fetched = D /\ kq[1].data = <<>>)
      <4> DEFINE x == identify(D, Len(r.fetched))
      <4>1. Prefix(r.fetched \o x, D) /\ (x = <<>> => r.fetched = D)
        BY <1>1, <3>1, Chunk, Zenon
      <4> HIDE DEF x
      <4>2. kq[1].data = x
        BY <3>2, Zenon DEF x
      <4> QED  BY <1>5, <4>1, <4>2, Zenon
    <3>7. n.complete => n.fetched = D
      <4>1. ASSUME n.complete PROVE n.fetched = D
        <5>1. n.fetched = D \o <<>>
          BY <1>5, <3>6, <4>1, Zenon
        <5> QED  BY <3>1, <5>1
      <4> QED  BY <4>1, Zenon
    <3> QED  BY <2>1, <3>1, <3>5, <3>6, <3>7, Zenon DEF Fetch
  <2>2. CASE r.relay # "run"
    BY <2>2, Zenon DEF Fetch, Records
  <2> QED  BY <2>1, <2>2, Zenon
<1> QED  BY <1>2, <1>4, <1>5, Zenon

-----------------------------------------------------------------------------
FetchInv == \A ch \in Sockets, c \in Conns : Fetch(conns[ch][c], dictionary[ch])

\* A connection after a step: it is one, and its client fetches on.
Goes(ch, c, n) == n \in Records /\ Conn(ch, c, n) /\ Fetch(n, dictionary[ch])

\* One connection changes.
LEMMA OneConn ==
    ASSUME ConnType, FetchInv, NEW ch \in Sockets, NEW c \in Conns, NEW n, Goes(ch, c, n),
           dictionary' = dictionary
    PROVE  conns' \in [Sockets -> [Conns -> Records]] /\ FetchInv'
<1>1. conns' = [conns EXCEPT ![ch][c] = n] /\ n \in Records /\ conns \in [Sockets -> [Conns -> Records]]
  BY Zenon DEF Goes, Conn, ConnType
<1>2. ASSUME NEW h \in Sockets, NEW oc \in Conns PROVE Fetch(conns'[h][oc], dictionary'[h])
  <2>1. CASE h = ch /\ oc = c
    <3>1. conns'[h][oc] = n
      BY <1>1, <2>1, Zenon
    <3> QED  BY <2>1, <3>1, Zenon DEF Goes
  <2>2. CASE ~(h = ch /\ oc = c)
    <3>1. conns'[h][oc] = conns[h][oc]
      BY <1>1, <2>2, Zenon
    <3> QED  BY <3>1, Zenon DEF FetchInv
  <2> QED  BY <2>1, <2>2, Zenon
<1> QED  BY <1>1, <1>2, Zenon DEF FetchInv

\* The record of a connection and its dictionary.
LEMMA TheRecord ==
    ASSUME TypeOK, FetchInv, NEW ch \in Sockets, NEW c \in Conns
    PROVE  conns[ch][c] \in Records /\ Fetch(conns[ch][c], dictionary[ch])
BY Zenon DEF TypeOK, ConnType, FetchInv

\* NoConn and Ended.
LEMMA OverTypes == NoConn \in Records /\ Ended \in Records /\ Ended.relay = "done"
<1>1. /\ <<>> \in Seq(Payloads) /\ <<>> \in Seq(Payloads \cup Answers)
      /\ <<>> \in Seq(Payloads \cup Requests) /\ <<>> \in Seq(Bytes)
  BY EmptyQueue, Zenon
<1>2. NoConn \in Records
  BY <1>1, Zenon DEF NoConn, Records
<1>3. Ended \in Records /\ Ended.relay = "done"
  BY <1>1, Zenon DEF Ended, NoConn, Records
<1> QED  BY <1>2, <1>3, Zenon

\* Klipper connects: a fresh record, which has fetched nothing.
LEMMA ConnectsGoes ==
    ASSUME TypeOK, FetchInv, NEW ch \in Sockets, NEW c \in Conns, Connects(ch, c)
    PROVE  \E n : Goes(ch, c, n)
<1> DEFINE n == [NoConn EXCEPT !.peer = "open"]
<1>1. Conn(ch, c, n)
  BY Zenon DEF Connects
<1>2. /\ n.relay = "none" /\ n.to_klipper = <<>> /\ n.fetched = <<>> /\ ~n.complete
      /\ n.unread = <<>>
  BY Zenon DEF NoConn
<1>3. n \in Records
  BY OverTypes, Zenon DEF Records
<1> HIDE DEF n
<1>4. Fetch(n, dictionary[ch])
  BY <1>2 DEF Fetch, Asks
<1> QED  BY <1>1, <1>3, <1>4, Zenon DEF Goes

\* Klipper asks for the next chunk, from where it has come to, or sends a command.
LEMMA SendsGoes ==
    ASSUME TypeOK, FetchInv, NEW ch \in Sockets, NEW c \in Conns, Sends(ch, c)
    PROVE  \E n : Goes(ch, c, n)
<1> DEFINE r == conns[ch][c]
           f == Identify(ch, c, Len(r.fetched))
           g == Payload(ch, c, r.sent + 1)
           u == Append(r.unread, f)
           uc == Append(r.unread, g)
           m == [r EXCEPT !.asking = TRUE, !.unread = u]
           n == [r EXCEPT !.sent = @ + 1, !.unread = uc]
<1>1. r \in Records /\ Fetch(r, dictionary[ch])
  BY TheRecord, Zenon
<1>2. \/ ~r.complete /\ ~r.asking /\ Conn(ch, c, m)
      \/ Conn(ch, c, n)
  BY Zenon DEF Sends
<1>3. /\ Len(r.fetched) \in Nat /\ r.sent \in Nat /\ r.sent + 1 \in Nat
      /\ r.unread \in Seq(Payloads \cup Requests) /\ ch \in ChIds /\ c \in Nat
  <2>1. r.fetched \in Seq(Bytes) /\ r.sent \in Nat /\ r.unread \in Seq(Payloads \cup Requests)
    BY <1>1, Zenon DEF Records
  <2> HIDE DEF r
  <2>2. ch \in ChIds /\ c \in Nat
    BY Indices, Zenon
  <2> QED  BY <2>1, <2>2
<1>4. /\ f \in Requests /\ f.data = <<Len(r.fetched)>>
      /\ g \in Payloads /\ g.kind = "payload"
  BY <1>3, FrameTypes, Zenon DEF Identify, Payload, Frame
<1> HIDE DEF r, f, g
<1>5. u \in Seq(Payloads \cup Requests) /\ uc \in Seq(Payloads \cup Requests)
  BY <1>3, <1>4, AppendOne, Zenon
<1> HIDE DEF u, uc
<1>6. /\ m \in Records /\ m.relay = r.relay /\ m.to_klipper = r.to_klipper
      /\ m.fetched = r.fetched /\ m.complete = r.complete /\ m.asking = TRUE /\ m.unread = u
  BY <1>1, <1>5, Zenon DEF Records
<1>7. /\ n \in Records /\ n.relay = r.relay /\ n.to_klipper = r.to_klipper
      /\ n.fetched = r.fetched /\ n.complete = r.complete /\ n.asking = r.asking /\ n.unread = uc
  BY <1>1, <1>3, <1>5, Zenon DEF Records
<1> HIDE DEF m, n
<1>8. ~r.complete /\ ~r.asking => Fetch(m, dictionary[ch])
  BY <1>1, <1>4, <1>6, FetchSends, Zenon DEF u
<1>9. Fetch(n, dictionary[ch])
  BY <1>1, <1>4, <1>7, FetchSends, Zenon DEF uc
<1> QED  BY <1>2, <1>6, <1>7, <1>8, <1>9, Zenon DEF Goes

\* Klipper disconnects.
LEMMA DisconnectsGoes ==
    ASSUME TypeOK, FetchInv, NEW ch \in Sockets, NEW c \in Conns, Disconnects(ch, c)
    PROVE  \E n : Goes(ch, c, n)
<1> DEFINE r == conns[ch][c]
           n == [r EXCEPT !.peer = "closed"]
<1>1. r \in Records /\ Fetch(r, dictionary[ch])
  BY TheRecord, Zenon
<1>2. Conn(ch, c, n)
  BY Zenon DEF Disconnects
<1> HIDE DEF r
<1>3. n \in Records /\ Fetching(n) = Fetching(r)
  BY <1>1, Zenon DEF Records, Fetching
<1> HIDE DEF n
<1>4. Fetch(n, dictionary[ch])
  BY <1>1, <1>3, FetchSame, Zenon
<1> QED  BY <1>2, <1>3, <1>4, Zenon DEF Goes

\* The host accepts: it serves only once it has a dictionary.
LEMMA AcceptGoes ==
    ASSUME TypeOK, FetchInv, NEW ch \in Sockets, NEW c \in Conns, accept(ch, c)
    PROVE  \E n : Goes(ch, c, n)
<1> DEFINE r == conns[ch][c]
           D == dictionary[ch]
           n == [r EXCEPT !.relay = "run", !.fwd = "run", !.writer = "run", !.seen = arrived[ch]]
<1>1. r \in Records /\ Fetch(r, D)
  BY TheRecord, Zenon
<1>2. Conn(ch, c, n) /\ r.relay = "none" /\ D # None
  BY Zenon DEF accept
<1>3. D \in Seq(Bytes) /\ arrived[ch] \in Nat
  BY <1>2, Zenon DEF TypeOK, DictType, HistoryType
<1> HIDE DEF r, D
<1>4. /\ n \in Records /\ n.relay = "run" /\ n.unread = r.unread /\ n.to_klipper = r.to_klipper
      /\ n.fetched = r.fetched /\ n.asking = r.asking /\ n.complete = r.complete
  BY <1>1, <1>3, Zenon DEF Records
<1> HIDE DEF n
<1>5. n.to_klipper = <<>> /\ n.fetched = <<>> /\ ~n.complete /\ Asks(r)
  BY <1>1, <1>2, <1>4, Zenon DEF Fetch
<1>6. Asks(n)
  BY <1>4, <1>5 DEF Asks
<1>7. Answered(n, D)
  BY <1>5 DEF Answered
<1>8. Prefix(<<>>, D)
  <2>1. Len(D) \in Nat /\ SubSeq(D, 1, 0) = <<>>
    BY <1>3
  <2> QED  BY <2>1 DEF Prefix
<1>9. Fetch(n, D)
  BY <1>2, <1>3, <1>4, <1>5, <1>6, <1>7, <1>8, Zenon DEF Fetch
<1> QED  BY <1>2, <1>4, <1>9, Zenon DEF Goes, D

\* dispatch answers identify with the chunk at the offset it was asked for.
LEMMA RelayClientGoes ==
    ASSUME TypeOK, FetchInv, NEW ch \in Sockets, NEW c \in Conns, relay_client(ch, c)
    PROVE  \E n : Goes(ch, c, n)
<1> DEFINE r == conns[ch][c]
           D == dictionary[ch]
           f == Head(r.unread)
           t == Tail(r.unread)
           m == [r EXCEPT !.unread = t]
           a == Frame("identify_response", ch, c, identify(D, f.data[1]))
           kq == IF r.writer = "run" THEN Append(r.to_klipper, a) ELSE r.to_klipper
           e == IF r.fwd = "run" THEN Append(r.to_exporter, f) ELSE r.to_exporter
           n == [m EXCEPT !.to_klipper = kq]
           o == [m EXCEPT !.to_exporter = e]
<1>1. r \in Records /\ Fetch(r, D)
  BY TheRecord, Zenon
<1>2. /\ Conn(ch, c, IF f.kind = "identify" THEN to_klipper(m, a) ELSE to_exporter(m, f))
      /\ r.relay = "run" /\ r.unread # <<>>
  BY Zenon DEF relay_client
<1>3. D \in Seq(Bytes) /\ Asks(r) /\ Prefix(r.fetched, D)
  BY <1>1, <1>2, Zenon DEF Fetch
<1>4. /\ r.unread \in Seq(Payloads \cup Requests) /\ r.to_klipper \in Seq(Payloads \cup Answers)
      /\ r.to_exporter \in Seq(Payloads) /\ r.fetched \in Seq(Bytes)
  BY <1>1, Zenon DEF Records
<1> HIDE DEF r, D
<1>5. f \in Payloads \cup Requests /\ t \in Seq(Payloads \cup Requests) /\ f = r.unread[1]
      /\ 1 \in 1..Len(r.unread)
  BY <1>2, <1>4, TakeFirst
<1> HIDE DEF f, t
<1>6. /\ m \in Records /\ m.relay = r.relay /\ m.unread = t /\ m.to_klipper = r.to_klipper
      /\ m.fetched = r.fetched /\ m.asking = r.asking /\ m.complete = r.complete
      /\ m.writer = r.writer /\ m.fwd = r.fwd /\ m.to_exporter = r.to_exporter
  BY <1>1, <1>5, Zenon DEF Records
<1> HIDE DEF m
<1>7. CASE f.kind = "identify"
  <2>1. f.data = <<Len(r.fetched)>>
    BY <1>3, <1>5, <1>7, Zenon DEF Asks
  <2>2. identify(D, f.data[1]) \in Seq(Bytes)
    <3>1. f.data[1] = Len(r.fetched)
      BY <2>1
    <3> QED  BY <1>3, <1>4, <3>1, Chunk, Zenon
  <2>3. a \in Answers /\ a.data = identify(D, f.data[1])
    <3>1. a.data = identify(D, f.data[1])
      BY Zenon DEF Frame
    <3>2. ch \in ChIds /\ c \in Nat
      BY Indices, Zenon
    <3> QED  BY <2>2, <3>1, <3>2, FrameTypes, Zenon
  <2> HIDE DEF a
  <2>4. kq \in Seq(Payloads \cup Answers)
    <3>1. a \in Payloads \cup Answers
      BY <2>3, Zenon
    <3> QED  BY <1>4, <3>1, AppendOne, Zenon
  <2>5. to_klipper(m, a) = n
    BY <1>6, Zenon DEF to_klipper
  <2> HIDE DEF kq
  <2>6. /\ n \in Records /\ n.relay = r.relay /\ n.unread = t /\ n.to_klipper = kq
        /\ n.fetched = r.fetched /\ n.asking = r.asking /\ n.complete = r.complete
    BY <1>6, <2>4, Zenon DEF Records
  <2> HIDE DEF n
  <2>7. kq = r.to_klipper \/ kq = Append(r.to_klipper, a)
    BY Zenon DEF kq
  <2>8. Fetch(n, D)
    BY <1>1, <1>2, <1>7, <2>3, <2>6, <2>7, FetchRelay, Zenon DEF f, t
  <2> QED  BY <1>2, <1>7, <2>5, <2>6, <2>8, Zenon DEF Goes, D
<1>8. CASE f.kind # "identify"
  <2>1. f \in Payloads
    BY <1>5, <1>8, KindMeans, Zenon
  <2>2. e \in Seq(Payloads)
    BY <1>4, <2>1, AppendOne, Zenon
  <2>3. to_exporter(m, f) = o
    BY <1>6, Zenon DEF to_exporter
  <2> HIDE DEF e
  <2>4. /\ o \in Records /\ o.relay = r.relay /\ o.unread = t /\ o.to_klipper = r.to_klipper
        /\ o.fetched = r.fetched /\ o.asking = r.asking /\ o.complete = r.complete
    BY <1>6, <2>2, Zenon DEF Records
  <2> HIDE DEF o
  <2>5. Fetch(o, D)
    BY <1>1, <1>2, <2>4, FetchRelay, Zenon DEF t
  <2> QED  BY <1>2, <1>8, <2>3, <2>4, <2>5, Zenon DEF Goes, D
<1> QED  BY <1>7, <1>8, Zenon

\* A payload of the MCU is queued behind the answers.
LEMMA RelayMcuGoes ==
    ASSUME TypeOK, FetchInv, NEW ch \in Sockets, NEW c \in Conns, relay_mcu(ch, c)
    PROVE  \E n : Goes(ch, c, n)
<1> DEFINE r == conns[ch][c]
           D == dictionary[ch]
           f == Head(r.from_mcu)
           t == Tail(r.from_mcu)
           m == [r EXCEPT !.from_mcu = t]
           kq == IF r.writer = "run" THEN Append(r.to_klipper, f) ELSE r.to_klipper
           n == [m EXCEPT !.to_klipper = kq]
<1>1. r \in Records /\ Fetch(r, D)
  BY TheRecord, Zenon
<1>2. Conn(ch, c, to_klipper(m, f)) /\ r.relay = "run" /\ r.from_mcu # <<>>
  BY Zenon DEF relay_mcu
<1>3. r.from_mcu \in Seq(Payloads) /\ r.to_klipper \in Seq(Payloads \cup Answers)
  BY <1>1, Zenon DEF Records
<1> HIDE DEF r, D
<1>4. f \in Payloads /\ t \in Seq(Payloads)
  BY <1>2, <1>3, TakeFirst, Zenon
<1> HIDE DEF f, t
<1>5. /\ m \in Records /\ m.to_klipper = r.to_klipper /\ m.writer = r.writer
      /\ Fetching(m) = Fetching(r) /\ m.relay = r.relay
  BY <1>1, <1>4, Zenon DEF Records, Fetching
<1> HIDE DEF m
<1>6. kq \in Seq(Payloads \cup Answers)
  <2>1. f \in Payloads \cup Answers
    BY <1>4, Zenon
  <2> QED  BY <1>3, <2>1, AppendOne, Zenon
<1>7. to_klipper(m, f) = n
  BY <1>5, Zenon DEF to_klipper
<1>8. kq = r.to_klipper \/ kq = Append(r.to_klipper, f)
  BY Zenon
<1> HIDE DEF kq
<1>9. /\ n \in Records /\ n.relay = m.relay /\ n.unread = m.unread /\ n.to_klipper = kq
      /\ n.fetched = m.fetched /\ n.asking = m.asking /\ n.complete = m.complete
  BY <1>5, <1>6, Zenon DEF Records
<1> HIDE DEF n
<1>10. Fetch(m, D)
  BY <1>1, <1>5, FetchSame, Zenon
<1>11. Fetch(n, D)
  <2>1. CASE kq = r.to_klipper
    <3>1. Fetching(n) = Fetching(m)
      BY <1>5, <1>9, <2>1, Zenon DEF Fetching
    <3> QED  BY <1>5, <1>9, <1>10, <3>1, FetchSame, Zenon
  <2>2. CASE kq = Append(r.to_klipper, f)
    BY <1>2, <1>4, <1>5, <1>9, <1>10, <2>2, FetchKlipper, Zenon
  <2> QED  BY <1>8, <2>1, <2>2, Zenon
<1> QED  BY <1>2, <1>7, <1>9, <1>11, Zenon DEF Goes, D

\* The relay of a connection ends.
LEMMA RelayEndGoes ==
    ASSUME TypeOK, FetchInv, NEW ch \in Sockets, NEW c \in Conns, relay_end(ch, c)
    PROVE  \E n : Goes(ch, c, n)
<1> DEFINE r == conns[ch][c]
           q == r.to_exporter
           fw == IF r.fwd = "run" THEN "aborted" ELSE "done"
           n == [Ended EXCEPT !.to_exporter = q, !.fwd = fw]
<1>1. r \in Records
  BY TheRecord, Zenon
<1>2. Ended.fwd = "done"
  BY Zenon DEF Ended, NoConn
<1>3. Conn(ch, c, n)
  BY <1>2, Zenon DEF relay_end
<1>4. q \in Seq(Payloads) /\ fw \in {"aborted", "done"}
  BY <1>1, Zenon DEF Records
<1> HIDE DEF q, fw
<1>5. n \in Records /\ n.relay = "done"
  BY <1>4, OverTypes, Zenon DEF Records
<1> HIDE DEF n
<1>6. Fetch(n, dictionary[ch])
  BY <1>5, Zenon DEF Fetch
<1> QED  BY <1>3, <1>5, <1>6, Zenon DEF Goes

\* Klipper reads an answer: the chunk it asked for, which it appends.
LEMMA WriteGoes ==
    ASSUME TypeOK, FetchInv, NEW ch \in Sockets, NEW c \in Conns, write_task(ch, c)
    PROVE  \E n : Goes(ch, c, n)
<1> DEFINE r == conns[ch][c]
           D == dictionary[ch]
           f == Head(r.to_klipper)
           t == Tail(r.to_klipper)
           m == [r EXCEPT !.to_klipper = t]
           x == r.fetched \o f.data
           last == f.data = <<>>
           g == Append(r.got, f)
           a == [m EXCEPT !.asking = FALSE, !.fetched = x, !.complete = last]
           gets == [m EXCEPT !.got = g]
           e == [r EXCEPT !.writer = "done", !.to_klipper = <<>>]
<1>1. r \in Records /\ Fetch(r, D)
  BY TheRecord, Zenon
<1>2. /\ r.relay # "none" /\ r.to_klipper # <<>>
      /\ Conn(ch, c, IF r.peer = "open" THEN delivered(m, f) ELSE e)
  BY <1>1, Zenon DEF write_task, Fetch
<1>3. /\ r.to_klipper \in Seq(Payloads \cup Answers) /\ r.fetched \in Seq(Bytes)
      /\ r.got \in Seq(Payloads)
  BY <1>1, Zenon DEF Records
<1> HIDE DEF r, D
<1>4. f \in Payloads \cup Answers /\ t \in Seq(Payloads \cup Answers)
  BY <1>2, <1>3, TakeFirst, Zenon
<1> HIDE DEF f, t
<1>5. /\ m \in Records /\ m.relay = r.relay /\ m.unread = r.unread /\ m.to_klipper = t
      /\ m.fetched = r.fetched /\ m.asking = r.asking /\ m.complete = r.complete /\ m.got = r.got
  BY <1>1, <1>4, Zenon DEF Records
<1> HIDE DEF m
<1>6. CASE r.peer = "open" /\ f.kind = "identify_response"
  <2>1. f.data \in Seq(Bytes)
    BY <1>4, <1>6, KindMeans, Zenon DEF Answers
  <2>2. x \in Seq(Bytes) /\ last \in BOOLEAN
    BY <1>3, <2>1
  <2>3. delivered(m, f) = a
    BY <1>5, <1>6, Zenon DEF delivered
  <2>4. last = (f.data = <<>>) /\ x = r.fetched \o f.data
    BY Zenon
  <2> HIDE DEF x, last
  <2>5. /\ a \in Records /\ a.relay = r.relay /\ a.unread = r.unread /\ a.to_klipper = t
        /\ a.fetched = x /\ a.asking = FALSE /\ a.complete = last
    BY <1>5, <2>2, Zenon DEF Records
  <2> HIDE DEF a
  <2>6. Fetch(a, D)
    BY <1>1, <1>2, <1>6, <2>4, <2>5, FetchDelivered, Zenon DEF f, t
  <2> QED  BY <1>2, <1>6, <2>3, <2>5, <2>6, Zenon DEF Goes, D
<1>7. CASE r.peer = "open" /\ f.kind # "identify_response"
  <2>1. f \in Payloads
    BY <1>4, <1>7, KindMeans, Zenon
  <2>2. g \in Seq(Payloads)
    BY <1>3, <2>1, AppendOne, Zenon
  <2>3. delivered(m, f) = gets
    BY <1>5, <1>7, Zenon DEF delivered
  <2> HIDE DEF g
  <2>4. /\ gets \in Records /\ gets.relay = r.relay /\ gets.unread = r.unread /\ gets.to_klipper = t
        /\ gets.fetched = r.fetched /\ gets.asking = r.asking /\ gets.complete = r.complete
    BY <1>5, <2>2, Zenon DEF Records
  <2> HIDE DEF gets
  <2>5. Fetch(gets, D)
    BY <1>1, <1>2, <1>7, <2>4, FetchDelivered, Zenon DEF f, t
  <2> QED  BY <1>2, <1>7, <2>3, <2>4, <2>5, Zenon DEF Goes, D
<1>8. CASE r.peer # "open"
  <2>1. <<>> \in Seq(Payloads \cup Answers)
    BY EmptyQueue, Zenon
  <2>2. /\ e \in Records /\ e.relay = r.relay /\ e.unread = r.unread /\ e.to_klipper = <<>>
        /\ e.fetched = r.fetched /\ e.asking = r.asking /\ e.complete = r.complete
    BY <1>1, <2>1, Zenon DEF Records
  <2> HIDE DEF e
  <2>3. Fetch(e, D)
    BY <1>1, <1>2, <2>2, FetchKlipper, Zenon
  <2> QED  BY <1>2, <1>8, <2>2, <2>3, Zenon DEF Goes, D
<1> QED  BY <1>6, <1>7, <1>8, Zenon

\* The commands of a connection go to the exporter.
LEMMA ForwardGoes ==
    ASSUME TypeOK, FetchInv, NEW ch \in Sockets, NEW c \in Conns,
           cmd_fwd_task(ch, c) \/ cmd_fwd_abort(ch, c)
    PROVE  \E n : Goes(ch, c, n)
<1> DEFINE r == conns[ch][c]
           q == IF usb_writer["host"] THEN Tail(r.to_exporter) ELSE <<>>
           fw == IF usb_writer["host"] THEN r.fwd ELSE "done"
           m == [r EXCEPT !.to_exporter = q, !.fwd = fw]
           n == [r EXCEPT !.fwd = "done", !.to_exporter = <<>>]
<1>1. r \in Records /\ Fetch(r, dictionary[ch])
  BY TheRecord, Zenon
<1>2. Conn(ch, c, n) \/ (Conn(ch, c, m) /\ r.to_exporter # <<>>)
  BY Zenon DEF cmd_fwd_task, cmd_fwd_abort
<1>3. r.to_exporter \in Seq(Payloads) /\ r.fwd \in {"none", "run", "aborted", "done"}
  BY <1>1, Zenon DEF Records
<1> HIDE DEF r
<1>4. <<>> \in Seq(Payloads)
  BY EmptyQueue, Zenon
<1>5. /\ r.to_exporter # <<>> => q \in Seq(Payloads)
      /\ fw \in {"none", "run", "aborted", "done"}
  BY <1>3, <1>4, TakeFirst, Zenon
<1> HIDE DEF q, fw
<1>6. Fetching(m) = Fetching(r) /\ (r.to_exporter # <<>> => m \in Records)
  BY <1>1, <1>5, Zenon DEF Records, Fetching
<1>7. Fetching(n) = Fetching(r) /\ n \in Records
  BY <1>1, <1>4, Zenon DEF Records, Fetching
<1> HIDE DEF m, n
<1>8. Fetch(n, dictionary[ch]) /\ (r.to_exporter # <<>> => Fetch(m, dictionary[ch]))
  BY <1>1, <1>6, <1>7, FetchSame, Zenon
<1> QED  BY <1>2, <1>6, <1>7, <1>8, Zenon DEF Goes

-----------------------------------------------------------------------------
\* A send to the USB writer.
LEMMA SendType ==
    ASSUME QueueType, NEW side \in Sides, NEW f \in Tunnelled, send_usb(side, f)
    PROVE  usb_q' \in [Sides -> Seq(Tunnelled)]
<1>1. usb_q \in [Sides -> Seq(Tunnelled)]
  BY Zenon DEF QueueType
<1>2. Append(usb_q[side], f) \in Seq(Tunnelled)
  BY <1>1, AppendOne, Zenon
<1>3. usb_q' = usb_q \/ usb_q' = [usb_q EXCEPT ![side] = Append(usb_q[side], f)]
  BY Zenon DEF send_usb
<1> HIDE DEF Tunnelled
<1> QED  BY <1>1, <1>2, <1>3, Zenon

\* A step of a connection.
ConnAction(ch, c) ==
    \/ Client(ch, c) \/ accept(ch, c) \/ Relay(ch, c)
    \/ write_task(ch, c) \/ cmd_fwd_task(ch, c) \/ cmd_fwd_abort(ch, c)

\* What it leaves alone.
LEMMA ConnFrame ==
    ASSUME NEW ch, NEW c, ConnAction(ch, c)
    PROVE  /\ UNCHANGED <<process, usb_writer, wire, aligned, exporterVars, dictVars, faults,
                          mcu_sent, arrived, mcu_got, torn, garbled, junk>>
           /\ ~cmd_fwd_task(ch, c) => UNCHANGED <<usb_q, lost>>
           /\ ~accept(ch, c) /\ ~relay_end(ch, c) => UNCHANGED <<serving, slot>>
<1>1. ASSUME Connects(ch, c) \/ Sends(ch, c) \/ Disconnects(ch, c)
      PROVE  UNCHANGED <<process, usbVars, exporterVars, dictVars, serving, slot, faults, history>>
  BY <1>1, Zenon DEF Connects, Sends, Disconnects
<1>2. ASSUME relay_client(ch, c) \/ relay_mcu(ch, c) \/ write_task(ch, c) \/ cmd_fwd_abort(ch, c)
      PROVE  UNCHANGED <<process, usbVars, exporterVars, dictVars, serving, slot, faults, history>>
  BY <1>2, Zenon DEF relay_client, relay_mcu, write_task, cmd_fwd_abort
<1>3. ASSUME accept(ch, c) \/ relay_end(ch, c)
      PROVE  UNCHANGED <<process, usbVars, exporterVars, dictVars, faults, history>>
  BY <1>3, Zenon DEF accept, relay_end
<1>4. ASSUME cmd_fwd_task(ch, c)
      PROVE  UNCHANGED <<process, usb_writer, wire, aligned, exporterVars, dictVars, serving, slot,
                         faults, mcu_sent, arrived, mcu_got, torn, garbled, junk>>
  BY <1>4, Zenon DEF cmd_fwd_task
<1>5. UNCHANGED <<usbVars, history>> =>
         UNCHANGED <<usb_q, usb_writer, wire, aligned, mcu_sent, arrived, lost, mcu_got, torn, garbled, junk>>
  BY Zenon DEF usbVars, history
<1> QED  BY <1>1, <1>2, <1>3, <1>4, <1>5, Zenon DEF ConnAction, Client, Relay

\* The steps of one connection.
LEMMA ConnKeeps ==
    ASSUME TypeOK, FetchInv, NEW ch \in Sockets, NEW c \in Conns, ConnAction(ch, c)
    PROVE  TypeOK' /\ FetchInv'
<1>1. PICK n : Goes(ch, c, n)
  BY Zenon, ConnectsGoes, SendsGoes, DisconnectsGoes, AcceptGoes, RelayClientGoes, RelayMcuGoes,
     RelayEndGoes, WriteGoes, ForwardGoes DEF ConnAction, Client, Relay
<1>2. /\ UNCHANGED <<process, usb_writer, wire, aligned, exporterVars, dictVars, faults,
                     mcu_sent, arrived, mcu_got, torn, garbled, junk>>
      /\ ~cmd_fwd_task(ch, c) => UNCHANGED <<usb_q, lost>>
      /\ ~accept(ch, c) /\ ~relay_end(ch, c) => UNCHANGED <<serving, slot>>
  BY ConnFrame, Zenon
<1>3. TaskType' /\ HistoryType' /\ DictType'
  BY <1>2, Zenon DEF exporterVars, dictVars, TypeOK, TaskType, HistoryType, DictType
<1>4. conns' \in [Sockets -> [Conns -> Records]] /\ FetchInv'
  BY <1>1, <1>2, OneConn, Zenon DEF TypeOK, dictVars
<1>5. serving' \in [Sockets -> Conns \cup {0}] /\ slot' \in [Sockets -> Conns \cup {0}]
  <2>1. serving \in [Sockets -> Conns \cup {0}] /\ slot \in [Sockets -> Conns \cup {0}]
    BY Zenon DEF TypeOK, ConnType
  <2>2. \/ UNCHANGED <<serving, slot>>
        \/ \E oc \in {0, c} : serving' = [serving EXCEPT ![ch] = oc] /\ slot' = [slot EXCEPT ![ch] = oc]
    BY <1>2, Zenon DEF accept, relay_end
  <2> QED  BY <2>1, <2>2
<1>6. usb_q' \in [Sides -> Seq(Tunnelled)]
  <2>1. CASE cmd_fwd_task(ch, c)
    <3> DEFINE q == conns[ch][c].to_exporter
    <3>1. q \in Seq(Payloads) /\ q # <<>> /\ send_usb("host", Head(q))
      BY <2>1, TheRecord, Zenon DEF cmd_fwd_task, Records
    <3> HIDE DEF q
    <3>2. Head(q) \in Tunnelled
      BY <3>1, TakeFirst, Zenon DEF Tunnelled
    <3> QED  BY <3>1, <3>2, SendType, Indices, Zenon DEF TypeOK
  <2> QED  BY <1>2, <2>1, Zenon DEF TypeOK, QueueType
<1>7. QueueType'
  BY <1>2, <1>6, Zenon DEF exporterVars, dictVars, TypeOK, QueueType
<1> QED  BY <1>3, <1>4, <1>5, <1>7, Zenon DEF TypeOK, ConnType

\* A step that leaves the connections and the dictionaries in use alone.
LEMMA FetchStays ==
    ASSUME FetchInv, UNCHANGED <<conns, dictionary>>
    PROVE  FetchInv'
BY Zenon DEF FetchInv

\* The USB writers.
LEMMA WritersKeep ==
    ASSUME TypeOK, NEW side \in Sides, usb_write(side) \/ usb_write_error(side)
    PROVE  TypeOK'
<1> DEFINE q == usb_q[side]
           t == Tail(q)
           w == Append(wire[side], Head(q))
<1>1. q \in Seq(Tunnelled) /\ wire[side] \in Seq(Tunnelled) /\ usb_q \in [Sides -> Seq(Tunnelled)]
      /\ wire \in [Sides -> Seq(Tunnelled)]
  BY Zenon DEF TypeOK, QueueType
<1>2. q # <<>> /\ UNCHANGED <<process, exporterVars, dictVars, connVars, mcu_sent, arrived, mcu_got, torn>>
  BY Zenon DEF usb_write, usb_write_error, history
<1>3. \/ /\ usb_q' = [usb_q EXCEPT ![side] = t] /\ wire' = [wire EXCEPT ![side] = w]
         /\ UNCHANGED <<usb_writer, aligned, garbled>>
      \/ /\ usb_q' = [usb_q EXCEPT ![side] = <<>>] /\ wire' = wire
         /\ usb_writer' = [usb_writer EXCEPT ![side] = FALSE] /\ Misaligns(Peer(side), TRUE)
  BY Zenon DEF usb_write, usb_write_error, history
<1> HIDE DEF q
<1>4. Head(q) \in Tunnelled /\ t \in Seq(Tunnelled) /\ <<>> \in Seq(Tunnelled)
  BY <1>1, <1>2, TakeFirst, EmptyQueue, Zenon
<1>5. w \in Seq(Tunnelled)
  BY <1>1, <1>4, AppendOne, Zenon
<1> HIDE DEF t, w
<1>6. usb_q' \in [Sides -> Seq(Tunnelled)] /\ wire' \in [Sides -> Seq(Tunnelled)]
  BY <1>1, <1>3, <1>4, <1>5, Zenon
<1>7. usb_writer' \in [Sides -> BOOLEAN] /\ aligned' \in [Sides -> BOOLEAN] /\ garbled' \in BOOLEAN
  BY <1>3, Zenon DEF Misaligns, TypeOK, TaskType, HistoryType
<1> QED  BY <1>2, <1>6, <1>7, Zenon
         DEF exporterVars, dictVars, connVars, TypeOK, TaskType, QueueType, DictType, ConnType, HistoryType

-----------------------------------------------------------------------------
(***************************************************************************)
(* The chunks of a dictionary.                                             *)
(***************************************************************************)
LEMMA Quotient ==
    ASSUME NEW num \in Nat, NEW den \in Nat \ {0}
    PROVE  num \div den \in Nat /\ (num \div den) * den <= num /\ num < (num \div den) * den + den
<1> DEFINE quot == num \div den
<1>1. quot \in Int /\ num % den \in 0..(den - 1) /\ num = den * quot + (num % den)
  OBVIOUS
<1>2. quot >= 0
  <2>1. ASSUME quot < 0 PROVE FALSE
    <3>1. den * quot <= -den
      BY <1>1, <2>1
    <3> QED  BY <1>1, <3>1
  <2> QED  BY <1>1, <2>1
<1>3. den * quot = quot * den
  BY <1>1
<1> HIDE DEF quot
<1> QED  BY <1>1, <1>2, <1>3 DEF quot

\* How many chunks a dictionary has, and where chunk k begins and ends.
NumChunks == (DictLen + DICT_FRAG_MAX - 1) \div DICT_FRAG_MAX
From(k) == (k - 1) * DICT_FRAG_MAX + 1
To(k) == IF k * DICT_FRAG_MAX <= DictLen THEN k * DICT_FRAG_MAX ELSE DictLen

\* They follow one another from the first byte to the last, and none is empty.
LEMMA ChunkBounds ==
    /\ NumChunks \in Nat
    /\ \A k \in 1..NumChunks : /\ From(k) \in 1..DictLen /\ To(k) \in From(k)..DictLen
                               /\ k = 1 => From(k) = 1
                               /\ k > 1 => From(k) = To(k - 1) + 1
                               /\ k = NumChunks => To(k) = DictLen
    /\ NumChunks = 0 => DictLen = 0
<1> DEFINE M == DICT_FRAG_MAX
           N == NumChunks
<1>1. DictLen \in Nat /\ M \in Nat \ {0} /\ DictLen + M - 1 \in Nat
  BY DictAssumption
<1>2. N \in Nat /\ N * M <= DictLen + M - 1 /\ DictLen + M - 1 < N * M + M
  BY <1>1, Quotient, Zenon DEF NumChunks
<1>3. ASSUME NEW k \in 1..N PROVE k * M \in Nat /\ k * M <= N * M /\ (k - 1) * M = k * M - M /\ (k - 1) * M >= 0
  <2>1. k \in Nat /\ k >= 1 /\ k <= N /\ N \in Nat
    BY <1>2
  <2> HIDE DEF N, M
  <2> QED  BY <1>1, <2>1
<1> HIDE DEF N, M
<1>4. ASSUME NEW k \in 1..N
      PROVE  /\ From(k) \in 1..DictLen /\ To(k) \in From(k)..DictLen
             /\ k = 1 => From(k) = 1
             /\ k > 1 => From(k) = To(k - 1) + 1
             /\ k = N => To(k) = DictLen
  <2>1. From(k) = k * M - M + 1 /\ To(k) = (IF k * M <= DictLen THEN k * M ELSE DictLen)
    BY <1>3, Zenon DEF From, To, M
  <2>2. k = 1 => k * M = M
    BY <1>1
  <2>3. k > 1 => To(k - 1) = (IF k * M - M <= DictLen THEN k * M - M ELSE DictLen)
    BY <1>3, Zenon DEF To, M
  <2>4. k = N => k * M = N * M
    BY Zenon
  <2> DEFINE kM == k * M
             NM == N * M
  <2>5. kM \in Nat /\ kM <= NM /\ kM - M >= 0 /\ NM <= DictLen + M - 1 /\ DictLen + M - 1 < NM + M /\ NM \in Nat
    BY <1>1, <1>2, <1>3
  <2> HIDE DEF kM, NM
  <2>6. From(k) = kM - M + 1 /\ From(k) \in 1..DictLen
    BY <1>1, <2>1, <2>5 DEF kM
  <2>7. To(k) = (IF kM <= DictLen THEN kM ELSE DictLen) /\ To(k) \in From(k)..DictLen
    BY <1>1, <2>1, <2>5, <2>6 DEF kM
  <2>8. k = 1 => From(k) = 1
    BY <1>1, <2>2, <2>6 DEF kM
  <2>9. k > 1 => From(k) = To(k - 1) + 1
    BY <1>1, <2>3, <2>5, <2>6 DEF kM
  <2>10. k = N => To(k) = DictLen
    BY <1>1, <2>4, <2>5, <2>7 DEF kM, NM
  <2> QED  BY <2>6, <2>7, <2>8, <2>9, <2>10, Zenon
<1>5. N = 0 => N * M = 0
  BY <1>1
<1>6. N = 0 => DictLen = 0
  BY <1>1, <1>2, <1>5
<1> QED  BY <1>2, <1>4, <1>6, Zenon DEF N

\* Where counting begins.
LEMMA Counts ==
    /\ \A p \in 0..NumChunks : p \in Nat
    /\ 0 \in 0..NumUarts /\ 1 \in Nat \ {0}
    /\ \A k \in 1..(NumChunks + 1) : (k <= NumChunks) = ~(k > NumChunks)
<1>1. \A p \in 0..NumChunks : p \in Nat
  BY ChunkBounds
<1>2. 0 \in 0..NumUarts /\ 1 \in Nat \ {0}
  BY ProxyAssumption
<1>3. \A k \in 1..(NumChunks + 1) : (k <= NumChunks) = ~(k > NumChunks)
  BY ChunkBounds
<1> QED  BY <1>1, <1>2, <1>3, Zenon

\* The bytes of a dictionary.
LEMMA DictionaryBytes ==
    ASSUME NEW ch \in Uarts, NEW v \in Nat
    PROVE  /\ Dictionary(ch, v) \in Seq(Bytes) /\ Len(Dictionary(ch, v)) = DictLen
           /\ \A i \in 1..DictLen : Dictionary(ch, v)[i] = <<ch, v, i>>
<1>1. DictLen \in Nat
  BY DictAssumption, Zenon
<1>2. \A i \in 1..DictLen : <<ch, v, i>> \in Bytes
  BY <1>1 DEF Bytes
<1> QED  BY <1>1, <1>2 DEF Dictionary

\* The frames that send_dictionary queues.
Frag(ch, v, k) == DICT_FRAG(ch, SubSeq(Dictionary(ch, v), From(k), To(k)))

\* send_dictionary: the fragments in order, then the end of the dictionary.
LEMMA DictionaryFrames ==
    ASSUME NEW ch \in Uarts, NEW v \in Nat
    PROVE  LET s == send_dictionary(ch, Dictionary(ch, v))
           IN  /\ s \in Seq(Controls) /\ Len(s) = NumChunks + 1
               /\ \A k \in 1..NumChunks : s[k] = Frag(ch, v, k)
               /\ s[NumChunks + 1] = DICT_DONE(ch)
<1> DEFINE D == Dictionary(ch, v)
           N == NumChunks
           frags == [k \in 1..N |-> Frag(ch, v, k)]
           e == DICT_DONE(ch)
<1>1. D \in Seq(Bytes) /\ Len(D) = DictLen /\ N \in Nat /\ e \in Controls
  BY DictionaryBytes, ChunkBounds, FrameTypes, Zenon
<1> HIDE DEF D
<1>2. chunks(D) = [k \in 1..N |-> SubSeq(D, From(k), To(k))]
  <2>1. ASSUME NEW k \in 1..N PROVE min(k * DICT_FRAG_MAX, DictLen) = To(k)
    <3>1. k * DICT_FRAG_MAX \in Nat /\ DictLen \in Nat
      BY <1>1, DictAssumption
    <3> QED  BY <3>1, Zenon DEF min, To
  <2> QED  BY <1>1, <2>1, Zenon DEF chunks, NumChunks, From
<1>3. ASSUME NEW k \in 1..N PROVE Frag(ch, v, k) \in Controls
  <2>1. From(k) \in 1..DictLen /\ To(k) \in From(k)..DictLen
    BY ChunkBounds, Zenon
  <2>2. SubSeq(D, From(k), To(k)) \in Seq(Bytes)
    BY <1>1, <2>1
  <2> QED  BY <2>2, FrameTypes, Zenon DEF Frag, D
<1>4. Len(chunks(D)) = N /\ \A k \in 1..N : chunks(D)[k] = SubSeq(D, From(k), To(k))
  <2> DEFINE X(k) == SubSeq(D, From(k), To(k))
             cs == [k \in 1..N |-> X(k)]
  <2> HIDE DEF X, N
  <2>1. Len(cs) = N /\ \A k \in 1..N : cs[k] = X(k)
    BY <1>1
  <2> QED  BY <1>2, <2>1, Zenon DEF X, N
<1>5. [k \in 1..Len(chunks(D)) |-> DICT_FRAG(ch, chunks(D)[k])] = frags
  BY <1>4, Zenon DEF Frag, D
<1>6. frags \in Seq(Controls) /\ Len(frags) = N /\ \A k \in 1..N : frags[k] = Frag(ch, v, k)
  BY <1>1, <1>3
<1>7. send_dictionary(ch, D) = frags \o <<e>>
  BY <1>5, Zenon DEF send_dictionary
<1> HIDE DEF frags, e
<1>8. /\ frags \o <<e>> \in Seq(Controls) /\ Len(frags \o <<e>>) = N + 1
      /\ \A k \in 1..N : (frags \o <<e>>)[k] = frags[k]
      /\ (frags \o <<e>>)[N + 1] = e
  BY <1>1, <1>6, LastControl, Zenon
<1> QED  BY <1>6, <1>7, <1>8, Zenon DEF D, e

-----------------------------------------------------------------------------
\* The actions of the exporter keep the types.
LEMMA SetupKeeps ==
    ASSUME TypeOK, setup_channel
    PROVE  TypeOK' /\ UNCHANGED <<conns, dictionary>>
<1> DEFINE q == usb_q["exporter"]
           s == send_dictionary(booted, Dictionary(booted, firmware[booted]))
<1>1. booted \in Uarts /\ booted + 1 \in 0..NumUarts
  BY ProxyAssumption DEF setup_channel, TypeOK, TaskType, Uarts
<1>2. firmware[booted] \in Nat
  BY <1>1, Zenon DEF TypeOK, TaskType
<1>3. s \in Seq(Controls)
  BY <1>1, <1>2, DictionaryFrames, Zenon
<1>4. q \in Seq(Tunnelled) /\ usb_q \in [Sides -> Seq(Tunnelled)]
  BY Indices, Zenon DEF TypeOK, QueueType
<1>5. /\ usb_q' = [usb_q EXCEPT !["exporter"] = q \o s] /\ booted' = booted + 1
      /\ process' \in {[process EXCEPT !["exporter"] = x] : x \in {"run", "boot"}}
      /\ mcu_task' = [mcu_task EXCEPT ![booted] = TRUE]
      /\ cmd_task' = [cmd_task EXCEPT ![booted] = TRUE]
      /\ UNCHANGED <<usb_writer, wire, aligned, firmware, uart_cmd, dictVars, connVars, faults, history>>
  BY Zenon DEF setup_channel
<1> HIDE DEF q, s
<1>6. s \in Seq(Tunnelled)
  <2>1. Controls \subseteq Tunnelled
    BY Zenon DEF Tunnelled
  <2> HIDE DEF Tunnelled, Controls
  <2> QED  BY <1>3, <2>1
<1>7. q \o s \in Seq(Tunnelled)
  BY <1>4, <1>6
<1>8. usb_q' \in [Sides -> Seq(Tunnelled)]
  <2> DEFINE z == q \o s
  <2> HIDE DEF z
  <2> QED  BY <1>4, <1>5, <1>7, Zenon DEF z
<1>9. TaskType'
  BY <1>1, <1>5, Zenon DEF TypeOK, TaskType
<1> QED  BY <1>5, <1>8, <1>9, Zenon DEF TypeOK, QueueType, DictType, ConnType, HistoryType, dictVars, connVars, history

\* The tasks of an MCU touch no connection.
LEMMA McuKeeps ==
    ASSUME TypeOK, NEW ch \in Uarts, mcu_to_usb(ch) \/ usb_to_mcu(ch) \/ mcu_error(ch) \/ Flash(ch)
    PROVE  TypeOK' /\ UNCHANGED <<conns, dictionary>>
<1>1. CASE mcu_to_usb(ch)
  <2>1. mcu_sent[ch] + 1 \in Nat /\ ch \in ChIds
    BY Indices DEF TypeOK, HistoryType
  <2>2. Payload(ch, 0, mcu_sent[ch] + 1) \in Tunnelled
    BY <2>1, FrameTypes, Zenon DEF Tunnelled
  <2>3. usb_q' \in [Sides -> Seq(Tunnelled)]
    BY <1>1, <2>2, SendType, Indices, Zenon DEF mcu_to_usb, TypeOK
  <2>4. mcu_sent' \in [Uarts -> Nat] /\ mcu_task' \in [Uarts -> BOOLEAN]
    BY <1>1, <2>1, Indices, Zenon DEF mcu_to_usb, TypeOK, HistoryType, TaskType
  <2> QED  BY <1>1, <2>3, <2>4, Zenon
           DEF mcu_to_usb, TypeOK, TaskType, QueueType, DictType, ConnType, HistoryType, dictVars, connVars
<1>2. CASE usb_to_mcu(ch)
  <2> DEFINE q == uart_cmd[ch]
             t == Tail(q)
             a == Append(mcu_got[ch], Head(q))
  <2>1. q \in Seq(Payloads) /\ mcu_got[ch] \in Seq(Payloads) /\ q # <<>>
    BY <1>2, Zenon DEF usb_to_mcu, TypeOK, QueueType, HistoryType
  <2>2. uart_cmd' = [uart_cmd EXCEPT ![ch] = t] /\ mcu_got' = [mcu_got EXCEPT ![ch] = a]
    BY <1>2, Zenon DEF usb_to_mcu
  <2> HIDE DEF q
  <2>3. t \in Seq(Payloads) /\ Head(q) \in Payloads
    BY <2>1, TakeFirst, Zenon
  <2>4. a \in Seq(Payloads)
    BY <2>1, <2>3, AppendOne, Zenon
  <2> HIDE DEF t, a
  <2>5. uart_cmd' \in [Uarts -> Seq(Payloads)] /\ mcu_got' \in [Uarts -> Seq(Payloads)]
    BY <2>2, <2>3, <2>4, Zenon DEF TypeOK, QueueType, HistoryType
  <2> QED  BY <1>2, <2>5, Zenon
           DEF usb_to_mcu, TypeOK, TaskType, QueueType, DictType, ConnType, HistoryType, usbVars, dictVars, connVars
<1>3. CASE mcu_error(ch)
  <2>1. <<>> \in Seq(Payloads)
    BY EmptyQueue, Zenon
  <2>2. uart_cmd' \in [Uarts -> Seq(Payloads)]
    BY <1>3, <2>1, Zenon DEF mcu_error, TypeOK, QueueType
  <2>3. mcu_task' \in [Uarts -> BOOLEAN] /\ cmd_task' \in [Uarts -> BOOLEAN]
    BY <1>3, Zenon DEF mcu_error, TypeOK, TaskType
  <2> QED  BY <1>3, <2>2, <2>3, Zenon
           DEF mcu_error, TypeOK, TaskType, QueueType, DictType, ConnType, HistoryType, usbVars, dictVars, connVars
<1>4. CASE Flash(ch)
  <2>1. firmware' \in [Uarts -> Nat \ {0}]
    <3>1. firmware \in [Uarts -> Nat \ {0}] /\ firmware' = [firmware EXCEPT ![ch] = @ + 1]
      BY <1>4, Zenon DEF Flash, TypeOK, TaskType
    <3> QED  BY <3>1
  <2> QED  BY <1>4, <2>1, Zenon
           DEF Flash, TypeOK, TaskType, QueueType, DictType, ConnType, HistoryType, usbVars, dictVars, connVars, history
<1> QED  BY <1>1, <1>2, <1>3, <1>4, Zenon

\* The two readers of the link.
LEMMA ExporterReads ==
    ASSUME TypeOK, exporter_usb_read
    PROVE  TypeOK' /\ UNCHANGED <<conns, dictionary>>
<1> DEFINE w == wire["host"]
           t == Tail(w)
<1>1. w \in Seq(Tunnelled) /\ w # <<>> /\ wire' = [wire EXCEPT !["host"] = t]
      /\ wire \in [Sides -> Seq(Tunnelled)]
  BY Indices, Zenon DEF exporter_usb_read, TypeOK, QueueType
<1>2. PICK f \in decoded("exporter") :
         \/ /\ ~Control(f) /\ f.ch \in Uarts
            /\ uart_cmd' = [uart_cmd EXCEPT ![f.ch] = Append(@, f)]
         \/ UNCHANGED uart_cmd
  BY Zenon DEF exporter_usb_read
<1>3. f \in Tunnelled
  BY <1>1, DecodedType, Indices, Zenon
<1> HIDE DEF w
<1>4. t \in Seq(Tunnelled)
  BY <1>1, TakeFirst, Zenon
<1> HIDE DEF t
<1>5. wire' \in [Sides -> Seq(Tunnelled)]
  BY <1>1, <1>4, Zenon
<1>6. uart_cmd' \in [Uarts -> Seq(Payloads)]
  <2>1. uart_cmd \in [Uarts -> Seq(Payloads)]
    BY Zenon DEF TypeOK, QueueType
  <2>2. CASE ~Control(f) /\ f.ch \in Uarts /\ uart_cmd' = [uart_cmd EXCEPT ![f.ch] = Append(@, f)]
    <3> DEFINE a == Append(uart_cmd[f.ch], f)
    <3>1. a \in Seq(Payloads)
      BY <1>3, <2>1, <2>2, KindMeans, AppendOne, Zenon
    <3>2. uart_cmd' = [uart_cmd EXCEPT ![f.ch] = a]
      BY <2>2, Zenon
    <3> HIDE DEF a
    <3> QED  BY <2>1, <3>1, <3>2, Zenon
  <2> QED  BY <1>2, <2>1, <2>2, Zenon
<1> QED  BY <1>5, <1>6, Zenon
         DEF exporter_usb_read, TypeOK, TaskType, QueueType, DictType, ConnType, HistoryType, dictVars, connVars

\* A payload for the connection in the slot of its channel is no business of
\* the dictionary.
LEMMA RouteGoes ==
    ASSUME TypeOK, FetchInv, NEW f \in Payloads, route_to_client(f), f.ch \in Sockets, slot[f.ch] # 0
    PROVE  \E n : /\ Goes(f.ch, slot[f.ch], n) /\ slot[f.ch] \in Conns
                  /\ n = [conns[f.ch][slot[f.ch]] EXCEPT
                            !.from_mcu = Append(conns[f.ch][slot[f.ch]].from_mcu, f)]
<1> DEFINE ch == f.ch
           c == slot[f.ch]
           r == conns[ch][c]
           q == Append(r.from_mcu, f)
           n == [r EXCEPT !.from_mcu = q]
<1>1. ch \in Sockets /\ c \in Conns
  BY Zenon DEF TypeOK, ConnType
<1>2. r \in Records /\ Fetch(r, dictionary[ch])
  BY <1>1, TheRecord, Zenon
<1>3. Conn(ch, c, n)
  BY <1>1, Zenon DEF route_to_client, Conn
<1>4. r.from_mcu \in Seq(Payloads)
  BY <1>2, Zenon DEF Records
<1>5. q \in Seq(Payloads)
  BY <1>4, AppendOne, Zenon
<1> HIDE DEF ch, c, r, q
<1>6. n \in Records /\ Fetching(n) = Fetching(r)
  BY <1>2, <1>5, Zenon DEF Records, Fetching
<1> HIDE DEF n
<1>7. Fetch(n, dictionary[ch])
  BY <1>2, <1>6, FetchSame, Zenon
<1>8. Goes(ch, c, n)
  BY <1>3, <1>6, <1>7, Zenon DEF Goes
<1> QED  BY <1>1, <1>8, Zenon DEF ch, c, n, r, q

\* The host reads the link: payloads go to the connection in the slot.
LEMMA HostReads ==
    ASSUME TypeOK, FetchInv, host_usb_read
    PROVE  TypeOK' /\ FetchInv'
<1> DEFINE w == wire["exporter"]
           t == Tail(w)
<1>1. w \in Seq(Tunnelled) /\ w # <<>> /\ wire' = [wire EXCEPT !["exporter"] = t]
      /\ wire \in [Sides -> Seq(Tunnelled)]
  BY Indices, Zenon DEF host_usb_read, TypeOK, QueueType
<1>2. PICK f \in decoded("host") :
         \/ Control(f) /\ ctrl_q' = Append(ctrl_q, f) /\ UNCHANGED <<conns, arrived>>
         \/ /\ ~Control(f) /\ route_to_client(f) /\ UNCHANGED ctrl_q
            /\ arrived' = [ch \in Sockets |-> IF ch = f.ch THEN f.data[1] ELSE arrived[ch]]
  BY Zenon DEF host_usb_read
<1>3. f \in Tunnelled
  BY <1>1, DecodedType, Indices, Zenon
<1>4. (Control(f) => f \in Controls) /\ (~Control(f) => f \in Payloads)
  BY <1>3, KindMeans, Zenon
<1> HIDE DEF w
<1>5. t \in Seq(Tunnelled)
  BY <1>1, TakeFirst, Zenon
<1> HIDE DEF t
<1>6. wire' \in [Sides -> Seq(Tunnelled)]
  BY <1>1, <1>5, Zenon
<1>7. ctrl_q' \in Seq(Controls)
  <2>1. ctrl_q \in Seq(Controls)
    BY Zenon DEF TypeOK, QueueType
  <2>2. CASE Control(f) /\ ctrl_q' = Append(ctrl_q, f)
    BY <1>4, <2>1, <2>2, AppendOne, Zenon
  <2> QED  BY <1>2, <2>1, <2>2, Zenon
<1>8. arrived' \in [Sockets -> Nat]
  BY <1>2, <1>4, NumberMeans, Zenon DEF TypeOK, HistoryType
<1>9. conns' \in [Sockets -> [Conns -> Records]] /\ FetchInv'
  <2>1. dictionary' = dictionary
    BY Zenon DEF host_usb_read
  <2>2. CASE UNCHANGED conns
    BY <2>1, <2>2, FetchStays, Zenon DEF TypeOK, ConnType
  <2>3. CASE ~Control(f) /\ route_to_client(f) /\ f.ch \in Sockets /\ slot[f.ch] # 0
    <3>1. PICK n : Goes(f.ch, slot[f.ch], n) /\ slot[f.ch] \in Conns
      BY <1>4, <2>3, RouteGoes, Zenon
    <3> QED  BY <2>1, <2>3, <3>1, OneConn, Zenon DEF TypeOK
  <2>4. route_to_client(f) /\ ~(f.ch \in Sockets /\ slot[f.ch] # 0) => conns' = conns
    BY Zenon DEF route_to_client
  <2> QED  BY <1>2, <2>2, <2>3, <2>4, Zenon
<1> QED  BY <1>6, <1>7, <1>8, <1>9, Zenon
         DEF host_usb_read, TypeOK, TaskType, QueueType, DictType, ConnType, HistoryType, exporterVars

\* gather_dictionary and the accept task that takes its result.
LEMMA GatherKeeps ==
    ASSUME TypeOK, gather_dictionary
    PROVE  TypeOK' /\ UNCHANGED <<conns, dictionary>>
<1> DEFINE f == Head(ctrl_q)
           t == Tail(ctrl_q)
           old == dicts[f.ch]
           e == old \o f.data
<1>1. ctrl_q \in Seq(Controls) /\ ctrl_q # <<>> /\ ctrl_q' = t
  BY Zenon DEF gather_dictionary, TypeOK, QueueType
<1>2. f \in Controls /\ t \in Seq(Controls)
  BY <1>1, TakeFirst, Zenon
<1>3. \/ dicts' = [dicts EXCEPT ![f.ch] = e] /\ UNCHANGED published
      \/ /\ dicts' = [dicts EXCEPT ![f.ch] = <<>>]
         /\ published' = IF f.ch \in Sockets THEN [published EXCEPT ![f.ch] = old] ELSE published
  BY Zenon DEF gather_dictionary
<1> HIDE DEF f, t
<1>4. f.ch \in ChIds /\ f.data \in Seq(Bytes)
  BY <1>2, Indices, Zenon DEF Controls
<1>5. old \in Seq(Bytes) /\ <<>> \in Seq(Bytes)
  BY <1>4, EmptyQueue, Zenon DEF TypeOK, DictType
<1> HIDE DEF old
<1>6. e \in Seq(Bytes)
  BY <1>4, <1>5
<1> HIDE DEF e
<1>7. dicts' \in [ChIds -> Seq(Bytes)] /\ published' \in [Sockets -> Seq(Bytes) \cup {None}]
  BY <1>3, <1>5, <1>6, Zenon DEF TypeOK, DictType
<1> QED  BY <1>1, <1>2, <1>7, Zenon
         DEF gather_dictionary, TypeOK, TaskType, QueueType, DictType, ConnType, HistoryType,
             usbVars, exporterVars, connVars, history

\* A socket takes the first dictionary published for it.
LEMMA TakeKeeps ==
    ASSUME TypeOK, FetchInv, NEW ch \in Sockets, take_dictionary(ch)
    PROVE  TypeOK' /\ FetchInv'
<1>1. /\ dictionary[ch] = None /\ published[ch] \in Seq(Bytes)
      /\ dictionary' = [dictionary EXCEPT ![ch] = published[ch]]
      /\ conns' = conns
  BY Zenon DEF take_dictionary, TypeOK, DictType, connVars
<1>2. dictionary' \in [Sockets -> Seq(Bytes) \cup {None}]
  BY <1>1, Zenon DEF TypeOK, DictType
<1>3. ASSUME NEW h \in Sockets, NEW c \in Conns PROVE Fetch(conns[h][c], dictionary'[h])
  <2>1. Fetch(conns[h][c], dictionary[h])
    BY TheRecord, Zenon
  <2>2. CASE h = ch
    BY <1>1, <2>1, <2>2, Zenon DEF Fetch
  <2>3. CASE h # ch
    BY <1>1, <2>1, <2>3, Zenon DEF TypeOK, DictType
  <2> QED  BY <2>2, <2>3, Zenon
<1>4. FetchInv'
  BY <1>1, <1>3, Zenon DEF FetchInv
<1> QED  BY <1>2, <1>4, Zenon
         DEF take_dictionary, TypeOK, TaskType, QueueType, DictType, ConnType, HistoryType,
             usbVars, exporterVars, connVars, history

-----------------------------------------------------------------------------
\* Processes that end and start.
LEMMA FreshConns ==
    ASSUME NEW D
    PROVE  NoConn \in Records /\ Ended \in Records /\ Fetch(NoConn, D) /\ Fetch(Ended, D)
<1>1. NoConn \in Records
  BY EmptyQueue, Zenon DEF NoConn, Records
<1>2. Ended \in Records
  BY EmptyQueue, Zenon DEF NoConn, Ended, Records
<1>3. NoConn.relay = "none" /\ NoConn.to_klipper = <<>> /\ NoConn.fetched = <<>> /\ ~NoConn.complete
      /\ NoConn.unread = <<>>
  BY Zenon DEF NoConn
<1>4. Ended.relay = "done"
  BY Zenon DEF Ended, NoConn
<1>5. Asks(NoConn)
  BY <1>3 DEF Asks
<1> QED  BY <1>1, <1>2, <1>3, <1>4, <1>5, Zenon DEF Fetch

\* A process ends, and with the host the tasks of all its connections.
LEMMA ExitKeeps ==
    ASSUME TypeOK, FetchInv, NEW side \in Sides, Exit(side)
    PROVE  TypeOK' /\ FetchInv'
<1>1. <<>> \in Seq(Tunnelled) /\ <<>> \in Seq(Payloads) /\ <<>> \in Seq(Controls) /\ <<>> \in Seq(Bytes)
  BY EmptyQueue, Zenon
<1>2. /\ usb_q' = [usb_q EXCEPT ![side] = <<>>] /\ wire' = wire
      /\ process' = [process EXCEPT ![side] = "down"]
      /\ UNCHANGED <<usb_writer, firmware, mcu_sent, arrived, mcu_got>>
      /\ Misaligns(Peer(side), Running(side) /\ usb_q[side] # <<>>) /\ Tears
  BY Zenon DEF Exit
<1>3. aligned' \in [Sides -> BOOLEAN] /\ garbled' \in BOOLEAN /\ torn' \in [Uarts -> BOOLEAN]
  BY <1>2, Zenon DEF Misaligns, Tears, TypeOK, TaskType, HistoryType
<1>4. usb_q' \in [Sides -> Seq(Tunnelled)] /\ process' \in [Sides -> {"down", "boot", "run"}]
  BY <1>1, <1>2, Zenon DEF TypeOK, TaskType, QueueType
<1>5. CASE side = "exporter"
  <2>1. /\ mcu_task' = [ch \in Uarts |-> FALSE] /\ cmd_task' = [ch \in Uarts |-> FALSE]
        /\ uart_cmd' = [ch \in Uarts |-> <<>>] /\ booted' = 0
        /\ UNCHANGED <<dictVars, connVars>>
    BY <1>5, Zenon DEF Exit
  <2>2. booted' \in 0..NumUarts /\ uart_cmd' \in [Uarts -> Seq(Payloads)]
    BY <1>1, <2>1, ProxyAssumption
  <2>3. FetchInv'
    BY <2>1, FetchStays, Zenon DEF dictVars, connVars
  <2> QED  BY <1>2, <1>3, <1>4, <2>1, <2>2, <2>3, Zenon
           DEF TypeOK, TaskType, QueueType, DictType, ConnType, HistoryType, dictVars, connVars
<1>6. CASE side # "exporter"
  <2> DEFINE r(ch, c) == IF conns[ch][c].peer = "none" THEN NoConn ELSE Ended
  <2>1. /\ ctrl_q' = <<>> /\ dicts' = [ch \in ChIds |-> <<>>]
        /\ published' = [ch \in Sockets |-> None] /\ dictionary' = [ch \in Sockets |-> None]
        /\ serving' = [ch \in Sockets |-> 0] /\ slot' = [ch \in Sockets |-> 0]
        /\ conns' = [ch \in Sockets |-> [c \in Conns |-> r(ch, c)]]
        /\ UNCHANGED <<mcu_task, cmd_task, uart_cmd, booted>>
    BY <1>6, Zenon DEF Exit
  <2>2. ASSUME NEW ch \in Sockets, NEW c \in Conns
        PROVE  r(ch, c) \in Records /\ Fetch(r(ch, c), dictionary'[ch])
    BY FreshConns, Zenon
  <2> HIDE DEF r
  <2>3. conns' \in [Sockets -> [Conns -> Records]]
    BY <2>1, <2>2, Zenon
  <2>4. FetchInv'
    BY <2>1, <2>2, Zenon DEF FetchInv
  <2>5. ctrl_q' \in Seq(Controls) /\ DictType'
    BY <1>1, <2>1, Zenon DEF DictType
  <2>6. serving' \in [Sockets -> Conns \cup {0}] /\ slot' \in [Sockets -> Conns \cup {0}]
    BY <2>1, Zenon
  <2> QED  BY <1>2, <1>3, <1>4, <2>1, <2>3, <2>4, <2>5, <2>6, Zenon
           DEF TypeOK, TaskType, QueueType, ConnType, HistoryType
<1> QED  BY <1>5, <1>6, Zenon

\* A process is started again.
LEMMA StartKeeps ==
    ASSUME TypeOK, NEW side \in Sides, Start(side)
    PROVE  TypeOK' /\ UNCHANGED <<conns, dictionary>>
<1> DEFINE pr == Peer(side)
           w == wire[pr]
<1>1. pr \in Sides /\ w \in Seq(Tunnelled) /\ wire \in [Sides -> Seq(Tunnelled)]
  BY Indices, Zenon DEF TypeOK, QueueType
<1>2. PICK k \in 0..Len(w), cut \in BOOLEAN :
         /\ wire' = [wire EXCEPT ![pr] = SubSeq(w, k + 1, Len(w))]
         /\ aligned' = [aligned EXCEPT ![side] = ~cut]
         /\ garbled' = (garbled \/ cut)
  BY Zenon DEF Start
<1>3. /\ process' \in {[process EXCEPT ![side] = x] : x \in {"boot", "run"}}
      /\ usb_writer' = [usb_writer EXCEPT ![side] = TRUE] /\ Tears
      /\ UNCHANGED <<usb_q, exporterVars, dictVars, connVars, faults, mcu_sent, arrived, mcu_got, junk>>
  BY Zenon DEF Start
<1> HIDE DEF w, pr
<1> DEFINE x == SubSeq(w, k + 1, Len(w))
<1>4. x \in Seq(Tunnelled)
  <2> HIDE DEF Tunnelled
  <2> QED  BY <1>1, <1>2
<1>5. wire' = [wire EXCEPT ![pr] = x]
  BY <1>2, Zenon
<1> HIDE DEF x
<1>6. wire' \in [Sides -> Seq(Tunnelled)]
  BY <1>1, <1>4, <1>5, Zenon
<1>7. aligned' \in [Sides -> BOOLEAN] /\ garbled' \in BOOLEAN /\ torn' \in [Uarts -> BOOLEAN]
      /\ process' \in [Sides -> {"down", "boot", "run"}] /\ usb_writer' \in [Sides -> BOOLEAN]
  BY <1>2, <1>3, Zenon DEF Tears, TypeOK, TaskType, HistoryType
<1> QED  BY <1>3, <1>6, <1>7, Zenon
         DEF TypeOK, TaskType, QueueType, DictType, ConnType, HistoryType, exporterVars, dictVars, connVars

-----------------------------------------------------------------------------
\* Every step keeps the types and what is known of each fetch.
IInv == TypeOK /\ FetchInv

\* The initial states.
LEMMA InitIInv == Init => IInv
<1> SUFFICES ASSUME Init PROVE TypeOK /\ FetchInv
  BY Zenon DEF IInv
<1>1. \A S : <<>> \in Seq(S)
  BY EmptyQueue, Zenon
<1>2. process \in [Sides -> {"down", "boot", "run"}]
  <2>1. PICK h \in {"down", "run"} : process = [exporter |-> "down", host |-> h]
    BY Zenon DEF Init
  <2> QED  BY <2>1 DEF Sides
<1>3. TaskType
  BY <1>2, Counts, Zenon DEF Init, TaskType
<1>4. QueueType /\ DictType
  BY <1>1, Zenon DEF Init, QueueType, DictType
<1>5. ConnType
  BY FreshConns, Zenon DEF Init, ConnType
<1>6. HistoryType
  BY <1>1, Zenon DEF Init, HistoryType
<1>7. FetchInv
  BY FreshConns, Zenon DEF Init, FetchInv
<1> QED  BY <1>3, <1>4, <1>5, <1>6, <1>7, Zenon DEF TypeOK

\* Every step.
LEMMA NextIInv == IInv /\ [Next]_vars => IInv'
<1> SUFFICES ASSUME TypeOK, FetchInv, [Next]_vars PROVE TypeOK' /\ FetchInv'
  BY Zenon DEF IInv
<1>1. ASSUME NEW side \in Sides, usb_write(side) \/ usb_write_error(side) PROVE TypeOK' /\ FetchInv'
  <2>1. UNCHANGED <<conns, dictionary>>
    BY <1>1, Zenon DEF usb_write, usb_write_error, connVars, dictVars
  <2> QED  BY <1>1, <2>1, WritersKeep, FetchStays, Zenon
<1>2. ASSUME NEW side \in Sides, Exit(side) \/ Start(side) PROVE TypeOK' /\ FetchInv'
  BY <1>2, ExitKeeps, StartKeeps, FetchStays, Zenon
<1>3. ASSUME setup_channel \/ exporter_usb_read \/ host_usb_read \/ gather_dictionary
      PROVE  TypeOK' /\ FetchInv'
  BY <1>3, SetupKeeps, ExporterReads, HostReads, GatherKeeps, FetchStays, Zenon
<1>4. ASSUME NEW ch \in Uarts, mcu_to_usb(ch) \/ usb_to_mcu(ch) \/ mcu_error(ch) \/ Flash(ch)
      PROVE  TypeOK' /\ FetchInv'
  BY <1>4, McuKeeps, FetchStays, Zenon
<1>5. ASSUME NEW ch \in Sockets, take_dictionary(ch) PROVE TypeOK' /\ FetchInv'
  BY <1>5, TakeKeeps, Zenon
<1>6. ASSUME NEW ch \in Sockets, NEW c \in Conns, ConnAction(ch, c) PROVE TypeOK' /\ FetchInv'
  BY <1>6, ConnKeeps, Zenon
<1>7. CASE UNCHANGED vars
  BY <1>7, Zenon DEF vars, usbVars, exporterVars, dictVars, connVars, history, FetchInv,
              TypeOK, TaskType, QueueType, DictType, ConnType, HistoryType
<1> QED  BY <1>1, <1>2, <1>3, <1>4, <1>5, <1>6, <1>7, Zenon DEF Next, ConnAction

\* The chunks with which the host answers the identify requests of a client put
\* together the host's dictionary, byte for byte, however answers, payloads of
\* the MCU, restarts and other clients interleave (dispatch, write_task).
THEOREM KlipperHasTheDictionary == Spec => []FetchedWhole
<1>1. IInv => FetchedWhole
  BY Zenon DEF IInv, FetchInv, Fetch, FetchedWhole
<1> QED  BY <1>1, InitIInv, NextIInv, PTL DEF Spec

-----------------------------------------------------------------------------
(***************************************************************************)
(* The dictionary at the host.  The frames of a transfer are its pieces,   *)
(* numbered; what the host has gathered is the first p of them, and those  *)
(* on their way come in order, without a gap, from piece p + 1 on.         *)
(***************************************************************************)
Piece(ch, v, k) == IF k <= NumChunks THEN Frag(ch, v, k) ELSE DICT_DONE(ch)

Of(f, ch) == Control(f) /\ f.ch = ch

\* Pieces of one transfer are in the order of their numbers.
Order(ch, v) ==
    {x \in Tunnelled \X Tunnelled :
       \A i, j \in 1..(NumChunks + 1) : x[1] = Piece(ch, v, i) /\ x[2] = Piece(ch, v, j) => i < j}

Contiguous(ch, v, p, A) ==
    /\ \A f \in A : Of(f, ch) => \E k \in 1..(NumChunks + 1) : f = Piece(ch, v, k)
    /\ \A k \in 1..(NumChunks + 1) : Piece(ch, v, k) \in A => k > p /\ (k = p + 1 \/ Piece(ch, v, k - 1) \in A)

\* The bytes of the first p pieces.
FirstBytes(ch, v, p) == SubSeq(Dictionary(ch, v), 1, IF p = 0 THEN 0 ELSE To(p))

Transfer(ch, v, p, cq, w, q) ==
    /\ Contiguous(ch, v, p, Range(cq) \cup Range(w) \cup Range(q))
    /\ Pipeline(cq, w, q, Order(ch, v))

OnItsWay(ch) ==
    \E v \in 1..firmware[ch], p \in 0..NumChunks :
       /\ dicts[ch] = FirstBytes(ch, v, p)
       /\ Transfer(ch, v, p, ctrl_q, wire["exporter"], usb_q["exporter"])

\* Nothing of channel ch is gathered or on its way.
NoneOf(s, ch) == \A f \in Range(s) : ~Of(f, ch)
NotBegun(ch) ==
    /\ dicts[ch] = <<>>
    /\ NoneOf(ctrl_q, ch) /\ NoneOf(wire["exporter"], ch) /\ NoneOf(usb_q["exporter"], ch)

IsWhole(d, ch) == d # None => \E v \in 1..firmware[ch] : d = Dictionary(ch, v)

ChannelInv(ch) ==
    /\ OnItsWay(ch)
    /\ process["exporter"] = "boot" /\ booted <= ch => NotBegun(ch)
    /\ ch \in Sockets => IsWhole(published[ch], ch) /\ IsWhole(dictionary[ch], ch)

\* An exporter that is down sends nothing.
DownInv ==
    process["exporter"] = "down" =>
       booted = 0 /\ usb_q["exporter"] = <<>> /\ \A ch \in Uarts : ~mcu_task[ch]

DictInv ==
    /\ DownInv
    /\ ~garbled => /\ \A side \in Sides : aligned[side]
                   /\ \A ch \in Uarts : ~torn[ch] => ChannelInv(ch)

\* The number of a piece can be read from it.
LEMMA FromGrows ==
    ASSUME NEW i \in 1..NumChunks, NEW j \in 1..NumChunks, i < j
    PROVE  From(i) < From(j)
<1> DEFINE M == DICT_FRAG_MAX
<1>1. M \in Nat \ {0} /\ i \in Nat /\ j \in Nat /\ i < j
  BY ChunkBounds, DictAssumption
<1> HIDE DEF M
<1>2. (i - 1) * M < (j - 1) * M
  BY <1>1
<1> QED  BY <1>1, <1>2 DEF From, M

\* Chunks that begin at the same place are the same.
LEMMA FromDistinct ==
    ASSUME NEW i \in 1..NumChunks, NEW j \in 1..NumChunks, From(i) = From(j)
    PROVE  i = j
<1>1. From(i) \in 1..DictLen /\ From(j) \in 1..DictLen /\ DictLen \in Nat
  BY ChunkBounds, DictAssumption, Zenon
<1>2. ~(i < j) /\ ~(j < i)
  BY <1>1, FromGrows
<1> QED  BY <1>2, ChunkBounds

\* A fragment tells which channel, firmware and position it is from.
LEMMA FragFacts ==
    ASSUME NEW ch \in Uarts, NEW v \in Nat, NEW k \in 1..NumChunks
    PROVE  /\ Frag(ch, v, k) \in Controls /\ Of(Frag(ch, v, k), ch)
           /\ Frag(ch, v, k).kind = "CTRL_DICT_FRAG"
           /\ Frag(ch, v, k).data = SubSeq(Dictionary(ch, v), From(k), To(k))
           /\ Frag(ch, v, k).data[1] = <<ch, v, From(k)>>
           /\ Frag(ch, v, k).data # <<>>
<1> DEFINE D == Dictionary(ch, v)
           s == SubSeq(D, From(k), To(k))
<1>1. D \in Seq(Bytes) /\ Len(D) = DictLen /\ D[From(k)] = <<ch, v, From(k)>>
  BY DictionaryBytes, ChunkBounds, Zenon
<1>2. From(k) \in 1..DictLen /\ To(k) \in From(k)..DictLen /\ DictLen \in Nat
  BY ChunkBounds, DictAssumption, Zenon
<1> HIDE DEF D
<1> DEFINE lo == From(k)
           hi == To(k)
<1>3. lo \in 1..DictLen /\ hi \in lo..DictLen /\ DictLen \in Nat /\ Len(D) = DictLen
  BY <1>1, <1>2, Zenon
<1> HIDE DEF lo, hi
<1>4. SubSeq(D, lo, hi) \in Seq(Bytes) /\ Len(SubSeq(D, lo, hi)) = hi - lo + 1 /\ SubSeq(D, lo, hi)[1] = D[lo]
  BY <1>1, <1>3
<1>a. SubSeq(D, lo, hi) # <<>>
  BY <1>3, <1>4
<1>5. s \in Seq(Bytes) /\ s # <<>> /\ s[1] = <<ch, v, From(k)>>
  BY <1>1, <1>4, <1>a, Zenon DEF lo, hi
<1>6. Frag(ch, v, k) = DICT_FRAG(ch, s)
  BY Zenon DEF Frag, D
<1> HIDE DEF s
<1>7. DICT_FRAG(ch, s) \in Controls /\ DICT_FRAG(ch, s).kind = "CTRL_DICT_FRAG"
      /\ DICT_FRAG(ch, s).data = s /\ DICT_FRAG(ch, s).ch = ch
  BY <1>5, FrameTypes, Zenon DEF DICT_FRAG, Frame
<1> QED  BY <1>5, <1>6, <1>7, Zenon DEF Of, Control, s, D

\* The pieces of a transfer are all different.
LEMMA PieceFacts ==
    ASSUME NEW ch \in Uarts, NEW v \in Nat
    PROVE  /\ \A k \in 1..(NumChunks + 1) : /\ Piece(ch, v, k) \in Controls
                                            /\ Piece(ch, v, k) \in Tunnelled /\ Of(Piece(ch, v, k), ch)
           /\ \A i, j \in 1..(NumChunks + 1) : Piece(ch, v, i) = Piece(ch, v, j) => i = j
<1>1. NumChunks \in Nat
  BY ChunkBounds, Zenon
<1>2. ASSUME NEW k \in 1..(NumChunks + 1)
      PROVE  /\ Piece(ch, v, k) \in Controls /\ Of(Piece(ch, v, k), ch)
             /\ k <= NumChunks => /\ k \in 1..NumChunks /\ Piece(ch, v, k).kind = "CTRL_DICT_FRAG"
                                  /\ Piece(ch, v, k).data[1] = <<ch, v, From(k)>>
             /\ k > NumChunks => k = NumChunks + 1 /\ Piece(ch, v, k).kind = "CTRL_DICT_DONE"
  <2>1. CASE k <= NumChunks
    <3>1. k \in 1..NumChunks /\ Piece(ch, v, k) = Frag(ch, v, k)
      BY <1>1, <2>1 DEF Piece
    <3>2. /\ Piece(ch, v, k) \in Controls /\ Of(Piece(ch, v, k), ch)
          /\ Piece(ch, v, k).kind = "CTRL_DICT_FRAG" /\ Piece(ch, v, k).data[1] = <<ch, v, From(k)>>
      BY <3>1, FragFacts, ZenonT(30)
    <3>3. ~(k > NumChunks)
      BY <1>1, <2>1
    <3> QED  BY <3>1, <3>2, <3>3, Zenon
  <2>2. CASE k > NumChunks
    <3>1. k = NumChunks + 1 /\ ~(k <= NumChunks) /\ Piece(ch, v, k) = DICT_DONE(ch)
      BY <1>1, <2>2 DEF Piece
    <3>2. DICT_DONE(ch) \in Controls /\ DICT_DONE(ch).kind = "CTRL_DICT_DONE" /\ DICT_DONE(ch).ch = ch
      BY FrameTypes, Zenon DEF DICT_DONE, Frame
    <3> QED  BY <3>1, <3>2, Zenon DEF Of, Control
  <2> QED  BY <2>1, <2>2, Counts, Zenon
<1>3. ASSUME NEW i \in 1..(NumChunks + 1), NEW j \in 1..(NumChunks + 1), Piece(ch, v, i) = Piece(ch, v, j)
      PROVE  i = j
  <2>1. CASE i <= NumChunks /\ j <= NumChunks
    <3>1. <<ch, v, From(i)>> = <<ch, v, From(j)>> /\ i \in 1..NumChunks /\ j \in 1..NumChunks
      BY <1>2, <1>3, <2>1, Zenon
    <3>2. From(i) = From(j)
      BY <3>1, Zenon
    <3> QED  BY <3>1, <3>2, FromDistinct, Zenon
  <2>2. CASE ~(i <= NumChunks /\ j <= NumChunks)
    BY <1>1, <1>2, <1>3, <2>2
  <2> QED  BY <2>1, <2>2, Zenon
<1> QED  BY <1>2, <1>3, Zenon DEF Tunnelled

-----------------------------------------------------------------------------
\* A frame that is no piece of the transfer may stand anywhere.
LEMMA NotPiece ==
    ASSUME NEW ch \in Uarts, NEW v \in Nat, NEW f \in Tunnelled, ~Of(f, ch), NEW x \in Tunnelled
    PROVE  <<x, f>> \in Order(ch, v) /\ <<f, x>> \in Order(ch, v)
<1>1. \A k \in 1..(NumChunks + 1) : f # Piece(ch, v, k)
  BY PieceFacts, Zenon
<1> QED  BY <1>1, Zenon DEF Order

\* Dropping frames that are not pieces of the channel leaves its transfer as it is.
LEMMA TransferShrinks ==
    ASSUME NEW ch \in Uarts, NEW v \in Nat, NEW p \in Nat,
           NEW cq, NEW w, NEW q, NEW cr, NEW x, NEW r, Transfer(ch, v, p, cq, w, q),
           Sorted(cr, Order(ch, v)), Sorted(x, Order(ch, v)), Sorted(r, Order(ch, v)),
           Range(cr) \subseteq Range(cq), Range(x) \subseteq Range(w), Range(r) \subseteq Range(q),
           \A f \in Range(cq) \cup Range(w) \cup Range(q) :
              Of(f, ch) => f \in Range(cr) \cup Range(x) \cup Range(r)
    PROVE  Transfer(ch, v, p, cr, x, r)
<1> DEFINE A == Range(cq) \cup Range(w) \cup Range(q)
           B == Range(cr) \cup Range(x) \cup Range(r)
<1>1. B \subseteq A /\ \A f \in A : Of(f, ch) => f \in B
  BY Zenon
<1>2. Contiguous(ch, v, p, A)
  BY Zenon DEF Transfer
<1> HIDE DEF A, B
<1>3. ASSUME NEW k \in 1..(NumChunks + 1), Piece(ch, v, k) \in B
      PROVE  k > p /\ (k = p + 1 \/ Piece(ch, v, k - 1) \in B)
  <2>1. k > p /\ (k = p + 1 \/ Piece(ch, v, k - 1) \in A)
    BY <1>1, <1>2, <1>3, Zenon DEF Contiguous
  <2>2. k = p + 1 \/ k - 1 \in 1..(NumChunks + 1)
    BY <2>1, ChunkBounds
  <2> QED  BY <1>1, <2>1, <2>2, PieceFacts, Zenon
<1>4. Contiguous(ch, v, p, B)
  BY <1>1, <1>2, <1>3, Zenon DEF Contiguous
<1>5. Pipeline(cr, x, r, Order(ch, v))
  BY OrderShrinks, Zenon DEF Transfer
<1> QED  BY <1>4, <1>5, Zenon DEF Transfer, B

\* The USB writer of the exporter, or the exporter, ends with its queue.
LEMMA TransferCut ==
    ASSUME NEW ch \in Uarts, NEW v \in Nat, NEW p \in Nat, NEW cq, NEW w, NEW q, Transfer(ch, v, p, cq, w, q)
    PROVE  Transfer(ch, v, p, cq, w, <<>>)
<1> DEFINE A == Range(cq) \cup Range(w) \cup Range(q)
           B == Range(cq) \cup Range(w)
           R == Order(ch, v)
<1>1. Range(<<>>) = {} /\ Sorted(<<>>, R)
  BY EmptyQueue, Zenon
<1>2. /\ Contiguous(ch, v, p, A) /\ Pipeline(cq, w, q, R)
      /\ B \subseteq A /\ \A f \in A : f \in B \/ f \in Range(q)
  BY Zenon DEF Transfer
<1>3. \A f \in B, g \in Range(q) : <<f, g>> \in R
  BY <1>2, Zenon DEF Pipeline, Before
<1> HIDE DEF A, B
<1>4. ASSUME NEW k \in 1..(NumChunks + 1), Piece(ch, v, k) \in B
      PROVE  k > p /\ (k = p + 1 \/ Piece(ch, v, k - 1) \in B)
  <2>1. k > p /\ (k = p + 1 \/ Piece(ch, v, k - 1) \in A)
    BY <1>2, <1>4, Zenon DEF Contiguous
  <2>2. k = p + 1 \/ k - 1 \in 1..(NumChunks + 1)
    BY <2>1, ChunkBounds
  <2>3. CASE k # p + 1 /\ Piece(ch, v, k - 1) \in Range(q)
    <3>1. <<Piece(ch, v, k), Piece(ch, v, k - 1)>> \in R
      BY <1>3, <1>4, <2>3, Zenon
    <3>2. k < k - 1
      BY <2>2, <2>3, <3>1, Zenon DEF Order
    <3> QED  BY <3>2, ChunkBounds
  <2> QED  BY <1>2, <2>1, <2>3, Zenon
<1>5. Contiguous(ch, v, p, B)
  BY <1>2, <1>4, Zenon DEF Contiguous
<1>6. Pipeline(cq, w, <<>>, R)
  BY <1>1, <1>2, Zenon DEF Pipeline, Before
<1>7. Range(cq) \cup Range(w) \cup Range(<<>>) = B
  BY <1>1, Zenon DEF B
<1> QED  BY <1>5, <1>6, <1>7, Zenon DEF Transfer

\* Frames of the MCUs, and the dictionaries of other channels, are queued.
LEMMA TransferGrows ==
    ASSUME NEW ch \in Uarts, NEW v \in Nat, NEW p \in Nat,
           NEW cq \in Seq(Tunnelled), NEW w \in Seq(Tunnelled), NEW q \in Seq(Tunnelled),
           Transfer(ch, v, p, cq, w, q), NEW s \in Seq(Tunnelled), NoneOf(s, ch)
    PROVE  Transfer(ch, v, p, cq, w, q \o s)
<1> DEFINE A == Range(cq) \cup Range(w) \cup Range(q)
           R == Order(ch, v)
           z == q \o s
<1>1. \A f \in Range(s) : ~Of(f, ch) /\ f \in Tunnelled
  BY Elements, Zenon DEF NoneOf
<1>2. \A f \in A : f \in Tunnelled
  BY Elements, Zenon
<1>3. Pipeline(cq, w, q, R) /\ Contiguous(ch, v, p, A)
  BY Zenon DEF Transfer
<1>4. \A f \in A, g \in Range(s) : <<f, g>> \in R
  BY <1>1, <1>2, NotPiece, Zenon
<1>5. Sorted(s, R)
  <2>1. ASSUME NEW j \in 1..Len(s), NEW i \in 1..(j - 1) PROVE <<s[i], s[j]>> \in R
    <3>1. i \in 1..Len(s)
      BY Elements
    <3>2. s[i] \in Range(s) /\ s[j] \in Range(s)
      BY <3>1, Elements, Zenon
    <3> QED  BY <1>1, <3>2, NotPiece, Zenon
  <2> QED  BY <2>1, Zenon DEF Sorted
<1>6. Before(Range(q), Range(s), R) /\ Before(Range(w), Range(s), R) /\ Before(Range(cq), Range(s), R)
  BY <1>4, Zenon DEF Before
<1>7. Range(z) = Range(q) \cup Range(s) /\ Sorted(z, R)
  BY <1>3, <1>5, <1>6, Concatenated, Zenon DEF Pipeline
<1> HIDE DEF z
<1>8. Pipeline(cq, w, z, R)
  BY <1>3, <1>6, <1>7, Zenon DEF Pipeline, Before
<1> DEFINE B == Range(cq) \cup Range(w) \cup Range(z)
<1>9. B = A \cup Range(s)
  BY <1>7, Zenon
<1> HIDE DEF A, B
<1>10. Contiguous(ch, v, p, B)
  <2>1. \A k \in 1..(NumChunks + 1) : Piece(ch, v, k) \notin Range(s)
    BY <1>1, PieceFacts, Zenon
  <2> QED  BY <1>1, <1>3, <1>9, <2>1, Zenon DEF Contiguous
<1> QED  BY <1>8, <1>10, Zenon DEF Transfer, B, z

\* setup_channel queues a dictionary for a channel of which nothing is left.
LEMMA TransferBegins ==
    ASSUME NEW ch \in Uarts, NEW v \in Nat,
           NEW cq \in Seq(Tunnelled), NEW w \in Seq(Tunnelled), NEW q \in Seq(Tunnelled),
           NoneOf(cq, ch), NoneOf(w, ch), NoneOf(q, ch),
           Sorted(cq, Order(ch, v)), Sorted(w, Order(ch, v)), Sorted(q, Order(ch, v)),
           NEW s \in Seq(Tunnelled), Len(s) = NumChunks + 1,
           \A k \in 1..(NumChunks + 1) : s[k] = Piece(ch, v, k)
    PROVE  Transfer(ch, v, 0, cq, w, q \o s)
<1> DEFINE A == Range(cq) \cup Range(w) \cup Range(q)
           R == Order(ch, v)
           z == q \o s
<1>1. \A f \in A : ~Of(f, ch) /\ f \in Tunnelled
  BY Elements, Zenon DEF NoneOf
<1>2. NumChunks \in Nat /\ \A f \in Range(s) : f \in Tunnelled /\ \E k \in 1..(NumChunks + 1) : f = Piece(ch, v, k)
  BY ChunkBounds, Elements
<1>3. \A f, g \in A : <<f, g>> \in R
  BY <1>1, NotPiece, Zenon
<1>4. \A f \in A, g \in Range(s) : <<f, g>> \in R
  BY <1>1, <1>2, NotPiece, Zenon
<1>5. Sorted(s, R)
  <2>1. ASSUME NEW j \in 1..Len(s), NEW i \in 1..(j - 1) PROVE <<s[i], s[j]>> \in R
    <3>1. i \in 1..(NumChunks + 1) /\ j \in 1..(NumChunks + 1) /\ i < j
      BY <1>2
    <3>2. s[i] = Piece(ch, v, i) /\ s[j] = Piece(ch, v, j)
      BY <3>1, Zenon
    <3>3. s[i] \in Tunnelled /\ s[j] \in Tunnelled
      BY <3>1, <3>2, PieceFacts, Zenon
    <3>4. \A k1, k2 \in 1..(NumChunks + 1) : s[i] = Piece(ch, v, k1) /\ s[j] = Piece(ch, v, k2) => k1 = i /\ k2 = j
      BY <3>1, <3>2, PieceFacts, Zenon
    <3>5. \A k1, k2 \in 1..(NumChunks + 1) : s[i] = Piece(ch, v, k1) /\ s[j] = Piece(ch, v, k2) => k1 < k2
      BY <3>1, <3>4, Zenon
    <3> QED  BY <3>3, <3>5, Zenon DEF Order
  <2> QED  BY <2>1, Zenon DEF Sorted
<1>6. Before(Range(q), Range(s), R) /\ Before(Range(w), Range(s), R) /\ Before(Range(cq), Range(s), R)
  BY <1>4, Zenon DEF Before
<1>7. Before(Range(cq), Range(w), R) /\ Before(Range(cq), Range(q), R) /\ Before(Range(w), Range(q), R)
  BY <1>3, Zenon DEF Before
<1>8. Range(z) = Range(q) \cup Range(s) /\ Sorted(z, R)
  BY <1>5, <1>6, Concatenated, Zenon
<1> HIDE DEF z
<1>9. Pipeline(cq, w, z, R)
  BY <1>6, <1>7, <1>8, Zenon DEF Pipeline, Before
<1> DEFINE B == Range(cq) \cup Range(w) \cup Range(z)
<1>10. B = A \cup Range(s)
  BY <1>8, Zenon
<1>11. \A k \in 1..(NumChunks + 1) : Piece(ch, v, k) \in Range(s)
  BY Elements
<1> HIDE DEF A, B
<1>12. ASSUME NEW k \in 1..(NumChunks + 1)
       PROVE  k > 0 /\ (k = 0 + 1 \/ Piece(ch, v, k - 1) \in B)
  <2>1. k = 1 \/ k - 1 \in 1..(NumChunks + 1)
    BY <1>2
  <2> QED  BY <1>10, <1>11, <2>1
<1>13. Contiguous(ch, v, 0, B)
  BY <1>1, <1>2, <1>10, <1>12, Zenon DEF Contiguous
<1> QED  BY <1>9, <1>13, Zenon DEF Transfer, B, z

\* What taking the next piece does.
GathersNext(ch, v, p, cq, w, q) ==
    /\ Head(cq) = Piece(ch, v, p + 1)
    /\ p < NumChunks => Transfer(ch, v, p + 1, Tail(cq), w, q)
    /\ p = NumChunks => NoneOf(Tail(cq), ch) /\ NoneOf(w, ch) /\ NoneOf(q, ch)

\* The next piece that gather_dictionary takes is the one that is due.
LEMMA TransferGathers ==
    ASSUME NEW ch \in Uarts, NEW v \in Nat, NEW p \in 0..NumChunks,
           NEW cq \in Seq(Tunnelled), NEW w, NEW q,
           Transfer(ch, v, p, cq, w, q), cq # <<>>, Of(Head(cq), ch)
    PROVE  GathersNext(ch, v, p, cq, w, q)
<1> DEFINE first == Head(cq)
           t == Tail(cq)
           A == Range(cq) \cup Range(w) \cup Range(q)
           B == Range(t) \cup Range(w) \cup Range(q)
           R == Order(ch, v)
<1>1. Pipeline(cq, w, q, R) /\ Contiguous(ch, v, p, A) /\ NumChunks \in Nat
  BY ChunkBounds, Zenon DEF Transfer
<1>2. /\ Range(cq) = {first} \cup Range(t) /\ t \in Seq(Tunnelled)
      /\ Sorted(t, R) /\ Before({first}, Range(t), R)
  BY <1>1, TakeFirst, TakeFirstSorted, Zenon DEF Pipeline
<1>3. first \in Range(cq) /\ \A f \in B : <<first, f>> \in R
  BY <1>1, <1>2, Zenon DEF Pipeline, Before
<1>4. A = {first} \cup B
  BY <1>2, Zenon
<1>5. Pipeline(t, w, q, R)
  BY <1>1, <1>2, Zenon DEF Pipeline, Before
<1> HIDE DEF first, t, A, B
<1>6. PICK k \in 1..(NumChunks + 1) : first = Piece(ch, v, k)
  <2>1. Of(first, ch) /\ first \in A
    BY <1>4, Zenon DEF first
  <2> QED  BY <1>1, <2>1, Zenon DEF Contiguous
<1>7. ASSUME NEW j \in 1..(NumChunks + 1), Piece(ch, v, j) \in B PROVE k < j
  <2>1. <<Piece(ch, v, k), Piece(ch, v, j)>> \in R
    BY <1>3, <1>6, <1>7, Zenon
  <2> QED  BY <2>1, Zenon DEF Order
<1>8. k = p + 1
  <2>1. k > p /\ (k = p + 1 \/ Piece(ch, v, k - 1) \in A)
    BY <1>1, <1>4, <1>6, Zenon DEF Contiguous
  <2>2. ASSUME k # p + 1 PROVE FALSE
    <3>1. k - 1 \in 1..(NumChunks + 1) /\ k # k - 1 /\ ~(k < k - 1)
      BY <1>1, <2>1, <2>2
    <3>2. Piece(ch, v, k - 1) # Piece(ch, v, k)
      BY <3>1, PieceFacts, Zenon
    <3>3. Piece(ch, v, k - 1) \in B
      BY <1>4, <1>6, <2>1, <2>2, <3>2, Zenon
    <3> QED  BY <1>7, <3>1, <3>3, Zenon
  <2> QED  BY <2>2, Zenon
<1>9. \A f \in B : Of(f, ch) => \E j \in 1..(NumChunks + 1) : f = Piece(ch, v, j)
  BY <1>1, <1>4, Zenon DEF Contiguous
<1>10. ASSUME p < NumChunks PROVE Transfer(ch, v, p + 1, t, w, q)
  <2>1. ASSUME NEW j \in 1..(NumChunks + 1), Piece(ch, v, j) \in B
        PROVE  j > p + 1 /\ (j = (p + 1) + 1 \/ Piece(ch, v, j - 1) \in B)
    <3>1. j > p + 1
      BY <1>7, <1>8, <2>1, Zenon
    <3>2. j = p + 1 \/ Piece(ch, v, j - 1) \in A
      BY <1>1, <1>4, <2>1, Zenon DEF Contiguous
    <3>3. ASSUME j # (p + 1) + 1 PROVE Piece(ch, v, j - 1) \in B
      <4>1. j - 1 \in 1..(NumChunks + 1) /\ j - 1 # k
        BY <1>1, <1>8, <3>1, <3>3
      <4>2. Piece(ch, v, j - 1) # first
        BY <1>6, <4>1, PieceFacts, Zenon
      <4>3. j # p + 1
        BY <1>1, <3>1
      <4> QED  BY <1>4, <3>2, <4>2, <4>3, Zenon
    <3> QED  BY <3>1, <3>3, Zenon
  <2>2. Contiguous(ch, v, p + 1, B)
    BY <1>9, <2>1, Zenon DEF Contiguous
  <2> QED  BY <1>5, <2>2, Zenon DEF Transfer, B
<1>11. ASSUME p = NumChunks, NEW f \in B PROVE ~Of(f, ch)
  <2>1. ASSUME NEW j \in 1..(NumChunks + 1), f = Piece(ch, v, j) PROVE FALSE
    <3>1. k < j
      BY <1>7, <1>11, <2>1, Zenon
    <3> QED  BY <1>1, <1>8, <1>11, <3>1
  <2> QED  BY <1>9, <2>1, Zenon
<1>12. p = NumChunks => NoneOf(t, ch) /\ NoneOf(w, ch) /\ NoneOf(q, ch)
  BY <1>11, Zenon DEF NoneOf, B
<1> QED  BY <1>6, <1>8, <1>10, <1>12, Zenon DEF first, t, GathersNext

\* The bytes of the pieces gathered so far.
LEMMA Gathered ==
    ASSUME NEW ch \in Uarts, NEW v \in Nat
    PROVE  /\ FirstBytes(ch, v, 0) = <<>>
           /\ FirstBytes(ch, v, NumChunks) = Dictionary(ch, v)
           /\ \A p \in 0..NumChunks : p < NumChunks =>
                 FirstBytes(ch, v, p + 1) = FirstBytes(ch, v, p) \o Piece(ch, v, p + 1).data
<1> DEFINE D == Dictionary(ch, v)
           End(p) == IF p = 0 THEN 0 ELSE To(p)
<1>1. D \in Seq(Bytes) /\ Len(D) = DictLen /\ DictLen \in Nat /\ NumChunks \in Nat
  BY DictionaryBytes, ChunkBounds, DictAssumption, Zenon
<1>2. \A p : FirstBytes(ch, v, p) = SubSeq(D, 1, End(p))
  BY Zenon DEF FirstBytes
<1> HIDE DEF D
<1>3. SubSeq(D, 1, 0) = <<>> /\ SubSeq(D, 1, DictLen) = D
  BY <1>1
<1>4. End(0) = 0 /\ End(NumChunks) = DictLen
  BY <1>1, ChunkBounds
<1>5. ASSUME NEW p \in 0..NumChunks, p < NumChunks
      PROVE  FirstBytes(ch, v, p + 1) = FirstBytes(ch, v, p) \o Piece(ch, v, p + 1).data
  <2> DEFINE k == p + 1
             lo == End(p)
             hi == To(k)
  <2>1. k \in 1..NumChunks /\ End(k) = hi /\ k <= NumChunks /\ (p > 0 => p \in 1..NumChunks) /\ k - 1 = p
    BY <1>1, <1>5
  <2>2. From(k) = lo + 1
    BY <1>1, <2>1, ChunkBounds
  <2>3. From(k) \in 1..DictLen /\ hi \in From(k)..DictLen
    BY <2>1, ChunkBounds, Zenon
  <2>4. lo \in Nat
    BY <1>1, <2>1, ChunkBounds
  <2>5. hi \in Nat /\ lo <= hi /\ hi <= Len(D)
    BY <1>1, <2>2, <2>3, <2>4, Behind, Zenon
  <2>6. Piece(ch, v, k).data = SubSeq(D, lo + 1, hi)
    BY <2>1, <2>2, FragFacts, Zenon DEF Piece, D
  <2> HIDE DEF k, lo, hi
  <2>7. SubSeq(D, 1, lo) \o SubSeq(D, lo + 1, hi) = SubSeq(D, 1, hi)
    BY <1>1, <2>4, <2>5, Joined, Zenon
  <2>8. FirstBytes(ch, v, p) = SubSeq(D, 1, lo) /\ FirstBytes(ch, v, k) = SubSeq(D, 1, hi)
    BY <1>2, <2>1, Zenon DEF lo
  <2> QED  BY <2>6, <2>7, <2>8, Zenon DEF k
<1> QED  BY <1>2, <1>3, <1>4, <1>5, Zenon DEF D

-----------------------------------------------------------------------------
(***************************************************************************)
(* Every step keeps the transfer of every channel.                         *)
(***************************************************************************)
\* The queues are queues of frames.
LEMMA TheQueues ==
    ASSUME TypeOK
    PROVE  /\ ctrl_q \in Seq(Tunnelled) /\ ctrl_q \in Seq(Controls)
           /\ wire["exporter"] \in Seq(Tunnelled) /\ usb_q["exporter"] \in Seq(Tunnelled)
<1>1. ctrl_q \in Seq(Controls)
  BY Zenon DEF TypeOK, QueueType
<1>2. Controls \subseteq Tunnelled
  BY Zenon DEF Tunnelled
<1>3. ctrl_q \in Seq(Tunnelled)
  <2> HIDE DEF Controls, Tunnelled
  <2> QED  BY <1>1, <1>2
<1> QED  BY <1>1, <1>3, Indices, Zenon DEF TypeOK, QueueType

\* The versions of a channel.
LEMMA Versions ==
    ASSUME TypeOK, NEW ch \in Uarts
    PROVE  firmware[ch] \in Nat \ {0} /\ (\A v \in 1..firmware[ch] : v \in Nat) /\ firmware[ch] \in 1..firmware[ch]
BY DEF TypeOK, TaskType

\* A step that leaves the channel alone.
ChannelVars(ch) ==
    <<dicts[ch], ctrl_q, wire["exporter"], usb_q["exporter"], firmware[ch],
      process["exporter"], booted, published, dictionary>>

\* A step that touches nothing of the channel.
LEMMA ChannelStays ==
    ASSUME NEW ch, ChannelInv(ch), UNCHANGED ChannelVars(ch)
    PROVE  ChannelInv(ch)'
BY Zenon DEF ChannelInv, ChannelVars, OnItsWay, NotBegun, IsWhole

\* A step that moves or drops frames, or queues some that are not of the channel.
LEMMA ChannelMoves ==
    ASSUME NEW ch, ChannelInv(ch),
           UNCHANGED <<dicts[ch], firmware[ch], published, dictionary>>,
           process'["exporter"] = "boot" /\ booted' <= ch =>
              (process["exporter"] = "boot" /\ booted <= ch) \/ NotBegun(ch)',
           \A f \in Range(ctrl_q') \cup Range(wire'["exporter"]) \cup Range(usb_q'["exporter"]) :
              Of(f, ch) => f \in Range(ctrl_q) \cup Range(wire["exporter"]) \cup Range(usb_q["exporter"]),
           \A v \in 1..firmware[ch], p \in 0..NumChunks :
              Transfer(ch, v, p, ctrl_q, wire["exporter"], usb_q["exporter"]) =>
                 Transfer(ch, v, p, ctrl_q', wire'["exporter"], usb_q'["exporter"])
    PROVE  ChannelInv(ch)'
<1>1. OnItsWay(ch)'
  BY Zenon DEF ChannelInv, OnItsWay
<1>2. NotBegun(ch) => NotBegun(ch)'
  BY Zenon DEF NotBegun, NoneOf
<1>3. ch \in Sockets => IsWhole(published[ch], ch)' /\ IsWhole(dictionary[ch], ch)'
  BY Zenon DEF ChannelInv, IsWhole
<1> QED  BY <1>1, <1>2, <1>3, Zenon DEF ChannelInv

\* Nothing of the channel is in the queues.
LEMMA EmptyTransfer ==
    ASSUME NEW ch \in Uarts, NEW v \in Nat, NEW p,
           NEW cq \in Seq(Tunnelled), NEW w \in Seq(Tunnelled), NEW q \in Seq(Tunnelled),
           NoneOf(cq, ch), NoneOf(w, ch), NoneOf(q, ch)
    PROVE  Transfer(ch, v, p, cq, w, q)
<1> DEFINE A == Range(cq) \cup Range(w) \cup Range(q)
           R == Order(ch, v)
<1>1. \A f \in A : ~Of(f, ch) /\ f \in Tunnelled
  BY Elements, Zenon DEF NoneOf
<1>2. \A f, g \in A : <<f, g>> \in R
  BY <1>1, NotPiece, Zenon
<1>3. ASSUME NEW s \in {cq, w, q} PROVE Sorted(s, R)
  <2>1. ASSUME NEW j \in 1..Len(s), NEW i \in 1..(j - 1) PROVE <<s[i], s[j]>> \in R
    <3>1. s \in Seq(Tunnelled) /\ Range(s) \subseteq A
      BY <1>3, Zenon
    <3>2. i \in 1..Len(s)
      BY <3>1, Elements
    <3>3. s[i] \in Range(s) /\ s[j] \in Range(s)
      BY <3>1, <3>2, Elements, Zenon
    <3> QED  BY <1>2, <3>1, <3>3, Zenon
  <2> QED  BY <2>1, Zenon DEF Sorted
<1>4. Pipeline(cq, w, q, R)
  BY <1>2, <1>3, Zenon DEF Pipeline, Before
<1> HIDE DEF A
<1>5. Contiguous(ch, v, p, A)
  <2>1. \A k \in 1..(NumChunks + 1) : Piece(ch, v, k) \notin A
    BY <1>1, PieceFacts, Zenon
  <2> QED  BY <1>1, <2>1, Zenon DEF Contiguous
<1> QED  BY <1>4, <1>5, Zenon DEF Transfer, A

\* What Underway, for a channel whose transfer is not torn, rules out.
LEMMA NotUnderway ==
    ASSUME TypeOK, NEW ch \in Uarts, ~Underway(ch)
    PROVE  dicts[ch] = <<>> /\ NoneOf(ctrl_q, ch) /\ NoneOf(wire["exporter"], ch)
<1> DEFINE cq == ctrl_q
           w == wire["exporter"]
<1>1. cq \in Seq(Tunnelled) /\ w \in Seq(Tunnelled)
  BY TheQueues, Zenon
<1>2. dicts[ch] = <<>> /\ \A f \in Range(cq \o w) : ~Of(f, ch)
  BY Zenon DEF Underway, Of
<1> HIDE DEF cq, w
<1>3. Range(cq \o w) = Range(cq) \cup Range(w)
  BY <1>1, ConcatRange
<1> QED  BY <1>2, <1>3, Zenon DEF NoneOf, cq, w

\* Where a decoder may lose the frame boundary, this is recorded.
LEMMA MisalignsMeans ==
    ASSUME TypeOK, NEW side \in Sides, NEW cut \in BOOLEAN, Misaligns(side, cut), ~garbled'
    PROVE  ~garbled /\ \A either \in Sides : aligned'[either]
<1>1. aligned' \in [Sides -> BOOLEAN] /\ FALSE \notin Range(aligned') /\ ~garbled
  BY Zenon DEF Misaligns, TypeOK, TaskType
<1>2. ASSUME NEW either \in Sides PROVE aligned'[either]
  <2>1. aligned'[either] \in Range(aligned') /\ aligned'[either] \in BOOLEAN
    BY <1>1, Zenon DEF Range
  <2> QED  BY <1>1, <2>1, Zenon
<1> QED  BY <1>1, <1>2, Zenon

\* A step that has nothing to do with the dictionaries.
LEMMA QuietKeeps ==
    ASSUME DictInv, UNCHANGED <<process, booted, dictVars, firmware, wire["exporter"], usb_q["exporter"], torn>>,
           \A ch \in Uarts : mcu_task'[ch] => mcu_task[ch],
           ~garbled' => ~garbled /\ \A side \in Sides : aligned[side] => aligned'[side]
    PROVE  DictInv'
<1>1. DownInv'
  BY Zenon DEF DictInv, DownInv
<1>2. ASSUME NEW ch, ChannelInv(ch) PROVE ChannelInv(ch)'
  BY <1>2, ChannelStays, Zenon DEF ChannelVars, dictVars
<1> QED  BY <1>1, <1>2, Zenon DEF DictInv

\* The USB writer of the exporter.
LEMMA ChannelWrite ==
    ASSUME TypeOK, NEW ch \in Uarts, ChannelInv(ch), usb_write("exporter")
    PROVE  ChannelInv(ch)'
<1> DEFINE cq == ctrl_q
           w == wire["exporter"]
           q == usb_q["exporter"]
           x == Append(w, Head(q))
           r == Tail(q)
<1>1. cq \in Seq(Tunnelled) /\ w \in Seq(Tunnelled) /\ q \in Seq(Tunnelled) /\ q # <<>>
  BY TheQueues, Zenon DEF usb_write
<1>2. /\ ctrl_q' = cq /\ wire'["exporter"] = x /\ usb_q'["exporter"] = r
      /\ UNCHANGED <<process, booted, firmware, dicts, published, dictionary>>
  BY Indices, Zenon DEF usb_write, TypeOK, QueueType, dictVars, exporterVars
<1>3. \A v \in Nat, p \in 0..NumChunks : Transfer(ch, v, p, cq, w, q) =>
         /\ Pipeline(cq, x, r, Order(ch, v)) /\ Range(x) \cup Range(r) = Range(w) \cup Range(q)
  <2> HIDE DEF cq, w, q
  <2>1. ASSUME NEW v \in Nat, NEW p \in 0..NumChunks, Transfer(ch, v, p, cq, w, q)
        PROVE  /\ Pipeline(cq, x, r, Order(ch, v)) /\ Range(x) \cup Range(r) = Range(w) \cup Range(q)
    <3> DEFINE R == Order(ch, v)
    <3>1. Pipeline(cq, w, q, R)
      BY <2>1, Zenon DEF Transfer
    <3> HIDE DEF R
    <3>2. Pipeline(cq, x, r, R) /\ Range(x) \cup Range(r) = Range(w) \cup Range(q)
      BY <1>1, <3>1, WriterMoves
    <3> QED  BY <3>2, Zenon DEF R
  <2> QED  BY <2>1, Zenon
<1> HIDE DEF cq, w, q, x, r
<1>4. \A v \in Nat, p \in 0..NumChunks : Transfer(ch, v, p, cq, w, q) =>
         /\ Range(cq) \cup Range(x) \cup Range(r) = Range(cq) \cup Range(w) \cup Range(q)
         /\ Transfer(ch, v, p, cq, x, r)
  <2>1. ASSUME NEW v \in Nat, NEW p \in 0..NumChunks, Transfer(ch, v, p, cq, w, q)
        PROVE  /\ Range(cq) \cup Range(x) \cup Range(r) = Range(cq) \cup Range(w) \cup Range(q)
               /\ Transfer(ch, v, p, cq, x, r)
    <3>1. Range(cq) \cup Range(x) \cup Range(r) = Range(cq) \cup Range(w) \cup Range(q)
      BY <1>3, <2>1, Zenon
    <3> QED  BY <1>3, <2>1, <3>1, Zenon DEF Transfer
  <2> QED  BY <2>1, Zenon
<1>5. PICK v \in 1..firmware[ch], p \in 0..NumChunks : Transfer(ch, v, p, cq, w, q)
  BY Zenon DEF ChannelInv, OnItsWay, cq, w, q
<1> QED  BY <1>2, <1>4, <1>5, Versions, ChannelMoves, Zenon DEF cq, w, q

\* A queue of the exporter that is lost.
LEMMA ChannelCut ==
    ASSUME TypeOK, NEW ch \in Uarts, ChannelInv(ch), usb_q'["exporter"] = <<>>, wire' = wire,
           UNCHANGED <<firmware, dictVars>>,
           process'["exporter"] = "boot" => UNCHANGED <<process, booted>>
    PROVE  ChannelInv(ch)'
<1> DEFINE cq == ctrl_q
           w == wire["exporter"]
           q == usb_q["exporter"]
<1>1. Range(<<>>) = {}
  BY EmptyQueue, Zenon
<1>2. \A v \in Nat, p \in Nat : Transfer(ch, v, p, cq, w, q) => Transfer(ch, v, p, cq, w, <<>>)
  BY TransferCut, Zenon
<1>3. \A p \in 0..NumChunks : p \in Nat
  BY Counts, Zenon
<1>4. ctrl_q' = cq /\ wire'["exporter"] = w /\ UNCHANGED <<dicts[ch], firmware[ch], published, dictionary>>
  BY Zenon DEF dictVars
<1> HIDE DEF cq, w, q
<1>5. \A f \in Range(ctrl_q') \cup Range(wire'["exporter"]) \cup Range(usb_q'["exporter"]) :
         Of(f, ch) => f \in Range(cq) \cup Range(w) \cup Range(q)
  BY <1>1, <1>4, Zenon
<1>6. \A v \in 1..firmware[ch], p \in 0..NumChunks :
         Transfer(ch, v, p, cq, w, q) => Transfer(ch, v, p, ctrl_q', wire'["exporter"], usb_q'["exporter"])
  BY <1>2, <1>3, <1>4, Versions, Zenon
<1> QED  BY <1>4, <1>5, <1>6, ChannelMoves, Zenon DEF cq, w, q

\* A payload of an MCU, or the dictionary of another channel, is queued.
LEMMA ChannelQueues ==
    ASSUME TypeOK, NEW ch \in Uarts, ChannelInv(ch), NEW s \in Seq(Tunnelled), NoneOf(s, ch),
           usb_q'["exporter"] = usb_q["exporter"] \o s, wire' = wire, UNCHANGED <<firmware, dictVars>>,
           process'["exporter"] = "boot" /\ booted' <= ch => process["exporter"] = "boot" /\ booted <= ch
    PROVE  ChannelInv(ch)'
<1> DEFINE cq == ctrl_q
           w == wire["exporter"]
           q == usb_q["exporter"]
           z == q \o s
<1>1. cq \in Seq(Tunnelled) /\ w \in Seq(Tunnelled) /\ q \in Seq(Tunnelled)
  BY TheQueues, Zenon
<1>2. ctrl_q' = cq /\ wire'["exporter"] = w /\ usb_q'["exporter"] = z
      /\ UNCHANGED <<dicts[ch], firmware[ch], published, dictionary>>
  BY Zenon DEF dictVars
<1> HIDE DEF cq, w, q
<1>3. Range(z) = Range(q) \cup Range(s)
  BY <1>1, ConcatRange
<1>4. \A v \in Nat, p \in Nat : Transfer(ch, v, p, cq, w, q) => Transfer(ch, v, p, cq, w, z)
  BY <1>1, TransferGrows, Zenon
<1> HIDE DEF z
<1>5. \A p \in 0..NumChunks : p \in Nat
  BY Counts, Zenon
<1>6. \A f \in Range(ctrl_q') \cup Range(wire'["exporter"]) \cup Range(usb_q'["exporter"]) :
         Of(f, ch) => f \in Range(cq) \cup Range(w) \cup Range(q)
  BY <1>2, <1>3, Zenon DEF NoneOf
<1>7. \A v \in 1..firmware[ch], p \in 0..NumChunks :
         Transfer(ch, v, p, cq, w, q) => Transfer(ch, v, p, ctrl_q', wire'["exporter"], usb_q'["exporter"])
  BY <1>2, <1>4, <1>5, Versions, Zenon
<1> QED  BY <1>2, <1>6, <1>7, ChannelMoves, Zenon DEF cq, w, q

\* The main loop of the host takes a frame off the link.
LEMMA ChannelRead ==
    ASSUME TypeOK, NEW ch \in Uarts, ChannelInv(ch), aligned["host"], host_usb_read
    PROVE  ChannelInv(ch)'
<1> DEFINE cq == ctrl_q
           w == wire["exporter"]
           q == usb_q["exporter"]
           first == Head(w)
           x == Tail(w)
           a == Append(cq, first)
<1>1. cq \in Seq(Tunnelled) /\ w \in Seq(Tunnelled) /\ q \in Seq(Tunnelled) /\ w # <<>>
  BY TheQueues, Zenon DEF host_usb_read
<1>2. /\ wire'["exporter"] = x /\ usb_q'["exporter"] = q
      /\ UNCHANGED <<process, booted, firmware, dicts, published, dictionary>>
      /\ \/ ctrl_q' = a
         \/ ctrl_q' = cq /\ ~Of(first, ch)
  BY Indices, Zenon DEF host_usb_read, decoded, Of, TypeOK, QueueType, exporterVars
<1> HIDE DEF cq, w, q
<1>3. x \in Seq(Tunnelled) /\ first \in Tunnelled /\ Range(w) = {first} \cup Range(x) /\ first \in Range(w)
  BY <1>1, TakeFirst, Zenon
<1> HIDE DEF first
<1>4. Range(a) = Range(cq) \cup {first}
  BY <1>1, <1>3, AppendTunnelled, Zenon
<1> USE DEF first
<1>5. ASSUME NEW v \in Nat, NEW p \in 0..NumChunks, Transfer(ch, v, p, cq, w, q)
      PROVE  /\ Transfer(ch, v, p, a, x, q)
             /\ ~Of(first, ch) => Transfer(ch, v, p, cq, x, q)
  <2> DEFINE R == Order(ch, v)
  <2>1. Pipeline(cq, w, q, R) /\ p \in Nat
    BY <1>5, ChunkBounds DEF Transfer
  <2> HIDE DEF R
  <2>2. Pipeline(a, x, q, R) /\ Range(a) \cup Range(x) = Range(cq) \cup Range(w)
    BY <1>1, <2>1, ReaderMoves
  <2>3. Sorted(x, R) /\ Sorted(cq, R) /\ Sorted(q, R)
    BY <1>1, <2>1, TakeFirstSorted, Zenon DEF Pipeline
  <2> HIDE DEF first, x, a
  <2>4. Range(a) \cup Range(x) \cup Range(q) = Range(cq) \cup Range(w) \cup Range(q)
    BY <2>2, Zenon
  <2>5. Transfer(ch, v, p, a, x, q)
    BY <1>5, <2>2, <2>4, Zenon DEF Transfer, R
  <2>6. ~Of(first, ch) => Transfer(ch, v, p, cq, x, q)
    BY <1>3, <1>5, <2>1, <2>3, TransferShrinks, Zenon DEF R
  <2> QED  BY <2>5, <2>6, Zenon
<1> HIDE DEF first, x, a
<1>6. \A f \in Range(ctrl_q') \cup Range(x) \cup Range(q) : f \in Range(cq) \cup Range(w) \cup Range(q)
  BY <1>2, <1>3, <1>4, Zenon
<1>7. \A v \in 1..firmware[ch], p \in 0..NumChunks :
         Transfer(ch, v, p, cq, w, q) => Transfer(ch, v, p, ctrl_q', x, q)
  BY <1>2, <1>5, Versions, Zenon
<1> QED  BY <1>2, <1>6, <1>7, ChannelMoves, Zenon DEF cq, w, q

\* gather_dictionary takes a control frame, of this channel or of another one.
LEMMA ChannelGathersOther ==
    ASSUME TypeOK, NEW ch \in Uarts, ChannelInv(ch), gather_dictionary, Head(ctrl_q).ch # ch
    PROVE  ChannelInv(ch)'
<1> DEFINE cq == ctrl_q
           w == wire["exporter"]
           q == usb_q["exporter"]
           t == Tail(cq)
<1>1. cq \in Seq(Tunnelled) /\ cq \in Seq(Controls) /\ cq # <<>>
  BY TheQueues, Zenon DEF gather_dictionary
<1>2. Head(cq) \in Controls /\ ~Of(Head(cq), ch) /\ Range(cq) = {Head(cq)} \cup Range(t)
  BY <1>1, TakeFirst, Zenon DEF Of
<1>3. /\ ctrl_q' = t /\ wire' = wire /\ usb_q' = usb_q
      /\ UNCHANGED <<process, booted, firmware, dictionary>>
  BY Zenon DEF gather_dictionary, usbVars, exporterVars
<1>4. dicts'[ch] = dicts[ch] /\ (ch \in Sockets => published'[ch] = published[ch])
  BY Indices, Zenon DEF gather_dictionary, TypeOK, DictType
<1>5. ASSUME NEW v \in Nat, NEW p \in 0..NumChunks, Transfer(ch, v, p, cq, w, q)
      PROVE  Transfer(ch, v, p, t, w, q)
  <2> DEFINE R == Order(ch, v)
  <2>1. Pipeline(cq, w, q, R) /\ p \in Nat
    BY <1>5, Counts, Zenon DEF Transfer
  <2> HIDE DEF R, w, q
  <2>2. Sorted(t, R) /\ Sorted(w, R) /\ Sorted(q, R)
    BY <1>1, <2>1, TakeFirstSorted, Zenon DEF Pipeline
  <2> HIDE DEF t, cq
  <2> QED  BY <1>2, <1>5, <2>1, <2>2, TransferShrinks, Zenon DEF R
<1>6. OnItsWay(ch)'
  <2>1. PICK v \in 1..firmware[ch], p \in 0..NumChunks :
           dicts[ch] = FirstBytes(ch, v, p) /\ Transfer(ch, v, p, cq, w, q)
    BY Zenon DEF ChannelInv, OnItsWay
  <2>2. Transfer(ch, v, p, t, w, q)
    BY <1>5, <2>1, Versions, Zenon
  <2> HIDE DEF t
  <2> QED  BY <1>3, <1>4, <2>1, <2>2, Zenon DEF OnItsWay
<1>7. NotBegun(ch) => NotBegun(ch)'
  BY <1>2, <1>3, <1>4, Zenon DEF NotBegun, NoneOf
<1>8. ch \in Sockets => IsWhole(published[ch], ch)' /\ IsWhole(dictionary[ch], ch)'
  BY <1>3, <1>4, Zenon DEF ChannelInv, IsWhole
<1> QED  BY <1>3, <1>6, <1>7, <1>8, Zenon DEF ChannelInv

\* gather_dictionary takes the next piece, or publishes when it was the last.
LEMMA ChannelGathers ==
    ASSUME TypeOK, NEW ch \in Uarts, ChannelInv(ch), gather_dictionary, Head(ctrl_q).ch = ch
    PROVE  ChannelInv(ch)'
<1> DEFINE cq == ctrl_q
           w == wire["exporter"]
           q == usb_q["exporter"]
           t == Tail(cq)
           f == Head(cq)
<1>1. cq \in Seq(Tunnelled) /\ cq \in Seq(Controls) /\ cq # <<>>
      /\ w \in Seq(Tunnelled) /\ q \in Seq(Tunnelled)
  BY TheQueues, Zenon DEF gather_dictionary
<1>2. f \in Controls /\ f \in Range(cq) /\ t \in Seq(Tunnelled)
  BY <1>1, TakeFirst, Zenon
<1>3. Of(f, ch)
  BY <1>2, Zenon DEF Of, Control, Controls
<1>4. /\ ctrl_q' = t /\ wire'["exporter"] = w /\ usb_q'["exporter"] = q
      /\ UNCHANGED <<process, booted, firmware, dictionary>>
  BY Zenon DEF gather_dictionary, usbVars, exporterVars
<1>5. \/ /\ f.kind = "CTRL_DICT_FRAG" /\ dicts'[ch] = dicts[ch] \o f.data /\ UNCHANGED published
      \/ /\ f.kind = "CTRL_DICT_DONE" /\ dicts'[ch] = <<>>
         /\ ch \in Sockets => published'[ch] = dicts[ch]
  BY Indices, Zenon DEF gather_dictionary, TypeOK, DictType
<1>6. PICK v \in 1..firmware[ch], p \in 0..NumChunks :
         dicts[ch] = FirstBytes(ch, v, p) /\ Transfer(ch, v, p, cq, w, q)
  BY Zenon DEF ChannelInv, OnItsWay
<1>7. v \in Nat /\ NumChunks \in Nat
  BY Versions, ChunkBounds, Zenon
<1>8. ~(process["exporter"] = "boot" /\ booted <= ch)
  BY <1>2, <1>3, Zenon DEF ChannelInv, NotBegun, NoneOf
<1> HIDE DEF cq, w, q
<1>9. /\ f = Piece(ch, v, p + 1)
      /\ p < NumChunks => Transfer(ch, v, p + 1, t, w, q)
      /\ p = NumChunks => NoneOf(t, ch) /\ NoneOf(w, ch) /\ NoneOf(q, ch)
  <2>1. GathersNext(ch, v, p, cq, w, q)
    BY <1>1, <1>3, <1>6, <1>7, TransferGathers, Zenon
  <2> QED  BY <2>1, Zenon DEF GathersNext
<1> HIDE DEF t, f
<1>10. CASE p < NumChunks
  <2>1. p + 1 \in 1..NumChunks /\ p + 1 \in 0..NumChunks /\ p + 1 <= NumChunks
    BY <1>7, <1>10
  <2>2. f = Frag(ch, v, p + 1) /\ f.kind = "CTRL_DICT_FRAG"
    BY <1>7, <1>9, <2>1, FragFacts, Zenon DEF Piece
  <2>3. dicts'[ch] = FirstBytes(ch, v, p + 1) /\ published' = published
    BY <1>5, <1>6, <1>7, <1>9, <1>10, <2>2, Gathered, Zenon
  <2>4. OnItsWay(ch)'
    BY <1>4, <1>9, <1>10, <2>1, <2>3, Zenon DEF OnItsWay
  <2>5. ch \in Sockets => IsWhole(published[ch], ch)' /\ IsWhole(dictionary[ch], ch)'
    BY <1>4, <2>3, Zenon DEF ChannelInv, IsWhole
  <2> QED  BY <1>4, <1>8, <2>4, <2>5, Zenon DEF ChannelInv
<1>11. CASE p = NumChunks
  <2>1. f = DICT_DONE(ch) /\ f.kind = "CTRL_DICT_DONE" /\ 0 \in 0..NumChunks
    BY <1>7, <1>9, <1>11 DEF Piece, DICT_DONE, Frame
  <2>2. dicts'[ch] = FirstBytes(ch, v, 0) /\ (ch \in Sockets => published'[ch] = Dictionary(ch, v))
    BY <1>5, <1>6, <1>7, <1>11, <2>1, Gathered, Zenon
  <2>3. Transfer(ch, v, 0, t, w, q)
    BY <1>1, <1>2, <1>7, <1>9, <1>11, EmptyTransfer, Zenon
  <2>4. OnItsWay(ch)'
    BY <1>4, <2>1, <2>2, <2>3, Zenon DEF OnItsWay
  <2>5. ch \in Sockets => IsWhole(published[ch], ch)' /\ IsWhole(dictionary[ch], ch)'
    BY <1>4, <2>2, Zenon DEF ChannelInv, IsWhole
  <2> QED  BY <1>4, <1>8, <2>4, <2>5, Zenon DEF ChannelInv
<1> QED  BY <1>7, <1>10, <1>11

\* The set-up of a channel queues its dictionary, and no other channel's.
LEMMA ChannelSetUp ==
    ASSUME TypeOK, NEW ch \in Uarts, ChannelInv(ch), setup_channel
    PROVE  ChannelInv(ch)'
<1> DEFINE b == booted
           cq == ctrl_q
           w == wire["exporter"]
           q == usb_q["exporter"]
           s == send_dictionary(b, Dictionary(b, firmware[b]))
<1>a. b \in 0..NumUarts /\ b < NumUarts
  BY Zenon DEF setup_channel, TypeOK, TaskType
<1>1. b \in Uarts /\ b \in Nat /\ ch \in Nat
  BY <1>a, ProxyAssumption DEF Uarts
<1>2. /\ process["exporter"] = "boot" /\ booted' = b + 1 /\ usb_q'["exporter"] = q \o s
      /\ wire' = wire /\ UNCHANGED <<firmware, dictVars>>
  BY Indices, Zenon DEF setup_channel, TypeOK, QueueType
<1>3. cq \in Seq(Tunnelled) /\ w \in Seq(Tunnelled) /\ q \in Seq(Tunnelled)
  BY TheQueues, Zenon
<1>4. /\ s \in Seq(Controls) /\ Len(s) = NumChunks + 1 /\ NumChunks \in Nat
      /\ \A k \in 1..(NumChunks + 1) : s[k] = Piece(b, firmware[b], k)
  <2>1. firmware[b] \in Nat
    BY <1>1, Versions, Zenon
  <2>2. /\ s \in Seq(Controls) /\ Len(s) = NumChunks + 1 /\ NumChunks \in Nat
        /\ \A k \in 1..NumChunks : s[k] = Frag(b, firmware[b], k)
        /\ s[NumChunks + 1] = DICT_DONE(b)
    BY <1>1, <2>1, DictionaryFrames, ChunkBounds, Zenon
  <2> HIDE DEF s
  <2>3. ASSUME NEW k \in 1..(NumChunks + 1) PROVE s[k] = Piece(b, firmware[b], k)
    <3>1. (k <= NumChunks /\ k \in 1..NumChunks) \/ (k = NumChunks + 1 /\ ~(k <= NumChunks))
      BY <2>2
    <3> QED  BY <2>2, <3>1, Zenon DEF Piece
  <2> QED  BY <2>2, <2>3, Zenon
<1> HIDE DEF s
<1>5. s \in Seq(Tunnelled)
  <2>1. Controls \subseteq Tunnelled
    BY Zenon DEF Tunnelled
  <2> HIDE DEF Controls, Tunnelled
  <2> QED  BY <1>4, <2>1
<1>6. CASE ch = b
  <2> DEFINE v == firmware[b]
             R == Order(ch, v)
  <2>1. v \in Nat /\ v \in 1..firmware[ch]
    BY <1>1, <1>6, Versions, Zenon
  <2>2. NotBegun(ch)
    BY <1>1, <1>2, <1>6 DEF ChannelInv
  <2>3. NoneOf(cq, ch) /\ NoneOf(w, ch) /\ NoneOf(q, ch) /\ dicts[ch] = <<>>
    BY <2>2, Zenon DEF NotBegun
  <2> HIDE DEF v, cq, w, q
  <2>4. Transfer(ch, v, 0, cq, w, q)
    BY <1>3, <2>1, <2>3, EmptyTransfer, Zenon
  <2>5. Sorted(cq, R) /\ Sorted(w, R) /\ Sorted(q, R)
    BY <2>4, Zenon DEF Transfer, Pipeline
  <2>6. \A k \in 1..(NumChunks + 1) : s[k] = Piece(ch, v, k)
    BY <1>4, <1>6, Zenon DEF v
  <2>7. Transfer(ch, v, 0, cq, w, q \o s)
    BY <1>3, <1>4, <1>5, <2>1, <2>3, <2>5, <2>6, TransferBegins, Zenon
  <2>8. dicts'[ch] = FirstBytes(ch, v, 0) /\ 0 \in 0..NumChunks
    <3>1. dicts' = dicts /\ FirstBytes(ch, v, 0) = <<>> /\ NumChunks \in Nat
      BY <1>2, <2>1, Gathered, ChunkBounds, Zenon DEF dictVars
    <3>2. 0 \in 0..NumChunks
      BY <3>1
    <3> QED  BY <2>3, <3>1, <3>2, Zenon
  <2>9. v \in 1..firmware'[ch] /\ ctrl_q' = cq /\ wire'["exporter"] = w
    BY <1>2, <2>1, Zenon DEF dictVars, cq, w
  <2> DEFINE z == q \o s
  <2> HIDE DEF z
  <2>10. OnItsWay(ch)'
    BY <1>2, <2>7, <2>8, <2>9, Zenon DEF OnItsWay, z
  <2>11. ~(booted' <= ch)
    BY <1>1, <1>2, <1>6
  <2>12. ch \in Sockets => IsWhole(published[ch], ch)' /\ IsWhole(dictionary[ch], ch)'
    BY <1>2, Zenon DEF ChannelInv, IsWhole, dictVars
  <2> QED  BY <2>10, <2>11, <2>12, Zenon DEF ChannelInv
<1>7. CASE ch # b
  <2>1. NoneOf(s, ch)
    <3>1. ASSUME NEW f \in Range(s) PROVE ~Of(f, ch)
      <4>1. PICK k \in 1..(NumChunks + 1) : f = Piece(b, firmware[b], k)
        BY <1>4, Elements
      <4>2. Of(f, b)
        BY <1>1, <4>1, PieceFacts, Versions, Zenon
      <4> QED  BY <1>7, <4>2, Zenon DEF Of
    <3> QED  BY <3>1, Zenon DEF NoneOf
  <2>2. booted' <= ch => booted <= ch
    BY <1>1, <1>2
  <2> QED  BY <1>2, <1>5, <2>1, <2>2, ChannelQueues, Zenon
<1> QED  BY <1>6, <1>7, Zenon

\* The accept task of a channel takes the dictionary that was published.
LEMMA ChannelTakes ==
    ASSUME TypeOK, NEW ch \in Uarts, ChannelInv(ch), NEW h \in Sockets, take_dictionary(h)
    PROVE  ChannelInv(ch)'
<1>1. /\ UNCHANGED <<process, booted, firmware, usb_q, wire, ctrl_q, dicts, published>>
      /\ dictionary' = [dictionary EXCEPT ![h] = published[h]]
  BY Zenon DEF take_dictionary, usbVars, exporterVars
<1>2. ch \in Sockets => dictionary'[ch] = dictionary[ch] \/ dictionary'[ch] = published[ch]
  BY <1>1, Zenon DEF TypeOK, DictType
<1>3. OnItsWay(ch)' /\ (NotBegun(ch) => NotBegun(ch)')
  BY <1>1, Zenon DEF ChannelInv, OnItsWay, NotBegun
<1>4. ch \in Sockets => IsWhole(published[ch], ch)' /\ IsWhole(dictionary[ch], ch)'
  BY <1>1, <1>2, Zenon DEF ChannelInv, IsWhole
<1> QED  BY <1>1, <1>3, <1>4, Zenon DEF ChannelInv

\* The host ends or starts while nothing of the channel is under way.
LEMMA ChannelHostEnds ==
    ASSUME TypeOK, NEW ch \in Uarts, ChannelInv(ch), ~Underway(ch), Exit("host")
    PROVE  ChannelInv(ch)'
<1> DEFINE cq == ctrl_q
           w == wire["exporter"]
           q == usb_q["exporter"]
<1>1. dicts[ch] = <<>> /\ NoneOf(cq, ch) /\ NoneOf(w, ch)
  BY NotUnderway, Zenon
<1>2. /\ ctrl_q' = <<>> /\ wire'["exporter"] = w /\ usb_q'["exporter"] = q
      /\ dicts'[ch] = <<>> /\ process'["exporter"] = process["exporter"] /\ UNCHANGED <<booted, firmware>>
      /\ ch \in Sockets => published'[ch] = None /\ dictionary'[ch] = None
  BY Indices, ZenonT(30) DEF Exit, TypeOK, QueueType, TaskType
<1>3. \A R : Sorted(<<>>, R) /\ Range(<<>>) = {}
  BY EmptyQueue, Zenon
<1> HIDE DEF cq, w, q
<1>4. ASSUME NEW v \in Nat, NEW p \in 0..NumChunks, Transfer(ch, v, p, cq, w, q)
      PROVE  Transfer(ch, v, p, <<>>, w, q)
  <2> DEFINE R == Order(ch, v)
             n == <<>>
  <2>1. Sorted(w, R) /\ Sorted(q, R) /\ p \in Nat
    BY <1>4, ChunkBounds DEF Transfer, Pipeline
  <2>2. Sorted(n, R) /\ Range(n) = {}
    BY <1>3, Zenon
  <2> HIDE DEF n, R
  <2>3. Transfer(ch, v, p, n, w, q)
    BY <1>1, <1>4, <2>1, <2>2, TransferShrinks, Zenon DEF NoneOf, R
  <2> QED  BY <2>3, Zenon DEF n
<1>5. OnItsWay(ch)'
  <2>1. PICK v \in 1..firmware[ch], p \in 0..NumChunks :
           dicts[ch] = FirstBytes(ch, v, p) /\ Transfer(ch, v, p, cq, w, q)
    BY Zenon DEF ChannelInv, OnItsWay, cq, w, q
  <2>2. Transfer(ch, v, p, <<>>, w, q)
    BY <1>4, <2>1, Versions, Zenon
  <2> QED  BY <1>1, <1>2, <2>1, <2>2, Zenon DEF OnItsWay
<1>6. NotBegun(ch) => NotBegun(ch)'
  BY <1>2, <1>3, Zenon DEF NotBegun, NoneOf, cq, w, q
<1>7. ch \in Sockets => IsWhole(published[ch], ch)' /\ IsWhole(dictionary[ch], ch)'
  BY <1>2, Zenon DEF IsWhole
<1> QED  BY <1>2, <1>5, <1>6, <1>7, Zenon DEF ChannelInv

\* A host that starts outside a transfer waits for one from its first piece.
LEMMA ChannelHostStarts ==
    ASSUME TypeOK, NEW ch \in Uarts, ChannelInv(ch), ~Underway(ch), Start("host")
    PROVE  ChannelInv(ch)'
<1> DEFINE cq == ctrl_q
           w == wire["exporter"]
           q == usb_q["exporter"]
<1>1. NoneOf(w, ch) /\ w \in Seq(Tunnelled)
  BY NotUnderway, TheQueues, Zenon
<1>2. /\ process'["exporter"] = process["exporter"]
      /\ UNCHANGED <<usb_q, booted, firmware, dictVars>>
  BY Indices, Zenon DEF Start, TypeOK, TaskType, exporterVars
<1> DEFINE x == wire'["exporter"]
           y(k) == SubSeq(w, k + 1, Len(w))
<1>3. Range(x) \subseteq Range(w) /\ \A R : Sorted(w, R) => Sorted(x, R)
  <2>1. PICK k \in 0..Len(w) : wire' = [wire EXCEPT !["exporter"] = y(k)]
    BY Indices, Zenon DEF Start
  <2> HIDE DEF w
  <2>2. Range(y(k)) \subseteq Range(w) /\ \A R : Sorted(w, R) => Sorted(y(k), R)
    BY <1>1, <2>1, CutFirst, Zenon
  <2> HIDE DEF y
  <2>3. x = y(k)
    BY <2>1, Indices, Zenon DEF TypeOK, QueueType
  <2> QED  BY <2>2, <2>3, Zenon
<1> HIDE DEF w, x
<1>4. ctrl_q' = cq /\ usb_q'["exporter"] = q /\ UNCHANGED <<dicts[ch], firmware[ch], published, dictionary>>
  BY <1>2, Zenon DEF dictVars
<1> HIDE DEF cq, q
<1>5. ASSUME NEW v \in Nat, NEW p \in 0..NumChunks, Transfer(ch, v, p, cq, w, q)
      PROVE  Transfer(ch, v, p, cq, x, q)
  <2> DEFINE R == Order(ch, v)
  <2>1. Sorted(cq, R) /\ Sorted(w, R) /\ Sorted(q, R) /\ p \in Nat
    BY <1>5, ChunkBounds DEF Transfer, Pipeline
  <2>2. Sorted(x, R)
    BY <1>3, <2>1, Zenon
  <2> HIDE DEF R
  <2> QED  BY <1>1, <1>3, <1>5, <2>1, <2>2, TransferShrinks, Zenon DEF NoneOf, R
<1>6. \A f \in Range(cq) \cup Range(x) \cup Range(q) : f \in Range(cq) \cup Range(w) \cup Range(q)
  BY <1>3, Zenon
<1>7. \A v \in 1..firmware[ch], p \in 0..NumChunks :
         Transfer(ch, v, p, cq, w, q) => Transfer(ch, v, p, cq, x, q)
  BY <1>5, Versions, Zenon
<1> QED  BY <1>2, <1>4, <1>6, <1>7, ChannelMoves, Zenon DEF cq, w, q, x

\* The exporter starts, or the MCU of a channel is flashed.
LEMMA ChannelExporterStarts ==
    ASSUME TypeOK, DownInv, NEW ch \in Uarts, ChannelInv(ch), ~Underway(ch), Start("exporter")
    PROVE  ChannelInv(ch)'
<1>1. /\ wire'["exporter"] = wire["exporter"] /\ UNCHANGED <<usb_q, booted, firmware, dictVars>>
      /\ process["exporter"] = "down"
  BY Indices, Zenon DEF Start, TypeOK, QueueType, exporterVars
<1>2. usb_q["exporter"] = <<>> /\ Range(<<>>) = {}
  BY <1>1, EmptyQueue, Zenon DEF DownInv
<1>3. dicts[ch] = <<>> /\ NoneOf(ctrl_q, ch) /\ NoneOf(wire["exporter"], ch)
  BY NotUnderway, Zenon
<1>4. NotBegun(ch)'
  BY <1>1, <1>2, <1>3, Zenon DEF NotBegun, NoneOf, dictVars
<1>5. OnItsWay(ch)'
  BY <1>1, Zenon DEF ChannelInv, OnItsWay, dictVars
<1>6. ch \in Sockets => IsWhole(published[ch], ch)' /\ IsWhole(dictionary[ch], ch)'
  BY <1>1, Zenon DEF ChannelInv, IsWhole, dictVars
<1> QED  BY <1>4, <1>5, <1>6, Zenon DEF ChannelInv

\* New firmware of an MCU changes nothing the exporter has fetched before.
LEMMA ChannelFlashes ==
    ASSUME TypeOK, NEW ch \in Uarts, ChannelInv(ch), NEW h \in Uarts, Flash(h)
    PROVE  ChannelInv(ch)'
<1>1. UNCHANGED <<process, booted, usbVars, dictVars>> /\ process["exporter"] = "down"
  BY Zenon DEF Flash
<1>2. \A v \in 1..firmware[ch] : v \in 1..firmware'[ch]
  BY DEF Flash, TypeOK, TaskType
<1>3. OnItsWay(ch)'
  BY <1>1, <1>2, Zenon DEF ChannelInv, OnItsWay, usbVars, dictVars
<1>4. ch \in Sockets => IsWhole(published[ch], ch)' /\ IsWhole(dictionary[ch], ch)'
  BY <1>1, <1>2, Zenon DEF ChannelInv, IsWhole, dictVars
<1> QED  BY <1>1, <1>3, <1>4, Zenon DEF ChannelInv

-----------------------------------------------------------------------------
\* The writers of the link.
LEMMA WritersKeepDict ==
    ASSUME TypeOK, DictInv, NEW side \in Sides, usb_write(side) \/ usb_write_error(side)
    PROVE  DictInv'
<1>1. /\ UNCHANGED <<process, exporterVars, dictVars, torn>> /\ Running(side)
      /\ ~garbled' => ~garbled /\ \A either \in Sides : aligned[either] => aligned'[either]
  <2>1. CASE usb_write(side)
    BY <2>1, Zenon DEF usb_write, history
  <2>2. CASE usb_write_error(side)
    BY <2>2, MisalignsMeans, Indices, Zenon DEF usb_write_error
  <2> QED  BY <2>1, <2>2, Zenon
<1>2. CASE side = "host"
  <2>1. wire'["exporter"] = wire["exporter"] /\ usb_q'["exporter"] = usb_q["exporter"]
    BY <1>2, Indices, Zenon DEF usb_write, usb_write_error, TypeOK, QueueType
  <2> QED  BY <1>1, <2>1, QuietKeeps, Zenon DEF exporterVars
<1>3. CASE side = "exporter"
  <2>1. DownInv'
    BY <1>1, <1>3, Zenon DEF DownInv, Running
  <2>2. ASSUME NEW ch \in Uarts, ChannelInv(ch) PROVE ChannelInv(ch)'
    <3>1. CASE usb_write(side)
      BY <1>3, <2>2, <3>1, ChannelWrite, Zenon
    <3>2. CASE usb_write_error(side)
      <4>1. usb_q'["exporter"] = <<>> /\ wire' = wire
        BY <1>3, <3>2, Indices, Zenon DEF usb_write_error, TypeOK, QueueType
      <4> QED  BY <1>1, <2>2, <4>1, ChannelCut, Zenon DEF exporterVars
    <3> QED  BY <3>1, <3>2, Zenon
  <2> QED  BY <1>1, <2>1, <2>2, Zenon DEF DictInv
<1> QED  BY <1>2, <1>3, Indices, Zenon

\* The exporter boots a channel, or reads the link.
LEMMA ExporterKeepsDict ==
    ASSUME TypeOK, DictInv, setup_channel \/ exporter_usb_read
    PROVE  DictInv'
<1>1. CASE setup_channel
  <2>1. process'["exporter"] # "down" /\ UNCHANGED <<aligned, history>>
    BY <1>1, Indices, Zenon DEF setup_channel, TypeOK, TaskType
  <2>2. DownInv'
    BY <2>1, Zenon DEF DownInv
  <2>3. ASSUME NEW ch \in Uarts, ChannelInv(ch) PROVE ChannelInv(ch)'
    BY <1>1, <2>3, ChannelSetUp, Zenon
  <2> QED  BY <2>1, <2>2, <2>3, Zenon DEF DictInv, history
<1>2. CASE exporter_usb_read
  <2>1. wire'["exporter"] = wire["exporter"] /\ usb_q' = usb_q
    BY <1>2, Indices, Zenon DEF exporter_usb_read, TypeOK, QueueType
  <2>2. UNCHANGED <<process, booted, dictVars, firmware, mcu_task, torn, garbled, aligned>>
    BY <1>2, Zenon DEF exporter_usb_read
  <2> QED  BY <2>1, <2>2, QuietKeeps, Zenon
<1> QED  BY <1>1, <1>2, Zenon

\* The host reads the link, gathers and takes dictionaries.
LEMMA HostKeepsDict ==
    ASSUME TypeOK, DictInv, host_usb_read \/ gather_dictionary \/ \E h \in Sockets : take_dictionary(h)
    PROVE  DictInv'
<1>1. UNCHANGED <<process, exporterVars, usb_q, aligned, torn, garbled>>
  BY Zenon DEF host_usb_read, gather_dictionary, take_dictionary, usbVars, history
<1>2. DownInv'
  BY <1>1, Zenon DEF DictInv, DownInv, exporterVars
<1>3. ASSUME NEW ch \in Uarts, ChannelInv(ch), aligned["host"] PROVE ChannelInv(ch)'
  BY <1>3, ChannelRead, ChannelGathers, ChannelGathersOther, ChannelTakes, Zenon
<1> QED  BY <1>1, <1>2, <1>3, Indices, Zenon DEF DictInv

\* The tasks of an MCU.
LEMMA McuKeepsDict ==
    ASSUME TypeOK, DictInv, NEW h \in Uarts, mcu_to_usb(h) \/ usb_to_mcu(h) \/ mcu_error(h) \/ Flash(h)
    PROVE  DictInv'
<1>1. CASE usb_to_mcu(h) \/ mcu_error(h)
  <2>1. UNCHANGED <<process, booted, dictVars, firmware, usbVars, torn, garbled>>
    BY <1>1, Zenon DEF usb_to_mcu, mcu_error
  <2>2. \A ch \in Uarts : mcu_task'[ch] => mcu_task[ch]
    BY <1>1, Zenon DEF usb_to_mcu, mcu_error, TypeOK, TaskType
  <2> QED  BY <2>1, <2>2, QuietKeeps, Zenon DEF usbVars
<1>2. CASE mcu_to_usb(h)
  <2> DEFINE f == Payload(h, 0, mcu_sent[h] + 1)
             q == usb_q["exporter"]
  <2>1. /\ UNCHANGED <<process, booted, dictVars, firmware, wire, aligned, torn, garbled>>
        /\ mcu_task[h] /\ send_usb("exporter", f)
    BY <1>2, Zenon DEF mcu_to_usb
  <2>2. DownInv'
    BY <2>1, Zenon DEF DictInv, DownInv
  <2>3. f \in Tunnelled /\ \A ch : ~Of(f, ch)
    <3>1. mcu_sent[h] + 1 \in Nat /\ h \in ChIds
      BY Indices DEF TypeOK, HistoryType
    <3>2. f \in Payloads
      BY <3>1, FrameTypes, Zenon
    <3> QED  BY <3>2, Zenon DEF Tunnelled, Of, Control, Payloads
  <2>4. q \in Seq(Tunnelled) /\ (usb_q'["exporter"] = q \/ usb_q'["exporter"] = Append(q, f))
    BY <2>1, TheQueues, Indices, Zenon DEF send_usb, TypeOK, QueueType
  <2> HIDE DEF f, q
  <2>5. <<f>> \in Seq(Tunnelled) /\ Range(<<f>>) = {f} /\ Append(q, f) = q \o <<f>>
    <3>1. <<f>> \in Seq(Tunnelled) /\ Append(q, f) = q \o <<f>>
      BY <2>3, <2>4
    <3>2. Range(<<f>>) = {f}
      BY DEF Range
    <3> QED  BY <3>1, <3>2, Zenon
  <2>6. ASSUME NEW ch \in Uarts, ChannelInv(ch) PROVE ChannelInv(ch)'
    <3>1. CASE usb_q'["exporter"] = q
      BY <2>1, <2>6, <3>1, ChannelStays, Zenon DEF ChannelVars, dictVars, q
    <3>2. CASE usb_q'["exporter"] = Append(q, f)
      <4> DEFINE s == <<f>>
      <4>1. NoneOf(s, ch) /\ s \in Seq(Tunnelled) /\ usb_q'["exporter"] = q \o s
        BY <2>3, <2>5, <3>2, Zenon DEF NoneOf
      <4> HIDE DEF s
      <4> QED  BY <2>1, <2>6, <4>1, ChannelQueues, Zenon DEF q
    <3> QED  BY <2>4, <3>1, <3>2, Zenon
  <2> QED  BY <2>1, <2>2, <2>6, Zenon DEF DictInv
<1>3. CASE Flash(h)
  <2>1. UNCHANGED <<process, booted, usb_q, mcu_task, aligned, torn, garbled>>
    BY <1>3, Zenon DEF Flash, usbVars, history
  <2>2. DownInv'
    BY <2>1, Zenon DEF DictInv, DownInv
  <2>3. ASSUME NEW ch \in Uarts, ChannelInv(ch) PROVE ChannelInv(ch)'
    BY <1>3, <2>3, ChannelFlashes, Zenon
  <2> QED  BY <2>1, <2>2, <2>3, Zenon DEF DictInv
<1> QED  BY <1>1, <1>2, <1>3, Zenon

\* What is torn when a process ends or starts.
LEMMA TearsMeans ==
    ASSUME TypeOK, Tears, NEW ch \in Uarts, ~torn'[ch]
    PROVE  ~torn[ch] /\ ~Underway(ch)
BY Zenon DEF Tears, TypeOK, HistoryType

\* A process that ends within a transfer tears it.
LEMMA ExitKeepsDict ==
    ASSUME TypeOK, DictInv, NEW side \in Sides, Exit(side)
    PROVE  DictInv'
<1>1. Tears /\ Misaligns(Peer(side), Running(side) /\ usb_q[side] # <<>>)
  BY Zenon DEF Exit
<1>2. ~garbled' => ~garbled /\ \A either \in Sides : aligned'[either]
  <2>1. (Running(side) /\ usb_q[side] # <<>>) \in BOOLEAN
    BY Zenon
  <2> QED  BY <1>1, <2>1, MisalignsMeans, Indices, Zenon
<1>3. CASE side = "exporter"
  <2>1. /\ process'["exporter"] = "down" /\ booted' = 0 /\ usb_q'["exporter"] = <<>>
        /\ mcu_task' = [ch \in Uarts |-> FALSE] /\ wire' = wire
        /\ UNCHANGED <<firmware, dictVars>>
    BY <1>3, Indices, Zenon DEF Exit, TypeOK, TaskType, QueueType
  <2>2. DownInv'
    BY <2>1, Zenon DEF DownInv
  <2>3. ASSUME NEW ch \in Uarts, ChannelInv(ch) PROVE ChannelInv(ch)'
    BY <2>1, <2>3, ChannelCut, Zenon
  <2> QED  BY <1>1, <1>2, <2>2, <2>3, TearsMeans, Zenon DEF DictInv
<1>4. CASE side = "host"
  <2>1. process'["exporter"] = process["exporter"] /\ usb_q'["exporter"] = usb_q["exporter"]
        /\ UNCHANGED <<booted, mcu_task>>
    BY <1>4, Indices, Zenon DEF Exit, TypeOK, TaskType, QueueType
  <2>2. DownInv'
    BY <2>1, Zenon DEF DictInv, DownInv
  <2>3. ASSUME NEW ch \in Uarts, ChannelInv(ch), ~Underway(ch) PROVE ChannelInv(ch)'
    BY <1>4, <2>3, ChannelHostEnds, Zenon
  <2> QED  BY <1>1, <1>2, <2>2, <2>3, TearsMeans, Zenon DEF DictInv
<1> QED  BY <1>3, <1>4, Indices, Zenon

\* A host that starts within a transfer tears it; an exporter begins them anew.
LEMMA StartKeepsDict ==
    ASSUME TypeOK, DictInv, NEW side \in Sides, Start(side)
    PROVE  DictInv'
<1>1. PICK cut \in BOOLEAN : aligned' = [aligned EXCEPT ![side] = ~cut] /\ garbled' = (garbled \/ cut)
  BY Zenon DEF Start
<1>2. Tears /\ UNCHANGED <<usb_q, exporterVars>> /\ process' \in {[process EXCEPT ![side] = either] : either \in {"boot", "run"}}
  BY Zenon DEF Start
<1>3. ~garbled' => ~garbled /\ \A either \in Sides : aligned[either] => aligned'[either]
  BY <1>1, Zenon DEF TypeOK, TaskType
<1>4. DownInv'
  <2>a. process \in [Sides -> {"down", "boot", "run"}]
    BY Zenon DEF TypeOK, TaskType
  <2>b. PICK either \in {"boot", "run"} : process' = [process EXCEPT ![side] = either]
    BY <1>2, Zenon
  <2>1. process'["exporter"] = process["exporter"] \/ process'["exporter"] \in {"boot", "run"}
    BY <2>a, <2>b, Indices, Zenon
  <2>2. process'["exporter"] = "down" => process["exporter"] = "down"
    BY <2>1, Zenon
  <2> QED  BY <1>2, <2>2, Zenon DEF DictInv, DownInv, exporterVars
<1>5. ASSUME NEW ch \in Uarts, ChannelInv(ch), ~Underway(ch) PROVE ChannelInv(ch)'
  BY <1>5, ChannelHostStarts, ChannelExporterStarts, Indices, Zenon DEF DictInv
<1> QED  BY <1>2, <1>3, <1>4, <1>5, TearsMeans, Zenon DEF DictInv

\* The steps of a connection.
LEMMA ConnKeepsDict ==
    ASSUME TypeOK, DictInv, NEW ch \in Sockets, NEW c \in Conns, ConnAction(ch, c)
    PROVE  DictInv'
<1>1. /\ UNCHANGED <<process, wire, aligned, exporterVars, dictVars, torn, garbled>>
      /\ ~cmd_fwd_task(ch, c) => UNCHANGED <<usb_q, lost>>
  BY ConnFrame, Zenon
<1>2. usb_q'["exporter"] = usb_q["exporter"]
  <2>1. CASE cmd_fwd_task(ch, c)
    <3>1. send_usb("host", Head(conns[ch][c].to_exporter))
      BY <2>1, Zenon DEF cmd_fwd_task
    <3> QED  BY <3>1, Indices, Zenon DEF send_usb, TypeOK, QueueType
  <2> QED  BY <1>1, <2>1, Zenon
<1> QED  BY <1>1, <1>2, QuietKeeps, Zenon DEF exporterVars

\* The initial states.
LEMMA InitDict == Init => DictInv
<1> SUFFICES ASSUME Init PROVE DictInv
  BY Zenon
<1>1. TypeOK
  BY InitIInv, Zenon DEF IInv
<1>2. DownInv
  BY Zenon DEF Init, DownInv, Sides
<1>3. \A side \in Sides : aligned[side]
  BY Zenon DEF Init
<1>4. ASSUME NEW ch \in Uarts PROVE ChannelInv(ch)
  <2>1. /\ ctrl_q = <<>> /\ wire["exporter"] = <<>> /\ usb_q["exporter"] = <<>> /\ dicts[ch] = <<>>
        /\ process["exporter"] = "down"
        /\ ch \in Sockets => published[ch] = None /\ dictionary[ch] = None
    <3>1. PICK h \in {"down", "run"} : process = [exporter |-> "down", host |-> h]
      BY Zenon DEF Init
    <3>2. process["exporter"] = "down"
      BY <3>1, Zenon
    <3> QED  BY <3>2, Indices, Zenon DEF Init
  <2>2. NoneOf(<<>>, ch) /\ <<>> \in Seq(Tunnelled)
    BY EmptyQueue, Zenon DEF NoneOf
  <2>3. Transfer(ch, 1, 0, <<>>, <<>>, <<>>)
    BY <2>2, EmptyTransfer, Zenon
  <2>4. 1 \in 1..firmware[ch] /\ 0 \in 0..NumChunks
    BY <1>1, Versions, ChunkBounds
  <2>5. FirstBytes(ch, 1, 0) = <<>>
    BY Gathered, Zenon
  <2>6. OnItsWay(ch)
    BY <2>1, <2>3, <2>4, <2>5, Zenon DEF OnItsWay
  <2>7. ch \in Sockets => IsWhole(published[ch], ch) /\ IsWhole(dictionary[ch], ch)
    BY <2>1, Zenon DEF IsWhole
  <2>8. process["exporter"] # "boot"
    BY <2>1, Zenon
  <2> QED  BY <2>6, <2>7, <2>8, Zenon DEF ChannelInv
<1> QED  BY <1>2, <1>3, <1>4, Zenon DEF DictInv

\* Every step.
LEMMA NextDict == IInv /\ DictInv /\ [Next]_vars => DictInv'
<1> SUFFICES ASSUME TypeOK, DictInv, [Next]_vars PROVE DictInv'
  BY Zenon DEF IInv
<1>1. ASSUME NEW side \in Sides, usb_write(side) \/ usb_write_error(side) \/ Exit(side) \/ Start(side) PROVE DictInv'
  BY <1>1, WritersKeepDict, ExitKeepsDict, StartKeepsDict, Zenon
<1>2. ASSUME setup_channel \/ exporter_usb_read \/ host_usb_read \/ gather_dictionary PROVE DictInv'
  BY <1>2, ExporterKeepsDict, HostKeepsDict, Zenon
<1>3. ASSUME NEW ch \in Uarts, mcu_to_usb(ch) \/ usb_to_mcu(ch) \/ mcu_error(ch) \/ Flash(ch) PROVE DictInv'
  BY <1>3, McuKeepsDict, Zenon
<1>4. ASSUME NEW ch \in Sockets, take_dictionary(ch) PROVE DictInv'
  BY <1>4, HostKeepsDict, Zenon
<1>5. ASSUME NEW ch \in Sockets, NEW c \in Conns, ConnAction(ch, c) PROVE DictInv'
  BY <1>5, ConnKeepsDict, Zenon
<1>6. CASE UNCHANGED vars
  <2>1. UNCHANGED <<process, usbVars, exporterVars, dictVars, history>>
    BY <1>6, Zenon DEF vars
  <2> QED  BY <2>1, QuietKeeps, Zenon DEF usbVars, exporterVars, history
<1> QED  BY <1>1, <1>2, <1>3, <1>4, <1>5, <1>6, Zenon DEF Next, ConnAction

\* What the host publishes for a channel, and what it then gives to Klipper, is
\* byte for byte a dictionary that the channel's own MCU had, however the
\* fragments of several channels, payloads of the MCUs, lost writers, restarts
\* and new firmware interleave, as long as no process ended or started within
\* the transfer and no decoder lost the frame boundary (send_dictionary,
\* gather_dictionary).
THEOREM DictionariesAreWhole == Spec => []DictionaryWhole
<1>1. IInv /\ DictInv => DictionaryWhole
  <2>1. Sockets \subseteq Uarts
    BY Indices, Zenon
  <2> QED  BY <2>1, Zenon DEF DictInv, ChannelInv, IsWhole, DictionaryWhole
<1> QED  BY <1>1, InitIInv, NextIInv, InitDict, NextDict, PTL DEF Spec
=============================================================================
