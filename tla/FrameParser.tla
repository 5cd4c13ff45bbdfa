---------------------------- MODULE FrameParser -----------------------------
(***************************************************************************)
(* The frame format of the link and its incremental parser (protocol.rs,   *)
(* build_frame and FrameParser).  A frame is the magic pair, a length, the *)
(* payload and its checksum; type and channel, which the parser passes on  *)
(* unread, are left out, and a length or a checksum is one byte.  link_read*)
(* feeds the parser whatever read(2) returned, so a frame may be cut       *)
(* anywhere, and bytes may be lost or damaged between two frames.          *)
(***************************************************************************)
EXTENDS Integers, Sequences, FiniteSetsExt

CONSTANTS Plain,           \* the byte values outside the magic pair
          M1, M2,          \* 0xAA 0x55
          MAX_PAYLOAD,
          Guard            \* bytes of the buffer beyond one largest frame

Byte == Plain \cup {M1, M2}
HDR_SIZE == 3
CRC_SIZE == 1
MAX_FRAME == HDR_SIZE + MAX_PAYLOAD + CRC_SIZE
PARSER_BUF_CAP == MAX_FRAME + Guard

ASSUME BytesAssumption == Byte \subseteq Nat /\ M1 # M2 /\ {M1, M2} \cap Plain = {}
ASSUME BoundsAssumption == MAX_PAYLOAD \in Nat /\ Guard \in Nat

\* The checksum tells payloads of up to one byte apart; that of none is zero.
RECURSIVE crc32(_)
crc32(payload) ==
    IF payload = <<>> THEN 0 ELSE (Head(payload) + 2 * crc32(Tail(payload))) % 5

build_frame(payload) ==
    IF Len(payload) > MAX_PAYLOAD THEN <<>>
    ELSE <<M1, M2, Len(payload)>> \o payload \o <<crc32(payload)>>

From(s, i) == SubSeq(s, i, Len(s))

\* Where the first magic pair starts, or the last byte if there is none.
magic_at(s) ==
    Min({i \in 1..(Len(s) - 1) : s[i] = M1 /\ s[i + 1] = M2} \cup {Len(s)})

Parsed(rest, out) == [buf |-> rest, out |-> out]

\* Faulty variant: a frame with a bad checksum is skipped whole.
skip_frame(s) == From(s, HDR_SIZE + s[3] + CRC_SIZE + 1)

\* Past the magic pair of a frame with a bad checksum.
skip_magic(s) == From(s, 3)

\* Faulty variant: without a magic pair everything is kept.
keep_all(s) == s

\* Without a magic pair the last byte is kept: it may be its first half.
keep_last(s) == From(s, Len(s))

\* drain_frames: what is left of the buffer s, and the payloads found.
RECURSIVE drain_frames(_, _)
drain_frames(s, out) ==
    LET i == magic_at(s)
        t == From(s, i)
        total == HDR_SIZE + t[3] + CRC_SIZE
        payload == SubSeq(t, HDR_SIZE + 1, HDR_SIZE + t[3])
    IN  CASE Len(s) < 2                 -> Parsed(s, out)
          [] Len(s) >= 2 /\ i = Len(s)  -> Parsed(keep_last(s), out)
          [] OTHER ->
               IF Len(t) < HDR_SIZE THEN Parsed(t, out)
               ELSE IF t[3] > MAX_PAYLOAD THEN drain_frames(From(t, 3), out)
               ELSE IF Len(t) < total THEN Parsed(t, out)
               ELSE IF t[total] # crc32(payload) THEN drain_frames(skip_magic(t), out)
               ELSE drain_frames(From(t, total + 1), Append(out, payload))

\* FrameParser::feed, in passes: fill the buffer s from data, drain it, and go on.  A
\* buffer that is full before the fill drops the rest of the data.
RECURSIVE fill(_, _, _)
fill(s, data, out) ==
    LET copy == Min({Len(data), PARSER_BUF_CAP - Len(s)})
        pass == drain_frames(s \o SubSeq(data, 1, copy), out)
    IN  IF copy = 0 THEN Parsed(s, out)
        ELSE fill(pass.buf, From(data, copy + 1), pass.out)

-----------------------------------------------------------------------------
\* What a stream of bytes means, without a buffer: from position p, the first
\* place where a frame of build_frame starts, or where one may yet turn out to
\* start because the stream ends inside it.
Payloads == UNION {[1..n -> Byte] : n \in 0..MAX_PAYLOAD}
FrameAt(s, p) ==
    {x \in Payloads : /\ p + HDR_SIZE + Len(x) <= Len(s)
                      /\ SubSeq(s, p, p + HDR_SIZE + Len(x)) = build_frame(x)}
OpenAt(s, p) ==
    /\ \A k \in p..Min({p + 1, Len(s)}) : s[k] = <<M1, M2>>[k - p + 1]
    /\ \/ Len(s) < p + 2
       \/ s[p + 2] <= MAX_PAYLOAD /\ Len(s) < p + HDR_SIZE + s[p + 2]
RECURSIVE Meaning(_, _)
Meaning(s, p) ==
    LET starts == {i \in p..Len(s) : FrameAt(s, i) # {} \/ OpenAt(s, i)}
        first == Min(starts)
        payload == CHOOSE x \in FrameAt(s, first) : TRUE
    IN  IF starts = {} \/ OpenAt(s, first) THEN <<>>
        ELSE <<payload>> \o Meaning(s, first + HDR_SIZE + Len(payload) + CRC_SIZE)
=============================================================================
