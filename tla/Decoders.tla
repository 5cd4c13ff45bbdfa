------------------------------ MODULE Decoders ------------------------------
(***************************************************************************)
(* The decoders of the two programs at work: FrameParser::feed, called by  *)
(* link_read, and the three codecs of windlass-bridge under FramedRead,    *)
(* which appends what a read returned to a buffer and decodes until        *)
(* nothing is found.  One of them is chosen at the start; a stream may be  *)
(* damaged and is cut into reads anywhere.                                 *)
(***************************************************************************)
EXTENDS FrameParser, WindlassCodec, SequencesExt

CONSTANTS MaxStream,    \* bound: bytes received by FrameParser
          MaxRead       \* bound: bytes received by a codec of windlass

ASSUME StreamBounds == MaxStream \in Nat /\ MaxRead \in Nat

VARIABLES decoder,   \* which of the four
          buf,       \* bytes that are not decoded yet
          synced,    \* KlipperFramer::synced
          received,  \* every byte fed since the start
          frames     \* what was decoded since then

vars == <<decoder, buf, synced, received, frames>>

Init ==
    /\ decoder \in {"FrameParser", "TunnelCodec", "PayloadTunnelCodec", "KlipperFramer"}
    /\ buf = <<>>
    /\ synced = FALSE
    /\ received = <<>>
    /\ frames = <<>>

\* FramedRead of tokio_util, for each codec.
decode_all(s) ==
    CASE decoder = "TunnelCodec"        -> TunnelCodec_decode(s, frames)
      [] decoder = "PayloadTunnelCodec" -> PayloadTunnelCodec_decode(s, frames)
      [] decoder = "KlipperFramer"      -> KlipperFramer_decode(s, synced, frames)

feed(data) ==
    /\ received' = received \o data
    /\ IF decoder = "FrameParser"
       THEN LET end == fill(buf, data, frames)
            IN  buf' = end.buf /\ frames' = end.out /\ UNCHANGED synced
       ELSE LET end == decode_all(buf \o data)
            IN  buf' = end.buf /\ frames' = end.out /\ synced' = end.synced
    /\ UNCHANGED decoder

\* FrameParser::reset when the link is opened, a new FramedRead for a new
\* connection: a new stream begins.
reset ==
    /\ buf' = <<>>
    /\ synced' = FALSE
    /\ received' = <<>>
    /\ frames' = <<>>
    /\ UNCHANGED decoder

Bound == IF decoder = "FrameParser" THEN MaxStream ELSE MaxRead

Next ==
    \/ \E n \in 1..(Bound - Len(received)) : \E data \in [1..n -> Byte] : feed(data)
    \/ reset

Spec == Init /\ [][Next]_vars

-----------------------------------------------------------------------------
\* The buffers stay below one frame: that of FrameParser never reaches its
\* capacity between two passes, so the branch of feed that drops input is
\* never taken, and those of windlass do not grow with garbage.
TypeOK ==
    /\ buf \in Seq(Byte)
    /\ Len(buf) < CASE decoder = "FrameParser"        -> MAX_FRAME
                    [] decoder = "TunnelCodec"        -> 1 + MESSAGE_LENGTH_MAX
                    [] decoder = "PayloadTunnelCodec" -> 2 + Max(Byte)
                    [] decoder = "KlipperFramer"      -> MESSAGE_LENGTH_MAX
    /\ synced \in BOOLEAN /\ (synced => decoder = "KlipperFramer")
    /\ received \in Seq(Byte)
    /\ decoder = "FrameParser" => frames \in Seq(Seq(Byte))
    /\ decoder = "KlipperFramer" => frames \in Seq(Seq(Byte))

\* However the stream is cut into reads, and whatever damage it holds, the
\* parser delivers the frames the stream contains: none invented, none lost,
\* in order.  A valid frame after a damaged one is found even when the damaged
\* header claimed its bytes (FrameParser, "re-syncs automatically").
FramesOfStream == decoder = "FrameParser" => frames = Meaning(received, 1)

\* What a stream means to TunnelCodec and KlipperFramer, without a buffer and
\* without a state: a frame starts at the first place from p on where one fits,
\* or where one may yet turn out to.  For KlipperFramer that place follows a
\* sync byte.
Starts(s, i) ==
    decoder = "TunnelCodec" \/ (i > 1 /\ s[i - 1] = MESSAGE_VALUE_SYNC
                                      /\ s[i] # MESSAGE_VALUE_SYNC)
Header == IF decoder = "TunnelCodec" THEN 1 ELSE 0
Unfinished(s, i) ==
    \/ Len(s) < i + Header
    \/ valid_length(s[i + Header]) /\ Len(s) < i + Header + s[i + Header] - 1
Complete(s, i) ==
    /\ ~Unfinished(s, i)
    /\ valid_length(s[i + Header])
    /\ s[i + Header + s[i + Header] - 1] = MESSAGE_VALUE_SYNC
RECURSIVE KlipperMeaning(_, _)
KlipperMeaning(s, p) ==
    LET starts == {i \in p..Len(s) : Starts(s, i) /\ (Unfinished(s, i) \/ Complete(s, i))}
        first == Min(starts)
        next == first + Header + s[first + Header]
    IN  IF starts = {} \/ Unfinished(s, first) THEN <<>>
        ELSE <<SubSeq(s, first, next - 1)>> \o KlipperMeaning(s, next)

\* TunnelCodec and KlipperFramer deliver the frames the stream contains,
\* however it is cut and damaged ("any corruption is quickly redetected"), and
\* what TunnelCodec delivers is what its peer encoded there.
KlipperFrames ==
    decoder \in {"TunnelCodec", "KlipperFramer"} =>
       KlipperMeaning(received, 1) =
          [k \in 1..Len(frames) |-> IF decoder = "TunnelCodec" THEN TunnelCodec_encode(frames[k])
                                    ELSE frames[k]]

\* PayloadTunnelCodec is its own inverse: the frames it delivered encode to
\* the stream it was given, but for a last part that is not a frame yet.
PayloadInverse ==
    decoder = "PayloadTunnelCodec" =>
       /\ received = FoldLeft(LAMBDA acc, f : acc \o PayloadTunnelCodec_encode(f), <<>>, frames) \o buf
       /\ Len(buf) < 2 \/ Len(buf) < 2 + buf[2]
=============================================================================
