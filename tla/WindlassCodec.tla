--------------------------- MODULE WindlassCodec ----------------------------
(***************************************************************************)
(* The codecs of windlass-bridge (windlass/framing.rs).  A frame of Klipper*)
(* begins with its length and ends with the sync byte.  KlipperFramer cuts *)
(* a raw stream into frames; TunnelCodec carries them over the link behind *)
(* a channel id; PayloadTunnelCodec carries payloads behind a channel id   *)
(* and a length.  decode is called until it returns None: the operators    *)
(* give what is left of the buffer and every frame found.                  *)
(***************************************************************************)
EXTENDS Integers, Sequences

CONSTANTS MESSAGE_LENGTH_MIN, MESSAGE_LENGTH_MAX, MESSAGE_VALUE_SYNC,
          PayloadMax     \* 255

\* The sync byte is no length.
ASSUME LengthsAssumption ==
    /\ MESSAGE_LENGTH_MIN \in Nat \ {0, 1}
    /\ MESSAGE_LENGTH_MIN <= MESSAGE_LENGTH_MAX
    /\ MESSAGE_VALUE_SYNC \in Nat \ (MESSAGE_LENGTH_MIN..MESSAGE_LENGTH_MAX)

Rest(s, n) == SubSeq(s, n + 1, Len(s))
Decoded(rest, synced, out) == [buf |-> rest, synced |-> synced, out |-> out]

valid_length(n) == n \in MESSAGE_LENGTH_MIN..MESSAGE_LENGTH_MAX

\* Faulty variant: a frame without its sync byte is skipped whole.
tunnel_skip_frame(s) == Rest(s, 1 + s[2])

\* A bad trailing sync byte: skip one byte and try again.
tunnel_skip(s) == Tail(s)

RECURSIVE TunnelCodec_decode(_, _)
TunnelCodec_decode(s, out) ==
    IF Len(s) < 2 THEN Decoded(s, FALSE, out)
    ELSE IF ~valid_length(s[2]) THEN TunnelCodec_decode(Tail(s), out)
    ELSE IF Len(s) < 1 + s[2] THEN Decoded(s, FALSE, out)
    ELSE IF s[1 + s[2]] # MESSAGE_VALUE_SYNC THEN TunnelCodec_decode(tunnel_skip(s), out)
    ELSE TunnelCodec_decode(Rest(s, 1 + s[2]),
                            Append(out, [ch_id |-> s[1], frame |-> SubSeq(s, 2, 1 + s[2])]))

TunnelCodec_encode(f) == <<f.ch_id>> \o f.frame

\* Faulty variant: a frame is taken only when the next one has begun.
payload_arrived_late(s) == Len(s) >= 2 /\ Len(s) > 2 + s[2]

payload_arrived(s) == Len(s) >= 2 /\ Len(s) >= 2 + s[2]

RECURSIVE PayloadTunnelCodec_decode(_, _)
PayloadTunnelCodec_decode(s, out) ==
    IF ~payload_arrived(s) THEN Decoded(s, FALSE, out)
    ELSE PayloadTunnelCodec_decode(Rest(s, 2 + s[2]),
                                   Append(out, [ch_id |-> s[1], frame |-> SubSeq(s, 3, 2 + s[2])]))

\* A payload that is too long is an error, and nothing is written.
PayloadTunnelCodec_encode(f) ==
    IF Len(f.frame) > PayloadMax THEN <<>> ELSE <<f.ch_id, Len(f.frame)>> \o f.frame

\* Faulty variant: out of sync, everything that has arrived is dropped.
scan_clear(s) == Decoded(<<>>, FALSE, <<>>)

\* Out of sync: on behind the first sync byte, or drop what there is.
scan(s) ==
    LET at == {i \in 1..Len(s) : s[i] = MESSAGE_VALUE_SYNC}
        pos == CHOOSE i \in at : \A j \in at : i <= j
    IN  IF at = {} THEN Decoded(<<>>, FALSE, <<>>) ELSE Decoded(Rest(s, pos), TRUE, <<>>)

RECURSIVE KlipperFramer_decode(_, _, _)
KlipperFramer_decode(s, synced, out) ==
    IF s = <<>> THEN Decoded(s, synced, out)
    ELSE IF ~synced THEN KlipperFramer_decode(scan(s).buf, scan(s).synced, out)
    ELSE IF s[1] = MESSAGE_VALUE_SYNC THEN KlipperFramer_decode(Tail(s), TRUE, out)
    ELSE IF ~valid_length(s[1]) THEN KlipperFramer_decode(Tail(s), FALSE, out)
    ELSE IF Len(s) < s[1] THEN Decoded(s, TRUE, out)
    ELSE IF s[s[1]] # MESSAGE_VALUE_SYNC THEN KlipperFramer_decode(Tail(s), FALSE, out)
    ELSE KlipperFramer_decode(Rest(s, s[1]), TRUE, Append(out, SubSeq(s, 1, s[1])))
=============================================================================
