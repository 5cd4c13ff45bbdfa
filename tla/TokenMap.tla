------------------------------ MODULE TokenMap ------------------------------
(***************************************************************************)
(* The mio tokens of a daemon (channel.rs): a number for every fd it       *)
(* registers, from which the event loop finds the channel, and a TCP       *)
(* channel the slot, that an event is for.                                 *)
(***************************************************************************)
EXTENDS Integers

TOKEN_LINK == 0
TCP_BASE == 64
MAX_CHANNEL_ID == 62
MAX_TCP_CONNS == 256

ChannelIds == 0..MAX_CHANNEL_ID
Slots == 0..(MAX_TCP_CONNS - 1)
None == -1

primary_token(ch_id) == ch_id + 1

tcp_slot_token(ch_id, slot) == TCP_BASE + ch_id * MAX_TCP_CONNS + slot

channel_id_for_token(t) ==
    IF t = 0 THEN None
    ELSE IF t <= 63 THEN t - 1
    ELSE LET id == (t - TCP_BASE) \div MAX_TCP_CONNS
         IN  IF id <= MAX_CHANNEL_ID THEN id ELSE None

\* tcp_event: the slot of a token that is not the channel's primary one.
slot_of(t) == (t - TCP_BASE) % MAX_TCP_CONNS
=============================================================================
