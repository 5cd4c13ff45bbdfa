------------------------------ MODULE ByteFifo ------------------------------
(***************************************************************************)
(* What the rest of the daemon relies on when it uses a TxQueue: a bounded *)
(* first-in first-out queue of bytes.  A frame is accepted whole or not at *)
(* all, bytes reach the link in the order they were accepted, and nothing  *)
(* but reset discards an accepted byte.                                    *)
(***************************************************************************)
EXTENDS Naturals, Sequences

CONSTANTS Frames,    \* the byte sequences a caller may enqueue
          Capacity   \* the number of bytes the queue can hold

VARIABLES content,   \* the accepted bytes not yet written to the link
          wire,      \* the bytes the latest write put on the link
          call       \* the latest call: what the caller asked for

fifoVars == <<content, wire, call>>

Call(op, data) == [op |-> op, data |-> data]

FifoInit ==
    /\ content = <<>>
    /\ wire = <<>>
    /\ call = Call("new", <<>>)

Accept(data) ==
    /\ call' = Call("enqueue", data)
    /\ Len(content) + Len(data) <= Capacity
    /\ content' = content \o data
    /\ wire' = <<>>

Refuse(data) ==
    /\ call' = Call("enqueue", data)
    /\ Len(content) + Len(data) > Capacity
    /\ UNCHANGED content
    /\ wire' = <<>>

Write(n) ==
    /\ call' = Call("drain_to_fd", <<>>)
    /\ n \in 0..Len(content)
    /\ wire' = SubSeq(content, 1, n)
    /\ content' = SubSeq(content, n + 1, Len(content))

Clear ==
    /\ call' = Call("reset", <<>>)
    /\ content' = <<>>
    /\ wire' = <<>>

FifoNext ==
    \/ \E data \in Frames : Accept(data) \/ Refuse(data)
    \/ \E n \in 0..Len(content) : Write(n)
    \/ Clear

FifoSpec == FifoInit /\ [][FifoNext]_fifoVars
=============================================================================
