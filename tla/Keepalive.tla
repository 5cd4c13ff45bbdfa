----------------------------- MODULE Keepalive ------------------------------
(***************************************************************************)
(* The keepalive of daemon.rs between two connected daemons.  One tick is  *)
(* MAX_TICK, the longest poll() blocks: between two ticks every daemon     *)
(* runs its timers at least once, and while the cable is good every frame  *)
(* is delivered.  last_rx and last_tx are kept as ages, in ticks.          *)
(*                                                                         *)
(* last_tx is assigned wherever the code assigns it, which is not only     *)
(* where a frame is queued.                                                *)
(***************************************************************************)
EXTENDS Naturals, Sequences

CONSTANTS KA_INTERVAL, KA_TIMEOUT,   \* in ticks
          Busy,                      \* the sides whose channels have traffic
          MaxBurst                   \* bound: frames queued or in flight

ASSUME TimesAssumption == KA_INTERVAL \in Nat /\ KA_TIMEOUT \in Nat

Sides == {"exporter", "host"}
Peer(s) == IF s = "exporter" THEN "host" ELSE "exporter"
ASSUME BusyAssumption == Busy \subseteq Sides /\ MaxBurst \in Nat

VARIABLES
    rx_age,         \* side -> ticks since last_rx
    tx_age,         \* side -> ticks since last_tx
    txq,            \* side -> frames queued
    net,            \* side -> frames written, not yet read by the peer
    disconnected,   \* side -> close_link was called
    ran,            \* side -> the timers have run since the latest tick
    cable,          \* whether bytes still get through
    quiet           \* ticks since a channel's latest event, on either side

vars == <<rx_age, tx_age, txq, net, disconnected, ran, cable, quiet>>

\* Ages above the timeout are all alike.
Older(age) == [s \in Sides |-> IF age[s] > KA_TIMEOUT THEN age[s] ELSE age[s] + 1]

\* Both sides have just completed the handshake.
Init ==
    /\ rx_age = [s \in Sides |-> 0]
    /\ tx_age = [s \in Sides |-> 0]
    /\ txq = [s \in Sides |-> <<>>]
    /\ net = [s \in Sides |-> <<>>]
    /\ disconnected = [s \in Sides |-> FALSE]
    /\ ran = [s \in Sides |-> FALSE]
    /\ cable = TRUE
    /\ quiet = 0

Tick ==
    /\ \A s \in Sides : ran[s]
    /\ cable => \A s \in Sides : txq[s] = <<>> /\ net[s] = <<>>
    /\ rx_age' = Older(rx_age)
    /\ tx_age' = Older(tx_age)
    /\ ran' = [s \in Sides |-> FALSE]
    /\ quiet' = IF quiet > KA_INTERVAL THEN quiet ELSE quiet + 1
    /\ UNCHANGED <<txq, net, disconnected, cable>>

\* The cable is pulled or the peer hangs: nothing arrives any more.
Cut ==
    /\ cable
    /\ cable' = FALSE
    /\ net' = [s \in Sides |-> <<>>]
    /\ UNCHANGED <<rx_age, tx_age, txq, disconnected, ran, quiet>>

expired(s) == rx_age[s] > KA_TIMEOUT

\* Faulty variant: the idle test compares with the wrong constant.
idle_until_timeout(s) == tx_age[s] >= KA_TIMEOUT /\ txq[s] = <<>>

idle(s) == tx_age[s] >= KA_INTERVAL /\ txq[s] = <<>>

\* tick_keepalive, and the renewal of last_tx that follows the channels' ticks
\* when the queue is not empty.
tick_keepalive(s) ==
    /\ ~disconnected[s]
    /\ ran' = [ran EXCEPT ![s] = TRUE]
    /\ IF expired(s)
       THEN /\ disconnected' = [disconnected EXCEPT ![s] = TRUE]
            /\ txq' = [txq EXCEPT ![s] = <<>>]
            /\ UNCHANGED tx_age
       ELSE /\ txq' = IF idle(s) THEN [txq EXCEPT ![s] = <<"F_PING">>] ELSE txq
            /\ tx_age' = IF txq'[s] # <<>> THEN [tx_age EXCEPT ![s] = 0] ELSE tx_age
            /\ UNCHANGED disconnected
    /\ UNCHANGED <<rx_age, net, cable, quiet>>

\* A disconnected daemon's loop goes on; reopening is not part of this module.
tick_disconnected(s) ==
    /\ disconnected[s]
    /\ ~ran[s]
    /\ ran' = [ran EXCEPT ![s] = TRUE]
    /\ UNCHANGED <<rx_age, tx_age, txq, net, disconnected, cable, quiet>>

link_write(s) ==
    /\ ~disconnected[s]
    /\ txq[s] # <<>>
    /\ txq' = [txq EXCEPT ![s] = <<>>]
    /\ net' = IF cable THEN [net EXCEPT ![s] = @ \o txq[s]] ELSE net
    /\ UNCHANGED <<rx_age, tx_age, disconnected, ran, cable, quiet>>

\* What dispatch_frame sends back.
reply(f) == IF f = "F_PING" THEN <<"F_PONG">> ELSE <<>>

\* Whether dispatch_frame assigns last_tx: with the PONG it queues, and after
\* every frame it routes to a channel.
touches_tx(f) == f # "F_PONG"

\* One frame is read and dispatched.
link_read(s) ==
    /\ ~disconnected[s]
    /\ net[Peer(s)] # <<>>
    /\ LET f == Head(net[Peer(s)])
       IN  /\ txq' = [txq EXCEPT ![s] = @ \o reply(f)]
           /\ tx_age' = IF touches_tx(f) THEN [tx_age EXCEPT ![s] = 0] ELSE tx_age
    /\ net' = [net EXCEPT ![Peer(s)] = Tail(@)]
    /\ rx_age' = [rx_age EXCEPT ![s] = 0]
    /\ UNCHANGED <<disconnected, ran, cable, quiet>>

\* Faulty variant: traffic of a channel passes for a sign of life of the peer.
channel_event_as_rx(s) ==
    /\ s \in Busy
    /\ ~disconnected[s]
    /\ \E frames \in {<<>>, <<"F_DATA">>} :
         /\ Len(txq[s] \o net[s] \o frames) <= MaxBurst
         /\ txq' = [txq EXCEPT ![s] = @ \o frames]
    /\ rx_age' = [rx_age EXCEPT ![s] = 0]
    /\ tx_age' = [tx_age EXCEPT ![s] = 0]
    /\ quiet' = 0
    /\ UNCHANGED <<net, disconnected, ran, cable>>

\* A channel's fd is ready: handle_event queues a frame or, for a writable fd
\* or a read that yields nothing, none.  last_tx is assigned either way.
channel_event(s) ==
    /\ s \in Busy
    /\ ~disconnected[s]
    /\ \E frames \in {<<>>, <<"F_DATA">>} :
         /\ Len(txq[s] \o net[s] \o frames) <= MaxBurst
         /\ txq' = [txq EXCEPT ![s] = @ \o frames]
    /\ tx_age' = [tx_age EXCEPT ![s] = 0]
    /\ quiet' = 0
    /\ UNCHANGED <<rx_age, net, disconnected, ran, cable>>

Next ==
    \/ Tick
    \/ Cut
    \/ \E s \in Sides : \/ tick_keepalive(s) \/ tick_disconnected(s)
                        \/ link_write(s) \/ link_read(s) \/ channel_event(s)

Spec == Init /\ [][Next]_vars

\* poll() returns within MAX_TICK, so the loop of each daemon keeps running.
FairSpec ==
    /\ Spec
    /\ WF_vars(Tick)
    /\ \A s \in Sides : WF_vars(tick_keepalive(s)) /\ WF_vars(tick_disconnected(s))

-----------------------------------------------------------------------------
\* A dead link is noticed (tick_keepalive) and closed by both sides, however busy
\* their channels keep last_tx.
CutNoticed == ~cable ~> \A s \in Sides : disconnected[s]

\* Once the channels of both sides have been quiet for longer than KA_INTERVAL,
\* PING and PONG let neither side of a good link wait longer than KA_INTERVAL
\* and one tick for a sign of life, whatever the traffic was before.
HeardWithinInterval ==
    cable /\ quiet > KA_INTERVAL /\ (\A s \in Sides : ~disconnected[s])
        => \A s \in Sides : rx_age[s] <= KA_INTERVAL + 1

\* The tunnel stays up as long as the physical connection does: a timeout
\* never closes a link over which every frame is delivered within a tick.
GoodLinkStaysUp == cable => \A s \in Sides : ~disconnected[s]
=============================================================================
