------------------------------ MODULE MCTunnel ------------------------------
(***************************************************************************)
(* Two parts of a daemon, each by itself: a run is one of TxQueue, with    *)
(* frames of up to three bytes and one that can never fit, or one of the   *)
(* two ends of a TCP channel over a link that reconnects.                  *)
(***************************************************************************)
EXTENDS TxQueue

MCByte == {0, 1}
MCFrames == UNION {[1..n -> MCByte] : n \in 0..3} \cup {<<1, 1, 1, 1, 1, 1>>}

CONSTANTS MAX_TCP_CONNS, CONN_HIGH_WATER, MaxConns, MaxItems, MaxOpens, None

ASSUME SlotsAssumption == MAX_TCP_CONNS \in Nat \ {0}
ASSUME TunnelBounds == {CONN_HIGH_WATER, MaxConns, MaxItems, MaxOpens} \subseteq Nat

VARIABLES part, link_fd, link_up, net, opens, conns, next_slot, accepted, sent, got,
          ended, overlaps, others

Tcp == INSTANCE TcpTunnel

tcpVars == <<link_fd, link_up, net, opens, conns, next_slot, accepted, sent, got,
             ended, overlaps, others>>

TunnelInit ==
    /\ part \in {"queue", "tcp"}
    /\ Init
    /\ Tcp!Init

\* A TCP channel may stop at its bounds; the queue never does.
TunnelNext ==
    \/ part = "queue" /\ Next /\ UNCHANGED <<part, tcpVars>>
    \/ part = "tcp" /\ Tcp!Next /\ UNCHANGED <<part, vars>>
    \/ part = "tcp" /\ UNCHANGED <<part, vars, tcpVars>>

TunnelSpec == TunnelInit /\ [][TunnelNext]_<<part, vars, tcpVars>>

\* The properties of TcpTunnel over reconnections, of connections that met
\* nothing of another in their slot: a socket is given the bytes of its own
\* connection, in order and without a gap (tcp_event, on_frame); an end that
\* closed because the other did had written all the other read (close_pending);
\* and the host keeps no connection whose client is gone (on_link_connect).
StreamExact == Tcp!StreamExact
CleanCloseComplete == Tcp!CleanCloseComplete
NoOrphanAtHost == Tcp!NoOrphanAtHost
=============================================================================
