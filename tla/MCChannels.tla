----------------------------- MODULE MCChannels -----------------------------
(***************************************************************************)
(* The channels, each kind in its own environment: a run is one of an end  *)
(* of a serial channel (MCSerial), or one of the two ends of a TCP channel *)
(* on a link that stays up once it is.                                     *)
(***************************************************************************)
EXTENDS MCSerial

CONSTANTS MAX_TCP_CONNS, CONN_HIGH_WATER, MaxConns, MaxItems, MaxOpens

VARIABLES kind, link_fd, tcp_up, net, opens, conns, next_slot, accepted, tcp_sent,
          got, ended, overlaps, others

Tcp == INSTANCE TcpTunnel WITH link_up <- tcp_up, sent <- tcp_sent

serialVars == <<side, vars, ptyVars>>
tcpVars == <<link_fd, tcp_up, net, opens, conns, next_slot, accepted, tcp_sent,
             got, ended, overlaps, others>>

ChannelsInit ==
    /\ kind \in {"serial", "tcp"}
    /\ EitherInit
    /\ kind = "tcp" => side = "host" /\ fd
    /\ Tcp!Init

\* A TCP channel may stop at its bounds; a serial one never does.
ChannelsNext ==
    \/ kind = "serial" /\ EitherNext /\ UNCHANGED <<kind, tcpVars>>
    \/ kind = "tcp" /\ Tcp!Next /\ UNCHANGED <<kind, serialVars>>
    \/ kind = "tcp" /\ UNCHANGED <<kind, serialVars, tcpVars>>

\* The loops open and read the link, and a connect or a write that is waited
\* for succeeds or fails at last.
TcpFairness ==
    \A s \in Tcp!Sides :
       /\ WF_tcpVars(kind = "tcp" /\ Tcp!open_link(s))
       /\ WF_tcpVars(kind = "tcp" /\ Tcp!link_read(s))
       /\ \A i \in Tcp!Slots :
            WF_tcpVars(kind = "tcp" /\ (Tcp!tcp_write(s, i) \/ Tcp!tcp_write_fails(s, i)))

ChannelsSpec ==
    /\ ChannelsInit /\ [][ChannelsNext]_<<kind, serialVars, tcpVars>>
    /\ Pty!Fairness /\ TcpFairness

\* The properties of TcpTunnel on a stable link: a slot is not given away while
\* something of its connection is left before the free ones have been used
\* (alloc_slot); a client is connected only as long as the host has its
\* connection or is yet to open or to report it closed (close_slot); and both
\* ends of a connection close (on_frame, close_pending).
RoundBeforeReuse == Tcp!RoundBeforeReuse
NoOrphanAtExporter == Tcp!NoOrphanAtExporter
EndsTogether == Tcp!EndsTogether
=============================================================================
