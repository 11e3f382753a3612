----------------------------- MODULE MCRelayUdp -----------------------------
(* RelayUdp for TLC: one port that is leased, released and leased again. *)
EXTENDS RelayUdp, TLC

CONSTANTS c1, c2, k1, k2

\* Anonymous access only: tokens are the subject of MCPortLease.
AnonStartup == [allow_anonymous |-> TRUE, valid |-> {}, fixed_port |-> <<>>]
AnonFiles == {AnonStartup}

\* Either two clients ask for the port, or two tunnels are opened on one lease.  Neither
\* CONNECT nor UDP_TUNNEL is fair, so the bound takes no step away that must happen.
Few == pc[c2] = "start" \/ k2 \notin UdpTunnel \/ tunnel[k2].pc = "idle"

FewSpec == Init /\ [][Next /\ Few']_vars /\ Fairness
=============================================================================
