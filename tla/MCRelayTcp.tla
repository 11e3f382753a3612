----------------------------- MODULE MCRelayTcp -----------------------------
(* RelayTcp for TLC: one port that is leased, released and leased again. *)
EXTENDS RelayTcp, TLC

CONSTANTS c1, c2, k1, k2

\* Anonymous access only: tokens are the subject of MCPortLease.
AnonStartup == [allow_anonymous |-> TRUE, valid |-> {}, fixed_port |-> <<>>]
AnonFiles == {AnonStartup}
=============================================================================
