----------------------------- MODULE MCPortLease -----------------------------
(* PortLease for TLC. *)
EXTENDS PortLease, TLC

CONSTANTS c1, c2, c3, c4, t1, t2

\* One pinned and one roaming token; the edited file revokes t2, refuses
\* anonymous clients and pins t1 outside the range.
MCStartup == [allow_anonymous |-> TRUE, valid |-> {t1, t2},
              fixed_port |-> (t1 :> PortStart @@ t2 :> NoPort)]
MCEdited  == [allow_anonymous |-> FALSE, valid |-> {t1},
              fixed_port |-> (t1 :> PortEnd + 1 @@ t2 :> NoPort)]
MCAuthFiles == {MCStartup, MCEdited}

ConnSymmetry == Permutations(Conn)
=============================================================================
