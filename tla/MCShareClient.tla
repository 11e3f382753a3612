---------------------------- MODULE MCShareClient ----------------------------
(* ShareClient for TLC. *)
EXTENDS ShareClient

CONSTANTS a, b, d

\* One of a and b shares, and the relay may go away; or b and d do, and what follows a
\* command that went astray is not explored (the properties of two clients except it).
\* The loops of d are left out: two clients meet in the lease table only.
\* Neither a start nor a failure is fair, so the bound takes no step away that must happen.
Few ==
    \/ d \notin Client
    \/ /\ main[a] = "idle" \/ main[b] = "idle"
       /\ main[d] = "idle" \/ (main[a] = "idle" /\ outages = 0 /\ untidy = {})

FewSpec == Init /\ [][Next /\ Few']_vars /\ Fairness
=============================================================================
