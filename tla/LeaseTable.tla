----------------------------- MODULE LeaseTable -----------------------------
(***************************************************************************)
(* What the shared relay promises about its public ports, with nothing     *)
(* about how it does it: a table that gives every port to at most one      *)
(* holder, a holder that shows a token to at most one port, and a port     *)
(* pinned by the token's configuration to nobody but on that port.         *)
(* PortLease (the CONNECT / RELEASE handlers of src/src/shared_relay.rs)   *)
(* implements this specification.                                          *)
(***************************************************************************)

CONSTANTS Port, Token, NoToken, NoPort, Free

VARIABLE lease          \* lease[p] is Free or [token, fixed_port] of its holder

Holder == [token : Token \cup {NoToken}, fixed_port : Port \cup {NoPort}]

Init == lease = [p \in Port |-> Free]

Grant(p, h) ==
    /\ lease[p] = Free
    /\ h.fixed_port \in {NoPort, p}
    /\ h.token = NoToken \/ \A q \in Port : lease[q] # Free => lease[q].token # h.token
    /\ lease' = [lease EXCEPT ![p] = h]

Release(p) ==
    /\ lease[p] # Free
    /\ lease' = [lease EXCEPT ![p] = Free]

Next == \E p \in Port : Release(p) \/ \E h \in Holder : Grant(p, h)

Spec == Init /\ [][Next]_lease
=============================================================================
