---------------------------- MODULE MCSupervisor ----------------------------
(* The supervisor of the web GUI, instantiated for TLC.                    *)
EXTENDS Supervisor, TLC

CONSTANTS h1, h2, p1, p2

MCHandler == {h1, h2}
MCPid == {p1, p2}
Symmetry == Permutations(MCHandler) \cup Permutations(MCPid)

=============================================================================
