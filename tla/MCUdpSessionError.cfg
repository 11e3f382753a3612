SPECIFICATION Spec
CONSTANTS
    Peer = {p1}
    Session = {s1, s2}
    Targets = 1
    Raknet = TRUE
    Haproxy = TRUE
    FastReconnectIdle = 1
    ReconnectIdle = 2
    EstablishedGrace = 2
    MappingTimeout = 3
    IdleBudget = 4
    SendMayFail = TRUE
    LossMayHappen = FALSE
    None = None
CHECK_DEADLOCK FALSE
SYMMETRY Symmetry
INVARIANT NoHeaderIntoMapping
