SPECIFICATION FairSpec
CONSTANTS
    Peer = {p1}
    Session = {s1, s2}
    Targets = 2
    Raknet = TRUE
    Haproxy = TRUE
    FastReconnectIdle = 1
    ReconnectIdle = 2
    EstablishedGrace = 1
    MappingTimeout = 2
    IdleBudget = 3
    SendMayFail = TRUE
    LossMayHappen = TRUE
    None = None
CHECK_DEADLOCK FALSE
INVARIANTS SessionsSound HeaderAgrees
PROPERTIES HandshakeKept IdleSessionsEnd
