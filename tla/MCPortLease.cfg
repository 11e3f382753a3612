SPECIFICATION LeaseSpec
CONSTANTS
    c1 = c1  c2 = c2  c3 = c3  c4 = c4
    t1 = t1  t2 = t2
    Conn = {c1, c2, c3, c4}
    Releaser = {r1}
    Token = {t1, t2}
    PortStart = 1
    PortEnd = 2
    QueueEnabled = TRUE
    QueueMaxSize = 1
    AuthFiles <- MCAuthFiles
    StartupAuth <- MCStartup
    NoToken = NoToken
    NoPort = NoPort
    Free = Free
    Unreadable = Unreadable
SYMMETRY ConnSymmetry
CHECK_DEADLOCK FALSE
INVARIANTS LeaseSound
PROPERTIES ImplementsLeaseTable
