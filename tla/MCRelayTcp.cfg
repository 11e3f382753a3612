SPECIFICATION FairSpec
CONSTANTS
    c1 = c1  c2 = c2  k1 = k1  k2 = k2
    Conn = {c1, c2}
    Releaser = {r1}
    Token = {}
    PortStart = 1
    PortEnd = 1
    QueueEnabled = TRUE
    QueueMaxSize = 1
    AuthFiles <- AnonFiles
    StartupAuth <- AnonStartup
    Public = {x1}
    Tunnel = {k1, k2}
    None = None
    NoToken = NoToken
    NoPort = NoPort
    Free = Free
    Unreadable = Unreadable
CHECK_DEADLOCK FALSE
INVARIANTS TunnelsSound QuietLeaseKept
PROPERTIES ReleasedListenerStops
