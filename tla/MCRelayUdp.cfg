SPECIFICATION FewSpec
CONSTANTS
    c1 = c1  c2 = c2  k1 = k1  k2 = k2
    Conn = {c1, c2}
    Releaser = {r1}
    Token = {}
    PortStart = 1
    PortEnd = 1
    QueueEnabled = TRUE
    QueueMaxSize = 1
    AuthFiles <- AnonFiles
    StartupAuth <- AnonStartup
    UdpTunnel = {k1, k2}
    ChannelSize = 1
    RecvErrors = TRUE
    None = None
    NoToken = NoToken
    NoPort = NoPort
    Free = Free
    Unreadable = Unreadable
CHECK_DEADLOCK FALSE
INVARIANTS QuietLeaseServed
PROPERTIES NewerTunnelKept ReleasedLoopStops FreePortWakesWaiter
