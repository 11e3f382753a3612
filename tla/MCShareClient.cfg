SPECIFICATION FewSpec
CONSTANTS
    a = a  b = b  d = d
    Client = {a, b, d}
    Port = {p1, p2}
    TcpClients = {a}
    UdpClients = {b}
    Tokens = {a}
    MaxGeneration = 4
    MaxOutages = 1
    PingMayFail = TRUE
    CommandMayFail = TRUE
    NoPort = NoPort
    Free = Free
CHECK_DEADLOCK FALSE
INVARIANTS LeaseAgreed
PROPERTIES OldLoopsEnd FalseAlarmHarmless
