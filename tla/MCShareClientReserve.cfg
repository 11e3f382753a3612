SPECIFICATION FairSpec
CONSTANTS
    a = a  b = b  d = d
    Client = {a}
    Port = {p1}
    TcpClients = {a}
    UdpClients = {}
    Tokens = {}
    MaxGeneration = 5
    MaxOutages = 0
    PingMayFail = FALSE
    CommandMayFail = FALSE
    NoPort = NoPort
    Free = Free
CHECK_DEADLOCK FALSE
PROPERTY NoPermanentReservation
