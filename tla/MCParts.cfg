SPECIFICATION Spec
CONSTANTS
    None = None
    Job = {j1, j2}
    Domain = {"d1", "d2"}
    Draft <- SmallDraft
    Index = {1}
    Requested <- SmallRequested
    Firewalls <- SmallFirewalls
    AdminRules <- SmallAdmin
    MaxRules = 3
    Check = {k1}
    MaxVersion = 2
    CacheTicks = 1
    FetchTicks = 1
    p1 = p1
    p2 = p2
    Poll = {p1, p2}
    MaxBytes = 2
    MaxRuns = 2
    Torn = Torn
    Lookup = {l1, l2}
    Inst = {i1, i2}
    ManagerPort = {1, 2, 3}
    Foreign = {2}
    Page = {g1, g2}
    Content = {"x", "y"}
    Typed <- SmallTyped
    MaxEvents = 1
    Member = {m1}
    Load = {f1, f2}
    MaxQueue = 5
    o1 = o1
    o2 = o2
    a1 = a1
    Official = {o1, o2}
    Custom = Custom
    Address = {DefaultAddress, a1}
    DefaultAddress = DefaultAddress
    RelayToken = {t1}
    NoToken = NoToken
    ServerLists <- SmallLists
    MaxLanguages = 2
    Starter = {s1, s2}
    Stopper = {q1}
    Conn = {c1}
    Peer = {e1, e2}
    Budget = 1
    Timeout = 2
    Browser = {w1}
    Capacity <- SmallCapacity
    Refill <- SmallRefill
    Unit = 2
    BlockAfter = 3
    BlockTicks = 2
    PruneTicks = 6
    Threshold = 2
    SessionTicks = 2
    MaxSetups = 2
    Password = {pw1, pw2}
CONSTRAINT Bounds
INVARIANTS ConfigSound FirewallKept ReleaseSound PerfSound InstanceSound PageHonest ListSound
           FormSound ShareSound GateSound
PROPERTIES SetupWinsOnce
