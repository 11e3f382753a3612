SPECIFICATION FairSpec
CONSTANTS
    None = None
    Ip = {a1, a2}
    Username = {u1}
    PrivateIp = {a1}
    MaxRecords = 2
    MaxCount = 2
    LookupBatch = 1
    Target = {t1, t2}
    Clicked = {t1}
    Shared = {t2}
    MaxMessages = 1
    RestartPolls = 3
    MaxCalls = 3
    MaxStale = 2
    MaxRelease = 3
    MaxCuts = 1
    ExitCode = {0, 1}
    Partial = Partial
    Source = {b1}
    Permit = {n1, n2}
    MaxActive = 1
    Rate <- SmallRate
    Burst <- SmallBurst
    MaxDatagram = 2
    Size = {1, 2, 3}
    DecayAfter = 2
    TempBlockAfter = 2
    TempBlockBase = 1
    TempBlockMax = 2
    Retention = 3
    MaxRevision = 2
    MaxMishaps = 3
CHECK_DEADLOCK FALSE
INVARIANTS AnalyticsSound ViewSound SelfSound GuardSound
PROPERTIES EveryAddressAsked UpdatesEnd ViewFollows ComesBack
           CertificatesKept ForgetsNothing
