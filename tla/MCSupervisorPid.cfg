SPECIFICATION Spec
SYMMETRY Symmetry
CONSTANTS
    Instance = {i1}
    h1 = h1
    h2 = h2
    p1 = p1
    p2 = p2
    Handler <- MCHandler
    Pid <- MCPid
    MaxAttempts = 5
    MaxPending = 1
    MaxBoots = 0
    None = None
    Absent = Absent
    Ghost = Ghost
INVARIANT PidTruthful
