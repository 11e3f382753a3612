SPECIFICATION Spec
SYMMETRY Symmetry
CONSTANTS
    Instance = {i1}
    h1 = h1
    h2 = h2
    p1 = p1
    p2 = p2
    Handler <- MCHandler
    Pid <- MCPid
    MaxAttempts = 1
    MaxPending = 1
    MaxBoots = 1
    None = None
    Absent = Absent
    Ghost = Ghost
INVARIANTS ProcessesSound StopsTold UpdateAlone
