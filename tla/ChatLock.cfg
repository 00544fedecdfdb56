SPECIFICATION FairSpec
CONSTANTS
    x = x
    a = a
    c = c
    z = z
    b = b
    Procs = {x, a, c, z}
    PidOf <- ReusedPids
    Calls <- DelayedCalls
    MaxDepth = 2
    None = None
INVARIANTS HolderKeepsRecord
PROPERTY LoneContenderAcquires
CHECK_DEADLOCK FALSE
