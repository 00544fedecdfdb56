SPECIFICATION Spec
CONSTANTS
    x = x
    a = a
    c = c
    z = z
    b = b
    Procs = {x, a, c, z, b}
    PidOf <- OwnPids
    Calls <- DelayedTwice
    MaxDepth = 1
    None = None
CONSTRAINT InTurn
INVARIANT MutualExclusion
CHECK_DEADLOCK FALSE
