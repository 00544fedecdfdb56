SPECIFICATION FairSpec
CONSTANTS
    r1 = r1
    p1 = p1
    p2 = p2
    p3 = p3
    Procs = {p1, p2, p3}
    PidOf <- MCPidOf
    Probers = {r1}
    MaxAttempts = 2
    MaxClaims = 2
    Hidden = {p1}
    Unknown = Unknown
PROPERTIES ReclaimsOnlyTheDead ImplementsLock ProbeNeverMissesHolder LoneProcessAcquires CallsReturn
CHECK_DEADLOCK FALSE
