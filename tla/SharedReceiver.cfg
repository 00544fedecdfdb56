SPECIFICATION FairSpec
CONSTANTS
    p1 = p1  p2 = p2  e1 = e1
    Procs = {p1, p2}
    Emails = {e1}
    Wanted <- MCWanted
    MaxGaps = 1
    MaxSubs = 2
    None = None
INVARIANTS OneStream NoReplyOverlooked
PROPERTIES RepliesAreFound
CHECK_DEADLOCK FALSE
