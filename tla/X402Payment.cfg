SPECIFICATION Spec
CONSTANTS
    o1 = o1  o2 = o2  c1 = c1  c2 = c2  p1 = p1  p2 = p2
    Orders = {o1, o2}
    Keyed = {o1}
    Mailed = {o2}
    Challenges = {c1, c2}
    Payers = {p1, p2}
    Drift <- MCDrift
    Lifetimes = {1, 3}
    Overrides <- MCOverrides
    Skew = 2
    Margin = 3
    MaxWindow = 6
    MinHeadroom = 2
    Horizon = 4
    MaxSigned = 2
    None = None
SYMMETRY MCSymmetry
INVARIANTS OrderPaidOnce OneNoncePerChallenge NothingSettlesLate SignedCanSettle
CHECK_DEADLOCK FALSE
