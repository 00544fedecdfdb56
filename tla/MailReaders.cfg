SPECIFICATION ReadersSpec
CONSTANTS
    e1 = e1  e2 = e2  v1 = v1  v2 = v2  r1 = r1  r2 = r2  s1 = s1  s2 = s2
    p1 = p1  k1 = k1  k2 = k2  t1 = t1  w1 = w1  w2 = w2  w3 = w3
    Emails = {e1}
    Events = {v1}
    Requests = {r1}
    Sends = {s1}
    Peers = {p1}
    Sessions = {k1}
    Threads = {t1}
    Contacts = {}
    Waiters = {w1, w2, w3}
    MaxWaiters = 2
    None = None
    ChatPeer = p1
    ChatSession = k1
SYMMETRY MCSymmetry
CHECK_DEADLOCK FALSE
INVARIANTS SentOnce ReplyNotLost RouteTellsTurn ReceiptsRecover
PROPERTIES ImplementsMailbox CommandReadsFirst
