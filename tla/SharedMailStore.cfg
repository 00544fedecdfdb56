SPECIFICATION Spec
CONSTANTS
    e1 = e1  e2 = e2  v1 = v1  v2 = v2  r1 = r1  r2 = r2  s1 = s1
    p1 = p1  p2 = p2  k1 = k1  k2 = k2  t1 = t1  c1 = c1  w1 = w1  w2 = w2
    Emails = {e1}
    Events = {v1}
    Requests = {r1, r2}
    Sends = {s1}
    Peers = {p1}
    Sessions = {k1, k2}
    Threads = {t1}
    Contacts = {c1}
    Waiters = {w1, w2}
    MaxWaiters = 1
    None = None
SYMMETRY MCSymmetry
INVARIANTS IndexesExact WaitGetsOnlyItsReplies CompletedWaitObservedAll CompletedByAReply
PROPERTIES DeliveredOnce NativeOnlyWhenNobodyWaits ConversationKeepsSession WaitsEndOnce
