----------------------------- MODULE MutexLock -----------------------------
(* What acquireListenLock promises its callers: at any moment at most one   *)
(* live process has the lock.  A holder loses it by releasing or by dying.  *)
CONSTANTS
    Clients,
    Nobody   \* not a client

VARIABLE holder

Init == holder = Nobody

Acquire(c) == holder = Nobody /\ holder' = c

Drop(c) == holder = c /\ holder' = Nobody

Next == \E c \in Clients : Acquire(c) \/ Drop(c)

Spec == Init /\ [][Next]_holder
=============================================================================
