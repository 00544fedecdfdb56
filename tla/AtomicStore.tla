---------------------------- MODULE AtomicStore ----------------------------
(* What the journal of shared-mail-state.ts promises a transaction: all its *)
(* record changes take effect at once or not at all, nobody sees a part of  *)
(* them, and once the commit was acknowledged nothing takes them back.      *)
CONSTANTS Records, Contents, Absent, None

VARIABLES
    store,   \* the records as transactions see them
    intent,  \* the records a running transaction is about to commit, or None
    undo     \* what an unacknowledged commit may fall back to, or None

vars == <<store, intent, undo>>

Init ==
    /\ store = [r \in Records |-> Absent]
    /\ intent = None
    /\ undo = None

Ask ==
    /\ intent = None
    /\ intent' \in [Records -> Contents]
    /\ UNCHANGED <<store, undo>>

Abandon ==
    /\ intent # None
    /\ intent' = None
    /\ UNCHANGED <<store, undo>>

Commit ==
    /\ intent # None
    /\ store' = intent
    /\ undo' = store
    /\ intent' = None

Acknowledge ==
    /\ undo # None
    /\ undo' = None
    /\ UNCHANGED <<store, intent>>

\* The machine failed before the commit was acknowledged.
FallBack ==
    /\ undo # None
    /\ store' = undo
    /\ undo' = None
    /\ UNCHANGED intent

Next == Ask \/ Abandon \/ Commit \/ Acknowledge \/ FallBack

Spec == Init /\ [][Next]_vars
=============================================================================
