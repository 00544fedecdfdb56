--------------------------- MODULE EventDelivery ---------------------------
(* What the receiver of sdk-go/event_receiver.go promises an application of *)
(* each lease of an event: the server records nothing but what the          *)
(* application said of the lease first, what was accepted is not leased     *)
(* again, and an Ack or Retry succeeds only for what is recorded.           *)
CONSTANTS Events, Tokens, Verdicts

VARIABLES
    fate,     \* what became of each lease: none, held, lapsed or a verdict
    said,     \* the application's first verdict on each lease, or none
    reported  \* the leases with the verdicts an Ack or Retry reports recorded

vars == <<fate, said, reported>>

Init ==
    /\ fate = [e \in Events |-> [t \in Tokens |-> "none"]]
    /\ said = [e \in Events |-> [t \in Tokens |-> "none"]]
    /\ reported = {}

Lease(e, t) ==
    /\ \A u \in Tokens : fate[e][u] \notin {"held", "accept"}
    /\ fate[e][t] = "none"
    /\ fate' = [fate EXCEPT ![e][t] = "held"]
    /\ UNCHANGED <<said, reported>>

Say(e, t, v) ==
    /\ fate[e][t] # "none" /\ said[e][t] = "none"
    /\ said' = [said EXCEPT ![e][t] = v]
    /\ UNCHANGED <<fate, reported>>

Record(e, t) ==
    /\ fate[e][t] = "held" /\ said[e][t] \in Verdicts
    /\ fate' = [fate EXCEPT ![e][t] = said[e][t]]
    /\ UNCHANGED <<said, reported>>

Lapse(e, t) ==
    /\ fate[e][t] = "held"
    /\ fate' = [fate EXCEPT ![e][t] = "lapsed"]
    /\ UNCHANGED <<said, reported>>

Recorded == {m \in Events \X Tokens \X Verdicts : fate[m[1]][m[2]] = m[3]}

\* A call returns, or its result is forgotten.
Report ==
    /\ reported' \in SUBSET Recorded
    /\ UNCHANGED <<fate, said>>

Next ==
    \/ \E e \in Events, t \in Tokens :
         Lease(e, t) \/ Record(e, t) \/ Lapse(e, t) \/ \E v \in Verdicts : Say(e, t, v)
    \/ Report

Spec == Init /\ [][Next]_vars
=============================================================================
