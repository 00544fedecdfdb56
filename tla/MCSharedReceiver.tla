-------------------------- MODULE MCSharedReceiver --------------------------
(* Small instances of SharedReceiver: a reply wait and a listener.           *)
EXTENDS SharedReceiver

CONSTANTS p1, p2, e1

\* One process waits for a reply, the other listens.
MCWanted == [p \in Procs |-> IF p = p1 THEN e1 ELSE None]
=============================================================================
