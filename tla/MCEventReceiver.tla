-------------------------- MODULE MCEventReceiver --------------------------
(* Small instances of EventReceiver.                                         *)
EXTENDS EventReceiver, TLC

CONSTANTS l1, w1, h1, h2, e1

MCSymmetry == Permutations(Hands)
=============================================================================
