--------------------------- MODULE MCAutoSignals ---------------------------
(* Small instances of AutoSignals: two answers and two workers.            *)
EXTENDS AutoSignals

CONSTANTS a1, a2, w1, w2
=============================================================================
