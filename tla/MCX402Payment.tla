--------------------------- MODULE MCX402Payment ---------------------------
(* Small instance of X402Payment: p1's clock is slow, p2's is fast.           *)
EXTENDS X402Payment, TLC

CONSTANTS o1, o2, c1, c2, p1, p2

MCDrift == [p \in {p1, p2} |-> IF p = p1 THEN -1 ELSE 1]

MCSymmetry == Permutations(Challenges)

\* A tight bound that may not be moved, and a loose one that may.
MCOverrides ==
    {[after |-> None, before |-> 3, clamp |-> FALSE],
     [after |-> 1, before |-> 9, clamp |-> TRUE]}
=============================================================================
