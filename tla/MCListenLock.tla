--------------------------- MODULE MCListenLock ---------------------------
(* Small instance of ListenLock: p1 and p3 are two incarnations of one pid. *)
EXTENDS ListenLock

CONSTANTS p1, p2, p3, r1

MCPidOf == [p \in {p1, p2, p3} |-> IF p = p2 THEN 2 ELSE 1]
=============================================================================
