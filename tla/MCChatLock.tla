---------------------------- MODULE MCChatLock ----------------------------
(* Small instances of ChatLock: x is the first holder, a reclaims, c and z   *)
(* are delayed, b comes last.                                                *)
EXTENDS ChatLock, FiniteSets

CONSTANTS x, a, c, z, b

\* z only comes and goes with the pid of x.
ReusedPids == [p \in {x, a, c, z} |-> CASE p = a -> 2 [] p = c -> 3 [] OTHER -> 1]
DelayedCalls == [p \in {x, a, c, z} |-> CASE p = c -> 2 [] p = z -> 0 [] OTHER -> 1]

OwnPids == [p \in {x, a, c, z, b} |->
              CASE p = x -> 1 [] p = a -> 2 [] p = c -> 3 [] p = z -> 4 [] p = b -> 5]
DelayedTwice == [p \in {x, a, c, z, b} |-> IF p = z THEN 2 ELSE 1]

\* What the search for a counterexample looks at: the processes start in turn,
\* the others after x died; x and a die as holders, c as a contender.
InTurn ==
    /\ alive \union gone \in {{}, {x}, {x, a}, {x, a, c}, {x, a, c, z}, {x, a, c, z, b}}
    /\ Cardinality(alive \union gone) > 1 => x \in gone
    /\ gone \subseteq {x, a, c}
    /\ \A p \in gone : pc[p] \in (IF p = c THEN {"recheck"} ELSE {"held"})
    /\ \A p \in Procs : pc[p] # "release"
=============================================================================
