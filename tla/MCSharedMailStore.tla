------------------------- MODULE MCSharedMailStore -------------------------
(* Small instances of SharedMailStore.                                       *)
EXTENDS SharedMailStore, TLC

CONSTANTS e1, e2, v1, v2, r1, r2, s1, p1, p2, k1, k2, t1, c1, w1, w2

MCSymmetry == Permutations(Emails) \union Permutations(Requests)
                \union Permutations(Events) \union Permutations(Sessions) \union Permutations(Waiters)
                \union Permutations(Peers)
=============================================================================
