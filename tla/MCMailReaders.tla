--------------------------- MODULE MCMailReaders ---------------------------
(* Small instances of MailReaders.                                           *)
EXTENDS MailReaders, TLC

CONSTANTS e1, e2, v1, v2, r1, r2, s1, s2, p1, k1, k2, t1, w1, w2, w3

MCSymmetry == Permutations(Emails) \union Permutations(Waiters) \union Permutations(Requests)
                \union Permutations(Sends)
=============================================================================
