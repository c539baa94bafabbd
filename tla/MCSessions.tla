----------------------------- MODULE MCSessions -----------------------------
(* Sessions with one account and the requests of several clients.          *)
EXTENDS Sessions, TLC

CONSTANTS u1, s1, s2, s3, s4, q1, q2, q3

MCUsers == {u1}
MCSessionIds == {s1, s2, s3}
MCRequests == {q1, q2}

Symmetry == Permutations(MCSessionIds) \cup Permutations(MCRequests)
=============================================================================
