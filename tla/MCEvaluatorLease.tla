-------------------------- MODULE MCEvaluatorLease --------------------------
(* EvaluatorLease with two processes and a clock long enough for a lease   *)
(* to expire, change hands, expire again and be taken back.                *)
EXTENDS EvaluatorLease, TLC

CONSTANTS p1, p2

MCProcs == {p1, p2}

Symmetry == Permutations(MCProcs)
=============================================================================
