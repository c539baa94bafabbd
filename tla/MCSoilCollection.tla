-------------------------- MODULE MCSoilCollection --------------------------
(* SoilCollection with two collectors and one user, over histories that    *)
(* have every shape a page can end in: a page full at its last timestamp,  *)
(* more records of one timestamp than fit in it, a conflict that two pages *)
(* share, a missing value and an empty time.                               *)
EXTENDS SoilCollection, TLC

CONSTANTS p1, p2, x, y

MCProcs == {p1, p2}
MCSymmetry == Permutations(MCProcs)
MCValues == {x, y}
MCUpstreams == {<<<<x, x>>, <<x, y>>, <<y>>>>,
                <<<<None>>, <<y, y, y>>, <<>>>>}

(* One more for what becomes of the watermark in the end: readings that    *)
(* follow one another, and nothing that the collector may report instead. *)
MCLaterUpstreams == MCUpstreams \cup {<<<<x>>, <<y>>, <<x>>>>}

MCQueries == {[begin |-> 1, end |-> 2, ascending |-> FALSE]}
=============================================================================
