----------------------------- MODULE StationSearch -----------------------------
(***************************************************************************)
(* The search for a station in the top bar of the web client.  Typing and  *)
(* submitting take a new request number, and an answer with another number *)
(* is dropped.  The walk over the farms, plots and stations of the user    *)
(* that finds the matches is one answer here, or a failure.                *)
(***************************************************************************)
EXTENDS Naturals, FiniteSets

CONSTANTS
    Terms,     \* what is typed
    NoTerm,
    MaxHunts   \* bound on the request numbers

ASSUME StationSearchAssumption == NoTerm \notin Terms /\ MaxHunts \in Nat

VARIABLES
    box,   \* query, request number, open, loading; history: what the results are of
    hunts  \* searches under way

searchVars == <<box, hunts>>

-----------------------------------------------------------------------------
TypeTerm(t) ==
    /\ t # box.term /\ box.request < MaxHunts
    /\ box' = [box EXCEPT !.term = t, !.request = @ + 1, !.open = FALSE]
    /\ UNCHANGED hunts

(* searchAccessibleStations: the walk for a term through the hierarchy.    *)
Hunt(n, t) == [request |-> n, term |-> t]

SubmitSearch ==
    /\ box.term # NoTerm /\ box.request < MaxHunts
    /\ box' = [box EXCEPT !.request = @ + 1, !.open = TRUE, !.loading = TRUE]
    /\ hunts' = hunts \cup {Hunt(box.request + 1, box.term)}

(* A click outside, the Escape key, or the choice of a result.             *)
CloseResults == box.open /\ box' = [box EXCEPT !.open = FALSE] /\ UNCHANGED hunts

(* Mutant: a late answer ends the loading of a later search.               *)
CurrentOrLate(h) == TRUE

CurrentHunt(h) == h.request = box.request

(* The walk ends in matches, or fails, also when it would take more than   *)
(* its limit of requests; the results are then empty.                      *)
HuntEnds(h) ==
    /\ h \in hunts /\ hunts' = hunts \ {h}
    /\ box' = IF CurrentHunt(h) THEN [box EXCEPT !.loading = FALSE, !.of = h.term] ELSE box

SearchInit ==
    /\ box = [term |-> NoTerm, request |-> 0, open |-> FALSE, loading |-> FALSE, of |-> NoTerm]
    /\ hunts = {}

SearchNext ==
    \/ \E t \in Terms \cup {NoTerm} : TypeTerm(t)
    \/ \E h \in hunts : HuntEnds(h)
    \/ SubmitSearch \/ CloseResults

-----------------------------------------------------------------------------
(* Results that are shown as being searched for have their search under    *)
(* way; loading may stay when the text has changed, but then nothing is    *)
(* shown.                                                                  *)
SearchWaits == box.open /\ box.loading => \E h \in hunts : CurrentHunt(h)

(* Results that are shown are of the text that is in the box.              *)
ResultsAreOfTheTerm == box.open /\ ~box.loading => box.of = box.term
=============================================================================
