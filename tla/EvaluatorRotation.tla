------------------------- MODULE EvaluatorRotation -------------------------
(***************************************************************************)
(* How the evaluator goes round its rules: a run takes at most             *)
(* alertEvaluationBatchSize enabled, READY rules after the continuation of *)
(* the lease row, in the order of their ids, and leaves the last of them   *)
(* as the next continuation (runAcquiredBatch of                           *)
(* src/backend/src/alert-config/alert-evaluation.service.ts).              *)
(*                                                                         *)
(* The run is the one that holds the lease; who holds it, and when, is the *)
(* subject of module EvaluatorLease.                                       *)
(***************************************************************************)
EXTENDS Integers, FiniteSets, FiniteSetsExt

CONSTANTS
    N,          \* rules, numbered in the order of their ids
    Batch,      \* alertEvaluationBatchSize
    MaxLosses   \* bound on the runs that lose their lease

ASSUME RotationAssumption == N \in Nat \ {0} /\ Batch \in Nat \ {0} /\ MaxLosses \in Nat

Rules == 1 .. N

VARIABLES
    ready,         \* the enabled, READY rules
    continuation,  \* continuationId of the lease row; 0 for NULL
    running,
    batch,         \* the rules the run read
    todo,          \* those it has still to evaluate
    served,        \* the rule just evaluated, 0 between evaluations (history)
    losses         \* runs that lost the lease (history, bounded)

vars == <<ready, continuation, running, batch, todo, served, losses>>

TypeOK ==
    /\ ready \in SUBSET Rules /\ batch \in SUBSET Rules /\ todo \in SUBSET batch
    /\ continuation \in 0 .. N /\ served \in 0 .. N
    /\ running \in BOOLEAN /\ losses \in 0 .. MaxLosses

Init ==
    /\ ready \in SUBSET Rules
    /\ continuation = 0
    /\ running = FALSE /\ batch = {} /\ todo = {}
    /\ served = 0 /\ losses = 0

(* The n smallest rules of a set. *)
FirstOf(n, S) == {r \in S : Cardinality({q \in S : q < r}) < n}

(* Mutant: the cursor itself is read again. *)
AfterCursorInclusive(c) == {r \in ready : r >= c}

(* findMany with a cursor reads from the cursor's id on, filters, and then *)
(* skips one row: the cursor itself, or the next rule when the cursor has  *)
(* left the filter since.                                                  *)
AfterCursor(c) ==
    LET from == {r \in ready : r >= c} IN
    IF c = 0 THEN ready ELSE from \ FirstOf(1, from)

ReadBatch ==
    /\ ~ running
    /\ running' = TRUE
    /\ batch' = FirstOf(Batch, AfterCursor(continuation))
    /\ todo' = batch'
    /\ served' = 0
    /\ UNCHANGED <<ready, continuation, losses>>

(* One rule of the run: evaluated, or blocked for its metadata. *)
EvaluateNext ==
    /\ running /\ todo # {}
    /\ LET r == Min(todo) IN
       /\ served' = r
       /\ todo' = todo \ {r}
       /\ ready' \in {ready, ready \ {r}}
    /\ UNCHANGED <<continuation, running, batch, losses>>

(* The continuation a run leaves: NULL after an empty batch. *)
NextContinuation == IF batch = {} THEN 0 ELSE Max(batch)

Finish ==
    /\ running /\ todo = {}
    /\ continuation' = NextContinuation
    /\ running' = FALSE /\ batch' = {} /\ served' = 0
    /\ UNCHANGED <<ready, todo, losses>>

(* The run loses the lease, or its process stops: the continuation stays,  *)
(* and the next holder reads the same batch again.  A failed renewal that  *)
(* leaves the row in place moves the continuation past rules not served.   *)
LoseLease ==
    /\ running
    /\ losses < MaxLosses /\ losses' = losses + 1
    /\ continuation' \in {continuation, NextContinuation}
    /\ running' = FALSE /\ batch' = {} /\ todo' = {} /\ served' = 0
    /\ UNCHANGED ready

(* A user enables or disables a rule. *)
ToggleRule(r) ==
    /\ ready' = IF r \in ready THEN ready \ {r} ELSE ready \cup {r}
    /\ UNCHANGED <<continuation, running, batch, todo, served, losses>>

Next == ReadBatch \/ EvaluateNext \/ Finish \/ LoseLease \/ \E r \in Rules : ToggleRule(r)

(* The interval timer starts a run again and again, and every call of a    *)
(* run returns: upstream calls and transactions have timeouts.             *)
Fairness == WF_vars(ReadBatch) /\ WF_vars(EvaluateNext) /\ WF_vars(Finish)

Spec == Init /\ [][Next]_vars /\ Fairness

-----------------------------------------------------------------------------
(* Once users leave the rules alone, every enabled, READY rule is          *)
(* evaluated again and again: the batch size, lost leases and a cursor     *)
(* that points at a disabled or blocked rule delay a rule, and starve none.*)
EveryReadyRuleIsServed ==
    \A R \in SUBSET Rules : \A r \in R : <>[](ready = R) => []<>(served = r)
=============================================================================
