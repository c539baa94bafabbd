---------------------------- MODULE FencedWriter ----------------------------
(***************************************************************************)
(* What the alert-evaluator lease promises the alert tables: terms follow  *)
(* each other, a write belongs to one term, and no term begins while a     *)
(* write of an earlier one can still commit.                               *)
(***************************************************************************)
EXTENDS Naturals

VARIABLES
    term,     \* terms begun so far; 0 before the first
    writing   \* the term of the write in progress, 0 when there is none

fencedVars == <<term, writing>>

FencedInit == term = 0 /\ writing = 0

BeginTerm == writing = 0 /\ term' = term + 1 /\ UNCHANGED writing

BeginWrite == writing = 0 /\ term > 0 /\ writing' = term /\ UNCHANGED term

EndWrite == writing # 0 /\ writing' = 0 /\ UNCHANGED term

FencedNext == BeginTerm \/ BeginWrite \/ EndWrite

FencedSpec == FencedInit /\ [][FencedNext]_fencedVars
=============================================================================
