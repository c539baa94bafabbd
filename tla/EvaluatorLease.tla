--------------------------- MODULE EvaluatorLease ---------------------------
(***************************************************************************)
(* The alert-evaluator lease of AlertEvaluationService                     *)
(* (src/backend/src/alert-config/alert-evaluation.service.ts): one row     *)
(* that several processes acquire by time, renew by heartbeat, and lock    *)
(* for the length of every transaction that writes alert state.            *)
(*                                                                         *)
(* A statement that waits for the row keeps the time it was given before   *)
(* it waited: acquisition and renewal carry the clock of their process,    *)
(* the fence the start time of its transaction.  Between any two steps     *)
(* time may pass, so a process may be as slow as the bound on time allows. *)
(***************************************************************************)
EXTENDS Integers

CONSTANTS
    Procs,      \* processes, each with its own random holderId
    LeaseTime,  \* alertEvaluatorLeaseMs
    Batch,      \* bound on the rule transactions of one run
    MaxTime,    \* bound on the clock
    None

ASSUME LeaseAssumption ==
    /\ LeaseTime \in Nat \ {0} /\ Batch \in Nat /\ MaxTime \in Nat
    /\ None \notin Procs

VARIABLES
    now,
    holder,   \* EvaluatorLease.holderId; None for an id no live process has
    expires,  \* EvaluatorLease.expiresAt
    lock,     \* the process whose transaction has the row FOR UPDATE
    term,     \* acquisitions so far (history)
    run,      \* per process: its run
    beat      \* per process: when its renewal under way was sent, or None

leaseVars == <<now, holder, expires, lock, term, run, beat>>

Times == 0 .. MaxTime

Run ==
    [pc : {"idle", "acquiring", "working", "fencing", "writing", "stopping"},
     asked : Nat,       \* the time the statement under way was given
     left : 0 .. Batch, \* rule transactions to come before the continuation
     last : BOOLEAN,    \* the continuation is being written
     held : BOOLEAN,    \* leaseHeld of the heartbeat
     term : Nat]        \* the term this run acquired

IdleRun == [pc |-> "idle", asked |-> 0, left |-> 0, last |-> FALSE, held |-> FALSE, term |-> 0]

LeaseTypeOK ==
    /\ now \in Nat
    /\ holder \in Procs \cup {None}
    /\ expires \in Nat
    /\ lock \in Procs \cup {None}
    /\ term \in Nat
    /\ run \in [Procs -> Run]
    /\ beat \in [Procs -> Nat \cup {None}]

LeaseInit ==
    /\ now = 0
    /\ holder = None /\ expires = 0
    /\ lock = None
    /\ term = 0
    /\ run = [p \in Procs |-> IdleRun]
    /\ beat = [p \in Procs |-> None]

-----------------------------------------------------------------------------
Tick == now < MaxTime /\ now' = now + 1
        /\ UNCHANGED <<holder, expires, lock, term, run, beat>>

(* isRunning admits one run of a process at a time. *)
StartRun(p) ==
    /\ run[p].pc = "idle"
    /\ run' = [run EXCEPT ![p] = [@ EXCEPT !.pc = "acquiring", !.asked = now]]
    /\ UNCHANGED <<now, holder, expires, lock, term, beat>>

Expired(at) == expires <= at

(* The conditional upsert, once it has the row. *)
AcquireLease(p) ==
    /\ run[p].pc = "acquiring"
    /\ lock = None
    /\ IF Expired(run[p].asked)
       THEN /\ holder' = p
            /\ expires' = run[p].asked + LeaseTime
            /\ term' = term + 1
            /\ \E n \in 0 .. Batch :
                 run' = [run EXCEPT ![p] = [@ EXCEPT !.pc = "working", !.left = n,
                                              !.last = FALSE, !.held = TRUE, !.term = term']]
       ELSE /\ run' = [run EXCEPT ![p] = IdleRun]
            /\ UNCHANGED <<holder, expires, term>>
    /\ UNCHANGED <<now, lock, beat>>

(* A transaction begins: for a rule while the heartbeat believes in the    *)
(* lease, for the continuation once the rules are done or it does not.     *)
BeginTransaction(p) ==
    /\ run[p].pc = "working"
    /\ \E last \in BOOLEAN :
         /\ last <=> ~ (run[p].held /\ run[p].left > 0)
         /\ run' = [run EXCEPT ![p] = [@ EXCEPT !.pc = "fencing", !.asked = now, !.last = last]]
    /\ UNCHANGED <<now, holder, expires, lock, term, beat>>

(* Where a run is when one of its transactions is over. *)
Resumed(r) ==
    IF r.last THEN [r EXCEPT !.pc = "stopping"]
    ELSE [r EXCEPT !.pc = "working", !.left = @ - 1]

(* Mutant: any unexpired lease will do. *)
HoldsSomeLease(p) == expires > run[p].asked

(* holdsLeaseForWrite, once it has the row. *)
HoldsLeaseForWrite(p) == holder = p /\ expires > run[p].asked

(* Mutant: the fence reads the row without FOR UPDATE. *)
FenceUnlocked(p) ==
    /\ run[p].pc = "fencing"
    /\ lock = None
    /\ IF HoldsLeaseForWrite(p)
       THEN run' = [run EXCEPT ![p].pc = "writing"]
       ELSE run' = [run EXCEPT ![p] = Resumed(@)]
    /\ UNCHANGED <<now, holder, expires, lock, term, beat>>

Fence(p) ==
    /\ run[p].pc = "fencing"
    /\ lock = None
    /\ IF HoldsLeaseForWrite(p)
       THEN lock' = p /\ run' = [run EXCEPT ![p].pc = "writing"]
       ELSE run' = [run EXCEPT ![p] = Resumed(@)] /\ UNCHANGED lock
    /\ UNCHANGED <<now, holder, expires, term, beat>>

(* The transaction commits, or is rolled back by a serialization failure;  *)
(* a failure outside the catch of a group ends the run.                    *)
EndTransaction(p) ==
    /\ run[p].pc = "writing"
    /\ lock' = None
    /\ \/ run' = [run EXCEPT ![p] = Resumed(@)]
       \/ run' = [run EXCEPT ![p].pc = "stopping"]
    /\ UNCHANGED <<now, holder, expires, term, beat>>

(* The timer sends a renewal while the run believes in its lease. *)
SendHeartbeat(p) ==
    /\ run[p].pc \in {"working", "fencing", "writing"}
    /\ run[p].held
    /\ beat[p] = None
    /\ beat' = [beat EXCEPT ![p] = now]
    /\ UNCHANGED <<now, holder, expires, lock, term, run>>

(* The renewal, once it has the row. *)
Renew(p) ==
    /\ beat[p] # None
    /\ lock = None
    /\ IF holder = p /\ expires > beat[p]
       THEN expires' = beat[p] + LeaseTime /\ UNCHANGED run
       ELSE run' = [run EXCEPT ![p].held = FALSE] /\ UNCHANGED expires
    /\ beat' = [beat EXCEPT ![p] = None]
    /\ UNCHANGED <<now, holder, lock, term>>

RenewalFails(p) ==
    /\ beat[p] # None
    /\ run' = [run EXCEPT ![p].held = FALSE]
    /\ beat' = [beat EXCEPT ![p] = None]
    /\ UNCHANGED <<now, holder, expires, lock, term>>

(* heartbeat.stop awaits the renewal under way; the lease is not released. *)
StopRun(p) ==
    /\ run[p].pc = "stopping"
    /\ beat[p] = None
    /\ run' = [run EXCEPT ![p] = IdleRun]
    /\ UNCHANGED <<now, holder, expires, lock, term, beat>>

(* The process restarts with a new holderId: its transaction is rolled     *)
(* back and the id the row may hold belongs to nobody.                     *)
Restart(p) ==
    /\ run[p].pc # "idle"
    /\ run' = [run EXCEPT ![p] = IdleRun]
    /\ beat' = [beat EXCEPT ![p] = None]
    /\ holder' = IF holder = p THEN None ELSE holder
    /\ lock' = IF lock = p THEN None ELSE lock
    /\ UNCHANGED <<now, expires, term>>

Step(p) ==
    \/ StartRun(p)
    \/ AcquireLease(p)
    \/ BeginTransaction(p)
    \/ Fence(p)
    \/ EndTransaction(p)
    \/ SendHeartbeat(p)
    \/ Renew(p)
    \/ RenewalFails(p)
    \/ StopRun(p)
    \/ Restart(p)

LeaseNext == Tick \/ \E p \in Procs : Step(p)

LeaseSpec == LeaseInit /\ [][LeaseNext]_leaseVars

-----------------------------------------------------------------------------
(* A transaction that is past its fence owns the row, in the newest term:  *)
(* whatever its clock, no process overtakes a write that may still commit, *)
(* also when the lease expires while the write is under way.               *)
WriterHoldsLease ==
    \A p \in Procs :
      run[p].pc = "writing" => lock = p /\ holder = p /\ run[p].term = term

(* The lease changes hands only when it has expired by the clock: a late   *)
(* upsert, given its time long ago, cannot take a lease renewed since.     *)
LeaseIsNotStolen ==
    [][\A p \in Procs : holder = p /\ holder' \notin {p, None} => expires <= now]_leaseVars

(* The terms and writes of the lease are those of FencedWriter. *)
Writing == IF \E p \in Procs : run[p].pc = "writing"
           THEN run[CHOOSE p \in Procs : run[p].pc = "writing"].term ELSE 0

Fenced == INSTANCE FencedWriter WITH writing <- Writing

ImplementsFencedWriter == Fenced!FencedSpec
=============================================================================
