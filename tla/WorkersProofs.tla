---------------------------- MODULE WorkersProofs ----------------------------
(***************************************************************************)
(* Proofs about the background workers of the backend.                     *)
(*                                                                         *)
(* EvaluatorLease, for any number of processes, any lease time and any     *)
(* bound on the clock: a write past its fence owns the lease, and the      *)
(* terms and writes of the lease are those of FencedWriter.                *)
(*                                                                         *)
(* NotificationDelivery, for any workers, jobs, users, batch size and      *)
(* bounds: no recipient is skipped or notified twice.                      *)
(***************************************************************************)
EXTENDS EvaluatorLease, NotificationDelivery, FiniteSetTheorems,
        WellFoundedInduction, TLAPS

-----------------------------------------------------------------------------
(* The lease of the evaluator.                                             *)

Active(p) == run[p].pc \notin {"idle", "acquiring"}

(* What the runs rely on: the holder's run has the newest term, and a rule *)
(* transaction has a rule left to count.                                   *)
RunsAreCurrent ==
    \A p \in Procs :
      /\ Active(p) => run[p].term > 0
      /\ Active(p) /\ holder = p => run[p].term = term
      /\ run[p].pc \in {"fencing", "writing"} /\ ~ run[p].last => run[p].left > 0

(* The inductive invariant.  WriterHoldsLease is not inductive by itself:  *)
(* that a run which passes its fence has the newest term is a fact about   *)
(* the runs that have not passed it yet.                                   *)
LeaseInv == LeaseTypeOK /\ RunsAreCurrent /\ WriterHoldsLease

(* The initial state: no run and no lease. *)
LEMMA InitLeaseInv == LeaseInit => LeaseInv
  BY LeaseAssumption DEF LeaseInit, LeaseInv, LeaseTypeOK, RunsAreCurrent, WriterHoldsLease, Active,
     IdleRun, Run

(* A run that has not begun is a run. *)
LEMMA IdleRunType == IdleRun \in Run
  BY LeaseAssumption DEF IdleRun, Run

(* A run that goes on after one of its transactions is a run. *)
LEMMA ResumedType ==
  ASSUME NEW r \in Run, ~ r.last => r.left > 0
  PROVE  /\ Resumed(r) \in Run
         /\ Resumed(r).pc \in {"stopping", "working"}
         /\ Resumed(r).term = r.term
<1>1. CASE r.last
  BY <1>1 DEF Resumed, Run
<1>2. CASE ~ r.last
  <2>1. r.left - 1 \in 0 .. Batch
    BY <1>2, LeaseAssumption DEF Run
  <2>2. Resumed(r) = [r EXCEPT !.pc = "working", !.left = r.left - 1]
    BY <1>2 DEF Resumed
  <2> QED BY <2>1, <2>2 DEF Run
<1> QED BY <1>1, <1>2

(* Every step of a process keeps the rows and the runs well-typed. *)
LEMMA StepType ==
  ASSUME LeaseInv, NEW p \in Procs, Step(p)
  PROVE  LeaseTypeOK'
<1> USE LeaseAssumption DEF LeaseInv, LeaseTypeOK
<1>1. CASE StartRun(p)
  BY ZenonT(60), <1>1 DEF StartRun, Run
<1>2. CASE AcquireLease(p)
  <2>1. CASE Expired(run[p].asked)
    <3>1. /\ expires' = run[p].asked + LeaseTime /\ run[p].asked \in Nat
          /\ holder' = p /\ term' = term + 1
          /\ UNCHANGED <<now, lock, beat>>
      BY <1>2, <2>1 DEF AcquireLease, Run
    <3>2. PICK n \in 0 .. Batch :
            run' = [run EXCEPT ![p] = [run[p] EXCEPT !.pc = "working", !.left = n,
                                         !.last = FALSE, !.held = TRUE, !.term = term']]
      BY <1>2, <2>1, Zenon DEF AcquireLease
    <3> DEFINE r == [run[p] EXCEPT !.pc = "working", !.left = n,
                                    !.last = FALSE, !.held = TRUE, !.term = term']
    <3>3. term' \in Nat /\ run[p] \in Run
      BY <3>1
    <3>4. r \in Run
      BY <3>3 DEF Run
    <3> HIDE DEF r
    <3>5. run' \in [Procs -> Run]
      BY <3>2, <3>4 DEF r
    <3> QED BY <3>1, <3>5
  <2>2. CASE ~ Expired(run[p].asked)
    <3>1. run' = [run EXCEPT ![p] = IdleRun] /\ UNCHANGED <<now, holder, expires, lock, term, beat>>
      BY <1>2, <2>2 DEF AcquireLease
    <3> QED BY <3>1, IdleRunType
  <2> QED BY <2>1, <2>2
<1>3. CASE BeginTransaction(p)
  <2>1. PICK last \in BOOLEAN :
          run' = [run EXCEPT ![p] = [run[p] EXCEPT !.pc = "fencing", !.asked = now,
                                                   !.last = last]]
    BY <1>3 DEF BeginTransaction
  <2>3. run' \in [Procs -> Run]
    BY ZenonT(60), <2>1 DEF Run
  <2> QED BY <1>3, <2>3 DEF BeginTransaction
<1>4. CASE Fence(p)
  <2>1. Resumed(run[p]) \in Run
    BY <1>4, ResumedType DEF Fence, RunsAreCurrent
  <2> QED BY <1>4, <2>1 DEF Fence, Run
<1>5. CASE EndTransaction(p)
  <2>1. Resumed(run[p]) \in Run
    BY <1>5, ResumedType DEF EndTransaction, RunsAreCurrent
  <2> QED BY <1>5, <2>1 DEF EndTransaction, Run
<1>6. CASE SendHeartbeat(p)
  BY <1>6 DEF SendHeartbeat
<1>7. CASE Renew(p)
  <2>1. beat[p] \in Nat /\ beat' \in [Procs -> Nat \cup {None}]
    BY <1>7 DEF Renew
  <2>2. expires' \in Nat
    BY <1>7, <2>1 DEF Renew
  <2>3. run' = run \/ run' = [run EXCEPT ![p] = [run[p] EXCEPT !.held = FALSE]]
    BY <1>7, Zenon DEF Renew
  <2>4. [run[p] EXCEPT !.held = FALSE] \in Run
    BY DEF Run
  <2>5. run' \in [Procs -> Run]
    BY <2>3, <2>4
  <2> QED BY <1>7, <2>1, <2>2, <2>5 DEF Renew
<1>8. CASE RenewalFails(p)
  BY ZenonT(60), <1>8 DEF RenewalFails, Run
<1>9. CASE StopRun(p)
  BY <1>9 DEF StopRun, Run, IdleRun
<1>10. CASE Restart(p)
  BY <1>10 DEF Restart, Run, IdleRun
<1> QED BY <1>1, <1>2, <1>3, <1>4, <1>5, <1>6, <1>7, <1>8, <1>9, <1>10 DEF Step

(* Every step of a process keeps the runs current and the writer alone. *)
LEMMA StepCurrent ==
  ASSUME LeaseInv, NEW p \in Procs, Step(p)
  PROVE  RunsAreCurrent' /\ WriterHoldsLease'
<1> USE LeaseAssumption DEF LeaseInv, LeaseTypeOK, RunsAreCurrent, WriterHoldsLease, Active
<1>1. CASE StartRun(p)
  BY <1>1 DEF StartRun, Run
<1>2. CASE AcquireLease(p)
  <2>1. \A q \in Procs : run[q].pc # "writing"
    BY <1>2 DEF AcquireLease
  <2>2. CASE Expired(run[p].asked)
    <3>1. holder' = p /\ term' = term + 1
      BY <1>2, <2>2 DEF AcquireLease
    <3>2. PICK n \in 0 .. Batch :
            run' = [run EXCEPT ![p] = [run[p] EXCEPT !.pc = "working", !.left = n,
                                         !.last = FALSE, !.held = TRUE, !.term = term']]
      BY <1>2, <2>2, Zenon DEF AcquireLease
    <3>3. /\ run'[p].pc = "working" /\ run'[p].term = term'
          /\ \A q \in Procs \ {p} : run'[q] = run[q]
      BY <3>2 DEF Run
    <3> QED BY <2>1, <3>1, <3>3
  <2>3. CASE ~ Expired(run[p].asked)
    BY <1>2, <2>1, <2>3 DEF AcquireLease, IdleRun
  <2> QED BY <2>2, <2>3
<1>3. CASE BeginTransaction(p)
  BY <1>3 DEF BeginTransaction, Run
<1>4. CASE Fence(p)
  <2>1. ~ run[p].last => run[p].left > 0
    BY <1>4 DEF Fence
  <2>2. /\ Resumed(run[p]).pc \in {"stopping", "working"}
        /\ Resumed(run[p]).term = run[p].term
    BY <2>1, ResumedType
  <2>3. \A q \in Procs : run[q].pc # "writing"
    BY <1>4 DEF Fence
  <2>4. CASE HoldsLeaseForWrite(p)
    BY <1>4, <2>1, <2>3, <2>4 DEF Fence, HoldsLeaseForWrite, Run
  <2>5. CASE ~ HoldsLeaseForWrite(p)
    BY <1>4, <2>2, <2>3, <2>5 DEF Fence, Run
  <2> QED BY <2>4, <2>5
<1>5. CASE EndTransaction(p)
  <2>1. ~ run[p].last => run[p].left > 0
    BY <1>5 DEF EndTransaction
  <2>2. /\ Resumed(run[p]).pc \in {"stopping", "working"}
        /\ Resumed(run[p]).term = run[p].term
    BY <2>1, ResumedType
  <2>3. \A q \in Procs \ {p} : run[q].pc # "writing"
    BY <1>5 DEF EndTransaction
  <2> QED BY <1>5, <2>2, <2>3 DEF EndTransaction, Run
<1>6. CASE SendHeartbeat(p)
  BY <1>6 DEF SendHeartbeat
<1>7. CASE Renew(p)
  BY <1>7 DEF Renew, Run
<1>8. CASE RenewalFails(p)
  BY <1>8 DEF RenewalFails, Run
<1>9. CASE StopRun(p)
  BY <1>9 DEF StopRun, Run, IdleRun
<1>10. CASE Restart(p)
  BY <1>10 DEF Restart, Run, IdleRun
<1> QED BY <1>1, <1>2, <1>3, <1>4, <1>5, <1>6, <1>7, <1>8, <1>9, <1>10 DEF Step

(* LeaseInv is inductive. *)
LEMMA NextLeaseInv == LeaseInv /\ [LeaseNext]_leaseVars => LeaseInv'
<1> SUFFICES ASSUME LeaseInv, [LeaseNext]_leaseVars PROVE LeaseInv'
  OBVIOUS
<1>1. CASE Tick
  BY <1>1 DEF Tick, LeaseInv, LeaseTypeOK, RunsAreCurrent, WriterHoldsLease, Active
<1>2. ASSUME NEW p \in Procs, Step(p) PROVE LeaseInv'
  BY <1>2, StepType, StepCurrent DEF LeaseInv
<1>3. CASE UNCHANGED leaseVars
  BY <1>3 DEF leaseVars, LeaseInv, LeaseTypeOK, RunsAreCurrent, WriterHoldsLease, Active
<1> QED BY <1>1, <1>2, <1>3 DEF LeaseNext

(* The rows of the lease and the runs stay well-typed. *)
THEOREM LeaseTypeCorrect == LeaseSpec => []LeaseTypeOK
<1>1. LeaseInv => LeaseTypeOK
  BY DEF LeaseInv
<1> QED BY <1>1, InitLeaseInv, NextLeaseInv, PTL DEF LeaseSpec

(* A process past its fence holds the row lock and the lease in the newest *)
(* term, for any number of processes and however slow each of them is.     *)
THEOREM WriterIsFenced == LeaseSpec => []WriterHoldsLease
<1>1. LeaseInv => WriterHoldsLease
  BY DEF LeaseInv
<1> QED BY <1>1, InitLeaseInv, NextLeaseInv, PTL DEF LeaseSpec

(* The time an acquisition was given is past, whatever it waits for. *)
AskedInThePast == \A p \in Procs : run[p].asked <= now

(* Going on with a run asks for nothing. *)
LEMMA ResumedAsked ==
  ASSUME NEW r \in Run
  PROVE  Resumed(r).asked = r.asked
<1>1. CASE r.last
  BY <1>1 DEF Resumed, Run
<1>2. CASE ~ r.last
  BY <1>2 DEF Resumed, Run
<1> QED BY <1>1, <1>2

(* Time only moves forward, and a statement is given the present. *)
LEMMA NextAsked == LeaseTypeOK /\ AskedInThePast /\ [LeaseNext]_leaseVars => AskedInThePast'
<1> SUFFICES ASSUME LeaseTypeOK, AskedInThePast, [LeaseNext]_leaseVars, NEW q \in Procs
             PROVE  run'[q].asked <= now'
  BY DEF AskedInThePast
<1>1. /\ now \in Nat /\ run \in [Procs -> Run] /\ run[q].asked \in Nat
      /\ run[q].asked <= now
  BY DEF LeaseTypeOK, Run, AskedInThePast
<1>2. CASE Tick
  BY <1>1, <1>2 DEF Tick
<1>3. CASE UNCHANGED leaseVars
  BY <1>1, <1>3 DEF leaseVars
<1>4. ASSUME NEW p \in Procs, Step(p) PROVE run'[q].asked <= now'
  <2>1. now' = now
    BY <1>4 DEF Step, StartRun, AcquireLease, BeginTransaction, Fence, EndTransaction,
                SendHeartbeat, Renew, RenewalFails, StopRun, Restart
  <2>2. run'[q].asked \in {run[q].asked, now, 0}
    <3>1. CASE StartRun(p)
      BY <1>1, <3>1 DEF StartRun, Run
    <3>2. CASE AcquireLease(p)
      <4>1. CASE Expired(run[p].asked)
        <5>1. PICK n \in 0 .. Batch :
                run' = [run EXCEPT ![p] = [run[p] EXCEPT !.pc = "working", !.left = n,
                                             !.last = FALSE, !.held = TRUE, !.term = term']]
          BY <3>2, <4>1, Zenon DEF AcquireLease
        <5> QED BY <1>1, <5>1 DEF Run
      <4>2. CASE ~ Expired(run[p].asked)
        BY <1>1, <3>2, <4>2 DEF AcquireLease, IdleRun
      <4> QED BY <4>1, <4>2
    <3>3. CASE BeginTransaction(p)
      BY <1>1, <3>3 DEF BeginTransaction, Run
    <3>4. CASE Fence(p)
      <4>1. run' = [run EXCEPT ![p] = [run[p] EXCEPT !.pc = "writing"]]
            \/ run' = [run EXCEPT ![p] = Resumed(run[p])]
        BY <3>4, Zenon DEF Fence
      <4> QED BY <1>1, <4>1, ResumedAsked DEF Run
    <3>5. CASE EndTransaction(p)
      <4>1. run' = [run EXCEPT ![p] = [run[p] EXCEPT !.pc = "stopping"]]
            \/ run' = [run EXCEPT ![p] = Resumed(run[p])]
        BY <3>5, Zenon DEF EndTransaction
      <4> QED BY <1>1, <4>1, ResumedAsked DEF Run
    <3>6. CASE SendHeartbeat(p)
      BY <3>6 DEF SendHeartbeat
    <3>7. CASE Renew(p)
      BY <1>1, <3>7 DEF Renew, Run
    <3>8. CASE RenewalFails(p)
      BY <1>1, <3>8 DEF RenewalFails, Run
    <3>9. CASE StopRun(p)
      BY <1>1, <3>9 DEF StopRun, Run, IdleRun
    <3>10. CASE Restart(p)
      BY <1>1, <3>10 DEF Restart, Run, IdleRun
    <3> QED BY <1>4, <3>1, <3>2, <3>3, <3>4, <3>5, <3>6, <3>7, <3>8, <3>9, <3>10 DEF Step
  <2> QED BY <1>1, <2>1, <2>2
<1> QED BY <1>2, <1>3, <1>4 DEF LeaseNext

(* Only an upsert that was given a time past the expiry changes the hand. *)
LEMMA StepKeepsUnexpired ==
  ASSUME LeaseTypeOK, AskedInThePast, [LeaseNext]_leaseVars,
         NEW q \in Procs, holder = q, holder' \notin {q, None}
  PROVE  expires <= now
<1>1. PICK p \in Procs : AcquireLease(p) /\ Expired(run[p].asked)
  BY DEF LeaseNext, Step, leaseVars, Tick, StartRun, AcquireLease, BeginTransaction, Fence, EndTransaction,
         SendHeartbeat, Renew, RenewalFails, StopRun, Restart
<1>2. run[p].asked <= now /\ run[p].asked \in Nat
  BY <1>1 DEF AskedInThePast, LeaseTypeOK, Run
<1> QED BY <1>1, <1>2 DEF Expired, LeaseTypeOK

(* The lease changes hands only after it expired by the clock, also when   *)
(* the upsert that takes it was given its time long before it got the row. *)
THEOREM LeaseNeverStolen == LeaseSpec => LeaseIsNotStolen
<1>1. LeaseInit => AskedInThePast
  <2> SUFFICES ASSUME LeaseInit, NEW p \in Procs PROVE run[p].asked <= now
    BY DEF AskedInThePast
  <2>1. run[p] = IdleRun /\ now = 0
    BY DEF LeaseInit
  <2> QED BY <2>1 DEF IdleRun
<1>2. LeaseTypeOK /\ AskedInThePast /\ [LeaseNext]_leaseVars =>
        [\A p \in Procs : holder = p /\ holder' \notin {p, None} => expires <= now]_leaseVars
  BY StepKeepsUnexpired
<1> QED BY <1>1, <1>2, NextAsked, LeaseTypeCorrect, PTL DEF LeaseSpec, LeaseIsNotStolen

-----------------------------------------------------------------------------
(* The refinement *)

(* The term of the write in progress is the writer's. *)
LEMMA WritingOfWriter ==
  ASSUME WriterHoldsLease, NEW p \in Procs, run[p].pc = "writing"
  PROVE  Writing = run[p].term
<1>1. \A q \in Procs : run[q].pc = "writing" => q = p
  BY DEF WriterHoldsLease
<1> QED BY <1>1 DEF Writing

(* While nobody writes there is no term in progress. *)
LEMMA WritingOfNobody ==
  ASSUME \A p \in Procs : run[p].pc # "writing"
  PROVE  Writing = 0
  BY DEF Writing

(* A step that leaves every writer and its term alone leaves Writing. *)
LEMMA WritingUnchanged ==
  ASSUME LeaseInv, LeaseInv',
         \A p \in Procs : /\ (run'[p].pc = "writing") <=> (run[p].pc = "writing")
                          /\ run[p].pc = "writing" => run'[p].term = run[p].term
  PROVE  Writing' = Writing
<1>1. CASE \E p \in Procs : run[p].pc = "writing"
  <2> PICK p \in Procs : run[p].pc = "writing"
    BY <1>1
  <2>1. Writing = run[p].term
    BY WritingOfWriter DEF LeaseInv
  <2>2. \A q \in Procs : run'[q].pc = "writing" => q = p
    BY DEF LeaseInv, WriterHoldsLease
  <2>3. Writing' = run'[p].term
    BY <2>2 DEF Writing
  <2> QED BY <2>1, <2>3
<1>2. CASE \A p \in Procs : run[p].pc # "writing"
  BY <1>2 DEF Writing
<1> QED BY <1>1, <1>2

(* No write is in progress while nobody has the row, and none but the      *)
(* writer's while it has.                                                  *)
LEMMA WritersAfter ==
  ASSUME NEW p \in Procs,
         \A q \in Procs \ {p} : run'[q].pc # "writing"
  PROVE  /\ run'[p].pc # "writing" => Writing' = 0
         /\ run'[p].pc = "writing" => Writing' = run'[p].term
<1>1. CASE run'[p].pc # "writing"
  <2>1. \A q \in Procs : run'[q].pc # "writing"
    BY <1>1
  <2> QED BY <1>1, <2>1 DEF Writing
<1>2. CASE run'[p].pc = "writing"
  <2>1. \A q \in Procs : run'[q].pc = "writing" <=> q = p
    BY <1>2
  <2> QED BY <1>2, <2>1 DEF Writing
<1> QED BY <1>1, <1>2

(* At first there is neither a term nor a write. *)
LEMMA InitFenced == LeaseInit => Fenced!FencedInit
<1> SUFFICES ASSUME LeaseInit PROVE Fenced!FencedInit
  OBVIOUS
<1>1. \A p \in Procs : run[p].pc # "writing"
  BY DEF LeaseInit, IdleRun
<1> QED BY <1>1, WritingOfNobody DEF LeaseInit, Fenced!FencedInit

(* Every step of the lease is a step of FencedWriter or leaves it alone.   *)
LEMMA StepFenced ==
  ASSUME LeaseInv, LeaseInv', NEW p \in Procs, Step(p)
  PROVE  Fenced!FencedNext \/ UNCHANGED Fenced!fencedVars
<1> USE DEF Fenced!FencedNext, Fenced!fencedVars
<1>1. /\ run \in [Procs -> Run] /\ run[p] \in Run /\ term \in Nat
      /\ \A q \in Procs : run[q].pc = "writing" => lock = q
  BY DEF LeaseInv, LeaseTypeOK, WriterHoldsLease
<1>2. None \notin Procs
  BY LeaseAssumption
<1>3. ASSUME UNCHANGED term,
             \A q \in Procs : /\ (run'[q].pc = "writing") <=> (run[q].pc = "writing")
                              /\ run[q].pc = "writing" => run'[q].term = run[q].term
      PROVE  UNCHANGED Fenced!fencedVars
  BY <1>3, WritingUnchanged
<1>4. CASE StartRun(p)
  BY <1>1, <1>3, <1>4 DEF StartRun, Run
<1>5. CASE AcquireLease(p)
  <2>1. Writing = 0
    BY <1>1, <1>2, <1>5, WritingOfNobody DEF AcquireLease
  <2>2. CASE Expired(run[p].asked)
    <3>1. PICK n \in 0 .. Batch :
            run' = [run EXCEPT ![p] = [run[p] EXCEPT !.pc = "working", !.left = n,
                                         !.last = FALSE, !.held = TRUE, !.term = term']]
      BY <1>5, <2>2, Zenon DEF AcquireLease
    <3>2. \A q \in Procs : run'[q].pc # "writing"
      BY <1>1, <1>2, <1>5, <3>1 DEF AcquireLease, Run
    <3>3. Writing' = 0 /\ term' = term + 1
      BY <1>5, <2>2, <3>2, WritersAfter DEF AcquireLease
    <3> QED BY <2>1, <3>3 DEF Fenced!BeginTerm
  <2>3. CASE ~ Expired(run[p].asked)
    <3>1. \A q \in Procs : run'[q].pc # "writing"
      BY <1>1, <1>2, <1>5, <2>3 DEF AcquireLease, IdleRun
    <3> QED BY <1>5, <2>1, <2>3, <3>1, WritersAfter DEF AcquireLease
  <2> QED BY <2>2, <2>3
<1>6. CASE BeginTransaction(p)
  <2>1. PICK last \in BOOLEAN :
          run' = [run EXCEPT ![p] = [run[p] EXCEPT !.pc = "fencing", !.asked = now,
                                                   !.last = last]]
    BY <1>6 DEF BeginTransaction
  <2> QED BY <1>1, <1>3, <1>6, <2>1 DEF BeginTransaction, Run
<1>7. CASE Fence(p)
  <2>1. \A q \in Procs : run[q].pc # "writing"
    BY <1>1, <1>2, <1>7 DEF Fence
  <2>2. Writing = 0 /\ term' = term
    BY <1>7, <2>1, WritingOfNobody DEF Fence
  <2>3. CASE HoldsLeaseForWrite(p)
    <3>1. /\ run'[p].pc = "writing" /\ run'[p].term = run[p].term
          /\ \A q \in Procs \ {p} : run'[q] = run[q]
      BY <1>1, <1>7, <2>3 DEF Fence, Run
    <3>2. run[p].term = term /\ term > 0
      BY <1>7, <2>3 DEF Fence, HoldsLeaseForWrite, LeaseInv, RunsAreCurrent, Active
    <3>3. Writing' = term
      BY <2>1, <3>1, <3>2, WritersAfter
    <3> QED BY <2>2, <3>2, <3>3 DEF Fenced!BeginWrite
  <2>4. CASE ~ HoldsLeaseForWrite(p)
    <3>1. ~ run[p].last => run[p].left > 0
      BY <1>7 DEF Fence, LeaseInv, RunsAreCurrent
    <3>2. run' = [run EXCEPT ![p] = Resumed(run[p])]
      BY <1>7, <2>4, Zenon DEF Fence
    <3>3. \A q \in Procs : run'[q].pc # "writing"
      BY <1>1, <2>1, <3>1, <3>2, ResumedType
    <3> QED BY <2>2, <3>3, WritersAfter
  <2> QED BY <2>3, <2>4
<1>8. CASE EndTransaction(p)
  <2>1. Writing = run[p].term /\ run[p].term > 0 /\ term' = term
    BY <1>8, WritingOfWriter DEF EndTransaction, LeaseInv, RunsAreCurrent, Active
  <2>2. ~ run[p].last => run[p].left > 0
    BY <1>8 DEF EndTransaction, LeaseInv, RunsAreCurrent
  <2>3. run' = [run EXCEPT ![p] = [run[p] EXCEPT !.pc = "stopping"]]
        \/ run' = [run EXCEPT ![p] = Resumed(run[p])]
    BY <1>8, Zenon DEF EndTransaction
  <2>4. \A q \in Procs : run'[q].pc # "writing"
    <3>1. \A q \in Procs \ {p} : run[q].pc # "writing"
      BY <1>1, <1>8 DEF EndTransaction
    <3>2. run'[p].pc # "writing" /\ \A q \in Procs \ {p} : run'[q] = run[q]
      <4>1. [run[p] EXCEPT !.pc = "stopping"].pc # "writing" /\ Resumed(run[p]).pc # "writing"
        BY <1>1, <2>2, ResumedType DEF Run
      <4> QED BY <1>1, <2>3, <4>1
    <3> QED BY <3>1, <3>2
  <2>5. Writing' = 0
    BY <2>4, WritersAfter
  <2> QED BY <1>1, <2>1, <2>5 DEF Fenced!EndWrite
<1>9. CASE SendHeartbeat(p)
  BY <1>3, <1>9 DEF SendHeartbeat
<1>10. CASE Renew(p)
  <2>1. run' = run \/ run' = [run EXCEPT ![p] = [run[p] EXCEPT !.held = FALSE]]
    BY <1>10, Zenon DEF Renew
  <2> QED BY <1>1, <1>3, <1>10, <2>1 DEF Renew, Run
<1>11. CASE RenewalFails(p)
  BY <1>1, <1>3, <1>11 DEF RenewalFails, Run
<1>12. CASE StopRun(p)
  BY <1>1, <1>3, <1>12 DEF StopRun, IdleRun
<1>13. CASE Restart(p)
  <2>1. /\ run'[p].pc # "writing"
        /\ \A q \in Procs \ {p} : run'[q] = run[q]
        /\ term' = term
    BY <1>1, <1>13 DEF Restart, IdleRun
  <2>2. CASE run[p].pc = "writing"
    <3>1. Writing = run[p].term /\ run[p].term > 0
      BY <2>2, WritingOfWriter DEF LeaseInv, RunsAreCurrent, Active
    <3>2. Writing' = 0
      BY <1>1, <2>1, <2>2, WritersAfter
    <3> QED BY <1>1, <2>1, <3>1, <3>2 DEF Fenced!EndWrite
  <2>3. CASE run[p].pc # "writing"
    BY <1>3, <2>1, <2>3
  <2> QED BY <2>2, <2>3
<1> QED BY <1>4, <1>5, <1>6, <1>7, <1>8, <1>9, <1>10, <1>11, <1>12, <1>13 DEF Step

(* The lease implements FencedWriter: writes belong to one term each, and  *)
(* no term begins while a write of an earlier one can still commit.        *)
THEOREM LeaseFencesWrites == LeaseSpec => ImplementsFencedWriter
<1>1. LeaseInv /\ LeaseInv' /\ [LeaseNext]_leaseVars => [Fenced!FencedNext]_Fenced!fencedVars
  <2> SUFFICES ASSUME LeaseInv, LeaseInv', [LeaseNext]_leaseVars
               PROVE  Fenced!FencedNext \/ UNCHANGED Fenced!fencedVars
    OBVIOUS
  <2>1. CASE Tick
    BY <2>1, WritingUnchanged DEF Tick, Fenced!fencedVars
  <2>2. CASE UNCHANGED leaseVars
    BY <2>2, WritingUnchanged DEF leaseVars, Fenced!fencedVars
  <2> QED BY <2>1, <2>2, StepFenced DEF LeaseNext
<1> QED BY <1>1, InitLeaseInv, NextLeaseInv, InitFenced, PTL
        DEF LeaseSpec, ImplementsFencedWriter, Fenced!FencedSpec

-----------------------------------------------------------------------------
(* The delivery of notifications.                                          *)

(* A set of numbers up to n that is not empty has a greatest element: of   *)
(* the intervals from its elements up to n one is the least.               *)
LEMMA GreatestExists ==
    ASSUME NEW n \in Nat, NEW T \in SUBSET (1 .. n), T # {}
    PROVE  \E x \in T : \A y \in T : x >= y
<1> DEFINE upTo == {x .. n : x \in T}
<1>1. upTo \subseteq FiniteSubsetsOf(1 .. n) /\ upTo # {}
  <2>1. \A x \in T : x .. n \in SUBSET (1 .. n) /\ IsFiniteSet(x .. n)
    BY FS_Interval
  <2> QED BY <2>1 DEF FiniteSubsetsOf
<1>2. PICK a \in upTo : \A b \in upTo : ~(<<b, a>> \in StrictSubsetOrdering(1 .. n))
  <2> HIDE DEF upTo
  <2> QED BY <1>1, FS_StrictSubsetOrderingWellFounded, WFMin
<1>3. PICK x \in T : a = x .. n BY <1>2
<1>4. ASSUME NEW y \in T, ~(x >= y) PROVE FALSE
  <2>1. y .. n \subseteq x .. n /\ y .. n # x .. n
    BY <1>4
  <2>2. y .. n \in SUBSET (1 .. n) /\ x .. n \in SUBSET (1 .. n) OBVIOUS
  <2>3. <<y .. n, x .. n>> \in StrictSubsetOrdering(1 .. n)
    BY <2>1, <2>2, Zenon DEF StrictSubsetOrdering
  <2>4. y .. n \in upTo OBVIOUS
  <2> QED BY <1>2, <1>3, <2>3, <2>4
<1> QED BY <1>4

(* ... and, likewise, a least one.                                         *)
LEMMA LeastExists ==
    ASSUME NEW n \in Nat, NEW T \in SUBSET (1 .. n), T # {}
    PROVE  \E x \in T : \A y \in T : x <= y
<1> DEFINE R == {n + 1 - x : x \in T}
<1>1. R \in SUBSET (1 .. n) /\ R # {}
  <2>1. \A x \in T : n + 1 - x \in 1 .. n OBVIOUS
  <2>2. R # {} OBVIOUS
  <2> QED BY <2>1, <2>2
<1>2. PICK r \in R : \A s \in R : r >= s
  <2> HIDE DEF R
  <2> QED BY <1>1, GreatestExists
<1>3. PICK x \in T : r = n + 1 - x BY <1>2
<1>4. ASSUME NEW y \in T PROVE x <= y
  <2>1. r >= n + 1 - y BY <1>2
  <2> QED BY <1>3, <2>1
<1> QED BY <1>4

LEMMA MaxOf ==
    ASSUME NEW T \in SUBSET Users, T # {} PROVE Max(T) \in T /\ \A y \in T : Max(T) >= y
<1>1. \E x \in T : \A y \in T : x >= y
  BY GreatestExists, DeliveryAssumption DEF Users
<1> QED BY <1>1 DEF Max

(* The next batch of recipients comes right after the cursor: whoever is   *)
(* left out comes after all of it, and nobody is left out if it is short.  *)
LEMMA BatchIsNext ==
    ASSUME NEW R \in SUBSET Users, NEW cursor \in 0 .. NUsers, NEW B, B = NextRecipients(R, cursor)
    PROVE  /\ B \subseteq {u \in R : u > cursor}
           /\ \A u \in R, m \in B : cursor < u /\ u <= m => u \in B
           /\ IsLastBatch(B) => B = {u \in R : u > cursor}
<1> DEFINE rest == {u \in R : u > cursor}
           before(u) == {v \in rest : v < u}
<1>1. /\ rest \in SUBSET Users /\ IsFiniteSet(rest)
      /\ B = {u \in rest : Cardinality(before(u)) < RecipientBatch}
  <2>1. IsFiniteSet(Users) BY FS_Interval, DeliveryAssumption DEF Users
  <2>2. rest \in SUBSET Users OBVIOUS
  <2>3. IsFiniteSet(rest)
    <3> HIDE DEF rest
    <3> QED BY <2>1, <2>2, FS_Subset
  <2>4. B = {u \in rest : Cardinality(before(u)) < RecipientBatch} BY DEF NextRecipients
  <2> QED BY <2>2, <2>3, <2>4
<1>2. \A u : IsFiniteSet(before(u)) /\ Cardinality(before(u)) \in Nat
  BY <1>1, FS_Subset, FS_CardinalityType
<1>3. ASSUME NEW u \in R, NEW m \in B, cursor < u, u <= m PROVE u \in B
  <2>1. before(u) \in SUBSET before(m)
    BY <1>1, <1>3, DeliveryAssumption DEF Users
  <2>2. Cardinality(before(u)) <= Cardinality(before(m))
    <3> HIDE DEF before
    <3> QED BY <1>2, <2>1, FS_Subset
  <2>3. u \in rest /\ Cardinality(before(m)) < RecipientBatch
    BY <1>1, <1>3
  <2>4. Cardinality(before(u)) < RecipientBatch
    <3> HIDE DEF before
    <3> QED BY <1>2, <2>2, <2>3, DeliveryAssumption
  <2> QED BY <1>1, <2>3, <2>4
<1>4. ASSUME IsLastBatch(B), B # rest PROVE FALSE
  <2>1. rest \ B \in SUBSET (1 .. NUsers) /\ rest \ B # {}
    BY <1>1, <1>4 DEF Users
  <2>2. PICK u \in rest \ B : \A v \in rest \ B : u <= v
    <3> HIDE DEF rest
    <3> QED BY <2>1, LeastExists, DeliveryAssumption
  <2>3. before(u) \in SUBSET B
    BY <1>1, <2>2, DeliveryAssumption DEF Users
  <2>4. IsFiniteSet(B)
    <3> HIDE DEF rest, before
    <3> QED BY <1>1, FS_Subset
  <2>5. Cardinality(before(u)) <= Cardinality(B) /\ Cardinality(B) \in Nat
    <3> HIDE DEF before
    <3> QED BY <2>3, <2>4, FS_Subset, FS_CardinalityType
  <2>6. Cardinality(before(u)) < RecipientBatch
    <3> HIDE DEF before
    <3> QED BY <1>2, <1>4, <2>5, DeliveryAssumption DEF IsLastBatch
  <2> QED BY <1>1, <2>2, <2>6
<1> QED BY <1>1, <1>3, <1>4

-----------------------------------------------------------------------------
(* Types.                                                                  *)

(* A worker that has locked a job has a batch left for it.                 *)
ClaimsHaveBatches == \A w \in Workers : worker[w].claim # NoJob => worker[w].left > 0

TypeInv == DeliveryTypeOK /\ ClaimsHaveBatches

LEMMA BatchTyped ==
    ASSUME TypeInv, NEW j \in Jobs, NEW row \in Job,
           NEW R, R = Snapshot(j, row), NEW B, B = NextRecipients(R, row.cursor)
    PROVE  /\ R \in SUBSET Users /\ B \in SUBSET R
           /\ (IF B = {} THEN row.cursor ELSE Max(B)) \in 0 .. NUsers
<1>1. R \in SUBSET Users BY DEF TypeInv, DeliveryTypeOK, Snapshot
<1>2. B \in SUBSET R BY DEF NextRecipients
<1>3. row.cursor \in 0 .. NUsers BY DEF Job
<1>4. B # {} => Max(B) \in Users BY <1>1, <1>2, MaxOf
<1> QED BY <1>1, <1>2, <1>3, <1>4, DeliveryAssumption DEF Users

LEMMA NextTyped == ASSUME TypeInv, [DeliveryNext]_deliveryVars PROVE TypeInv'
<1> USE DEF TypeInv, DeliveryTypeOK
<1>1. CASE UNCHANGED deliveryVars BY <1>1 DEF deliveryVars, ClaimsHaveBatches
<1>2. ASSUME NEW j \in Jobs, QueueLifecycleNotifications(j) PROVE TypeInv'
  BY <1>2 DEF QueueLifecycleNotifications, Job, ClaimsHaveBatches
<1>3. ASSUME NEW u \in Users, EligibilityChanges(u) PROVE TypeInv'
  BY <1>3, DeliveryAssumption DEF EligibilityChanges, ClaimsHaveBatches
<1>4. ASSUME NEW j \in Jobs, NEW u \in Users, PurgeNotification(j, u) PROVE TypeInv'
  BY <1>4 DEF PurgeNotification, ClaimsHaveBatches
<1>5. ASSUME NEW w \in Workers, StartDelivery(w) PROVE TypeInv'
  BY <1>5, DeliveryAssumption DEF StartDelivery, Worker, IdleWorker, ClaimsHaveBatches
<1>6. ASSUME NEW w \in Workers, Claim(w) PROVE TypeInv'
  <2>1. Claimable \in SUBSET (1 .. NJobs) /\ Claimable # {}
    BY <1>6 DEF Claim, Claimable, Jobs
  <2>2. Min(Claimable) \in Jobs
    <3>1. \E x \in Claimable : \A y \in Claimable : x <= y
      BY <2>1, LeastExists, DeliveryAssumption
    <3> QED BY <2>1, <3>1 DEF Min, Jobs
  <2> QED BY <1>6, <2>2 DEF Claim, Looping, Worker, ClaimsHaveBatches
<1>7. ASSUME NEW w \in Workers, EndRun(w) PROVE TypeInv'
  BY <1>7, DeliveryAssumption DEF EndRun, Looping, Worker, ClaimsHaveBatches
<1>8. ASSUME NEW w \in Workers, DeliverBatch(w) PROVE TypeInv'
  <2> DEFINE j == worker[w].claim
             row == worker[w].row
             R == Snapshot(j, row)
             B == NextRecipients(R, row.cursor)
             cursor == IF B = {} THEN row.cursor ELSE Max(B)
  <2>1. j \in Jobs /\ row \in Job /\ worker[w].left \in 1 .. BatchesPerRun
    BY <1>8, DeliveryAssumption DEF DeliverBatch, Worker, ClaimsHaveBatches
  <2>2. R \in SUBSET Users /\ B \in SUBSET R /\ cursor \in 0 .. NUsers
    BY <2>1, BatchTyped
  <2>3. recipients' \in [Jobs -> SUBSET Users] /\ inbox' \in [Jobs -> SUBSET Users]
    BY <1>8, <2>1, <2>2 DEF DeliverBatch
  <2>4. made' \in [Jobs -> [Users -> Nat]]
    BY <1>8, <2>1 DEF DeliverBatch
  <2>5. job' \in [Jobs -> Job]
    <3>1. job' = [job EXCEPT ![j] = [@ EXCEPT !.snapshot = TRUE, !.delivered = IsLastBatch(B),
                                               !.cursor = cursor]]
      BY <1>8 DEF DeliverBatch
    <3>2. IsLastBatch(B) \in BOOLEAN BY DEF IsLastBatch
    <3> HIDE DEF cursor, B
    <3> QED BY <2>1, <2>2, <3>1, <3>2 DEF Job
  <2>6. worker' \in [Workers -> Worker] /\ ClaimsHaveBatches'
    <3> DEFINE idle == [IdleWorker EXCEPT !.left = worker[w].left - 1]
    <3>1. idle \in Worker /\ idle.claim = NoJob
      <4>1. worker[w].left - 1 \in 0 .. BatchesPerRun
        BY <2>1, DeliveryAssumption
      <4>2. IdleWorker \in Worker /\ IdleWorker.claim = NoJob
        BY DeliveryAssumption DEF Worker, IdleWorker, NoRow, Job
      <4> QED BY <4>1, <4>2 DEF Worker
    <3>2. worker' = [worker EXCEPT ![w] = idle]
      BY <1>8 DEF DeliverBatch
    <3> HIDE DEF idle
    <3> QED BY <3>1, <3>2 DEF ClaimsHaveBatches
  <2> QED BY <1>8, <2>3, <2>4, <2>5, <2>6 DEF DeliverBatch
<1>9. ASSUME NEW w \in Workers, Fail(w) PROVE TypeInv'
  BY <1>9, DeliveryAssumption DEF Fail, Worker, IdleWorker, NoRow, Job, ClaimsHaveBatches
<1> QED BY <1>1, <1>2, <1>3, <1>4, <1>5, <1>6, <1>7, <1>8, <1>9 DEF DeliveryNext, WorkerStep

LEMMA InitTyped == DeliveryInit => TypeInv
BY DeliveryAssumption DEF DeliveryInit, TypeInv, DeliveryTypeOK, ClaimsHaveBatches, Job, Worker, NoRow, IdleWorker

(* The jobs, their recipients and the claims of the workers keep their     *)
(* types.                                                                  *)
THEOREM DeliveryTypeCorrect == DeliverySpec => []DeliveryTypeOK
BY InitTyped, NextTyped, PTL DEF DeliverySpec, TypeInv

-----------------------------------------------------------------------------
(* Delivery.                                                               *)

(* A claim is exclusive, and what it read of its job is what the row has.  *)
ClaimsAreLocked ==
    \A w \in Workers : worker[w].claim # NoJob =>
        /\ worker[w].row = job[worker[w].claim]
        /\ job[worker[w].claim].queued /\ ~job[worker[w].claim].delivered
        /\ \A v \in Workers : worker[v].claim = worker[w].claim => v = w

(* The recipients up to the cursor have been notified once, nobody else    *)
(* has.                                                                    *)
Past(j) == {u \in recipients[j] : u <= job[j].cursor}

MadeUpToCursor == \A j \in Jobs, u \in Users : made[j][u] = IF u \in Past(j) THEN 1 ELSE 0

InboxIsPast == \A j \in Jobs : inbox[j] \subseteq Past(j)

DeliveredIsPast == \A j \in Jobs : job[j].delivered => recipients[j] \subseteq Past(j)

SnapshotIsFirst == \A j \in Jobs : ~job[j].snapshot => recipients[j] = {} /\ job[j].cursor = 0

DeliveryInv ==
    ClaimsAreLocked /\ MadeUpToCursor /\ InboxIsPast /\ DeliveredIsPast /\ SnapshotIsFirst

(* Past in the next state.                                                 *)
Moved(j) == {u \in recipients'[j] : u <= job'[j].cursor}

(* What a batch does to its job: it moves the cursor over its recipients.  *)
Advances(j) ==
    /\ \E B \in SUBSET Users :
         /\ B \cap Past(j) = {} /\ Moved(j) = Past(j) \cup B
         /\ inbox' = [inbox EXCEPT ![j] = @ \cup B]
         /\ made' = [made EXCEPT ![j] = [u \in Users |-> @[u] + IF u \in B THEN 1 ELSE 0]]
    /\ job'[j].delivered => recipients'[j] \subseteq Moved(j)
    /\ job'[j].snapshot

LEMMA BatchMovesCursor ==
    ASSUME TypeInv, DeliveryInv, NEW w \in Workers, DeliverBatch(w), NEW j, j = worker[w].claim
    PROVE  j \in Jobs /\ Advances(j)
<1> USE DEF TypeInv, DeliveryTypeOK
<1> DEFINE row == job[j]
           R == Snapshot(j, row)
           B == NextRecipients(R, row.cursor)
           cursor == IF B = {} THEN row.cursor ELSE Max(B)
<1>1. j \in Jobs /\ worker[w].row = row /\ row \in Job /\ row.cursor \in 0 .. NUsers
  BY DEF DeliverBatch, Worker, DeliveryInv, ClaimsAreLocked, Job
<1>2. /\ recipients'[j] = R
      /\ inbox' = [inbox EXCEPT ![j] = @ \cup B]
      /\ made' = [made EXCEPT ![j] = [u \in Users |-> @[u] + IF u \in B \ inbox[j] THEN 1 ELSE 0]]
      /\ job'[j].snapshot /\ job'[j].delivered = IsLastBatch(B) /\ job'[j].cursor = cursor
  BY <1>1 DEF DeliverBatch
<1>0. R = Snapshot(j, row) /\ B = NextRecipients(R, row.cursor)
      /\ cursor = IF B = {} THEN row.cursor ELSE Max(B)
  OBVIOUS
<1>3. R \in SUBSET Users /\ B \in SUBSET R /\ cursor \in 0 .. NUsers
  <2> HIDE DEF R, B, cursor, row, TypeInv, DeliveryTypeOK
  <2>1. /\ R \in SUBSET Users /\ B \in SUBSET R
        /\ (IF B = {} THEN row.cursor ELSE Max(B)) \in 0 .. NUsers
    BY <1>0, <1>1, BatchTyped
  <2> QED BY <1>0, <2>1
<1>4. /\ B \subseteq {u \in R : u > row.cursor}
      /\ \A u \in R, m \in B : row.cursor < u /\ u <= m => u \in B
      /\ IsLastBatch(B) => B = {u \in R : u > row.cursor}
  <2> HIDE DEF R, B, row
  <2> QED BY <1>0, <1>1, <1>3, BatchIsNext
<1>5. B # {} => Max(B) \in B /\ \A y \in B : Max(B) >= y
  BY <1>3, MaxOf
<1>6. {u \in R : u <= row.cursor} = Past(j)
  <2>1. CASE row.snapshot
    BY <2>1 DEF Snapshot, Past
  <2>2. CASE ~row.snapshot
    <3>1. recipients[j] = {} /\ row.cursor = 0 BY <1>1, <2>2 DEF DeliveryInv, SnapshotIsFirst
    <3>2. \A u \in R : ~(u <= row.cursor) BY <1>3, <3>1 DEF Users
    <3> QED BY <3>1, <3>2 DEF Past
  <2> QED BY <2>1, <2>2
<1>7. Moved(j) = {u \in R : u <= cursor} BY <1>2 DEF Moved
<1> HIDE DEF R, B, row, cursor
<1>8. {u \in R : u <= cursor} = {u \in R : u <= row.cursor} \cup B
  <2>1. CASE B = {} BY <1>0, <2>1
  <2>2. CASE B # {}
    <3>1. cursor = Max(B) /\ cursor \in B /\ \A y \in B : cursor >= y
      BY <1>0, <1>5, <2>2
    <3>2. ASSUME NEW u \in R PROVE u <= cursor <=> u <= row.cursor \/ u \in B
      BY <1>1, <1>3, <1>4, <3>1, <3>2, DeliveryAssumption DEF Users
    <3> QED BY <1>3, <3>2
  <2> QED BY <2>1, <2>2
<1>9. B \cap Past(j) = {} /\ B \ inbox[j] = B
  <2>1. ASSUME NEW u \in B, u \in Past(j) PROVE FALSE
    BY <1>1, <1>3, <1>4, <1>6, <2>1, DeliveryAssumption DEF Users
  <2> QED BY <1>1, <2>1 DEF DeliveryInv, InboxIsPast
<1>10. ASSUME job'[j].delivered PROVE R \subseteq Moved(j)
  <2>1. \A u \in R : u <= row.cursor \/ u > row.cursor
    BY <1>1, <1>3, DeliveryAssumption DEF Users
  <2> QED BY <1>2, <1>4, <1>6, <1>7, <1>8, <1>10, <2>1
<1>11. Moved(j) = Past(j) \cup B BY <1>6, <1>7, <1>8
<1> QED BY <1>1, <1>2, <1>3, <1>9, <1>10, <1>11 DEF Advances

LEMMA DeliveryKept == ASSUME TypeInv, DeliveryInv, [DeliveryNext]_deliveryVars PROVE DeliveryInv'
<1> USE DEF TypeInv, DeliveryTypeOK
<1>1. CASE UNCHANGED deliveryVars
  BY <1>1 DEF deliveryVars, DeliveryInv, ClaimsAreLocked, MadeUpToCursor, InboxIsPast, DeliveredIsPast,
              SnapshotIsFirst, Past
<1>2. ASSUME NEW j \in Jobs, QueueLifecycleNotifications(j) PROVE DeliveryInv'
  <2>1. \A i \in Jobs : /\ job'[i].snapshot = job[i].snapshot /\ job'[i].cursor = job[i].cursor
                        /\ job'[i].delivered = job[i].delivered
                        /\ job[i].queued => job'[i] = job[i]
    BY <1>2 DEF QueueLifecycleNotifications, Job
  <2>2. UNCHANGED <<recipients, inbox, worker, made>> BY <1>2 DEF QueueLifecycleNotifications
  <2>3. ClaimsAreLocked' BY <2>1, <2>2 DEF DeliveryInv, ClaimsAreLocked, Worker
  <2>4. (MadeUpToCursor /\ InboxIsPast /\ DeliveredIsPast /\ SnapshotIsFirst)'
    BY ZenonT(60), <2>1, <2>2 DEF DeliveryInv, MadeUpToCursor, InboxIsPast, DeliveredIsPast, SnapshotIsFirst, Past
  <2> QED BY <2>3, <2>4 DEF DeliveryInv
<1>3. ASSUME NEW u \in Users, EligibilityChanges(u) PROVE DeliveryInv'
  BY <1>3 DEF EligibilityChanges, DeliveryInv, ClaimsAreLocked, MadeUpToCursor, InboxIsPast,
              DeliveredIsPast, SnapshotIsFirst, Past
<1>4. ASSUME NEW j \in Jobs, NEW u \in Users, PurgeNotification(j, u) PROVE DeliveryInv'
  <2>1. \A i \in Jobs : inbox'[i] \subseteq inbox[i] BY <1>4 DEF PurgeNotification
  <2> QED BY <1>4, <2>1 DEF PurgeNotification, DeliveryInv, ClaimsAreLocked, MadeUpToCursor,
             InboxIsPast, DeliveredIsPast, SnapshotIsFirst, Past
<1>5. ASSUME UNCHANGED <<job, recipients, inbox, made>>, ClaimsAreLocked' PROVE DeliveryInv'
  BY <1>5 DEF DeliveryInv, MadeUpToCursor, InboxIsPast, DeliveredIsPast, SnapshotIsFirst, Past
<1>6. ASSUME NEW w \in Workers, StartDelivery(w) \/ EndRun(w) \/ Fail(w) PROVE ClaimsAreLocked'
  <2>1. \A v \in Workers : /\ worker'[v].claim \in {worker[v].claim, NoJob}
                           /\ worker'[v].claim # NoJob => worker'[v].row = worker[v].row
    BY <1>6 DEF StartDelivery, EndRun, Fail, IdleWorker, Worker
  <2> QED BY <1>6, <2>1 DEF StartDelivery, EndRun, Fail, DeliveryInv, ClaimsAreLocked
<1>7. ASSUME NEW w \in Workers, Claim(w) PROVE ClaimsAreLocked'
  <2> DEFINE j == Min(Claimable)
  <2>1. j \in Claimable
    <3>1. Claimable \in SUBSET (1 .. NJobs) /\ Claimable # {}
      BY <1>7 DEF Claim, Claimable, Jobs
    <3>2. \E x \in Claimable : \A y \in Claimable : x <= y
      BY <3>1, LeastExists, DeliveryAssumption
    <3> QED BY <3>2 DEF Min
  <2>2. job[j].queued /\ ~job[j].delivered /\ \A v \in Workers : worker[v].claim # j
    BY <2>1 DEF Claimable
  <2>3. worker'[w].claim = j /\ worker'[w].row = job[j]
    BY <1>7 DEF Claim, Worker
  <2>4. \A v \in Workers \ {w} : worker'[v] = worker[v]
    BY <1>7 DEF Claim
  <2>5. UNCHANGED job BY <1>7 DEF Claim
  <2>6. \A v \in Workers \ {w} : worker[v].claim # NoJob =>
          worker[v].row = job[worker[v].claim] /\ worker[v].claim # j
    BY <2>2 DEF DeliveryInv, ClaimsAreLocked
  <2>7. \A v, x \in Workers : v # w /\ worker[v].claim # NoJob /\ worker[x].claim = worker[v].claim
                               => x = v
    BY DEF DeliveryInv, ClaimsAreLocked
  <2>8. \A v \in Workers : worker[v].claim # NoJob =>
          job[worker[v].claim].queued /\ ~job[worker[v].claim].delivered
    BY DEF DeliveryInv, ClaimsAreLocked
  <2>9. worker[w].claim = NoJob BY <1>7 DEF Claim, Looping
  <2> HIDE DEF j, TypeInv, DeliveryTypeOK
  <2> SUFFICES ASSUME NEW v \in Workers, worker'[v].claim # NoJob
               PROVE  /\ worker'[v].row = job[worker'[v].claim]
                      /\ job[worker'[v].claim].queued /\ ~job[worker'[v].claim].delivered
                      /\ \A x \in Workers : worker'[x].claim = worker'[v].claim => x = v
    BY <2>5 DEF ClaimsAreLocked
  <2>10. CASE v = w BY <2>2, <2>3, <2>4, <2>10
  <2>11. CASE v # w BY <2>3, <2>4, <2>6, <2>7, <2>8, <2>11
  <2> QED BY <2>10, <2>11
<1>8. ASSUME NEW w \in Workers, DeliverBatch(w) PROVE DeliveryInv'
  <2>0. PICK j \in Jobs : j = worker[w].claim
    BY <1>8 DEF DeliverBatch, Worker
  <2>1. Advances(j) BY <1>8, <2>0, BatchMovesCursor
  <2>2. \A i \in Jobs \ {j} : job'[i] = job[i] /\ recipients'[i] = recipients[i]
    BY <1>8, <2>0 DEF DeliverBatch
  <2>3. \A i \in Jobs \ {j} : Past(i)' = Past(i)
    BY <2>2 DEF Past
  <2>10. Moved(j) = Past(j)' BY DEF Moved, Past
  <2>4. \A v \in Workers \ {w} : worker'[v] = worker[v] /\ worker[v].claim # j
    BY <1>8, <2>0 DEF DeliverBatch, DeliveryInv, ClaimsAreLocked
  <2>5. worker'[w].claim = NoJob
    BY <1>8 DEF DeliverBatch, IdleWorker
  <2>6. ClaimsAreLocked'
    <3>1. \A v \in Workers : worker'[v].claim # NoJob =>
            v # w /\ worker'[v] = worker[v] /\ worker[v].claim \in Jobs \ {j}
      BY <2>4, <2>5 DEF Worker
    <3> HIDE DEF TypeInv, DeliveryTypeOK
    <3> QED BY <2>2, <3>1 DEF DeliveryInv, ClaimsAreLocked
  <2>7. MadeUpToCursor' /\ InboxIsPast'
    BY <2>1, <2>3, <2>10 DEF DeliveryInv, Advances, MadeUpToCursor, InboxIsPast
  <2>8. DeliveredIsPast'
    <3>1. job'[j].delivered => recipients'[j] \subseteq Past(j)'
      BY <2>1, <2>10 DEF Advances
    <3> QED BY <2>2, <2>3, <3>1 DEF DeliveryInv, DeliveredIsPast
  <2>9. SnapshotIsFirst'
    BY <2>1, <2>2 DEF Advances, DeliveryInv, SnapshotIsFirst
  <2> QED BY <2>6, <2>7, <2>8, <2>9 DEF DeliveryInv
<1>9. ASSUME NEW w \in Workers, StartDelivery(w) \/ EndRun(w) \/ Fail(w) \/ Claim(w)
      PROVE  UNCHANGED <<job, recipients, inbox, made>>
  BY <1>9 DEF StartDelivery, EndRun, Fail, Claim
<1> QED BY <1>1, <1>2, <1>3, <1>4, <1>5, <1>6, <1>7, <1>8, <1>9 DEF DeliveryNext, WorkerStep

LEMMA InitDelivery == DeliveryInit => DeliveryInv
BY DEF DeliveryInit, DeliveryInv, ClaimsAreLocked, MadeUpToCursor, InboxIsPast, DeliveredIsPast,
       SnapshotIsFirst, Past, NoRow, IdleWorker

(* Whatever fails, is taken over or is purged in between, every recipient  *)
(* of an event is notified once, and all of them before the job counts as  *)
(* delivered.                                                              *)
THEOREM EveryoneIsNotifiedOnce == DeliverySpec => []DeliveredExactlyOnce
<1>1. DeliveryInv => DeliveredExactlyOnce
  BY DEF DeliveryInv, MadeUpToCursor, DeliveredIsPast, Past, DeliveredExactlyOnce
<1> QED BY <1>1, InitTyped, NextTyped, InitDelivery, DeliveryKept, PTL DEF DeliverySpec
=============================================================================
