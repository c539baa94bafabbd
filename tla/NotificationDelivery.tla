------------------------ MODULE NotificationDelivery ------------------------
(***************************************************************************)
(* The outbox of lifecycle events: workers of several processes turn each  *)
(* NotificationDeliveryJob into one InAppNotification per recipient, a     *)
(* batch of recipients per transaction                                     *)
(* (src/backend/src/notifications/notification-delivery.worker.ts).        *)
(*                                                                         *)
(* A job is claimed FOR UPDATE SKIP LOCKED and the claim lasts as long as  *)
(* the transaction: what a batch writes appears when it commits, and       *)
(* nothing of it does when it fails or its process stops.                  *)
(***************************************************************************)
EXTENDS Integers, FiniteSets, FiniteSetsExt

CONSTANTS
    Workers,
    NJobs,           \* jobs, numbered in the order of (createdAt, id)
    NUsers,          \* users, numbered in the order of their ids
    RecipientBatch,  \* RECIPIENT_BATCH_SIZE
    BatchesPerRun,   \* BATCHES_PER_RUN
    MaxFailures,     \* bound on the transactions that fail
    MaxGrantChanges, \* bound on the changes of who is eligible
    NoJob

ASSUME DeliveryAssumption ==
    /\ NJobs \in Nat /\ NUsers \in Nat /\ RecipientBatch \in Nat \ {0}
    /\ BatchesPerRun \in Nat \ {0} /\ MaxFailures \in Nat /\ MaxGrantChanges \in Nat
    /\ NoJob \notin Nat

Jobs == 1 .. NJobs
Users == 1 .. NUsers

VARIABLES
    job,         \* NotificationDeliveryJob rows
    recipients,  \* NotificationDeliveryRecipient rows, per job
    inbox,       \* InAppNotification rows, per job
    eligible,    \* ACTIVE owner, and ACTIVE farmers with a grant of the station
    worker,      \* per worker: the job its transaction has locked, the row it
                 \* read then, and the batches left to its run
    failures, changes,
    made         \* notifications ever created, per job and user (history)

deliveryVars == <<job, recipients, inbox, eligible, worker, failures, changes, made>>

Job == [queued : BOOLEAN, snapshot : BOOLEAN, cursor : 0 .. NUsers, delivered : BOOLEAN]

Worker == [claim : Jobs \cup {NoJob}, row : Job, left : 0 .. BatchesPerRun]

NoRow == [queued |-> FALSE, snapshot |-> FALSE, cursor |-> 0, delivered |-> FALSE]

IdleWorker == [claim |-> NoJob, row |-> NoRow, left |-> 0]

DeliveryTypeOK ==
    /\ job \in [Jobs -> Job]
    /\ recipients \in [Jobs -> SUBSET Users]
    /\ inbox \in [Jobs -> SUBSET Users]
    /\ eligible \in SUBSET Users
    /\ worker \in [Workers -> Worker]
    /\ failures \in 0 .. MaxFailures /\ changes \in 0 .. MaxGrantChanges
    /\ made \in [Jobs -> [Users -> Nat]]

DeliveryInit ==
    /\ job = [j \in Jobs |-> NoRow]
    /\ recipients = [j \in Jobs |-> {}]
    /\ inbox = [j \in Jobs |-> {}]
    /\ eligible \in SUBSET Users
    /\ worker = [w \in Workers |-> IdleWorker]
    /\ failures = 0 /\ changes = 0
    /\ made = [j \in Jobs |-> [u \in Users |-> 0]]

-----------------------------------------------------------------------------
(* A lifecycle transaction queues the job of its event. *)
QueueLifecycleNotifications(j) ==
    /\ ~ job[j].queued
    /\ \A i \in Jobs : i < j => job[i].queued
    /\ job' = [job EXCEPT ![j].queued = TRUE]
    /\ UNCHANGED <<recipients, inbox, eligible, worker, failures, changes, made>>

(* A grant is given or revoked, a user is disabled, or changes role. *)
EligibilityChanges(u) ==
    /\ changes < MaxGrantChanges /\ changes' = changes + 1
    /\ eligible' = IF u \in eligible THEN eligible \ {u} ELSE eligible \cup {u}
    /\ UNCHANGED <<job, recipients, inbox, worker, failures, made>>

(* Retention deletes an old notification (retention.service.ts). *)
PurgeNotification(j, u) ==
    /\ u \in inbox[j]
    /\ inbox' = [inbox EXCEPT ![j] = @ \ {u}]
    /\ UNCHANGED <<job, recipients, eligible, worker, failures, changes, made>>

(* The poll timer fires and no run of this process is under way. *)
StartDelivery(w) ==
    /\ worker[w] = IdleWorker
    /\ worker' = [worker EXCEPT ![w].left = BatchesPerRun]
    /\ UNCHANGED <<job, recipients, inbox, eligible, failures, changes, made>>

(* Mutant: the claim does not lock, so that workers share a job. *)
ClaimableShared == {j \in Jobs : job[j].queued /\ ~ job[j].delivered}

(* Undelivered jobs whose row no other transaction has locked. *)
Claimable ==
    {j \in Jobs : job[j].queued /\ ~ job[j].delivered /\ \A w \in Workers : worker[w].claim # j}

(* The loop of a run, between two batches. *)
Looping(w) == worker[w].claim = NoJob /\ worker[w].left > 0

Claim(w) ==
    /\ Looping(w)
    /\ Claimable # {}
    /\ LET j == Min(Claimable) IN
         worker' = [worker EXCEPT ![w].claim = j, ![w].row = job[j]]
    /\ UNCHANGED <<job, recipients, inbox, eligible, failures, changes, made>>

(* No job is free, or the one selected was delivered while it was locked.  *)
EndRun(w) ==
    /\ Looping(w)
    /\ worker' = [worker EXCEPT ![w].left = 0]
    /\ UNCHANGED <<job, recipients, inbox, eligible, failures, changes, made>>

(* The recipients of an event: chosen by its first batch and kept since.   *)
Snapshot(j, row) ==
    recipients[j] \cup IF row.snapshot THEN {} ELSE eligible \cup inbox[j]

(* Mutant: the batch starts over from the first recipient. *)
NextRecipientsFromStart(R, cursor) == {u \in R : Cardinality({v \in R : v < u}) < RecipientBatch}

(* The next recipients in the order of their ids, at most a batch of them. *)
NextRecipients(R, cursor) ==
    LET rest == {u \in R : u > cursor}
    IN  {u \in rest : Cardinality({v \in rest : v < u}) < RecipientBatch}

(* Mutant: no batch is the last one. *)
IsLastBatchNever(B) == FALSE

IsLastBatch(B) == Cardinality(B) < RecipientBatch

DeliverBatch(w) ==
    LET j == worker[w].claim
        row == worker[w].row
        R == Snapshot(j, row)
        B == NextRecipients(R, row.cursor)
    IN
    /\ j # NoJob
    /\ recipients' = [recipients EXCEPT ![j] = R]
    /\ inbox' = [inbox EXCEPT ![j] = @ \cup B]
    /\ made' = [made EXCEPT ![j] = [u \in Users |-> @[u] + IF u \in B \ inbox[j] THEN 1 ELSE 0]]
    /\ job' = [job EXCEPT ![j] =
                 [@ EXCEPT !.snapshot = TRUE, !.delivered = IsLastBatch(B),
                           !.cursor = IF B = {} THEN row.cursor ELSE Max(B)]]
    /\ worker' = [worker EXCEPT ![w] = [IdleWorker EXCEPT !.left = worker[w].left - 1]]
    /\ UNCHANGED <<eligible, failures, changes>>

(* The transaction is rolled back: it throws, which ends the run, or the   *)
(* process stops.                                                          *)
Fail(w) ==
    /\ worker[w].claim # NoJob
    /\ failures < MaxFailures /\ failures' = failures + 1
    /\ worker' = [worker EXCEPT ![w] = IdleWorker]
    /\ UNCHANGED <<job, recipients, inbox, eligible, changes, made>>

WorkerStep(w) == StartDelivery(w) \/ Claim(w) \/ EndRun(w) \/ DeliverBatch(w) \/ Fail(w)

DeliveryNext ==
    \/ \E j \in Jobs : QueueLifecycleNotifications(j)
    \/ \E u \in Users : EligibilityChanges(u)
    \/ \E j \in Jobs, u \in Users : PurgeNotification(j, u)
    \/ \E w \in Workers : WorkerStep(w)

(* The poll timer of each process fires again and again, its query finds a *)
(* free job in some of its runs, and a transaction is over in bounded time.*)
Fairness ==
    \A w \in Workers :
      /\ WF_deliveryVars(StartDelivery(w))
      /\ SF_deliveryVars(Claim(w))
      /\ WF_deliveryVars(DeliverBatch(w))

DeliverySpec == DeliveryInit /\ [][DeliveryNext]_deliveryVars /\ Fairness

-----------------------------------------------------------------------------
(* Every recipient of an event's snapshot is notified once, nobody else    *)
(* is, and a job is delivered only when all have been: a worker that fails *)
(* between two batches, or another one that takes the job over, neither    *)
(* skips a recipient nor notifies one twice, also when the notification    *)
(* was purged in the meantime.                                             *)
DeliveredExactlyOnce ==
    \A j \in Jobs, u \in Users :
        /\ made[j][u] <= IF u \in recipients[j] THEN 1 ELSE 0
        /\ job[j].delivered /\ u \in recipients[j] => made[j][u] = 1

(* Every queued event is delivered to its recipients in the end. *)
EveryJobIsDelivered ==
    \A j \in Jobs : job[j].queued ~> job[j].delivered
=============================================================================
