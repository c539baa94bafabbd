--------------------------- MODULE AlertLifecycle ---------------------------
(***************************************************************************)
(* Alert rules, their evaluation state, the alerts they open, the          *)
(* lifecycle events and delivery jobs those alerts leave behind, and the   *)
(* idempotency claims of the requests that change them                     *)
(* (src/backend/src/alert-config), with the retention that deletes claims  *)
(* and alerts again (src/backend/src/identity/retention.service.ts).       *)
(*                                                                         *)
(* A database transaction is one step: evaluateRule, blockForMetadata and  *)
(* DataSourceRepository.remove run SERIALIZABLE, and every READ COMMITTED  *)
(* transaction on a rule takes the row of that rule FOR UPDATE before it   *)
(* reads it again.  What the code reads BEFORE its transaction (the        *)
(* binding of a batch, the metadata, the rule a PATCH was validated        *)
(* against, the station a POST was authorised for) is read in a step of    *)
(* its own, so that every other actor may move in between.                 *)
(*                                                                         *)
(* The lease is reduced here to its holder; time, heartbeats and the row   *)
(* lock that fences a write are the subject of module EvaluatorLease.      *)
(***************************************************************************)
EXTENDS Integers, FiniteSets

CONSTANTS
    Rules,        \* identifiers of AlertRule rows, each with a fixed slot
    Slots,        \* a station and a field: what activeKey names
    SlotOf,       \* the slot of a rule
    Stations,
    StationOf,    \* the station of a slot
    Sources,      \* MANAGED data sources
    SourceOf,     \* the data source of a station
    Alerts,       \* identifiers of Alert rows
    Conditions,
    Breaching,    \* the values each condition is breached by
    Values,
    Metas,        \* confirmed (unit, metadata revision) pairs
    Evaluators,   \* processes that run AlertEvaluationService
    Clients,      \* requests of users who may change the source's rules
    Keys,         \* Idempotency-Key headers
    MaxRevision,  \* bound on AlertRule.revision
    MaxSample,    \* bound on observedAt
    None

ASSUME ConstantsAssumption ==
    /\ SlotOf \in [Rules -> Slots]
    /\ StationOf \in [Slots -> Stations]
    /\ SourceOf \in [Stations -> Sources]
    /\ Breaching \in [Conditions -> SUBSET Values]
    /\ MaxRevision \in Nat /\ MaxSample \in Nat
    /\ None \notin Rules \cup Slots \cup Conditions \cup Metas \cup Values
                   \cup Evaluators \cup BOOLEAN \cup Nat \cup Clients

VARIABLES
    rule,      \* AlertRule rows
    eval,      \* AlertEvaluationState rows
    alert,     \* Alert rows
    events,    \* AlertLifecycleEvent rows, each with its NotificationDeliveryJob
    claims,    \* IdempotencyClaim rows
    removed,   \* data sources whose removedAt is set
    metadata,  \* what the metadata provider confirms; None when it does not
    lease,     \* unexpired holder of the alert-evaluator lease, or None
    batch,     \* per evaluator: the rules of its current run, by stage
    pending,   \* per client: the request between its reads and its transaction
    origin     \* history: the key a rule was created by, and whether its claim has expired

vars == <<rule, eval, alert, events, claims, removed, metadata, lease, batch, pending, origin>>

-----------------------------------------------------------------------------
(* Row types *)

Samples == 1 .. MaxSample

Rule ==
    [status : {"ABSENT", "READY", "DISABLED", "BLOCKED_METADATA"}, enabled : BOOLEAN,
     revision : Nat, cond : Conditions \cup {None}, meta : Metas \cup {None},
     activeKey : Slots \cup {None}]

(* UNUSABLE stands for MISSING, STALE, INVALID, UPSTREAM_ERROR and         *)
(* METADATA_BLOCKED, which no code path tells apart.                       *)
EvalState ==
    [lastObservedAt : Nat, lastValue : Values \cup {None}, breach : Nat, recovery : Nat,
     lastResult : {"NONE", "BREACH", "NORMAL", "UNUSABLE"}]

Alert ==
    [status : {"NONE", "OPEN", "ACKNOWLEDGED", "RESOLVED"}, rule : Rules \cup {None},
     unresolvedRule : Rules \cup {None}, revision : Nat, latestObservedAt : Nat,
     reason : {"NONE", "RECOVERED", "MANUAL", "RULE_DISABLED", "METADATA_CHANGED",
               "SOURCE_REMOVED"}]

Event ==
    [alert : Alerts, revision : Nat, type : {"OPENED", "ACKNOWLEDGED", "RESOLVED"},
     jobStatus : {"NONE", "OPEN", "ACKNOWLEDGED", "RESOLVED"}]

Binding ==
    [rule : Rules, revision : Nat, meta : Metas \cup {None},
     stage : {"read", "checked", "fetched", "evaluated", "failed"}]

CreateRequest ==
    [op : {"create"}, slot : Slots, cond : Conditions, meta : Metas,
     enabled : BOOLEAN, key : Keys]

PatchRequest ==
    [op : {"patch"}, rule : Rules, expected : Nat, cond : Conditions \cup {None},
     meta : Metas \cup {None}, enabled : BOOLEAN]

(* A committed claim answers later requests with its key, for as long as   *)
(* the row is kept, expired or not; response is the rule a RULE_CREATE     *)
(* made, and None for an action on an alert.                               *)
Claim ==
    [op : {"RULE_CREATE", "ALERT_ACKNOWLEDGE", "ALERT_RESOLVE"}, key : Keys,
     response : Rules \cup {None}, expired : BOOLEAN]

Origin == [key : Keys \cup {None}, lapsed : BOOLEAN]

TypeOK ==
    /\ rule \in [Rules -> Rule]
    /\ eval \in [Rules -> EvalState]
    /\ alert \in [Alerts -> Alert]
    /\ events \in SUBSET Event
    /\ claims \in SUBSET Claim
    /\ removed \in SUBSET Sources
    /\ metadata \in Metas \cup {None}
    /\ lease \in Evaluators \cup {None}
    /\ batch \in [Evaluators -> SUBSET Binding]
    /\ pending \in [Clients -> CreateRequest \cup PatchRequest \cup {None}]
    /\ origin \in [Rules -> Origin]

-----------------------------------------------------------------------------
(* Derived values *)

Source(r) == SourceOf[StationOf[SlotOf[r]]]

Exists(r) == rule[r].status # "ABSENT"

(* The rows the evaluator's findMany selects. *)
Ready(r) == rule[r].enabled /\ rule[r].status = "READY"

(* Mutant: alerts looked up by ruleId, the resolved ones included. *)
UnresolvedByRuleId(r) == {a \in Alerts : alert[a].rule = r}

(* Alert rows whose unresolvedRuleId is the rule. *)
Unresolved(r) == {a \in Alerts : alert[a].unresolvedRule = r}

(* Mutant: a claim counts only until it holds its response. *)
ClaimedInProgress(op, key) == \E c \in claims : c.op = op /\ c.key = key /\ c.response = None

Claimed(op, key) == \E c \in claims : c.op = op /\ c.key = key

(* The provider confirms the unit and revision a rule is bound to. *)
Confirms(m) == metadata # None /\ metadata = m

(* Mutant: a disabled rule keeps the key of its slot. *)
ActiveKeyKept(slot, enabled) == slot

ActiveKey(slot, enabled) == IF enabled THEN slot ELSE None

(* An enabled row other than r holds the unique activeKey of the slot. *)
KeyTaken(r, slot) == \E q \in Rules \ {r} : rule[q].activeKey = slot

(* The identifier names no row. *)
NoAlert == [status |-> "NONE", rule |-> None, unresolvedRule |-> None, revision |-> 0,
            latestObservedAt |-> 0, reason |-> "NONE"]

Init ==
    /\ rule = [r \in Rules |->
                 [status |-> "ABSENT", enabled |-> FALSE, revision |-> 0, cond |-> None,
                  meta |-> None, activeKey |-> None]]
    /\ eval = [r \in Rules |->
                 [lastObservedAt |-> 0, lastValue |-> None, breach |-> 0, recovery |-> 0,
                  lastResult |-> "NONE"]]
    /\ alert = [a \in Alerts |-> NoAlert]
    /\ events = {}
    /\ claims = {}
    /\ removed = {}
    /\ metadata \in Metas
    /\ lease = None
    /\ batch = [e \in Evaluators |-> {}]
    /\ pending = [c \in Clients |-> None]
    /\ origin = [r \in Rules |-> [key |-> None, lapsed |-> FALSE]]

-----------------------------------------------------------------------------
(* Lifecycle bookkeeping shared by every transaction that moves an alert:  *)
(* the row is written first, then the event of its new revision, then the  *)
(* job, which copies the status the row has by then.                       *)

(* Mutant: the job is queued before the row is written. *)
EventOfOldRow(a, row, type) ==
    [alert |-> a, revision |-> row.revision, type |-> type, jobStatus |-> alert[a].status]

EventOf(a, row, type) ==
    [alert |-> a, revision |-> row.revision, type |-> type, jobStatus |-> row.status]

ResolvedRow(row, reason) ==
    [row EXCEPT !.status = "RESOLVED", !.unresolvedRule = None, !.reason = reason,
                !.revision = row.revision + 1]

(* Resolve every alert of the set A for one reason. *)
ResolveAll(A, reason) ==
    /\ alert' = [a \in Alerts |->
                   IF a \in A THEN ResolvedRow(alert[a], reason) ELSE alert[a]]
    /\ events' = events \cup
                   {EventOf(a, ResolvedRow(alert[a], reason), "RESOLVED") : a \in A}

-----------------------------------------------------------------------------
(* The lease and the environment *)

(* The lease expires, or an evaluator that is not running a batch takes an *)
(* expired one: isRunning admits no second run of a process.               *)
LeaseExpires == lease # None /\ lease' = None
                /\ UNCHANGED <<rule, eval, alert, events, claims, removed, metadata, batch, pending, origin>>

LeaseAcquired(e) == lease = None /\ batch[e] = {} /\ lease' = e
                    /\ UNCHANGED <<rule, eval, alert, events, claims, removed, metadata, batch, pending, origin>>

(* External: the provider confirms another unit or revision, or none. *)
ProviderChanges ==
    /\ metadata' \in (Metas \cup {None}) \ {metadata}
    /\ UNCHANGED <<rule, eval, alert, events, claims, removed, lease, batch, pending, origin>>

-----------------------------------------------------------------------------
(* The evaluator's run *)

(* A run that acquired the lease reads its batch of enabled, READY rules.  *)
(* The next run has to acquire it anew; here one term may serve several    *)
(* runs, which adds nothing a new term could not do.                       *)
ReadBatch(e) ==
    /\ lease = e
    /\ batch[e] = {}
    /\ \E R \in (SUBSET {r \in Rules : Ready(r)}) \ {{}} :
         batch' = [batch EXCEPT ![e] =
                     {[rule |-> r, revision |-> rule[r].revision, meta |-> rule[r].meta,
                       stage |-> "read"] : r \in R}]
    /\ UNCHANGED <<rule, eval, alert, events, claims, removed, metadata, lease, pending, origin>>

(* The run ends: done, stopped by a lost heartbeat, or crashed. *)
LeaveBatch(e) ==
    /\ batch[e] # {}
    /\ batch' = [batch EXCEPT ![e] = {}]
    /\ UNCHANGED <<rule, eval, alert, events, claims, removed, metadata, lease, pending, origin>>

Move(e, b, stage) ==
    batch' = [batch EXCEPT ![e] = (@ \ {b}) \cup {[b EXCEPT !.stage = stage]}]

(* The metadata check passes: the binding joins its station's group. *)
CheckMetadata(e, b) ==
    /\ b \in batch[e] /\ b.stage = "read"
    /\ Confirms(b.meta)
    /\ Move(e, b, "checked")
    /\ UNCHANGED <<rule, eval, alert, events, claims, removed, metadata, lease, pending, origin>>

(* The row a binding was read from is still the one it was read from. *)
SameBinding(b) ==
    rule[b.rule].revision = b.revision /\ rule[b.rule].meta = b.meta

BlockForMetadata(e, b) ==
    LET r == b.rule IN
    /\ b \in batch[e] /\ b.stage = "read"
    /\ ~ Confirms(b.meta)
    /\ batch' = [batch EXCEPT ![e] = @ \ {b}]
    /\ IF lease = e /\ rule[r].enabled /\ rule[r].status # "BLOCKED_METADATA" /\ SameBinding(b)
       THEN /\ rule[r].revision < MaxRevision
            /\ rule' = [rule EXCEPT ![r] = [@ EXCEPT !.status = "BLOCKED_METADATA",
                                                      !.revision = rule[r].revision + 1]]
            /\ eval' = [eval EXCEPT ![r].lastResult = "UNUSABLE"]
            /\ ResolveAll(Unresolved(r), "METADATA_CHANGED")
       ELSE UNCHANGED <<rule, eval, alert, events>>
    /\ UNCHANGED <<claims, removed, metadata, lease, pending, origin>>

(* The provider or the blocking transaction throws: the rule is skipped.   *)
SkipRule(e, b) ==
    /\ b \in batch[e] /\ b.stage = "read"
    /\ batch' = [batch EXCEPT ![e] = @ \ {b}]
    /\ UNCHANGED <<rule, eval, alert, events, claims, removed, metadata, lease, pending, origin>>

(* The bindings of one station, at one stage. *)
Group(e, s, stage) ==
    {b \in batch[e] : StationOf[SlotOf[b.rule]] = s /\ b.stage = stage}

(* One getLatest per station, after every metadata check of the batch.     *)
(* It fails for a removed source, whose key is erased.                     *)
FetchLatest(e, s) ==
    /\ Group(e, s, "checked") # {}
    /\ \A b \in batch[e] : b.stage \in {"checked", "evaluated"}
    /\ \E ok \in IF SourceOf[s] \in removed THEN {FALSE} ELSE BOOLEAN :
         batch' = [batch EXCEPT ![e] =
                     {b \in @ : b.stage = "checked" /\ b \notin Group(e, s, "checked")} \cup
                     {[b EXCEPT !.stage = IF ok THEN "fetched" ELSE "failed"] :
                        b \in Group(e, s, "checked")}]
    /\ UNCHANGED <<rule, eval, alert, events, claims, removed, metadata, lease, pending, origin>>

(* recordSafeResult: a result that is not a sample, for an enabled rule.   *)
WriteSafeResult(e, r) ==
    eval' = IF lease = e /\ rule[r].enabled
            THEN [eval EXCEPT ![r].lastResult = "UNUSABLE"] ELSE eval

(* The field is missing, stale, stored, or of bad quality. *)
RecordSafeResult(e, b) ==
    /\ b \in batch[e] /\ b.stage = "fetched"
    /\ WriteSafeResult(e, b.rule)
    /\ Move(e, b, "evaluated")
    /\ UNCHANGED <<rule, alert, events, claims, removed, metadata, lease, pending, origin>>

(* The catch around a station group: each of its rules, the ones already   *)
(* evaluated included, is recorded as an upstream error.                   *)
RecordUpstreamError(e, b) ==
    /\ b \in batch[e] /\ b.stage = "failed"
    /\ WriteSafeResult(e, b.rule)
    /\ batch' = [batch EXCEPT ![e] = @ \ {b}]
    /\ UNCHANGED <<rule, alert, events, claims, removed, metadata, lease, pending, origin>>

(* evaluateRule throws, for instance on a serialization failure. *)
EvaluationFails(e, b) ==
    /\ b \in batch[e] /\ b.stage = "fetched"
    /\ batch' = [batch EXCEPT ![e] =
                   {IF x.stage \in {"fetched", "evaluated"}
                    THEN [x EXCEPT !.stage = "failed"] ELSE x : x \in @}]
    /\ UNCHANGED <<rule, eval, alert, events, claims, removed, metadata, lease, pending, origin>>

Breached(cond, value) == value \in Breaching[cond]

(* Mutant: the breach count alone opens an alert. *)
DecideReopens(cond, st, value, unresolved) ==
    LET breached == Breached(cond, value)
        breach   == IF breached THEN st.breach + 1 ELSE 0
        recovery == IF breached THEN 0 ELSE st.recovery + 1
    IN  [result   |-> IF breached THEN "BREACH" ELSE "NORMAL",
         action   |-> IF breached /\ breach >= 2 THEN "OPEN"
                      ELSE IF ~ breached /\ unresolved /\ recovery >= 2 THEN "RESOLVE"
                      ELSE "NONE",
         breach   |-> breach,
         recovery |-> recovery]

(* evaluateAlertSample, for a sample newer than the last one accepted. *)
Decide(cond, st, value, unresolved) ==
    LET breached == Breached(cond, value)
        breach   == IF breached THEN st.breach + 1 ELSE 0
        recovery == IF breached THEN 0 ELSE st.recovery + 1
    IN  [result   |-> IF breached THEN "BREACH" ELSE "NORMAL",
         action   |-> IF breached /\ ~ unresolved /\ breach >= 2 THEN "OPEN"
                      ELSE IF ~ breached /\ unresolved /\ recovery >= 2 THEN "RESOLVE"
                      ELSE "NONE",
         breach   |-> breach,
         recovery |-> recovery]

(* Mutant: the rule's own status is not read again under its lock. *)
EvaluableByRevision(e, b, observedAt) ==
    lease = e /\ SameBinding(b) /\ observedAt > eval[b.rule].lastObservedAt

(* The guards of evaluateRule, in the order of the code. *)
Evaluable(e, b, observedAt) ==
    /\ lease = e
    /\ Ready(b.rule)
    /\ SameBinding(b)
    /\ observedAt > eval[b.rule].lastObservedAt

(* Mutant: the alert opens with the sample before the one that opened it. *)
NewAlertOfOldSample(r, observedAt) ==
    [status |-> "OPEN", rule |-> r, unresolvedRule |-> r, revision |-> 1,
     latestObservedAt |-> eval[r].lastObservedAt, reason |-> "NONE"]

NewAlert(r, observedAt) ==
    [status |-> "OPEN", rule |-> r, unresolvedRule |-> r, revision |-> 1,
     latestObservedAt |-> observedAt, reason |-> "NONE"]

(* A lifecycle transition of alert a to a new row, with its event and job. *)
Transition(a, row, type) ==
    /\ alert' = [alert EXCEPT ![a] = row]
    /\ events' = events \cup {EventOf(a, row, type)}

EvaluateRule(e, b, observedAt, value) ==
    LET r == b.rule
        d == Decide(rule[r].cond, eval[r], value, Unresolved(r) # {})
    IN
    /\ b \in batch[e] /\ b.stage = "fetched"
    /\ Move(e, b, "evaluated")
    /\ IF Evaluable(e, b, observedAt)
       THEN /\ eval' = [eval EXCEPT ![r] =
                          [lastObservedAt |-> observedAt, lastValue |-> value,
                           breach |-> d.breach, recovery |-> d.recovery,
                           lastResult |-> d.result]]
            /\ \/ /\ d.action = "OPEN"
                  /\ \E a \in Alerts :
                       /\ alert[a].status = "NONE"
                       /\ Transition(a, NewAlert(r, observedAt), "OPENED")
               \/ /\ d.action = "RESOLVE"
                  /\ \E a \in Unresolved(r) :
                       Transition(a, [ResolvedRow(alert[a], "RECOVERED")
                                        EXCEPT !.latestObservedAt = observedAt], "RESOLVED")
               \/ /\ d.action = "NONE"
                  /\ alert' = [a \in Alerts |->
                                 IF a \in Unresolved(r)
                                 THEN [alert[a] EXCEPT !.latestObservedAt = observedAt]
                                 ELSE alert[a]]
                  /\ UNCHANGED events
       ELSE UNCHANGED <<eval, alert, events>>
    /\ UNCHANGED <<rule, claims, removed, metadata, lease, pending, origin>>

-----------------------------------------------------------------------------
(* Requests of the users who may change the rules of a source *)

(* POST: the station is authorised, the key is new and the metadata are    *)
(* confirmed, all before the transaction.                                  *)
StartCreate(c, slot, cond, meta, enabled, key) ==
    /\ pending[c] = None
    /\ SourceOf[StationOf[slot]] \notin removed
    /\ ~ Claimed("RULE_CREATE", key)
    /\ Confirms(meta)
    /\ pending' = [pending EXCEPT ![c] =
                     [op |-> "create", slot |-> slot, cond |-> cond, meta |-> meta,
                      enabled |-> enabled, key |-> key]]
    /\ UNCHANGED <<rule, eval, alert, events, claims, removed, metadata, lease, batch, origin>>

(* The transaction of a POST: it inserts the claim, the rule and its state.*)
CommitCreate(c, r) ==
    LET p == pending[c] IN
    /\ p # None /\ p.op = "create"
    /\ ~ Exists(r) /\ SlotOf[r] = p.slot
    /\ ~ Claimed("RULE_CREATE", p.key)
    /\ p.enabled => ~ KeyTaken(r, p.slot)
    /\ claims' = claims \cup
         {[op |-> "RULE_CREATE", key |-> p.key, response |-> r, expired |-> FALSE]}
    /\ origin' = [origin EXCEPT ![r] = [key |-> p.key, lapsed |-> FALSE]]
    /\ rule' = [rule EXCEPT ![r] =
                  [status |-> IF p.enabled THEN "READY" ELSE "DISABLED", enabled |-> p.enabled,
                   revision |-> 1, cond |-> p.cond, meta |-> p.meta,
                   activeKey |-> ActiveKey(p.slot, p.enabled)]]
    /\ eval' = [eval EXCEPT ![r] =
                  [lastObservedAt |-> 0, lastValue |-> None, breach |-> 0, recovery |-> 0,
                   lastResult |-> "NONE"]]
    /\ pending' = [pending EXCEPT ![c] = None]
    /\ UNCHANGED <<alert, events, removed, metadata, lease, batch>>

(* The unit and revision a PATCH asks for, or the rule's own. *)
NextMeta(r, meta) == IF meta = None THEN rule[r].meta ELSE meta

NextEnabled(r, enabled) == IF enabled = None THEN rule[r].enabled ELSE enabled

(* PATCH, before its transaction: the revision the client expects is the   *)
(* rule's, and a change that needs it is validated against the provider.   *)
StartPatch(c, r, cond, meta, enabled) ==
    /\ pending[c] = None
    /\ Exists(r) /\ Source(r) \notin removed
    /\ rule[r].revision < MaxRevision
    /\ ~ (cond = None /\ meta = None /\ enabled = None)
    /\ \/ (NextEnabled(r, enabled) /\ ~ rule[r].enabled)
       \/ meta # None
       \/ (rule[r].enabled /\ cond # None)
       => Confirms(NextMeta(r, meta))
    /\ pending' = [pending EXCEPT ![c] =
                     [op |-> "patch", rule |-> r, expected |-> rule[r].revision, cond |-> cond,
                      meta |-> meta, enabled |-> NextEnabled(r, enabled)]]
    /\ UNCHANGED <<rule, eval, alert, events, claims, removed, metadata, lease, batch, origin>>

(* Mutant: the unresolved alert is looked for before the lock only. *)
PatchableUnchecked(p) ==
    LET r == p.rule IN
    /\ Source(r) \notin removed
    /\ rule[r].revision = p.expected
    /\ p.enabled => ~ KeyTaken(r, SlotOf[r])

(* The guards of the PATCH transaction, once the rule's row is locked. *)
Patchable(p) ==
    LET r == p.rule IN
    /\ Source(r) \notin removed
    /\ rule[r].revision = p.expected
    /\ (p.cond # None \/ p.meta # None) => Unresolved(r) = {}
    /\ p.enabled => ~ KeyTaken(r, SlotOf[r])

CommitPatch(c) ==
    LET p == pending[c]
        r == p.rule
    IN
    /\ p # None /\ p.op = "patch"
    /\ Patchable(p)
    /\ ResolveAll(IF ~ p.enabled /\ rule[r].enabled THEN Unresolved(r) ELSE {}, "RULE_DISABLED")
    /\ rule' = [rule EXCEPT ![r] =
                  [status |-> IF p.enabled THEN "READY" ELSE "DISABLED", enabled |-> p.enabled,
                   revision |-> @.revision + 1,
                   cond |-> IF p.cond = None THEN @.cond ELSE p.cond,
                   meta |-> IF p.meta = None THEN @.meta ELSE p.meta,
                   activeKey |-> ActiveKey(SlotOf[r], p.enabled)]]
    /\ pending' = [pending EXCEPT ![c] = None]
    /\ UNCHANGED <<eval, claims, removed, metadata, lease, batch, origin>>

(* The request is answered without a change: a conflict, a replay of the   *)
(* claim that got there first, a failed transaction, a lost process.       *)
GiveUp(c) ==
    /\ pending[c] # None
    /\ pending' = [pending EXCEPT ![c] = None]
    /\ UNCHANGED <<rule, eval, alert, events, claims, removed, metadata, lease, batch, origin>>

ActionClaim(op, key) == [op |-> op, key |-> key, response |-> None, expired |-> FALSE]

(* An alert of a source its requester still owns. *)
Actionable(a) == alert[a].status # "NONE" /\ Source(alert[a].rule) \notin removed

Acknowledge(a, key) ==
    /\ Actionable(a)
    /\ ~ Claimed("ALERT_ACKNOWLEDGE", key)
    /\ claims' = claims \cup {ActionClaim("ALERT_ACKNOWLEDGE", key)}
    /\ IF alert[a].status = "OPEN"
       THEN Transition(a, [alert[a] EXCEPT !.status = "ACKNOWLEDGED", !.revision = @ + 1],
                       "ACKNOWLEDGED")
       ELSE UNCHANGED <<alert, events>>
    /\ UNCHANGED <<rule, eval, removed, metadata, lease, batch, pending, origin>>

LastIsNormal(r) == eval[r].lastResult = "NORMAL"

(* A manual resolution is refused while the last result is not NORMAL. *)
Resolve(a, key) ==
    /\ Actionable(a)
    /\ alert[a].status # "RESOLVED" => LastIsNormal(alert[a].rule)
    /\ ~ Claimed("ALERT_RESOLVE", key)
    /\ claims' = claims \cup {ActionClaim("ALERT_RESOLVE", key)}
    /\ IF alert[a].status # "RESOLVED"
       THEN Transition(a, ResolvedRow(alert[a], "MANUAL"), "RESOLVED")
       ELSE UNCHANGED <<alert, events>>
    /\ UNCHANGED <<rule, eval, removed, metadata, lease, batch, pending, origin>>

(* DELETE of a data source: its rules are disabled, without a new revision,*)
(* and its unresolved alerts resolved, in one SERIALIZABLE transaction.    *)
RemoveSource(s) ==
    /\ s \notin removed
    /\ ResolveAll({a \in Alerts : /\ alert[a].unresolvedRule # None
                                  /\ Source(alert[a].rule) = s}, "SOURCE_REMOVED")
    /\ rule' = [r \in Rules |->
                  IF Exists(r) /\ Source(r) = s
                  THEN [rule[r] EXCEPT !.enabled = FALSE, !.status = "DISABLED",
                                       !.activeKey = None]
                  ELSE rule[r]]
    /\ removed' = removed \cup {s}
    /\ UNCHANGED <<eval, claims, metadata, lease, batch, pending, origin>>

-----------------------------------------------------------------------------
(* Time and retention *)

(* The expiresAt of a claim passes.  Nothing that looks a claim up asks for*)
(* it: the row answers until the retention deletes it.                     *)
ClaimExpires(c) ==
    /\ c \in claims /\ ~ c.expired
    /\ claims' = (claims \ {c}) \cup {[c EXCEPT !.expired = TRUE]}
    /\ origin' = [r \in Rules |-> IF r = c.response THEN [origin[r] EXCEPT !.lapsed = TRUE]
                                  ELSE origin[r]]
    /\ UNCHANGED <<rule, eval, alert, events, removed, metadata, lease, batch, pending>>

(* Mutant: the claims are selected without a look at expiresAt. *)
AnyClaims == claims

ExpiredClaims == {c \in claims : c.expired}

(* One run of the retention: at most a batch of the expired claims, and of *)
(* the alerts resolved long enough ago whose jobs are all delivered.  With *)
(* an alert go its events and their jobs; ages and deliveries are not part *)
(* of this state, so any resolved alert may be one of them.                *)
Purge(C, A) ==
    /\ C \cup A # {}
    /\ C \subseteq ExpiredClaims
    /\ \A a \in A : alert[a].status = "RESOLVED"
    /\ claims' = claims \ C
    /\ alert' = [a \in Alerts |-> IF a \in A THEN NoAlert ELSE alert[a]]
    /\ events' = {ev \in events : ev.alert \notin A}
    /\ UNCHANGED <<rule, eval, removed, metadata, lease, batch, pending, origin>>

Retention ==
    \/ \E c \in claims : ClaimExpires(c)
    \/ \E C \in SUBSET claims, A \in SUBSET Alerts : Purge(C, A)

-----------------------------------------------------------------------------
EvaluatorStep(e) ==
    \/ LeaseAcquired(e)
    \/ ReadBatch(e)
    \/ LeaveBatch(e)
    \/ \E s \in Stations : FetchLatest(e, s)
    \/ \E b \in batch[e] :
         \/ CheckMetadata(e, b)
         \/ BlockForMetadata(e, b)
         \/ SkipRule(e, b)
         \/ RecordSafeResult(e, b)
         \/ RecordUpstreamError(e, b)
         \/ EvaluationFails(e, b)
         \/ \E t \in Samples, v \in Values : EvaluateRule(e, b, t, v)

ClientStep(c) ==
    \/ \E slot \in Slots, cond \in Conditions, m \in Metas, on \in BOOLEAN, k \in Keys :
         StartCreate(c, slot, cond, m, on, k)
    \/ \E r \in Rules : CommitCreate(c, r)
    \/ \E r \in Rules, cond \in Conditions \cup {None}, m \in Metas \cup {None},
          on \in BOOLEAN \cup {None} : StartPatch(c, r, cond, m, on)
    \/ CommitPatch(c)
    \/ GiveUp(c)

Next ==
    \/ LeaseExpires
    \/ ProviderChanges
    \/ \E e \in Evaluators : EvaluatorStep(e)
    \/ \E c \in Clients : ClientStep(c)
    \/ \E a \in Alerts, k \in Keys : Acknowledge(a, k) \/ Resolve(a, k)
    \/ \E s \in Sources : RemoveSource(s)
    \/ Retention

Spec == Init /\ [][Next]_vars

-----------------------------------------------------------------------------
(* Safety *)

(* The partial unique index unresolvedRuleId and its CHECK constraint      *)
(* (migration 20260914140000) never have to reject a write: an alert that  *)
(* is not resolved names its own rule, a resolved one names none, and no   *)
(* rule has two.  evaluateRule opens, five transactions resolve.           *)
OneUnresolvedAlertPerRule ==
    /\ \A a \in Alerts :
         alert[a].unresolvedRule =
           IF alert[a].status \in {"OPEN", "ACKNOWLEDGED"} THEN alert[a].rule ELSE None
    /\ \A r \in Rules : \A a, b \in Unresolved(r) : a = b

(* An alert stays unresolved only while its rule is enabled, READY and of  *)
(* a source that still exists: disabling, blocking and removal each        *)
(* resolve it, whatever request or evaluation was under way.               *)
UnresolvedAlertIsLive ==
    \A r \in Rules : Unresolved(r) # {} => Ready(r) /\ Source(r) \notin removed

(* The lifecycle log of an alert has exactly one event for each revision   *)
(* the row went through, and the newest one carries the job that tells the *)
(* recipients the status the row has now: no change goes unannounced.      *)
EventLogIsComplete ==
    \A a \in Alerts :
      LET log == {ev \in events : ev.alert = a} IN
      /\ {ev.revision : ev \in log} = 1 .. alert[a].revision
      /\ \A x, y \in log : x.revision = y.revision => x = y
      /\ \A ev \in log : ev.revision = alert[a].revision => ev.jobStatus = alert[a].status

(* An unresolved alert shows the observation the rule last accepted, so a  *)
(* reader of the alert never sees an older sample than the evaluator used. *)
AlertShowsLatestSample ==
    \A r \in Rules : \A a \in Unresolved(r) : alert[a].latestObservedAt = eval[r].lastObservedAt

(* The activeKey of a slot belongs to at most one rule, and a rule holds   *)
(* it exactly while it is enabled (migration 20260914140000): two rules of *)
(* a station and field are never enabled together.                         *)
OneActiveRulePerSlot ==
    /\ \A r \in Rules : rule[r].activeKey = IF rule[r].enabled THEN SlotOf[r] ELSE None
    /\ \A q, r \in Rules : rule[q].enabled /\ rule[r].enabled /\ SlotOf[q] = SlotOf[r] => q = r

(* Within the retention of its claim (ALERT_IDEMPOTENCY_RETENTION_HOURS) a *)
(* key makes one rule: until the claim expires the rule has the claim that *)
(* answers every retry of its request, whatever the retention deletes, and *)
(* no claim answers with a rule that was not made by its key.              *)
OneRulePerCreateKey ==
    LET creates == {c \in claims : c.op = "RULE_CREATE"} IN
    /\ \A r \in Rules : Exists(r) /\ ~ origin[r].lapsed =>
         \E c \in creates : c.key = origin[r].key /\ c.response = r
    /\ \A c \in creates : c.response # None /\ Exists(c.response)
                           /\ origin[c.response].key = c.key
    /\ \A c, d \in creates : c.key = d.key \/ c.response = d.response => c = d

(* A resolved alert is history: no later evaluation, request or removal    *)
(* reopens it, changes its reason or gives it another revision; it can only*)
(* be deleted, together with its whole log.                                *)
ResolvedIsFinal ==
    [][\A a \in Alerts : alert[a].status = "RESOLVED" =>
         \/ alert'[a] = alert[a]
         \/ alert'[a] = NoAlert /\ \A ev \in events' : ev.alert # a]_vars

(* While an alert is unresolved the rule it was opened under keeps its     *)
(* condition and its binding: patchRule refuses the change, also when the  *)
(* alert opens between the request's checks and its transaction.           *)
ConditionIsFrozenWhileUnresolved ==
    [][\A r \in Rules : Unresolved(r) # {} =>
         rule'[r].cond = rule[r].cond /\ rule'[r].meta = rule[r].meta]_vars

-----------------------------------------------------------------------------
(* A statement of the repository that the code does not keep *)

(* "Xoa nguon ... tat rule" (docs/project/ARCHITECTURE.md:194): a removed  *)
(* source has no enabled rule.                                             *)
RemovedSourceHasNoEnabledRule ==
    \A r \in Rules : Source(r) \in removed => ~ rule[r].enabled
=============================================================================
