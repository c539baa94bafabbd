------------------------ MODULE AlertLifecycleProofs ------------------------
(***************************************************************************)
(* AlertLifecycle for any rules, sources, evaluators, users and keys: the  *)
(* rows stay well-typed, no rule has two unresolved alerts, an unresolved  *)
(* alert belongs to a live rule, and a resolved alert is final; one rule   *)
(* per key of a request, a log of every change of an alert, and the sample *)
(* that an unresolved alert shows.                                         *)
(***************************************************************************)
EXTENDS AlertLifecycle, TLAPS

(* The rule of a binding existed when the batch was read, and existing     *)
(* rules are never enabled again once their source is removed: so a rule   *)
(* whose sample was fetched, while the source was there, is either of a    *)
(* source that still is, or not READY any more.                            *)
FetchedRuleIsLive ==
    \A e \in Evaluators : \A b \in batch[e] :
      /\ Exists(b.rule)
      /\ b.stage = "fetched" /\ Ready(b.rule) => Source(b.rule) \notin removed

(* The inductive invariant.  UnresolvedAlertIsLive needs FetchedRuleIsLive *)
(* because evaluateRule reads the rule again but not its source, and a     *)
(* rule created late may be READY on a source that is gone.                *)
LifecycleInv ==
    TypeOK /\ OneUnresolvedAlertPerRule /\ UnresolvedAlertIsLive /\ FetchedRuleIsLive

Reasons == {"RECOVERED", "MANUAL", "RULE_DISABLED", "METADATA_CHANGED", "SOURCE_REMOVED"}

-----------------------------------------------------------------------------
(* Lemmas about the operators *)

(* The initial rows are well-typed and there is nothing to be live. *)
LEMMA InitLifecycleInv == Init => LifecycleInv
<1> SUFFICES ASSUME Init PROVE LifecycleInv
  OBVIOUS
<1>1. TypeOK
  BY DEF Init, TypeOK, Rule, EvalState, Alert, NoAlert, Origin
<1>2. \A a \in Alerts : alert[a].unresolvedRule = None /\ alert[a].status = "NONE"
  BY DEF Init, NoAlert
<1>3. \A r \in Rules : Unresolved(r) = {}
  BY <1>2, ConstantsAssumption DEF Unresolved
<1>4. OneUnresolvedAlertPerRule /\ UnresolvedAlertIsLive
  BY <1>2, <1>3 DEF OneUnresolvedAlertPerRule, UnresolvedAlertIsLive
<1>5. FetchedRuleIsLive
  BY DEF Init, FetchedRuleIsLive
<1> QED BY <1>1, <1>4, <1>5 DEF LifecycleInv

(* Resolving a row: what it keeps and what it sets. *)
LEMMA ResolvedRowIs ==
  ASSUME NEW row \in Alert, NEW reason \in Reasons
  PROVE  /\ ResolvedRow(row, reason) \in Alert
         /\ ResolvedRow(row, reason).status = "RESOLVED"
         /\ ResolvedRow(row, reason).unresolvedRule = None
         /\ ResolvedRow(row, reason).rule = row.rule
<1>1. row.revision + 1 \in Nat
  BY DEF Alert
<1>2. ResolvedRow(row, reason) \in Alert
  BY <1>1 DEF ResolvedRow, Alert, Reasons
<1> QED BY <1>2 DEF ResolvedRow, Alert

(* The event of a row is an event. *)
LEMMA EventOfType ==
  ASSUME NEW a \in Alerts, NEW row \in Alert, NEW type \in {"OPENED", "ACKNOWLEDGED", "RESOLVED"}
  PROVE  EventOf(a, row, type) \in Event
  BY DEF EventOf, Event, Alert

(* ResolveAll resolves the alerts of its set and leaves the others alone. *)
LEMMA ResolveAllIs ==
  ASSUME TypeOK, NEW A \in SUBSET Alerts, NEW reason \in Reasons, ResolveAll(A, reason)
  PROVE  /\ alert' \in [Alerts -> Alert]
         /\ events' \in SUBSET Event
         /\ \A a \in A : /\ alert'[a].status = "RESOLVED"
                         /\ alert'[a].unresolvedRule = None
         /\ \A a \in Alerts \ A : alert'[a] = alert[a]
<1>1. \A a \in A : /\ alert[a] \in Alert
                   /\ ResolvedRow(alert[a], reason) \in Alert
                   /\ ResolvedRow(alert[a], reason).status = "RESOLVED"
                   /\ ResolvedRow(alert[a], reason).unresolvedRule = None
  BY ResolvedRowIs DEF TypeOK
<1>2. alert' = [a \in Alerts |-> IF a \in A THEN ResolvedRow(alert[a], reason) ELSE alert[a]]
  BY DEF ResolveAll
<1>3. \A a \in A : EventOf(a, ResolvedRow(alert[a], reason), "RESOLVED") \in Event
  BY <1>1, EventOfType
<1>4. events' \in SUBSET Event
  BY <1>3 DEF ResolveAll, TypeOK
<1>5. alert' \in [Alerts -> Alert]
  BY <1>1, <1>2 DEF TypeOK
<1> QED BY <1>1, <1>2, <1>4, <1>5

(* Transition replaces one row. *)
LEMMA TransitionIs ==
  ASSUME TypeOK, NEW a \in Alerts, NEW row \in Alert,
         NEW type \in {"OPENED", "ACKNOWLEDGED", "RESOLVED"}, Transition(a, row, type)
  PROVE  /\ alert' \in [Alerts -> Alert]
         /\ events' \in SUBSET Event
         /\ alert'[a] = row
         /\ \A c \in Alerts \ {a} : alert'[c] = alert[c]
  BY EventOfType DEF Transition, TypeOK

(* An alert is opened only for a rule that has none unresolved. *)
LEMMA DecideIs ==
  ASSUME NEW cond, NEW st \in EvalState, NEW value, NEW unresolved \in BOOLEAN
  PROVE  LET d == Decide(cond, st, value, unresolved) IN
         /\ d.breach \in Nat /\ d.recovery \in Nat
         /\ d.result \in {"BREACH", "NORMAL"}
         /\ d.action = "OPEN" => ~ unresolved
  BY DEF Decide, EvalState

(* Steps that leave the alerts and disable no rule keep what is said of    *)
(* the alerts.                                                             *)
LEMMA AlertsStay ==
  ASSUME LifecycleInv, UNCHANGED <<alert, removed>>,
         \A r \in Rules : Ready(r) => Ready(r)'
  PROVE  OneUnresolvedAlertPerRule' /\ UnresolvedAlertIsLive'
<1>1. \A r \in Rules : Unresolved(r)' = Unresolved(r)
  BY DEF Unresolved
<1> QED BY <1>1 DEF LifecycleInv, OneUnresolvedAlertPerRule, UnresolvedAlertIsLive

(* Steps that add no binding, no fetched sample and no READY rule to the   *)
(* ones there are keep what is said of the fetched ones.                   *)
LEMMA FetchedStay ==
  ASSUME FetchedRuleIsLive, TypeOK, UNCHANGED removed,
         \A r \in Rules : Exists(r) => Exists(r)' /\ (Ready(r)' => Ready(r)),
         \A e \in Evaluators : \A b \in batch'[e] : \E c \in batch[e] :
           b.rule = c.rule /\ (b.stage = "fetched" => c.stage = "fetched")
  PROVE  FetchedRuleIsLive'
<1> SUFFICES ASSUME NEW e \in Evaluators, NEW b \in batch'[e]
             PROVE  /\ Exists(b.rule)'
                    /\ b.stage = "fetched" /\ Ready(b.rule)' => Source(b.rule) \notin removed'
  BY DEF FetchedRuleIsLive
<1>1. PICK c \in batch[e] : b.rule = c.rule /\ (b.stage = "fetched" => c.stage = "fetched")
  OBVIOUS
<1>2. c.rule \in Rules
  BY DEF TypeOK, Binding
<1>3. Exists(c.rule) /\ (c.stage = "fetched" /\ Ready(c.rule) => Source(c.rule) \notin removed)
  BY DEF FetchedRuleIsLive
<1> QED BY <1>1, <1>2, <1>3

(* A binding that moves to another stage is a binding. *)
LEMMA MoveIs ==
  ASSUME TypeOK, NEW e \in Evaluators, NEW b \in batch[e],
         NEW stage \in {"checked", "evaluated"}, Move(e, b, stage)
  PROVE  /\ batch' \in [Evaluators -> SUBSET Binding]
         /\ \A d \in Evaluators : \A x \in batch'[d] : \E c \in batch[d] :
              x.rule = c.rule /\ (x.stage = "fetched" => c.stage = "fetched")
<1>1. batch \in [Evaluators -> SUBSET Binding] /\ b \in Binding
  BY DEF TypeOK
<1> DEFINE m == [b EXCEPT !.stage = stage]
<1>2. m \in Binding /\ m.rule = b.rule /\ m.stage = stage
  BY <1>1 DEF Binding
<1>3. batch' = [batch EXCEPT ![e] = (batch[e] \ {b}) \cup {m}]
  BY DEF Move
<1> HIDE DEF m
<1> QED BY <1>1, <1>2, <1>3

(* The steps that only read: they change neither the rules, nor the alerts *)
(* and what is kept of them, nor the sources.                              *)
LEMMA ReadersKeepInv ==
  ASSUME LifecycleInv, UNCHANGED <<rule, eval, alert, events, claims, removed, origin>>,
         metadata' \in Metas \cup {None}, lease' \in Evaluators \cup {None},
         batch' \in [Evaluators -> SUBSET Binding],
         pending' \in [Clients -> CreateRequest \cup PatchRequest \cup {None}],
         FetchedRuleIsLive'
  PROVE  LifecycleInv'
<1>1. TypeOK'
  BY DEF LifecycleInv, TypeOK
<1>2. \A r \in Rules : Ready(r) => Ready(r)'
  BY DEF Ready
<1> QED BY <1>1, <1>2, AlertsStay DEF LifecycleInv

-----------------------------------------------------------------------------
(* The steps *)

(* The lease, the provider and the answers to requests. *)
LEMMA SurroundingsKeepInv ==
  ASSUME LifecycleInv,
         \/ LeaseExpires
         \/ ProviderChanges
         \/ \E e \in Evaluators : LeaseAcquired(e)
         \/ \E c \in Clients : GiveUp(c)
         \/ UNCHANGED vars
  PROVE  LifecycleInv'
<1>1. /\ UNCHANGED <<rule, eval, alert, events, claims, removed, batch, origin>>
      /\ metadata' \in Metas \cup {None} /\ lease' \in Evaluators \cup {None}
      /\ pending' \in [Clients -> CreateRequest \cup PatchRequest \cup {None}]
  BY DEF LeaseExpires, ProviderChanges, LeaseAcquired, GiveUp, vars, LifecycleInv, TypeOK
<1>2. FetchedRuleIsLive'
  BY <1>1 DEF LifecycleInv, FetchedRuleIsLive, Exists, Ready
<1> QED BY <1>1, <1>2, ReadersKeepInv DEF LifecycleInv, TypeOK

(* The requests' reads. *)
LEMMA RequestsKeepInv ==
  ASSUME LifecycleInv, NEW c \in Clients,
         \/ \E slot \in Slots, cond \in Conditions, m \in Metas, on \in BOOLEAN, k \in Keys :
              StartCreate(c, slot, cond, m, on, k)
         \/ \E r \in Rules, cond \in Conditions \cup {None}, m \in Metas \cup {None},
               on \in BOOLEAN \cup {None} : StartPatch(c, r, cond, m, on)
  PROVE  LifecycleInv'
<1> DEFINE Asks == /\ UNCHANGED <<rule, eval, alert, events, claims, removed, batch, metadata,
                                  lease, origin>>
                   /\ \E p \in CreateRequest \cup PatchRequest : pending' = [pending EXCEPT ![c] = p]
<1>1. Asks
  <2>1. ASSUME NEW slot \in Slots, NEW cond \in Conditions, NEW m \in Metas, NEW on \in BOOLEAN,
               NEW k \in Keys, StartCreate(c, slot, cond, m, on, k)
        PROVE  Asks
    BY <2>1 DEF StartCreate, CreateRequest
  <2>2. ASSUME NEW r \in Rules, NEW cond \in Conditions \cup {None}, NEW m \in Metas \cup {None},
               NEW on \in BOOLEAN \cup {None}, StartPatch(c, r, cond, m, on)
        PROVE  Asks
    <3>1. NextEnabled(r, on) \in BOOLEAN /\ rule[r].revision \in Nat
      BY DEF NextEnabled, LifecycleInv, TypeOK, Rule
    <3> QED BY <2>2, <3>1 DEF StartPatch, PatchRequest
  <2> QED BY <2>1, <2>2
<1>2. FetchedRuleIsLive'
  BY <1>1 DEF LifecycleInv, FetchedRuleIsLive, Exists, Ready
<1> QED BY <1>1, <1>2, ReadersKeepInv DEF LifecycleInv, TypeOK

(* The evaluator's reads, and what it writes that is not a sample. *)
LEMMA BatchStepsKeepInv ==
  ASSUME LifecycleInv, NEW e \in Evaluators,
         \/ LeaveBatch(e)
         \/ \E b \in batch[e] : \/ CheckMetadata(e, b)
                                \/ SkipRule(e, b)
                                \/ RecordSafeResult(e, b)
                                \/ RecordUpstreamError(e, b)
                                \/ EvaluationFails(e, b)
  PROVE  LifecycleInv'
<1> USE DEF LifecycleInv
<1>0. /\ batch \in [Evaluators -> SUBSET Binding]
      /\ eval \in [Rules -> EvalState]
  BY DEF TypeOK
<1>1. UNCHANGED <<rule, alert, events, claims, removed, metadata, lease, pending, origin>>
  BY DEF LeaveBatch, CheckMetadata, SkipRule, RecordSafeResult, RecordUpstreamError, EvaluationFails
<1>2. eval' \in [Rules -> EvalState]
  <2>1. CASE UNCHANGED eval
    BY <1>0, <2>1
  <2>2. ASSUME NEW b \in batch[e], WriteSafeResult(e, b.rule)
        PROVE  eval' \in [Rules -> EvalState]
    <3>1. b.rule \in Rules
      BY <1>0 DEF Binding
    <3>2. [eval[b.rule] EXCEPT !.lastResult = "UNUSABLE"] \in EvalState
      BY <1>0, <3>1 DEF EvalState
    <3> QED BY <1>0, <2>2, <3>1, <3>2 DEF WriteSafeResult
  <2> QED BY <2>1, <2>2
          DEF LeaveBatch, CheckMetadata, SkipRule, RecordSafeResult, RecordUpstreamError,
              EvaluationFails
<1> DEFINE Moves ==
        /\ batch' \in [Evaluators -> SUBSET Binding]
        /\ \A d \in Evaluators : \A x \in batch'[d] : \E c \in batch[d] :
             x.rule = c.rule /\ (x.stage = "fetched" => c.stage = "fetched")
<1>3. Moves
  <2>1. CASE LeaveBatch(e)
    BY <1>0, <2>1 DEF LeaveBatch
  <2>2. ASSUME NEW b \in batch[e], CheckMetadata(e, b) PROVE Moves
    BY <2>2, MoveIs DEF CheckMetadata
  <2>3. ASSUME NEW b \in batch[e], SkipRule(e, b) \/ RecordUpstreamError(e, b) PROVE Moves
    BY <1>0, <2>3 DEF SkipRule, RecordUpstreamError
  <2>4. ASSUME NEW b \in batch[e], RecordSafeResult(e, b) PROVE Moves
    BY <2>4, MoveIs DEF RecordSafeResult
  <2>5. ASSUME NEW b \in batch[e], EvaluationFails(e, b) PROVE Moves
    <3> DEFINE Failed(x) == IF x.stage \in {"fetched", "evaluated"}
                            THEN [x EXCEPT !.stage = "failed"] ELSE x
    <3>1. \A x \in Binding : /\ Failed(x) \in Binding
                             /\ Failed(x).rule = x.rule
                             /\ Failed(x).stage = "fetched" => x.stage = "fetched"
      BY DEF Binding
    <3>2. batch' = [batch EXCEPT ![e] = {Failed(x) : x \in batch[e]}]
      BY <2>5 DEF EvaluationFails
    <3> HIDE DEF Failed
    <3> QED BY <1>0, <3>1, <3>2
  <2> QED BY <2>1, <2>2, <2>3, <2>4, <2>5
<1>4. TypeOK'
  BY <1>1, <1>2, <1>3 DEF TypeOK
<1>5. \A r \in Rules : /\ Ready(r)' = Ready(r)
                       /\ Exists(r)' = Exists(r)
  BY <1>1 DEF Ready, Exists
<1> QED BY <1>1, <1>3, <1>4, <1>5, AlertsStay, FetchedStay

(* A batch holds rules that exist; nothing of it is fetched yet. *)
LEMMA ReadBatchKeepsInv ==
  ASSUME LifecycleInv, NEW e \in Evaluators, ReadBatch(e)
  PROVE  LifecycleInv'
<1>1. /\ batch \in [Evaluators -> SUBSET Binding] /\ rule \in [Rules -> Rule]
      /\ UNCHANGED <<rule, eval, alert, events, claims, removed, metadata, lease, pending, origin>>
  BY DEF LifecycleInv, TypeOK, ReadBatch
<1> DEFINE Bind(r) == [rule |-> r, revision |-> rule[r].revision, meta |-> rule[r].meta,
                       stage |-> "read"]
<1>2. PICK R \in SUBSET {r \in Rules : Ready(r)} :
        batch' = [batch EXCEPT ![e] = {Bind(r) : r \in R}]
  BY DEF ReadBatch
<1>3. \A r \in R : Bind(r) \in Binding /\ Bind(r).rule = r /\ Bind(r).stage = "read" /\ Exists(r)
  BY <1>1 DEF Binding, Rule, Ready, Exists
<1> HIDE DEF Bind
<1>4. batch' \in [Evaluators -> SUBSET Binding]
  BY <1>1, <1>2, <1>3
<1>5. FetchedRuleIsLive'
  <2> SUFFICES ASSUME NEW d \in Evaluators, NEW b \in batch'[d]
               PROVE  Exists(b.rule)'
                      /\ (b.stage = "fetched" /\ Ready(b.rule)' => Source(b.rule) \notin removed')
    BY DEF FetchedRuleIsLive
  <2>1. CASE d = e
    <3>1. PICK r \in R : b = Bind(r)
      BY <1>1, <1>2, <2>1
    <3> QED BY <1>1, <1>3, <3>1 DEF Exists
  <2>2. CASE d # e
    BY <1>1, <1>2, <2>2 DEF LifecycleInv, FetchedRuleIsLive, Exists, Ready
  <2> QED BY <2>1, <2>2
<1> QED BY <1>1, <1>4, <1>5, ReadersKeepInv DEF LifecycleInv, TypeOK

(* A sample is fetched only from a source that is still there. *)
LEMMA FetchLatestKeepsInv ==
  ASSUME LifecycleInv, NEW e \in Evaluators, NEW s \in Stations, FetchLatest(e, s)
  PROVE  LifecycleInv'
<1>1. /\ batch \in [Evaluators -> SUBSET Binding]
      /\ UNCHANGED <<rule, eval, alert, events, claims, removed, metadata, lease, pending, origin>>
  BY DEF LifecycleInv, TypeOK, FetchLatest
<1> DEFINE group == Group(e, s, "checked")
           Fetched(b, ok) == [b EXCEPT !.stage = IF ok THEN "fetched" ELSE "failed"]
<1>2. PICK ok \in BOOLEAN :
        /\ ok => SourceOf[s] \notin removed
        /\ batch' = [batch EXCEPT ![e] =
                       {b \in batch[e] : b.stage = "checked" /\ b \notin group} \cup
                       {Fetched(b, ok) : b \in group}]
  BY DEF FetchLatest
<1>3. \A b \in group : b \in batch[e] /\ StationOf[SlotOf[b.rule]] = s
  BY DEF Group
<1>4. \A b \in group : /\ Fetched(b, ok) \in Binding
                       /\ Fetched(b, ok).rule = b.rule
                       /\ Fetched(b, ok).stage = "fetched" => ok
  BY <1>1, <1>3 DEF Binding
<1> HIDE DEF group, Fetched
<1>5. batch' \in [Evaluators -> SUBSET Binding]
  BY <1>1, <1>2, <1>4
<1>6. FetchedRuleIsLive'
  <2> SUFFICES ASSUME NEW d \in Evaluators, NEW b \in batch'[d]
               PROVE  Exists(b.rule)'
                      /\ (b.stage = "fetched" /\ Ready(b.rule)' => Source(b.rule) \notin removed')
    BY DEF FetchedRuleIsLive
  <2>1. CASE b \in batch[d]
    BY <1>1, <2>1 DEF LifecycleInv, FetchedRuleIsLive, Exists, Ready
  <2>2. CASE d = e /\ \E c \in group : b = Fetched(c, ok)
    <3>1. PICK c \in group : b = Fetched(c, ok)
      BY <2>2
    <3>2. Exists(c.rule)
      BY <1>3 DEF LifecycleInv, FetchedRuleIsLive
    <3> QED BY <1>1, <1>2, <1>3, <1>4, <3>1, <3>2 DEF Exists, Source
  <2> QED BY <1>1, <1>2, <2>1, <2>2
<1> QED BY <1>1, <1>5, <1>6, ReadersKeepInv DEF LifecycleInv, TypeOK

(* An alert opens only for a READY rule of a source that is still there,   *)
(* and only when the rule has none.                                        *)
LEMMA EvaluateRuleKeepsInv ==
  ASSUME LifecycleInv, NEW e \in Evaluators, NEW b \in batch[e], NEW t \in Samples,
         NEW v \in Values, EvaluateRule(e, b, t, v)
  PROVE  LifecycleInv'
<1> DEFINE r == b.rule
           d == Decide(rule[r].cond, eval[r], v, Unresolved(r) # {})
<1>1. /\ batch \in [Evaluators -> SUBSET Binding] /\ b \in Binding /\ r \in Rules
      /\ eval \in [Rules -> EvalState] /\ eval[r] \in EvalState
      /\ alert \in [Alerts -> Alert]
      /\ t \in Nat
  BY ConstantsAssumption DEF LifecycleInv, TypeOK, Binding, Samples
<1>2. /\ UNCHANGED <<rule, claims, removed, metadata, lease, pending, origin>>
      /\ b.stage = "fetched" /\ Move(e, b, "evaluated")
  BY DEF EvaluateRule
<1>3. /\ d.breach \in Nat /\ d.recovery \in Nat /\ d.result \in {"BREACH", "NORMAL"}
      /\ d.action = "OPEN" => Unresolved(r) = {}
  BY <1>1, DecideIs
<1>4. /\ batch' \in [Evaluators -> SUBSET Binding]
      /\ FetchedRuleIsLive'
  <2>1. \A q \in Rules : Exists(q)' = Exists(q) /\ Ready(q)' = Ready(q)
    BY <1>2 DEF Exists, Ready
  <2> QED BY <1>2, <2>1, MoveIs, FetchedStay DEF LifecycleInv
<1> HIDE DEF d
<1>5. CASE Evaluable(e, b, t)
  <2>1. eval' \in [Rules -> EvalState]
    <3> DEFINE st == [lastObservedAt |-> t, lastValue |-> v, breach |-> d.breach,
                      recovery |-> d.recovery, lastResult |-> d.result]
    <3>1. st \in EvalState
      BY <1>1, <1>3 DEF EvalState
    <3>2. eval' = [eval EXCEPT ![r] = st]
      BY <1>5 DEF EvaluateRule, d
    <3> HIDE DEF st
    <3> QED BY <1>1, <3>1, <3>2
  <2>2. Ready(r) /\ Source(r) \notin removed
    BY <1>2, <1>5 DEF Evaluable, LifecycleInv, FetchedRuleIsLive
  <2> DEFINE AlertsOK == /\ alert' \in [Alerts -> Alert] /\ events' \in SUBSET Event
                         /\ OneUnresolvedAlertPerRule' /\ UnresolvedAlertIsLive'
  <2>3. ASSUME d.action = "OPEN", NEW a \in Alerts, alert[a].status = "NONE",
               Transition(a, NewAlert(r, t), "OPENED")
        PROVE  AlertsOK
    <3>1. NewAlert(r, t) \in Alert
      BY <1>1 DEF NewAlert, Alert
    <3>2. /\ alert' \in [Alerts -> Alert] /\ events' \in SUBSET Event
          /\ alert'[a] = NewAlert(r, t) /\ \A c \in Alerts \ {a} : alert'[c] = alert[c]
      BY <2>3, <3>1, TransitionIs DEF LifecycleInv
    <3>3. /\ alert'[a].unresolvedRule = r /\ alert'[a].rule = r /\ alert'[a].status = "OPEN"
      BY <3>2 DEF NewAlert
    <3>4. /\ \A q \in Rules \ {r} : Unresolved(q)' \subseteq Unresolved(q)
          /\ Unresolved(r)' = {a}
      BY <1>3, <2>3, <3>2, <3>3 DEF Unresolved
    <3> QED BY <1>2, <2>2, <3>2, <3>3, <3>4
            DEF LifecycleInv, OneUnresolvedAlertPerRule, UnresolvedAlertIsLive, Ready
  <2>4. ASSUME NEW a \in Unresolved(r),
               Transition(a, [ResolvedRow(alert[a], "RECOVERED")
                                EXCEPT !.latestObservedAt = t], "RESOLVED")
        PROVE  AlertsOK
    <3>1. a \in Alerts /\ alert[a] \in Alert
      BY <1>1 DEF Unresolved
    <3> DEFINE row == [ResolvedRow(alert[a], "RECOVERED") EXCEPT !.latestObservedAt = t]
    <3>2. row \in Alert /\ row.status = "RESOLVED" /\ row.unresolvedRule = None
      BY <1>1, <3>1, ResolvedRowIs DEF Alert, Reasons
    <3> HIDE DEF row
    <3>3. /\ alert' \in [Alerts -> Alert] /\ events' \in SUBSET Event
          /\ alert'[a] = row /\ \A c \in Alerts \ {a} : alert'[c] = alert[c]
      BY <2>4, <3>1, <3>2, TransitionIs DEF LifecycleInv, row
    <3>4. \A q \in Rules : Unresolved(q)' \subseteq Unresolved(q)
      BY <3>2, <3>3, ConstantsAssumption DEF Unresolved
    <3> QED BY <1>2, <3>2, <3>3, <3>4
            DEF LifecycleInv, OneUnresolvedAlertPerRule, UnresolvedAlertIsLive, Ready
  <2>5. ASSUME alert' = [a \in Alerts |->
                           IF a \in Unresolved(r)
                           THEN [alert[a] EXCEPT !.latestObservedAt = t] ELSE alert[a]],
               UNCHANGED events
        PROVE  AlertsOK
    <3>1. \A a \in Alerts : /\ alert'[a] \in Alert
                            /\ alert'[a].status = alert[a].status
                            /\ alert'[a].unresolvedRule = alert[a].unresolvedRule
                            /\ alert'[a].rule = alert[a].rule
      BY <1>1, <2>5 DEF Alert
    <3>2. alert' \in [Alerts -> Alert] /\ events' \in SUBSET Event
      BY <2>5, <3>1 DEF LifecycleInv, TypeOK
    <3>3. \A q \in Rules : Unresolved(q)' = Unresolved(q)
      BY <3>1 DEF Unresolved
    <3> QED BY <1>2, <3>1, <3>2, <3>3
            DEF LifecycleInv, OneUnresolvedAlertPerRule, UnresolvedAlertIsLive, Ready
  <2>6. AlertsOK
    BY <1>5, <2>3, <2>4, <2>5 DEF EvaluateRule, d
  <2> QED BY <1>2, <1>4, <2>1, <2>6 DEF LifecycleInv, TypeOK
<1>6. CASE ~ Evaluable(e, b, t)
  <2>1. UNCHANGED <<eval, alert, events>>
    BY <1>6 DEF EvaluateRule
  <2>2. TypeOK'
    BY <1>2, <1>4, <2>1 DEF LifecycleInv, TypeOK
  <2>3. \A q \in Rules : Ready(q) => Ready(q)'
    BY <1>2 DEF Ready
  <2> QED BY <1>2, <1>4, <2>1, <2>2, <2>3, AlertsStay DEF LifecycleInv
<1> QED BY <1>5, <1>6

(* Resolving a set of alerts, whatever their rules become meanwhile: the   *)
(* rules of the alerts that stay unresolved have to stay live.             *)
LEMMA ResolveAllKeeps ==
  ASSUME LifecycleInv, NEW A \in SUBSET Alerts, NEW reason \in Reasons, ResolveAll(A, reason),
         \A q \in Rules : Unresolved(q) \ A # {} => Ready(q)' /\ Source(q) \notin removed'
  PROVE  /\ alert' \in [Alerts -> Alert] /\ events' \in SUBSET Event
         /\ OneUnresolvedAlertPerRule' /\ UnresolvedAlertIsLive'
<1>1. /\ alert' \in [Alerts -> Alert] /\ events' \in SUBSET Event
      /\ \A a \in A : alert'[a].status = "RESOLVED" /\ alert'[a].unresolvedRule = None
      /\ \A a \in Alerts \ A : alert'[a] = alert[a]
  BY ResolveAllIs DEF LifecycleInv
<1>2. \A q \in Rules : /\ Unresolved(q)' \subseteq Unresolved(q)
                       /\ Unresolved(q)' \subseteq Alerts \ A
  BY <1>1, ConstantsAssumption DEF Unresolved
<1>3. OneUnresolvedAlertPerRule'
  BY <1>1, <1>2 DEF LifecycleInv, OneUnresolvedAlertPerRule
<1>4. UnresolvedAlertIsLive'
  <2> SUFFICES ASSUME NEW q \in Rules, NEW a \in Unresolved(q)'
               PROVE  Ready(q)' /\ Source(q) \notin removed'
    BY DEF UnresolvedAlertIsLive
  <2> QED BY <1>2
<1> QED BY <1>1, <1>3, <1>4

(* Blocking a rule resolves its alert. *)
LEMMA BlockForMetadataKeepsInv ==
  ASSUME LifecycleInv, NEW e \in Evaluators, NEW b \in batch[e], BlockForMetadata(e, b)
  PROVE  LifecycleInv'
<1> DEFINE r == b.rule
<1>1. /\ batch \in [Evaluators -> SUBSET Binding] /\ b \in Binding /\ r \in Rules
      /\ rule \in [Rules -> Rule] /\ eval \in [Rules -> EvalState]
  BY DEF LifecycleInv, TypeOK, Binding
<1>2. /\ batch' = [batch EXCEPT ![e] = @ \ {b}]
      /\ UNCHANGED <<claims, removed, metadata, lease, pending, origin>>
  BY DEF BlockForMetadata
<1>3. /\ batch' \in [Evaluators -> SUBSET Binding]
      /\ \A d \in Evaluators : batch'[d] \subseteq batch[d]
  BY <1>1, <1>2
<1>4. CASE UNCHANGED <<rule, eval, alert, events>>
  <2>1. \A q \in Rules : Exists(q)' = Exists(q) /\ Ready(q)' = Ready(q)
    BY <1>4 DEF Exists, Ready
  <2>2. FetchedRuleIsLive'
    BY <1>2, <1>3, <2>1, FetchedStay DEF LifecycleInv
  <2>3. TypeOK'
    BY <1>2, <1>3, <1>4 DEF LifecycleInv, TypeOK
  <2> QED BY <1>2, <1>4, <2>1, <2>2, <2>3, AlertsStay DEF LifecycleInv
<1>5. CASE /\ rule' = [rule EXCEPT ![r] = [rule[r] EXCEPT !.status = "BLOCKED_METADATA",
                                                     !.revision = rule[r].revision + 1]]
           /\ eval' = [eval EXCEPT ![r].lastResult = "UNUSABLE"]
           /\ ResolveAll(Unresolved(r), "METADATA_CHANGED")
  <2>1. /\ [rule[r] EXCEPT !.status = "BLOCKED_METADATA", !.revision = rule[r].revision + 1] \in Rule
        /\ [eval[r] EXCEPT !.lastResult = "UNUSABLE"] \in EvalState
    <3>1. rule[r] \in Rule /\ rule[r].revision + 1 \in Nat /\ eval[r] \in EvalState
      BY <1>1 DEF Rule
    <3> QED BY <3>1 DEF Rule, EvalState
  <2>2. rule' \in [Rules -> Rule] /\ eval' \in [Rules -> EvalState]
    <3>1. eval' = [eval EXCEPT ![r] = [eval[r] EXCEPT !.lastResult = "UNUSABLE"]]
      BY <1>5, Zenon
    <3> QED BY <1>1, <1>5, <2>1, <3>1
  <2>3. /\ rule'[r].status = "BLOCKED_METADATA"
        /\ \A q \in Rules \ {r} : rule'[q] = rule[q]
    BY <1>1, <1>5 DEF Rule
  <2>4. \A q \in Rules : Exists(q) => Exists(q)' /\ (Ready(q)' => Ready(q))
    BY <2>3 DEF Exists, Ready
  <2>5. FetchedRuleIsLive'
    BY <1>2, <1>3, <2>4, FetchedStay DEF LifecycleInv
  <2>6. ASSUME NEW q \in Rules, Unresolved(q) \ Unresolved(r) # {}
        PROVE  Ready(q)' /\ Source(q) \notin removed'
    <3>1. q # r /\ Ready(q) /\ Source(q) \notin removed
      BY <2>6 DEF LifecycleInv, UnresolvedAlertIsLive
    <3> QED BY <1>2, <2>3, <3>1 DEF Ready
  <2>7. Unresolved(r) \in SUBSET Alerts
    BY DEF Unresolved
  <2>8. /\ alert' \in [Alerts -> Alert] /\ events' \in SUBSET Event
        /\ OneUnresolvedAlertPerRule' /\ UnresolvedAlertIsLive'
    BY <1>5, <2>6, <2>7, ResolveAllKeeps DEF Reasons
  <2> QED BY <1>2, <1>3, <2>2, <2>5, <2>8 DEF LifecycleInv, TypeOK
<1> QED BY <1>4, <1>5 DEF BlockForMetadata

(* A create adds a rule where there was none, so no alert is concerned. *)
LEMMA CommitCreateKeepsInv ==
  ASSUME LifecycleInv, NEW c \in Clients, NEW r \in Rules, CommitCreate(c, r)
  PROVE  LifecycleInv'
<1> DEFINE p == pending[c]
<1>1. /\ p \in CreateRequest /\ ~ Exists(r) /\ SlotOf[r] = p.slot
      /\ rule \in [Rules -> Rule] /\ eval \in [Rules -> EvalState]
      /\ UNCHANGED <<alert, events, removed, metadata, lease, batch>>
  BY DEF CommitCreate, LifecycleInv, TypeOK, PatchRequest
<1> DEFINE row == [status |-> IF p.enabled THEN "READY" ELSE "DISABLED", enabled |-> p.enabled,
                   revision |-> 1, cond |-> p.cond, meta |-> p.meta,
                   activeKey |-> ActiveKey(p.slot, p.enabled)]
           st == [lastObservedAt |-> 0, lastValue |-> None, breach |-> 0, recovery |-> 0,
                  lastResult |-> "NONE"]
           claim == [op |-> "RULE_CREATE", key |-> p.key, response |-> r, expired |-> FALSE]
           made == [key |-> p.key, lapsed |-> FALSE]
<1>2. /\ row \in Rule /\ row.status # "ABSENT" /\ st \in EvalState
      /\ claim \in Claim /\ made \in Origin
  BY <1>1 DEF CreateRequest, Rule, EvalState, Claim, ActiveKey, Origin
<1>3. /\ rule' = [rule EXCEPT ![r] = row] /\ eval' = [eval EXCEPT ![r] = st]
      /\ claims' = claims \cup {claim} /\ pending' = [pending EXCEPT ![c] = None]
      /\ origin' = [origin EXCEPT ![r] = made]
  BY DEF CommitCreate
<1> HIDE DEF row, st, claim, made
<1>4. TypeOK'
  BY <1>1, <1>2, <1>3 DEF LifecycleInv, TypeOK
<1>5. \A q \in Rules : /\ Exists(q) => Exists(q)' /\ Ready(q)' = Ready(q)
                       /\ Ready(q) => Ready(q)'
  <2>1. ~ Ready(r)
    BY <1>1 DEF Exists, Ready
  <2> QED BY <1>1, <1>2, <1>3, <2>1 DEF Exists, Ready
<1> QED BY <1>1, <1>4, <1>5, AlertsStay, FetchedStay DEF LifecycleInv

(* A patch that disables resolves; one that enables needs the source. *)
LEMMA CommitPatchKeepsInv ==
  ASSUME LifecycleInv, NEW c \in Clients, CommitPatch(c)
  PROVE  LifecycleInv'
<1> DEFINE p == pending[c]
           r == p.rule
           A == IF ~ p.enabled /\ rule[r].enabled THEN Unresolved(r) ELSE {}
<1>1. /\ p \in PatchRequest /\ r \in Rules /\ Source(r) \notin removed
      /\ rule \in [Rules -> Rule] /\ rule[r] \in Rule
      /\ UNCHANGED <<eval, claims, removed, metadata, lease, batch, origin>>
      /\ ResolveAll(A, "RULE_DISABLED")
      /\ pending' = [pending EXCEPT ![c] = None]
  BY DEF CommitPatch, Patchable, LifecycleInv, TypeOK, CreateRequest, PatchRequest
<1> DEFINE row == [status |-> IF p.enabled THEN "READY" ELSE "DISABLED", enabled |-> p.enabled,
                   revision |-> rule[r].revision + 1,
                   cond |-> IF p.cond = None THEN rule[r].cond ELSE p.cond,
                   meta |-> IF p.meta = None THEN rule[r].meta ELSE p.meta,
                   activeKey |-> ActiveKey(SlotOf[r], p.enabled)]
<1>2. rule' = [rule EXCEPT ![r] = row]
  BY DEF CommitPatch
<1>3. row \in Rule
  <2>1. /\ (IF p.cond = None THEN rule[r].cond ELSE p.cond) \in Conditions \cup {None}
        /\ (IF p.meta = None THEN rule[r].meta ELSE p.meta) \in Metas \cup {None}
        /\ rule[r].revision + 1 \in Nat /\ p.enabled \in BOOLEAN
        /\ ActiveKey(SlotOf[r], p.enabled) \in Slots \cup {None}
    BY <1>1, ConstantsAssumption DEF PatchRequest, Rule, ActiveKey
  <2> QED BY <2>1 DEF Rule
<1>4. /\ row.status # "ABSENT" /\ row.enabled = p.enabled
      /\ p.enabled => row.status = "READY"
  OBVIOUS
<1>5. p.enabled \in BOOLEAN
  BY <1>1 DEF PatchRequest
<1> HIDE DEF row
<1>6. rule' \in [Rules -> Rule] /\ rule'[r] = row /\ \A q \in Rules \ {r} : rule'[q] = rule[q]
  BY <1>1, <1>2, <1>3
<1>7. ASSUME NEW q \in Rules, Unresolved(q) \ A # {}
      PROVE  Ready(q)' /\ Source(q) \notin removed'
  <2>1. Ready(q) /\ Source(q) \notin removed
    BY <1>7 DEF LifecycleInv, UnresolvedAlertIsLive
  <2>2. CASE q = r
    <3>1. p.enabled
      BY <1>7, <2>1, <2>2 DEF Ready
    <3> QED BY <1>1, <1>4, <1>6, <2>2, <3>1 DEF Ready
  <2>3. CASE q # r
    BY <1>1, <1>6, <2>1, <2>3 DEF Ready
  <2> QED BY <2>2, <2>3
<1>8. A \in SUBSET Alerts
  BY DEF Unresolved
<1>9. /\ alert' \in [Alerts -> Alert] /\ events' \in SUBSET Event
      /\ OneUnresolvedAlertPerRule' /\ UnresolvedAlertIsLive'
  BY <1>1, <1>7, <1>8, ResolveAllKeeps DEF Reasons
<1>10. FetchedRuleIsLive'
  <2> SUFFICES ASSUME NEW e \in Evaluators, NEW b \in batch[e]
               PROVE  /\ Exists(b.rule)'
                      /\ b.stage = "fetched" /\ Ready(b.rule)' => Source(b.rule) \notin removed
    BY <1>1 DEF FetchedRuleIsLive
  <2>1. b.rule \in Rules /\ Exists(b.rule)
    BY DEF LifecycleInv, TypeOK, Binding, FetchedRuleIsLive
  <2>2. CASE b.rule = r
    BY <1>1, <1>4, <1>6, <2>2 DEF Exists
  <2>3. CASE b.rule # r
    BY <1>6, <2>1, <2>3 DEF LifecycleInv, FetchedRuleIsLive, Exists, Ready
  <2> QED BY <2>2, <2>3
<1>11. TypeOK'
  BY <1>1, <1>6, <1>9 DEF LifecycleInv, TypeOK
<1> QED BY <1>9, <1>10, <1>11 DEF LifecycleInv

(* The actions of a user on an alert: what they do to its row. *)
LEMMA AlertActionsKeepInv ==
  ASSUME LifecycleInv, NEW a \in Alerts, NEW k \in Keys, Acknowledge(a, k) \/ Resolve(a, k)
  PROVE  LifecycleInv'
<1>1. /\ alert \in [Alerts -> Alert] /\ alert[a] \in Alert
      /\ UNCHANGED <<rule, eval, removed, metadata, lease, batch, pending, origin>>
  BY DEF Acknowledge, Resolve, LifecycleInv, TypeOK
<1>2. claims' \in SUBSET Claim
  <2>1. ActionClaim("ALERT_ACKNOWLEDGE", k) \in Claim /\ ActionClaim("ALERT_RESOLVE", k) \in Claim
    BY DEF ActionClaim, Claim
  <2> QED BY <2>1 DEF Acknowledge, Resolve, LifecycleInv, TypeOK
<1>3. FetchedRuleIsLive'
  BY <1>1 DEF LifecycleInv, FetchedRuleIsLive, Exists, Ready
<1>4. CASE UNCHANGED <<alert, events>>
  <2>1. \A r \in Rules : Ready(r) => Ready(r)'
    BY <1>1 DEF Ready
  <2>2. TypeOK'
    BY <1>1, <1>2, <1>4 DEF LifecycleInv, TypeOK
  <2> QED BY <1>1, <1>3, <1>4, <2>1, <2>2, AlertsStay DEF LifecycleInv
<1>5. ASSUME NEW row \in Alert, NEW type \in {"ACKNOWLEDGED", "RESOLVED"},
             Transition(a, row, type), row.rule = alert[a].rule,
             \/ /\ alert[a].status = "OPEN" /\ row.status = "ACKNOWLEDGED"
                /\ row.unresolvedRule = alert[a].unresolvedRule
             \/ row.status = "RESOLVED" /\ row.unresolvedRule = None
      PROVE  LifecycleInv'
  <2>1. /\ alert' \in [Alerts -> Alert] /\ events' \in SUBSET Event
        /\ alert'[a] = row /\ \A c \in Alerts \ {a} : alert'[c] = alert[c]
    BY <1>5, TransitionIs DEF LifecycleInv
  <2>2. \A q \in Rules : Unresolved(q)' \subseteq Unresolved(q)
    BY <1>5, <2>1, ConstantsAssumption DEF Unresolved
  <2>3. OneUnresolvedAlertPerRule'
    BY <1>5, <2>1, <2>2 DEF LifecycleInv, OneUnresolvedAlertPerRule
  <2>4. UnresolvedAlertIsLive'
    BY <1>1, <2>2 DEF LifecycleInv, UnresolvedAlertIsLive, Ready
  <2> QED BY <1>1, <1>2, <1>3, <2>1, <2>3, <2>4 DEF LifecycleInv, TypeOK
<1>6. CASE Acknowledge(a, k)
  <2>1. CASE alert[a].status = "OPEN"
    <3> DEFINE row == [alert[a] EXCEPT !.status = "ACKNOWLEDGED",
                                       !.revision = alert[a].revision + 1]
    <3>1. alert[a].revision + 1 \in Nat
      BY <1>1 DEF Alert
    <3>2. /\ row \in Alert /\ row.rule = alert[a].rule /\ row.status = "ACKNOWLEDGED"
          /\ row.unresolvedRule = alert[a].unresolvedRule
      BY <1>1, <3>1 DEF Alert
    <3>3. Transition(a, row, "ACKNOWLEDGED")
      BY <1>6, <2>1 DEF Acknowledge
    <3> HIDE DEF row
    <3> QED BY <1>5, <2>1, <3>2, <3>3
  <2>2. CASE alert[a].status # "OPEN"
    BY <1>4, <1>6, <2>2 DEF Acknowledge
  <2> QED BY <2>1, <2>2
<1>7. CASE Resolve(a, k)
  <2>1. CASE alert[a].status # "RESOLVED"
    <3>1. Transition(a, ResolvedRow(alert[a], "MANUAL"), "RESOLVED")
      BY <1>7, <2>1 DEF Resolve
    <3> QED BY <1>1, <1>5, <3>1, ResolvedRowIs DEF Reasons
  <2>2. CASE alert[a].status = "RESOLVED"
    BY <1>4, <1>7, <2>2 DEF Resolve
  <2> QED BY <2>1, <2>2
<1> QED BY <1>6, <1>7

(* A removal disables the rules of the source and resolves their alerts. *)
LEMMA RemoveSourceKeepsInv ==
  ASSUME LifecycleInv, NEW s \in Sources, RemoveSource(s)
  PROVE  LifecycleInv'
<1> DEFINE A == {a \in Alerts : alert[a].unresolvedRule # None /\ Source(alert[a].rule) = s}
           Off(r) == [rule[r] EXCEPT !.enabled = FALSE, !.status = "DISABLED", !.activeKey = None]
<1>1. /\ ResolveAll(A, "SOURCE_REMOVED")
      /\ rule' = [r \in Rules |-> IF Exists(r) /\ Source(r) = s THEN Off(r) ELSE rule[r]]
      /\ removed' = removed \cup {s}
      /\ UNCHANGED <<eval, claims, metadata, lease, batch, pending, origin>>
  BY DEF RemoveSource
<1>2. rule \in [Rules -> Rule]
  BY DEF LifecycleInv, TypeOK
<1>3. \A r \in Rules : Off(r) \in Rule /\ Off(r).status = "DISABLED"
  BY <1>2 DEF Rule
<1> HIDE DEF Off
<1>4. rule' \in [Rules -> Rule]
  BY <1>1, <1>2, <1>3
<1>5. \A r \in Rules : /\ Exists(r) => Exists(r)'
                       /\ Exists(r) /\ Source(r) = s => ~ Ready(r)'
                       /\ Source(r) # s => Ready(r)' = Ready(r)
                       /\ Ready(r)' => Ready(r)
  BY <1>1, <1>3 DEF Exists, Ready
<1>6. ASSUME NEW q \in Rules, Unresolved(q) \ A # {}
      PROVE  Ready(q)' /\ Source(q) \notin removed'
  <2>1. PICK a \in Unresolved(q) : a \notin A
    BY <1>6
  <2>2. a \in Alerts /\ alert[a].unresolvedRule = q /\ q # None
    BY ConstantsAssumption DEF Unresolved
  <2>3. alert[a].rule = q
    BY <2>2 DEF LifecycleInv, OneUnresolvedAlertPerRule
  <2>4. Source(q) # s
    BY <2>1, <2>2, <2>3
  <2>5. Ready(q) /\ Source(q) \notin removed
    BY <1>6 DEF LifecycleInv, UnresolvedAlertIsLive
  <2> QED BY <1>1, <1>5, <2>4, <2>5
<1>7. A \in SUBSET Alerts
  OBVIOUS
<1>8. /\ alert' \in [Alerts -> Alert] /\ events' \in SUBSET Event
      /\ OneUnresolvedAlertPerRule' /\ UnresolvedAlertIsLive'
  <2> HIDE DEF A
  <2> QED BY <1>1, <1>6, <1>7, ResolveAllKeeps DEF Reasons
<1>9. FetchedRuleIsLive'
  <2> SUFFICES ASSUME NEW e \in Evaluators, NEW b \in batch[e]
               PROVE  /\ Exists(b.rule)'
                      /\ b.stage = "fetched" /\ Ready(b.rule)' => Source(b.rule) \notin removed'
    BY <1>1 DEF FetchedRuleIsLive
  <2>1. b.rule \in Rules
    BY DEF LifecycleInv, TypeOK, Binding
  <2>2. Exists(b.rule) /\ (b.stage = "fetched" /\ Ready(b.rule) => Source(b.rule) \notin removed)
    BY DEF LifecycleInv, FetchedRuleIsLive
  <2> QED BY <1>1, <1>5, <2>1, <2>2
<1>10. TypeOK'
  BY <1>1, <1>4, <1>8 DEF LifecycleInv, TypeOK
<1> QED BY <1>8, <1>9, <1>10 DEF LifecycleInv

(* A purge deletes resolved alerts, which are no rule's unresolved one, and*)
(* leaves the others.                                                      *)
LEMMA PurgeIs ==
  ASSUME TypeOK, OneUnresolvedAlertPerRule, NEW C \in SUBSET claims, NEW A \in SUBSET Alerts,
         Purge(C, A)
  PROVE  /\ alert' \in [Alerts -> Alert]
         /\ \A a \in A : alert[a].status = "RESOLVED" /\ alert'[a] = NoAlert
         /\ \A a \in Alerts \ A : alert'[a] = alert[a]
         /\ \A r \in Rules : Unresolved(r) \cap A = {} /\ Unresolved(r)' = Unresolved(r)
<1>1. alert \in [Alerts -> Alert] /\ NoAlert \in Alert /\ NoAlert.unresolvedRule = None
  BY DEF TypeOK, Alert, NoAlert
<1>2. /\ alert' = [a \in Alerts |-> IF a \in A THEN NoAlert ELSE alert[a]]
      /\ \A a \in A : alert[a].status = "RESOLVED"
  BY DEF Purge
<1> HIDE DEF NoAlert
<1>3. \A a \in A : alert[a].unresolvedRule = None /\ alert'[a].unresolvedRule = None
  BY <1>1, <1>2 DEF OneUnresolvedAlertPerRule
<1>4. \A a \in Alerts \ A : alert'[a] = alert[a]
  BY <1>2
<1>5. \A r \in Rules : r # None
  BY ConstantsAssumption
<1>6. \A r \in Rules : Unresolved(r) \cap A = {} /\ Unresolved(r)' = Unresolved(r)
  BY <1>3, <1>4, <1>5 DEF Unresolved
<1>7. alert' \in [Alerts -> Alert] /\ \A a \in A : alert'[a] = NoAlert
  BY <1>1, <1>2
<1> QED BY <1>2, <1>4, <1>6, <1>7

(* Time and the retention write claims and resolved alerts only.           *)
LEMMA RetentionKeepsInv ==
  ASSUME LifecycleInv, Retention
  PROVE  LifecycleInv'
<1> USE DEF LifecycleInv
<1>1. /\ UNCHANGED <<rule, eval, removed, metadata, lease, batch, pending>>
      /\ claims \in SUBSET Claim /\ origin \in [Rules -> Origin]
  BY DEF Retention, ClaimExpires, Purge, TypeOK
<1>2. FetchedRuleIsLive'
  BY <1>1 DEF FetchedRuleIsLive, Exists, Ready
<1>3. \A r \in Rules : Ready(r)' = Ready(r)
  BY <1>1 DEF Ready
<1>4. ASSUME NEW c \in claims, ClaimExpires(c) PROVE LifecycleInv'
  <2>1. [c EXCEPT !.expired = TRUE] \in Claim
    BY <1>1 DEF Claim
  <2>2. claims' \in SUBSET Claim /\ UNCHANGED <<alert, events>>
    BY <1>1, <1>4, <2>1 DEF ClaimExpires
  <2>3. origin' \in [Rules -> Origin]
    <3>1. \A r \in Rules : [origin[r] EXCEPT !.lapsed = TRUE] \in Origin
      BY <1>1 DEF Origin
    <3> QED BY <1>1, <1>4, <3>1 DEF ClaimExpires
  <2>4. TypeOK'
    BY <1>1, <2>2, <2>3 DEF TypeOK
  <2> QED BY <1>1, <1>2, <1>3, <2>2, <2>4, AlertsStay
<1>5. ASSUME NEW C \in SUBSET claims, NEW A \in SUBSET Alerts, Purge(C, A) PROVE LifecycleInv'
  <2>1. /\ claims' \in SUBSET Claim /\ origin' \in [Rules -> Origin]
        /\ events' \in SUBSET Event
    BY <1>1, <1>5 DEF Purge, TypeOK
  <2>2. TypeOK'
    BY <1>1, <1>5, <2>1, PurgeIs DEF TypeOK
  <2>3. OneUnresolvedAlertPerRule'
    <3>1. NoAlert.status = "NONE" /\ NoAlert.unresolvedRule = None
      BY DEF NoAlert
    <3>2. /\ \A a \in A : alert'[a] = NoAlert
          /\ \A a \in Alerts \ A : alert'[a] = alert[a]
          /\ \A r \in Rules : Unresolved(r)' = Unresolved(r)
      BY <1>5, PurgeIs
    <3>3. \A a \in Alerts : alert'[a].unresolvedRule =
            IF alert'[a].status \in {"OPEN", "ACKNOWLEDGED"} THEN alert'[a].rule ELSE None
      BY <3>1, <3>2 DEF OneUnresolvedAlertPerRule
    <3> QED BY <3>2, <3>3 DEF OneUnresolvedAlertPerRule
  <2>4. UnresolvedAlertIsLive'
    BY <1>1, <1>3, <1>5, PurgeIs DEF UnresolvedAlertIsLive
  <2> QED BY <1>2, <2>2, <2>3, <2>4
<1> QED BY <1>4, <1>5 DEF Retention

(* LifecycleInv is inductive. *)
LEMMA NextLifecycleInv == LifecycleInv /\ [Next]_vars => LifecycleInv'
<1> SUFFICES ASSUME LifecycleInv, [Next]_vars PROVE LifecycleInv'
  OBVIOUS
<1>1. CASE LeaseExpires \/ ProviderChanges \/ UNCHANGED vars
  BY <1>1, SurroundingsKeepInv
<1>2. ASSUME NEW e \in Evaluators, EvaluatorStep(e) PROVE LifecycleInv'
  <2>1. CASE LeaseAcquired(e)
    BY <2>1, SurroundingsKeepInv
  <2>2. CASE LeaveBatch(e)
    BY <2>2, BatchStepsKeepInv
  <2>3. CASE ReadBatch(e)
    BY <2>3, ReadBatchKeepsInv
  <2>4. ASSUME NEW s \in Stations, FetchLatest(e, s) PROVE LifecycleInv'
    BY <2>4, FetchLatestKeepsInv
  <2>5. ASSUME NEW b \in batch[e], BlockForMetadata(e, b) PROVE LifecycleInv'
    BY <2>5, BlockForMetadataKeepsInv
  <2>6. ASSUME NEW b \in batch[e], NEW t \in Samples, NEW v \in Values, EvaluateRule(e, b, t, v)
        PROVE  LifecycleInv'
    BY <2>6, EvaluateRuleKeepsInv
  <2>7. ASSUME NEW b \in batch[e],
               \/ CheckMetadata(e, b) \/ SkipRule(e, b) \/ RecordSafeResult(e, b)
               \/ RecordUpstreamError(e, b) \/ EvaluationFails(e, b)
        PROVE  LifecycleInv'
    BY <2>7, BatchStepsKeepInv
  <2> QED BY <1>2, <2>1, <2>2, <2>3, <2>4, <2>5, <2>6, <2>7 DEF EvaluatorStep
<1>3. ASSUME NEW c \in Clients, ClientStep(c) PROVE LifecycleInv'
  <2>1. CASE GiveUp(c)
    BY <2>1, SurroundingsKeepInv
  <2>2. CASE CommitPatch(c)
    BY <2>2, CommitPatchKeepsInv
  <2>3. ASSUME NEW r \in Rules, CommitCreate(c, r) PROVE LifecycleInv'
    BY <2>3, CommitCreateKeepsInv
  <2>4. CASE ~ GiveUp(c) /\ ~ CommitPatch(c) /\ ~ \E r \in Rules : CommitCreate(c, r)
    BY <1>3, <2>4, RequestsKeepInv DEF ClientStep
  <2> QED BY <2>1, <2>2, <2>3, <2>4
<1>4. ASSUME NEW a \in Alerts, NEW k \in Keys, Acknowledge(a, k) \/ Resolve(a, k)
      PROVE  LifecycleInv'
  BY <1>4, AlertActionsKeepInv
<1>5. ASSUME NEW s \in Sources, RemoveSource(s) PROVE LifecycleInv'
  BY <1>5, RemoveSourceKeepsInv
<1>6. CASE Retention
  BY <1>6, RetentionKeepsInv
<1> QED BY <1>1, <1>2, <1>3, <1>4, <1>5, <1>6 DEF Next

-----------------------------------------------------------------------------
(* The theorems *)

(* LifecycleInv holds in every state of the specification. *)
LEMMA LifecycleInvHolds == Spec => []LifecycleInv
  BY InitLifecycleInv, NextLifecycleInv, PTL DEF Spec

(* Every row of the alert tables stays well-typed. *)
THEOREM LifecycleTypeCorrect == Spec => []TypeOK
<1>1. LifecycleInv => TypeOK
  BY DEF LifecycleInv
<1> QED BY <1>1, LifecycleInvHolds, PTL

(* No interleaving of evaluations, requests and removals opens a second    *)
(* unresolved alert for a rule, or leaves a resolved one naming its rule.  *)
THEOREM UnresolvedAlertIsUnique == Spec => []OneUnresolvedAlertPerRule
<1>1. LifecycleInv => OneUnresolvedAlertPerRule
  BY DEF LifecycleInv
<1> QED BY <1>1, LifecycleInvHolds, PTL

(* No interleaving leaves an alert unresolved whose rule is disabled,      *)
(* blocked or of a removed source.                                         *)
THEOREM UnresolvedAlertStaysLive == Spec => []UnresolvedAlertIsLive
<1>1. LifecycleInv => UnresolvedAlertIsLive
  BY DEF LifecycleInv
<1> QED BY <1>1, LifecycleInvHolds, PTL

(* A step leaves every resolved alert as it is: evaluations and removals   *)
(* look alerts up by their unresolvedRuleId, actions by their status.  The *)
(* retention does too, or deletes the alert with its events.               *)
LEMMA RetentionKeepsResolved ==
  ASSUME LifecycleInv, Retention, NEW a \in Alerts
  PROVE  \/ alert'[a] = alert[a]
         \/ alert'[a] = NoAlert /\ \A ev \in events' : ev.alert # a
<1>1. ASSUME NEW c \in claims, ClaimExpires(c) PROVE alert'[a] = alert[a]
  BY <1>1 DEF ClaimExpires
<1>2. ASSUME NEW C \in SUBSET claims, NEW A \in SUBSET Alerts, Purge(C, A)
      PROVE  \/ alert'[a] = alert[a]
             \/ alert'[a] = NoAlert /\ \A ev \in events' : ev.alert # a
  BY <1>2 DEF Purge
<1> QED BY <1>1, <1>2 DEF Retention

LEMMA StepKeepsResolved ==
  ASSUME LifecycleInv, [Next]_vars, ~ Retention, NEW a \in Alerts, alert[a].status = "RESOLVED"
  PROVE  alert'[a] = alert[a]
<1>1. /\ alert[a].unresolvedRule = None /\ alert \in [Alerts -> Alert]
      /\ \A r \in Rules : a \notin Unresolved(r)
  BY ConstantsAssumption DEF LifecycleInv, TypeOK, OneUnresolvedAlertPerRule, Unresolved
<1>2. ASSUME NEW A \in SUBSET Alerts, NEW reason \in Reasons, ResolveAll(A, reason), a \notin A
      PROVE  alert'[a] = alert[a]
  BY <1>2, ResolveAllIs DEF LifecycleInv
<1>3. ASSUME NEW c \in Alerts, NEW row, NEW type, Transition(c, row, type), a # c
      PROVE  alert'[a] = alert[a]
  BY <1>1, <1>3 DEF Transition
<1>4. ASSUME NEW e \in Evaluators, EvaluatorStep(e) PROVE alert'[a] = alert[a]
  <2>1. ASSUME NEW b \in batch[e], BlockForMetadata(e, b) PROVE alert'[a] = alert[a]
    <3>1. Unresolved(b.rule) \in SUBSET Alerts /\ b.rule \in Rules
      BY DEF Unresolved, LifecycleInv, TypeOK, Binding
    <3> QED BY <1>1, <1>2, <2>1, <3>1 DEF BlockForMetadata, Reasons
  <2>2. ASSUME NEW b \in batch[e], NEW t \in Samples, NEW v \in Values, EvaluateRule(e, b, t, v)
        PROVE  alert'[a] = alert[a]
    <3> DEFINE r == b.rule
    <3>1. r \in Rules
      BY DEF LifecycleInv, TypeOK, Binding
    <3>2. ASSUME NEW c \in Alerts, alert[c].status = "NONE",
                 Transition(c, NewAlert(r, t), "OPENED")
          PROVE  alert'[a] = alert[a]
      BY <1>3, <3>2
    <3>3. ASSUME NEW c \in Unresolved(r),
                 Transition(c, [ResolvedRow(alert[c], "RECOVERED")
                                  EXCEPT !.latestObservedAt = t], "RESOLVED")
          PROVE  alert'[a] = alert[a]
      <4>1. c \in Alerts /\ a # c
        BY <1>1, <3>1 DEF Unresolved
      <4> QED BY <1>3, <3>3, <4>1
    <3>4. ASSUME alert' = [c \in Alerts |->
                             IF c \in Unresolved(r)
                             THEN [alert[c] EXCEPT !.latestObservedAt = t] ELSE alert[c]]
          PROVE  alert'[a] = alert[a]
      BY <1>1, <3>1, <3>4
    <3>5. CASE UNCHANGED alert
      BY <3>5
    <3> QED BY <2>2, <3>2, <3>3, <3>4, <3>5 DEF EvaluateRule
  <2> QED BY <1>4, <2>1, <2>2
          DEF EvaluatorStep, LeaseAcquired, ReadBatch, LeaveBatch, FetchLatest, CheckMetadata,
              SkipRule, RecordSafeResult, RecordUpstreamError, EvaluationFails
<1>5. ASSUME NEW c \in Clients, ClientStep(c) PROVE alert'[a] = alert[a]
  <2>1. CASE CommitPatch(c)
    <3> DEFINE p == pending[c]
               A == IF ~ p.enabled /\ rule[p.rule].enabled THEN Unresolved(p.rule) ELSE {}
    <3>1. ResolveAll(A, "RULE_DISABLED") /\ p.rule \in Rules
      BY <2>1 DEF CommitPatch, LifecycleInv, TypeOK, CreateRequest, PatchRequest
    <3>2. A \in SUBSET Alerts /\ a \notin A
      BY <1>1, <3>1 DEF Unresolved
    <3> HIDE DEF A
    <3> QED BY <1>2, <3>1, <3>2 DEF Reasons
  <2> QED BY <1>5, <2>1 DEF ClientStep, StartCreate, CommitCreate, StartPatch, GiveUp
<1>6. ASSUME NEW c \in Alerts, NEW k \in Keys, Acknowledge(c, k) \/ Resolve(c, k)
      PROVE  alert'[a] = alert[a]
  <2>1. CASE Acknowledge(c, k)
    BY <1>3, <2>1 DEF Acknowledge
  <2>2. CASE Resolve(c, k)
    BY <1>3, <2>2 DEF Resolve
  <2> QED BY <1>6, <2>1, <2>2
<1>7. ASSUME NEW s \in Sources, RemoveSource(s) PROVE alert'[a] = alert[a]
  BY <1>1, <1>2, <1>7 DEF RemoveSource, Reasons
<1> QED BY <1>4, <1>5, <1>6, <1>7 DEF Next, vars, LeaseExpires, ProviderChanges

(* No later evaluation, request or removal changes an alert once it is     *)
(* resolved; the retention deletes it with the whole of its log.           *)
THEOREM ResolvedStaysFinal == Spec => ResolvedIsFinal
<1>1. LifecycleInv /\ [Next]_vars =>
        [\A a \in Alerts : alert[a].status = "RESOLVED" =>
           \/ alert'[a] = alert[a]
           \/ alert'[a] = NoAlert /\ \A ev \in events' : ev.alert # a]_vars
  BY StepKeepsResolved, RetentionKeepsResolved
<1> QED BY <1>1, LifecycleInvHolds, PTL DEF Spec, ResolvedIsFinal

(* Four actions write the rules. *)
LEMMA RuleWriters ==
  ASSUME [Next]_vars
  PROVE  \/ UNCHANGED rule
         \/ \E e \in Evaluators : \E b \in batch[e] : BlockForMetadata(e, b)
         \/ \E c \in Clients, r \in Rules : CommitCreate(c, r)
         \/ \E c \in Clients : CommitPatch(c)
         \/ \E s \in Sources : RemoveSource(s)
<1>1. ASSUME NEW e \in Evaluators, EvaluatorStep(e)
      PROVE  UNCHANGED rule \/ \E b \in batch[e] : BlockForMetadata(e, b)
  <2>1. ASSUME NEW b \in batch[e], \E t \in Samples, v \in Values : EvaluateRule(e, b, t, v)
        PROVE  UNCHANGED rule
    BY <2>1 DEF EvaluateRule
  <2> QED BY <1>1, <2>1
          DEF EvaluatorStep, LeaseAcquired, ReadBatch, LeaveBatch, FetchLatest, CheckMetadata,
              SkipRule, RecordSafeResult, RecordUpstreamError, EvaluationFails
<1>2. ASSUME NEW c \in Clients, ClientStep(c)
      PROVE  UNCHANGED rule \/ CommitPatch(c) \/ \E r \in Rules : CommitCreate(c, r)
  BY <1>2 DEF ClientStep, StartCreate, StartPatch, GiveUp
<1>3. CASE LeaseExpires \/ ProviderChanges \/ UNCHANGED vars
  BY <1>3 DEF LeaseExpires, ProviderChanges, vars
<1>4. CASE \E a \in Alerts, k \in Keys : Acknowledge(a, k) \/ Resolve(a, k)
  BY <1>4 DEF Acknowledge, Resolve
<1>5. CASE Retention
  BY <1>5 DEF Retention, ClaimExpires, Purge
<1> QED BY <1>1, <1>2, <1>3, <1>4, <1>5 DEF Next

(* Blocking a rule changes its status and revision only. *)
LEMMA BlockForMetadataIs ==
  ASSUME TypeOK, NEW e \in Evaluators, NEW b \in batch[e], BlockForMetadata(e, b)
  PROVE  \A q \in Rules : /\ rule'[q].enabled = rule[q].enabled
                          /\ rule'[q].activeKey = rule[q].activeKey
                          /\ rule'[q].cond = rule[q].cond
                          /\ rule'[q].meta = rule[q].meta
<1>1. rule \in [Rules -> Rule] /\ b.rule \in Rules
  BY DEF TypeOK, Binding
<1> DEFINE row == [rule[b.rule] EXCEPT !.status = "BLOCKED_METADATA",
                                       !.revision = rule[b.rule].revision + 1]
<1>2. UNCHANGED rule \/ rule' = [rule EXCEPT ![b.rule] = row]
  BY Zenon DEF BlockForMetadata
<1>3. /\ row.enabled = rule[b.rule].enabled /\ row.activeKey = rule[b.rule].activeKey
      /\ row.cond = rule[b.rule].cond /\ row.meta = rule[b.rule].meta
  BY <1>1 DEF Rule
<1> HIDE DEF row
<1> QED BY <1>1, <1>2, <1>3

(* Only a create, of a rule that was not there, and a patch write the      *)
(* condition and the binding of a rule.                                    *)
LEMMA StepKeepsCondition ==
  ASSUME LifecycleInv, [Next]_vars, NEW r \in Rules, Unresolved(r) # {}
  PROVE  rule'[r].cond = rule[r].cond /\ rule'[r].meta = rule[r].meta
<1>1. rule \in [Rules -> Rule] /\ Exists(r)
  BY DEF LifecycleInv, TypeOK, UnresolvedAlertIsLive, Ready, Exists
<1>2. CASE UNCHANGED rule
  BY <1>2
<1>3. ASSUME NEW e \in Evaluators, NEW b \in batch[e], BlockForMetadata(e, b)
      PROVE  rule'[r].cond = rule[r].cond /\ rule'[r].meta = rule[r].meta
  BY <1>3, BlockForMetadataIs DEF LifecycleInv
<1>4. ASSUME NEW c \in Clients, NEW q \in Rules, CommitCreate(c, q)
      PROVE  rule'[r].cond = rule[r].cond /\ rule'[r].meta = rule[r].meta
  <2>1. q # r
    BY <1>1, <1>4 DEF CommitCreate
  <2> QED BY <1>1, <1>4, <2>1 DEF CommitCreate
<1>5. ASSUME NEW c \in Clients, CommitPatch(c)
      PROVE  rule'[r].cond = rule[r].cond /\ rule'[r].meta = rule[r].meta
  <2> DEFINE p == pending[c]
  <2>1. CASE p.rule = r
    <3>1. p.cond = None /\ p.meta = None
      BY <1>5, <2>1 DEF CommitPatch, Patchable
    <3> QED BY <1>1, <1>5, <2>1, <3>1 DEF CommitPatch
  <2>2. CASE p.rule # r
    BY <1>1, <1>5, <2>2 DEF CommitPatch
  <2> QED BY <2>1, <2>2
<1>6. ASSUME NEW s \in Sources, RemoveSource(s)
      PROVE  rule'[r].cond = rule[r].cond /\ rule'[r].meta = rule[r].meta
  BY <1>1, <1>6 DEF RemoveSource, Rule
<1> QED BY <1>2, <1>3, <1>4, <1>5, <1>6, RuleWriters

(* What an alert was opened for cannot change while it is unresolved, also *)
(* when it opens between the checks of a PATCH and its transaction.        *)
THEOREM ConditionStaysFrozen == Spec => ConditionIsFrozenWhileUnresolved
<1>1. LifecycleInv /\ [Next]_vars =>
        [\A r \in Rules : Unresolved(r) # {} =>
           rule'[r].cond = rule[r].cond /\ rule'[r].meta = rule[r].meta]_vars
  BY StepKeepsCondition
<1> QED BY <1>1, LifecycleInvHolds, PTL DEF Spec, ConditionIsFrozenWhileUnresolved

-----------------------------------------------------------------------------
(* The active key of a slot *)

(* OneActiveRulePerSlot is inductive together with the types. *)
LEMMA StepKeepsActiveKey ==
  ASSUME TypeOK, OneActiveRulePerSlot, [Next]_vars
  PROVE  OneActiveRulePerSlot'
<1>1. rule \in [Rules -> Rule] /\ SlotOf \in [Rules -> Slots] /\ None \notin Slots
  BY ConstantsAssumption DEF TypeOK
<1>2. CASE UNCHANGED rule
  BY <1>2 DEF OneActiveRulePerSlot
<1>3. ASSUME \A q \in Rules : \/ rule'[q].enabled = rule[q].enabled
                                 /\ rule'[q].activeKey = rule[q].activeKey
                              \/ ~ rule'[q].enabled /\ rule'[q].activeKey = None
      PROVE  OneActiveRulePerSlot'
  BY <1>3 DEF OneActiveRulePerSlot
<1>4. ASSUME NEW r \in Rules, NEW row \in Rule, rule' = [rule EXCEPT ![r] = row],
             row.activeKey = ActiveKey(SlotOf[r], row.enabled),
             row.enabled => ~ KeyTaken(r, SlotOf[r])
      PROVE  OneActiveRulePerSlot'
  <2>1. rule'[r] = row /\ \A q \in Rules \ {r} : rule'[q] = rule[q]
    BY <1>1, <1>4
  <2>2. row.enabled => \A q \in Rules \ {r} : rule[q].enabled => SlotOf[q] # SlotOf[r]
    BY <1>4 DEF KeyTaken, OneActiveRulePerSlot
  <2> QED BY <1>4, <2>1, <2>2 DEF OneActiveRulePerSlot, ActiveKey
<1>5. ASSUME NEW e \in Evaluators, NEW b \in batch[e], BlockForMetadata(e, b)
      PROVE  OneActiveRulePerSlot'
  BY <1>3, <1>5, BlockForMetadataIs
<1>6. ASSUME NEW c \in Clients, NEW r \in Rules, CommitCreate(c, r)
      PROVE  OneActiveRulePerSlot'
  <2> DEFINE p == pending[c]
             row == [status |-> IF p.enabled THEN "READY" ELSE "DISABLED", enabled |-> p.enabled,
                     revision |-> 1, cond |-> p.cond, meta |-> p.meta,
                     activeKey |-> ActiveKey(p.slot, p.enabled)]
  <2>1. /\ p \in CreateRequest /\ SlotOf[r] = p.slot /\ (p.enabled => ~ KeyTaken(r, p.slot))
        /\ rule' = [rule EXCEPT ![r] = row]
    BY <1>6 DEF CommitCreate, TypeOK, PatchRequest
  <2>2. row \in Rule
    BY <2>1 DEF CreateRequest, Rule, ActiveKey
  <2>3. row.activeKey = ActiveKey(SlotOf[r], row.enabled) /\ row.enabled = p.enabled
    BY <2>1
  <2> HIDE DEF row
  <2> QED BY <1>4, <1>6, <2>1, <2>2, <2>3 DEF CommitCreate
<1>7. ASSUME NEW c \in Clients, CommitPatch(c) PROVE OneActiveRulePerSlot'
  <2> DEFINE p == pending[c]
             r == p.rule
             row == [status |-> IF p.enabled THEN "READY" ELSE "DISABLED", enabled |-> p.enabled,
                     revision |-> rule[r].revision + 1,
                     cond |-> IF p.cond = None THEN rule[r].cond ELSE p.cond,
                     meta |-> IF p.meta = None THEN rule[r].meta ELSE p.meta,
                     activeKey |-> ActiveKey(SlotOf[r], p.enabled)]
  <2>1. p \in PatchRequest /\ (p.enabled => ~ KeyTaken(r, SlotOf[r]))
    BY <1>7 DEF CommitPatch, Patchable, TypeOK, CreateRequest, PatchRequest
  <2>2. rule' = [rule EXCEPT ![r] = row]
    BY <1>7 DEF CommitPatch
  <2>3. row.activeKey = ActiveKey(SlotOf[r], row.enabled) /\ row.enabled = p.enabled
    OBVIOUS
  <2>4. r \in Rules /\ row \in Rule
    <3>1. r \in Rules /\ rule[r] \in Rule /\ SlotOf[r] \in Slots
      BY <1>1, <2>1 DEF PatchRequest
    <3>2. /\ (IF p.cond = None THEN rule[r].cond ELSE p.cond) \in Conditions \cup {None}
          /\ (IF p.meta = None THEN rule[r].meta ELSE p.meta) \in Metas \cup {None}
          /\ rule[r].revision + 1 \in Nat /\ p.enabled \in BOOLEAN
          /\ ActiveKey(SlotOf[r], p.enabled) \in Slots \cup {None}
      BY <2>1, <3>1 DEF PatchRequest, Rule, ActiveKey
    <3> QED BY <3>1, <3>2 DEF Rule
  <2> HIDE DEF row
  <2> QED BY <1>4, <2>1, <2>2, <2>3, <2>4
<1>8. ASSUME NEW s \in Sources, RemoveSource(s) PROVE OneActiveRulePerSlot'
  <2> DEFINE Off(r) == [rule[r] EXCEPT !.enabled = FALSE, !.status = "DISABLED", !.activeKey = None]
  <2>1. rule' = [r \in Rules |-> IF Exists(r) /\ Source(r) = s THEN Off(r) ELSE rule[r]]
    BY <1>8 DEF RemoveSource
  <2>2. \A r \in Rules : Off(r).enabled = FALSE /\ Off(r).activeKey = None
    BY <1>1 DEF Rule
  <2> HIDE DEF Off
  <2>3. \A q \in Rules : \/ rule'[q] = rule[q]
                         \/ ~ rule'[q].enabled /\ rule'[q].activeKey = None
    BY <2>1, <2>2
  <2> QED BY <1>3, <2>3
<1> QED BY <1>2, <1>5, <1>6, <1>7, <1>8, RuleWriters

(* Two rules of a station and field are never enabled together, however    *)
(* many requests create and enable them at once.                           *)
THEOREM ActiveKeyIsUnique == Spec => []OneActiveRulePerSlot
<1>1. Init => OneActiveRulePerSlot
  BY DEF Init, OneActiveRulePerSlot
<1>2. TypeOK /\ OneActiveRulePerSlot /\ [Next]_vars => OneActiveRulePerSlot'
  BY StepKeepsActiveKey
<1> QED BY <1>1, <1>2, LifecycleTypeCorrect, PTL DEF Spec

-----------------------------------------------------------------------------
(* One rule per key                                                        *)

Creates == {c \in claims : c.op = "RULE_CREATE"}

(* A patch under way is of a rule that exists: rules are never deleted.    *)
PatchedRuleExists ==
    \A c \in Clients : pending[c] # None /\ pending[c].op = "patch" => Exists(pending[c].rule)

(* A claim that is expired was seen to expire by the rule it made, which is*)
(* why a purge takes no claim from a rule that is within its retention.    *)
ExpiredHasLapsed == \A c \in Creates : c.expired => origin[c.response].lapsed

CreatesInv == OneRulePerCreateKey /\ ExpiredHasLapsed /\ PatchedRuleExists

(* Only a create makes a rule exist, and none makes one go.                *)
LEMMA ExistenceWriters ==
  ASSUME LifecycleInv, PatchedRuleExists, [Next]_vars
  PROVE  \/ \A r \in Rules : Exists(r)' = Exists(r)
         \/ \E c \in Clients, r \in Rules : CommitCreate(c, r)
<1>1. rule \in [Rules -> Rule] BY DEF LifecycleInv, TypeOK
<1>2. CASE UNCHANGED rule BY <1>2 DEF Exists
<1>3. ASSUME NEW e \in Evaluators, NEW b \in batch[e], BlockForMetadata(e, b)
      PROVE  \A r \in Rules : Exists(r)' = Exists(r)
  <2>1. b.rule \in Rules /\ Exists(b.rule)
    BY DEF LifecycleInv, TypeOK, Binding, FetchedRuleIsLive
  <2>2. UNCHANGED rule \/ \A r \in Rules \ {b.rule} : rule'[r] = rule[r]
    BY <1>1, <1>3 DEF BlockForMetadata
  <2> DEFINE row == [rule[b.rule] EXCEPT !.status = "BLOCKED_METADATA",
                                         !.revision = rule[b.rule].revision + 1]
  <2>3. UNCHANGED rule \/ rule' = [rule EXCEPT ![b.rule] = row]
    BY Zenon, <1>3 DEF BlockForMetadata
  <2>4. row.status = "BLOCKED_METADATA"
    BY <1>1, <2>1 DEF Rule
  <2> HIDE DEF row
  <2> QED BY <1>1, <2>1, <2>2, <2>3, <2>4 DEF Exists
<1>4. ASSUME NEW c \in Clients, CommitPatch(c) PROVE \A r \in Rules : Exists(r)' = Exists(r)
  <2>1. pending[c].rule \in Rules /\ Exists(pending[c].rule)
    BY <1>4 DEF CommitPatch, PatchedRuleExists, LifecycleInv, TypeOK, CreateRequest, PatchRequest
  <2>2. /\ \A r \in Rules \ {pending[c].rule} : rule'[r] = rule[r]
        /\ rule'[pending[c].rule].status \in {"READY", "DISABLED"}
    BY <1>1, <1>4, <2>1 DEF CommitPatch
  <2> QED BY <2>1, <2>2 DEF Exists
<1>5. ASSUME NEW s \in Sources, RemoveSource(s) PROVE \A r \in Rules : Exists(r)' = Exists(r)
  BY <1>1, <1>5 DEF RemoveSource, Exists, Rule
<1> QED BY <1>2, <1>3, <1>4, <1>5, RuleWriters

(* Only a create writes a claim that is answered with a rule, and only time*)
(* and the retention change or delete one.                                 *)
LEMMA CreatesWriters ==
  ASSUME [Next]_vars
  PROVE  \/ Creates' = Creates /\ UNCHANGED origin
         \/ \E c \in Clients, r \in Rules : CommitCreate(c, r)
         \/ Retention
<1>1. CASE UNCHANGED <<claims, origin>> BY <1>1 DEF Creates
<1>2. ASSUME NEW e \in Evaluators, EvaluatorStep(e) PROVE UNCHANGED <<claims, origin>>
  <2>1. ASSUME NEW b \in batch[e], \E t \in Samples, v \in Values : EvaluateRule(e, b, t, v)
        PROVE  UNCHANGED <<claims, origin>>
    BY <2>1 DEF EvaluateRule
  <2>2. ASSUME NEW b \in batch[e], BlockForMetadata(e, b) PROVE UNCHANGED <<claims, origin>>
    BY <2>2 DEF BlockForMetadata
  <2> QED BY <1>2, <2>1, <2>2
          DEF EvaluatorStep, LeaseAcquired, ReadBatch, LeaveBatch, FetchLatest, CheckMetadata,
              SkipRule, RecordSafeResult, RecordUpstreamError, EvaluationFails
<1>3. ASSUME NEW c \in Clients, ClientStep(c)
      PROVE  UNCHANGED <<claims, origin>> \/ \E r \in Rules : CommitCreate(c, r)
  BY <1>3 DEF ClientStep, StartCreate, StartPatch, CommitPatch, GiveUp
<1>4. ASSUME NEW a \in Alerts, NEW k \in Keys, Acknowledge(a, k) \/ Resolve(a, k)
      PROVE  Creates' = Creates /\ UNCHANGED origin
  BY <1>4 DEF Acknowledge, Resolve, ActionClaim, Creates
<1>5. CASE LeaseExpires \/ ProviderChanges \/ UNCHANGED vars
  BY <1>1, <1>5 DEF LeaseExpires, ProviderChanges, vars
<1>6. ASSUME NEW s \in Sources, RemoveSource(s) PROVE UNCHANGED <<claims, origin>>
  BY <1>6 DEF RemoveSource
<1> QED BY <1>1, <1>2, <1>3, <1>4, <1>5, <1>6 DEF Next

(* A patch begins on a rule that exists.                                   *)
LEMMA PatchesStart ==
  ASSUME TypeOK, [Next]_vars, NEW c \in Clients, pending'[c] # None, pending'[c].op = "patch"
  PROVE  pending'[c] = pending[c] \/ Exists(pending'[c].rule)
<1>1. pending \in [Clients -> CreateRequest \cup PatchRequest \cup {None}] BY DEF TypeOK
<1>2. CASE UNCHANGED pending BY <1>2
<1>3. ASSUME NEW d \in Clients, ClientStep(d)
      PROVE  pending'[c] = pending[c] \/ Exists(pending'[c].rule)
  BY <1>1, <1>3 DEF ClientStep, StartCreate, CommitCreate, StartPatch, CommitPatch, GiveUp
<1>4. ASSUME NEW e \in Evaluators, EvaluatorStep(e) PROVE UNCHANGED pending
  <2>1. ASSUME NEW b \in batch[e], \E t \in Samples, v \in Values : EvaluateRule(e, b, t, v)
        PROVE  UNCHANGED pending
    BY <2>1 DEF EvaluateRule
  <2>2. ASSUME NEW b \in batch[e], BlockForMetadata(e, b) PROVE UNCHANGED pending
    BY <2>2 DEF BlockForMetadata
  <2> QED BY <1>4, <2>1, <2>2
          DEF EvaluatorStep, LeaseAcquired, ReadBatch, LeaveBatch, FetchLatest, CheckMetadata,
              SkipRule, RecordSafeResult, RecordUpstreamError, EvaluationFails
<1>5. CASE LeaseExpires \/ ProviderChanges \/ UNCHANGED vars
  BY <1>2, <1>5 DEF LeaseExpires, ProviderChanges, vars
<1>6. CASE \/ \E a \in Alerts, k \in Keys : Acknowledge(a, k) \/ Resolve(a, k)
           \/ \E s \in Sources : RemoveSource(s)
           \/ Retention
  BY <1>2, <1>6 DEF Acknowledge, Resolve, RemoveSource, Retention, ClaimExpires, Purge
<1> QED BY <1>2, <1>3, <1>4, <1>5, <1>6 DEF Next

(* The claim of a create is new, and so is the rule it answers with.       *)
LEMMA CreateKeepsCreates ==
  ASSUME LifecycleInv, CreatesInv, NEW c \in Clients, NEW r \in Rules, CommitCreate(c, r)
  PROVE  CreatesInv'
<1>1. /\ rule \in [Rules -> Rule] /\ origin \in [Rules -> Origin]
      /\ pending \in [Clients -> CreateRequest \cup PatchRequest \cup {None}]
  BY DEF LifecycleInv, TypeOK
<1> DEFINE new == [op |-> "RULE_CREATE", key |-> pending[c].key, response |-> r,
                   expired |-> FALSE]
<1>2. Creates' = Creates \cup {new}
  BY DEF CommitCreate, Creates
<1>3. /\ ~Exists(r) /\ Exists(r)' /\ \A q \in Rules \ {r} : Exists(q)' = Exists(q)
      /\ \A d \in Creates : d.key # new.key
  BY <1>1 DEF CommitCreate, Exists, Claimed, Creates
<1>4. /\ origin'[r].key = new.key /\ ~ origin'[r].lapsed
      /\ \A q \in Rules \ {r} : origin'[q] = origin[q]
  BY <1>1 DEF CommitCreate
<1>5. /\ \A q \in Rules : Exists(q) /\ ~ origin[q].lapsed =>
           \E d \in Creates : d.key = origin[q].key /\ d.response = q
      /\ \A d \in Creates : d.response # None /\ Exists(d.response)
                            /\ origin[d.response].key = d.key
      /\ \A d, f \in Creates : d.key = f.key \/ d.response = f.response => d = f
      /\ \A d \in Creates : d.expired => origin[d.response].lapsed
  BY DEF CreatesInv, OneRulePerCreateKey, ExpiredHasLapsed, Creates
<1>6. \A d \in Creates : d.response \in Rules \ {r}
  <2>1. \A d \in Creates : d.response \in Rules \cup {None}
    BY DEF LifecycleInv, TypeOK, Creates, Claim
  <2> QED BY <1>3, <1>5, <2>1
<1>7. new.response = r /\ ~ new.expired OBVIOUS
<1>8. r # None BY ConstantsAssumption
<1> HIDE DEF new
<1>9. OneRulePerCreateKey'
  <2>1. \A q \in Rules : Exists(q)' /\ ~ origin'[q].lapsed =>
          \E d \in Creates \cup {new} : d.key = origin'[q].key /\ d.response = q
    BY <1>3, <1>4, <1>5, <1>7
  <2>2. \A d \in Creates \cup {new} : d.response # None /\ Exists(d.response)'
                                      /\ origin'[d.response].key = d.key
    BY <1>3, <1>4, <1>5, <1>6, <1>7, <1>8
  <2>3. \A d, f \in Creates \cup {new} : d.key = f.key \/ d.response = f.response => d = f
    BY <1>3, <1>5, <1>6, <1>7
  <2>4. /\ \A q \in Rules : Exists(q)' /\ ~ origin'[q].lapsed =>
             \E d \in Creates' : d.key = origin'[q].key /\ d.response = q
        /\ \A d \in Creates' : d.response # None /\ Exists(d.response)'
                               /\ origin'[d.response].key = d.key
        /\ \A d, f \in Creates' : d.key = f.key \/ d.response = f.response => d = f
    BY <1>2, <2>1, <2>2, <2>3
  <2> QED BY <2>4 DEF OneRulePerCreateKey, Creates, Exists
<1>10. ExpiredHasLapsed'
  BY <1>2, <1>4, <1>5, <1>6, <1>7 DEF ExpiredHasLapsed
<1>11. PatchedRuleExists'
  <2>1. \A d \in Clients : pending'[d] \in {pending[d], None}
    BY <1>1 DEF CommitCreate
  <2>2. \A d \in Clients :
          pending[d] # None /\ pending[d].op = "patch" => pending[d].rule \in Rules
    BY <1>1 DEF CreateRequest, PatchRequest
  <2> QED BY <1>3, <2>1, <2>2 DEF CreatesInv, PatchedRuleExists
<1> QED BY <1>9, <1>10, <1>11 DEF CreatesInv

(* A claim that expires still answers; a purge takes only claims whose     *)
(* rules have seen them expire.                                            *)
LEMMA RetentionKeepsCreates ==
  ASSUME LifecycleInv, CreatesInv, Retention
  PROVE  OneRulePerCreateKey' /\ ExpiredHasLapsed'
<1>1. /\ origin \in [Rules -> Origin]
      /\ \A d \in Creates : d \in Claim /\ d.response \in Rules \cup {None}
  BY DEF LifecycleInv, TypeOK, Creates, Claim
<1>2. /\ \A q \in Rules : Exists(q) /\ ~ origin[q].lapsed =>
           \E d \in Creates : d.key = origin[q].key /\ d.response = q
      /\ \A d \in Creates : d.response # None /\ Exists(d.response)
                            /\ origin[d.response].key = d.key
      /\ \A d, f \in Creates : d.key = f.key \/ d.response = f.response => d = f
      /\ \A d \in Creates : d.expired => origin[d.response].lapsed
  BY DEF CreatesInv, OneRulePerCreateKey, ExpiredHasLapsed, Creates
<1>3. \A q : Exists(q)' = Exists(q)
  BY DEF Retention, ClaimExpires, Purge, Exists
<1> DEFINE Kept == /\ \A q \in Rules : Exists(q) /\ ~ origin'[q].lapsed =>
                        \E d \in Creates' : d.key = origin'[q].key /\ d.response = q
                   /\ \A d \in Creates' : d.response # None /\ Exists(d.response)
                                          /\ origin'[d.response].key = d.key
                   /\ \A d, f \in Creates' : d.key = f.key \/ d.response = f.response => d = f
                   /\ \A d \in Creates' : d.expired => origin'[d.response].lapsed
<1>4. ASSUME NEW c \in claims, ClaimExpires(c) PROVE Kept
  <2> DEFINE old == [c EXCEPT !.expired = TRUE]
  <2>1. /\ c \in Claim /\ old.op = c.op /\ old.key = c.key
        /\ old.response = c.response /\ old.expired = TRUE
    BY DEF LifecycleInv, TypeOK, Claim
  <2>2. claims' = (claims \ {c}) \cup {old} BY <1>4 DEF ClaimExpires
  <2> HIDE DEF old
  <2>3. \A q \in Rules : /\ origin'[q].key = origin[q].key
                         /\ q # c.response => origin'[q] = origin[q]
                         /\ q = c.response => origin'[q].lapsed
                         /\ origin[q].lapsed => origin'[q].lapsed
    BY <1>1, <1>4 DEF ClaimExpires, Origin
  <2>4. CASE c \notin Creates
    <3>1. Creates' = Creates BY <2>1, <2>2, <2>4 DEF Creates
    <3> QED BY <1>1, <1>2, <2>3, <3>1
  <2>5. CASE c \in Creates
    <3>1. Creates' = (Creates \ {c}) \cup {old} BY <2>1, <2>2, <2>5 DEF Creates
    <3>2. \A q \in Rules : Exists(q) /\ ~ origin'[q].lapsed =>
            \E d \in Creates' : d.key = origin'[q].key /\ d.response = q
      BY <1>2, <2>3, <3>1
    <3>3. \A d \in Creates' : d.response # None /\ Exists(d.response)
                              /\ origin'[d.response].key = d.key
      BY <1>1, <1>2, <2>1, <2>3, <2>5, <3>1
    <3>4. \A d, f \in Creates' : d.key = f.key \/ d.response = f.response => d = f
      BY <1>2, <2>1, <2>5, <3>1
    <3>5. \A d \in Creates' : d.expired => origin'[d.response].lapsed
      BY <1>1, <1>2, <2>1, <2>3, <2>5, <3>1
    <3> QED BY <3>2, <3>3, <3>4, <3>5
  <2> QED BY <2>4, <2>5
<1>5. ASSUME NEW C \in SUBSET claims, NEW A \in SUBSET Alerts, Purge(C, A) PROVE Kept
  <2>1. /\ UNCHANGED origin /\ Creates' \subseteq Creates
        /\ \A d \in Creates : ~ d.expired => d \in Creates'
    BY <1>5 DEF Purge, Creates, ExpiredClaims
  <2> QED BY <1>2, <2>1
<1>6. Kept BY <1>4, <1>5 DEF Retention
<1> QED BY <1>3, <1>6 DEF OneRulePerCreateKey, ExpiredHasLapsed, Creates

LEMMA CreatesKept == ASSUME LifecycleInv, CreatesInv, [Next]_vars PROVE CreatesInv'
<1>1. CASE \E c \in Clients, r \in Rules : CommitCreate(c, r)
  BY <1>1, CreateKeepsCreates
<1>2. CASE ~\E c \in Clients, r \in Rules : CommitCreate(c, r)
  <2>1. \A r \in Rules : Exists(r)' = Exists(r)
    BY <1>2, ExistenceWriters DEF CreatesInv
  <2>2. OneRulePerCreateKey' /\ ExpiredHasLapsed'
    <3>1. CASE Retention
      BY <3>1, RetentionKeepsCreates
    <3>2. CASE Creates' = Creates /\ UNCHANGED origin
      <4>1. \A d \in Creates : d.response # None => d.response \in Rules
        BY DEF LifecycleInv, TypeOK, Creates, Claim
      <4> QED BY <2>1, <3>2, <4>1 DEF CreatesInv, OneRulePerCreateKey, ExpiredHasLapsed, Creates
    <3> QED BY <1>2, <3>1, <3>2, CreatesWriters
  <2>3. ASSUME NEW c \in Clients, pending'[c] # None, pending'[c].op = "patch"
        PROVE  pending'[c].rule \in Rules /\ Exists(pending'[c].rule)
    <3>1. pending'[c] \in CreateRequest \cup PatchRequest \cup {None}
      BY NextLifecycleInv DEF LifecycleInv, TypeOK
    <3>2. pending'[c].rule \in Rules
      BY <2>3, <3>1 DEF CreateRequest, PatchRequest
    <3> QED BY <2>3, <3>2, PatchesStart DEF LifecycleInv, CreatesInv, PatchedRuleExists
  <2>4. PatchedRuleExists'
    BY <2>1, <2>3 DEF PatchedRuleExists
  <2> QED BY <2>2, <2>4 DEF CreatesInv
<1> QED BY <1>1, <1>2

(* However requests with one key overlap, and are repeated, and whatever   *)
(* the retention deletes: a rule whose claim is within its retention has   *)
(* the claim that answers for it, and its key makes no other rule.         *)
THEOREM CreateKeyMakesOneRule == Spec => []OneRulePerCreateKey
<1>1. Init => CreatesInv
  BY DEF Init, CreatesInv, OneRulePerCreateKey, ExpiredHasLapsed, Creates, PatchedRuleExists, Exists
<1>2. CreatesInv => OneRulePerCreateKey BY DEF CreatesInv
<1> QED BY <1>1, <1>2, InitLifecycleInv, NextLifecycleInv, CreatesKept, PTL DEF Spec

-----------------------------------------------------------------------------
(* The log of an alert                                                     *)

LogOf(log, a) == {ev \in log : ev.alert = a}

(* A log tells every revision of the row once, and the last one's status.  *)
Tells(log, row) ==
    /\ {ev.revision : ev \in log} = 1 .. row.revision
    /\ \A x, y \in log : x.revision = y.revision => x = y
    /\ \A ev \in log : ev.revision = row.revision => ev.jobStatus = row.status
    /\ row.status = "NONE" => row.revision = 0

LogInv == \A a \in Alerts : Tells(LogOf(events, a), alert[a])

LEMMA LogIsExtended ==
  ASSUME NEW log, NEW row \in Alert, Tells(log, row), NEW next \in Alert, NEW ev,
         next.revision = row.revision + 1, next.status # "NONE",
         ev.revision = next.revision, ev.jobStatus = next.status
  PROVE  Tells(log \cup {ev}, next)
<1>1. row.revision \in Nat BY DEF Alert
<1>2. \A x \in log : x.revision \in 1 .. row.revision BY DEF Tells
<1>3. {x.revision : x \in log \cup {ev}} = {x.revision : x \in log} \cup {ev.revision}
  OBVIOUS
<1>4. 1 .. (row.revision + 1) = (1 .. row.revision) \cup {row.revision + 1} BY <1>1
<1>5. {x.revision : x \in log \cup {ev}} = 1 .. next.revision BY <1>3, <1>4 DEF Tells
<1>6. \A x \in log : x.revision # ev.revision BY <1>1, <1>2
<1>7. \A x, y \in log \cup {ev} : x.revision = y.revision => x = y BY <1>6 DEF Tells
<1>8. \A x \in log \cup {ev} : x.revision = next.revision => x.jobStatus = next.status BY <1>6
<1> QED BY <1>5, <1>7, <1>8 DEF Tells

(* A transition to the next revision writes the row and its event.         *)
LEMMA TransitionIsLogged ==
  ASSUME TypeOK, LogInv, NEW a \in Alerts, NEW row \in Alert, NEW type, Transition(a, row, type),
         row.revision = alert[a].revision + 1, row.status # "NONE"
  PROVE  LogInv'
<1>1. alert \in [Alerts -> Alert] BY DEF TypeOK
<1> DEFINE ev == EventOf(a, row, type)
<1>2. ev.alert = a /\ ev.revision = row.revision /\ ev.jobStatus = row.status BY DEF EventOf
<1>3. events' = events \cup {ev} /\ alert' = [alert EXCEPT ![a] = row] BY DEF Transition
<1> HIDE DEF ev
<1>4. LogOf(events', a) = LogOf(events, a) \cup {ev} BY <1>2, <1>3 DEF LogOf
<1>5. Tells(LogOf(events', a), alert'[a])
  <2>1. Tells(LogOf(events, a), alert[a]) /\ alert[a] \in Alert BY <1>1 DEF LogInv
  <2>2. Tells(LogOf(events, a) \cup {ev}, row) BY <1>2, <2>1, LogIsExtended
  <2> QED BY <1>1, <1>3, <1>4, <2>2
<1>6. \A c \in Alerts \ {a} : LogOf(events', c) = LogOf(events, c) BY <1>2, <1>3 DEF LogOf
<1> QED BY <1>1, <1>3, <1>5, <1>6 DEF LogInv

(* Every alert that is resolved gets its event, and no other one does.     *)
LEMMA ResolutionsAreLogged ==
  ASSUME TypeOK, LogInv, NEW A \in SUBSET Alerts, NEW reason \in Reasons, ResolveAll(A, reason)
  PROVE  LogInv'
<1>1. alert \in [Alerts -> Alert] BY DEF TypeOK
<1> DEFINE ev(a) == EventOf(a, ResolvedRow(alert[a], reason), "RESOLVED")
<1>2. \A a \in A : /\ alert'[a] \in Alert /\ alert'[a].status = "RESOLVED"
                   /\ alert'[a].revision = alert[a].revision + 1
                   /\ ev(a).alert = a /\ ev(a).revision = alert'[a].revision
                   /\ ev(a).jobStatus = "RESOLVED"
  <2> SUFFICES ASSUME NEW a \in A
               PROVE  /\ alert'[a] \in Alert /\ alert'[a].status = "RESOLVED"
                      /\ alert'[a].revision = alert[a].revision + 1
                      /\ ev(a).alert = a /\ ev(a).revision = alert'[a].revision
                      /\ ev(a).jobStatus = "RESOLVED"
    OBVIOUS
  <2>1. alert'[a] = ResolvedRow(alert[a], reason) BY DEF ResolveAll
  <2>2. ResolvedRow(alert[a], reason) \in Alert
        /\ ResolvedRow(alert[a], reason).status = "RESOLVED"
    BY <1>1, ResolvedRowIs
  <2>3. ResolvedRow(alert[a], reason).revision = alert[a].revision + 1
    BY <1>1 DEF ResolvedRow, Alert
  <2> QED BY <2>1, <2>2, <2>3 DEF EventOf
<1>3. events' = events \cup {ev(a) : a \in A} BY DEF ResolveAll
<1>4. \A a \in Alerts \ A : alert'[a] = alert[a] BY DEF ResolveAll
<1> HIDE DEF ev
<1>5. \A a \in A : LogOf(events', a) = LogOf(events, a) \cup {ev(a)} BY <1>2, <1>3 DEF LogOf
<1>6. \A a \in Alerts \ A : LogOf(events', a) = LogOf(events, a) BY <1>2, <1>3 DEF LogOf
<1>7. ASSUME NEW a \in A PROVE Tells(LogOf(events', a), alert'[a])
  BY <1>1, <1>2, <1>5, LogIsExtended DEF LogInv
<1> QED BY <1>4, <1>6, <1>7 DEF LogInv

(* The evaluator opens and resolves; it shows a sample without an event.   *)
LEMMA EvaluationIsLogged ==
  ASSUME LifecycleInv, LogInv, NEW e \in Evaluators, NEW b \in batch[e], NEW t \in Samples,
         NEW v \in Values, EvaluateRule(e, b, t, v)
  PROVE  LogInv'
<1> DEFINE r == b.rule
<1>1. alert \in [Alerts -> Alert] /\ r \in Rules /\ t \in Nat
  BY DEF LifecycleInv, TypeOK, Binding, Samples
<1>2. \/ UNCHANGED <<alert, events>>
      \/ \E a \in Alerts : alert[a].status = "NONE" /\ Transition(a, NewAlert(r, t), "OPENED")
      \/ \E a \in Unresolved(r) :
           Transition(a, [ResolvedRow(alert[a], "RECOVERED") EXCEPT !.latestObservedAt = t],
                      "RESOLVED")
      \/ /\ alert' = [a \in Alerts |-> IF a \in Unresolved(r)
                                       THEN [alert[a] EXCEPT !.latestObservedAt = t]
                                       ELSE alert[a]]
         /\ UNCHANGED events
  BY Zenon DEF EvaluateRule
<1>3. CASE UNCHANGED <<alert, events>> BY <1>3 DEF LogInv
<1>4. ASSUME NEW a \in Alerts, alert[a].status = "NONE", Transition(a, NewAlert(r, t), "OPENED")
      PROVE  LogInv'
  <2>1. NewAlert(r, t) \in Alert /\ NewAlert(r, t).revision = 1 /\ NewAlert(r, t).status = "OPEN"
    BY <1>1 DEF NewAlert, Alert
  <2>2. alert[a].revision = 0 BY <1>4 DEF LogInv, Tells
  <2> QED BY <1>4, <2>1, <2>2, TransitionIsLogged DEF LifecycleInv
<1>5. ASSUME NEW a \in Unresolved(r),
             Transition(a, [ResolvedRow(alert[a], "RECOVERED") EXCEPT !.latestObservedAt = t],
                        "RESOLVED")
      PROVE  LogInv'
  <2> DEFINE row == [ResolvedRow(alert[a], "RECOVERED") EXCEPT !.latestObservedAt = t]
  <2>1. a \in Alerts /\ ResolvedRow(alert[a], "RECOVERED") \in Alert
    BY <1>1, ResolvedRowIs DEF Unresolved, Reasons
  <2>2. row \in Alert /\ row.revision = alert[a].revision + 1 /\ row.status = "RESOLVED"
    BY <1>1, <2>1 DEF ResolvedRow, Alert
  <2> HIDE DEF row
  <2> QED BY <1>5, <2>1, <2>2, TransitionIsLogged DEF LifecycleInv, row
<1>6. CASE /\ alert' = [a \in Alerts |-> IF a \in Unresolved(r)
                                         THEN [alert[a] EXCEPT !.latestObservedAt = t]
                                         ELSE alert[a]]
           /\ UNCHANGED events
  <2>1. \A a \in Alerts : /\ alert'[a].revision = alert[a].revision
                          /\ alert'[a].status = alert[a].status
    <3> SUFFICES ASSUME NEW a \in Alerts
                 PROVE  /\ alert'[a].revision = alert[a].revision
                        /\ alert'[a].status = alert[a].status
      OBVIOUS
    <3>1. alert'[a] = [alert[a] EXCEPT !.latestObservedAt = t] \/ alert'[a] = alert[a]
      BY <1>6
    <3> QED BY <1>1, <3>1 DEF Alert
  <2> QED BY <1>6, <2>1 DEF LogInv, Tells
<1> QED BY <1>2, <1>3, <1>4, <1>5, <1>6

(* A reader of the provider, of a batch or of a request changes no alert.  *)
LEMMA AlertWriters ==
  ASSUME [Next]_vars
  PROVE  \/ UNCHANGED <<alert, events>>
         \/ \E e \in Evaluators : \E b \in batch[e] :
              BlockForMetadata(e, b) \/ \E t \in Samples, v \in Values : EvaluateRule(e, b, t, v)
         \/ \E c \in Clients : CommitPatch(c)
         \/ \E a \in Alerts, k \in Keys : Acknowledge(a, k) \/ Resolve(a, k)
         \/ \E s \in Sources : RemoveSource(s)
         \/ \E C \in SUBSET claims, A \in SUBSET Alerts : Purge(C, A)
<1>1. ASSUME NEW e \in Evaluators, EvaluatorStep(e)
      PROVE  \/ UNCHANGED <<alert, events>>
             \/ \E b \in batch[e] : \/ BlockForMetadata(e, b)
                                    \/ \E t \in Samples, v \in Values : EvaluateRule(e, b, t, v)
  BY <1>1 DEF EvaluatorStep, LeaseAcquired, ReadBatch, LeaveBatch, FetchLatest, CheckMetadata,
              SkipRule, RecordSafeResult, RecordUpstreamError, EvaluationFails
<1>2. ASSUME NEW c \in Clients, ClientStep(c) PROVE UNCHANGED <<alert, events>> \/ CommitPatch(c)
  BY <1>2 DEF ClientStep, StartCreate, CommitCreate, StartPatch, GiveUp
<1>3. CASE LeaseExpires \/ ProviderChanges \/ UNCHANGED vars
  BY <1>3 DEF LeaseExpires, ProviderChanges, vars
<1>4. CASE Retention
  BY <1>4 DEF Retention, ClaimExpires
<1> QED BY <1>1, <1>2, <1>3, <1>4 DEF Next

(* A deleted alert has neither a revision nor an event.                    *)
LEMMA PurgeIsLogged ==
  ASSUME LifecycleInv, LogInv, NEW C \in SUBSET claims, NEW A \in SUBSET Alerts, Purge(C, A)
  PROVE  LogInv'
<1>1. events' = {ev \in events : ev.alert \notin A} BY DEF Purge
<1>2. \A a \in A : LogOf(events', a) = {} BY <1>1 DEF LogOf
<1>3. \A a \in Alerts \ A : LogOf(events', a) = LogOf(events, a) BY <1>1 DEF LogOf
<1>4. Tells({}, NoAlert)
  <2>1. 1 .. 0 = {} OBVIOUS
  <2> QED BY <2>1 DEF Tells, NoAlert
<1>5. /\ \A a \in A : alert'[a] = NoAlert
      /\ \A a \in Alerts \ A : alert'[a] = alert[a]
  BY PurgeIs DEF LifecycleInv
<1> QED BY <1>2, <1>3, <1>4, <1>5 DEF LogInv

LEMMA LogKept == ASSUME LifecycleInv, LogInv, [Next]_vars PROVE LogInv'
<1>1. TypeOK /\ alert \in [Alerts -> Alert] BY DEF LifecycleInv, TypeOK
<1>2. CASE UNCHANGED <<alert, events>> BY <1>2 DEF LogInv
<1>3. ASSUME NEW e \in Evaluators, NEW b \in batch[e], BlockForMetadata(e, b) PROVE LogInv'
  <2>1. UNCHANGED <<alert, events>> \/ ResolveAll(Unresolved(b.rule), "METADATA_CHANGED")
    BY Zenon, <1>3 DEF BlockForMetadata
  <2>2. Unresolved(b.rule) \in SUBSET Alerts /\ "METADATA_CHANGED" \in Reasons
    BY DEF Unresolved, Reasons
  <2> QED BY <1>1, <1>2, <2>1, <2>2, ResolutionsAreLogged
<1>4. ASSUME NEW c \in Clients, CommitPatch(c) PROVE LogInv'
  <2>1. \E A \in SUBSET Alerts : ResolveAll(A, "RULE_DISABLED")
    BY <1>4 DEF CommitPatch, Unresolved
  <2> QED BY <1>1, <2>1, ResolutionsAreLogged DEF Reasons
<1>5. ASSUME NEW a \in Alerts, NEW k \in Keys, Acknowledge(a, k) PROVE LogInv'
  <2> DEFINE row == [alert[a] EXCEPT !.status = "ACKNOWLEDGED", !.revision = @ + 1]
  <2>1. UNCHANGED <<alert, events>> \/ Transition(a, row, "ACKNOWLEDGED")
    BY Zenon, <1>5 DEF Acknowledge
  <2>2. row \in Alert /\ row.revision = alert[a].revision + 1 /\ row.status = "ACKNOWLEDGED"
    <3>1. alert[a] \in Alert /\ alert[a].revision + 1 \in Nat BY <1>1 DEF Alert
    <3> QED BY <3>1 DEF Alert
  <2> HIDE DEF row
  <2> QED BY <1>1, <1>2, <2>1, <2>2, TransitionIsLogged
<1>6. ASSUME NEW a \in Alerts, NEW k \in Keys, Resolve(a, k) PROVE LogInv'
  <2>1. UNCHANGED <<alert, events>> \/ Transition(a, ResolvedRow(alert[a], "MANUAL"), "RESOLVED")
    BY Zenon, <1>6 DEF Resolve
  <2>2. ResolvedRow(alert[a], "MANUAL") \in Alert
        /\ ResolvedRow(alert[a], "MANUAL").status = "RESOLVED"
    BY <1>1, ResolvedRowIs DEF Reasons
  <2>3. ResolvedRow(alert[a], "MANUAL").revision = alert[a].revision + 1
    BY <1>1 DEF ResolvedRow, Alert
  <2> QED BY <1>1, <1>2, <2>1, <2>2, <2>3, TransitionIsLogged
<1>7. ASSUME NEW s \in Sources, RemoveSource(s) PROVE LogInv'
  <2>1. \E A \in SUBSET Alerts : ResolveAll(A, "SOURCE_REMOVED")
    BY <1>7 DEF RemoveSource
  <2> QED BY <1>1, <2>1, ResolutionsAreLogged DEF Reasons
<1> QED BY <1>2, <1>3, <1>4, <1>5, <1>6, <1>7, AlertWriters, EvaluationIsLogged, PurgeIsLogged

(* Every change of an alert's status leaves one event and one job, with    *)
(* the revision and the status the row got: recipients miss none.          *)
THEOREM EveryChangeIsLogged == Spec => []EventLogIsComplete
<1>1. Init => LogInv
  BY DEF Init, LogInv, Tells, LogOf, NoAlert
<1>2. LogInv => EventLogIsComplete
  BY Zenon DEF LogInv, Tells, LogOf, EventLogIsComplete
<1> QED BY <1>1, <1>2, InitLifecycleInv, NextLifecycleInv, LogKept, PTL DEF Spec

-----------------------------------------------------------------------------
(* The sample an unresolved alert shows                                    *)

(* Resolving alerts leaves the ones that stay unresolved as they were.     *)
LEMMA ResolvingShowsTheSame ==
  ASSUME TypeOK, AlertShowsLatestSample, NEW A \in SUBSET Alerts, NEW reason \in Reasons,
         ResolveAll(A, reason), \A r \in Rules : eval'[r].lastObservedAt = eval[r].lastObservedAt
  PROVE  AlertShowsLatestSample'
<1>1. \A a \in Alerts : a \in A \/ alert'[a] = alert[a] BY ResolveAllIs
<1>2. \A a \in A : alert'[a].unresolvedRule = None BY ResolveAllIs
<1>3. \A r \in Rules : r # None BY ConstantsAssumption
<1> QED BY <1>1, <1>2, <1>3 DEF AlertShowsLatestSample, Unresolved

LEMMA EvaluationShowsTheSample ==
  ASSUME LifecycleInv, AlertShowsLatestSample, NEW e \in Evaluators, NEW b \in batch[e],
         NEW t \in Samples, NEW v \in Values, EvaluateRule(e, b, t, v)
  PROVE  AlertShowsLatestSample'
<1> DEFINE r == b.rule
<1>1. /\ alert \in [Alerts -> Alert] /\ r \in Rules /\ t \in Nat /\ r # None
      /\ eval \in [Rules -> EvalState]
  BY ConstantsAssumption DEF LifecycleInv, TypeOK, Binding, Samples
<1>2. \/ UNCHANGED <<eval, alert>>
      \/ /\ \A q \in Rules \ {r} : eval'[q] = eval[q]
         /\ eval'[r].lastObservedAt = t
         /\ \/ /\ Decide(rule[r].cond, eval[r], v, Unresolved(r) # {}).action = "OPEN"
               /\ \E a \in Alerts : /\ alert[a].status = "NONE"
                                    /\ alert' = [alert EXCEPT ![a] = NewAlert(r, t)]
            \/ \E a \in Unresolved(r) :
                 alert' = [alert EXCEPT ![a] = [ResolvedRow(alert[a], "RECOVERED")
                                                  EXCEPT !.latestObservedAt = t]]
            \/ alert' = [a \in Alerts |-> IF a \in Unresolved(r)
                                          THEN [alert[a] EXCEPT !.latestObservedAt = t]
                                          ELSE alert[a]]
  <2> DEFINE d  == Decide(rule[r].cond, eval[r], v, Unresolved(r) # {})
             st == [lastObservedAt |-> t, lastValue |-> v, breach |-> d.breach,
                    recovery |-> d.recovery, lastResult |-> d.result]
  <2>1. \/ UNCHANGED <<eval, alert>>
        \/ /\ eval' = [eval EXCEPT ![r] = st]
           /\ \/ /\ d.action = "OPEN"
                 /\ \E a \in Alerts : /\ alert[a].status = "NONE"
                                      /\ alert' = [alert EXCEPT ![a] = NewAlert(r, t)]
              \/ \E a \in Unresolved(r) :
                   alert' = [alert EXCEPT ![a] = [ResolvedRow(alert[a], "RECOVERED")
                                                    EXCEPT !.latestObservedAt = t]]
              \/ alert' = [a \in Alerts |-> IF a \in Unresolved(r)
                                            THEN [alert[a] EXCEPT !.latestObservedAt = t]
                                            ELSE alert[a]]
    BY Zenon DEF EvaluateRule, Transition
  <2>2. st.lastObservedAt = t OBVIOUS
  <2> HIDE DEF st
  <2>3. eval' = [eval EXCEPT ![r] = st] =>
          eval'[r].lastObservedAt = t /\ \A q \in Rules \ {r} : eval'[q] = eval[q]
    BY <1>1, <2>2
  <2> QED BY Zenon, <2>1, <2>3 DEF d
<1>3. CASE UNCHANGED <<eval, alert>> BY <1>3 DEF AlertShowsLatestSample, Unresolved
<1>4. ASSUME \A q \in Rules \ {r} : eval'[q] = eval[q], eval'[r].lastObservedAt = t,
             Unresolved(r) = {}, NEW a \in Alerts, alert' = [alert EXCEPT ![a] = NewAlert(r, t)]
      PROVE  AlertShowsLatestSample'
  <2>1. alert'[a].unresolvedRule = r /\ alert'[a].latestObservedAt = t
    BY <1>1, <1>4 DEF NewAlert
  <2>2. \A c \in Alerts \ {a} : alert'[c] = alert[c] BY <1>1, <1>4
  <2> QED BY <1>4, <2>1, <2>2 DEF AlertShowsLatestSample, Unresolved
<1>5. ASSUME \A q \in Rules \ {r} : eval'[q] = eval[q], NEW a \in Unresolved(r),
             alert' = [alert EXCEPT ![a] = [ResolvedRow(alert[a], "RECOVERED")
                                              EXCEPT !.latestObservedAt = t]]
      PROVE  AlertShowsLatestSample'
  <2>1. a \in Alerts /\ ResolvedRow(alert[a], "RECOVERED") \in Alert
        /\ ResolvedRow(alert[a], "RECOVERED").unresolvedRule = None
    BY <1>1, ResolvedRowIs DEF Unresolved, Reasons
  <2> DEFINE row == [ResolvedRow(alert[a], "RECOVERED") EXCEPT !.latestObservedAt = t]
  <2>2. row.unresolvedRule = None BY <2>1 DEF Alert
  <2> HIDE DEF row
  <2>3. alert' = [alert EXCEPT ![a] = row] BY <1>5 DEF row
  <2>4. alert'[a].unresolvedRule = None /\ \A c \in Alerts \ {a} : alert'[c] = alert[c]
    BY <1>1, <2>1, <2>2, <2>3
  <2>5. \A c \in Unresolved(r) : c = a
    BY <1>1 DEF LifecycleInv, OneUnresolvedAlertPerRule
  <2>6. \A q \in Rules : q # None BY ConstantsAssumption
  <2> QED BY <1>5, <2>4, <2>5, <2>6 DEF AlertShowsLatestSample, Unresolved
<1>6. ASSUME \A q \in Rules \ {r} : eval'[q] = eval[q], eval'[r].lastObservedAt = t,
             alert' = [a \in Alerts |-> IF a \in Unresolved(r)
                                       THEN [alert[a] EXCEPT !.latestObservedAt = t]
                                       ELSE alert[a]]
      PROVE  AlertShowsLatestSample'
  <2>1. \A a \in Alerts : alert'[a].unresolvedRule = alert[a].unresolvedRule
    BY <1>1, <1>6 DEF Alert
  <2>2. \A a \in Unresolved(r) : alert'[a].latestObservedAt = t
    BY <1>1, <1>6 DEF Alert, Unresolved
  <2>3. \A a \in Alerts \ Unresolved(r) : alert'[a] = alert[a] BY <1>6
  <2> QED BY <1>6, <2>1, <2>2, <2>3 DEF AlertShowsLatestSample, Unresolved
<1>7. Decide(rule[r].cond, eval[r], v, Unresolved(r) # {}).action = "OPEN" => Unresolved(r) = {}
  BY <1>1, DecideIs
<1> QED BY <1>2, <1>3, <1>4, <1>5, <1>6, <1>7

(* The last sample of a rule changes with its evaluation and its creation. *)
LEMMA SampleWriters ==
  ASSUME TypeOK, [Next]_vars
  PROVE  \/ \A r \in Rules : eval'[r].lastObservedAt = eval[r].lastObservedAt
         \/ /\ UNCHANGED alert
            /\ \E r \in Rules : ~Exists(r) /\ \A q \in Rules \ {r} : eval'[q] = eval[q]
         \/ \E e \in Evaluators : \E b \in batch[e] :
              \E t \in Samples, v \in Values : EvaluateRule(e, b, t, v)
<1>1. eval \in [Rules -> EvalState] BY DEF TypeOK
<1>2. CASE UNCHANGED eval BY <1>2
<1>3. ASSUME NEW e \in Evaluators, EvaluatorStep(e)
      PROVE  \/ \A r \in Rules : eval'[r].lastObservedAt = eval[r].lastObservedAt
             \/ \E b \in batch[e] : \E t \in Samples, v \in Values : EvaluateRule(e, b, t, v)
  <2>1. ASSUME NEW b \in batch[e], \/ BlockForMetadata(e, b)
                                   \/ RecordSafeResult(e, b) \/ RecordUpstreamError(e, b)
        PROVE  \A r \in Rules : eval'[r].lastObservedAt = eval[r].lastObservedAt
    <3>1. UNCHANGED eval \/ eval' = [eval EXCEPT ![b.rule].lastResult = "UNUSABLE"]
      BY Zenon, <2>1 DEF BlockForMetadata, RecordSafeResult, RecordUpstreamError, WriteSafeResult
    <3> QED BY <1>1, <3>1 DEF EvalState
  <2> QED BY <1>2, <1>3, <2>1
          DEF EvaluatorStep, LeaseAcquired, ReadBatch, LeaveBatch, FetchLatest, CheckMetadata,
              SkipRule, EvaluationFails
<1>4. ASSUME NEW c \in Clients, ClientStep(c)
      PROVE  \/ UNCHANGED eval
             \/ /\ UNCHANGED alert
                /\ \E r \in Rules : ~Exists(r) /\ \A q \in Rules \ {r} : eval'[q] = eval[q]
  <2>1. ASSUME NEW r \in Rules, CommitCreate(c, r)
        PROVE  UNCHANGED alert /\ ~Exists(r) /\ \A q \in Rules \ {r} : eval'[q] = eval[q]
    BY <1>1, <2>1 DEF CommitCreate
  <2> QED BY <1>4, <2>1 DEF ClientStep, StartCreate, StartPatch, CommitPatch, GiveUp
<1>5. CASE LeaseExpires \/ ProviderChanges \/ UNCHANGED vars
  BY <1>2, <1>5 DEF LeaseExpires, ProviderChanges, vars
<1>6. CASE \/ \E a \in Alerts, k \in Keys : Acknowledge(a, k) \/ Resolve(a, k)
           \/ \E s \in Sources : RemoveSource(s)
           \/ Retention
  BY <1>2, <1>6 DEF Acknowledge, Resolve, RemoveSource, Retention, ClaimExpires, Purge
<1> QED BY <1>2, <1>3, <1>4, <1>5, <1>6 DEF Next

LEMMA SampleKept ==
  ASSUME LifecycleInv, AlertShowsLatestSample, [Next]_vars PROVE AlertShowsLatestSample'
<1>1. TypeOK /\ alert \in [Alerts -> Alert] BY DEF LifecycleInv, TypeOK
<1>2. ASSUME UNCHANGED alert, NEW r \in Rules, ~Exists(r),
             \A q \in Rules \ {r} : eval'[q] = eval[q]
      PROVE  AlertShowsLatestSample'
  <2>1. Unresolved(r) = {}
    BY <1>2 DEF LifecycleInv, UnresolvedAlertIsLive, Ready, Exists
  <2> QED BY <1>2, <2>1 DEF AlertShowsLatestSample, Unresolved
<1>3. ASSUME \A r \in Rules : eval'[r].lastObservedAt = eval[r].lastObservedAt,
             ~\E e \in Evaluators : \E b \in batch[e] :
                \E t \in Samples, v \in Values : EvaluateRule(e, b, t, v)
      PROVE  AlertShowsLatestSample'
  <2>1. CASE UNCHANGED alert BY <1>3, <2>1 DEF AlertShowsLatestSample, Unresolved
  <2>2. ASSUME NEW A \in SUBSET Alerts, NEW reason \in Reasons, ResolveAll(A, reason)
        PROVE  AlertShowsLatestSample'
    BY <1>1, <1>3, <2>2, ResolvingShowsTheSame
  <2>3. ASSUME NEW e \in Evaluators, NEW b \in batch[e], BlockForMetadata(e, b)
        PROVE  AlertShowsLatestSample'
    <3>1. UNCHANGED alert \/ ResolveAll(Unresolved(b.rule), "METADATA_CHANGED")
      BY Zenon, <2>3 DEF BlockForMetadata
    <3> QED BY <2>1, <2>2, <3>1 DEF Unresolved, Reasons
  <2>4. ASSUME NEW c \in Clients, CommitPatch(c) PROVE AlertShowsLatestSample'
    <3>1. \E A \in SUBSET Alerts : ResolveAll(A, "RULE_DISABLED")
      BY <2>4 DEF CommitPatch, Unresolved
    <3> QED BY <2>2, <3>1 DEF Reasons
  <2>5. ASSUME NEW s \in Sources, RemoveSource(s) PROVE AlertShowsLatestSample'
    <3>1. \E A \in SUBSET Alerts : ResolveAll(A, "SOURCE_REMOVED")
      BY <2>5 DEF RemoveSource
    <3> QED BY <2>2, <3>1 DEF Reasons
  <2>6. ASSUME NEW a \in Alerts, NEW k \in Keys, Acknowledge(a, k) \/ Resolve(a, k)
        PROVE  AlertShowsLatestSample'
    <3>1. /\ \A c \in Alerts \ {a} : alert'[c] = alert[c]
          /\ alert'[a].latestObservedAt = alert[a].latestObservedAt
          /\ alert'[a].unresolvedRule \in {alert[a].unresolvedRule, None}
      <4> DEFINE seen == [alert[a] EXCEPT !.status = "ACKNOWLEDGED", !.revision = @ + 1]
                 done == ResolvedRow(alert[a], "MANUAL")
      <4>1. UNCHANGED alert \/ alert' = [alert EXCEPT ![a] = seen]
                            \/ alert' = [alert EXCEPT ![a] = done]
        BY Zenon, <2>6 DEF Acknowledge, Resolve, Transition
      <4>2. /\ seen.latestObservedAt = alert[a].latestObservedAt
            /\ seen.unresolvedRule = alert[a].unresolvedRule
        BY <1>1 DEF Alert
      <4>3. done.latestObservedAt = alert[a].latestObservedAt /\ done.unresolvedRule = None
        BY <1>1 DEF ResolvedRow, Alert
      <4> HIDE DEF seen, done
      <4> QED BY <1>1, <4>1, <4>2, <4>3
    <3>2. \A r \in Rules : r # None BY ConstantsAssumption
    <3> QED BY <1>3, <3>1, <3>2 DEF AlertShowsLatestSample, Unresolved
  <2>7. ASSUME NEW C \in SUBSET claims, NEW A \in SUBSET Alerts, Purge(C, A)
        PROVE  AlertShowsLatestSample'
    <3>1. /\ \A a \in Alerts \ A : alert'[a] = alert[a]
          /\ \A r \in Rules : Unresolved(r) \cap A = {} /\ Unresolved(r)' = Unresolved(r)
      BY <2>7, PurgeIs DEF LifecycleInv
    <3>2. \A r \in Rules : Unresolved(r) \subseteq Alerts
      BY DEF Unresolved
    <3> QED BY <1>3, <3>1, <3>2 DEF AlertShowsLatestSample
  <2> QED BY <1>3, <2>1, <2>3, <2>4, <2>5, <2>6, <2>7, AlertWriters
<1> QED BY <1>1, <1>2, <1>3, SampleWriters, EvaluationShowsTheSample

(* An unresolved alert never shows an older sample than the evaluator used.*)
THEOREM LatestSampleIsShown == Spec => []AlertShowsLatestSample
<1>1. Init => AlertShowsLatestSample
  BY ConstantsAssumption DEF Init, NoAlert, AlertShowsLatestSample, Unresolved
<1> QED BY <1>1, InitLifecycleInv, NextLifecycleInv, SampleKept, PTL DEF Spec
=============================================================================
