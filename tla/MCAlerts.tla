------------------------------ MODULE MCAlerts ------------------------------
(***************************************************************************)
(* AlertLifecycle for TLC, from three sides, one per behaviour: one rule   *)
(* of a managed source under an evaluator that may lose its lease at any   *)
(* point of its run, while a user changes the rule and its alerts; two     *)
(* rules of one slot under two users who create and patch them with the    *)
(* same and with different keys, against metadata that changes; and        *)
(* requests that are sent again with one key while the retention deletes   *)
(* claims and alerts.  The removal of the source races all of them.        *)
(***************************************************************************)
EXTENDS AlertLifecycle, TLC

CONSTANTS moisture, station, source, low, dry, m1,
          alice, k1  \* the user and the key where there is one

MCSlotOf == [r \in Rules |-> moisture]
MCStationOf == [s \in Slots |-> station]
MCSourceOf == [s \in Stations |-> source]
MCBreaching == [c \in Conditions |-> IF c = low THEN {dry} ELSE Values \ {dry}]

MCSymmetry == Permutations(Rules) \cup Permutations(Alerts)

VARIABLE focus  \* the side this behaviour runs

mcvars == <<vars, focus>>

MCInit ==
    /\ Init
    /\ focus \in {"evaluation", "rules", "retention"}
    /\ focus # "rules" => metadata = m1

(* One rule, one user, one key; the evaluator runs.                        *)
OneRule ==
    /\ Cardinality({r \in Rules : Exists(r)}) <= 1
    /\ metadata \in {m1, None}
    /\ pending[alice] # None => pending[alice].meta \in {m1, None}
    /\ pending[alice] # None /\ pending[alice].op = "create" => pending[alice].key = k1

Evaluation ==
    /\ \/ LeaseExpires \/ ProviderChanges \/ ClientStep(alice)
       \/ \E e \in Evaluators : EvaluatorStep(e)
       \/ \E a \in Alerts : Acknowledge(a, k1) \/ Resolve(a, k1)
       \/ \E s \in Sources : RemoveSource(s)
    /\ OneRule'

(* Two rules, each patched once, and two users; no evaluator, and so one   *)
(* condition.                                                              *)
OneCondition ==
    /\ \A r \in Rules : rule[r].revision <= 2
    /\ \A c \in Clients : pending[c] # None => pending[c].cond \in {low, None}

RuleChanges ==
    /\ \/ ProviderChanges
       \/ \E c \in Clients : ClientStep(c)
       \/ \E s \in Sources : RemoveSource(s)
    /\ OneCondition'

(* One key, with which every request may come again at any time: creates,  *)
(* acknowledgements and resolutions while claims expire, the retention     *)
(* deletes them and the resolved alerts, and the source may be removed.    *)
OneKey ==
    /\ \A c \in Clients : pending[c] # None =>
         pending[c].op = "create" /\ pending[c].cond = low /\ pending[c].key = k1
    /\ \A r \in Rules : eval[r].lastObservedAt <= 3
    /\ \A e \in Evaluators : \A b \in batch[e] : b.stage # "failed"

Kept ==
    /\ \/ Retention \/ LeaseExpires
       \/ \E c \in Clients : ClientStep(c)
       \/ \E e \in Evaluators : EvaluatorStep(e)
       \/ \E a \in Alerts : Acknowledge(a, k1) \/ Resolve(a, k1)
       \/ \E s \in Sources : RemoveSource(s)
    /\ OneKey'

MCNext ==
    /\ \/ focus = "evaluation" /\ Evaluation
       \/ focus = "rules" /\ RuleChanges
       \/ focus = "retention" /\ Kept
    /\ UNCHANGED focus

MCSpec == MCInit /\ [][MCNext]_mcvars
=============================================================================
