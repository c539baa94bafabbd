------------------------------ MODULE AlertsPage ------------------------------
(***************************************************************************)
(* The page of the alerts in the web client: the alerts of the selected    *)
(* station, status and severity, the actions on them, and the rules of the *)
(* selected station with their switches and the form of a new one.  Of an  *)
(* alert or a rule only its station is kept; what a rule says and how the  *)
(* server decides on it is in AlertLifecycle.                              *)
(***************************************************************************)
EXTENDS Naturals, FiniteSets

CONSTANTS
    Posts,      \* the stations of the selection
    Screens,    \* choices of status and severity
    NoPost,
    MaxHails    \* bound on the requests under way

ASSUME AlertsPageAssumption == NoPost \notin Posts /\ Screens # {} /\ MaxHails \in Nat \ {0}

VARIABLES
    post,    \* the selected station
    screen,  \* the selected status and severity
    board,   \* the alerts: loading; history: what they are of, failed, and crossed by a refresh
    rules,   \* the rules: of which station's answer, created since, canManage, showForm; history: failed, late
    acting,  \* actingId
    hails    \* requests of alertService under way

alertVars == <<post, screen, board, rules, acting, hails>>

-----------------------------------------------------------------------------
Asked == [post |-> post, screen |-> screen]

Hail(what, of) == [what |-> what, of |-> of, active |-> TRUE]

Room(H) == Cardinality(H) <= MaxHails /\ hails' = H

(* An effect that runs again leaves its earlier answer unheard.            *)
Leaves(H, kinds) == {IF h.what \in kinds THEN [h EXCEPT !.active = FALSE] ELSE h : h \in H}

(* The filters: the alerts are asked for again, without a loading mark.    *)
SelectScreen(s) ==
    /\ s # screen /\ screen' = s
    /\ Room(Leaves(hails, {"alerts"}) \cup {Hail("alerts", [Asked EXCEPT !.screen = s])})
    /\ UNCHANGED <<post, board, rules, acting>>

(* Another station: its alerts and its rules.  With none selected there are*)
(* no rules.                                                               *)
SelectPost(p) ==
    /\ p # post /\ post' = p
    /\ LET alerts == Hail("alerts", [Asked EXCEPT !.post = p]) left == Leaves(hails, {"alerts", "rules"}) IN
       IF p = NoPost
       THEN /\ rules' = [of |-> NoPost, added |-> {}, canManage |-> FALSE, form |-> FALSE, failed |-> FALSE, late |-> FALSE]
            /\ Room(left \cup {alerts})
       ELSE /\ rules' = [rules EXCEPT !.failed = FALSE]
            /\ Room(left \cup {alerts, Hail("rules", p)})
    /\ UNCHANGED <<screen, board, acting>>

(* Mutant: an effect's answer is taken after a later one was asked for.    *)
HeedsAny(h) == TRUE

Heeds(h) == h.active

AlertsArrive(h) ==
    /\ h \in hails /\ h.what = "alerts" /\ hails' = hails \ {h}
    /\ IF ~Heeds(h) THEN UNCHANGED board
       ELSE \/ board' = [loading |-> FALSE, of |-> h.of, failed |-> FALSE, crossed |-> FALSE]
            \/ board' = [board EXCEPT !.loading = FALSE, !.failed = TRUE]
    /\ UNCHANGED <<post, screen, rules, acting>>

(* loadAlerts, of the button: its answer is taken whenever it comes.       *)
RefreshAlerts ==
    /\ Room(hails \cup {Hail("refresh", Asked)})
    /\ board' = [board EXCEPT !.loading = TRUE]
    /\ UNCHANGED <<post, screen, rules, acting>>

RefreshedArrive(h) ==
    /\ h \in hails /\ h.what = "refresh" /\ hails' = hails \ {h}
    /\ \/ board' = [loading |-> FALSE, of |-> h.of, failed |-> FALSE, crossed |-> h.of # Asked]
       \/ board' = [board EXCEPT !.loading = FALSE, !.failed = TRUE]
    /\ UNCHANGED <<post, screen, rules, acting>>

RulesArrive(h) ==
    /\ h \in hails /\ h.what = "rules" /\ hails' = hails \ {h}
    /\ IF ~Heeds(h) THEN UNCHANGED rules
       ELSE \/ \E can \in BOOLEAN : rules' = [rules EXCEPT !.of = h.of, !.added = {}, !.canManage = can,
                                                           !.failed = FALSE, !.late = FALSE]
            \/ rules' = [rules EXCEPT !.failed = TRUE]
    /\ UNCHANGED <<post, screen, board, acting>>

-----------------------------------------------------------------------------
(* The actions: acknowledge or resolve an alert that is shown, switch a    *)
(* rule, create one.  Each takes the busy mark and gives it back, whoever  *)
(* has it then.                                                            *)
Acts(what, of) == acting' = what /\ Room(hails \cup {Hail(what, of)})

RunAction ==
    /\ ~board.loading /\ acting # "alert" /\ Acts("alert", board.of)
    /\ UNCHANGED <<post, screen, board, rules>>

ToggleRule ==
    /\ post # NoPost /\ rules.canManage /\ acting # "toggle" /\ Acts("toggle", post)
    /\ UNCHANGED <<post, screen, board, rules>>

OpenForm ==
    /\ rules.canManage /\ post # NoPost /\ rules.of # NoPost /\ ~rules.form
    /\ rules' = [rules EXCEPT !.form = TRUE]
    /\ UNCHANGED <<post, screen, board, acting, hails>>

CancelForm ==
    /\ rules.canManage /\ rules.form
    /\ rules' = [rules EXCEPT !.form = FALSE]
    /\ UNCHANGED <<post, screen, board, acting, hails>>

(* createRule: for the station that is selected, with the units of the     *)
(* answer that was read last.                                              *)
CreateRuleOf ==
    /\ rules.canManage /\ rules.form /\ post # NoPost /\ rules.of # NoPost
    /\ acting # "create" /\ Acts("create", post)
    /\ UNCHANGED <<post, screen, board, rules>>

ActionArrives(h) ==
    /\ h \in hails /\ h.what \in {"alert", "toggle", "create"} /\ hails' = hails \ {h} /\ acting' = "none"
    /\ \/ UNCHANGED rules
       \/ h.what = "create" /\ rules' = [rules EXCEPT !.added = @ \cup {h.of}, !.form = FALSE,
                                                      !.late = @ \/ h.of # post]
    /\ UNCHANGED <<post, screen, board>>

-----------------------------------------------------------------------------
AlertsInit ==
    /\ post = NoPost /\ screen \in Screens
    /\ board = [loading |-> TRUE, of |-> Asked, failed |-> FALSE, crossed |-> FALSE]
    /\ rules = [of |-> NoPost, added |-> {}, canManage |-> FALSE, form |-> FALSE, failed |-> FALSE, late |-> FALSE]
    /\ acting = "none" /\ hails = {Hail("alerts", Asked)}

AlertsNext ==
    \/ \E s \in Screens : SelectScreen(s)
    \/ \E p \in Posts \cup {NoPost} : SelectPost(p)
    \/ \E h \in hails : AlertsArrive(h) \/ RefreshedArrive(h) \/ RulesArrive(h) \/ ActionArrives(h)
    \/ RefreshAlerts \/ RunAction \/ ToggleRule \/ OpenForm \/ CancelForm \/ CreateRuleOf

-----------------------------------------------------------------------------
(* A loading list and a busy mark wait for an answer that will be taken.   *)
AlertsWait ==
    /\ board.loading => \E h \in hails : h.what = "refresh" \/ (h.what = "alerts" /\ Heeds(h))
    /\ acting # "none" => \E h \in hails : h.what \in {"alert", "toggle", "create"}

(* When no answer is awaited, the alerts are of the selected filters unless*)
(* a refresh of others was answered last, and the rules are of the station *)
(* unless its rules could not be read or a creation for another came late. *)
AlertsAreOfTheFilters ==
    /\ ~board.failed /\ ~board.crossed /\ (\A h \in hails : h.what = "alerts" => ~h.active) => board.of = Asked
    /\ post # NoPost /\ ~rules.failed /\ (\A h \in hails : h.what = "rules" => ~h.active) =>
         rules.of = post /\ (rules.late \/ rules.added \subseteq {post})
=============================================================================
