------------------------------ MODULE MCWebClient ------------------------------
(***************************************************************************)
(* The web client, for TLC.  The session of the tab and its pages share no *)
(* state that their properties are about, so a behaviour runs one part,    *)
(* chosen at its start, and the others stay as they are.                   *)
(***************************************************************************)
EXTENDS WebSession, StationPages, HistoryView, Inbox, SourcePages,
        AccountsPage, AuditPage, AlertsPage, KeysPage, StationSearch, TLC

CONSTANTS c1, c2,     \* calls
          u1,         \* a user
          f1,         \* the farm of the parts that need one
          s1, s2,     \* two stations of one plot
          o1, o3,     \* two of the sources
          t1,         \* a station of the alerts
          farther,    \* the plot of the other farm
          outlying    \* the station of the other plot

MCFarmOf == [p \in Plots |-> IF p = farther THEN CHOOSE f \in Farms : f # f1 ELSE f1]

MCPlotOf == [st \in Spots |-> IF st = outlying THEN farther ELSE CHOOSE p \in Plots : p # farther]

VARIABLE focus  \* the part this behaviour runs

sessionVars == vars
pageVars == <<deskVars, auditVars, alertVars, keyVars, searchVars>>
mcvars == <<sessionVars, stationVars, viewVars, inboxVars, sourceVars, pageVars, focus>>

SessionParts == {"one call", "two calls"}

Parts == SessionParts \cup
         {"hierarchy", "station", "detail", "analysis", "report",
          "page", "menu", "list", "reveal", "access",
          "accounts", "errands", "audit", "alerts", "rules", "keys", "search"}

MCInit ==
    /\ focus \in Parts
    /\ IF focus \in SessionParts THEN Init ELSE Begins /\ store = [user |-> None, loading |-> FALSE]
    /\ StationInit /\ ViewInit /\ InboxInit /\ SourceInit
    /\ AccountsInit /\ AuditInit /\ AlertsInit /\ KeysInit /\ SearchInit
    /\ viewer = IF focus = "accounts" THEN "admin" ELSE "super"
    /\ focus # "audit" => auditor
    /\ log.sieve = CHOOSE s \in Sieves : TRUE
    /\ screen = CHOOSE s \in Screens : TRUE
    /\ ring[CHOOSE k \in KeyIds : TRUE] = "active"
    /\ kind = IF focus \in {"station", "hierarchy"} THEN "monitoring"
              ELSE IF focus = "detail" THEN "detail" ELSE "dashboard"
    /\ focus # "hierarchy" => hier.scope = CHOOSE sc \in Scopes : TRUE
    /\ query.metric = CHOOSE m \in Metrics : TRUE
    /\ granted \in {[g \in Guests |-> Nodes], [g \in Guests |-> IF g = MaxGuests THEN Nodes ELSE {}]}
    /\ focus # "access" => granted[1] # {}

-----------------------------------------------------------------------------
(* The session: with one call and reloads, and with two calls without.     *)
OneCall == Next /\ call'[c2] = None

TwoCalls ==
    /\ Next /\ reloads' = 0 /\ epoch' <= 3 /\ form' # "service_unavailable"
    /\ \A s \in Sessions : session'[s].user \in {None, u1}
    /\ call'[c2] # None => call'[c2].kind = "data"
    /\ call[c1] = None /\ call'[c1] # None /\ call'[c1].kind = "data" => call[c2] # None

SessionStep ==
    \/ focus = "one call" /\ OneCall
    \/ focus = "two calls" /\ TwoCalls

(* The pages of a station: near stations only, and few late answers.       *)
Near(h) == /\ h.scope = hier.scope /\ h.farms \subseteq {f1} /\ h.plots \subseteq Plots \ {farther}
           /\ h.stations \in {{}, {s1, s2}} /\ h.station # outlying

FewLate(n) == Cardinality({a \in asks' : ~a.active}) <= n

StationStep ==
    /\ focus \in {"hierarchy", "station", "detail"} /\ StationNext
    /\ \/ focus = "hierarchy" /\ told' = told /\ (asks' \subseteq asks => asks' = asks)
            /\ Cardinality(walks') <= 2
       \/ focus = "station" /\ Near(hier') /\ FewLate(1) /\ Cardinality(walks') <= 1 /\ ~hier'.error
       \/ focus = "detail" /\ Near(hier') /\ FewLate(2)

(* The pages of a history.                                                 *)
HistoryStep ==
    \/ focus = "analysis" /\ AnalysisNext /\ Cardinality({f \in fetches' : ~CurrentFetch(f)'}) <= 1
    \/ focus = "report" /\ ReportNext

InboxStep ==
    /\ focus \in {"page", "menu"} /\ InboxNext
    /\ \/ focus = "page" /\ menu' = menu /\ {c \in mails : c.by = "menu"} \subseteq mails'
       \/ focus = "menu" /\ inbox' = inbox /\ {c \in mails : c.by = "page"} \subseteq mails'

(* The page of the sources: one errand at a time.                          *)
SourceStep ==
    \/ /\ focus = "list" /\ PanelNext
       /\ Cardinality(errands') <= 1 /\ (\A e \in errands' : e.source = o1)
       /\ panel'.items \in {{}, Origins, Origins \ {o1}}
    \/ /\ focus = "reveal" /\ (PanelNext \/ RevealNext)
       /\ Cardinality(errands') <= 1 /\ (\A e \in errands' : e.source = o1 /\ e.what = "test")
       /\ panel'.items \in {{}, Origins \ {o3}} /\ panel'.fill = 1
    \/ focus = "access" /\ (AccessNext \/ \E f \in fills : ListArrives(f)) /\ panel'.items = {}

(* The page of the accounts: its list, without what changes an account, and*)
(* one change of an account on a list that was read.                       *)
ListsOf(T) == {t \in T : t.what = "list"}

AsAtFirst(u) ==
    LET first == IF u = MaxPeople THEN Vacant ELSE Account(IF u = 3 THEN "FARMER" ELSE "ADMIN")
    IN registry[u] = IF u = 1 THEN [first EXCEPT !.super = TRUE] ELSE first

AccountsStep ==
    /\ focus \in {"accounts", "errands"} /\ AccountsNext
    /\ \/ focus = "accounts" /\ registry' = registry /\ drawer' = drawer /\ dialog' = dialog
       \/ /\ focus = "errands" /\ ~desk'.failed /\ (desk.loading => ~drawer'.open)
          /\ Cardinality(ListsOf(trips')) <= Cardinality(ListsOf(trips))
          /\ ListsOf(trips) # {} => trips' = ListsOf(trips')
          /\ registry' # registry => \A u \in People : AsAtFirst(u)
          /\ \A t \in trips' : /\ t.who = 1 => t.what = "list"
                               /\ t.who = MaxPeople => t.what \in {"create", "detail"}

(* The page of the alerts: the list of alerts, and the rules.              *)
AlertsStep ==
    /\ focus \in {"alerts", "rules"} /\ AlertsNext
    /\ \/ /\ focus = "alerts" /\ post' \in {NoPost, t1} /\ \A h \in hails' : h.what \notin {"toggle", "create"}
          /\ rules'.form = rules.form
       \/ /\ focus = "rules" /\ screen' = screen /\ ~board'.failed
          /\ \A h \in hails' : h.what \notin {"refresh", "alert"}

PageStep ==
    \/ AccountsStep /\ UNCHANGED <<auditVars, alertVars, keyVars, searchVars>>
    \/ focus = "audit" /\ AuditNext /\ UNCHANGED <<deskVars, alertVars, keyVars, searchVars>>
    \/ AlertsStep /\ UNCHANGED <<deskVars, auditVars, keyVars, searchVars>>
    \/ focus = "keys" /\ ~lost /\ KeysNext /\ UNCHANGED <<deskVars, auditVars, alertVars, searchVars>>
    \/ focus = "search" /\ SearchNext /\ UNCHANGED <<deskVars, auditVars, alertVars, keyVars>>

MCNext ==
    /\ \/ SessionStep /\ UNCHANGED <<stationVars, viewVars, inboxVars, sourceVars, pageVars>>
       \/ StationStep /\ UNCHANGED <<sessionVars, viewVars, inboxVars, sourceVars, pageVars>>
       \/ HistoryStep /\ UNCHANGED <<sessionVars, stationVars, inboxVars, sourceVars, pageVars>>
       \/ InboxStep /\ UNCHANGED <<sessionVars, stationVars, viewVars, sourceVars, pageVars>>
       \/ SourceStep /\ UNCHANGED <<sessionVars, stationVars, viewVars, inboxVars, pageVars>>
       \/ PageStep /\ UNCHANGED <<sessionVars, stationVars, viewVars, inboxVars, sourceVars>>
    /\ UNCHANGED focus

(* The fairness of the session's answers; the other parts need none, and   *)
(* have nothing of the session to load.                                    *)
SessionAnswers ==
    /\ focus \in SessionParts
    /\ Answers /\ UNCHANGED <<stationVars, viewVars, inboxVars, sourceVars, pageVars, focus>>

MCSpec == MCInit /\ [][MCNext]_mcvars /\ WF_mcvars(SessionAnswers)

-----------------------------------------------------------------------------
(* Whatever a page shows as loading or being checked waits for an answer   *)
(* that is under way and that the page will take: no page is left loading  *)
(* by an answer that it dropped as late.                                   *)
WaitsForAnAnswer ==
    /\ StationWaits /\ HistoryWaits /\ InboxWaits /\ SourcesWait
    /\ AccountsWait /\ AuditWaits /\ AlertsWait /\ KeysWait /\ SearchWaits

(* Whatever a page shows is of what is selected on it now and was asked for*)
(* after the last refusal that the page has heard of; a revealed key is of *)
(* the dialog that is open, an edit starts from the grants there are, and a*)
(* new key stays until it is saved.                                        *)
WhatIsShownIsCurrent ==
    /\ SelectionIsNested /\ StationForgotten
    /\ ChartIsOfTheQuery /\ InboxForgotten
    /\ RevealedKeyIsWatched /\ EditStartsFromTheGrants
    /\ RowsAreOfThePage /\ EventsAreOfThePage /\ AlertsAreOfTheFilters
    /\ SecretStaysUntilSaved /\ ResultsAreOfTheTerm
=============================================================================
