---------------------------- MODULE MCStationServing ----------------------------
(***************************************************************************)
(* What a backend process serves of the stations, for TLC: the cache of    *)
(* latest readings, the checks of a source, the windows of the API keys    *)
(* and the pages of a history share no state, so a behaviour runs one of   *)
(* them, chosen at its start, and the others stay as they are.             *)
(***************************************************************************)
EXTENDS LatestReadings, SourceHealth, ClientRateLimit, HistoryPages, TLC

CONSTANTS one,             \* the station of the runs that need one
          MaxAsks,         \* bound on the requests and fetches of readings
          MaxDisturbances  \* bound on the steps that disturb the checks

MCLimit == [k \in ApiKeys |-> 2]

Reading(t, v, c) == [ts |-> t, value |-> v, copy |-> c]

(* Two readings of time 2 with the same values, and one with others.       *)
MCRecords == {Reading(1, 1, 1), Reading(2, 1, 1), Reading(2, 1, 2), Reading(2, 2, 1),
              Reading(3, 1, 1), Reading(4, 1, 1)}

MCSymmetry == Permutations(Stations \ {one}) \cup Permutations(Requests)

VARIABLES focus,  \* the part this behaviour runs
          spent   \* the bounded steps so far

mcvars == <<readingVars, healthVars, limitVars, historyVars, focus, spent>>

Parts == {"one station", "many stations", "checks", "limits", "pages"}

MCInit ==
    /\ ReadingInit /\ HealthInit /\ LimitInit
    /\ focus \in Parts /\ spent = 0
    /\ IF focus = "pages"
       THEN \E S \in SUBSET MCRecords : Cardinality(S) = 4 /\ Numbered(S) /\ HistoryInit(S)
       ELSE HistoryInit({})

Unlimited == UNCHANGED spent
Spend(max) == spent < max /\ spent' = spent + 1

Ask(st) == \E q \in Requests : GetLatest(q, st)

LoadStep(st) == Respond(st) \/ Ingest(st) \/ Loaded(st) \/ LoadFails(st) \/ LoadRejected(st)

(* One station, with everything that happens to it.                        *)
OneStation ==
    \/ (Ask(one) \/ FetchElsewhere(one)) /\ Spend(MaxAsks - 1)
    \/ /\ LoadStep(one) \/ AnswerStep \/ RespondElsewhere \/ IngestElsewhere
          \/ Measure(one) \/ RemoveSource(one) \/ Tick
       /\ Unlimited

(* More stations than entries; nothing is measured or removed.             *)
ManyStations ==
    \E st \in Stations :
        \/ Ask(st) /\ Spend(MaxAsks)
        \/ (LoadStep(st) \/ AnswerStep \/ Tick) /\ Unlimited

Checks ==
    \/ /\ (\E q \in Readers : CheckStep(q)) \/ TestAnswered \/ FindTested \/ RecordTest
          \/ ClientAnswers \/ MarkConnected \/ MomentPasses
       /\ Unlimited
    \/ /\ (\E q \in Readers : GrantChanges(q)) \/ ResultEvicted \/ StartTest \/ ResolveClient
          \/ Removed \/ UpstreamTurns
       /\ Spend(MaxDisturbances)

MCNext ==
    /\ \/ focus = "one station" /\ OneStation /\ UNCHANGED <<healthVars, limitVars, historyVars>>
       \/ focus = "many stations" /\ ManyStations /\ UNCHANGED <<healthVars, limitVars, historyVars>>
       \/ focus = "checks" /\ Checks /\ UNCHANGED <<readingVars, limitVars, historyVars>>
       \/ focus = "limits" /\ LimitNext /\ Unlimited /\ UNCHANGED <<readingVars, healthVars, historyVars>>
       \/ focus = "pages" /\ HistoryNext /\ Unlimited /\ UNCHANGED <<readingVars, healthVars, limitVars>>
    /\ UNCHANGED focus

MCSpec == MCInit /\ [][MCNext]_mcvars
=============================================================================
