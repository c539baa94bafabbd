---------------------------- MODULE StationPages ----------------------------
(***************************************************************************)
(* The pages of one station: the farm dashboard and the monitoring page,   *)
(* which select the station in the hierarchy of the user's scope, and the  *)
(* detail page, whose route names it.  Each shows the latest reading and a *)
(* sibling (alerts, a day of history, or the station's metadata), asked    *)
(* for separately, and keeps an old reading through a transient error.     *)
(*                                                                         *)
(* A change of state and the render that follows it are one step: React    *)
(* batches the updates of a handler and runs its effects before the next.  *)
(***************************************************************************)
EXTENDS Naturals, FiniteSets

CONSTANTS
    Scopes,     \* scope keys: a user with its role and assignments
    Farms, Plots, Spots, \* Spots: the stations
    FarmOf,     \* the farm of a plot
    PlotOf,     \* the plot of a station
    Null,
    MaxWalks,   \* bound on the loads of the hierarchy
    MaxVisits,  \* bound on reloadKey
    MaxRefusals \* bound on the refusals of one station that a page is told of

ASSUME StationPagesAssumption ==
    /\ FarmOf \in [Plots -> Farms] /\ PlotOf \in [Spots -> Plots]
    /\ Null \notin Farms \cup Plots \cup Spots
    /\ MaxWalks \in Nat /\ MaxVisits \in Nat /\ MaxRefusals \in Nat

VARIABLES
    kind,    \* the page
    hier,    \* HierarchyState
    walkNo,  \* activeRequestId, counted through every coordinator
    walks,   \* loads of the hierarchy under way
    wish,    \* reloadPreference
    data,    \* FarmerStationState
    visit,   \* reloadKey
    asks,    \* calls for the station's data under way
    told     \* history: the refusals of each station that the page has heard of

hierVars == <<walkNo, walks, wish>>
stationVars == <<kind, hier, hierVars, data, visit, asks, told>>

-----------------------------------------------------------------------------
NoWish == [farm |-> Null, plot |-> Null, station |-> Null]

InitialHierarchy(sc) ==
    [scope |-> sc, farms |-> {}, plots |-> {}, stations |-> {}, farm |-> Null, plot |-> Null,
     station |-> Null, loading |-> TRUE, error |-> FALSE]

Walk(n, sc, w) == [id |-> n, scope |-> sc, level |-> "farms", farm |-> Null, plot |-> Null,
                   wish |-> w, whole |-> TRUE]

(* createInitialFarmerState: the last reading with fields of the same      *)
(* station stays, marked as retained.                                      *)
InitialData(st, v, prev) ==
    LET same == prev # Null /\ prev.station = st
        kept == IF ~same THEN Null
                ELSE IF prev.latest # Null /\ prev.latest.full THEN prev.latest ELSE prev.fallback
    IN [station |-> st, visit |-> v, latest |-> kept, fallback |-> kept, retained |-> kept # Null,
        latestPending |-> TRUE, latestError |-> FALSE,
        sibling |-> Null, siblingPending |-> TRUE, siblingError |-> FALSE, denied |-> FALSE]

Readings == [station : Spots, told : Nat, full : BOOLEAN]

StationStates ==
    [station : Spots, visit : Nat, latest : Readings \cup {Null}, fallback : Readings \cup {Null},
     retained : BOOLEAN, latestPending : BOOLEAN, latestError : BOOLEAN, sibling : Nat \cup {Null},
     siblingPending : BOOLEAN, siblingError : BOOLEAN, denied : BOOLEAN]

Wishes == [farm : Farms \cup {Null}, plot : Plots \cup {Null}, station : Spots \cup {Null}]

Walks == [id : Nat, scope : Scopes, level : {"farms", "plots", "stations"}, farm : Farms \cup {Null},
          plot : Plots \cup {Null}, wish : Wishes, whole : BOOLEAN]

ASSUME NullIsNoObject == Null \notin StationStates \cup Walks

(* What the render does with the state of the station.                     *)
Synced(h, v) ==
    IF h.station = Null THEN (IF h.loading THEN data ELSE Null)
    ELSE IF data = Null \/ data.station # h.station \/ data.visit # v
         THEN InitialData(h.station, v, data) ELSE data

Call(what, st, v) == [what |-> what, station |-> st, visit |-> v, told |-> told[st], active |-> TRUE]

BothCalls(st, v) == {Call("latest", st, v), Call("sibling", st, v)}

(* A render with the hierarchy h and reloadKey v: the effect runs when the *)
(* station or the key has changed, and turns the earlier calls inactive.   *)
Render(h, v) ==
    /\ hier' = h /\ visit' = v /\ data' = Synced(h, v)
    /\ asks' = IF h.station = hier.station /\ v = visit THEN asks
               ELSE {[a EXCEPT !.active = FALSE] : a \in asks}
                    \cup (IF h.station = Null THEN {} ELSE BothCalls(h.station, v))
    /\ UNCHANGED <<kind, told>>

StationInit ==
    /\ told = [st \in Spots |-> 0] /\ visit = 0 /\ wish = NoWish
    /\ \/ /\ kind \in {"dashboard", "monitoring"}
          /\ \E sc \in Scopes : hier = InitialHierarchy(sc) /\ walks = {Walk(1, sc, NoWish)}
          /\ walkNo = 1 /\ data = Null /\ asks = {}
       \/ /\ kind = "detail"
          /\ \E st \in Spots, sc \in Scopes :
               /\ hier = [InitialHierarchy(sc) EXCEPT !.station = st, !.loading = FALSE]
               /\ data = InitialData(st, 0, Null)
               /\ asks = {[what |-> w, station |-> st, visit |-> 0, told |-> 0, active |-> TRUE] :
                            w \in {"latest", "sibling"}}
          /\ walks = {} /\ walkNo = 0

(* The state is of the station that is selected now.                       *)
CurrentData == data # Null /\ hier.station # Null /\ data.station = hier.station /\ data.visit = visit

-----------------------------------------------------------------------------
(* The hierarchy.  A load that is not the newest of its scope is dropped.  *)
(* Mutant: every load is taken for the newest.                             *)
AnyWalk(w) == TRUE

CurrentWalk(w) == w.id = walkNo /\ w.scope = hier.scope

Browsing == kind # "detail"

NoPlots(h) == [h EXCEPT !.plots = {}, !.stations = {}, !.plot = Null, !.station = Null]

NoFarms(h) == [NoPlots(h) EXCEPT !.farms = {}, !.farm = Null]

NoStations(h) == [h EXCEPT !.stations = {}, !.station = Null]

Settled(h, failed) == [h EXCEPT !.loading = FALSE, !.error = failed]

Started(h) == [h EXCEPT !.loading = TRUE, !.error = FALSE]

(* The preferred item when the list has it, else the first of the list.    *)
Picks(S, preferred) == IF preferred \in S THEN {preferred} ELSE S

FetchFails(w) ==
    Settled(IF w.level = "farms" THEN NoFarms(hier)
            ELSE IF w.whole THEN NoPlots(hier) ELSE NoStations(hier), TRUE)

Finish(w, h) ==
    /\ walks' = walks \ {w} /\ Render(h, visit)

GoOn(w, next, h) ==
    /\ walks' = (walks \ {w}) \cup {next} /\ Render(h, visit)

FarmsArrive(w, S) ==
    /\ w.level = "farms"
    /\ IF S = {} THEN Finish(w, Settled(NoFarms(hier), FALSE))
       ELSE \E f \in Picks(S, w.wish.farm) :
              GoOn(w, [w EXCEPT !.level = "plots", !.farm = f], [hier EXCEPT !.farms = S, !.farm = f])

PlotsArrive(w, S) ==
    /\ w.level = "plots"
    /\ IF \E p \in S : FarmOf[p] # w.farm THEN Finish(w, FetchFails(w))
       ELSE IF S = {} THEN Finish(w, Settled(NoPlots(hier), FALSE))
       ELSE \E p \in Picks(S, w.wish.plot) :
              GoOn(w, [w EXCEPT !.level = "stations", !.plot = p], [hier EXCEPT !.plots = S, !.plot = p])

StationsArrive(w, S) ==
    /\ w.level = "stations"
    /\ IF \E st \in S : PlotOf[st] # w.plot \/ FarmOf[PlotOf[st]] # w.farm
       THEN Finish(w, FetchFails(w))
       ELSE \E st \in IF S = {} THEN {Null} ELSE Picks(S, w.wish.station) :
              Finish(w, Settled([hier EXCEPT !.stations = S, !.station = st], FALSE))

(* A list, all its pages; one that fails, that repeats a cursor or has too *)
(* many pages; or one that the load is no longer interested in.            *)
WalkStep(w) ==
    /\ w \in walks /\ UNCHANGED <<walkNo, wish>>
    /\ \/ CurrentWalk(w) /\ \E S \in SUBSET Farms : FarmsArrive(w, S)
       \/ CurrentWalk(w) /\ \E S \in SUBSET Plots : PlotsArrive(w, S)
       \/ CurrentWalk(w) /\ \E S \in SUBSET Spots : StationsArrive(w, S)
       \/ CurrentWalk(w) /\ Finish(w, FetchFails(w))
       \/ ~CurrentWalk(w) /\ walks' = walks \ {w} /\ Render(hier, visit)

Begin(w, h, v) ==
    /\ walkNo < MaxWalks /\ walkNo' = walkNo + 1
    /\ walks' = IF w = Null THEN walks ELSE walks \cup {w}
    /\ Render(h, v)

SelectFarm(f) ==
    /\ Browsing
    /\ IF f \in hier.farms
       THEN Begin([Walk(walkNo + 1, hier.scope, NoWish) EXCEPT !.level = "plots", !.farm = f],
                  Started([NoPlots(hier) EXCEPT !.farm = f]), visit)
       ELSE Begin(Null, Settled([NoPlots(hier) EXCEPT !.farm = Null], FALSE), visit)
    /\ UNCHANGED wish

SelectPlot(p) ==
    /\ Browsing /\ hier.farm # Null
    /\ IF p \in hier.plots
       THEN Begin([Walk(walkNo + 1, hier.scope, NoWish) EXCEPT !.level = "stations",
                        !.farm = hier.farm, !.plot = p, !.whole = FALSE],
                  Started([NoStations(hier) EXCEPT !.plot = p]), visit)
       ELSE Begin(Null, Settled([NoStations(hier) EXCEPT !.plot = Null], FALSE), visit)
    /\ UNCHANGED wish

SelectStation(st) ==
    /\ Browsing /\ hier.plot # Null /\ st \in hier.stations \cup {Null}
    /\ Render([hier EXCEPT !.station = st], visit)
    /\ UNCHANGED hierVars

(* Another user or other assignments: a coordinator of its own.            *)
ScopeChanges(sc) ==
    /\ Browsing /\ sc # hier.scope
    /\ Begin(Walk(walkNo + 1, sc, NoWish), InitialHierarchy(sc), visit)
    /\ wish' = NoWish

(* The Refresh button: the hierarchy and the station's data.               *)
RefreshDisabled ==
    \/ kind = "dashboard" /\ (hier.loading \/ (CurrentData /\ data.latestPending))
    \/ kind = "monitoring" /\ (hier.station = Null \/ ~CurrentData \/ data.latestPending)

ReloadHierarchy(v) ==
    /\ wish' = IF hier.farm = Null THEN wish
               ELSE [farm |-> hier.farm, plot |-> hier.plot, station |-> hier.station]
    /\ Begin(Walk(walkNo + 1, hier.scope, wish'), Started(NoFarms(hier)), v)

RefreshPage ==
    /\ Browsing /\ ~RefreshDisabled /\ visit < MaxVisits
    /\ ReloadHierarchy(visit + 1)

(* The Retry of a hierarchy that failed, on the monitoring page.           *)
RetryHierarchy == kind = "monitoring" /\ hier.error /\ ReloadHierarchy(visit)

(* The Retry of the station's data that failed, and the Refresh button of  *)
(* the detail page: the station's data only.                               *)
Retry ==
    /\ visit < MaxVisits /\ hier.station # Null
    /\ \/ kind = "monitoring" /\ CurrentData /\ (data.latestError \/ data.siblingError)
       \/ kind = "detail"
    /\ Render(hier, visit + 1)
    /\ UNCHANGED hierVars

OpenStation(st) ==
    /\ kind = "detail"
    /\ Render([hier EXCEPT !.station = st], visit)
    /\ UNCHANGED hierVars

-----------------------------------------------------------------------------
(* The station's data.  purgeStation.  Mutant: the fallback is kept.       *)
PurgeLatestOnly(d) == [d EXCEPT !.latest = Null, !.retained = FALSE, !.sibling = Null,
                                !.latestPending = FALSE, !.siblingPending = FALSE, !.denied = TRUE]

Purge(d) == [d EXCEPT !.latest = Null, !.fallback = Null, !.retained = FALSE, !.sibling = Null,
                      !.latestPending = FALSE, !.siblingPending = FALSE, !.denied = TRUE]

Outcomes == {"full", "empty", "mismatch", "transient", "refused", "error"}

(* mergeFarmerLatest                                                       *)
WithLatest(d, reading) ==
    [d EXCEPT !.latest = reading, !.fallback = IF reading.full THEN reading ELSE Null,
              !.retained = FALSE, !.latestPending = FALSE, !.latestError = FALSE]

WithoutLatest(d, kept) ==
    [d EXCEPT !.latest = kept, !.fallback = kept, !.retained = kept # Null,
              !.latestPending = FALSE, !.latestError = TRUE]

MergeLatest(d, a, out) ==
    CASE out \in {"full", "empty"} ->
           WithLatest(d, [station |-> a.station, told |-> a.told, full |-> out = "full"])
      [] out = "transient" -> WithoutLatest(d, d.fallback)
      [] out = "error" -> WithoutLatest(d, Null)
      [] out \in {"refused", "mismatch"} -> Purge(WithoutLatest(d, Null))

(* mergeFarmerSibling, and mergeStationMetadata, for which an answer of    *)
(* another station is a refusal.                                           *)
MergeSibling(d, a, out) ==
    LET failed == [d EXCEPT !.sibling = Null, !.siblingPending = FALSE, !.siblingError = TRUE] IN
    CASE out \in {"full", "empty"} -> [d EXCEPT !.sibling = a.told, !.siblingPending = FALSE,
                                                !.siblingError = FALSE]
      [] out \in {"transient", "error"} -> failed
      [] out \in {"refused", "mismatch"} -> Purge(failed)

(* The fence of a merge: the station, the key and access.                  *)
Takes(a) == a.active /\ data # Null /\ data.station = a.station /\ data.visit = a.visit /\ ~data.denied

DataArrives(a, out) ==
    /\ a \in asks /\ asks' = asks \ {a}
    /\ out = "mismatch" => a.what = "latest" \/ kind = "detail"
    /\ data' = IF ~Takes(a) THEN data
               ELSE IF a.what = "latest" THEN MergeLatest(data, a, out) ELSE MergeSibling(data, a, out)
    /\ out = "refused" /\ a.active => told[a.station] < MaxRefusals
    /\ told' = IF out = "refused" /\ a.active THEN [told EXCEPT ![a.station] = @ + 1] ELSE told
    /\ UNCHANGED <<kind, hier, hierVars, visit>>

-----------------------------------------------------------------------------
(* What a page shows.  formatLatestSummaryState and                        *)
(* formatLatestConnectionStatus                                            *)
Summary ==
    IF ~CurrentData THEN "Unavailable"
    ELSE IF data.latestPending THEN "Refreshing"
    ELSE IF data.latest = Null THEN "Unavailable"
    ELSE IF ~data.latest.full THEN "Empty"
    ELSE IF data.retained THEN "Stale" ELSE "Live"

(* fenceStationDetailView, and the same selection in the other pages.      *)
ShownReading == IF CurrentData /\ ~data.denied THEN data.latest ELSE Null

ShownSibling == IF CurrentData /\ ~data.denied THEN data.sibling ELSE Null

StationNext ==
    \/ \E w \in walks : WalkStep(w)
    \/ \E f \in Farms \cup {Null} : SelectFarm(f)
    \/ \E p \in Plots \cup {Null} : SelectPlot(p)
    \/ \E st \in Spots \cup {Null} : SelectStation(st)
    \/ \E sc \in Scopes : ScopeChanges(sc)
    \/ RefreshPage \/ RetryHierarchy \/ Retry
    \/ \E st \in Spots : OpenStation(st)
    \/ \E a \in asks, out \in Outcomes : DataArrives(a, out)

-----------------------------------------------------------------------------
(* A page that shows a station as loading has a call under way whose       *)
(* answer it will take; so has a hierarchy that is loading.                *)
StationWaits ==
    /\ hier.loading => \E w \in walks : CurrentWalk(w)
    /\ CurrentData /\ data.latestPending =>
         \E a \in asks : a.what = "latest" /\ a.active /\ Takes(a)
    /\ CurrentData /\ data.siblingPending =>
         \E a \in asks : a.what = "sibling" /\ a.active /\ Takes(a)

(* Once a page has heard that the user may not read a station, it shows    *)
(* nothing of it that was asked for before, however it is reloaded.        *)
StationForgotten ==
    /\ ShownReading # Null => /\ ShownReading.station = hier.station
                              /\ ShownReading.told = told[hier.station]
    /\ ShownSibling # Null => ShownSibling = told[hier.station]

(* The selection is a path of the hierarchy, and of one scope's lists.     *)
SelectionIsNested ==
    Browsing =>
    /\ hier.station # Null => hier.station \in hier.stations
    /\ hier.plot # Null => hier.plot \in hier.plots /\ FarmOf[hier.plot] = hier.farm
    /\ hier.farm # Null => hier.farm \in hier.farms
    /\ \A st \in hier.stations : PlotOf[st] = hier.plot
    /\ \A p \in hier.plots : FarmOf[p] = hier.farm
=============================================================================
