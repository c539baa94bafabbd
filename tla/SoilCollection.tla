--------------------------- MODULE SoilCollection ---------------------------
(***************************************************************************)
(* How the readings of a station get into the database: the background     *)
(* collector that pages through the upstream's raw history behind a        *)
(* watermark (src/backend/src/station-data/soil-collection.service.ts,     *)
(* raw-history-traversal.ts), the requests of users that store what they   *)
(* fetch (station-data.service.ts), and the retention that prunes          *)
(* (soil-reading.repository.ts).                                           *)
(*                                                                         *)
(* One station and one field.  Every write transaction takes the same      *)
(* advisory lock first, so transactions are atomic; what they write was    *)
(* fetched earlier, in a step of its own.                                  *)
(***************************************************************************)
EXTENDS Integers, FiniteSets, Sequences

CONSTANTS
    Procs,          \* processes that run a collector
    Values,
    Upstreams,      \* histories: what the upstream has recorded at each time
    MaxTime,        \* bound on the clock
    Retention,      \* 90 days
    Window,         \* the range of a run, one day
    PageSize,       \* pageSize, and a request's limit
    MaxPages,       \* soilCollectionPageLimit
    StationLimit,   \* soilRawStationLimit
    PruneBatch,     \* the limit of prune
    MaxFaults,      \* bound on lost leases, restarts and failing fetches
    Queries,        \* the ranges and orders users ask for
    None

Times == 1 .. MaxTime

ASSUME CollectionAssumption ==
    /\ MaxTime \in Nat /\ Retention \in Nat \ {0} /\ Window \in Nat \ {0}
    /\ PageSize \in Nat \ {0} /\ MaxPages \in Nat \ {0} /\ PruneBatch \in Nat \ {0}
    /\ StationLimit \in Nat /\ MaxFaults \in Nat
    /\ Queries \subseteq [begin : Times, end : Times, ascending : BOOLEAN]
    /\ None \notin Procs /\ None \notin Values /\ "GONE" \notin Procs
    /\ \A h \in Upstreams : h \in [Times -> Seq(Values \cup {None})]

VARIABLES
    now,         \* the clock
    upstream,    \* the records the upstream has or will have, per time
    lease,       \* EvaluatorLease 'soil-collector'
    run,         \* per process: its collector's run
    stored,      \* times of the SoilReading rows
    snapshot,    \* observedAt of the SoilLatestReading row
    cover,       \* SoilHistoryCoverage: end of the row with a given begin
    checkpoint,  \* the SoilCollectionCheckpoint row
    removed,     \* the source is removed
    request,     \* a user's request between its fetch and its transaction
    foreseen,    \* history: the times a request covered before they came
    faults

vars == <<now, upstream, lease, run, stored, snapshot, cover, checkpoint, removed, request, foreseen, faults>>
rows == <<stored, snapshot, cover, foreseen>>

NoRow == -1

(* A response: the readings to store, whether each record of the field was *)
(* finite and unambiguous, whether the page is full, its last timestamp.   *)
Page == [readings : SUBSET Times, complete : BOOLEAN, full : BOOLEAN, last : 0 .. MaxTime]
NoPage == [readings |-> {}, complete |-> FALSE, full |-> FALSE, last |-> 0]

Stages == {"idle", "prune", "due", "latest", "saveLatest", "page", "savePage", "finish", "end"}

(* What a checkpoint is given at the end of a run. *)
Outcomes == {"success", "budget", "saturated", "storage_limit", "upstream_error"}

Run == [stage : Stages, start : 0 .. MaxTime, begin : 0 .. MaxTime, end : 0 .. MaxTime,
        pages : 0 .. MaxPages, page : Page, outcome : Outcomes]

IdleRun == [stage |-> "idle", start |-> 0, begin |-> 0, end |-> 0, pages |-> 0,
            page |-> NoPage, outcome |-> "success"]

Checkpoint ==
    [through : 0 .. MaxTime, due : BOOLEAN,
     result : Outcomes \cup {"pending"}]

Request == [pending : BOOLEAN, begin : 0 .. MaxTime, end : 0 .. MaxTime, ahead : SUBSET Times,
            history : BOOLEAN, page : Page]

NoRequest == [pending |-> FALSE, begin |-> 0, end |-> 0, ahead |-> {}, history |-> FALSE, page |-> NoPage]

TypeOK ==
    /\ now \in 0 .. MaxTime
    /\ upstream \in Upstreams
    /\ lease \in Procs \cup {None, "GONE"}
    /\ run \in [Procs -> Run]
    /\ stored \in SUBSET Times /\ Cardinality(stored) <= StationLimit
    /\ snapshot \in 0 .. MaxTime
    /\ cover \in [0 .. MaxTime -> NoRow .. MaxTime]
    /\ checkpoint \in Checkpoint
    /\ removed \in BOOLEAN
    /\ request \in Request /\ foreseen \in SUBSET Times
    /\ faults \in 0 .. MaxFaults

Init ==
    /\ now = 0
    /\ upstream \in Upstreams
    /\ lease = None
    /\ run = [p \in Procs |-> IdleRun]
    /\ stored = {} /\ snapshot = 0
    /\ cover = [b \in 0 .. MaxTime |-> NoRow]
    /\ checkpoint = [through |-> 0, due |-> TRUE, result |-> "pending"]
    /\ removed = FALSE
    /\ request = NoRequest /\ foreseen = {}
    /\ faults = 0

-----------------------------------------------------------------------------
(* The upstream *)

Larger(a, b) == IF a > b THEN a ELSE b
Smaller(a, b) == IF a < b THEN a ELSE b

Max(T) == CHOOSE t \in T : \A u \in T : u <= t
Min(T) == CHOOSE t \in T : \A u \in T : t <= u

(* The records of some times, by their place.                              *)
Records(T) == UNION {{t} \X (1 .. Len(upstream[t])) : t \in T}
Count(T) == Cardinality(Records(T))

(* The upstream answers a query of raw history with the first PageSize     *)
(* records of the range, in the order asked for, and normalizeRawHistory   *)
(* drops the missing values and the timestamps with conflicting ones.      *)
FetchPage(begin, end, ascending) ==
    LET range == {t \in Times : begin <= t /\ t <= end /\ t <= now}
        before(t) == {u \in range : IF ascending THEN u < t ELSE u > t}
        taken(t) == Smaller(Len(upstream[t]), Larger(0, PageSize - Count(before(t))))
        seen(t) == {upstream[t][i] : i \in 1 .. taken(t)}
        times == {t \in range : taken(t) > 0}
    IN  [readings |-> {t \in range : Cardinality(seen(t) \ {None}) = 1},
         complete |-> \A t \in range : None \notin seen(t) /\ Cardinality(seen(t)) <= 1,
         full |-> Count(range) >= PageSize,
         last |-> IF times = {} THEN 0 ELSE IF ascending THEN Max(times) ELSE Min(times)]

(* The latest reading of the field, with a timestamp of its own           *)
(* (mapLatestSoil); other fields may have one when this one has not.       *)
FetchLatest ==
    LET times == {t \in Times : t <= now /\ \E i \in 1 .. Len(upstream[t]) : upstream[t][i] # None}
    IN  [NoPage EXCEPT !.readings = {t \in times : t = Max(times)}]

-----------------------------------------------------------------------------
(* The write transactions: guardWrite, canInsert and the inserts *)

(* Mutant: a page in flight is stored whatever happened to its source. *)
SourceActiveAtFetch == TRUE

SourceActive == ~ removed

(* Mutant: the collector does not check who holds the lease. *)
HoldsSomeLease(p) == lease # None

(* checkLease, in the collector's transactions. *)
HoldsLease(p) == lease = p

CanInsert(readings) == readings = {} \/ Cardinality(stored \cup readings) <= StationLimit

NewSnapshot(readings) == IF readings = {} THEN snapshot ELSE Larger(snapshot, Max(readings))

(* Beyond the limit only the snapshot and the rows that exist are updated. *)
StoreReadings(readings) ==
    /\ stored' = IF CanInsert(readings) THEN stored \cup readings ELSE stored
    /\ snapshot' = NewSnapshot(readings)

StoreCoverage(readings, begin, end, proven) ==
    cover' = IF proven /\ CanInsert(readings) THEN [cover EXCEPT ![begin] = Larger(@, end)] ELSE cover

-----------------------------------------------------------------------------
(* The collector *)

Stage(p, stage) == run' = [run EXCEPT ![p].stage = stage]

(* What the rest of a run does not read any more is dropped. *)
EndedRun == [IdleRun EXCEPT !.stage = "end"]
FinishedRun(outcome) == [IdleRun EXCEPT !.stage = "finish", !.outcome = outcome]
End(p) == run' = [run EXCEPT ![p] = EndedRun]

(* runOnce: the lease row is free or expired. *)
StartRun(p) ==
    /\ run[p].stage = "idle" /\ lease = None
    /\ lease' = p
    /\ run' = [run EXCEPT ![p] = [IdleRun EXCEPT !.stage = "prune", !.start = now]]
    /\ UNCHANGED <<now, upstream, rows, checkpoint, removed, request, faults>>

(* The oldest readings beyond the retention, a batch of them. *)
Pruned(cutoff) ==
    LET old == {t \in stored : t < cutoff}
    IN  {t \in old : Cardinality({u \in old : u < t}) < PruneBatch}

(* prune is not fenced.  A batch of coverage rows is deleted; what they    *)
(* reach beyond the cutoff becomes one row that begins there.              *)
Prune(p) ==
    LET cutoff == run[p].start - Retention
        old == {b \in 0 .. MaxTime : cover[b] # NoRow /\ b < cutoff}
    IN
    /\ run[p].stage = "prune"
    /\ stored' = stored \ Pruned(cutoff)
    /\ \E batch \in SUBSET old :
         /\ Cardinality(batch) = Smaller(PruneBatch, Cardinality(old))
         /\ LET ends == {cover[b] : b \in batch} IN
            cover' = [b \in 0 .. MaxTime |->
                        IF b \in batch THEN NoRow
                        ELSE IF b = cutoff /\ \E e \in ends : e >= cutoff THEN Max(ends \cup {cover[b]})
                        ELSE cover[b]]
    /\ Stage(p, "due")
    /\ UNCHANGED <<now, upstream, lease, snapshot, foreseen, checkpoint, removed, request, faults>>

Begin(p) == Larger(run[p].start - Retention, checkpoint.through)

(* The query of due stations, with the checkpoint they have then. *)
ReadDue(p) ==
    /\ run[p].stage = "due"
    /\ run' = [run EXCEPT ![p] =
         IF removed \/ ~ checkpoint.due THEN EndedRun
         ELSE [IdleRun EXCEPT !.stage = "latest", !.begin = Begin(p),
                              !.end = Smaller(run[p].start, Begin(p) + Window)]]
    /\ UNCHANGED <<now, upstream, lease, rows, checkpoint, removed, request, faults>>

CollectLatest(p) ==
    /\ run[p].stage = "latest"
    /\ run' = [run EXCEPT ![p] = [@ EXCEPT !.stage = "saveLatest", !.page = FetchLatest]]
    /\ UNCHANGED <<now, upstream, lease, rows, checkpoint, removed, request, faults>>

(* A transaction that finds the lease lost or the source removed writes    *)
(* nothing, and no checkpoint either: the run is over.                     *)
Rejected(p) ==
    /\ run[p].stage \in {"saveLatest", "savePage", "finish"}
    /\ ~ (HoldsLease(p) /\ SourceActive)
    /\ End(p)
    /\ UNCHANGED <<now, upstream, lease, rows, checkpoint, removed, request, faults>>

SaveLatest(p) ==
    LET readings == run[p].page.readings IN
    /\ run[p].stage = "saveLatest" /\ HoldsLease(p) /\ SourceActive
    /\ StoreReadings(readings)
    /\ run' = [run EXCEPT ![p] =
         IF CanInsert(readings) THEN [@ EXCEPT !.stage = "page", !.page = NoPage]
         ELSE FinishedRun("storage_limit")]
    /\ UNCHANGED <<now, upstream, lease, cover, foreseen, checkpoint, removed, request, faults>>

(* The page that a run asks for next: raw, in ascending order.             *)
NextPage(r) == FetchPage(r.begin, r.end, TRUE)

CollectPage(p) ==
    /\ run[p].stage = "page"
    /\ run' = [run EXCEPT ![p] = [@ EXCEPT !.stage = "savePage", !.page = NextPage(run[p])]]
    /\ UNCHANGED <<now, upstream, lease, rows, checkpoint, removed, request, faults>>

(* A full page whose records all have the timestamp it was asked from. *)
Saturated(begin, page) == page.full /\ page.last <= begin

(* Mutant: a full page proves the timestamp it ends in. *)
CoveredThroughLast(end, page) == IF page.full THEN page.last ELSE end

(* A full page proves the range before its last timestamp, of which there  *)
(* may be more records.                                                    *)
CoveredTo(end, page) == IF page.full THEN page.last - 1 ELSE end

(* Mutant: the last page of a range does not move the watermark. *)
ResumeAtBegin(end, page) == IF page.full THEN page.last ELSE checkpoint.through

ResumeAt(end, page) == IF page.full THEN page.last ELSE end

(* Mutant: the watermark moves on over a page that was not stored. *)
WatermarkPastLimit(r) == ResumeAt(r.end, r.page)

(* capacityOptions: beyond the limit there is no resumeAt. *)
Watermark(r) == IF CanInsert(r.page.readings) THEN ResumeAt(r.end, r.page) ELSE checkpoint.through

AfterPage(r) ==
    LET pages == r.pages + 1 IN
    IF ~ CanInsert(r.page.readings) THEN EndedRun
    ELSE IF ~ r.page.full THEN FinishedRun("success")
    ELSE IF Saturated(r.begin, r.page) THEN FinishedRun("saturated")
    ELSE IF pages >= MaxPages THEN FinishedRun("budget")
    ELSE [r EXCEPT !.stage = "page", !.begin = ResumeAt(r.end, r.page), !.pages = pages, !.page = NoPage]

(* ingestHistory: readings, coverage and checkpoint in one transaction. *)
SavePage(p) ==
    LET r == run[p]
        proven == r.page.complete /\ ~ Saturated(r.begin, r.page)
    IN
    /\ r.stage = "savePage" /\ HoldsLease(p) /\ SourceActive
    /\ StoreReadings(r.page.readings)
    /\ StoreCoverage(r.page.readings, r.begin, CoveredTo(r.end, r.page), proven)
    /\ checkpoint' = [through |-> Watermark(r), due |-> FALSE,
                      result |-> IF CanInsert(r.page.readings) THEN "success" ELSE "storage_limit"]
    /\ run' = [run EXCEPT ![p] = AfterPage(r)]
    /\ UNCHANGED <<now, upstream, lease, foreseen, removed, request, faults>>

(* The upstream times out, answers with an error, or with a response that  *)
(* mapLatestSoil or normalizeRawHistory finds invalid.                     *)
UpstreamFails(p) ==
    /\ run[p].stage \in {"latest", "page"}
    /\ faults < MaxFaults /\ faults' = faults + 1
    /\ run' = [run EXCEPT ![p] = FinishedRun("upstream_error")]
    /\ UNCHANGED <<now, upstream, lease, rows, checkpoint, removed, request>>

(* updateCollectionCheckpoint: the checkpoint that ends a traversal, and   *)
(* the one after a failure or a snapshot at the storage limit.             *)
SaveOutcome(p) ==
    /\ run[p].stage = "finish" /\ HoldsLease(p) /\ SourceActive
    /\ checkpoint' = [checkpoint EXCEPT !.due = FALSE, !.result = run[p].outcome]
    /\ End(p)
    /\ UNCHANGED <<now, upstream, lease, rows, removed, request, faults>>

EndRun(p) ==
    /\ run[p].stage = "end"
    /\ lease' = IF lease = p THEN None ELSE lease
    /\ run' = [run EXCEPT ![p] = IdleRun]
    /\ UNCHANGED <<now, upstream, rows, checkpoint, removed, request, faults>>

(* The heartbeat failed or learned that the lease is lost, or the process  *)
(* is stopping: canCommit is false between two steps.                      *)
StopRun(p) ==
    /\ run[p].stage \notin {"idle", "end"}
    /\ faults < MaxFaults /\ faults' = faults + 1
    /\ End(p)
    /\ UNCHANGED <<now, upstream, lease, rows, checkpoint, removed, request>>

(* A process stops without releasing its lease. *)
Restart(p) ==
    /\ run[p].stage # "idle"
    /\ faults < MaxFaults /\ faults' = faults + 1
    /\ run' = [run EXCEPT ![p] = IdleRun]
    /\ lease' = IF lease = p THEN "GONE" ELSE lease
    /\ UNCHANGED <<now, upstream, rows, checkpoint, removed, request>>

(* The holder missed its heartbeats for the whole lease time. *)
LeaseExpires ==
    /\ lease \in Procs
    /\ faults < MaxFaults /\ faults' = faults + 1
    /\ lease' = None
    /\ UNCHANGED <<now, upstream, run, rows, checkpoint, removed, request>>

OrphanExpires ==
    /\ lease = "GONE" /\ lease' = None
    /\ UNCHANGED <<now, upstream, run, rows, checkpoint, removed, request, faults>>

(* nextAttemptAt passes. *)
BecomesDue ==
    /\ ~ checkpoint.due
    /\ checkpoint' = [checkpoint EXCEPT !.due = TRUE]
    /\ UNCHANGED <<now, upstream, lease, run, rows, removed, request, faults>>

-----------------------------------------------------------------------------
(* Users *)

Tick ==
    /\ now < MaxTime /\ now' = now + 1
    /\ UNCHANGED <<upstream, lease, run, rows, checkpoint, removed, request, faults>>

(* getHistory: requireActive, then a raw page in either order.  The range  *)
(* may end in the future.                                                  *)
ReadHistory(q) ==
    /\ ~ request.pending /\ ~ removed
    /\ q.begin <= q.end
    /\ request' = [pending |-> TRUE, begin |-> q.begin, end |-> q.end, history |-> TRUE,
                   ahead |-> {t \in Times : now < t /\ t <= q.end}, page |-> FetchPage(q.begin, q.end, q.ascending)]
    /\ UNCHANGED <<now, upstream, lease, run, rows, checkpoint, removed, faults>>

ReadLatest ==
    /\ ~ request.pending /\ ~ removed
    /\ request' = [NoRequest EXCEPT !.pending = TRUE, !.page = FetchLatest]
    /\ UNCHANGED <<now, upstream, lease, run, rows, checkpoint, removed, faults>>

(* The request's transaction: no lease, no checkpoint, and coverage of the *)
(* whole range only when the page is not full.                             *)
SaveRequest ==
    LET page == request.page
        proven == request.history /\ page.complete /\ ~ page.full
    IN
    /\ request.pending
    /\ request' = NoRequest
    /\ IF SourceActive
         THEN /\ StoreReadings(page.readings)
              /\ StoreCoverage(page.readings, request.begin, request.end, proven)
              /\ foreseen' = foreseen \cup (IF proven THEN request.ahead ELSE {})
         ELSE UNCHANGED rows
    /\ UNCHANGED <<now, upstream, lease, run, checkpoint, removed, faults>>

RemoveSource ==
    /\ ~ removed /\ removed' = TRUE
    /\ UNCHANGED <<now, upstream, lease, run, rows, checkpoint, request, faults>>

-----------------------------------------------------------------------------
CollectorStep(p) ==
    \/ Prune(p) \/ ReadDue(p) \/ CollectLatest(p) \/ SaveLatest(p) \/ CollectPage(p)
    \/ SavePage(p) \/ SaveOutcome(p) \/ Rejected(p) \/ EndRun(p)

Next ==
    \/ \E p \in Procs :
         StartRun(p) \/ CollectorStep(p) \/ UpstreamFails(p) \/ StopRun(p) \/ Restart(p)
    \/ LeaseExpires \/ OrphanExpires \/ BecomesDue \/ Tick
    \/ \E q \in Queries : ReadHistory(q)
    \/ ReadLatest \/ SaveRequest \/ RemoveSource

(* The timer of each process fires again and again, a run that is not cut  *)
(* off gets through its steps, a lease left behind expires, and the next   *)
(* attempt comes.                                                          *)
Fairness ==
    /\ \A p \in Procs : WF_vars(StartRun(p)) /\ WF_vars(CollectorStep(p))
    /\ WF_vars(OrphanExpires) /\ WF_vars(BecomesDue)

Spec == Init /\ [][Next]_vars /\ Fairness

-----------------------------------------------------------------------------
(* What the upstream recorded without ambiguity at a time, and what it did *)
(* not record unambiguously.                                               *)
Recorded(t) == {upstream[t][i] : i \in 1 .. Len(upstream[t])}
Sound(t) == Cardinality(Recorded(t)) = 1 /\ None \notin Recorded(t)
Empty(t) == upstream[t] = <<>>

Kept(t) == now - Retention <= t

(* The rows of coverage that a query of a history meets within the         *)
(* retention, clipped to it (StoredHistoryRepository.coverageRows).        *)
CoverageRows(begin, end) ==
    LET cutoff == now - Retention
    IN  {[begin |-> Larger(b, cutoff), end |-> cover[b]] :
            b \in {x \in 0 .. MaxTime : /\ cover[x] # NoRow /\ x <= end
                                        /\ cover[x] >= Larger(begin, cutoff) /\ end >= cutoff}}

(* historyCoverage: the rows, clipped to the query and merged; rows that   *)
(* follow one another without a gap are one range.                         *)
ProvenTimes(begin, end) ==
    UNION {Larger(begin, r.begin) .. Smaller(end, r.end) : r \in CoverageRows(begin, end)}

HistoryCoverage(begin, end) ==
    IF ProvenTimes(begin, end) = begin .. end THEN "complete"
    ELSE IF CoverageRows(begin, end) = {} THEN "unknown" ELSE "partial"

(* Coverage is a proof: of a history that is called complete, every time   *)
(* is stored unless the upstream has nothing there, and what it has was    *)
(* complete and unambiguous.  Excepted are the times that a request        *)
(* covered before they came: readings may have arrived since.              *)
CoverageIsStored ==
    \A begin, end \in Times : begin <= end /\ HistoryCoverage(begin, end) = "complete" =>
        \A t \in (begin .. end) \ foreseen : Empty(t) \/ (Sound(t) /\ t \in stored)

(* The collector never comes back behind its watermark, so everything      *)
(* sound before it has to be stored already: pages that end in the middle  *)
(* of a timestamp, runs cut off at any point and storage limits included.  *)
WatermarkIsStored ==
    \A t \in Times : t < checkpoint.through /\ Kept(t) /\ Sound(t) => t \in stored

(* A run that lost its lease and resumes does not take the watermark of    *)
(* its successor back.                                                     *)
WatermarkNeverGoesBack == [][checkpoint'.through >= checkpoint.through]_vars

(* A response in flight while its source is removed is not stored. *)
NothingIsStoredAfterRemoval ==
    [][removed => stored' \subseteq stored /\ snapshot' = snapshot
                  /\ checkpoint'.through = checkpoint.through]_vars

(* Every sound record within the retention is stored in the end, unless    *)
(* the source is removed or the collector reports why it cannot go on.     *)
CatchesUp ==
    \A t \in Times :
      Sound(t) /\ t <= now ~>
        \/ t \in stored \/ ~ Kept(t) \/ removed
        \/ checkpoint.result \in {"saturated", "storage_limit"}
=============================================================================
