--------------------------- MODULE LatestReadings ---------------------------
(***************************************************************************)
(* The latest reading of a station: a request looks it up in a bounded     *)
(* cache, joins the load that is under way or starts one, and answers with *)
(* the snapshot of the database, which responses of other requests and of  *)
(* the collector write as well (bounded-cache.ts, StationDataService       *)
(* .getLatest, SoilReadingRepository.ingestLatest).                        *)
(***************************************************************************)
EXTENDS Naturals, FiniteSets

CONSTANTS Stations,      \* one cache key each: the same fields are asked for
          Requests,      \* the requests of a backend process
          None,
          MaxEntries,    \* soilCacheMaxEntries
          Ttl,           \* soilLatestCacheTtlMs
          StaleIfError,  \* soilStaleIfErrorMs
          MaxTime,       \* bound on the clock
          MaxSample      \* bound on the samples a station measures

ASSUME CacheAssumption ==
    /\ MaxEntries \in Nat \ {0} /\ Ttl \in Nat /\ StaleIfError \in Nat
    /\ None \notin Stations \cup Requests \cup [at : Nat, rev : Nat, fetched : Nat]

VARIABLES
    clock,      \* StationDataClock
    measured,   \* the sample the upstream holds, by station
    snapshot,   \* SoilLatestReading, by station
    gone,       \* the stations whose source is removed
    entries,    \* BoundedAsyncCache.entries, by the stations that have one;
                \* "later" are those touched since, the order of the Map
    inFlight,   \* BoundedAsyncCache.inFlight: the load of each station
    collector,  \* a response on its way to the database outside this cache
    reading,    \* where each request is
    shown,      \* history: the newest observation answered, by station
    committed   \* history: the responses written, by station

readingVars == <<clock, measured, snapshot, gone, entries, inFlight, collector,
                 reading, shown, committed>>

Idle == [phase |-> "idle", station |-> None, sample |-> None, stale |-> FALSE, seen |-> 0]

ReadingInit ==
    /\ clock = 0
    /\ measured = [st \in Stations |-> [at |-> 1, rev |-> 0]]
    /\ snapshot = [st \in Stations |-> None]
    /\ gone = {}
    /\ entries = [st \in {} |-> None]
    /\ inFlight = [st \in Stations |-> None]
    /\ collector = None
    /\ reading = [q \in Requests |-> Idle]
    /\ shown = [st \in Stations |-> 0]
    /\ committed = [st \in Stations |-> {}]

-----------------------------------------------------------------------------
(* The cache.                                                              *)

Held(st) ==
    IF st \in DOMAIN entries THEN [sample |-> entries[st].sample, at |-> entries[st].at] ELSE None
Loading == {st \in Stations : inFlight[st] # None}

Fresh(e) == e # None /\ clock < e.at + Ttl
InTime(e) == clock <= e.at + Ttl + StaleIfError
Servable(e) == e # None /\ InTime(e)

Only(cache, S) == [x \in S |-> [cache[x] EXCEPT !.later = @ \cap S]]

Touched(cache, st, e) ==
    [x \in DOMAIN cache \cup {st} |->
        IF x = st THEN [sample |-> e.sample, at |-> e.at, later |-> {}]
        ELSE [cache[x] EXCEPT !.later = @ \cup {st}]]

Unexpired(cache) == Only(cache, {x \in DOMAIN cache : InTime(cache[x])})

Youngest(cache, n) == Only(cache, {x \in DOMAIN cache : Cardinality(cache[x].later) < n})

(* Mutant: only the entries too old even for an error go.                  *)
TrimmedByAge(cache, st) == Unexpired(cache)

(* trim: the entries too old even for an error go, then the oldest ones    *)
(* until there is room, unless the station has its entry already.          *)
Trimmed(cache, st) ==
    IF st \in DOMAIN Unexpired(cache) THEN Unexpired(cache) ELSE Youngest(Unexpired(cache), MaxEntries - 1)

Waiting(st) == {q \in Requests : reading[q].phase = "waiting" /\ reading[q].station = st}

Resolve(st, phase, sample, stale) ==
    reading' = [q \in Requests |->
                  IF q \in Waiting(st)
                  THEN [reading[q] EXCEPT !.phase = phase, !.sample = sample, !.stale = stale]
                  ELSE reading[q]]

(* A request found its source active; it reads the clock and looks the     *)
(* station up without another await.                                       *)
GetLatest(q, st) ==
    LET asked == [Idle EXCEPT !.station = st, !.seen = shown[st]]
        held == Held(st)
    IN  /\ reading[q].phase \in {"idle", "answered"} /\ st \notin gone
        /\ \/ /\ Fresh(held)
              /\ entries' = Touched(entries, st, held)
              /\ reading' = [reading EXCEPT ![q] =
                    [asked EXCEPT !.phase = "loaded", !.sample = held.sample]]
              /\ UNCHANGED inFlight
           \/ /\ ~Fresh(held) /\ st \in Loading
              /\ reading' = [reading EXCEPT ![q] = [asked EXCEPT !.phase = "waiting"]]
              /\ UNCHANGED <<entries, inFlight>>
           \/ /\ ~Fresh(held) /\ st \notin Loading /\ Cardinality(Loading) >= MaxEntries
              /\ reading' = [reading EXCEPT ![q] = [asked EXCEPT !.phase = "failed"]]
              /\ UNCHANGED <<entries, inFlight>>
           \/ /\ ~Fresh(held) /\ st \notin Loading /\ Cardinality(Loading) < MaxEntries
              /\ entries' = Trimmed(entries, st)
              /\ inFlight' = [inFlight EXCEPT ![st] =
                    [fetched |-> clock, existing |-> held, sample |-> None, written |-> FALSE]]
              /\ reading' = [reading EXCEPT ![q] = [asked EXCEPT !.phase = "waiting"]]
        /\ UNCHANGED <<clock, measured, snapshot, gone, collector, shown, committed>>

(* The upstream answers a load with what it holds.                         *)
Respond(st) ==
    /\ st \in Loading /\ inFlight[st].sample = None
    /\ inFlight' = [inFlight EXCEPT ![st].sample = measured[st]]
    /\ UNCHANGED <<clock, measured, snapshot, gone, entries, collector, reading, shown, committed>>

(* Mutant: the response written last wins.                                 *)
SupersedesOnArrival(new, old) == old = None \/ new.at >= old.at

(* The upsert of SoilLatestReading: a later observation, or the same one   *)
(* by a later fetch.                                                       *)
Supersedes(new, old) ==
    \/ old = None
    \/ new.at > old.at
    \/ new.at = old.at /\ new.fetched > old.fetched

Write(st, sample, fetched) ==
    LET new == [at |-> sample.at, rev |-> sample.rev, fetched |-> fetched]
    IN  /\ snapshot' = [snapshot EXCEPT ![st] = IF Supersedes(new, @) THEN new ELSE @]
        /\ committed' = [committed EXCEPT ![st] = @ \cup {new}]

(* ingestLatest, while the source is there.                                *)
Ingest(st) ==
    /\ st \in Loading \ gone /\ inFlight[st].sample # None /\ ~inFlight[st].written
    /\ Write(st, inFlight[st].sample, inFlight[st].fetched)
    /\ inFlight' = [inFlight EXCEPT ![st].written = TRUE]
    /\ UNCHANGED <<clock, measured, gone, entries, collector, reading, shown>>

(* The load ends: its value becomes the youngest entry.                    *)
Loaded(st) ==
    /\ st \in Loading /\ inFlight[st].written
    /\ entries' = Touched(Trimmed(entries, st), st,
                          [sample |-> inFlight[st].sample, at |-> clock])
    /\ inFlight' = [inFlight EXCEPT ![st] = None]
    /\ Resolve(st, "loaded", inFlight[st].sample, FALSE)
    /\ UNCHANGED <<clock, measured, snapshot, gone, collector, shown, committed>>

(* The load fails with an error of the upstream: the entry, or the one     *)
(* found when the load began, is served and kept if it is not too old.     *)
LoadFails(st) ==
    LET fallback == IF Held(st) # None THEN Held(st) ELSE inFlight[st].existing
    IN  /\ st \in Loading /\ ~inFlight[st].written
        /\ \/ /\ Servable(fallback)
              /\ entries' = Touched(entries, st, fallback)
              /\ Resolve(st, "loaded", fallback.sample, TRUE)
           \/ /\ ~Servable(fallback)
              /\ Resolve(st, "failed", None, TRUE)
              /\ UNCHANGED entries
        /\ inFlight' = [inFlight EXCEPT ![st] = None]
        /\ UNCHANGED <<clock, measured, snapshot, gone, collector, shown, committed>>

(* The source was removed before the response was written: an error that   *)
(* serves nothing.                                                         *)
LoadRejected(st) ==
    /\ st \in Loading \cap gone /\ inFlight[st].sample # None /\ ~inFlight[st].written
    /\ inFlight' = [inFlight EXCEPT ![st] = None]
    /\ reading' = [q \in Requests |-> IF q \in Waiting(st) THEN Idle ELSE reading[q]]
    /\ UNCHANGED <<clock, measured, snapshot, gone, entries, collector, shown, committed>>

-----------------------------------------------------------------------------
(* The answer shows the snapshot, as the upstream's if the load, or the    *)
(* entry, confirmed exactly this sample.                                   *)
Confirmed(q, stored) ==
    ~reading[q].stale /\ stored.at = reading[q].sample.at /\ stored.rev = reading[q].sample.rev

(* What is shown.  Mutant: what the cache returned.                        *)
CachedSample(q) ==
    IF reading[q].sample = None THEN snapshot[reading[q].station] ELSE reading[q].sample

Canonical(q) == snapshot[reading[q].station]

Answer(q) ==
    LET st == reading[q].station
    IN  /\ reading[q].phase \in {"loaded", "failed"}
        /\ st \notin gone /\ snapshot[st] # None
        /\ reading' = [reading EXCEPT ![q] =
              [@ EXCEPT !.phase = "answered",
                        !.sample = [at |-> Canonical(q).at, rev |-> Canonical(q).rev],
                        !.stale = reading[q].phase = "failed" \/ ~Confirmed(q, Canonical(q))]]
        /\ shown' = [shown EXCEPT ![st] = IF Canonical(q).at > @ THEN Canonical(q).at ELSE @]
        /\ UNCHANGED <<clock, measured, snapshot, gone, entries, inFlight, collector, committed>>

(* Nothing is stored, or the source is gone: the request ends in an error. *)
Refuse(q) ==
    LET st == reading[q].station
    IN  /\ reading[q].phase \in {"loaded", "failed"}
        /\ st \in gone \/ snapshot[st] = None
        /\ reading' = [reading EXCEPT ![q] = Idle]
        /\ UNCHANGED <<clock, measured, snapshot, gone, entries, inFlight, collector, shown,
                       committed>>

-----------------------------------------------------------------------------
(* The collector, or another backend process, fetches and stores a         *)
(* response of its own.                                                    *)
FetchElsewhere(st) ==
    /\ collector = None /\ st \notin gone
    /\ collector' = [station |-> st, fetched |-> clock, sample |-> None]
    /\ UNCHANGED <<clock, measured, snapshot, gone, entries, inFlight, reading, shown, committed>>

RespondElsewhere ==
    /\ collector # None /\ collector.sample = None
    /\ collector' = [collector EXCEPT !.sample = measured[collector.station]]
    /\ UNCHANGED <<clock, measured, snapshot, gone, entries, inFlight, reading, shown, committed>>

IngestElsewhere ==
    /\ collector # None /\ collector.sample # None
    /\ \/ collector.station \notin gone /\ Write(collector.station, collector.sample, collector.fetched)
       \/ collector.station \in gone /\ UNCHANGED <<snapshot, committed>>
    /\ collector' = None
    /\ UNCHANGED <<clock, measured, gone, entries, inFlight, reading, shown>>

(* The station measures again, or the upstream corrects its sample.        *)
Measure(st) ==
    /\ \/ measured[st].at < MaxSample
          /\ measured' = [measured EXCEPT ![st] = [at |-> @.at + 1, rev |-> 0]]
       \/ measured[st].rev = 0 /\ measured' = [measured EXCEPT ![st].rev = 1]
    /\ UNCHANGED <<clock, snapshot, gone, entries, inFlight, collector, reading, shown, committed>>

RemoveSource(st) ==
    /\ gone' = gone \cup {st}
    /\ UNCHANGED <<clock, measured, snapshot, entries, inFlight, collector, reading, shown, committed>>

Tick ==
    /\ clock < MaxTime /\ clock' = clock + 1
    /\ UNCHANGED <<measured, snapshot, gone, entries, inFlight, collector, reading, shown, committed>>

ReadingStep(st) ==
    \/ \E q \in Requests : GetLatest(q, st)
    \/ Respond(st) \/ Ingest(st) \/ Loaded(st) \/ LoadFails(st) \/ LoadRejected(st)

AnswerStep == \E q \in Requests : Answer(q) \/ Refuse(q)

OutsideStep(st) ==
    FetchElsewhere(st) \/ RespondElsewhere \/ IngestElsewhere \/ Measure(st) \/ RemoveSource(st)

ReadingNext == (\E st \in Stations : ReadingStep(st) \/ OutsideStep(st)) \/ AnswerStep \/ Tick

-----------------------------------------------------------------------------
(* A request that begins after an answer never shows an older observation  *)
(* than it, although it may be served from a cache filled before: getLatest *)
(* answers with the snapshot, not with the cached value.                   *)
AnswersNeverGoBack ==
    \A q \in Requests : reading[q].phase = "answered" => reading[q].sample.at >= reading[q].seen

(* The snapshot is the newest observation by its latest fetch, in whatever *)
(* order overlapping responses are written; a fetch counts from its start  *)
(* (ARCHITECTURE.md: an older generation never overwrites the same sample). *)
LastFetchedWins ==
    \A st \in Stations :
        \A c \in committed[st] :
            /\ snapshot[st] \in committed[st]
            /\ c.at <= snapshot[st].at
            /\ c.at = snapshot[st].at => c.fetched <= snapshot[st].fetched

(* The cache never holds twice its limit: an entry that was evicted while  *)
(* its load ran comes back when the load fails, beyond the limit, but no   *)
(* more of them than the loads allow (BoundedAsyncCache.get).              *)
CacheStaysBounded == Cardinality(DOMAIN entries) < 2 * MaxEntries
=============================================================================
