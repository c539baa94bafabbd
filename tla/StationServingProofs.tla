------------------------ MODULE StationServingProofs ------------------------
(***************************************************************************)
(* What is served of the stations, for any stations, accounts, keys,       *)
(* limits, times and records: an answer is never older than one given      *)
(* before, of a reading (LatestReadings) or of a connection (SourceHealth),*)
(* neither the cache nor a client exceeds its limit (ClientRateLimit), and *)
(* the pages of a history leave nothing out (HistoryPages).                *)
(***************************************************************************)
EXTENDS LatestReadings, SourceHealth, ClientRateLimit, HistoryPages, FiniteSetTheorems,
        WellFoundedInduction, TLAPS

ReadingSpec == ReadingInit /\ [][ReadingNext]_readingVars

Sample == [at : Nat, rev : Nat]

Stored == [at : Nat, rev : Nat, fetched : Nat]

(* A row of the given columns, whatever they hold.                         *)
IsRow(r, columns) == r = [x \in columns |-> r[x]]

RowsOK ==
    /\ clock \in Nat /\ measured \in [Stations -> Sample]
    /\ snapshot \in [Stations -> Stored \cup {None}]
    /\ shown \in [Stations -> Nat] /\ committed \in [Stations -> SUBSET Stored]

LoadsOK ==
    /\ IsRow(inFlight, Stations)
    /\ \A st \in Stations : inFlight[st] # None =>
         /\ IsRow(inFlight[st], {"fetched", "existing", "sample", "written"})
         /\ inFlight[st].fetched \in Nat /\ inFlight[st].sample \in Sample \cup {None}
    /\ collector # None =>
         /\ IsRow(collector, {"station", "fetched", "sample"})
         /\ collector.station \in Stations
         /\ collector.fetched \in Nat /\ collector.sample \in Sample \cup {None}

(* A request has a station from its start on, and what it saw answered     *)
(* then has been answered.                                                 *)
ReadingsOK ==
    /\ IsRow(reading, Requests)
    /\ \A q \in Requests :
         /\ IsRow(reading[q], {"phase", "station", "sample", "stale", "seen"})
         /\ reading[q].phase # "idle" =>
              /\ reading[q].station \in Stations
              /\ reading[q].seen \in Nat /\ reading[q].seen <= shown[reading[q].station]

NothingCommittedYet == \A st \in Stations : snapshot[st] = None <=> committed[st] = {}

(* Whatever was answered is not newer than the snapshot.                   *)
ShownIsStored ==
    \A st \in Stations : shown[st] # 0 => snapshot[st] # None /\ shown[st] <= snapshot[st].at

(* The inductive invariant.                                                *)
LatestInv ==
    /\ RowsOK /\ LoadsOK /\ ReadingsOK
    /\ NothingCommittedYet /\ LastFetchedWins /\ ShownIsStored /\ AnswersNeverGoBack

LEMMA InitLatestInv == ReadingInit => LatestInv
<1> SUFFICES ASSUME ReadingInit PROVE LatestInv OBVIOUS
<1>1. RowsOK BY DEF ReadingInit, RowsOK, Sample
<1>2. LoadsOK BY DEF ReadingInit, LoadsOK, IsRow
<1>3. ReadingsOK BY DEF ReadingInit, ReadingsOK, IsRow, Idle
<1>4. NothingCommittedYet /\ LastFetchedWins /\ ShownIsStored /\ AnswersNeverGoBack
  BY DEF ReadingInit, NothingCommittedYet, LastFetchedWins, ShownIsStored, AnswersNeverGoBack, Idle
<1> QED BY <1>1, <1>2, <1>3, <1>4 DEF LatestInv

-----------------------------------------------------------------------------
(* What the kinds of steps leave as it is                                  *)

StoreKept == UNCHANGED <<measured, snapshot, shown, committed>>

(* A request keeps where it is, becomes idle, or gets the outcome of its   *)
(* load; none is answered.                                                 *)
NoneAnswered ==
    /\ IsRow(reading', Requests)
    /\ \A q \in Requests :
         \/ reading'[q] = reading[q]
         \/ reading'[q] = Idle
         \/ /\ IsRow(reading'[q], {"phase", "station", "sample", "stale", "seen"})
            /\ reading'[q].phase \in {"waiting", "loaded", "failed"}
            /\ \/ /\ reading'[q].station = reading[q].station /\ reading'[q].seen = reading[q].seen
                  /\ reading[q].phase # "idle"
               \/ reading'[q].station \in Stations /\ reading'[q].seen = shown[reading'[q].station]

LEMMA CacheStepsKeep ==
  ASSUME LatestInv, StoreKept, clock' \in Nat, LoadsOK', NoneAnswered
  PROVE  LatestInv'
<1>1. /\ RowsOK /\ ReadingsOK /\ NothingCommittedYet /\ LastFetchedWins /\ ShownIsStored
      /\ AnswersNeverGoBack
  BY DEF LatestInv
<1>2. RowsOK' BY <1>1 DEF RowsOK, StoreKept
<1>3. NothingCommittedYet' /\ LastFetchedWins' /\ ShownIsStored'
  BY <1>1 DEF NothingCommittedYet, LastFetchedWins, ShownIsStored, StoreKept
<1>4. Idle.phase = "idle" /\ IsRow(Idle, {"phase", "station", "sample", "stale", "seen"})
  BY DEF Idle, IsRow
<1>5. \A st \in Stations : shown[st] \in Nat /\ shown[st] <= shown[st] /\ shown' = shown
  BY <1>1 DEF RowsOK, StoreKept
<1>6. ReadingsOK' BY <1>1, <1>4, <1>5 DEF ReadingsOK, NoneAnswered
<1>7. AnswersNeverGoBack' BY <1>1, <1>4 DEF AnswersNeverGoBack, NoneAnswered
<1> QED BY <1>2, <1>3, <1>6, <1>7 DEF LatestInv

LEMMA StillReading == ASSUME LatestInv, UNCHANGED reading PROVE NoneAnswered
BY DEF LatestInv, ReadingsOK, NoneAnswered

LEMMA StillLoading == ASSUME LatestInv, UNCHANGED <<inFlight, collector>> PROVE LoadsOK'
BY DEF LatestInv, LoadsOK

(* A load begins, goes on or ends.                                         *)
LEMMA LoadIs ==
  ASSUME LatestInv, NEW st \in Stations, NEW load, UNCHANGED collector,
         inFlight' = [inFlight EXCEPT ![st] = load],
         load # None =>
           /\ IsRow(load, {"fetched", "existing", "sample", "written"})
           /\ load.fetched \in Nat /\ load.sample \in Sample \cup {None}
  PROVE  LoadsOK'
<1>1. LoadsOK BY DEF LatestInv
<1>2. /\ IsRow(inFlight', Stations) /\ inFlight'[st] = load
      /\ \A x \in Stations \ {st} : inFlight'[x] = inFlight[x]
  BY <1>1 DEF LoadsOK, IsRow
<1> QED BY <1>1, <1>2 DEF LoadsOK

(* One request moves.                                                      *)
LEMMA RequestIs ==
  ASSUME LatestInv, NEW q \in Requests, NEW now, reading' = [reading EXCEPT ![q] = now],
         \/ now = Idle
         \/ /\ IsRow(now, {"phase", "station", "sample", "stale", "seen"})
            /\ now.phase \in {"waiting", "loaded", "failed"}
            /\ now.station \in Stations /\ now.seen = shown[now.station]
  PROVE  NoneAnswered
<1>1. IsRow(reading, Requests) BY DEF LatestInv, ReadingsOK
<1>2. IsRow(reading', Requests) /\ reading'[q] = now
      /\ \A p \in Requests \ {q} : reading'[p] = reading[p]
  BY <1>1 DEF IsRow
<1> QED BY <1>2 DEF NoneAnswered

LEMMA ResolveIs ==
  ASSUME LatestInv, NEW st, NEW phase \in {"loaded", "failed"}, NEW sample, NEW stale,
         Resolve(st, phase, sample, stale)
  PROVE  NoneAnswered
<1>1. IsRow(reading', Requests) BY DEF Resolve, IsRow
<1>2. ASSUME NEW q \in Waiting(st)
      PROVE  /\ IsRow(reading'[q], {"phase", "station", "sample", "stale", "seen"})
             /\ reading'[q].phase = phase /\ reading[q].phase # "idle"
             /\ reading'[q].station = reading[q].station /\ reading'[q].seen = reading[q].seen
  <2>1. /\ q \in Requests /\ reading[q].phase = "waiting"
        /\ reading[q] = [x \in {"phase", "station", "sample", "stale", "seen"} |-> reading[q][x]]
    BY DEF Waiting, LatestInv, ReadingsOK, IsRow
  <2>2. reading'[q] = [reading[q] EXCEPT !.phase = phase, !.sample = sample, !.stale = stale]
    BY <2>1 DEF Resolve
  <2> QED BY <2>1, <2>2 DEF IsRow
<1>3. \A q \in Requests : q \notin Waiting(st) => reading'[q] = reading[q] BY DEF Resolve
<1> QED BY <1>1, <1>2, <1>3 DEF NoneAnswered

-----------------------------------------------------------------------------
(* The steps of a request                                                  *)

LEMMA GetLatestKeeps ==
  ASSUME LatestInv, NEW q \in Requests, NEW st \in Stations, GetLatest(q, st)
  PROVE  LatestInv'
<1> DEFINE asked == [Idle EXCEPT !.station = st, !.seen = shown[st]]
           load == [fetched |-> clock, existing |-> Held(st), sample |-> None, written |-> FALSE]
<1>1. StoreKept /\ UNCHANGED <<clock, collector>> /\ clock \in Nat
  BY DEF GetLatest, StoreKept, LatestInv, RowsOK
<1>2. /\ IsRow(asked, {"phase", "station", "sample", "stale", "seen"})
      /\ asked.sample = None /\ asked.station = st /\ asked.seen = shown[st]
  <2>1. /\ Idle = [x \in {"phase", "station", "sample", "stale", "seen"} |-> Idle[x]]
        /\ Idle.sample = None
    BY DEF Idle
  <2> QED BY <2>1 DEF IsRow
<1>3. \E phase \in {"waiting", "loaded", "failed"} : \E sample :
        reading' = [reading EXCEPT ![q] = [asked EXCEPT !.phase = phase, !.sample = sample]]
  <2>1. \/ \E sample : reading' = [reading EXCEPT ![q] =
                                     [asked EXCEPT !.phase = "loaded", !.sample = sample]]
        \/ reading' = [reading EXCEPT ![q] = [asked EXCEPT !.phase = "waiting"]]
        \/ reading' = [reading EXCEPT ![q] = [asked EXCEPT !.phase = "failed"]]
    BY Zenon DEF GetLatest
  <2>2. \A phase : [asked EXCEPT !.phase = phase] = [asked EXCEPT !.phase = phase, !.sample = None]
    BY <1>2 DEF IsRow
  <2> HIDE DEF asked
  <2> QED BY <2>1, <2>2
<1>4. NoneAnswered
  <2>0. PICK phase \in {"waiting", "loaded", "failed"} : \E sample :
          reading' = [reading EXCEPT ![q] = [asked EXCEPT !.phase = phase, !.sample = sample]]
    BY <1>3
  <2>1. PICK sample :
          reading' = [reading EXCEPT ![q] = [asked EXCEPT !.phase = phase, !.sample = sample]]
    BY <2>0
  <2> HIDE DEF asked
  <2> DEFINE now == [asked EXCEPT !.phase = phase, !.sample = sample]
  <2>2. asked = [x \in {"phase", "station", "sample", "stale", "seen"} |-> asked[x]]
    BY <1>2 DEF IsRow
  <2>3. /\ IsRow(now, {"phase", "station", "sample", "stale", "seen"})
        /\ now.phase = phase /\ now.station = st /\ now.seen = shown[st]
    BY <1>2, <2>2 DEF IsRow
  <2> HIDE DEF now
  <2> QED BY <2>1, <2>3, RequestIs DEF now
<1>5. LoadsOK'
  <2>1. UNCHANGED inFlight \/ inFlight' = [inFlight EXCEPT ![st] = load]
    BY Zenon DEF GetLatest
  <2>2. /\ IsRow(load, {"fetched", "existing", "sample", "written"})
        /\ load.fetched \in Nat /\ load.sample \in Sample \cup {None}
    BY <1>1 DEF IsRow
  <2> HIDE DEF load
  <2> QED BY <1>1, <2>1, <2>2, LoadIs, StillLoading
<1> QED BY <1>1, <1>4, <1>5, CacheStepsKeep

LEMMA LoadStepsKeep ==
  ASSUME LatestInv, NEW st \in Stations,
         Respond(st) \/ Loaded(st) \/ LoadFails(st) \/ LoadRejected(st)
  PROVE  LatestInv'
<1>1. StoreKept /\ UNCHANGED <<clock, collector>> /\ clock \in Nat /\ inFlight[st] # None
  BY DEF Respond, Loaded, LoadFails, LoadRejected, Loading, StoreKept, LatestInv, RowsOK
<1>2. NoneAnswered
  <2>1. CASE Respond(st) BY <2>1, StillReading DEF Respond
  <2>2. CASE Loaded(st) BY <2>2, ResolveIs DEF Loaded
  <2>3. CASE LoadFails(st)
    <3>1. \E phase \in {"loaded", "failed"} : \E sample, stale : Resolve(st, phase, sample, stale)
      BY <2>3 DEF LoadFails
    <3> QED BY <3>1, ResolveIs
  <2>4. CASE LoadRejected(st)
    <3>1. reading' = [q \in Requests |-> IF q \in Waiting(st) THEN Idle ELSE reading[q]]
      BY <2>4 DEF LoadRejected
    <3> QED BY <3>1 DEF NoneAnswered, IsRow
  <2> QED BY <2>1, <2>2, <2>3, <2>4
<1>3. LoadsOK'
  <2>1. CASE Respond(st)
    <3> DEFINE load == [inFlight[st] EXCEPT !.sample = measured[st]]
    <3>1. /\ inFlight[st] = [x \in {"fetched", "existing", "sample", "written"} |-> inFlight[st][x]]
          /\ inFlight[st].fetched \in Nat /\ measured[st] \in Sample
          /\ inFlight = [x \in Stations |-> inFlight[x]]
      BY <1>1 DEF LatestInv, LoadsOK, RowsOK, IsRow
    <3>2. /\ IsRow(load, {"fetched", "existing", "sample", "written"})
          /\ load.fetched \in Nat /\ load.sample \in Sample
      BY <3>1 DEF IsRow
    <3>3. inFlight' = [inFlight EXCEPT ![st] = load] BY <2>1, <3>1 DEF Respond
    <3> HIDE DEF load
    <3> QED BY <1>1, <3>2, <3>3, LoadIs
  <2>2. CASE inFlight' = [inFlight EXCEPT ![st] = None] BY <1>1, <2>2, LoadIs
  <2> QED BY <2>1, <2>2 DEF Loaded, LoadFails, LoadRejected
<1> QED BY <1>1, <1>2, <1>3, CacheStepsKeep

-----------------------------------------------------------------------------
(* The writes                                                              *)

(* A write leaves in the snapshot the newest of all, of the latest fetch.  *)
LEMMA WriteKeeps ==
  ASSUME LatestInv, NEW st \in Stations, NEW sample \in Sample, NEW fetched \in Nat,
         Write(st, sample, fetched), UNCHANGED <<clock, measured, shown, reading>>, LoadsOK'
  PROVE  LatestInv'
<1> DEFINE new == [at |-> sample.at, rev |-> sample.rev, fetched |-> fetched]
           old == snapshot[st]
<1>1. /\ RowsOK /\ ReadingsOK /\ NothingCommittedYet /\ LastFetchedWins /\ ShownIsStored
      /\ AnswersNeverGoBack
  BY DEF LatestInv
<1>2. new \in Stored /\ new # None BY CacheAssumption DEF Sample, Stored
<1>3. /\ snapshot' = [snapshot EXCEPT ![st] = IF Supersedes(new, old) THEN new ELSE old]
      /\ committed' = [committed EXCEPT ![st] = committed[st] \cup {new}]
  BY DEF Write
<1> HIDE DEF new
<1>4. RowsOK' BY <1>1, <1>2, <1>3 DEF RowsOK
<1>5. /\ snapshot'[st] = IF Supersedes(new, old) THEN new ELSE old
      /\ committed'[st] = committed[st] \cup {new}
      /\ \A x \in Stations \ {st} : snapshot'[x] = snapshot[x] /\ committed'[x] = committed[x]
  BY <1>1, <1>3 DEF RowsOK
<1>6. /\ old \in Stored \cup {None} /\ new.at \in Nat /\ new.fetched \in Nat
      /\ old # None => old.at \in Nat /\ old.fetched \in Nat
      /\ \A c \in committed[st] : c.at \in Nat /\ c.fetched \in Nat
  BY <1>1, <1>2 DEF RowsOK, Stored
<1>7. snapshot'[st] # None BY <1>2, <1>5 DEF Supersedes
<1>8. old # None => old.at <= snapshot'[st].at BY <1>5, <1>6 DEF Supersedes
<1>9. NothingCommittedYet' BY <1>1, <1>5, <1>7 DEF NothingCommittedYet
<1>10. LastFetchedWins'
  <2>1. CASE old = None
    <3>1. committed'[st] = {new} /\ snapshot'[st] = new
      BY <1>1, <1>5, <2>1 DEF NothingCommittedYet, Supersedes
    <3>2. new.at <= new.at /\ new.fetched <= new.fetched BY <1>6
    <3> QED BY <1>1, <1>5, <3>1, <3>2 DEF LastFetchedWins
  <2>2. CASE old # None
    <3>1. snapshot'[st] \in committed'[st]
      <4>1. CASE Supersedes(new, old) BY <1>5, <4>1
      <4>2. CASE ~Supersedes(new, old) /\ committed[st] # {}
        BY <1>1, <1>5, <4>2 DEF LastFetchedWins
      <4>3. CASE committed[st] = {}
        BY <1>1, <2>2, <4>3 DEF NothingCommittedYet
      <4> QED BY <4>1, <4>2, <4>3
    <3>2. ASSUME NEW c \in committed'[st]
          PROVE  /\ c.at <= snapshot'[st].at
                 /\ c.at = snapshot'[st].at => c.fetched <= snapshot'[st].fetched
      <4>1. CASE c = new BY <1>5, <1>6, <2>2, <4>1 DEF Supersedes
      <4>2. CASE c \in committed[st]
        <5>1. c.at <= old.at /\ (c.at = old.at => c.fetched <= old.fetched)
          BY <1>1, <4>2 DEF LastFetchedWins
        <5> QED BY <1>5, <1>6, <2>2, <4>2, <5>1 DEF Supersedes
      <4> QED BY <1>5, <4>1, <4>2
    <3> QED BY <1>1, <1>5, <3>1, <3>2 DEF LastFetchedWins
  <2> QED BY <2>1, <2>2
<1>11. ShownIsStored'
  <2>1. shown[st] # 0 => shown[st] <= snapshot'[st].at
    <3>1. shown[st] \in Nat /\ snapshot'[st].at \in Nat
      BY <1>1, <1>5, <1>6, <1>7 DEF RowsOK
    <3> QED BY <1>1, <1>6, <1>8, <3>1 DEF ShownIsStored
  <2> QED BY <1>1, <1>5, <1>7, <2>1 DEF ShownIsStored
<1>12. ReadingsOK' /\ AnswersNeverGoBack' BY <1>1 DEF ReadingsOK, AnswersNeverGoBack
<1> QED BY <1>4, <1>9, <1>10, <1>11, <1>12 DEF LatestInv

LEMMA IngestKeeps ==
  ASSUME LatestInv, NEW st \in Stations, Ingest(st) PROVE LatestInv'
<1> DEFINE load == [inFlight[st] EXCEPT !.written = TRUE]
<1>1. /\ inFlight[st] # None /\ inFlight[st].sample # None
      /\ Write(st, inFlight[st].sample, inFlight[st].fetched)
      /\ inFlight' = [inFlight EXCEPT ![st].written = TRUE]
      /\ UNCHANGED <<clock, measured, collector, reading, shown>>
  BY DEF Ingest, Loading
<1>2. /\ inFlight[st] = [x \in {"fetched", "existing", "sample", "written"} |-> inFlight[st][x]]
      /\ inFlight[st].fetched \in Nat /\ inFlight[st].sample \in Sample
      /\ inFlight = [x \in Stations |-> inFlight[x]]
  BY <1>1 DEF LatestInv, LoadsOK, IsRow
<1>3. /\ IsRow(load, {"fetched", "existing", "sample", "written"})
      /\ load.fetched \in Nat /\ load.sample \in Sample
  BY <1>2 DEF IsRow
<1>4. inFlight' = [inFlight EXCEPT ![st] = load] BY <1>1, <1>2
<1> HIDE DEF load
<1>5. LoadsOK' BY <1>1, <1>3, <1>4, LoadIs
<1> QED BY <1>1, <1>2, <1>5, WriteKeeps

(* The database outside this cache.                                        *)
LEMMA OutsideKeeps ==
  ASSUME LatestInv, NEW st \in Stations, OutsideStep(st) PROVE LatestInv'
<1>1. clock \in Nat /\ measured \in [Stations -> Sample] /\ LoadsOK
  BY DEF LatestInv, RowsOK
<1>2. CASE FetchElsewhere(st)
  <2> DEFINE new == [station |-> st, fetched |-> clock, sample |-> None]
  <2>1. /\ IsRow(new, {"station", "fetched", "sample"})
        /\ new.station = st /\ new.fetched = clock /\ new.sample = None
    BY DEF IsRow
  <2>2. collector' = new /\ UNCHANGED <<clock, inFlight, reading>> /\ StoreKept
    BY <1>2 DEF FetchElsewhere, StoreKept
  <2> HIDE DEF new
  <2>3. LoadsOK' BY <1>1, <2>1, <2>2 DEF LoadsOK
  <2> QED BY <1>1, <2>2, <2>3, StillReading, CacheStepsKeep
<1>3. CASE RespondElsewhere
  <2> DEFINE new == [collector EXCEPT !.sample = measured[collector.station]]
  <2>1. /\ collector # None /\ collector' = new /\ UNCHANGED <<clock, inFlight, reading>>
        /\ StoreKept
    BY <1>3 DEF RespondElsewhere, StoreKept
  <2>2. /\ collector = [x \in {"station", "fetched", "sample"} |-> collector[x]]
        /\ collector.station \in Stations /\ collector.fetched \in Nat
    BY <1>1, <2>1 DEF LoadsOK, IsRow
  <2>3. /\ IsRow(new, {"station", "fetched", "sample"}) /\ new.station = collector.station
        /\ new.fetched = collector.fetched /\ new.sample \in Sample
    BY <1>1, <2>2 DEF IsRow
  <2> HIDE DEF new
  <2>4. LoadsOK' BY <1>1, <2>1, <2>2, <2>3 DEF LoadsOK
  <2> QED BY <1>1, <2>1, <2>4, StillReading, CacheStepsKeep
<1>4. CASE IngestElsewhere
  <2>1. /\ collector # None /\ collector.sample # None /\ collector' = None
        /\ UNCHANGED <<clock, measured, inFlight, reading, shown>>
        /\ \/ Write(collector.station, collector.sample, collector.fetched)
           \/ UNCHANGED <<snapshot, committed>>
    BY <1>4 DEF IngestElsewhere
  <2>2. /\ collector.station \in Stations /\ collector.fetched \in Nat
        /\ collector.sample \in Sample
    BY <1>1, <2>1 DEF LoadsOK
  <2>3. LoadsOK' BY <1>1, <2>1 DEF LoadsOK
  <2> QED BY <1>1, <2>1, <2>2, <2>3, WriteKeeps, StillReading, CacheStepsKeep DEF StoreKept
<1>5. CASE Measure(st)
  <2>1. measured' \in [Stations -> Sample]
    <3>1. measured[st] \in Sample BY <1>1
    <3>2. \/ measured' = [measured EXCEPT ![st] = [at |-> measured[st].at + 1, rev |-> 0]]
          \/ measured' = [measured EXCEPT ![st] = [measured[st] EXCEPT !.rev = 1]]
      BY <1>1, <1>5 DEF Measure
    <3>3. /\ [at |-> measured[st].at + 1, rev |-> 0] \in Sample
          /\ [measured[st] EXCEPT !.rev = 1] \in Sample
      BY <3>1 DEF Sample
    <3> QED BY <1>1, <3>2, <3>3
  <2>2. UNCHANGED <<clock, snapshot, inFlight, collector, reading, shown, committed>>
    BY <1>5 DEF Measure
  <2> QED BY <2>1, <2>2
          DEF LatestInv, RowsOK, LoadsOK, ReadingsOK, NothingCommittedYet, LastFetchedWins,
              ShownIsStored, AnswersNeverGoBack
<1>6. CASE RemoveSource(st)
  <2>1. StoreKept /\ UNCHANGED <<clock, inFlight, collector, reading>>
    BY <1>6 DEF RemoveSource, StoreKept
  <2> QED BY <1>1, <2>1, StillReading, StillLoading, CacheStepsKeep
<1> QED BY <1>2, <1>3, <1>4, <1>5, <1>6 DEF OutsideStep

-----------------------------------------------------------------------------
(* The answers                                                             *)

(* What is answered is the snapshot, which is not older than anything      *)
(* answered before the request began.                                      *)
LEMMA AnswerKeeps == ASSUME LatestInv, NEW q \in Requests, Answer(q) PROVE LatestInv'
<1> DEFINE st == reading[q].station
           now == [reading[q] EXCEPT !.phase = "answered",
                     !.sample = [at |-> Canonical(q).at, rev |-> Canonical(q).rev],
                     !.stale = reading[q].phase = "failed" \/ ~Confirmed(q, Canonical(q))]
<1>1. /\ RowsOK /\ LoadsOK /\ ReadingsOK /\ NothingCommittedYet /\ LastFetchedWins
      /\ ShownIsStored /\ AnswersNeverGoBack
  BY DEF LatestInv
<1>2. /\ reading[q].phase # "idle" /\ snapshot[st] # None
      /\ UNCHANGED <<clock, measured, snapshot, inFlight, collector, committed>>
      /\ reading' = [reading EXCEPT ![q] = now]
      /\ shown' = [shown EXCEPT ![st] = IF snapshot[st].at > shown[st] THEN snapshot[st].at
                                        ELSE shown[st]]
  BY DEF Answer, Canonical
<1>3. /\ st \in Stations /\ reading[q].seen \in Nat /\ reading[q].seen <= shown[st]
      /\ reading[q] = [x \in {"phase", "station", "sample", "stale", "seen"} |-> reading[q][x]]
  BY <1>1, <1>2 DEF ReadingsOK, IsRow
<1>4. shown[st] \in Nat /\ snapshot[st].at \in Nat /\ shown[st] <= snapshot[st].at
  BY <1>1, <1>2, <1>3 DEF RowsOK, Stored, ShownIsStored
<1>5. /\ IsRow(now, {"phase", "station", "sample", "stale", "seen"})
      /\ now.phase = "answered" /\ now.station = st /\ now.seen = reading[q].seen
      /\ now.sample.at = snapshot[st].at
  BY <1>3 DEF IsRow, Canonical
<1> HIDE DEF now
<1>6. /\ IsRow(reading', Requests) /\ reading'[q] = now
      /\ \A p \in Requests \ {q} : reading'[p] = reading[p]
  BY <1>1, <1>2 DEF ReadingsOK, IsRow
<1>7. /\ shown' \in [Stations -> Nat] /\ shown'[st] \in {snapshot[st].at, shown[st]}
      /\ \A x \in Stations : shown[x] <= shown'[x]
      /\ \A x \in Stations \ {st} : shown'[x] = shown[x]
  BY <1>1, <1>2, <1>3, <1>4 DEF RowsOK
<1>8. RowsOK' BY <1>1, <1>2, <1>7 DEF RowsOK
<1>9. LoadsOK' /\ NothingCommittedYet' /\ LastFetchedWins'
  BY <1>1, <1>2 DEF LoadsOK, NothingCommittedYet, LastFetchedWins
<1>10. ShownIsStored'
  <2>1. snapshot[st].at <= snapshot[st].at BY <1>4
  <2> QED BY <1>1, <1>2, <1>3, <1>4, <1>7, <2>1 DEF ShownIsStored
<1>11. ReadingsOK'
  <2>1. ASSUME NEW p \in Requests, reading'[p].phase # "idle"
        PROVE  /\ reading'[p].station \in Stations /\ reading'[p].seen \in Nat
               /\ reading'[p].seen <= shown'[reading'[p].station]
    <3>1. CASE p = q
      <4>1. shown[st] <= shown'[st] /\ shown'[st] \in Nat BY <1>3, <1>7
      <4> QED BY <1>3, <1>4, <1>5, <1>6, <3>1, <4>1
    <3>2. CASE p # q
      <4>1. /\ reading'[p] = reading[p] /\ reading[p].station \in Stations
            /\ reading[p].seen \in Nat /\ reading[p].seen <= shown[reading[p].station]
        BY <1>1, <1>6, <2>1, <3>2 DEF ReadingsOK
      <4>2. /\ shown[reading[p].station] \in Nat /\ shown'[reading[p].station] \in Nat
            /\ shown[reading[p].station] <= shown'[reading[p].station]
        BY <1>1, <1>7, <4>1 DEF RowsOK
      <4> QED BY <4>1, <4>2
    <3> QED BY <3>1, <3>2
  <2> QED BY <1>1, <1>5, <1>6, <2>1 DEF ReadingsOK
<1>12. AnswersNeverGoBack' BY <1>1, <1>3, <1>4, <1>5, <1>6 DEF AnswersNeverGoBack
<1> QED BY <1>8, <1>9, <1>10, <1>11, <1>12 DEF LatestInv

LEMMA RefuseKeeps == ASSUME LatestInv, NEW q \in Requests, Refuse(q) PROVE LatestInv'
<1>1. /\ reading' = [reading EXCEPT ![q] = Idle] /\ StoreKept
      /\ UNCHANGED <<clock, inFlight, collector>> /\ clock \in Nat
  BY DEF Refuse, StoreKept, LatestInv, RowsOK
<1> QED BY <1>1, RequestIs, StillLoading, CacheStepsKeep

LEMMA NextLatestInv == LatestInv /\ [ReadingNext]_readingVars => LatestInv'
<1> SUFFICES ASSUME LatestInv, [ReadingNext]_readingVars PROVE LatestInv' OBVIOUS
<1>1. clock \in Nat BY DEF LatestInv, RowsOK
<1>2. CASE UNCHANGED readingVars \/ Tick
  BY <1>1, <1>2, StillReading, StillLoading, CacheStepsKeep DEF readingVars, Tick, StoreKept
<1>3. ASSUME NEW st \in Stations, ReadingStep(st) PROVE LatestInv'
  BY <1>3, GetLatestKeeps, LoadStepsKeep, IngestKeeps DEF ReadingStep
<1> QED BY <1>2, <1>3, OutsideKeeps, AnswerKeeps, RefuseKeeps DEF ReadingNext, AnswerStep

(* A request never shows an older observation of a station than one that   *)
(* was answered before it began.                                           *)
THEOREM AnswersStayCurrent == ReadingSpec => []AnswersNeverGoBack
<1>1. LatestInv => AnswersNeverGoBack BY DEF LatestInv
<1> QED BY <1>1, InitLatestInv, NextLatestInv, PTL DEF ReadingSpec

(* Of overlapping responses for one observation, the one whose fetch began *)
(* last is what remains.                                                   *)
THEOREM LatestFetchStays == ReadingSpec => []LastFetchedWins
<1>1. LatestInv => LastFetchedWins BY DEF LatestInv
<1> QED BY <1>1, InitLatestInv, NextLatestInv, PTL DEF ReadingSpec

-----------------------------------------------------------------------------
(* The limit of the cache                                                  *)

(* The order of the entries: of any two, one was touched after the other.  *)
CacheOK(cache) ==
    /\ IsRow(cache, DOMAIN cache) /\ IsFiniteSet(DOMAIN cache)
    /\ \A x \in DOMAIN cache :
         /\ IsRow(cache[x], {"sample", "at", "later"}) /\ cache[x].at \in Nat
         /\ cache[x].later \subseteq DOMAIN cache /\ x \notin cache[x].later
         /\ \A y \in cache[x].later : cache[y].later \subseteq cache[x].later
         /\ \A y \in DOMAIN cache : x = y \/ x \in cache[y].later \/ y \in cache[x].later

(* The stations that have an entry, or get theirs back if their load fails.*)
Claimed == DOMAIN entries \cup {st \in Loading : Servable(inFlight[st].existing)}

(* The inductive invariant, beside LatestInv: the loads are no more than   *)
(* the limit, and less than twice as many stations are claimed.            *)
CacheInv ==
    /\ CacheOK(entries)
    /\ IsFiniteSet(Loading) /\ Cardinality(Loading) <= MaxEntries
    /\ \A st \in Loading : inFlight[st].existing # None => inFlight[st].existing.at \in Nat
    /\ IsFiniteSet(Claimed) /\ Cardinality(Claimed) < 2 * MaxEntries

LEMMA GreatestExists ==
    ASSUME NEW n \in Nat, NEW T \in SUBSET (0 .. n), T # {}
    PROVE  \E x \in T : \A y \in T : y <= x
<1> DEFINE upTo == {x .. n : x \in T}
<1>1. upTo \subseteq FiniteSubsetsOf(0 .. n) /\ upTo # {}
  <2>1. \A x \in T : x .. n \in SUBSET (0 .. n) /\ IsFiniteSet(x .. n) BY FS_Interval
  <2> QED BY <2>1 DEF FiniteSubsetsOf
<1>2. PICK a \in upTo : \A b \in upTo : ~(<<b, a>> \in StrictSubsetOrdering(0 .. n))
  <2> HIDE DEF upTo
  <2> QED BY <1>1, FS_StrictSubsetOrderingWellFounded, WFMin
<1>3. PICK x \in T : a = x .. n BY <1>2
<1>4. ASSUME NEW y \in T, ~(y <= x) PROVE FALSE
  <2>1. /\ y .. n \subseteq x .. n /\ y .. n # x .. n
        /\ y .. n \in SUBSET (0 .. n) /\ x .. n \in SUBSET (0 .. n)
    BY <1>4
  <2>2. <<y .. n, x .. n>> \in StrictSubsetOrdering(0 .. n)
    BY <2>1, Zenon DEF StrictSubsetOrdering
  <2>3. y .. n \in upTo OBVIOUS
  <2> QED BY <1>2, <1>3, <2>2, <2>3
<1> QED BY <1>4

LEMMA OnlyIs ==
  ASSUME NEW cache, CacheOK(cache), NEW S \in SUBSET DOMAIN cache
  PROVE  /\ CacheOK(Only(cache, S)) /\ DOMAIN Only(cache, S) = S
         /\ \A x \in S : Only(cache, S)[x].at = cache[x].at
<1> DEFINE c == Only(cache, S)
<1>1. /\ DOMAIN c = S /\ IsRow(c, S)
      /\ \A x \in S : c[x] = [cache[x] EXCEPT !.later = cache[x].later \cap S]
  BY DEF Only, IsRow
<1>2. \A x \in S : cache[x] = [f \in {"sample", "at", "later"} |-> cache[x][f]]
  BY DEF CacheOK, IsRow
<1>3. \A x \in S : /\ IsRow(c[x], {"sample", "at", "later"}) /\ c[x].at = cache[x].at
                   /\ c[x].later = cache[x].later \cap S
  BY <1>1, <1>2 DEF IsRow
<1>4. IsFiniteSet(S) BY FS_Subset DEF CacheOK
<1> HIDE DEF c
<1>5. CacheOK(c) BY <1>1, <1>3, <1>4 DEF CacheOK
<1> QED BY <1>1, <1>3, <1>5 DEF c

LEMMA TouchedIs ==
  ASSUME NEW cache, CacheOK(cache), NEW st, NEW e, e.at \in Nat
  PROVE  /\ CacheOK(Touched(cache, st, e)) /\ DOMAIN Touched(cache, st, e) = DOMAIN cache \cup {st}
<1> DEFINE c == Touched(cache, st, e)
           D == DOMAIN cache \cup {st}
<1>1. /\ DOMAIN c = D /\ IsRow(c, D)
      /\ c[st] = [sample |-> e.sample, at |-> e.at, later |-> {}]
      /\ \A x \in D \ {st} : c[x] = [cache[x] EXCEPT !.later = cache[x].later \cup {st}]
  BY DEF Touched, IsRow
<1>2. \A x \in D \ {st} : cache[x] = [f \in {"sample", "at", "later"} |-> cache[x][f]]
  BY DEF CacheOK, IsRow
<1>3. \A x \in D \ {st} : /\ IsRow(c[x], {"sample", "at", "later"}) /\ c[x].at = cache[x].at
                          /\ c[x].later = cache[x].later \cup {st}
  BY <1>1, <1>2 DEF IsRow
<1>4. IsRow(c[st], {"sample", "at", "later"}) /\ c[st].at = e.at /\ c[st].later = {}
  BY <1>1 DEF IsRow
<1>5. IsFiniteSet(D) BY FS_AddElement DEF CacheOK
<1>6. \A x \in D : c[x].later \subseteq D /\ x \notin c[x].later BY <1>3, <1>4 DEF CacheOK
<1>7. \A x \in D : \A y \in c[x].later : c[y].later \subseteq c[x].later
  BY <1>3, <1>4, <1>6 DEF CacheOK
<1>8. \A x, y \in D : x = y \/ x \in c[y].later \/ y \in c[x].later
  BY <1>3, <1>4 DEF CacheOK
<1>9. \A x \in D : IsRow(c[x], {"sample", "at", "later"}) /\ c[x].at \in Nat
  BY <1>3, <1>4 DEF CacheOK
<1> HIDE DEF c, D
<1>10. CacheOK(c) BY <1>1, <1>5, <1>6, <1>7, <1>8, <1>9 DEF CacheOK
<1> QED BY <1>1, <1>10 DEF c, D

(* The entries behind which fewer than n were touched are no more than n:  *)
(* all of them but the first are behind it.                                *)
LEMMA YoungestIs ==
  ASSUME NEW cache, CacheOK(cache), NEW n \in Nat
  PROVE  CacheOK(Youngest(cache, n)) /\ DOMAIN Youngest(cache, n) \subseteq DOMAIN cache
         /\ Cardinality(DOMAIN Youngest(cache, n)) <= n
         /\ \A x \in DOMAIN Youngest(cache, n) : Youngest(cache, n)[x].at = cache[x].at
<1> DEFINE R == {x \in DOMAIN cache : Cardinality(cache[x].later) < n}
           after(x) == cache[x].later \cap R
           T == {Cardinality(after(x)) : x \in R}
<1>1. /\ CacheOK(Youngest(cache, n)) /\ DOMAIN Youngest(cache, n) = R
      /\ \A x \in R : Youngest(cache, n)[x].at = cache[x].at
  BY OnlyIs DEF Youngest
<1>2. IsFiniteSet(R) /\ Cardinality(R) \in Nat BY FS_Subset, FS_CardinalityType DEF CacheOK
<1>3. \A x \in R : /\ IsFiniteSet(cache[x].later) /\ Cardinality(cache[x].later) \in Nat
                   /\ Cardinality(cache[x].later) < n
  BY FS_Subset, FS_CardinalityType DEF CacheOK
<1>4. \A x \in R : IsFiniteSet(after(x)) /\ Cardinality(after(x)) \in 0 .. Cardinality(R)
  <2> SUFFICES ASSUME NEW x \in R
               PROVE  IsFiniteSet(after(x)) /\ Cardinality(after(x)) \in 0 .. Cardinality(R)
    OBVIOUS
  <2>1. after(x) \in SUBSET R OBVIOUS
  <2> HIDE DEF R, after
  <2>2. IsFiniteSet(after(x)) /\ Cardinality(after(x)) <= Cardinality(R) BY <1>2, <2>1, FS_Subset
  <2>3. Cardinality(after(x)) \in Nat BY <2>2, FS_CardinalityType
  <2> QED BY <1>2, <2>2, <2>3
<1>5. CASE R = {} BY <1>1, <1>5, FS_EmptySet
<1>6. CASE R # {}
  <2>1. T \in SUBSET (0 .. Cardinality(R)) /\ T # {}
    <3> HIDE DEF R, after
    <3> QED BY <1>4, <1>6
  <2>2. PICK t \in T : \A s \in T : s <= t
    <3> HIDE DEF T, R
    <3> QED BY <1>2, <2>1, GreatestExists
  <2>3. PICK x \in R : t = Cardinality(after(x)) BY <2>2
  <2>4. ASSUME NEW y \in R, y # x, y \notin cache[x].later PROVE FALSE
    <3>1. x \in cache[y].later /\ cache[x].later \subseteq cache[y].later /\ x \notin cache[x].later
      BY <2>4 DEF CacheOK
    <3>2. after(x) \in SUBSET after(y) /\ after(x) # after(y) BY <3>1
    <3>3. Cardinality(after(y)) <= Cardinality(after(x)) BY <2>2, <2>3
    <3> HIDE DEF R, after
    <3>4. /\ Cardinality(after(x)) <= Cardinality(after(y))
          /\ Cardinality(after(y)) = Cardinality(after(x)) => after(y) = after(x)
      BY <1>4, <3>2, FS_Subset
    <3> QED BY <1>4, <3>2, <3>3, <3>4
  <2>5. R \ {x} \in SUBSET cache[x].later BY <2>4
  <2> HIDE DEF R
  <2>6. Cardinality(R \ {x}) <= Cardinality(cache[x].later) BY <1>3, <2>5, FS_Subset
  <2>7. Cardinality(R \ {x}) = Cardinality(R) - 1 BY <1>2, FS_RemoveElement
  <2> QED BY <1>1, <1>2, <1>3, <2>6, <2>7 DEF R
<1> QED BY <1>1, <1>5, <1>6

LEMMA TrimmedIs ==
  ASSUME NEW cache, CacheOK(cache), NEW st
  PROVE  /\ CacheOK(Trimmed(cache, st)) /\ DOMAIN Trimmed(cache, st) \subseteq DOMAIN cache
         /\ st \notin DOMAIN Trimmed(cache, st) =>
              Cardinality(DOMAIN Trimmed(cache, st)) <= MaxEntries - 1
<1> DEFINE S == {x \in DOMAIN cache : InTime(cache[x])}
<1>1. CacheOK(Unexpired(cache)) /\ DOMAIN Unexpired(cache) \subseteq DOMAIN cache BY OnlyIs DEF Unexpired
<1>2. MaxEntries - 1 \in Nat BY CacheAssumption
<1>3. /\ CacheOK(Youngest(Unexpired(cache), MaxEntries - 1))
      /\ DOMAIN Youngest(Unexpired(cache), MaxEntries - 1) \subseteq DOMAIN Unexpired(cache)
      /\ Cardinality(DOMAIN Youngest(Unexpired(cache), MaxEntries - 1)) <= MaxEntries - 1
  BY <1>1, <1>2, YoungestIs
<1> QED BY <1>1, <1>3 DEF Trimmed

LEMMA HeldIs ==
  ASSUME CacheInv, NEW st, Held(st) # None
  PROVE  st \in DOMAIN entries /\ Held(st).at \in Nat
BY DEF CacheInv, CacheOK, Held

-----------------------------------------------------------------------------
(* The steps                                                               *)

LEMMA InitCacheInv == ReadingInit => CacheInv
<1> SUFFICES ASSUME ReadingInit PROVE CacheInv OBVIOUS
<1>1. DOMAIN entries = {} /\ IsRow(entries, {}) BY DEF ReadingInit, IsRow
<1>2. Loading = {} BY DEF ReadingInit, Loading
<1>3. Claimed = {} BY <1>1, <1>2 DEF Claimed
<1>4. IsFiniteSet({}) /\ Cardinality({}) = 0 BY FS_EmptySet
<1> QED BY <1>1, <1>2, <1>3, <1>4, CacheAssumption DEF CacheInv, CacheOK

(* Nothing is claimed anew.                                                *)
LEMMA NoMoreClaimed ==
  ASSUME CacheInv, CacheOK(entries)', Loading' \subseteq Loading, Claimed' \subseteq Claimed,
         \A x \in Loading' : inFlight'[x].existing = inFlight[x].existing
  PROVE  CacheInv'
<1>1. /\ IsFiniteSet(Loading) /\ Cardinality(Loading) <= MaxEntries
      /\ IsFiniteSet(Claimed) /\ Cardinality(Claimed) < 2 * MaxEntries
      /\ Cardinality(Loading) \in Nat /\ Cardinality(Claimed) \in Nat
  BY FS_CardinalityType DEF CacheInv
<1>2. IsFiniteSet(Loading') /\ Cardinality(Loading') <= Cardinality(Loading)
      /\ Cardinality(Loading') \in Nat
  BY <1>1, FS_Subset, FS_CardinalityType
<1>3. IsFiniteSet(Claimed') /\ Cardinality(Claimed') <= Cardinality(Claimed)
      /\ Cardinality(Claimed') \in Nat
  BY <1>1, FS_Subset, FS_CardinalityType
<1>4. \A x \in Loading' : inFlight'[x].existing # None => inFlight'[x].existing.at \in Nat
  BY DEF CacheInv
<1> QED BY <1>1, <1>2, <1>3, <1>4, CacheAssumption DEF CacheInv

(* A full table of entries and the loads beside them.                      *)
LEMMA ClaimedIsBounded ==
  ASSUME NEW A, NEW B, IsFiniteSet(A), IsFiniteSet(B), Claimed' \subseteq A \cup B,
         \/ Cardinality(A) <= MaxEntries - 1 /\ Cardinality(B) <= MaxEntries
         \/ Cardinality(A) <= MaxEntries /\ Cardinality(B) <= MaxEntries - 1
  PROVE  IsFiniteSet(Claimed') /\ Cardinality(Claimed') < 2 * MaxEntries
<1>1. /\ IsFiniteSet(A \cup B) /\ IsFiniteSet(A \cap B)
      /\ Cardinality(A \cup B) = Cardinality(A) + Cardinality(B) - Cardinality(A \cap B)
  BY FS_Union, FS_Intersection
<1>2. /\ Cardinality(A) \in Nat /\ Cardinality(B) \in Nat /\ Cardinality(A \cap B) \in Nat
  BY <1>1, FS_CardinalityType
<1>3. /\ IsFiniteSet(Claimed') /\ Cardinality(Claimed') <= Cardinality(A \cup B)
      /\ Cardinality(Claimed') \in Nat
  BY <1>1, FS_Subset, FS_CardinalityType
<1> QED BY <1>1, <1>2, <1>3, CacheAssumption

LEMMA GetLatestBounded ==
  ASSUME LatestInv, CacheInv, NEW q \in Requests, NEW st \in Stations, GetLatest(q, st)
  PROVE  CacheInv'
<1>1. UNCHANGED clock BY DEF GetLatest
<1>2. CASE UNCHANGED <<entries, inFlight>>
  BY <1>1, <1>2, NoMoreClaimed DEF CacheInv, CacheOK, Loading, Claimed, Servable, InTime
<1>3. CASE Fresh(Held(st)) /\ entries' = Touched(entries, st, Held(st)) /\ UNCHANGED inFlight
  <2>1. st \in DOMAIN entries /\ Held(st).at \in Nat BY <1>3, HeldIs DEF Fresh
  <2>2. CacheOK(entries) BY DEF CacheInv
  <2>3. PICK c : c = Touched(entries, st, Held(st)) OBVIOUS
  <2>4. CacheOK(c) /\ DOMAIN c = DOMAIN entries
    <3>1. CacheOK(c) /\ DOMAIN c = DOMAIN entries \cup {st} BY <2>1, <2>2, <2>3, TouchedIs
    <3> QED BY <2>1, <3>1
  <2>5. entries' = c BY <1>3, <2>3
  <2> QED BY <1>1, <1>3, <2>4, <2>5, NoMoreClaimed
          DEF CacheOK, Loading, Claimed, Servable, InTime
<1>4. CASE /\ st \notin Loading /\ Cardinality(Loading) < MaxEntries
           /\ entries' = Trimmed(entries, st)
           /\ inFlight' = [inFlight EXCEPT ![st] =
                 [fetched |-> clock, existing |-> Held(st), sample |-> None, written |-> FALSE]]
  <2>1. CacheOK(entries) /\ IsFiniteSet(Loading) BY DEF CacheInv
  <2>2. PICK c : c = Trimmed(entries, st) OBVIOUS
  <2>3. /\ CacheOK(c) /\ DOMAIN c \subseteq DOMAIN entries
        /\ st \notin DOMAIN c => Cardinality(DOMAIN c) <= MaxEntries - 1
        /\ entries' = c /\ IsFiniteSet(DOMAIN c)
    BY <1>4, <2>1, <2>2, TrimmedIs DEF CacheOK
  <2>4. /\ inFlight'[st].existing = Held(st)
        /\ \A x \in Stations \ {st} : inFlight'[x] = inFlight[x]
    BY <1>4 DEF LatestInv, LoadsOK, IsRow
  <2>5. Loading' \subseteq Loading \cup {st} BY <2>4 DEF Loading
  <2>6. CacheOK(entries)' BY <2>3 DEF CacheOK
  <2>7. /\ IsFiniteSet(Loading') /\ Cardinality(Loading') <= MaxEntries
    <3>1. /\ IsFiniteSet(Loading \cup {st})
          /\ Cardinality(Loading \cup {st}) = Cardinality(Loading) + 1 /\ Cardinality(Loading) \in Nat
      BY <1>4, <2>1, FS_AddElement, FS_CardinalityType
    <3>2. /\ IsFiniteSet(Loading') /\ Cardinality(Loading') <= Cardinality(Loading \cup {st})
          /\ Cardinality(Loading') \in Nat
      BY <2>5, <3>1, FS_Subset, FS_CardinalityType
    <3> QED BY <1>4, <3>1, <3>2, CacheAssumption
  <2>8. \A x \in Loading' : inFlight'[x].existing # None => inFlight'[x].existing.at \in Nat
    BY <2>4, <2>5, HeldIs DEF CacheInv, Loading
  <2>9. IsFiniteSet(Claimed') /\ Cardinality(Claimed') < 2 * MaxEntries
    <3>1. \A x \in Loading : inFlight'[x] = inFlight[x] BY <1>4, <2>4 DEF Loading
    <3>2. CASE st \in DOMAIN c
      <4>1. Claimed' \subseteq Claimed
        <5>1. \A x \in Loading : Servable(inFlight[x].existing)' => Servable(inFlight[x].existing)
          BY <1>1, <3>1 DEF Servable, InTime
        <5>2. Claimed' = DOMAIN entries' \cup {x \in Loading' : Servable(inFlight[x].existing)'}
          BY DEF Claimed
        <5> QED BY <2>3, <2>5, <3>2, <5>1, <5>2 DEF Claimed
      <4>2. IsFiniteSet(Claimed) /\ Cardinality(Claimed) < 2 * MaxEntries /\ Cardinality(Claimed) \in Nat
        BY FS_CardinalityType DEF CacheInv
      <4>3. /\ IsFiniteSet(Claimed') /\ Cardinality(Claimed') <= Cardinality(Claimed)
            /\ Cardinality(Claimed') \in Nat
        BY <4>1, <4>2, FS_Subset, FS_CardinalityType
      <4> QED BY <4>2, <4>3, CacheAssumption
    <3>3. CASE st \notin DOMAIN c
      <4>1. Claimed' \subseteq DOMAIN c \cup Loading' BY <2>3 DEF Claimed
      <4> QED BY <2>3, <2>7, <3>3, <4>1, ClaimedIsBounded
    <3> QED BY <3>2, <3>3
  <2> QED BY <2>6, <2>7, <2>8, <2>9 DEF CacheInv
<1> QED BY <1>2, <1>3, <1>4, Zenon DEF GetLatest

(* A load ends with a value.                                               *)
LEMMA LoadedBounded ==
  ASSUME LatestInv, CacheInv, NEW st \in Stations, Loaded(st) PROVE CacheInv'
<1> DEFINE e == [sample |-> inFlight[st].sample, at |-> clock]
<1>1. /\ CacheOK(entries) /\ IsFiniteSet(Loading) /\ Cardinality(Loading) <= MaxEntries
      /\ clock \in Nat /\ e.at \in Nat
  BY DEF CacheInv, LatestInv, RowsOK
<1>2. /\ st \in Loading /\ UNCHANGED clock
      /\ entries' = Touched(Trimmed(entries, st), st, e)
      /\ inFlight' = [inFlight EXCEPT ![st] = None]
  BY DEF Loaded
<1>3. PICK t : t = Trimmed(entries, st) OBVIOUS
<1>4. /\ CacheOK(t) /\ DOMAIN t \subseteq DOMAIN entries /\ IsFiniteSet(DOMAIN t)
      /\ st \notin DOMAIN t => Cardinality(DOMAIN t) <= MaxEntries - 1
  BY <1>1, <1>3, TrimmedIs DEF CacheOK
<1>5. PICK c : c = Touched(t, st, e) OBVIOUS
<1> HIDE DEF e
<1>6. CacheOK(c) /\ DOMAIN c = DOMAIN t \cup {st} /\ entries' = c
  BY <1>1, <1>2, <1>3, <1>4, <1>5, TouchedIs
<1>7. CacheOK(entries)' BY <1>6 DEF CacheOK
<1>8. Loading' = Loading \ {st} /\ \A x \in Loading' : inFlight'[x] = inFlight[x]
  BY <1>2 DEF Loading, LatestInv, LoadsOK, IsRow
<1>9. CASE st \in DOMAIN t
  <2>1. \A x \in Loading' : Servable(inFlight[x].existing)' => Servable(inFlight[x].existing)
    BY <1>2, <1>8 DEF Servable, InTime
  <2>2. Claimed' = DOMAIN entries' \cup {x \in Loading' : Servable(inFlight[x].existing)'}
    BY DEF Claimed
  <2>3. Claimed' \subseteq Claimed BY <1>4, <1>6, <1>8, <1>9, <2>1, <2>2 DEF Claimed
  <2> QED BY <1>7, <1>8, <2>3, NoMoreClaimed
<1>10. CASE st \notin DOMAIN t
  <2>1. /\ IsFiniteSet(Loading') /\ Cardinality(Loading') = Cardinality(Loading) - 1
        /\ Cardinality(Loading) \in Nat
    BY <1>1, <1>2, <1>8, FS_RemoveElement, FS_CardinalityType
  <2>2. /\ IsFiniteSet(DOMAIN c) /\ Cardinality(DOMAIN c) = Cardinality(DOMAIN t) + 1
        /\ Cardinality(DOMAIN t) \in Nat
    BY <1>4, <1>6, <1>10, FS_AddElement, FS_CardinalityType
  <2>3. Cardinality(DOMAIN c) <= MaxEntries /\ Cardinality(Loading') <= MaxEntries - 1
    BY <1>1, <1>4, <1>10, <2>1, <2>2, CacheAssumption
  <2>4. Claimed' \subseteq DOMAIN c \cup Loading' BY <1>6 DEF Claimed
  <2>5. IsFiniteSet(Claimed') /\ Cardinality(Claimed') < 2 * MaxEntries
    BY <2>1, <2>2, <2>3, <2>4, ClaimedIsBounded
  <2>6. \A x \in Loading' : inFlight'[x].existing # None => inFlight'[x].existing.at \in Nat
    BY <1>8 DEF CacheInv
  <2> QED BY <1>1, <1>7, <2>1, <2>3, <2>5, <2>6, CacheAssumption DEF CacheInv
<1> QED BY <1>9, <1>10

(* A load that fails gives back no more than it claims.                    *)
LEMMA LoadFailsBounded ==
  ASSUME LatestInv, CacheInv, NEW st \in Stations, LoadFails(st) PROVE CacheInv'
<1>1. PICK e : e = IF Held(st) # None THEN Held(st) ELSE inFlight[st].existing OBVIOUS
<1>2. /\ st \in Loading /\ UNCHANGED clock /\ inFlight' = [inFlight EXCEPT ![st] = None]
      /\ \/ Servable(e) /\ entries' = Touched(entries, st, e)
         \/ UNCHANGED entries
  BY <1>1 DEF LoadFails
<1>3. Loading' \subseteq Loading /\ \A x \in Loading' : inFlight'[x] = inFlight[x]
  BY <1>2 DEF Loading, LatestInv, LoadsOK, IsRow
<1>4. CacheOK(entries) BY DEF CacheInv
<1>5. CacheOK(entries)' /\ DOMAIN entries' \subseteq Claimed
  <2>1. CASE UNCHANGED entries BY <1>4, <2>1 DEF CacheOK, Claimed
  <2>2. CASE Servable(e) /\ entries' = Touched(entries, st, e)
    <3>1. e.at \in Nat /\ st \in Claimed
      BY <1>1, <1>2, <2>2, HeldIs DEF Servable, CacheInv, Claimed
    <3>2. PICK c : c = Touched(entries, st, e) OBVIOUS
    <3>3. CacheOK(c) /\ DOMAIN c = DOMAIN entries \cup {st} BY <1>4, <3>1, <3>2, TouchedIs
    <3> QED BY <2>2, <3>1, <3>2, <3>3 DEF CacheOK, Claimed
  <2> QED BY <1>2, <2>1, <2>2
<1>6. \A x \in Loading' : Servable(inFlight[x].existing)' => Servable(inFlight[x].existing)
  BY <1>2, <1>3 DEF Servable, InTime
<1>7. Claimed' = DOMAIN entries' \cup {x \in Loading' : Servable(inFlight[x].existing)'}
  BY DEF Claimed
<1>8. Claimed' \subseteq Claimed BY <1>3, <1>5, <1>6, <1>7 DEF Claimed
<1> QED BY <1>3, <1>5, <1>8, NoMoreClaimed

(* The steps that leave the entries: a load goes on or is rejected, time   *)
(* passes, or the cache is not concerned.                                  *)
LEMMA EntriesKept ==
  ASSUME LatestInv, CacheInv, UNCHANGED entries, clock' \in Nat, clock <= clock',
         Loading' \subseteq Loading,
         \A x \in Loading' : inFlight'[x].existing = inFlight[x].existing
  PROVE  CacheInv'
<1>1. CacheOK(entries)' BY DEF CacheInv, CacheOK
<1>2. clock \in Nat BY DEF LatestInv, RowsOK
<1>3. \A x \in Loading' : Servable(inFlight[x].existing)' => Servable(inFlight[x].existing)
  BY <1>2, CacheAssumption DEF Servable, InTime, CacheInv
<1>4. Claimed' = DOMAIN entries' \cup {x \in Loading' : Servable(inFlight[x].existing)'}
  BY DEF Claimed
<1>5. Claimed' \subseteq Claimed BY <1>3, <1>4 DEF Claimed
<1> QED BY <1>1, <1>5, NoMoreClaimed

LEMMA NextCacheInv == LatestInv /\ CacheInv /\ [ReadingNext]_readingVars => CacheInv'
<1> SUFFICES ASSUME LatestInv, CacheInv, [ReadingNext]_readingVars PROVE CacheInv' OBVIOUS
<1>1. clock \in Nat /\ clock <= clock BY DEF LatestInv, RowsOK
<1>2. CASE UNCHANGED <<clock, entries, inFlight>>
  BY <1>1, <1>2, EntriesKept DEF Loading
<1>3. CASE Tick
  <2>1. clock' = clock + 1 /\ UNCHANGED <<entries, inFlight>> BY <1>3 DEF Tick
  <2> QED BY <1>1, <2>1, EntriesKept DEF Loading
<1>4. ASSUME NEW st \in Stations, Respond(st) \/ Ingest(st) \/ LoadRejected(st) PROVE CacheInv'
  <2>1. /\ UNCHANGED <<clock, entries>> /\ st \in Loading
        /\ \/ \E s : inFlight' = [inFlight EXCEPT ![st].sample = s]
           \/ inFlight' = [inFlight EXCEPT ![st].written = TRUE]
           \/ inFlight' = [inFlight EXCEPT ![st] = None]
    BY <1>4 DEF Respond, Ingest, LoadRejected
  <2>2. /\ inFlight = [x \in Stations |-> inFlight[x]]
        /\ inFlight[st] = [x \in {"fetched", "existing", "sample", "written"} |-> inFlight[st][x]]
    BY <2>1 DEF Loading, LatestInv, LoadsOK, IsRow
  <2>3. /\ \A x \in Stations \ {st} : inFlight'[x] = inFlight[x]
        /\ inFlight'[st] = None \/ inFlight'[st].existing = inFlight[st].existing
    BY <2>1, <2>2
  <2> QED BY <1>1, <2>1, <2>3, EntriesKept DEF Loading
<1>5. ASSUME NEW st \in Stations, ReadingStep(st) PROVE CacheInv'
  BY <1>4, <1>5, GetLatestBounded, LoadedBounded, LoadFailsBounded DEF ReadingStep
<1>6. ASSUME NEW st \in Stations, OutsideStep(st) PROVE CacheInv'
  BY <1>2, <1>6 DEF OutsideStep, FetchElsewhere, RespondElsewhere, IngestElsewhere, Measure,
                    RemoveSource
<1>7. CASE AnswerStep \/ UNCHANGED readingVars
  BY <1>2, <1>7 DEF AnswerStep, Answer, Refuse, readingVars
<1> QED BY <1>3, <1>5, <1>6, <1>7 DEF ReadingNext

(* However many loads fail and bring their entries back, the cache never   *)
(* holds twice its limit.                                                  *)
THEOREM CacheIsBounded == ReadingSpec => []CacheStaysBounded
<1>1. CacheInv => CacheStaysBounded
  <2> SUFFICES ASSUME CacheInv PROVE CacheStaysBounded OBVIOUS
  <2>1. DOMAIN entries \in SUBSET Claimed /\ IsFiniteSet(Claimed) BY DEF Claimed, CacheInv
  <2>2. /\ Cardinality(DOMAIN entries) <= Cardinality(Claimed) /\ Cardinality(Claimed) \in Nat
        /\ Cardinality(DOMAIN entries) \in Nat
    BY <2>1, FS_Subset, FS_CardinalityType
  <2> QED BY <2>2, CacheAssumption DEF CacheInv, CacheStaysBounded
<1> QED BY <1>1, InitLatestInv, NextLatestInv, InitCacheInv, NextCacheInv, PTL DEF ReadingSpec

-----------------------------------------------------------------------------
(* The checks of a source                                                  *)

HealthSpec == HealthInit /\ [][HealthNext]_healthVars

TimesOK == moment \in Nat /\ told \in Nat /\ told <= moment

(* One result is kept and one account probes at a time; a result is not    *)
(* older than an answer, nor a probe than the result.                      *)
ResultsOK ==
    /\ \A r, s \in result : r = s
    /\ \A r \in result : r.checked \in Nat /\ told <= r.checked /\ r.checked <= moment

ProbesOK ==
    /\ IsRow(probe, Readers)
    /\ \A q, w \in Readers : \A p \in probe[q], o \in probe[w] : q = w /\ p = o
    /\ \A q \in Readers : \A p \in probe[q] :
         /\ IsRow(p, {"checked", "connected"})
         /\ p.checked \in Nat /\ told <= p.checked /\ p.checked <= moment
         /\ \A r \in result : r.checked <= p.checked

(* Whatever is to be answered yet is not newer than the result and the     *)
(* probe.                                                                  *)
ChecksOK ==
    /\ IsRow(check, Readers)
    /\ \A q \in Readers :
         /\ IsRow(check[q], {"at", "of", "checked", "connected", "seen"})
         /\ check[q].seen \in Nat /\ check[q].seen <= told
         /\ check[q].at \in {"rechecking", "answered"} =>
              check[q].checked \in Nat /\ check[q].seen <= check[q].checked
         /\ check[q].at = "rechecking" =>
              /\ check[q].checked <= moment
              /\ \A r \in result : check[q].checked <= r.checked
              /\ \A w \in Readers : \A p \in probe[w] : check[q].checked <= p.checked

(* The inductive invariant.                                                *)
HealthInv == TimesOK /\ ResultsOK /\ ProbesOK /\ ChecksOK

CheckColumns == {"at", "of", "checked", "connected", "seen"}

LEMMA InitHealthInv == HealthInit => HealthInv
<1> SUFFICES ASSUME HealthInit PROVE HealthInv OBVIOUS
<1>1. TimesOK /\ ResultsOK /\ ProbesOK BY DEF HealthInit, TimesOK, ResultsOK, ProbesOK, IsRow
<1>2. IsRow(Quiet, CheckColumns) /\ Quiet.at = "idle" /\ Quiet.seen = 0
  BY DEF Quiet, IsRow, CheckColumns
<1>3. ChecksOK BY <1>2 DEF HealthInit, ChecksOK, IsRow, CheckColumns
<1> QED BY <1>1, <1>3 DEF HealthInv

(* A check that asks, waits or is over says nothing yet.                   *)
LEMMA QuietChecks ==
  ASSUME HealthInv
  PROVE  LET asks == [Quiet EXCEPT !.seen = told]
         IN  /\ IsRow(Quiet, CheckColumns) /\ Quiet.at = "idle" /\ Quiet.seen = 0
             /\ IsRow(asks, CheckColumns) /\ asks.seen = told
<1> DEFINE asks == [Quiet EXCEPT !.seen = told]
<1>1. Quiet = [x \in CheckColumns |-> Quiet[x]] /\ Quiet.at = "idle" /\ Quiet.seen = 0
  BY DEF Quiet, CheckColumns
<1>2. IsRow(asks, CheckColumns) /\ asks.seen = told BY <1>1 DEF IsRow, CheckColumns
<1> QED BY <1>1, <1>2 DEF IsRow

(* One check moves, and nothing is probed, found or answered by it.        *)
LEMMA OneCheckMoves ==
  ASSUME HealthInv, NEW q \in Readers, NEW now, check' = [check EXCEPT ![q] = now],
         IsRow(now, CheckColumns), now.at \in {"idle", "waiting"}, now.seen \in {0, told},
         UNCHANGED <<moment, told, result>>, ProbesOK',
         \A w \in Readers : \A p \in probe'[w] : p \in probe[w] \/ p.checked = moment
  PROVE  HealthInv'
<1>1. TimesOK /\ ResultsOK /\ ProbesOK /\ ChecksOK BY DEF HealthInv
<1>2. TimesOK' /\ ResultsOK' BY <1>1 DEF TimesOK, ResultsOK
<1>3. /\ IsRow(check', Readers) /\ check'[q] = now
      /\ \A w \in Readers \ {q} : check'[w] = check[w]
  BY <1>1 DEF ChecksOK, IsRow
<1>4. now.seen \in Nat /\ now.seen <= told BY <1>1 DEF TimesOK
<1>5. ASSUME NEW w \in Readers, w # q, check[w].at = "rechecking",
             NEW x \in Readers, NEW p \in probe'[x]
      PROVE  check[w].checked <= p.checked
  BY <1>1, <1>5 DEF ChecksOK
<1>6. ChecksOK' BY <1>1, <1>3, <1>4, <1>5 DEF ChecksOK, CheckColumns
<1> QED BY <1>1, <1>2, <1>6 DEF HealthInv

(* What is answered becomes the newest that is told.                       *)
LEMMA OneIsAnswered ==
  ASSUME HealthInv, NEW q \in Readers, NEW now, check' = [check EXCEPT ![q] = now],
         IsRow(now, CheckColumns), now.at = "answered", now.checked \in Nat,
         now.seen \in Nat, now.seen <= told, now.seen <= now.checked, now.checked <= moment,
         \A r \in result : now.checked <= r.checked,
         \A w \in Readers : \A p \in probe[w] : now.checked <= p.checked,
         told' = IF now.checked > told THEN now.checked ELSE told,
         UNCHANGED <<moment, result, probe>>
  PROVE  HealthInv'
<1>1. TimesOK /\ ResultsOK /\ ProbesOK /\ ChecksOK BY DEF HealthInv
<1>2. told' \in {told, now.checked} /\ told <= told' /\ told' \in Nat BY <1>1 DEF TimesOK
<1>3. TimesOK' BY <1>1, <1>2 DEF TimesOK
<1>4. ResultsOK' BY <1>1, <1>2 DEF ResultsOK
<1>5. ProbesOK' BY <1>1, <1>2 DEF ProbesOK
<1>6. /\ IsRow(check', Readers) /\ check'[q] = now
      /\ \A w \in Readers \ {q} : check'[w] = check[w]
  BY <1>1 DEF ChecksOK, IsRow
<1>7. \A w \in Readers : check[w].seen \in Nat /\ check[w].seen <= told'
  BY <1>1, <1>2 DEF ChecksOK, TimesOK
<1>8. now.seen <= told' BY <1>1, <1>2 DEF TimesOK
<1>9. ChecksOK' BY <1>1, <1>6, <1>7, <1>8 DEF ChecksOK, CheckColumns
<1> QED BY <1>3, <1>4, <1>5, <1>9 DEF HealthInv

LEMMA CheckKeeps == ASSUME HealthInv, NEW q \in Readers, Check(q) PROVE HealthInv'
<1> DEFINE asks == [Quiet EXCEPT !.seen = told]
<1>1. TimesOK /\ ResultsOK /\ ProbesOK /\ ChecksOK BY DEF HealthInv
<1>2. /\ asks = [x \in CheckColumns |-> asks[x]] /\ asks.seen = told
      /\ UNCHANGED <<moment, result>>
  BY QuietChecks DEF IsRow, Check
<1>3. CASE \E r \in result :
             /\ check' = [check EXCEPT ![q] = [asks EXCEPT !.at = "answered",
                     !.checked = r.checked, !.connected = r.connected]]
             /\ told' = IF r.checked > told THEN r.checked ELSE told
             /\ UNCHANGED probe
  <2>1. PICK r \in result :
             /\ check' = [check EXCEPT ![q] = [asks EXCEPT !.at = "answered",
                     !.checked = r.checked, !.connected = r.connected]]
             /\ told' = IF r.checked > told THEN r.checked ELSE told
             /\ UNCHANGED probe
    BY <1>3
  <2> DEFINE now == [asks EXCEPT !.at = "answered", !.checked = r.checked,
                                 !.connected = r.connected]
  <2> HIDE DEF asks
  <2>2. /\ IsRow(now, CheckColumns) /\ now.at = "answered" /\ now.checked = r.checked
        /\ now.seen = told
    BY <1>2 DEF IsRow, CheckColumns
  <2>3. check' = [check EXCEPT ![q] = now] BY <2>1
  <2> HIDE DEF now
  <2>4. /\ r.checked \in Nat /\ told \in Nat /\ told <= told /\ told <= r.checked
        /\ r.checked <= r.checked /\ r.checked <= moment
        /\ \A s \in result : r.checked <= s.checked
        /\ \A w \in Readers : \A p \in probe[w] : r.checked <= p.checked
    BY <1>1 DEF TimesOK, ResultsOK, ProbesOK
  <2> QED BY ZenonT(60), <1>2, <2>1, <2>2, <2>3, <2>4, OneIsAnswered
<1>4. CASE /\ \E p \in Joins : check' = [check EXCEPT ![q] = [asks EXCEPT !.at = "waiting", !.of = p]]
           /\ UNCHANGED <<probe, told>>
  <2>1. PICK p \in Joins : check' = [check EXCEPT ![q] = [asks EXCEPT !.at = "waiting", !.of = p]]
    BY <1>4
  <2> DEFINE now == [asks EXCEPT !.at = "waiting", !.of = p]
  <2> HIDE DEF asks
  <2>2. IsRow(now, CheckColumns) /\ now.at = "waiting" /\ now.seen = told
    BY <1>2 DEF IsRow, CheckColumns
  <2>3. check' = [check EXCEPT ![q] = now] BY <2>1
  <2> HIDE DEF now
  <2>4. ProbesOK' BY <1>1, <1>2, <1>4 DEF ProbesOK
  <2> QED BY <1>2, <1>4, <2>2, <2>3, <2>4, OneCheckMoves
<1>5. CASE /\ Joins = {}
           /\ check' = [check EXCEPT ![q] = [asks EXCEPT !.at = "waiting", !.of = q]]
           /\ probe' = [probe EXCEPT ![q] = {[checked |-> moment, connected |-> "unknown"]}]
           /\ UNCHANGED told
  <2> DEFINE now == [asks EXCEPT !.at = "waiting", !.of = q]
             new == [checked |-> moment, connected |-> "unknown"]
  <2> HIDE DEF asks
  <2>2. IsRow(now, CheckColumns) /\ now.at = "waiting" /\ now.seen = told
    BY <1>2 DEF IsRow, CheckColumns
  <2>3. check' = [check EXCEPT ![q] = now] /\ probe' = [probe EXCEPT ![q] = {new}] BY <1>5
  <2>4. IsRow(new, {"checked", "connected"}) /\ new.checked = moment BY DEF IsRow
  <2> HIDE DEF now, new
  <2>5. \A w \in Readers : probe[w] = {} BY <1>5 DEF Joins, Probing
  <2>6. /\ IsRow(probe', Readers) /\ probe'[q] = {new}
        /\ \A w \in Readers \ {q} : probe'[w] = {}
    BY <1>1, <2>3, <2>5 DEF ProbesOK, IsRow
  <2>7. /\ moment \in Nat /\ told <= moment /\ moment <= moment
        /\ \A r \in result : r.checked <= moment
    BY <1>1 DEF TimesOK, ResultsOK
  <2>8. ProbesOK' BY <1>2, <1>5, <2>4, <2>6, <2>7 DEF ProbesOK
  <2> QED BY <1>2, <1>5, <2>2, <2>3, <2>4, <2>6, <2>8, OneCheckMoves
<1> QED BY <1>3, <1>4, <1>5 DEF Check

LEMMA ProbedKeeps == ASSUME HealthInv, NEW q \in Readers, Probed(q) PROVE HealthInv'
<1>1. TimesOK /\ ResultsOK /\ ProbesOK /\ ChecksOK BY DEF HealthInv
<1>2. PICK p \in probe[q] :
        /\ probe' = [probe EXCEPT ![q] = {[p EXCEPT !.connected = IF up THEN "yes" ELSE "no"]}]
        /\ UNCHANGED <<moment, result, check, told>>
  BY DEF Probed
<1> DEFINE new == [p EXCEPT !.connected = IF up THEN "yes" ELSE "no"]
<1>3. p = [x \in {"checked", "connected"} |-> p[x]] BY <1>1 DEF ProbesOK, IsRow
<1>4. IsRow(new, {"checked", "connected"}) /\ new.checked = p.checked BY <1>3 DEF IsRow
<1>5. probe' = [probe EXCEPT ![q] = {new}] BY <1>2
<1> HIDE DEF new
<1>6. /\ IsRow(probe', Readers) /\ probe'[q] = {new}
      /\ \A w \in Readers \ {q} : probe'[w] = probe[w] /\ probe[w] = {}
  BY <1>1, <1>5 DEF ProbesOK, IsRow
<1>7. ProbesOK' BY <1>1, <1>2, <1>4, <1>6 DEF ProbesOK
<1>8. ASSUME NEW w \in Readers, NEW o \in probe'[w]
      PROVE  \E x \in Readers : \E s \in probe[x] : s.checked = o.checked
  BY <1>4, <1>6
<1>9. ChecksOK' BY <1>1, <1>2, <1>4, <1>6 DEF ChecksOK
<1> QED BY <1>1, <1>2, <1>7, <1>9 DEF HealthInv, TimesOK, ResultsOK

(* The probe that ends is not older than anything that is not answered yet.*)
LEMMA ProbeEndsKeeps == ASSUME HealthInv, NEW q \in Readers, ProbeEnds(q) PROVE HealthInv'
<1>1. TimesOK /\ ResultsOK /\ ProbesOK /\ ChecksOK BY DEF HealthInv
<1>2. PICK p \in probe[q] :
        /\ result' = {[checked |-> p.checked, connected |-> p.connected = "yes"]}
        /\ probe' = [probe EXCEPT ![q] = {}]
        /\ check' = [w \in Readers |->
                       IF w \in Waiters(q)
                       THEN [check[w] EXCEPT !.at = "rechecking", !.checked = p.checked,
                                             !.connected = p.connected = "yes"]
                       ELSE check[w]]
        /\ UNCHANGED <<moment, told>>
  BY DEF ProbeEnds
<1>3. p.checked \in Nat /\ told <= p.checked /\ p.checked <= moment /\ p.checked <= p.checked
  BY <1>1 DEF ProbesOK
<1>4. IsRow(probe', Readers) /\ \A w \in Readers : probe'[w] = {}
  BY <1>1, <1>2 DEF ProbesOK, IsRow
<1>5. TimesOK' /\ ProbesOK' BY <1>1, <1>2, <1>4 DEF TimesOK, ProbesOK
<1>6. \A r \in result' : r.checked = p.checked
  <2> DEFINE connected == p.connected = "yes"
  <2>1. result' = {[checked |-> p.checked, connected |-> connected]} BY <1>2
  <2> HIDE DEF connected
  <2> QED BY <2>1
<1>7. ResultsOK' BY <1>2, <1>3, <1>6 DEF ResultsOK
<1>8. ASSUME NEW w \in Waiters(q)
      PROVE  /\ IsRow(check'[w], CheckColumns) /\ check'[w].at = "rechecking"
             /\ check'[w].checked = p.checked /\ check'[w].seen = check[w].seen
  <2> DEFINE connected == p.connected = "yes"
  <2>1. w \in Readers /\ check[w] = [x \in CheckColumns |-> check[w][x]]
    BY <1>1 DEF Waiters, ChecksOK, IsRow, CheckColumns
  <2>2. check'[w] = [check[w] EXCEPT !.at = "rechecking", !.checked = p.checked,
                                      !.connected = connected]
    BY <1>2, <2>1
  <2> HIDE DEF connected
  <2> QED BY <2>1, <2>2 DEF IsRow, CheckColumns
<1>9. IsRow(check', Readers) /\ \A w \in Readers \ Waiters(q) : check'[w] = check[w]
  BY <1>2 DEF IsRow
<1>10. ASSUME NEW w \in Readers
       PROVE  /\ IsRow(check'[w], CheckColumns)
              /\ check'[w].seen \in Nat /\ check'[w].seen <= told
              /\ check'[w].at \in {"rechecking", "answered"} =>
                   check'[w].checked \in Nat /\ check'[w].seen <= check'[w].checked
              /\ check'[w].at = "rechecking" =>
                   check'[w].checked <= moment /\ check'[w].checked <= p.checked
  <2>1. CASE w \in Waiters(q)
    <3>1. check[w].seen \in Nat /\ check[w].seen <= told /\ told \in Nat
      BY <1>1 DEF ChecksOK, TimesOK
    <3> QED BY <1>3, <1>8, <2>1, <3>1
  <2>2. CASE w \notin Waiters(q)
    <3>1. check'[w] = check[w] BY <1>9, <2>2
    <3> QED BY <1>1, <3>1 DEF ChecksOK, CheckColumns
  <2> QED BY <2>1, <2>2
<1>11. ChecksOK' BY <1>2, <1>4, <1>6, <1>9, <1>10 DEF ChecksOK, CheckColumns
<1> QED BY <1>5, <1>7, <1>11 DEF HealthInv

LEMMA ProbeThrowsKeeps == ASSUME HealthInv, NEW q \in Readers, ProbeThrows(q) PROVE HealthInv'
<1>1. TimesOK /\ ResultsOK /\ ProbesOK /\ ChecksOK BY DEF HealthInv
<1>2. /\ probe[q] # {} /\ probe' = [probe EXCEPT ![q] = {}]
      /\ check' = [w \in Readers |-> IF w \in Waiters(q) THEN Quiet ELSE check[w]]
      /\ UNCHANGED <<moment, result, told>>
  BY DEF ProbeThrows
<1>3. IsRow(probe', Readers) /\ \A w \in Readers : probe'[w] = {}
  BY <1>1, <1>2 DEF ProbesOK, IsRow
<1>4. IsRow(Quiet, CheckColumns) /\ Quiet.at = "idle" /\ Quiet.seen = 0 BY QuietChecks
<1>5. told \in Nat BY <1>1 DEF TimesOK
<1>6. IsRow(check', Readers) /\ \A w \in Readers : check'[w] \in {check[w], Quiet}
  BY <1>2 DEF IsRow
<1>7. ASSUME NEW w \in Readers
      PROVE  /\ IsRow(check'[w], CheckColumns)
             /\ check'[w].seen \in Nat /\ check'[w].seen <= told
             /\ check'[w].at \in {"rechecking", "answered"} => check'[w] = check[w]
  BY <1>1, <1>4, <1>5, <1>6 DEF ChecksOK, CheckColumns
<1>8. ChecksOK' BY <1>1, <1>2, <1>3, <1>6, <1>7 DEF ChecksOK, CheckColumns
<1> QED BY <1>1, <1>2, <1>3, <1>8 DEF HealthInv, TimesOK, ResultsOK, ProbesOK

LEMMA RecheckKeeps == ASSUME HealthInv, NEW q \in Readers, Recheck(q) PROVE HealthInv'
<1>1. TimesOK /\ ResultsOK /\ ProbesOK /\ ChecksOK BY DEF HealthInv
<1>2. check[q].at = "rechecking" /\ UNCHANGED <<moment, result, probe>> BY DEF Recheck
<1>3. CASE /\ check' = [check EXCEPT ![q].at = "answered"]
           /\ told' = IF check[q].checked > told THEN check[q].checked ELSE told
  <2> DEFINE now == [check[q] EXCEPT !.at = "answered"]
  <2>1. check[q] = [x \in CheckColumns |-> check[q][x]] /\ check = [w \in Readers |-> check[w]]
    BY <1>1 DEF ChecksOK, IsRow, CheckColumns
  <2>2. /\ IsRow(now, CheckColumns) /\ now.at = "answered" /\ now.checked = check[q].checked
        /\ now.seen = check[q].seen
    BY <2>1 DEF IsRow, CheckColumns
  <2>3. check' = [check EXCEPT ![q] = now] BY <1>3, <2>1
  <2> HIDE DEF now
  <2>4. /\ check[q].seen \in Nat /\ check[q].seen <= told /\ check[q].checked \in Nat
        /\ check[q].seen <= check[q].checked /\ check[q].checked <= moment
        /\ \A r \in result : check[q].checked <= r.checked
        /\ \A w \in Readers : \A p \in probe[w] : check[q].checked <= p.checked
    BY <1>1, <1>2 DEF ChecksOK
  <2> QED BY <1>2, <1>3, <2>2, <2>3, <2>4, OneIsAnswered
<1>4. CASE check' = [check EXCEPT ![q] = Quiet] /\ UNCHANGED told
  <2>1. ProbesOK' BY <1>1, <1>2, <1>4 DEF ProbesOK
  <2>2. IsRow(Quiet, CheckColumns) /\ Quiet.at = "idle" /\ Quiet.seen = 0 BY QuietChecks
  <2> QED BY <1>2, <1>4, <2>1, <2>2, OneCheckMoves
<1> QED BY <1>3, <1>4 DEF Recheck

LEMMA NextHealthInv == HealthInv /\ [HealthNext]_healthVars => HealthInv'
<1> SUFFICES ASSUME HealthInv, [HealthNext]_healthVars PROVE HealthInv' OBVIOUS
<1>1. TimesOK /\ ResultsOK /\ ProbesOK /\ ChecksOK BY DEF HealthInv
<1>2. ASSUME NEW q \in Readers, CheckStep(q) PROVE HealthInv'
  BY <1>2, CheckKeeps, ProbedKeeps, ProbeEndsKeeps, ProbeThrowsKeeps, RecheckKeeps DEF CheckStep
<1>3. CASE UNCHANGED <<moment, result, probe, check, told>>
  BY <1>1, <1>3 DEF HealthInv, TimesOK, ResultsOK, ProbesOK, ChecksOK
<1>4. CASE ResultEvicted
  <2>1. result' = {} /\ UNCHANGED <<moment, probe, check, told>> BY <1>4 DEF ResultEvicted
  <2> QED BY <1>1, <2>1 DEF HealthInv, TimesOK, ResultsOK, ProbesOK, ChecksOK
<1>5. CASE MomentPasses
  <2>1. moment' = moment + 1 /\ UNCHANGED <<result, probe, check, told>> BY <1>5 DEF MomentPasses
  <2>2. moment \in Nat /\ moment' \in Nat /\ told \in Nat /\ told <= moment'
    BY <1>1, <2>1 DEF TimesOK
  <2>3. TimesOK' BY <2>1, <2>2 DEF TimesOK
  <2>4. ResultsOK' BY <1>1, <2>1, <2>2 DEF ResultsOK
  <2>5. ProbesOK' BY <1>1, <2>1, <2>2 DEF ProbesOK
  <2>6. \A q \in Readers : check[q].at = "rechecking" => check[q].checked <= moment'
    BY <1>1, <2>1, <2>2 DEF ChecksOK
  <2>7. ChecksOK' BY <1>1, <2>1, <2>6 DEF ChecksOK
  <2> QED BY <2>3, <2>4, <2>5, <2>7 DEF HealthInv
<1>6. ASSUME NEW q \in Readers, GrantChanges(q) PROVE HealthInv'
  BY <1>3, <1>6 DEF GrantChanges
<1>7. CASE UNCHANGED healthVars BY <1>3, <1>7 DEF healthVars
<1>8. CASE TestStep BY <1>3, <1>8 DEF TestStep, StartTest, TestAnswered, FindTested, RecordTest
<1>9. CASE ResolveClient \/ ClientAnswers \/ MarkConnected \/ Removed \/ UpstreamTurns
  BY <1>3, <1>9 DEF ResolveClient, ClientAnswers, MarkConnected, Removed, UpstreamTurns
<1> QED BY <1>2, <1>4, <1>5, <1>6, <1>7, <1>8, <1>9 DEF HealthNext

(* However the checks of many accounts overlap, none that begins after an  *)
(* answer reports an older observation of the source.                      *)
THEOREM ChecksStayCurrent == HealthSpec => []ChecksNeverGoBack
<1>1. HealthInv => ChecksNeverGoBack BY DEF HealthInv, ChecksOK, ChecksNeverGoBack
<1> QED BY <1>1, InitHealthInv, NextHealthInv, PTL DEF HealthSpec

-----------------------------------------------------------------------------
(* The windows of the API keys                                             *)

LimitSpec == LimitInit /\ [][LimitNext]_limitVars

WindowRows == [key : ApiKeys, minute : Nat, count : Nat, used : Nat]

(* The table has one window for a key.                                     *)
TableOK ==
    /\ minute \in Nat /\ uses \in Seq([key : ApiKeys, granted : BOOLEAN])
    /\ windows \subseteq WindowRows /\ IsFiniteSet(windows)
    /\ \A w, v \in windows : w.key = v.key => w = v
    /\ \A w \in windows : w.minute <= minute

(* A window that runs says which request of the minute used its key last.  *)
LastUse(k, i) == i \in UsesOf(k) /\ \A j \in UsesOf(k) : j <= i

UsedOK == \A w \in Running(windows) : LastUse(w.key, w.used)

(* As many other keys as the table has places were used between two        *)
(* requests of k ...                                                       *)
Gap(k) ==
    \E i \in UsesOf(k), j \in UsesOf(k) :
        i < j /\ k \notin Between(i, j) /\ Cardinality(Between(i, j)) >= MaxWindows

(* ... or since its last one.                                              *)
Forgotten(k) ==
    \E i \in UsesOf(k) :
        LastUse(k, i) /\ Cardinality(Between(i, Len(uses) + 1)) >= MaxWindows

(* A key without a gap has a window that counts what it was granted, or    *)
(* was granted nothing yet, or its window may have been dropped by now.    *)
CountOK(k) ==
    \/ Gap(k)
    \/ \E w \in Current(k) : w.count = Cardinality(Granted(k)) /\ w.count <= Limit[k]
    \/ Current(k) = {} /\ Granted(k) = {}
    \/ Current(k) = {} /\ Cardinality(Granted(k)) <= Limit[k] /\ Forgotten(k)

(* The inductive invariant.                                                *)
LimitInv == TableOK /\ UsedOK /\ \A k \in ApiKeys : CountOK(k)

LEMMA UsesFinite ==
  ASSUME TableOK, NEW k
  PROVE  /\ IsFiniteSet(UsesOf(k)) /\ UsesOf(k) \subseteq 1 .. Len(uses) /\ Len(uses) \in Nat
         /\ IsFiniteSet(Granted(k)) /\ Cardinality(Granted(k)) \in Nat
         /\ Granted(k) \subseteq UsesOf(k)
<1>1. Len(uses) \in Nat /\ DOMAIN uses = 1 .. Len(uses) BY DEF TableOK
<1>2. UsesOf(k) \subseteq 1 .. Len(uses) BY <1>1 DEF UsesOf
<1>3. IsFiniteSet(1 .. Len(uses)) BY <1>1, FS_Interval
<1>4. IsFiniteSet(UsesOf(k)) BY <1>2, <1>3, FS_Subset
<1>5. Granted(k) \subseteq UsesOf(k) BY DEF Granted
<1>6. IsFiniteSet(Granted(k)) BY <1>4, <1>5, FS_Subset
<1> QED BY <1>1, <1>2, <1>4, <1>5, <1>6, FS_CardinalityType

LEMMA BetweenFinite ==
  ASSUME NEW i \in Nat, NEW j \in Nat
  PROVE  IsFiniteSet(Between(i, j)) /\ Cardinality(Between(i, j)) \in Nat
<1> DEFINE f == [n \in i + 1 .. j - 1 |-> uses[n].key]
<1>1. IsFiniteSet(i + 1 .. j - 1) BY FS_Interval
<1>2. f \in Surjection(i + 1 .. j - 1, Between(i, j)) BY DEF Surjection, Between
<1>3. IsFiniteSet(Between(i, j))
  <2> HIDE DEF f
  <2> QED BY <1>1, <1>2, FS_Surjection
<1> QED BY <1>3, FS_CardinalityType

-----------------------------------------------------------------------------
(* What one more request changes of the history                            *)

(* The uses of other keys are the same, those of the key one more.         *)
LEMMA OneMoreUse ==
  ASSUME TableOK, NEW x \in ApiKeys, NEW g \in BOOLEAN, Use(x, g)
  PROVE  /\ uses' \in Seq([key : ApiKeys, granted : BOOLEAN])
         /\ Len(uses)' = Len(uses) + 1
         /\ \A k : k # x => UsesOf(k)' = UsesOf(k) /\ Granted(k)' = Granted(k)
         /\ UsesOf(x)' = UsesOf(x) \cup {Len(uses) + 1}
         /\ g => Granted(x)' = Granted(x) \cup {Len(uses) + 1}
         /\ ~g => Granted(x)' = Granted(x)
<1> DEFINE new == [key |-> x, granted |-> g]
           n == Len(uses)
<1>1. new.key = x /\ new.granted = g /\ new \in [key : ApiKeys, granted : BOOLEAN] OBVIOUS
<1>2. uses' = Append(uses, new) BY DEF Use
<1> HIDE DEF new
<1>3. n \in Nat /\ DOMAIN uses = 1 .. n BY DEF TableOK
<1>4. /\ uses' \in Seq([key : ApiKeys, granted : BOOLEAN])
      /\ Len(uses') = n + 1 /\ DOMAIN uses' = 1 .. n + 1
      /\ \A i \in 1 .. n : uses'[i] = uses[i]
      /\ uses'[n + 1] = new
  BY <1>1, <1>2 DEF TableOK
<1>5. 1 .. n + 1 = (1 .. n) \cup {n + 1} /\ n + 1 \notin 1 .. n BY <1>3
<1> HIDE DEF n
<1>6. \A k : k # x => UsesOf(k)' = UsesOf(k)
  BY <1>1, <1>3, <1>4, <1>5 DEF UsesOf
<1>7. UsesOf(x)' = UsesOf(x) \cup {n + 1}
  BY <1>1, <1>3, <1>4, <1>5 DEF UsesOf
<1>8. \A k : UsesOf(k) \subseteq 1 .. n BY <1>3 DEF UsesOf
<1>9. \A k : k # x => Granted(k)' = Granted(k)
  BY <1>4, <1>6, <1>8, ZenonT(60) DEF Granted
<1>10. Granted(x)' = {i \in UsesOf(x) \cup {n + 1} : uses'[i].granted}
  BY <1>7 DEF Granted
<1>11. /\ \A i \in UsesOf(x) : uses'[i] = uses[i]
       /\ uses'[n + 1].granted = g
  BY <1>1, <1>4, <1>8
<1>12. g => Granted(x)' = Granted(x) \cup {n + 1} BY <1>10, <1>11, Zenon DEF Granted
<1>13. ~g => Granted(x)' = Granted(x) BY <1>10, <1>11, Zenon DEF Granted
<1> QED BY <1>4, <1>6, <1>7, <1>9, <1>12, <1>13, Zenon DEF n

LEMMA BetweenGrows ==
  ASSUME TableOK, NEW x \in ApiKeys, NEW g \in BOOLEAN, Use(x, g),
         NEW n, n = Len(uses), NEW i \in 1 .. n
  PROVE  /\ \A j \in 1 .. n + 1 : Between(i, j)' = Between(i, j)
         /\ Between(i, n + 2)' = Between(i, n + 1) \cup {x}
<1> DEFINE new == [key |-> x, granted |-> g]
<1>1. new.key = x /\ uses' = Append(uses, new) BY DEF Use
<1> HIDE DEF new
<1>2. n \in Nat /\ i \in 1 .. n BY DEF TableOK
<1>3. (\A m \in 1 .. n : uses'[m] = uses[m]) /\ uses'[n + 1].key = x BY <1>1 DEF TableOK
<1>4. ASSUME NEW j \in 1 .. n + 1 PROVE Between(i, j)' = Between(i, j)
  <2>1. \A m \in i + 1 .. j - 1 : uses'[m] = uses[m] BY <1>2, <1>3
  <2> QED BY <2>1 DEF Between
<1>5. Between(i, n + 2)' = Between(i, n + 1) \cup {x}
  <2>1. i + 1 .. (n + 2) - 1 = (i + 1 .. (n + 1) - 1) \cup {n + 1} BY <1>2
  <2>2. \A m \in i + 1 .. (n + 1) - 1 : uses'[m] = uses[m] BY <1>2, <1>3
  <2> QED BY <1>3, <2>1, <2>2 DEF Between
<1> QED BY <1>4, <1>5

LEMMA GapStays ==
  ASSUME TableOK, NEW x \in ApiKeys, NEW g \in BOOLEAN, Use(x, g), NEW k, Gap(k)
  PROVE  Gap(k)'
<1>1. PICK i \in UsesOf(k), j \in UsesOf(k) :
        i < j /\ k \notin Between(i, j) /\ Cardinality(Between(i, j)) >= MaxWindows
  BY DEF Gap
<1>2. i \in 1 .. Len(uses) /\ j \in 1 .. Len(uses) + 1 BY UsesFinite
<1>3. i \in UsesOf(k)' /\ j \in UsesOf(k)' BY OneMoreUse, Zenon
<1>4. Between(i, j)' = Between(i, j) BY <1>2, BetweenGrows
<1> QED BY <1>1, <1>3, <1>4 DEF Gap

(* A key that uses its window again after it was forgotten left a gap.     *)
LEMMA ForgottenLeavesGap ==
  ASSUME TableOK, NEW x \in ApiKeys, NEW g \in BOOLEAN, Use(x, g), Forgotten(x)
  PROVE  Gap(x)'
<1>0. PICK n : n = Len(uses) OBVIOUS
<1>1. PICK i \in UsesOf(x) :
        LastUse(x, i) /\ Cardinality(Between(i, n + 1)) >= MaxWindows
  BY <1>0 DEF Forgotten
<1>2. i \in 1 .. n /\ n \in Nat /\ DOMAIN uses = 1 .. n BY <1>0, UsesFinite DEF TableOK
<1>3. i \in UsesOf(x)' /\ n + 1 \in UsesOf(x)' BY <1>0, OneMoreUse
<1>4. Between(i, n + 1)' = Between(i, n + 1) BY <1>0, <1>2, BetweenGrows
<1>5. x \notin Between(i, n + 1)
  <2>1. \A m \in i + 1 .. (n + 1) - 1 : m \notin UsesOf(x)
    BY <1>1, <1>2, UsesFinite DEF LastUse
  <2>2. \A m \in i + 1 .. (n + 1) - 1 : uses[m].key # x BY <1>2, <2>1 DEF UsesOf
  <2> QED BY <2>2, Zenon DEF Between
<1> QED BY <1>1, <1>2, <1>3, <1>4, <1>5 DEF Gap

(* Forgotten stays forgotten while other keys are used.                    *)
LEMMA ForgottenStays ==
  ASSUME TableOK, NEW x \in ApiKeys, NEW g \in BOOLEAN, Use(x, g), NEW k, k # x, Forgotten(k)
  PROVE  Forgotten(k)'
<1>0. PICK n : n = Len(uses) OBVIOUS
<1>1. PICK i \in UsesOf(k) :
        LastUse(k, i) /\ Cardinality(Between(i, n + 1)) >= MaxWindows
  BY <1>0 DEF Forgotten
<1>2. i \in 1 .. n /\ n \in Nat BY <1>0, UsesFinite
<1>3. UsesOf(k)' = UsesOf(k) /\ Len(uses)' = n + 1 BY <1>0, OneMoreUse, Zenon
<1>4. Between(i, n + 2)' = Between(i, n + 1) \cup {x} BY <1>0, <1>2, BetweenGrows
<1>5. IsFiniteSet(Between(i, n + 1)) /\ Cardinality(Between(i, n + 1)) \in Nat
  <2>1. i \in Nat /\ n + 1 \in Nat BY <1>2
  <2> QED BY <2>1, BetweenFinite
<1>6. Cardinality(Between(i, n + 2)') >= MaxWindows
  <2>1. IsFiniteSet(Between(i, n + 2)') BY <1>4, <1>5, FS_AddElement
  <2>2. Between(i, n + 1) \in SUBSET Between(i, n + 2)' BY <1>4
  <2>3. /\ Cardinality(Between(i, n + 1)) <= Cardinality(Between(i, n + 2)')
        /\ Cardinality(Between(i, n + 2)') \in Nat
    BY <2>1, <2>2, FS_Subset, FS_CardinalityType
  <2> QED BY <1>1, <1>5, <2>3, LimitAssumption
<1>7. Len(uses)' + 1 = n + 2 BY <1>2, <1>3
<1>8. LastUse(k, i)' BY <1>1, <1>3 DEF LastUse
<1> QED BY <1>3, <1>6, <1>7, <1>8 DEF Forgotten

-----------------------------------------------------------------------------
(* The table                                                               *)

LEMMA RoomIs ==
  ASSUME TableOK, NEW T \in SUBSET windows
  PROVE  /\ Room(T) \subseteq T
         /\ \A w \in Running(T) : w \notin Room(T) =>
              /\ Cardinality(Running(T)) >= MaxWindows
              /\ \A v \in Running(T) : w.used <= v.used
<1>1. Running(T) \subseteq T /\ IsFiniteSet(T) BY FS_Subset DEF Running, TableOK
<1>2. IsFiniteSet(Running(T)) /\ Cardinality(Running(T)) \in Nat
  BY <1>1, FS_Subset, FS_CardinalityType
<1>3. \A w \in T : w.used \in Nat BY DEF TableOK, WindowRows
<1>4. Younger(Running(T)) \subseteq Running(T) BY DEF Younger
<1>5. \A w \in Running(T) : w \notin Younger(Running(T)) => \A v \in Running(T) : w.used <= v.used
  BY <1>1, <1>3 DEF Younger
<1> QED BY <1>1, <1>2, <1>4, <1>5, LimitAssumption DEF Room

(* A window is dropped for another key only after as many keys as the      *)
(* table has places, that key among them, were used since its last use.    *)
LEMMA DroppedIsForgotten ==
  ASSUME LimitInv, NEW x \in ApiKeys, NEW g \in BOOLEAN, Use(x, g), UNCHANGED minute,
         NEW w \in Running(Others(x)), w \notin Room(Others(x))
  PROVE  Forgotten(w.key)'
<1>0. PICK n, i : n = Len(uses) /\ i = w.used OBVIOUS
<1> DEFINE T == Between(i, n + 1)
           R == Running(Others(x)) \ {w}
           f == [v \in R |-> v.key]
<1>1. TableOK /\ UsedOK BY DEF LimitInv
<1>2. Others(x) \in SUBSET windows BY DEF Others
<1>3. /\ Cardinality(Running(Others(x))) >= MaxWindows
      /\ \A v \in Running(Others(x)) : w.used <= v.used
  BY <1>1, <1>2, RoomIs
<1>4. \A v \in Running(Others(x)) : LastUse(v.key, v.used) /\ v.key # x /\ v \in windows
  BY <1>1 DEF UsedOK, Running, Others
<1>5. \A v \in Running(Others(x)) : v.used \in 1 .. n /\ uses[v.used].key = v.key
  <2>1. DOMAIN uses = 1 .. n BY <1>0, <1>1 DEF TableOK
  <2> QED BY <1>4, <2>1 DEF LastUse, UsesOf
<1>6. n \in Nat /\ i \in 1 .. n BY <1>0, <1>1, <1>5 DEF TableOK
<1>7. ASSUME NEW v \in R PROVE v.key \in T
  <2>1. v.used # i
    <3>1. v.used = i => v.key = w.key BY <1>0, <1>5
    <3>2. v.key = w.key => v = w BY <1>1, <1>4 DEF TableOK
    <3> QED BY <3>1, <3>2
  <2>2. v.used \in i + 1 .. (n + 1) - 1 BY <1>0, <1>3, <1>5, <1>6, <2>1
  <2>3. uses[v.used].key \in Between(i, n + 1) BY <2>2, Zenon DEF Between
  <2> QED BY <1>5, <2>3
<1>8. IsFiniteSet(T) /\ Cardinality(T) \in Nat BY <1>6, BetweenFinite
<1>11. f \in Injection(R, T \ {x})
  <2>1. \A v \in R : v.key \in T \ {x} BY <1>4, <1>7
  <2>2. f \in [R -> T \ {x}] BY <2>1
  <2>3. ASSUME NEW v \in R, NEW u \in R, f[v] = f[u] PROVE v = u
    <3>1. v.key = u.key BY <2>3
    <3> QED BY <1>1, <1>4, <3>1 DEF TableOK
  <2> HIDE DEF f, R, T
  <2> QED BY <2>2, <2>3 DEF Injection, IsInjective
<1>12. Cardinality(R) <= Cardinality(T \ {x}) /\ IsFiniteSet(R) /\ IsFiniteSet(T \ {x})
  <2>1. IsFiniteSet(T \ {x}) BY <1>8, FS_RemoveElement
  <2> HIDE DEF f, R, T
  <2> QED BY <1>11, <2>1, FS_Injection
<1>13. Cardinality(R) = Cardinality(Running(Others(x))) - 1 /\ Cardinality(Running(Others(x))) \in Nat
  <2>1. IsFiniteSet(Running(Others(x)))
    <3>1. Running(Others(x)) \subseteq windows BY DEF Running, Others
    <3> QED BY <1>1, <3>1, FS_Subset DEF TableOK
  <2> QED BY <2>1, FS_RemoveElement, FS_CardinalityType
<1>14. Between(i, n + 2)' = T \cup {x} BY <1>0, <1>1, <1>6, BetweenGrows
<1>15. Cardinality(T \cup {x}) >= MaxWindows
  <2>1. T \cup {x} = (T \ {x}) \cup {x} OBVIOUS
  <2>2. Cardinality((T \ {x}) \cup {x}) = Cardinality(T \ {x}) + 1 BY <1>12, FS_AddElement
  <2>3. Cardinality(T \ {x}) \in Nat /\ Cardinality(R) \in Nat BY <1>12, FS_CardinalityType
  <2> HIDE DEF T, R
  <2>4. Cardinality(T \ {x}) + 1 >= MaxWindows BY <1>3, <1>12, <1>13, <2>3, LimitAssumption
  <2>5. Cardinality(T \cup {x}) = Cardinality(T \ {x}) + 1 BY <2>1, <2>2
  <2> QED BY <2>4, <2>5
<1>16. LastUse(w.key, i)'
  <2>1. UsesOf(w.key)' = UsesOf(w.key) BY <1>1, <1>4, OneMoreUse, Zenon
  <2> QED BY <1>0, <1>4, <2>1 DEF LastUse
<1>17. Len(uses)' + 1 = n + 2 /\ i \in UsesOf(w.key)'
  <2>1. Len(uses)' = n + 1 BY <1>0, <1>1, OneMoreUse
  <2> QED BY <1>6, <1>16, <2>1 DEF LastUse
<1> HIDE DEF T
<1> QED BY <1>14, <1>15, <1>16, <1>17 DEF Forgotten

-----------------------------------------------------------------------------
(* The steps                                                               *)

LEMMA InitLimitInv == LimitInit => LimitInv
<1> SUFFICES ASSUME LimitInit PROVE LimitInv OBVIOUS
<1>1. windows = {} /\ uses = <<>> /\ minute = 0 BY DEF LimitInit
<1>2. TableOK BY <1>1, FS_EmptySet DEF TableOK
<1>3. UsedOK BY <1>1 DEF UsedOK, Running
<1>4. \A k : Current(k) = {} /\ Granted(k) = {} BY <1>1 DEF Current, Running, Granted, UsesOf
<1> QED BY <1>2, <1>3, <1>4 DEF LimitInv, CountOK

(* What a request of x does to the windows of other keys, and its own new  *)
(* one, if it gets one.                                                    *)
LEMMA OthersKeep ==
  ASSUME LimitInv, NEW x \in ApiKeys, NEW g \in BOOLEAN, Use(x, g), UNCHANGED minute,
         NEW T, T = Others(x) \/ T = Room(Others(x)),
         NEW v \in WindowRows, v.key = x, v.minute = minute, v.used = Len(uses) + 1,
         windows' = T \/ windows' = T \cup {v}
  PROVE  TableOK' /\ UsedOK' /\ \A k \in ApiKeys : k # x => CountOK(k)'
<1>0. PICK n : n = Len(uses) OBVIOUS
<1>1. /\ TableOK /\ UsedOK /\ minute' = minute /\ n \in Nat
      /\ \A w, u \in windows : w.key = u.key => w = u
  BY <1>0 DEF LimitInv, TableOK
<1>2. T \subseteq Others(x) /\ Others(x) \in SUBSET windows
  <2>1. Others(x) \in SUBSET windows BY DEF Others
  <2> QED BY <1>1, <2>1, RoomIs
<1>3. \A w \in T : w.key # x /\ w \in windows BY <1>2 DEF Others
<1>4. TableOK'
  <2>1. uses' \in Seq([key : ApiKeys, granted : BOOLEAN]) BY <1>1, OneMoreUse
  <2>2. IsFiniteSet(T) BY <1>1, <1>2, FS_Subset DEF TableOK
  <2>3. IsFiniteSet(windows') BY <2>2, FS_AddElement
  <2>4. windows' \subseteq WindowRows BY <1>1, <1>3 DEF TableOK
  <2>5. \A w, u \in windows' : w.key = u.key => w = u BY <1>1, <1>3
  <2>6. \A w \in windows' : w.minute <= minute
    <3>1. minute <= minute /\ \A w \in windows : w.minute <= minute BY <1>1 DEF TableOK
    <3> QED BY <1>3, <3>1
  <2> QED BY <1>1, <2>1, <2>3, <2>4, <2>5, <2>6 DEF TableOK
<1>5. UsedOK'
  <2>1. ASSUME NEW w \in Running(windows)', w \in T PROVE LastUse(w.key, w.used)'
    <3>1. w \in Running(windows) /\ w.key # x BY <1>1, <1>3, <2>1 DEF Running
    <3>2. UsesOf(w.key)' = UsesOf(w.key) BY <1>1, <3>1, OneMoreUse, Zenon
    <3> QED BY <1>1, <3>1, <3>2 DEF UsedOK, LastUse
  <2>2. LastUse(x, n + 1)'
    <3>1. UsesOf(x)' = UsesOf(x) \cup {n + 1} BY <1>0, <1>1, OneMoreUse
    <3>2. \A j \in UsesOf(x) : j <= n + 1 BY <1>0, <1>1, UsesFinite
    <3> QED BY <1>1, <3>1, <3>2 DEF LastUse
  <2>3. LastUse(v.key, v.used)' BY <1>0, <2>2
  <2> QED BY <2>1, <2>3 DEF UsedOK, Running
<1>6. ASSUME NEW k \in ApiKeys, k # x PROVE CountOK(k)'
  <2>1. Granted(k)' = Granted(k) BY <1>1, <1>6, OneMoreUse, Zenon
  <2>2. Current(k)' = {w \in T : w.key = k /\ w.minute = minute}
    BY <1>1, <1>6 DEF Current, Running
  <2>3. Current(k) = {w \in Others(x) : w.key = k /\ w.minute = minute}
    BY <1>6 DEF Current, Running, Others
  <2>4. CASE Gap(k) BY <1>1, <2>4, GapStays DEF CountOK
  <2>5. CASE Current(k) = {}
    <3>1. Current(k)' = {} BY <1>2, <2>2, <2>3, <2>5
    <3>2. Forgotten(k) => Forgotten(k)' BY <1>1, <1>6, ForgottenStays
    <3>3. Gap(k) => Gap(k)' BY <1>1, GapStays
    <3> QED BY <2>1, <2>5, <3>1, <3>2, <3>3 DEF LimitInv, CountOK
  <2>6. ASSUME NEW w \in Current(k), w.count = Cardinality(Granted(k)), w.count <= Limit[k]
        PROVE  CountOK(k)'
    <3>1. CASE w \in T
      <4>1. w \in Current(k)' BY <2>2, <2>3, <3>1
      <4> QED BY <2>1, <2>6, <4>1 DEF CountOK
    <3>2. CASE w \notin T
      <4>1. w \in Running(Others(x)) /\ w.key = k BY <2>3 DEF Running
      <4>2. T = Room(Others(x)) BY <3>2, <2>3
      <4>3. Forgotten(k)' BY <3>2, <4>1, <4>2, DroppedIsForgotten
      <4>4. Current(k)' = {}
        <5>1. \A u \in Current(k)' : u \in windows /\ u.key = k BY <1>3, <2>2
        <5>2. w \in windows BY <4>1 DEF Running, Others
        <5>3. \A u \in Current(k)' : u = w BY <1>1, <4>1, <5>1, <5>2
        <5> QED BY <2>2, <3>2, <5>3
      <4> QED BY <2>1, <2>6, <4>3, <4>4 DEF CountOK
    <3> QED BY <3>1, <3>2
  <2> QED BY <2>4, <2>5, <2>6 DEF LimitInv, CountOK
<1> QED BY <1>4, <1>5, <1>6

LEMMA CountedKeeps == ASSUME LimitInv, NEW x \in ApiKeys, Counted(x), UNCHANGED minute PROVE LimitInv'
<1>0. PICK n : n = Len(uses) OBVIOUS
<1>1. TableOK /\ UsedOK /\ n \in Nat /\ Limit[x] \in Nat
  BY <1>0, LimitAssumption DEF LimitInv, TableOK
<1>2. PICK w \in Current(x) :
        /\ windows' = Reinserted(x, [w EXCEPT !.count = IF w.count < Limit[x] THEN w.count + 1
                                                         ELSE w.count])
        /\ Use(x, w.count < Limit[x])
  BY DEF Counted
<1>3. w \in WindowRows /\ w.key = x /\ w.minute = minute /\ w.count \in Nat
  BY <1>1 DEF Current, Running, TableOK, WindowRows
<1> DEFINE more == w.count < Limit[x]
           next == IF w.count < Limit[x] THEN w.count + 1 ELSE w.count
           v == [[w EXCEPT !.count = next] EXCEPT !.used = n + 1]
<1>4. next \in Nat BY <1>3
<1>5. windows' = Others(x) \cup {v} /\ Use(x, more) /\ more \in BOOLEAN
  BY <1>0, <1>2 DEF Reinserted
<1>6. /\ v \in WindowRows /\ v.key = x /\ v.minute = minute /\ v.used = n + 1
      /\ v.count = next
  <2> HIDE DEF next
  <2> DEFINE u == [w EXCEPT !.count = next]
  <2>1. u \in WindowRows /\ u.key = x /\ u.minute = minute /\ u.count = next
    BY <1>3, <1>4 DEF WindowRows
  <2>2. n + 1 \in Nat /\ v = [u EXCEPT !.used = n + 1] BY <1>1
  <2> HIDE DEF u, v
  <2> QED BY <2>1, <2>2 DEF WindowRows
<1> HIDE DEF v
<1>7. TableOK' /\ UsedOK' /\ \A k \in ApiKeys : k # x => CountOK(k)'
  <2> HIDE DEF more, next
  <2>1. \A T : T = Others(x) => windows' = T \cup {v} BY <1>5
  <2> QED BY <1>0, <1>5, <1>6, <2>1, OthersKeep
<1>8. CountOK(x)'
  <2>1. CASE Gap(x)
    <3> HIDE DEF more, next
    <3> QED BY <1>1, <1>5, <2>1, GapStays DEF CountOK
  <2>2. CASE ~Gap(x)
    <3>1. w.count = Cardinality(Granted(x)) /\ w.count <= Limit[x]
      <4>1. \A u \in Current(x) : u = w BY <1>1 DEF Current, Running, TableOK
      <4> QED BY <2>2, <4>1 DEF LimitInv, CountOK
    <3>2. v \in Current(x)' BY <1>5, <1>6 DEF Current, Running
    <3>3. CASE w.count < Limit[x]
      <4>1. Granted(x)' = Granted(x) \cup {n + 1}
        <5>1. more = TRUE BY <3>3
        <5> HIDE DEF more, next
        <5> QED BY <1>0, <1>1, <1>5, <5>1, OneMoreUse, Zenon
      <4>2. n + 1 \notin Granted(x) /\ IsFiniteSet(Granted(x)) BY <1>0, <1>1, UsesFinite
      <4>3. Cardinality(Granted(x))' = Cardinality(Granted(x)) + 1
        BY <4>1, <4>2, FS_AddElement
      <4> QED BY <1>1, <1>3, <1>6, <3>1, <3>2, <3>3, <4>3 DEF CountOK
    <3>4. CASE ~(w.count < Limit[x])
      <4>1. Granted(x)' = Granted(x)
        <5>1. more = FALSE BY <3>4
        <5> HIDE DEF more, next
        <5> QED BY <1>0, <1>1, <1>5, <5>1, OneMoreUse, Zenon
      <4> QED BY <1>6, <3>1, <3>2, <3>4, <4>1 DEF CountOK
    <3> QED BY <3>3, <3>4
  <2> QED BY <2>1, <2>2
<1> QED BY <1>7, <1>8 DEF LimitInv

LEMMA OpenedKeeps == ASSUME LimitInv, NEW x \in ApiKeys, Opened(x), UNCHANGED minute PROVE LimitInv'
<1>0. PICK n : n = Len(uses) OBVIOUS
<1>1. TableOK /\ UsedOK /\ n \in Nat /\ minute \in Nat /\ Limit[x] \in Nat /\ Current(x) = {}
  BY <1>0, LimitAssumption DEF LimitInv, TableOK, Opened
<1> DEFINE T == Room(Others(x))
           g == Limit[x] >= 1
           v == [key |-> x, minute |-> minute, count |-> 1, used |-> n + 1]
<1>2. /\ v \in WindowRows /\ v.key = x /\ v.minute = minute /\ v.used = n + 1 /\ v.count = 1
  BY <1>1 DEF WindowRows
<1>3. /\ windows' = IF Limit[x] < 1 THEN T ELSE T \cup {v}
      /\ Use(x, g) /\ g \in BOOLEAN
  BY <1>0 DEF Opened
<1> HIDE DEF v
<1>4. TableOK' /\ UsedOK' /\ \A k \in ApiKeys : k # x => CountOK(k)'
  <2> HIDE DEF g
  <2> QED BY <1>0, <1>2, <1>3, OthersKeep
<1>5. CountOK(x)'
  <2>1. CASE Gap(x) \/ Forgotten(x)
    <3> HIDE DEF g
    <3> QED BY <1>1, <1>3, <2>1, GapStays, ForgottenLeavesGap DEF CountOK
  <2>2. CASE Granted(x) = {} /\ Limit[x] < 1
    <3>1. Granted(x)' = {}
      <4>1. g = FALSE BY <1>1, <2>2
      <4> HIDE DEF g
      <4> QED BY <1>1, <1>3, <2>2, <4>1, OneMoreUse, Zenon
    <3>2. Current(x)' = {}
      <4>1. T \subseteq Others(x)
        <5>1. Others(x) \in SUBSET windows BY DEF Others
        <5> QED BY <1>1, <5>1, RoomIs
      <4>2. windows' \subseteq Others(x) BY <1>3, <2>2, <4>1
      <4> QED BY <4>2 DEF Current, Running, Others
    <3> QED BY <3>1, <3>2 DEF CountOK
  <2>3. CASE Granted(x) = {} /\ ~(Limit[x] < 1)
    <3>1. Granted(x)' = {n + 1}
      <4>1. g = TRUE BY <1>1, <2>3
      <4> HIDE DEF g
      <4>2. Granted(x)' = Granted(x) \cup {n + 1} BY <1>0, <1>1, <1>3, <4>1, OneMoreUse, Zenon
      <4> QED BY <2>3, <4>2
    <3>2. Cardinality(Granted(x))' = 1 BY <3>1, FS_Singleton
    <3>3. v \in Current(x)' BY <1>2, <1>3, <2>3 DEF Current, Running
    <3> QED BY <1>1, <1>2, <2>3, <3>2, <3>3 DEF CountOK
  <2> QED BY <1>1, <2>1, <2>2, <2>3 DEF LimitInv, CountOK
<1> QED BY <1>4, <1>5 DEF LimitInv

LEMMA NextLimitInv == LimitInv /\ [LimitNext]_limitVars => LimitInv'
<1> SUFFICES ASSUME LimitInv, [LimitNext]_limitVars PROVE LimitInv' OBVIOUS
<1>1. ASSUME NEW k \in ApiKeys, Consume(k) PROVE LimitInv'
  BY <1>1, CountedKeeps, OpenedKeeps DEF Consume
<1>2. CASE MinutePasses
  <2>1. minute' = minute + 1 /\ uses' = <<>> /\ windows' = windows BY <1>2 DEF MinutePasses
  <2>2. TableOK BY DEF LimitInv
  <2>3. \A w \in windows : w.minute < minute' /\ w.minute \in Nat /\ minute' \in Nat
    BY <2>1, <2>2 DEF TableOK, WindowRows
  <2>4. TableOK' BY <2>1, <2>2, <2>3 DEF TableOK
  <2>5. Running(windows)' = {} BY <2>1, <2>3 DEF Running
  <2>6. \A k : Current(k)' = {} /\ Granted(k)' = {}
    BY <2>1, <2>5 DEF Current, Granted, UsesOf
  <2> QED BY <2>4, <2>5, <2>6 DEF LimitInv, UsedOK, CountOK
<1>3. CASE UNCHANGED limitVars
  <2>1. minute' = minute /\ windows' = windows /\ uses' = uses BY <1>3 DEF limitVars
  <2>2. \A k : /\ UsesOf(k)' = UsesOf(k) /\ Granted(k)' = Granted(k) /\ Current(k)' = Current(k)
               /\ \A i : LastUse(k, i)' <=> LastUse(k, i)
    BY <2>1 DEF UsesOf, Granted, Current, Running, LastUse
  <2>3. \A i, j : Between(i, j)' = Between(i, j) BY <2>1 DEF Between
  <2>4. \A k : (Gap(k)' <=> Gap(k)) /\ (Forgotten(k)' <=> Forgotten(k))
    BY <2>1, <2>2, <2>3 DEF Gap, Forgotten
  <2>5. \A k \in ApiKeys : CountOK(k)' BY <2>2, <2>4 DEF LimitInv, CountOK
  <2>6. TableOK' /\ UsedOK' BY <2>1, <2>2 DEF LimitInv, TableOK, UsedOK, Running
  <2> QED BY <2>5, <2>6 DEF LimitInv
<1> QED BY <1>1, <1>2, <1>3 DEF LimitNext

(* A key is never granted more than its limit in a minute, unless so many  *)
(* other keys came between two of its requests that its window was lost.   *)
THEOREM LimitIsKept == LimitSpec => []LimitHolds
<1>1. LimitInv => LimitHolds
  <2> SUFFICES ASSUME LimitInv, NEW k \in ApiKeys, Cardinality(Granted(k)) > Limit[k]
               PROVE  Gap(k)
    BY DEF LimitHolds, Gap
  <2>1. Limit[k] \in Nat /\ Cardinality(Granted(k)) \in Nat /\ Cardinality({}) = 0
    BY LimitAssumption, UsesFinite, FS_EmptySet DEF LimitInv
  <2>2. ~(Cardinality(Granted(k)) <= Limit[k]) /\ Granted(k) # {} BY <2>1
  <2> QED BY <2>2 DEF LimitInv, CountOK
<1> QED BY <1>1, InitLimitInv, NextLimitInv, PTL DEF LimitSpec

-----------------------------------------------------------------------------
(* The pages of a history.                                                 *)

Known == [ts : Nat, value : Nat, copy : Nat \ {0}]

FiniteRecords(S) == S \in SUBSET Known /\ IsFiniteSet(S)

LEMMA RecordsAreOrdered ==
    \A a, b, c \in Known :
        /\ ~RecordBefore(a, a)
        /\ RecordBefore(a, b) /\ RecordBefore(b, c) => RecordBefore(a, c)
        /\ RecordBefore(a, b) \/ RecordBefore(b, a) \/ a = b
<1> SUFFICES ASSUME NEW a \in Known, NEW b \in Known, NEW c \in Known
             PROVE  /\ ~RecordBefore(a, a)
                    /\ RecordBefore(a, b) /\ RecordBefore(b, c) => RecordBefore(a, c)
                    /\ RecordBefore(a, b) \/ RecordBefore(b, a) \/ a = b
  OBVIOUS
<1>1. \A x \in Known : /\ x.ts \in Nat /\ x.value \in Nat /\ x.copy \in Nat
                       /\ x = [ts |-> x.ts, value |-> x.value, copy |-> x.copy]
  BY DEF Known
<1>2. a.ts = b.ts /\ a.value = b.value /\ a.copy = b.copy => a = b BY <1>1, Zenon
<1> QED BY <1>1, <1>2 DEF RecordBefore, TimeBefore

(* The first records of a finite set, and the last of those.               *)
LEMMA EarlierIs ==
    ASSUME NEW S, FiniteRecords(S), NEW r
    PROVE  /\ FiniteRecords(Earlier(r, S))
           /\ Cardinality(Earlier(r, S)) \in 0 .. Cardinality(S) /\ Cardinality(S) \in Nat
<1>1. Earlier(r, S) \in SUBSET S BY DEF Earlier
<1>2. IsFiniteSet(Earlier(r, S)) /\ Cardinality(Earlier(r, S)) <= Cardinality(S)
  BY <1>1, FS_Subset DEF FiniteRecords
<1>3. Cardinality(Earlier(r, S)) \in Nat /\ Cardinality(S) \in Nat
  BY <1>2, FS_CardinalityType DEF FiniteRecords
<1> QED BY <1>1, <1>2, <1>3 DEF FiniteRecords

LEMMA EarlierGrows ==
    ASSUME NEW S, FiniteRecords(S), NEW a \in S, NEW b \in S, RecordBefore(a, b)
    PROVE  Cardinality(Earlier(a, S)) < Cardinality(Earlier(b, S))
<1>1. Earlier(a, S) \in SUBSET Earlier(b, S) /\ Earlier(a, S) # Earlier(b, S)
  BY RecordsAreOrdered DEF Earlier, FiniteRecords
<1>2. FiniteRecords(Earlier(b, S)) BY EarlierIs
<1>3. /\ Cardinality(Earlier(a, S)) <= Cardinality(Earlier(b, S))
      /\ Cardinality(Earlier(a, S)) # Cardinality(Earlier(b, S))
  BY <1>1, <1>2, FS_Subset DEF FiniteRecords
<1>4. Cardinality(Earlier(a, S)) \in Nat /\ Cardinality(Earlier(b, S)) \in Nat BY EarlierIs
<1> QED BY <1>3, <1>4

LEMMA LastRecord ==
    ASSUME NEW S, FiniteRecords(S), S # {}
    PROVE  LastOf(S) \in S /\ \A x \in S : x = LastOf(S) \/ RecordBefore(x, LastOf(S))
<1> DEFINE T == {Cardinality(Earlier(x, S)) : x \in S}
<1>1. T \in SUBSET (0 .. Cardinality(S)) /\ T # {} /\ Cardinality(S) \in Nat BY EarlierIs
<1>2. PICK t \in T : \A s \in T : s <= t
  <2> HIDE DEF T
  <2> QED BY <1>1, GreatestExists
<1>3. PICK x \in S : t = Cardinality(Earlier(x, S)) BY <1>2
<1>4. ASSUME NEW y \in Later(x, S) PROVE FALSE
  <2>1. y \in S /\ RecordBefore(x, y) BY DEF Later
  <2>2. Cardinality(Earlier(x, S)) < Cardinality(Earlier(y, S)) BY <2>1, EarlierGrows
  <2>3. Cardinality(Earlier(y, S)) <= Cardinality(Earlier(x, S)) BY <1>2, <1>3, <2>1
  <2>4. Cardinality(Earlier(x, S)) \in Nat /\ Cardinality(Earlier(y, S)) \in Nat BY EarlierIs
  <2> QED BY <2>2, <2>3, <2>4
<1>5. Later(x, S) = {} BY <1>4
<1>6. LastOf(S) \in S /\ Later(LastOf(S), S) = {} BY <1>5 DEF LastOf
<1> QED BY <1>6, RecordsAreOrdered DEF Later, FiniteRecords

LEMMA FirstRecord ==
    ASSUME NEW S, FiniteRecords(S), S # {} PROVE \E x \in S : Earlier(x, S) = {}
<1> DEFINE n == Cardinality(S)
           T == {n - Cardinality(Earlier(x, S)) : x \in S}
<1>1. T \in SUBSET (0 .. n) /\ T # {} /\ n \in Nat BY EarlierIs
<1>2. PICK t \in T : \A s \in T : s <= t
  <2> HIDE DEF T
  <2> QED BY <1>1, GreatestExists
<1>3. PICK x \in S : t = n - Cardinality(Earlier(x, S)) BY <1>2
<1>4. ASSUME NEW y \in Earlier(x, S) PROVE FALSE
  <2>1. y \in S /\ RecordBefore(y, x) BY DEF Earlier
  <2>2. Cardinality(Earlier(y, S)) < Cardinality(Earlier(x, S)) BY <2>1, EarlierGrows
  <2>3. n - Cardinality(Earlier(y, S)) \in T BY <2>1
  <2>4. n - Cardinality(Earlier(y, S)) <= n - Cardinality(Earlier(x, S)) BY <1>2, <1>3, <2>3
  <2>5. Cardinality(Earlier(x, S)) \in Nat /\ Cardinality(Earlier(y, S)) \in Nat BY EarlierIs
  <2> QED BY <1>1, <2>2, <2>4, <2>5
<1> QED BY <1>4

LEMMA FirstOfIs ==
    ASSUME NEW S, FiniteRecords(S), NEW n \in Nat \ {0}
    PROVE  /\ FirstOf(S, n) \subseteq S /\ FiniteRecords(FirstOf(S, n))
           /\ \A y \in FirstOf(S, n) : \A x \in S : RecordBefore(x, y) => x \in FirstOf(S, n)
           /\ S # {} => FirstOf(S, n) # {}
           /\ Cardinality(FirstOf(S, n)) <= n
           /\ FirstOf(S, n) # S => n <= Cardinality(FirstOf(S, n))
<1> DEFINE F == FirstOf(S, n)
<1>1. F \in SUBSET S BY DEF FirstOf
<1>2. FiniteRecords(F) /\ Cardinality(F) \in Nat
  BY <1>1, FS_Subset, FS_CardinalityType DEF FiniteRecords
<1>3. \A x \in S : Cardinality(Earlier(x, S)) \in Nat BY EarlierIs
<1>4. ASSUME NEW y \in F, NEW x \in S, RecordBefore(x, y) PROVE x \in F
  <2>1. Cardinality(Earlier(x, S)) < Cardinality(Earlier(y, S)) BY <1>1, <1>4, EarlierGrows
  <2>2. Cardinality(Earlier(y, S)) < n BY DEF FirstOf
  <2> QED BY <1>1, <1>3, <2>1, <2>2 DEF FirstOf
<1>5. S # {} => F # {}
  <2> HAVE S # {}
  <2>1. PICK x \in S : Earlier(x, S) = {} BY FirstRecord
  <2>2. Cardinality(Earlier(x, S)) = 0 BY <2>1, FS_EmptySet
  <2> QED BY <2>2 DEF FirstOf
<1>6. Cardinality(F) <= n
  <2>1. CASE F = {} BY <2>1, FS_EmptySet
  <2>2. CASE F # {}
    <3>1. LastOf(F) \in F /\ \A x \in F : x = LastOf(F) \/ RecordBefore(x, LastOf(F))
      BY <1>2, <2>2, LastRecord
    <3> DEFINE E == Earlier(LastOf(F), S)
    <3>2. F \ {LastOf(F)} \in SUBSET E BY <1>1, <3>1 DEF Earlier
    <3>3. IsFiniteSet(E) /\ Cardinality(E) \in Nat BY EarlierIs DEF FiniteRecords
    <3>4. Cardinality(E) < n BY <3>1 DEF FirstOf
    <3> HIDE DEF E, F
    <3>5. Cardinality(F \ {LastOf(F)}) <= Cardinality(E) BY <3>2, <3>3, FS_Subset
    <3>6. Cardinality(F \ {LastOf(F)}) = Cardinality(F) - 1
      BY <1>2, <3>1, FS_RemoveElement DEF FiniteRecords
    <3> QED BY <1>2, <3>3, <3>4, <3>5, <3>6
  <2> QED BY <2>1, <2>2
<1>7. F # S => n <= Cardinality(F)
  <2> HAVE F # S
  <2>1. S \ F # {} /\ FiniteRecords(S \ F)
    <3>1. S \ F \in SUBSET S OBVIOUS
    <3> HIDE DEF F
    <3>2. IsFiniteSet(S \ F) BY <3>1, FS_Subset DEF FiniteRecords
    <3> QED BY <1>1, <3>1, <3>2 DEF FiniteRecords
  <2>2. PICK z \in S \ F : Earlier(z, S \ F) = {}
    <3> HIDE DEF F
    <3> QED BY <2>1, FirstRecord
  <2>3. Earlier(z, S) \in SUBSET F BY <2>2 DEF Earlier
  <2>4. Cardinality(Earlier(z, S)) \in Nat /\ ~(Cardinality(Earlier(z, S)) < n)
    BY <1>3, <2>2 DEF FirstOf
  <2> HIDE DEF F
  <2>5. Cardinality(Earlier(z, S)) <= Cardinality(F) BY <1>2, <2>3, FS_Subset DEF FiniteRecords
  <2> QED BY <1>2, <2>4, <2>5
<1> QED BY <1>1, <1>2, <1>4, <1>5, <1>6, <1>7

(* The cursors: the record each names, and what a walk has reached there.  *)
UpstreamCursor == [kind : {"upstream"}, ts : Nat, value : Nat, occurrence : Nat \ {0}]
StoredCursor == [kind : {"stored"}, ts : Nat]
Cursor == {NoCursor} \cup UpstreamCursor \cup StoredCursor

Named(c) ==
    IF c.kind = "stored" THEN Row(c.ts)
    ELSE [ts |-> c.ts, value |-> c.value, copy |-> c.occurrence]

Reached(x, c) == c # NoCursor /\ ~RecordBefore(Named(c), x)

Ahead(S, c) == {x \in S : ~Reached(x, c)}

SparseIn(S) == \A r \in S : Cardinality({s \in S : s.ts = r.ts}) <= PageLimit

(* What a page is that was asked for behind a cursor: records that were    *)
(* there, all behind it; up to the next cursor, if it has one, every such  *)
(* record, and else all of them.                                           *)
Page == [items : SUBSET Known, seen : SUBSET Known, next : Cursor]

GoesOn(kind, cursor, page) ==
    /\ page.next.kind = kind /\ Named(page.next) \in page.items
    /\ \A x \in page.items : Reached(x, page.next)
    /\ \A x \in page.seen : Reached(x, page.next) /\ ~Reached(x, cursor) => x \in page.items

PageIs(kind, cursor, page) ==
    /\ page \in Page
    /\ \A x \in page.items : ~Reached(x, cursor)
    /\ page.next # NoCursor => GoesOn(kind, cursor, page)
    /\ page.next = NoCursor /\ (kind = "stored" \/ SparseIn(page.seen))
         => \A x \in page.seen : ~Reached(x, cursor) => x \in page.items

HistoryOK ==
    /\ FiniteRecords(history) /\ history \subseteq Records /\ Numbered(history)
    /\ FiniteRecords(rows) /\ \A r \in rows : r = Row(r.ts)

LEMMA CursorKinds ==
    /\ \A c \in UpstreamCursor : /\ c # NoCursor /\ c.kind = "upstream" /\ Named(c) \in Known
                                 /\ Named(c).ts = c.ts /\ Named(c).value = c.value
                                 /\ Named(c).copy = c.occurrence
    /\ \A c \in StoredCursor : /\ c # NoCursor /\ c.kind = "stored" /\ Named(c) = Row(c.ts)
                               /\ Named(c) \in Known /\ c.ts \in Nat
    /\ NoCursor.kind = "none"
<1>1. ASSUME NEW c \in UpstreamCursor
      PROVE  /\ c # NoCursor /\ c.kind = "upstream" /\ Named(c) \in Known
             /\ Named(c).ts = c.ts /\ Named(c).value = c.value /\ Named(c).copy = c.occurrence
  <2>1. c.kind = "upstream" /\ NoCursor.kind = "none" BY DEF UpstreamCursor, NoCursor
  <2>2. Named(c) = [ts |-> c.ts, value |-> c.value, copy |-> c.occurrence] BY <2>1 DEF Named
  <2> QED BY <2>1, <2>2 DEF UpstreamCursor, Known
<1>2. ASSUME NEW c \in StoredCursor
      PROVE  /\ c # NoCursor /\ c.kind = "stored" /\ Named(c) = Row(c.ts)
             /\ Named(c) \in Known /\ c.ts \in Nat
  <2>1. c.kind = "stored" /\ NoCursor.kind = "none" BY DEF StoredCursor, NoCursor
  <2> QED BY <2>1 DEF Named, Row, StoredCursor, Known
<1> QED BY <1>1, <1>2 DEF NoCursor

LEMMA ResponseIs ==
    ASSUME HistoryOK, NEW cursor
    PROVE  /\ FromTime(cursor) \subseteq history /\ FiniteRecords(FromTime(cursor))
           /\ Response(cursor) \subseteq FromTime(cursor) /\ FiniteRecords(Response(cursor))
           /\ RequestLimit \in Nat \ {0}
<1>1. FromTime(cursor) \in SUBSET history BY DEF FromTime
<1>2. FiniteRecords(FromTime(cursor)) BY <1>1, FS_Subset DEF HistoryOK, FiniteRecords
<1>3. RequestLimit \in Nat \ {0} BY HistoryAssumption DEF RequestLimit
<1> QED BY <1>1, <1>2, <1>3, FirstOfIs DEF Response

(* Copies are counted in a response as they are numbered.                  *)
LEMMA OccurrenceIs ==
    ASSUME HistoryOK, NEW cursor, NEW r \in Response(cursor)
    PROVE  Occurrence(r, Response(cursor)) = r.copy
<1> DEFINE S == Response(cursor)
           T == {x \in S : Same(x, r) /\ ~RecordBefore(r, x)}
           n == r.copy
           f == [c \in 1 .. n |-> [r EXCEPT !.copy = c]]
<1>1. r \in Known /\ r \in history /\ n \in Nat BY ResponseIs DEF FiniteRecords, Known
<1>2. \A c \in 1 .. n : /\ f[c] = [ts |-> r.ts, value |-> r.value, copy |-> c]
                        /\ f[c].ts = r.ts /\ f[c].value = r.value /\ f[c].copy = c
  BY <1>1 DEF Known
<1>3. \A c \in 1 .. n : f[c] \in T
  <2> SUFFICES ASSUME NEW c \in 1 .. n PROVE f[c] \in T OBVIOUS
  <2>1. f[c] \in history BY <1>1 DEF HistoryOK, Numbered
  <2> DEFINE x == f[c]
  <2>2. x.ts = r.ts /\ x.value = r.value /\ x.copy = c BY <1>2
  <2>3. x \in history /\ x \in Known BY <2>1 DEF HistoryOK, FiniteRecords
  <2> HIDE DEF x
  <2>4. x \in FromTime(cursor)
    <3>1. r \in FromTime(cursor) BY ResponseIs
    <3> QED BY <2>2, <2>3, <3>1 DEF FromTime
  <2>5. c < n => RecordBefore(x, r) BY <1>1, <2>2 DEF RecordBefore
  <2>6. c = n => x = r
    <3>1. r = [ts |-> r.ts, value |-> r.value, copy |-> r.copy] BY <1>1 DEF Known
    <3>2. x = [ts |-> x.ts, value |-> x.value, copy |-> x.copy] BY <2>3 DEF Known
    <3> QED BY <2>2, <3>1, <3>2
  <2>7. x \in S
    <3>1. \A y \in S : \A z \in FromTime(cursor) : RecordBefore(z, y) => z \in S
      BY ResponseIs, FirstOfIs DEF Response
    <3>2. c < n \/ c = n BY <1>1
    <3> QED BY <2>4, <2>5, <2>6, <3>1, <3>2
  <2>8. ~RecordBefore(r, x)
    <3>1. r.ts \in Nat /\ r.value \in Nat BY <1>1 DEF Known
    <3> QED BY <1>1, <2>2, <3>1 DEF RecordBefore, TimeBefore
  <2> QED BY <2>2, <2>7, <2>8 DEF Same, x
<1>4. \A x \in T : \E c \in 1 .. n : f[c] = x
  <2> SUFFICES ASSUME NEW x \in T PROVE \E c \in 1 .. n : f[c] = x OBVIOUS
  <2>1. x \in Known /\ x.ts = r.ts /\ x.value = r.value /\ ~RecordBefore(r, x)
    BY ResponseIs DEF Same, FiniteRecords
  <2>2. x = [ts |-> x.ts, value |-> x.value, copy |-> x.copy] /\ x.copy \in Nat \ {0}
    BY <2>1 DEF Known
  <2>3. x.copy \in 1 .. n BY <1>1, <2>1, <2>2 DEF RecordBefore
  <2> QED BY <1>2, <2>1, <2>2, <2>3
<1> HIDE DEF f, T
<1>5. \A b, c \in 1 .. n : f[b] = f[c] => b = c BY <1>2
<1>6. f \in [1 .. n -> T] BY <1>3 DEF f
<1>7. IsFiniteSet(1 .. n) /\ Cardinality(1 .. n) = n
  <2>1. n \in Int /\ n >= 0 BY <1>1
  <2> HIDE DEF n
  <2>2. Cardinality(1 .. n) = IF 1 > n THEN 0 ELSE n - 1 + 1 BY <2>1, FS_Interval
  <2> QED BY <2>1, <2>2, FS_Interval
<1>8. f \in Surjection(1 .. n, T) BY <1>4, <1>6 DEF Surjection
<1>9. IsFiniteSet(T) /\ Cardinality(T) <= n BY <1>7, <1>8, FS_Surjection
<1>10. f \in Injection(1 .. n, T) BY <1>5, <1>6 DEF Injection, IsInjective
<1>11. n <= Cardinality(T) BY <1>7, <1>9, <1>10, FS_Injection
<1>12. Cardinality(T) \in Nat BY <1>9, FS_CardinalityType
<1>13. Cardinality(T) = n BY <1>1, <1>9, <1>11, <1>12
<1> QED BY <1>13 DEF T, Occurrence

(* A page of the upstream: its records are all those of the response that  *)
(* are not reached; and the response is long enough to hold a page behind  *)
(* the boundary, if no time has more records than a page.                  *)
LEMMA BehindIs ==
    ASSUME HistoryOK, NEW cursor \in {NoCursor} \cup UpstreamCursor, NEW page \in MappedPage(cursor)
    PROVE  /\ cursor # NoCursor => Named(cursor) \in Response(cursor)
           /\ page \in PageOf(Response(cursor), Ahead(Response(cursor), cursor))
<1> DEFINE S == Response(cursor)
<1>1. CASE cursor = NoCursor
  <2>1. Ahead(S, cursor) = S BY <1>1 DEF Ahead, Reached
  <2> QED BY <1>1, <2>1 DEF MappedPage
<1>2. CASE cursor \in UpstreamCursor
  <2>1. cursor # NoCursor BY <1>2, CursorKinds
  <2>2. PICK r \in Boundary(S, cursor) : page \in PageOf(S, Later(r, S)) BY <2>1 DEF MappedPage
  <2>3. r \in S /\ r.ts = cursor.ts /\ r.value = cursor.value /\ r.copy = cursor.occurrence
    BY <2>2, OccurrenceIs DEF Boundary, Same
  <2>4. r \in Known BY <2>3, ResponseIs DEF FiniteRecords
  <2>5. r = Named(cursor)
    <3>1. r = [ts |-> r.ts, value |-> r.value, copy |-> r.copy] BY <2>4 DEF Known
    <3>2. Named(cursor) = [ts |-> cursor.ts, value |-> cursor.value, copy |-> cursor.occurrence]
      BY <1>2, CursorKinds DEF Named
    <3> QED BY <2>3, <3>1, <3>2
  <2>6. Later(r, S) = Ahead(S, cursor) BY <2>1, <2>5 DEF Later, Ahead, Reached
  <2> QED BY <2>2, <2>3, <2>5, <2>6
<1> QED BY <1>1, <1>2

LEMMA AheadIsAsked ==
    ASSUME HistoryOK, NEW cursor \in {NoCursor} \cup UpstreamCursor, NEW x \in history,
           ~Reached(x, cursor)
    PROVE  x \in FromTime(cursor)
<1>1. CASE cursor = NoCursor BY <1>1 DEF FromTime
<1>2. CASE cursor \in UpstreamCursor
  <2>1. RecordBefore(Named(cursor), x) /\ Named(cursor).ts = cursor.ts BY <1>2, CursorKinds DEF Reached
  <2>2. x \in Known /\ x.ts \in Nat /\ cursor.ts \in Nat
    BY <1>2 DEF HistoryOK, FiniteRecords, Known, UpstreamCursor
  <2>3. ~TimeBefore(x.ts, cursor.ts) BY <2>1, <2>2 DEF RecordBefore, TimeBefore
  <2> QED BY <2>3 DEF FromTime
<1> QED BY <1>1, <1>2

LEMMA ResponseIsLongEnough ==
    ASSUME HistoryOK, SparseIn(history), NEW cursor \in {NoCursor} \cup UpstreamCursor,
           cursor # NoCursor => Named(cursor) \in Response(cursor),
           Cardinality(Ahead(Response(cursor), cursor)) <= PageLimit
    PROVE  Response(cursor) = FromTime(cursor)
<1> DEFINE S == Response(cursor)
           behind == Ahead(S, cursor)
           reached == {x \in S : Reached(x, cursor)}
<1>1. FiniteRecords(S) /\ S \subseteq history BY ResponseIs
<1>2. behind \in SUBSET S /\ reached \in SUBSET S /\ S = behind \cup reached BY DEF Ahead
<1>3. Cardinality(reached) <= PageLimit
  <2>1. CASE cursor = NoCursor
    <3>1. reached = {} BY <2>1 DEF Reached
    <3> HIDE DEF reached
    <3> QED BY <3>1, FS_EmptySet, HistoryAssumption
  <2>2. CASE cursor \in UpstreamCursor
    <3> DEFINE r == Named(cursor)
               same == {s \in history : s.ts = r.ts}
    <3>1. cursor # NoCursor /\ r \in Known /\ r.ts = cursor.ts BY <2>2, CursorKinds
    <3>2. r \in history BY <1>1, <3>1
    <3>3. ASSUME NEW x \in reached PROVE x.ts = r.ts
      <4>1. x \in S /\ ~RecordBefore(r, x) BY <3>1 DEF Reached
      <4>2. x \in Known BY <1>1, <4>1 DEF FiniteRecords
      <4>3. x \in FromTime(cursor) BY <4>1, ResponseIs
      <4>4. ~TimeBefore(x.ts, r.ts) BY <3>1, <4>3 DEF FromTime
      <4>5. x.ts \in Nat /\ r.ts \in Nat BY <3>1, <4>2 DEF Known
      <4> HIDE DEF r
      <4> QED BY <4>1, <4>4, <4>5 DEF RecordBefore, TimeBefore
    <3>4. reached \in SUBSET same BY <1>1, <3>3
    <3>5. Cardinality(same) <= PageLimit BY <3>2 DEF SparseIn
    <3>6. same \in SUBSET history OBVIOUS
    <3> HIDE DEF reached, same
    <3>7. IsFiniteSet(same) BY <3>6, FS_Subset DEF HistoryOK, FiniteRecords
    <3>8. IsFiniteSet(reached) /\ Cardinality(reached) <= Cardinality(same) BY <3>4, <3>7, FS_Subset
    <3>9. Cardinality(reached) \in Nat /\ Cardinality(same) \in Nat
      BY <3>7, <3>8, FS_CardinalityType
    <3> QED BY <3>5, <3>8, <3>9, HistoryAssumption
  <2> QED BY <2>1, <2>2
<1>4. Cardinality(behind) <= PageLimit OBVIOUS
<1> HIDE DEF behind, reached
<1>5. IsFiniteSet(behind) /\ IsFiniteSet(reached) BY <1>1, <1>2, FS_Subset DEF FiniteRecords
<1>6. Cardinality(S) <= Cardinality(behind) + Cardinality(reached)
  <2>1. /\ IsFiniteSet(behind \cap reached)
        /\ Cardinality(behind \cup reached)
             = Cardinality(behind) + Cardinality(reached) - Cardinality(behind \cap reached)
    BY <1>5, FS_Union, FS_Intersection
  <2>2. /\ Cardinality(behind \cap reached) \in Nat /\ Cardinality(behind) \in Nat
        /\ Cardinality(reached) \in Nat
    BY <1>5, <2>1, FS_CardinalityType
  <2> QED BY <1>2, <2>1, <2>2
<1>7. /\ Cardinality(behind) \in Nat /\ Cardinality(reached) \in Nat /\ Cardinality(S) \in Nat
  BY <1>1, <1>5, FS_CardinalityType DEF FiniteRecords
<1>8. Cardinality(S) < RequestLimit
  BY <1>3, <1>4, <1>6, <1>7, HistoryAssumption DEF RequestLimit
<1>9. S # FromTime(cursor) => RequestLimit <= Cardinality(S)
  BY ResponseIs, FirstOfIs DEF Response
<1> QED BY <1>7, <1>8, <1>9, ResponseIs

LEMMA MappedPageIs ==
    ASSUME HistoryOK, NEW cursor \in {NoCursor} \cup UpstreamCursor, NEW page \in MappedPage(cursor)
    PROVE  PageIs("upstream", cursor, page) /\ page.seen = history
<1> DEFINE S == Response(cursor)
           behind == Ahead(S, cursor)
           items == FirstOf(behind, PageLimit)
           last == LastOf(items)
<1>1. page = [items |-> items, seen |-> history,
              next |-> IF items # behind THEN CursorAt(last, S) ELSE NoCursor] /\ items # {}
  BY BehindIs DEF PageOf
<1>2. FiniteRecords(S) /\ S \subseteq history /\ PageLimit \in Nat \ {0}
  BY ResponseIs, HistoryAssumption
<1>3. FiniteRecords(behind)
  <2>1. behind \in SUBSET S BY DEF Ahead
  <2> HIDE DEF behind
  <2> QED BY <1>2, <2>1, FS_Subset DEF FiniteRecords
<1>4. behind \subseteq S /\ \A x \in behind : ~Reached(x, cursor) BY DEF Ahead
<1>5. \A x \in S : ~Reached(x, cursor) => x \in behind BY DEF Ahead
<1> HIDE DEF behind
<1>6. /\ items \subseteq behind /\ FiniteRecords(items) /\ Cardinality(items) <= PageLimit
      /\ \A y \in items : \A x \in behind : RecordBefore(x, y) => x \in items
  BY <1>2, <1>3, FirstOfIs
<1> HIDE DEF items
<1>7. items \subseteq Known /\ history \subseteq Known BY <1>6 DEF FiniteRecords, HistoryOK
<1>8. CASE items # behind
  <2> DEFINE next == CursorAt(last, S)
  <2>1. last \in items /\ \A x \in items : x = last \/ RecordBefore(x, last)
    BY <1>1, <1>6, LastRecord
  <2>2. last \in S /\ last \in Known BY <1>4, <1>6, <1>7, <2>1
  <2> HIDE DEF last
  <2>3. next = [kind |-> "upstream", ts |-> last.ts, value |-> last.value, occurrence |-> last.copy]
    BY <2>2, OccurrenceIs DEF CursorAt
  <2>4. next \in UpstreamCursor BY <2>2, <2>3 DEF UpstreamCursor, Known
  <2>5. Named(next) = last /\ next # NoCursor /\ next.kind = "upstream"
    <3>1. last = [ts |-> last.ts, value |-> last.value, copy |-> last.copy] BY <2>2 DEF Known
    <3> QED BY <2>3, <2>4, <3>1, CursorKinds DEF Named
  <2>6. page = [items |-> items, seen |-> history, next |-> next] BY <1>1, <1>8
  <2> HIDE DEF next
  <2>7. page \in Page BY <1>7, <2>4, <2>6 DEF Page, Cursor
  <2>8. page.items = items /\ page.seen = history /\ page.next = next BY <2>6
  <2>9. \A x \in items : Reached(x, next)
    BY <1>7, <2>1, <2>2, <2>5, RecordsAreOrdered DEF Reached
  <2>10. ASSUME NEW x \in history, Reached(x, next), ~Reached(x, cursor) PROVE x \in items
    <3>1. x \in FromTime(cursor) BY <2>10, AheadIsAsked
    <3>2. x = last \/ RecordBefore(x, last)
      BY <1>7, <2>2, <2>5, <2>10, RecordsAreOrdered DEF Reached
    <3>3. x \in S BY <2>2, <3>1, <3>2, ResponseIs, FirstOfIs DEF Response
    <3>4. x \in behind BY <1>5, <2>10, <3>3
    <3> QED BY <1>6, <2>1, <3>2, <3>4
  <2> QED BY <1>4, <1>6, <2>1, <2>5, <2>7, <2>8, <2>9, <2>10 DEF PageIs, GoesOn
<1>9. CASE items = behind
  <2>1. page = [items |-> items, seen |-> history, next |-> NoCursor] BY <1>1, <1>9
  <2>2. page \in Page BY <1>7, <2>1 DEF Page, Cursor
  <2>3. page.items = items /\ page.seen = history /\ page.next = NoCursor BY <2>1
  <2>4. ASSUME SparseIn(history), NEW x \in history, ~Reached(x, cursor) PROVE x \in items
    <3>1. S = FromTime(cursor)
      BY <1>6, <1>9, <2>4, BehindIs, ResponseIsLongEnough DEF behind
    <3>2. x \in FromTime(cursor) BY <2>4, AheadIsAsked
    <3> QED BY <1>5, <1>9, <2>4, <3>1, <3>2
  <2> QED BY <1>4, <1>6, <2>2, <2>3, <2>4 DEF PageIs
<1> QED BY <1>8, <1>9

LEMMA EmptyPageIs ==
    ASSUME HistoryOK, NEW cursor \in {NoCursor} \cup UpstreamCursor, Response(cursor) = {}
    PROVE  PageIs("upstream", cursor, EmptyPage) /\ EmptyPage.seen = history
<1>1. FromTime(cursor) = {} BY ResponseIs, FirstOfIs DEF Response
<1>2. \A x \in history : Reached(x, cursor) BY <1>1, AheadIsAsked
<1>3. EmptyPage \in Page BY DEF EmptyPage, Page, Cursor, HistoryOK, FiniteRecords
<1> QED BY <1>2, <1>3 DEF EmptyPage, PageIs

(* A page of the database.                                                 *)
LEMMA StoredPageIs ==
    ASSUME HistoryOK, NEW cursor \in {NoCursor} \cup StoredCursor
    PROVE  PageIs("stored", cursor, StoredPage(cursor)) /\ StoredPage(cursor).seen = rows
<1> DEFINE behind == StoredRows(cursor)
           items == FirstOf(behind, PageLimit)
           last == LastOf(items)
           page == StoredPage(cursor)
<1>1. page = [items |-> items, seen |-> rows,
              next |-> IF items # behind THEN [kind |-> "stored", ts |-> last.ts] ELSE NoCursor]
  BY DEF StoredPage
<1>2. FiniteRecords(rows) /\ (\A r \in rows : r = Row(r.ts)) /\ PageLimit \in Nat \ {0}
  BY HistoryAssumption DEF HistoryOK
<1>3. FiniteRecords(behind)
  <2>1. behind \in SUBSET rows BY DEF StoredRows
  <2> HIDE DEF behind
  <2> QED BY <1>2, <2>1, FS_Subset DEF FiniteRecords
<1>4. \A x \in rows : x \in behind <=> ~Reached(x, cursor)
  <2> SUFFICES ASSUME NEW x \in rows PROVE x \in behind <=> ~Reached(x, cursor) OBVIOUS
  <2>1. CASE cursor = NoCursor BY <2>1 DEF StoredRows, Reached
  <2>2. CASE cursor \in StoredCursor
    <3>1. cursor # NoCursor /\ Named(cursor) = Row(cursor.ts) /\ cursor.ts \in Nat
      BY <2>2, CursorKinds
    <3>2. x = Row(x.ts) BY <1>2
    <3>3. /\ x.value = 0 /\ x.copy = 1 /\ Row(cursor.ts).ts = cursor.ts
          /\ Row(cursor.ts).value = 0 /\ Row(cursor.ts).copy = 1
      BY <3>2 DEF Row
    <3>4. RecordBefore(Named(cursor), x) <=> TimeBefore(cursor.ts, x.ts)
      BY <3>1, <3>3 DEF RecordBefore
    <3> QED BY <3>1, <3>4 DEF StoredRows, Reached
  <2> QED BY <2>1, <2>2
<1>5. behind \subseteq rows BY DEF StoredRows
<1> HIDE DEF behind
<1>6. /\ items \subseteq behind /\ FiniteRecords(items) /\ (behind # {} => items # {})
      /\ \A y \in items : \A x \in behind : RecordBefore(x, y) => x \in items
  BY <1>2, <1>3, FirstOfIs
<1> HIDE DEF items, page
<1>7. items \subseteq Known /\ rows \subseteq Known BY <1>2, <1>6 DEF FiniteRecords
<1>8. CASE items # behind
  <2> DEFINE next == [kind |-> "stored", ts |-> last.ts]
  <2>1. last \in items /\ \A x \in items : x = last \/ RecordBefore(x, last)
    BY <1>6, <1>8, LastRecord
  <2>2. last \in rows /\ last \in Known BY <1>5, <1>6, <1>7, <2>1
  <2> HIDE DEF last
  <2>3. next \in StoredCursor BY <2>2 DEF StoredCursor, Known
  <2>4. Named(next) = last /\ next # NoCursor /\ next.kind = "stored"
    BY <1>2, <2>2, <2>3, CursorKinds
  <2>5. page = [items |-> items, seen |-> rows, next |-> next] BY <1>1, <1>8
  <2> HIDE DEF next
  <2>6. page \in Page BY <1>7, <2>3, <2>5 DEF Page, Cursor
  <2>7. page.items = items /\ page.seen = rows /\ page.next = next BY <2>5
  <2>8. \A x \in items : Reached(x, next)
    BY <1>7, <2>1, <2>2, <2>4, RecordsAreOrdered DEF Reached
  <2>9. ASSUME NEW x \in rows, Reached(x, next), ~Reached(x, cursor) PROVE x \in items
    <3>1. x = last \/ RecordBefore(x, last)
      BY <1>7, <2>2, <2>4, <2>9, RecordsAreOrdered DEF Reached
    <3> QED BY <1>4, <1>6, <2>1, <2>9, <3>1
  <2> QED BY <1>4, <1>5, <1>6, <2>1, <2>4, <2>6, <2>7, <2>8, <2>9 DEF PageIs, GoesOn, page
<1>9. CASE items = behind
  <2>1. page = [items |-> items, seen |-> rows, next |-> NoCursor] BY <1>1, <1>9
  <2>2. page \in Page BY <1>7, <2>1 DEF Page, Cursor
  <2>3. page.items = items /\ page.seen = rows /\ page.next = NoCursor BY <2>1
  <2> QED BY <1>4, <1>5, <1>6, <1>9, <2>2, <2>3 DEF PageIs, page
<1> QED BY <1>8, <1>9

(* The invariant: the walk has got what was ahead of none of its cursors,  *)
(* and of what was there for each of its pages, all up to its cursor; the  *)
(* cache has pages of times before now.                                    *)
HistoryWalk == [kind : {"idle", "begun", "upstream", "stored", "done", "failed"}, next : Cursor,
                got : SUBSET Known, early : SUBSET Known, common : SUBSET Known, pages : Nat]

GotWhatIsReached ==
    /\ walk.kind = "begun" => walk.next = NoCursor /\ walk.got = {}
    /\ walk.kind \in {"upstream", "stored"} =>
         /\ walk.next # NoCursor /\ walk.next.kind = walk.kind
         /\ \A x \in walk.got : Reached(x, walk.next)
         /\ \A x \in walk.common : Reached(x, walk.next) => x \in walk.got

WalkOK ==
    /\ walk \in HistoryWalk /\ walk.early = {}
    /\ GotWhatIsReached
    /\ walk.kind = "done" /\ Sparse => walk.common \subseteq walk.got

CachedOK ==
    \A c \in cached : PageIs("upstream", c.cursor, c.page) /\ c.page.seen \subseteq history

HistoryInv == HistoryOK /\ CachedOK /\ WalkOK

LEMMA SparseBefore ==
    ASSUME NEW S, NEW T, S \subseteq T, IsFiniteSet(T), SparseIn(T) PROVE SparseIn(S)
<1> DEFINE at(A, r) == {s \in A : s.ts = r.ts}
<1> SUFFICES ASSUME NEW r \in S PROVE Cardinality(at(S, r)) <= PageLimit BY DEF SparseIn
<1>1. at(S, r) \in SUBSET at(T, r) /\ at(T, r) \in SUBSET T OBVIOUS
<1>2. Cardinality(at(T, r)) <= PageLimit BY DEF SparseIn
<1> HIDE DEF at
<1>3. IsFiniteSet(at(T, r)) /\ IsFiniteSet(at(S, r)) BY <1>1, FS_Subset
<1>4. Cardinality(at(S, r)) <= Cardinality(at(T, r)) BY <1>1, <1>3, FS_Subset
<1>5. Cardinality(at(S, r)) \in Nat /\ Cardinality(at(T, r)) \in Nat BY <1>3, FS_CardinalityType
<1> QED BY <1>2, <1>4, <1>5, HistoryAssumption

(* The cursor that a page is asked with, and the page in its place.        *)
LEMMA NextIs ==
    ASSUME WalkOK, NEW kind \in {"upstream", "stored"}, walk.kind \in {"begun", kind}
    PROVE  /\ kind = "upstream" => walk.next \in {NoCursor} \cup UpstreamCursor
           /\ kind = "stored" => walk.next \in {NoCursor} \cup StoredCursor
           /\ walk.kind = "begun" <=> walk.next = NoCursor
<1>1. walk.next \in Cursor /\ walk.kind # "none" BY DEF WalkOK, HistoryWalk
<1>2. CASE walk.kind = "begun" BY <1>2 DEF WalkOK, GotWhatIsReached
<1>3. CASE walk.kind = kind
  <2>1. walk.next # NoCursor /\ walk.next.kind = kind BY <1>3 DEF WalkOK, GotWhatIsReached
  <2> QED BY <1>1, <1>3, <2>1, CursorKinds DEF Cursor
<1> QED BY <1>2, <1>3

LEMMA CollectKeeps ==
    ASSUME HistoryOK, WalkOK, NEW kind \in {"upstream", "stored"}, walk.kind \in {"begun", kind},
           NEW page, PageIs(kind, walk.next, page), kind = "upstream" => page.seen \subseteq history,
           Collect(kind, page), UNCHANGED history
    PROVE  WalkOK'
<1> DEFINE cursor == walk.next
           got == walk.got
           next == page.next
           items == page.items
           seen == page.seen
           common == IF walk.kind = "begun" THEN seen ELSE walk.common \cap seen
           early == {x \in items : \E y \in got : ~RecordBefore(y, x)}
           at == IF next = NoCursor THEN "done" ELSE kind
<1>1. /\ got \in SUBSET Known /\ cursor \in Cursor /\ walk.common \in SUBSET Known
      /\ walk.pages \in Nat /\ walk.early = {}
  BY DEF WalkOK, HistoryWalk
<1>2. items \in SUBSET Known /\ seen \in SUBSET Known /\ next \in Cursor BY DEF PageIs, Page
<1>3. walk.kind = "begun" => got = {} /\ cursor = NoCursor BY DEF WalkOK, GotWhatIsReached
<1>4. walk.kind # "begun" => /\ cursor # NoCursor /\ \A x \in got : Reached(x, cursor)
                             /\ \A x \in walk.common : Reached(x, cursor) => x \in got
  BY DEF WalkOK, GotWhatIsReached
<1>5. \A x \in items : ~Reached(x, cursor) BY DEF PageIs
<1>6. walk' = [kind |-> at, next |-> next, got |-> got \cup items, pages |-> walk.pages + 1,
               early |-> walk.early \cup early, common |-> common]
  BY DEF Collect
<1>7. \A c \in Cursor : c # NoCursor => Named(c) \in Known BY CursorKinds DEF Cursor
<1> HIDE DEF cursor, got, next, items, seen
<1>8. \A y \in got : \A x \in Known : ~Reached(x, cursor) => RecordBefore(y, x)
  <2> SUFFICES ASSUME NEW y \in got, NEW x \in Known, ~Reached(x, cursor)
               PROVE  RecordBefore(y, x)
    OBVIOUS
  <2>1. walk.kind # "begun" BY <1>3
  <2>2. cursor # NoCursor /\ Reached(y, cursor) BY <1>4, <2>1
  <2>3. ~RecordBefore(Named(cursor), y) /\ RecordBefore(Named(cursor), x) BY <2>2 DEF Reached
  <2>4. Named(cursor) \in Known /\ y \in Known BY <1>1, <1>7, <2>2
  <2> QED BY <2>3, <2>4, RecordsAreOrdered
<1>9. early = {} BY <1>2, <1>5, <1>8
<1>10. common \in SUBSET seen /\ common \in SUBSET Known BY <1>2
<1>11. \A x \in common : Reached(x, cursor) => x \in got
  BY <1>3, <1>4 DEF Reached
<1> HIDE DEF early, common
<1>12. /\ walk'.kind = at /\ walk'.next = next /\ walk'.got = got \cup items
       /\ walk'.early = {} /\ walk'.common = common
  BY <1>1, <1>6, <1>9
<1>13. walk' \in HistoryWalk
  BY <1>1, <1>2, <1>6, <1>9, <1>10 DEF HistoryWalk
<1>14. CASE next # NoCursor
  <2>1. /\ next.kind = kind /\ Named(next) \in items /\ \A x \in items : Reached(x, next)
        /\ \A x \in seen : Reached(x, next) /\ ~Reached(x, cursor) => x \in items
    BY <1>14 DEF PageIs, GoesOn, next, items, seen, cursor
  <2>2. \A x \in got : Reached(x, next)
    <3> SUFFICES ASSUME NEW x \in got PROVE Reached(x, next) OBVIOUS
    <3>1. Named(next) \in Known /\ x \in Known BY <1>1, <1>2, <2>1
    <3>2. RecordBefore(x, Named(next)) BY <1>5, <1>8, <2>1, <3>1
    <3>3. ~RecordBefore(Named(next), x) BY <3>1, <3>2, RecordsAreOrdered
    <3> QED BY <1>14, <3>3 DEF Reached
  <2>3. \A x \in common : Reached(x, next) => x \in got \cup items BY <1>10, <1>11, <2>1
  <2>4. walk'.kind = kind BY <1>12, <1>14
  <2> QED BY <1>12, <1>13, <1>14, <2>1, <2>2, <2>3, <2>4 DEF WalkOK, GotWhatIsReached
<1>15. CASE next = NoCursor
  <2>1. walk'.kind = "done" BY <1>12, <1>15
  <2>2. ASSUME Sparse' PROVE common \subseteq got \cup items
    <3>1. kind = "stored" \/ SparseIn(seen)
      <4>1. SparseIn(history) /\ IsFiniteSet(history)
        BY <2>2 DEF Sparse, SparseIn, HistoryOK, FiniteRecords
      <4> QED BY <4>1, SparseBefore DEF seen
    <3>2. \A x \in seen : ~Reached(x, cursor) => x \in items
      BY <1>15, <3>1 DEF PageIs, next, seen, items, cursor
    <3> QED BY <1>10, <1>11, <3>2
  <2> QED BY <1>12, <1>13, <2>1, <2>2 DEF WalkOK, GotWhatIsReached
<1> QED BY <1>14, <1>15

LEMMA RowsGrow ==
    ASSUME HistoryOK, NEW S, FiniteRecords(S)
    PROVE  FiniteRecords(rows \cup {Row(r.ts) : r \in S})
<1> DEFINE T == {Row(r.ts) : r \in S}
           f == [r \in S |-> Row(r.ts)]
<1>1. T \in SUBSET Known BY DEF Row, FiniteRecords, Known
<1>2. f \in Surjection(S, T) BY DEF Surjection
<1> HIDE DEF T, f
<1>3. IsFiniteSet(T) BY <1>2, FS_Surjection DEF FiniteRecords
<1>4. IsFiniteSet(rows \cup T) BY <1>3, FS_Union DEF HistoryOK, FiniteRecords
<1>5. rows \cup T \in SUBSET Known BY <1>1 DEF HistoryOK, FiniteRecords
<1> QED BY <1>4, <1>5 DEF FiniteRecords, T

LEMMA PageStepKeeps == ASSUME HistoryInv, PageStep PROVE HistoryInv'
<1> USE DEF HistoryInv
<1>1. CASE Begin
  <2>1. walk' = NewWalk("begun") /\ UNCHANGED <<history, rows, cached>> BY <1>1 DEF Begin
  <2>2. WalkOK' BY <2>1 DEF NewWalk, WalkOK, HistoryWalk, Cursor, GotWhatIsReached
  <2> QED BY <2>1, <2>2 DEF HistoryOK, CachedOK
<1>2. CASE PageFromCache
  <2>1. PICK c \in cached : c.cursor = walk.next /\ Collect("upstream", c.page)
    BY <1>2 DEF PageFromCache
  <2>2. PageIs("upstream", walk.next, c.page) /\ c.page.seen \subseteq history
    BY <2>1 DEF CachedOK
  <2>3. WalkOK' BY <1>2, <2>1, <2>2, CollectKeeps DEF PageFromCache, Asks
  <2> QED BY <1>2, <2>3 DEF PageFromCache, HistoryOK, CachedOK
<1>3. CASE PageFromUpstream
  <2>1. walk.kind \in {"begun", "upstream"} BY <1>3 DEF PageFromUpstream, Asks
  <2>2. PICK page \in IF Response(walk.next) = {} THEN {EmptyPage} ELSE MappedPage(walk.next) :
          /\ Collect("upstream", page)
          /\ cached' = cached \cup {[cursor |-> walk.next, page |-> page]}
    BY <1>3 DEF PageFromUpstream
  <2>3. walk.next \in {NoCursor} \cup UpstreamCursor BY <2>1, NextIs
  <2>4. PageIs("upstream", walk.next, page) /\ page.seen = history
    BY <2>2, <2>3, MappedPageIs, EmptyPageIs
  <2>5. UNCHANGED history BY <1>3 DEF PageFromUpstream
  <2>6. WalkOK' BY <2>1, <2>2, <2>4, <2>5, CollectKeeps
  <2>7. CachedOK'
    <3> SUFFICES ASSUME NEW c \in cached'
                 PROVE  PageIs("upstream", c.cursor, c.page) /\ c.page.seen \subseteq history
      BY <2>5 DEF CachedOK
    <3>1. CASE c \in cached BY <3>1 DEF CachedOK
    <3>2. CASE c = [cursor |-> walk.next, page |-> page] BY <2>4, <3>2
    <3> QED BY <2>2, <3>1, <3>2
  <2>8. HistoryOK'
    <3>1. rows' = rows \cup {Row(r.ts) : r \in Response(walk.next)} BY <1>3 DEF PageFromUpstream
    <3>2. FiniteRecords(rows') BY <3>1, ResponseIs, RowsGrow
    <3>3. \A r \in rows' : r = Row(r.ts) BY <3>1 DEF HistoryOK, Row
    <3> QED BY <2>5, <3>2, <3>3 DEF HistoryOK
  <2> QED BY <2>6, <2>7, <2>8
<1>4. ASSUME FallBack \/ PageFromStore PROVE HistoryInv'
  <2>1. walk.kind \in {"begun", "stored"} /\ UNCHANGED <<history, rows, cached>>
    BY <1>4 DEF FallBack, PageFromStore, Asks
  <2>2. Collect("stored", StoredPage(walk.next))
    BY <1>4 DEF FallBack, PageFromStore, Asks, WalkOK, GotWhatIsReached
  <2>3. walk.next \in {NoCursor} \cup StoredCursor BY <2>1, NextIs
  <2>4. WalkOK' BY <2>1, <2>2, <2>3, StoredPageIs, CollectKeeps
  <2> QED BY <2>1, <2>4 DEF HistoryOK, CachedOK
<1>5. CASE PageFails
  <2>1. walk' = [walk EXCEPT !.kind = "failed"] /\ UNCHANGED <<history, rows, cached>>
    BY <1>5 DEF PageFails
  <2>2. WalkOK' BY <2>1 DEF WalkOK, HistoryWalk, GotWhatIsReached
  <2> QED BY <2>1, <2>2 DEF HistoryOK, CachedOK
<1> QED BY <1>1, <1>2, <1>3, <1>4, <1>5 DEF PageStep

LEMMA ArriveKeeps == ASSUME HistoryInv, NEW r \in Records, Arrive(r) PROVE HistoryInv'
<1> USE DEF HistoryInv
<1>1. history' = history \cup {r} /\ Numbered(history)' /\ UNCHANGED <<rows, cached, walk>>
  BY DEF Arrive, Numbered
<1>2. FiniteRecords(history')
  <2>1. r \in Known BY HistoryAssumption DEF Known
  <2>2. IsFiniteSet(history \cup {r}) BY FS_AddElement DEF HistoryOK, FiniteRecords
  <2> QED BY <1>1, <2>1, <2>2 DEF HistoryOK, FiniteRecords
<1>3. HistoryOK' BY <1>1, <1>2 DEF HistoryOK
<1>4. CachedOK' BY <1>1 DEF CachedOK
<1>5. Sparse' => Sparse
  BY <1>1, <1>2, SparseBefore DEF Sparse, SparseIn, FiniteRecords
<1>6. WalkOK' BY <1>1, <1>5 DEF WalkOK, GotWhatIsReached
<1> QED BY <1>3, <1>4, <1>6

LEMMA PruneKeeps == ASSUME HistoryInv, Expire \/ PruneHistory PROVE HistoryInv'
<1> USE DEF HistoryInv
<1>1. UNCHANGED <<history, walk>> /\ cached' \subseteq cached /\ rows' \in SUBSET rows
  BY DEF Expire, PruneHistory
<1>2. IsFiniteSet(rows') BY <1>1, FS_Subset DEF HistoryOK, FiniteRecords
<1>3. HistoryOK' BY <1>1, <1>2 DEF HistoryOK, FiniteRecords
<1>4. CachedOK' BY <1>1 DEF CachedOK
<1>5. WalkOK' BY <1>1 DEF WalkOK, GotWhatIsReached, Sparse
<1> QED BY <1>3, <1>4, <1>5

(* A reader who walks a history to its end has each record that was there  *)
(* for every page, in order and once, if no time has more records than a   *)
(* page: for any records, any page size and either order of the query.     *)
THEOREM WalkedHistoryIsComplete == HistorySpec => []WalkIsComplete
<1>1. ASSUME NEW S \in SUBSET Records, IsFiniteSet(S), Numbered(S), HistoryInit(S) PROVE HistoryInv
  <2>1. HistoryOK
    BY <1>1, HistoryAssumption, FS_EmptySet DEF HistoryInit, HistoryOK, FiniteRecords, Known
  <2>2. CachedOK BY <1>1 DEF HistoryInit, CachedOK
  <2>3. WalkOK BY <1>1 DEF HistoryInit, NewWalk, WalkOK, HistoryWalk, Cursor, GotWhatIsReached
  <2> QED BY <2>1, <2>2, <2>3 DEF HistoryInv
<1>2. ASSUME HistoryInv, [HistoryNext]_historyVars PROVE HistoryInv'
  <2>1. CASE UNCHANGED historyVars
    BY <1>2, <2>1 DEF historyVars, HistoryInv, HistoryOK, CachedOK, WalkOK, GotWhatIsReached, Sparse
  <2> QED BY <1>2, <2>1, PageStepKeeps, ArriveKeeps, PruneKeeps DEF HistoryNext
<1>3. HistoryInv => WalkIsComplete BY DEF HistoryInv, WalkOK, WalkIsComplete
<1> DEFINE Begins == \E S \in SUBSET Records : IsFiniteSet(S) /\ Numbered(S) /\ HistoryInit(S)
<1>4. Begins => HistoryInv BY <1>1
<1> HIDE DEF Begins
<1>5. HistorySpec => Begins /\ [][HistoryNext]_historyVars BY DEF HistorySpec, Begins
<1> QED BY <1>2, <1>3, <1>4, <1>5, PTL
=============================================================================
