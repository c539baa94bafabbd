----------------------------- MODULE HistoryView -----------------------------
(***************************************************************************)
(* The pages of a history: the historical analysis, which asks for every   *)
(* station of the selected plot and compares them, and the history report  *)
(* of one station.  A query is a metric and a window of time; an answer is *)
(* of the query it was asked with, and a page keeps the last one of its    *)
(* query through a transient error.                                        *)
(***************************************************************************)
EXTENDS Naturals, FiniteSets

CONSTANTS
    Plotted,    \* stations
    Metrics,    \* for the report: metric and range of dates
    Void,
    MaxWindows, \* bound on the windows the analysis opens after the first
    MaxRounds,  \* bound on the generations of the fences
    MaxTries,   \* bound on the requests for one station in a generation
    MaxDenials  \* bound on the refusals of a station that a page hears of

ASSUME HistoryViewAssumption ==
    /\ Void \notin Plotted \cup Metrics /\ Metrics # {}
    /\ {MaxWindows, MaxRounds, MaxTries, MaxDenials} \subseteq Nat

VARIABLES
    listed,     \* the stations of the hierarchy, and whether it is loading
    query,      \* selectedMetric and actualWindow
    history,    \* HistoryState
    fence,      \* generation and stationRequests
    fetches,    \* the analysis's requests under way
    subject,    \* the report's station and query
    report,     \* HistoryReportDataState
    round,      \* reloadKey of the report, and its fence
    reads,      \* the report's requests under way
    denials     \* history: the refusals of each station that the pages have heard of

analysisVars == <<listed, query, history, fence, fetches>>
reportVars == <<subject, report, round, reads>>
viewVars == <<analysisVars, reportVars, denials>>

-----------------------------------------------------------------------------
(* retainedHistoryData.  A record of one station: good is the last answer  *)
(* with points and the query it was asked with.                            *)
Record(st, q, d, pending, failed, retained, good) ==
    [station |-> st, query |-> q, data |-> d, pending |-> pending, failed |-> failed,
     retained |-> retained, good |-> good]

Answer(st, q, told, points) == [station |-> st, query |-> q, told |-> told, points |-> points]

(* What there is of these: a query of the analysis and one of the report,  *)
(* an answer, a record, and the states of the two pages.                   *)
Queries == [metric : Metrics, window : Nat] \cup [station : Plotted, query : Metrics]

SoilHistories == [station : Plotted, query : Queries, told : Nat, points : BOOLEAN]

Records == [station : Plotted, query : Queries, data : SoilHistories \cup {Void}, pending : BOOLEAN,
            failed : BOOLEAN, retained : BOOLEAN, good : SoilHistories \cup {Void}]

Histories == [key : [stations : SUBSET Plotted, query : Queries],
              records : UNION {[S -> Records] : S \in SUBSET Plotted}]

Reports == [subject : Queries, reload : Nat, record : Records]

ASSUME VoidIsNoObject == Void \notin Records \cup Histories \cup Reports

Prior(records, st) == IF st \in DOMAIN records THEN records[st] ELSE Void

(* handleStationHistorySuccess: an answer without points is shown and not  *)
(* kept.                                                                   *)
Success(st, q, a) ==
    Record(st, q, a, FALSE, FALSE, FALSE, IF a.points THEN a ELSE Void)

(* handleStationHistoryError: only a transient error leaves the last       *)
(* answer to the query.  Mutant: a refusal leaves it too.                  *)
RetainsAfterAll(prior, q, transient) ==
    prior # Void /\ prior.good # Void /\ prior.query = q /\ prior.good.query = q

Retains(prior, q, transient) ==
    transient /\ prior # Void /\ prior.good # Void /\ prior.query = q /\ prior.good.query = q

Failure(prior, st, q, transient) ==
    IF Retains(prior, q, transient)
    THEN Record(st, q, prior.good, FALSE, TRUE, TRUE, prior.good)
    ELSE Record(st, q, Void, FALSE, TRUE, FALSE, Void)

(* beginStationHistoryRequest                                              *)
Pending(prior, st, q) == [Failure(prior, st, q, TRUE) EXCEPT !.failed = FALSE, !.pending = TRUE]

Endings == {"points", "empty", "other station", "transient", "refused", "error"}

(* The record that an answer or an error leads to.                         *)
Ended(prior, st, q, told, end) ==
    CASE end \in {"points", "empty"} -> Success(st, q, Answer(st, q, told, end = "points"))
      [] end \in {"other station", "refused", "error"} -> Failure(prior, st, q, FALSE)
      [] end = "transient" -> Failure(prior, st, q, TRUE)

Hears(st, end) ==
    /\ end = "refused" => denials[st] < MaxDenials
    /\ denials' = IF end = "refused" THEN [denials EXCEPT ![st] = @ + 1] ELSE denials

-----------------------------------------------------------------------------
(* The analysis.  historyKey: the query of every station that is listed.   *)
HistoryKey(stations, q) == [stations |-> stations, query |-> q]

Key == HistoryKey(listed.stations, query)

(* selectHistoryRecords: of the records, those of the queries in the key.  *)
Selected(records, key) ==
    [st \in {s \in DOMAIN records : s \in key.stations /\ records[s].query = key.query} |-> records[st]]

Put(records, st, r) == [s \in DOMAIN records \cup {st} |-> IF s = st THEN r ELSE records[s]]

RecordsOf(h) == IF h = Void THEN [s \in {} |-> Void] ELSE h.records

Update(h, key, st, r) == [key |-> key, records |-> Put(Selected(RecordsOf(h), key), st, r)]

Fetch(g, key, st, n) == [generation |-> g, key |-> key, station |-> st, id |-> n, told |-> denials[st]]

(* The effect: a new generation, and a request for each station.           *)
LoadAll(stations, q) ==
    LET key == HistoryKey(stations, q)
        old == Selected(RecordsOf(history), key)
    IN /\ fence.generation < MaxRounds
       /\ fence' = [generation |-> fence.generation + 1, requests |-> [st \in Plotted |->
                                                        IF st \in stations THEN 1 ELSE 0]]
       /\ fetches' = fetches \cup {Fetch(fence.generation + 1, key, st, 1) : st \in stations}
       /\ history' = IF stations = {} THEN (IF listed'.loading THEN history ELSE Void)
                     ELSE [key |-> key, records |->
                             [st \in stations |-> Pending(Prior(old, st), st, q)]]

(* The hierarchy lists other stations, or the same ones anew.              *)
Lists(S, loading) ==
    /\ loading => S = {}
    /\ listed' = [stations |-> S, loading |-> loading]
    /\ LoadAll(S, query)
    /\ UNCHANGED <<query, reportVars, denials>>

SelectMetric(m) ==
    /\ m # query.metric
    /\ query' = [query EXCEPT !.metric = m]
    /\ UNCHANGED listed /\ LoadAll(listed.stations, query')
    /\ UNCHANGED <<reportVars, denials>>

(* A number of days opens a window that ends now, also the same number.    *)
HandleDaysChange ==
    /\ query.window < MaxWindows
    /\ query' = [query EXCEPT !.window = @ + 1]
    /\ UNCHANGED listed /\ LoadAll(listed.stations, query')
    /\ UNCHANGED <<reportVars, denials>>

CurrentHistory == IF history # Void /\ history.key = Key THEN history ELSE Void

RetryStation(st) ==
    /\ CurrentHistory # Void /\ st \in listed.stations \cap DOMAIN history.records
    /\ history.records[st].failed /\ ~history.records[st].pending
    /\ fence.requests[st] < MaxTries
    /\ fence' = [fence EXCEPT !.requests[st] = @ + 1]
    /\ fetches' = fetches \cup {Fetch(fence.generation, Key, st, fence.requests[st] + 1)}
    /\ history' = Update(history, Key, st, Pending(Prior(Selected(history.records, Key), st), st, query))
    /\ UNCHANGED <<listed, query, reportVars, denials>>

(* The fence of the requests.  Mutant: any answer is taken.                *)
AnyFetch(f) == TRUE

CurrentFetch(f) == f.generation = fence.generation /\ fence.requests[f.station] = f.id

HistoryArrives(f, end) ==
    /\ f \in fetches /\ fetches' = fetches \ {f}
    /\ IF CurrentFetch(f)
       THEN /\ history' = Update(history, f.key, f.station,
                            Ended(Prior(Selected(RecordsOf(history), f.key), f.station), f.station,
                                  f.key.query, f.told, end))
            /\ Hears(f.station, end)
       ELSE UNCHANGED <<history, denials>>
    /\ UNCHANGED <<listed, query, fence, reportVars>>

-----------------------------------------------------------------------------
(* What the analysis shows: of which stations, and whether it is loading.  *)
ShownRecords == IF CurrentHistory = Void THEN [s \in {} |-> Void] ELSE history.records

HistoryLoading ==
    /\ listed.stations # {}
    /\ \/ CurrentHistory = Void
       \/ /\ \E st \in DOMAIN ShownRecords : ShownRecords[st].pending
          /\ \A st \in DOMAIN ShownRecords : ShownRecords[st].data = Void

(* The series of the chart and its table.                                  *)
Series == {ShownRecords[st].data : st \in {s \in DOMAIN ShownRecords :
              s \in listed.stations /\ ShownRecords[s].data # Void /\ ShownRecords[s].data.points}}

(* getHonestProvenanceAndCoverage                                          *)
Origin(r) == IF r.data = Void THEN "unavailable" ELSE IF r.retained THEN "browser retained" ELSE "answered"

(* exportCsv: the readings of the chart behind a header, which tells the   *)
(* query and the source of every station that is listed.                   *)
Exported ==
    [header |-> {LET r == Prior(ShownRecords, st)
                 IN  [station |-> st, query |-> IF r = Void THEN Void ELSE r.query,
                      origin |-> IF r = Void THEN "unavailable" ELSE Origin(r)] : st \in listed.stations},
     rows |-> Series]

-----------------------------------------------------------------------------
(* The report of one station.                                              *)
Read(n, s, k, told) == [fence |-> n, subject |-> s, reload |-> k, told |-> told, active |-> TRUE]

(* A change of what it asks for ends the call before and makes another.    *)
Subject(s, loading, k) ==
    /\ round.fence < MaxRounds
    /\ subject' = s
    /\ round' = [reload |-> k, fence |-> round.fence + 1, loading |-> loading]
    /\ reads' = {[r EXCEPT !.active = FALSE] : r \in reads}
                \cup IF s.station = Void THEN {} ELSE {Read(round.fence + 1, s, k, denials[s.station])}
    /\ report' = IF s.station = Void /\ ~loading THEN Void ELSE report
    /\ UNCHANGED <<analysisVars, denials>>

(* The hierarchy selects a station or none, while it loads or for good.    *)
ReportOn(st, loading) ==
    /\ st # subject.station \/ loading # round.loading
    /\ loading => st = Void
    /\ Subject([subject EXCEPT !.station = st], loading, round.reload)

ReportQuery(m) ==
    m # subject.query /\ Subject([subject EXCEPT !.query = m], round.loading, round.reload)

(* The record of what the page asks for now.                               *)
CurrentReport ==
    IF report # Void /\ report.subject = subject /\ report.reload = round.reload THEN report.record ELSE Void

(* Apply also reloads the hierarchy, which clears the station until it is  *)
(* selected again; so does a Retry of a hierarchy that failed.             *)
Apply ==
    /\ subject.station # Void /\ ~round.loading
    /\ Subject([subject EXCEPT !.station = Void], TRUE, round.reload + 1)

RetryReport ==
    \/ CurrentReport # Void /\ CurrentReport.failed /\ Subject(subject, FALSE, round.reload + 1)
    \/ subject.station = Void /\ ~round.loading /\ Subject(subject, TRUE, round.reload + 1)

CurrentRead(r) == r.active /\ r.fence = round.fence

ReportArrives(r, end) ==
    LET prior == IF report # Void /\ report.record.query = r.subject THEN report.record ELSE Void IN
    /\ r \in reads /\ reads' = reads \ {r}
    /\ IF CurrentRead(r)
       THEN /\ report' = [subject |-> r.subject, reload |-> r.reload,
                          record |-> Ended(prior, r.subject.station, r.subject, r.told, end)]
            /\ Hears(r.subject.station, end)
       ELSE UNCHANGED <<report, denials>>
    /\ UNCHANGED <<analysisVars, subject, round>>

ReportLoading == subject.station # Void /\ CurrentReport = Void

-----------------------------------------------------------------------------
ViewInit ==
    /\ listed = [stations |-> {}, loading |-> TRUE] /\ history = Void /\ fetches = {}
    /\ \E m \in Metrics : query = [metric |-> m, window |-> 0]
                          /\ subject = [station |-> Void, query |-> m]
    /\ fence = [generation |-> 0, requests |-> [st \in Plotted |-> 0]]
    /\ report = Void /\ round = [reload |-> 0, fence |-> 0, loading |-> TRUE] /\ reads = {}
    /\ denials = [st \in Plotted |-> 0]

AnalysisNext ==
    \/ \E S \in SUBSET Plotted, loading \in BOOLEAN : Lists(S, loading)
    \/ \E m \in Metrics : SelectMetric(m)
    \/ HandleDaysChange
    \/ \E st \in Plotted : RetryStation(st)
    \/ \E f \in fetches, end \in Endings : HistoryArrives(f, end)

ReportNext ==
    \/ \E st \in Plotted \cup {Void}, loading \in BOOLEAN : ReportOn(st, loading)
    \/ \E m \in Metrics : ReportQuery(m)
    \/ Apply \/ RetryReport
    \/ \E r \in reads, end \in Endings : ReportArrives(r, end)

-----------------------------------------------------------------------------
(* A page that is loading, or a station of it that is being checked, has a *)
(* request under way whose answer it will take.                            *)
HistoryWaits ==
    /\ HistoryLoading => \E f \in fetches : CurrentFetch(f) /\ f.key = Key
    /\ \A st \in DOMAIN ShownRecords : ShownRecords[st].pending =>
         \E f \in fetches : CurrentFetch(f) /\ f.key = Key /\ f.station = st
    /\ ReportLoading => \E r \in reads : CurrentRead(r) /\ r.subject = subject /\ r.reload = round.reload

(* What is charted and exported was asked for with the query on the page,  *)
(* and is not older than a refusal that the page has heard of; the header  *)
(* of the exported file has the query and a source of all that is in it.   *)
ChartIsOfTheQuery ==
    /\ \A a \in Series : a.query = query /\ a.told = denials[a.station]
    /\ \A a \in Exported.rows : \E h \in Exported.header :
         h.station = a.station /\ h.query = a.query /\ h.origin # "unavailable"
    /\ CurrentReport # Void /\ CurrentReport.data # Void =>
         /\ CurrentReport.data.query = subject
         /\ CurrentReport.data.told = denials[subject.station]
=============================================================================
