---------------------------- MODULE HistoryPages ----------------------------
(***************************************************************************)
(* The pages of a station's history.  A reader walks the pages of one      *)
(* query by their cursors; each comes from the cache, from the upstream,   *)
(* whose records it also stores, or, if the first one cannot be fetched,   *)
(* from the database, while new readings arrive and retention deletes old  *)
(* ones (StationDataService.getHistory, history.mapper.ts,                 *)
(* StoredHistoryRepository.getHistory).  Raw readings only: the buckets of *)
(* stored aggregates are left out.                                         *)
(***************************************************************************)
EXTENDS Naturals, FiniteSets

CONSTANTS Records,    \* [ts, value, copy]: what the upstream may ever hold
          Ascending,  \* the order of the query
          PageLimit,  \* its limit
          MaxPages    \* bound on the pages of one walk

ASSUME HistoryAssumption ==
    /\ Records \subseteq [ts : Nat, value : Nat, copy : Nat \ {0}]
    /\ Ascending \in BOOLEAN /\ PageLimit \in Nat \ {0}

VARIABLES
    history,  \* the records of the upstream
    rows,     \* SoilReading: one row for each time that is stored
    cached,   \* historyCache: pages by cursor
    walk      \* the reader: the pages collected so far

historyVars == <<history, rows, cached, walk>>

(* No cursor: the first page is asked, or there is no next one.            *)
NoCursor == [kind |-> "none"]

(* What a walk has got, what of it did not come behind all it had got      *)
(* before, and the records that were there for each page so far.           *)
NewWalk(kind) == [kind |-> kind, next |-> NoCursor, got |-> {}, early |-> {}, common |-> {},
                  pages |-> 0]

HistoryInit(initial) ==
    /\ history = initial /\ rows = {} /\ cached = {}
    /\ walk = NewWalk("idle")

-----------------------------------------------------------------------------
(* The order of the query; the upstream keeps records of one time in one   *)
(* order, and the sort of mapHistoryPage is stable.                        *)
TimeBefore(s, t) == IF Ascending THEN s < t ELSE t < s

RecordBefore(a, b) ==
    \/ TimeBefore(a.ts, b.ts)
    \/ a.ts = b.ts /\ (a.value < b.value \/ (a.value = b.value /\ a.copy < b.copy))

Earlier(r, S) == {x \in S : RecordBefore(x, r)}

Later(r, S) == {x \in S : RecordBefore(r, x)}

FirstOf(S, n) == {r \in S : Cardinality(Earlier(r, S)) < n}

LastOf(S) == CHOOSE r \in S : Later(r, S) = {}

(* Twice the page and one record, so that a page fits behind the boundary  *)
(* (limits end at 500, so the cap of 5000 is out of reach).  Mutant: one   *)
(* record more than the page.                                              *)
PageAndOne == PageLimit + 1

RequestLimit == 2 * PageLimit + 1

(* weather.getHistory from the boundary's time on.                         *)
FromTime(cursor) == {r \in history : cursor = NoCursor \/ ~TimeBefore(r.ts, cursor.ts)}

Response(cursor) == FirstOf(FromTime(cursor), RequestLimit)

(* recordFingerprint: the time and the values, not which copy it is; the   *)
(* occurrence counts the copies up to it.                                  *)
Same(a, b) == a.ts = b.ts /\ a.value = b.value

Occurrence(r, S) == Cardinality({x \in S : Same(x, r) /\ ~RecordBefore(r, x)})

(* The boundary: the record with the cursor's fingerprint and occurrence.  *)
Boundary(S, cursor) == {r \in S : Same(r, cursor) /\ Occurrence(r, S) = cursor.occurrence}

CursorAt(r, S) ==
    [kind |-> "upstream", ts |-> r.ts, value |-> r.value, occurrence |-> Occurrence(r, S)]

(* mapHistoryPage: the records behind the boundary; nothing if the cursor  *)
(* or the response is invalid.                                             *)
PageOf(S, behind) ==
    LET items == FirstOf(behind, PageLimit)
        next == IF items # behind THEN CursorAt(LastOf(items), S) ELSE NoCursor
    IN  IF items = {} THEN {} ELSE {[items |-> items, seen |-> history, next |-> next]}

MappedPage(cursor) ==
    LET S == Response(cursor)
    IN  IF cursor = NoCursor THEN PageOf(S, S)
        ELSE UNION {PageOf(S, Later(r, S)) : r \in Boundary(S, cursor)}

EmptyPage == [items |-> {}, next |-> NoCursor, seen |-> history]

-----------------------------------------------------------------------------
(* A page reaches the reader.                                              *)
Collect(kind, page) ==
    walk' = [kind |-> IF page.next = NoCursor THEN "done" ELSE kind, next |-> page.next,
             got |-> walk.got \cup page.items, pages |-> walk.pages + 1,
             early |-> walk.early \cup {x \in page.items : \E y \in walk.got : ~RecordBefore(y, x)},
             common |-> IF walk.kind = "begun" THEN page.seen ELSE walk.common \cap page.seen]

Asks(kinds) == walk.kind \in kinds /\ walk.pages < MaxPages

(* A new walk of the same query.                                           *)
Begin ==
    /\ walk.kind \in {"idle", "done", "failed"}
    /\ walk' = NewWalk("begun")
    /\ UNCHANGED <<history, rows, cached>>

(* The page of the cursor is in the cache.                                 *)
PageFromCache ==
    /\ Asks({"begun", "upstream"})
    /\ \E c \in cached : c.cursor = walk.next /\ Collect("upstream", c.page)
    /\ UNCHANGED <<history, rows, cached>>

(* The row of a time, without its values.                                  *)
Row(t) == [ts |-> t, value |-> 0, copy |-> 1]

(* The page is fetched, mapped, stored and cached.                         *)
PageFromUpstream ==
    /\ Asks({"begun", "upstream"}) /\ ~\E c \in cached : c.cursor = walk.next
    /\ \E page \in IF Response(walk.next) = {} THEN {EmptyPage} ELSE MappedPage(walk.next) :
          /\ Collect("upstream", page)
          /\ cached' = cached \cup {[cursor |-> walk.next, page |-> page]}
    /\ rows' = rows \cup {Row(r.ts) : r \in Response(walk.next)}
    /\ UNCHANGED history

(* Stored pages are cut between times; their cursor is a time.             *)
StoredRows(cursor) == {r \in rows : cursor = NoCursor \/ TimeBefore(cursor.ts, r.ts)}

StoredPage(cursor) ==
    LET behind == StoredRows(cursor)
        items == FirstOf(behind, PageLimit)
    IN  [items |-> items, seen |-> rows,
         next |-> IF items # behind THEN [kind |-> "stored", ts |-> LastOf(items).ts] ELSE NoCursor]

(* The first page cannot be fetched: the database answers, if it has any   *)
(* reading, or the coverage of a range without one.                        *)
FallBack ==
    /\ Asks({"begun"}) /\ ~\E c \in cached : c.cursor = walk.next
    /\ Collect("stored", StoredPage(NoCursor))
    /\ UNCHANGED <<history, rows, cached>>

(* A page behind a stored one is always a stored one.                      *)
PageFromStore ==
    /\ Asks({"stored"})
    /\ Collect("stored", StoredPage(walk.next))
    /\ UNCHANGED <<history, rows, cached>>

(* The page can be had from nowhere.                                       *)
PageFails ==
    /\ Asks({"begun", "upstream"}) /\ ~\E c \in cached : c.cursor = walk.next
    /\ walk.kind = "begun" => rows = {}
    /\ walk' = [walk EXCEPT !.kind = "failed"]
    /\ UNCHANGED <<history, rows, cached>>

-----------------------------------------------------------------------------
(* A reading arrives, on time or late: copies of a record are numbered as  *)
(* they come.  Entries of the cache expire; retention deletes the oldest   *)
(* reading.                                                                *)
Numbered(S) == \A r \in S : \A c \in 1 .. r.copy : [r EXCEPT !.copy = c] \in S

Arrive(r) ==
    /\ r \notin history /\ Numbered(history \cup {r})
    /\ history' = history \cup {r}
    /\ UNCHANGED <<rows, cached, walk>>

Expire ==
    /\ \E c \in cached : cached' = cached \ {c}
    /\ UNCHANGED <<history, rows, walk>>

PruneHistory ==
    /\ \E r \in rows : (\A x \in rows : r.ts <= x.ts) /\ rows' = rows \ {r}
    /\ UNCHANGED <<history, cached, walk>>

PageStep == Begin \/ PageFromCache \/ PageFromUpstream \/ FallBack \/ PageFromStore \/ PageFails

HistoryNext == PageStep \/ (\E r \in Records : Arrive(r)) \/ Expire \/ PruneHistory

HistorySpec ==
    /\ \E S \in SUBSET Records : IsFiniteSet(S) /\ Numbered(S) /\ HistoryInit(S)
    /\ [][HistoryNext]_historyVars

-----------------------------------------------------------------------------
(* A walk that ends has collected everything that was there when each of   *)
(* its pages was fetched, once and in order, as long as no time has more   *)
(* records than a page: from a cache older than the walk, across readings  *)
(* that share a time, and while late readings move the pages.              *)
Sparse == \A r \in history : Cardinality({s \in history : s.ts = r.ts}) <= PageLimit

WalkIsComplete == walk.kind = "done" /\ Sparse => walk.common \subseteq walk.got /\ walk.early = {}
=============================================================================
