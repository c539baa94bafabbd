---------------------------- MODULE AccessLists -----------------------------
(***************************************************************************)
(* What the rows of access open to their readers: the stations an account  *)
(* or a key may read, and the lists of farms, plots, stations, sources,    *)
(* grants, candidates and users, which a client walks page by page while   *)
(* the rows change.  Every page is a request of its own: it is authorised  *)
(* again, and its cursor names the last row of the page before.            *)
(***************************************************************************)
EXTENDS Access

CONSTANTS Rank,     \* the order of the lists: names or times of creation, and ids
          PageSize  \* limit

ASSUME ListAssumption ==
    /\ Rank \in [Farms \cup Plots \cup Stations \cup Sources \cup Users -> Nat]
    /\ \A x, y \in DOMAIN Rank : Rank[x] = Rank[y] => x = y
    /\ PageSize \in Nat \ {0}

VARIABLE walk  \* one client's walk of a list

listVars == <<vars, walk>>

(* What it has got, what it has got twice, and the rows that were in the   *)
(* list of each page so far.                                               *)
NoWalk == [at |-> "none", list |-> "none", by |-> None, of |-> None, next |-> None,
           got |-> {}, twice |-> {}, common |-> {}]

-----------------------------------------------------------------------------
(* stationReadScope: one boundary for hierarchy, readings and alerts.      *)
Readable(st) == station[st].source = System \/ (station[st].source \in Sources /\ Live(station[st].source))

OwnedBy(st, u) == station[st].source \in Sources /\ source[station[st].source].owner = u

SharedWith(st, u) == \E s \in Sources : <<s, u, st>> \in share

AdminReads(p, st) == p.super \/ station[st].source = System \/ OwnedBy(st, p.user)

FarmerReads(p, st) ==
    \/ station[st].source = System /\ <<p.user, FarmOf[station[st].plot]>> \in membership
    \/ OwnedBy(st, p.user)
    \/ SharedWith(st, p.user)

ReadScope(p) ==
    {st \in Stations : /\ Readable(st)
                       /\ \/ p.role = "ADMIN" /\ AdminReads(p, st)
                          \/ p.role = "FARMER" /\ FarmerReads(p, st)}

(* authenticateCredential: the account that a key speaks for, if both are  *)
(* good; and the stations of its scope that the account is still granted.  *)
KeyHolds(k) ==
    /\ key[k].state = "live"
    /\ user[key[k].owner].role = "CLIENT_DEVELOPER" /\ user[key[k].owner].status = "ACTIVE"

ClientStations(k) ==
    {st \in key[k].scope : Readable(st) /\ (<<key[k].owner, st>> \in clientGrant
                                            \/ SharedWith(st, key[k].owner))}

-----------------------------------------------------------------------------
(* The rows of each list for a principal.                                  *)
FarmsFor(p) == {FarmOf[station[st].plot] : st \in ReadScope(p)}

PlotsFor(p, farm) == {station[st].plot : st \in {x \in ReadScope(p) : FarmOf[station[x].plot] = farm}}

StationsFor(p, plot) == {st \in ReadScope(p) : station[st].plot = plot}

(* The grants of a source and the accounts it may be shared with are for   *)
(* its owner.                                                              *)
OwnsLive(p, s) == Live(s) /\ source[s].owner = p.user

GrantsOf(s) == {u \in Users : <<s, u>> \in grant}

Eligible == {u \in Users : user[u].status = "ACTIVE" /\ user[u].role \in {"FARMER", "CLIENT_DEVELOPER"}}

Candidates(s) == Eligible \ {source[s].owner}

AllUsers == {u \in Users : Exists(u)}

(* Whether a list is there for its reader: the parent is visible ...       *)
ListOpens(p, list, of) ==
    CASE list = "farms" -> p.role \in {"ADMIN", "FARMER"}
      [] list = "plots" -> p.role \in {"ADMIN", "FARMER"} /\ of \in FarmsFor(p)
      [] list = "stations" -> \E st \in ReadScope(p) : station[st].plot = of
      [] list = "sources" -> p.role \in {"ADMIN", "FARMER"}
      [] list \in {"grants", "candidates"} -> p.role \in {"ADMIN", "FARMER"} /\ OwnsLive(p, of)
      [] list = "users" -> p.role = "ADMIN"

(* ... its rows ...                                                        *)
RowsOf(p, list, of) ==
    CASE list = "farms" -> FarmsFor(p)
      [] list = "plots" -> PlotsFor(p, of)
      [] list = "stations" -> StationsFor(p, of)
      [] list = "sources" -> Listed(p)
      [] list = "grants" -> GrantsOf(of)
      [] list = "candidates" -> Candidates(of)
      [] list = "users" -> AllUsers

(* ... and whether a cursor still names a row: that of a hierarchy holds   *)
(* the position itself, the others look it up.                             *)
CursorHolds(list, of, cursor) ==
    CASE cursor = None -> TRUE
      [] list = "grants" -> cursor \in GrantsOf(of)
      [] list = "candidates" -> cursor \in Eligible
      [] OTHER -> TRUE

-----------------------------------------------------------------------------
(* The keyset page: the rows behind the cursor with fewer than a page of   *)
(* rows before them.  Mutant: it begins with the cursor's row.             *)
FromCursor(rows, cursor) == {x \in rows : cursor = None \/ Rank[x] >= Rank[cursor]}

Behind(rows, cursor) == {x \in rows : cursor = None \/ Rank[x] > Rank[cursor]}

Before(x, rows) == {y \in rows : Rank[y] < Rank[x]}

Front(rows) == {x \in rows : Cardinality(Before(x, rows)) < PageSize}

LastOf(rows) == CHOOSE x \in rows : \A y \in rows : Rank[y] <= Rank[x]

PageOf(rows, cursor) ==
    LET behind == Behind(rows, cursor)
    IN  [items |-> Front(behind),
         next |-> IF Front(behind) = behind THEN None ELSE LastOf(Front(behind))]

(* One page for the walk: a client asks for the page behind its cursor.    *)
Take(rows) ==
    LET page == PageOf(rows, walk.next)
    IN  walk' = [walk EXCEPT !.at = IF page.next = None THEN "done" ELSE "walking",
                             !.next = page.next, !.got = @ \cup page.items,
                             !.twice = @ \cup (walk.got \cap page.items),
                             !.common = IF walk.at = "begun" THEN rows ELSE @ \cap rows]

Refused == walk' = [walk EXCEPT !.at = "refused"]

(* A client opens a list; what each list is of, and who may ask for it.    *)
WalkOf(list, by, of) == [NoWalk EXCEPT !.at = "begun", !.list = list, !.by = by, !.of = of]

ParentsOf(list) ==
    CASE list = "plots" -> Farms
      [] list = "stations" -> Plots
      [] list \in {"grants", "candidates"} -> Sources
      [] OTHER -> {None}

BrowserLists == {"farms", "plots", "stations", "sources", "grants", "candidates", "users"}

Opened ==
    \/ \E list \in BrowserLists : \E u \in Users, of \in ParentsOf(list) : walk = WalkOf(list, u, of)
    \/ \E k \in Keys : walk = WalkOf("client stations", k, None)

(* The page of an account's list, or an error: the account is disabled,    *)
(* the list is not there for it or its cursor is invalid.                  *)
BrowserPage ==
    /\ walk.at \in {"begun", "walking"} /\ walk.list \in BrowserLists
    /\ LET p == PrincipalOf(walk.by)
       IN  \/ /\ user[walk.by].status = "ACTIVE" /\ ListOpens(p, walk.list, walk.of)
              /\ CursorHolds(walk.list, walk.of, walk.next)
              /\ Take(RowsOf(p, walk.list, walk.of))
           \/ /\ \/ user[walk.by].status # "ACTIVE" \/ ~ListOpens(p, walk.list, walk.of)
                 \/ ~CursorHolds(walk.list, walk.of, walk.next)
              /\ Refused

(* The page of a key's stations.                                           *)
ClientPage ==
    /\ walk.at \in {"begun", "walking"} /\ walk.list = "client stations"
    /\ \/ KeyHolds(walk.by) /\ Take(ClientStations(walk.by))
       \/ ~KeyHolds(walk.by) /\ Refused

ListStep == BrowserPage \/ ClientPage

(* The rows change between the pages of a walk, whenever it begins.        *)
ListInit == Init /\ (walk = NoWalk \/ Opened)

ListNext == (Next /\ UNCHANGED walk) \/ (ListStep /\ UNCHANGED vars)

ListSpec == ListInit /\ [][ListNext]_listVars

-----------------------------------------------------------------------------
(* A walk that ends has each row that was in the list of every page of it, *)
(* once, however the rows around the cursor came and went: accounts that   *)
(* changed roles, sources removed, stations imported, shares revoked.      *)
ListIsComplete == walk.at = "done" => walk.common \subseteq walk.got /\ walk.twice = {}
=============================================================================
