--------------------------- MODULE SourceRegistry ---------------------------
(***************************************************************************)
(* The registry of data sources: creation with its farm, plot and          *)
(* stations, import of stations, sharing with other accounts, removal      *)
(* (src/backend/src/data-sources/data-source.service.ts and                *)
(* data-source.repository.ts).  Creation, import and removal run           *)
(* SERIALIZABLE, creation and import after calls to the upstream; the      *)
(* changes of a share run READ COMMITTED.                                  *)
(***************************************************************************)
EXTENDS AccessTables

Live(s) == source[s].state = "live"

(* A farmer sees the farms he is a member of, an admin every farm.         *)
SeesFarm(p, farm) == farm \in farms /\ (p.role = "FARMER" => <<p.user, farm>> \in membership)

ByName(q, choice) == choice \in request[q].named

(* requireHierarchyAccess: the farm and the plot are there, or named.      *)
HierarchyAccess(p, farm, plot, named) ==
    \/ SeesFarm(p, farm) /\ ("plot" \in named \/ plot \in plots)
    \/ farm \notin farms /\ named = {"farm", "plot"}

(* DataSourceService.create: the hierarchy is checked, then the upstream   *)
(* lists the soil stations it has.                                         *)
DiscoverSource(q, plot, named, codes) ==
    /\ Enters(q, "createSource")
    /\ HierarchyAccess(request[q].by, FarmOf[plot], plot, named)
    /\ codes # {}
    /\ request' = [request EXCEPT ![q].at = "createSource", ![q].farm = FarmOf[plot],
                                  ![q].plot = plot, ![q].named = named, ![q].codes = codes]
    /\ UNCHANGED <<accounts, hierarchy, membership, clientGrant, key, sharing>>

(* resolveFarm: a named farm that is not there is created, and its farmer  *)
(* made a member.                                                          *)
ResolveFarm(q) ==
    LET p == request[q].by
        farm == request[q].farm
    IN  \/ SeesFarm(p, farm) /\ UNCHANGED <<farms, membership>>
        \/ /\ ByName(q, "farm") /\ farm \notin farms
           /\ farms' = farms \cup {farm}
           /\ membership' = IF p.role = "FARMER" THEN membership \cup {<<p.user, farm>>}
                            ELSE membership

(* resolvePlot: a named plot is created if it is not there.                *)
ResolvePlot(q) ==
    /\ ByName(q, "plot") \/ request[q].plot \in plots
    /\ plots' = plots \cup {request[q].plot}

(* The stations of the plot that belong to SYSTEM and have one of the      *)
(* codes: the new source takes them over, with the grants they have.       *)
TakenOver(plot, codes) ==
    {st \in StationsOf(System) : station[st].plot = plot /\ station[st].code \in codes}

CodesIn(stations) == {station[st].code : st \in stations}

(* A station row for each of the codes, which no row of s has yet.         *)
NewRows(stations, codes) ==
    {rows \in [codes -> {st \in stations : station[st].source = None}] :
        \A c, d \in codes : rows[c] = rows[d] => c = d}

(* The station rows with these added to a source on a plot.                *)
WithRows(rows, s, plot) ==
    [st \in Stations |->
        IF \E c \in DOMAIN rows : rows[c] = st
        THEN [source |-> s, plot |-> plot, code |-> CHOOSE c \in DOMAIN rows : rows[c] = st]
        ELSE station[st]]

(* The demo registry (seed-station-demo.ts): the SYSTEM stations a         *)
(* deployment starts with, all on one plot.                                *)
SeedStations(plot) ==
    LET present == StationsOf(System)
    IN  /\ \A st \in present : station[st].plot = plot
        /\ farms' = farms \cup {FarmOf[plot]} /\ plots' = plots \cup {plot}
        /\ \E rows \in NewRows(Stations, Codes \ CodesIn(present)) :
              station' = WithRows(rows, System, plot)
        /\ UNCHANGED <<accounts, membership, clientGrant, key, sharing, request>>

(* createTransaction.                                                      *)
CreateSource(q, s) ==
    LET plot == request[q].plot
        taken == TakenOver(plot, request[q].codes)
    IN  /\ Continues(q, "createSource")
        /\ source[s].state = "unused"
        /\ ResolveFarm(q) /\ ResolvePlot(q)
        /\ source' = [source EXCEPT ![s] = [owner |-> request[q].by.user, state |-> "live"]]
        /\ \E rows \in NewRows(Stations, request[q].codes \ CodesIn(taken)) :
              station' = [st \in Stations |-> IF st \in taken
                                              THEN [station[st] EXCEPT !.source = s]
                                              ELSE WithRows(rows, s, plot)[st]]
        /\ Done(q)
        /\ UNCHANGED <<accounts, clientGrant, key, grant, share>>

(* requireGrantMutation: the source is live and the requester owns it, the *)
(* target is another active farmer or client developer.                    *)
GrantMutation(q, s, u) ==
    /\ Live(s) /\ source[s].owner = request[q].by.user
    /\ user[u].role \in {"FARMER", "CLIENT_DEVELOPER"} /\ user[u].status = "ACTIVE"
    /\ u # source[s].owner

(* The first step of a change of a share keeps what it has read.           *)
Reads(q, step, s, u, stations) ==
    /\ request' = [request EXCEPT ![q].at = step, ![q].source = s, ![q].user = u,
                                  ![q].stations = stations]
    /\ UNCHANGED <<accounts, hierarchy, membership, clientGrant, key, sharing>>

(* setGrant reads the stations of the source before it replaces the grant, *)
(* whoever asks for it.                                                    *)
ReadSourceStations(q, s, u) ==
    /\ Enters(q, "grant")
    /\ StationsOf(s) # {}
    /\ Reads(q, "grant", s, u, StationsOf(s))

(* The stations a share of s may have.  Mutant: they are looked up by id   *)
(* alone.                                                                  *)
StationsById(s) == {st \in Stations : station[st].source # None}

SharedStations(s) == StationsOf(s)

(* replaceGrantStations, with these stations or with those setGrant read:  *)
(* the checks ...                                                          *)
CheckGrantStations(q, s, u, stations) ==
    /\ \/ Enters(q, "setGrantStations")
       \/ Continues(q, "grant") /\ request[q].source = s /\ request[q].user = u
                                /\ request[q].stations = stations
    /\ GrantMutation(q, s, u)
    /\ stations # {} /\ stations \subseteq SharedStations(s)
    /\ Reads(q, "setGrantStations", s, u, stations)

(* ... and the writes.                                                     *)
ReplaceGrantStations(q) ==
    LET s == request[q].source
        u == request[q].user
    IN  /\ Continues(q, "setGrantStations")
        /\ grant' = grant \cup {<<s, u>>}
        /\ share' = {h \in share : h[1] # s \/ h[2] # u}
                    \cup {<<s, u, st>> : st \in request[q].stations}
        /\ Done(q)
        /\ UNCHANGED <<accounts, hierarchy, membership, clientGrant, key, source>>

(* setGrant of FALSE: the grant goes, and its stations with it.            *)
FindGrant(q, s, u) ==
    /\ Enters(q, "revoke")
    /\ GrantMutation(q, s, u)
    /\ Reads(q, "revoke", s, u, {})

GrantDeleted(s, u) ==
    /\ grant' = grant \ {<<s, u>>}
    /\ share' = {h \in share : h[1] # s \/ h[2] # u}

RevokeGrant(q) ==
    /\ Continues(q, "revoke")
    /\ GrantDeleted(request[q].source, request[q].user)
    /\ Done(q)
    /\ UNCHANGED <<accounts, hierarchy, membership, clientGrant, key, source>>

(* removeGrantStation: one station goes, and if no other remains then,     *)
(* the grant ...                                                           *)
RemainingStations(q, s, u, st) ==
    /\ Enters(q, "revokeGrantStation")
    /\ GrantMutation(q, s, u)
    /\ st \in StationsOf(s)
    /\ request' = [request EXCEPT ![q].at = "revokeGrantStation", ![q].source = s, ![q].user = u,
                      ![q].station = st,
                      ![q].stations = {x \in Stations \ {st} : <<s, u, x>> \in share}]
    /\ UNCHANGED <<accounts, hierarchy, membership, clientGrant, key, sharing>>

(* ... whatever has been added since.                                      *)
RemoveGrantStation(q) ==
    LET s == request[q].source
        u == request[q].user
    IN  /\ Continues(q, "revokeGrantStation")
        /\ \/ request[q].stations = {} /\ GrantDeleted(s, u)
           \/ /\ request[q].stations # {}
              /\ share' = share \ {<<s, u, request[q].station>>}
              /\ UNCHANGED grant
        /\ Done(q)
        /\ UNCHANGED <<accounts, hierarchy, membership, clientGrant, key, source>>

(* DataSourceService.importStations: the owner's live source is found, and *)
(* the upstream still has the chosen codes.                                *)
DiscoverNodes(q, s, codes) ==
    /\ Enters(q, "importStations")
    /\ Live(s) /\ source[s].owner = request[q].by.user
    /\ codes # {}
    /\ request' = [request EXCEPT ![q].at = "importStations", ![q].source = s, ![q].codes = codes]
    /\ UNCHANGED <<accounts, hierarchy, membership, clientGrant, key, sharing>>

(* What the import finds under its lock.  Mutant: that the source is live  *)
(* was checked before the call to the upstream.                            *)
OwnedBefore(q, s) == source[s].owner = request[q].by.user

StillOwned(q, s) == Live(s) /\ source[s].owner = request[q].by.user

(* Its transaction, which locks the source and checks it again: the codes  *)
(* it lacks are added on the one plot of the source.                       *)
ImportStations(q) ==
    LET s == request[q].source
        new == request[q].codes \ CodesIn(StationsOf(s))
    IN  /\ Continues(q, "importStations")
        /\ StillOwned(q, s)
        /\ \/ new = {} /\ UNCHANGED station
           \/ /\ new # {}
              /\ \E plot \in Plots : \E rows \in NewRows(Stations, new) :
                   /\ {station[st].plot : st \in StationsOf(s)} = {plot}
                   /\ station' = WithRows(rows, s, plot)
        /\ Done(q)
        /\ UNCHANGED <<accounts, farms, plots, membership, clientGrant, key, sharing>>

(* remove; its effects on rules and alerts are in AlertLifecycle.          *)
RemoveSource(q, s) ==
    /\ Enters(q, "remove")
    /\ Live(s) /\ source[s].owner = request[q].by.user
    /\ source' = [source EXCEPT ![s].state = "removed"]
    /\ grant' = {g \in grant : g[1] # s}
    /\ share' = {h \in share : h[1] # s}
    /\ Done(q)
    /\ UNCHANGED <<accounts, hierarchy, membership, clientGrant, key>>

(* A source as toDto shows it to a principal: whether the row of its owner *)
(* is one a source can have, what it may read and manage.                  *)
ValidOwner(s) == user[source[s].owner].role \in {"ADMIN", "FARMER"}

(* list and get: the sources of which toDto makes an item for p.           *)
Listed(p) == {s \in Sources : Live(s) /\ (p.role = "ADMIN" \/ source[s].owner = p.user
                                          \/ <<s, p.user>> \in grant)}

RegistryStep(q) ==
    \/ \E plot \in Plots : \E named \in SUBSET {"farm", "plot"} : \E codes \in SUBSET Codes :
         DiscoverSource(q, plot, named, codes)
    \/ \E s \in Sources : CreateSource(q, s) \/ RemoveSource(q, s)
    \/ \E s \in Sources : \E codes \in SUBSET Codes : DiscoverNodes(q, s, codes)
    \/ \E s \in Sources : \E u \in Users :
         \/ ReadSourceStations(q, s, u) \/ FindGrant(q, s, u)
         \/ \E st \in Stations : RemainingStations(q, s, u, st)
         \/ \E stations \in SUBSET Stations : CheckGrantStations(q, s, u, stations)
    \/ ReplaceGrantStations(q) \/ RevokeGrant(q) \/ RemoveGrantStation(q) \/ ImportStations(q)
=============================================================================
