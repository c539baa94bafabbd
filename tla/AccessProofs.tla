---------------------------- MODULE AccessProofs ----------------------------
(***************************************************************************)
(* Proofs about Access, for any accounts, farms, sources, stations, keys   *)
(* and requests: the authority stands, admins are made by its holder only, *)
(* grants fit the role of who has them, shares the source they are of, a   *)
(* key is replaced once, a removed source stays as it is, and a list that  *)
(* is walked page by page has each of its rows once.                       *)
(***************************************************************************)
EXTENDS AccessLists, FiniteSetTheorems, WellFoundedInduction, TLAPS

Tables == <<accounts, hierarchy, membership, clientGrant, key, sharing>>

(* A request that has done its first step names the rows it has found.     *)
RequestsAreWhole ==
    \A q \in Requests : request[q] # None =>
        /\ request[q].at = "transfer" => request[q].user \in Users
        /\ request[q].at \in {"rotate", "revokeKey"} => request[q].key \in Keys
        /\ request[q].at = "createSource" =>
             request[q].plot \in Plots /\ request[q].farm \in Farms
        /\ request[q].at \in {"grant", "setGrantStations", "revoke", "revokeGrantStation"} =>
             request[q].source \in Sources /\ request[q].user \in Users
        /\ request[q].at = "importStations" => request[q].source \in Sources

(* The types of the tables, without the requests.                          *)
TablesOK ==
    /\ user \in [Users -> User]
    /\ holder \in Users \cup {None}
    /\ farms \subseteq Farms /\ plots \subseteq Plots
    /\ membership \subseteq FarmMembership
    /\ clientGrant \subseteq ClientStationGrant
    /\ key \in [Keys -> Key]
    /\ source \in [Sources -> Source]
    /\ station \in [Stations -> Station]
    /\ grant \subseteq DataSourceGrant
    /\ share \subseteq DataSourceGrantStation

RequestsOK == request \in [Requests -> Request \cup {None}] /\ RequestsAreWhole

TypeInv == TablesOK /\ RequestsOK

-----------------------------------------------------------------------------
(* What each kind of step leaves as it is.                                 *)

LEMMA AccountFrame ==
    ASSUME NEW q, AccountStep(q) PROVE UNCHANGED <<hierarchy, source>>
BY DEF AccountStep, CreateUser, UpdateUser, RequestDeletion, ResetPassword, StartTransfer,
       SetFarmMembership, SetStationGrant, Transfer, accounts, hierarchy, sharing

LEMMA KeyFrame ==
    ASSUME NEW q, KeyStep(q)
    PROVE  UNCHANGED <<accounts, hierarchy, membership, clientGrant, sharing>>
BY DEF KeyStep, CheckKeyGrants, CreateKey, ReadKey, Rotate, FindKey, RevokeKey

LEMMA RegistryFrame ==
    ASSUME NEW q, RegistryStep(q) PROVE UNCHANGED <<accounts, clientGrant, key>>
<1>1. ASSUME NEW s \in Sources, NEW u \in Users,
             \/ ReadSourceStations(q, s, u) \/ FindGrant(q, s, u)
             \/ \E st \in Stations : RemainingStations(q, s, u, st)
             \/ \E stations \in SUBSET Stations : CheckGrantStations(q, s, u, stations)
      PROVE  UNCHANGED <<accounts, clientGrant, key>>
  BY <1>1 DEF ReadSourceStations, FindGrant, RemainingStations, CheckGrantStations, Reads, sharing
<1>2. ASSUME NEW s \in Sources, \/ CreateSource(q, s) \/ RemoveSource(q, s)
                                \/ \E codes \in SUBSET Codes : DiscoverNodes(q, s, codes)
      PROVE  UNCHANGED <<accounts, clientGrant, key>>
  BY <1>2 DEF CreateSource, RemoveSource, DiscoverNodes, sharing
<1>3. ASSUME \/ ReplaceGrantStations(q) \/ RevokeGrant(q) \/ RemoveGrantStation(q) \/ ImportStations(q)
             \/ \E plot \in Plots : \E named \in SUBSET {"farm", "plot"} : \E codes \in SUBSET Codes :
                  DiscoverSource(q, plot, named, codes)
      PROVE  UNCHANGED <<accounts, clientGrant, key>>
  BY <1>3 DEF ReplaceGrantStations, RevokeGrant, RemoveGrantStation, ImportStations, DiscoverSource, sharing
<1> QED BY <1>1, <1>2, <1>3 DEF RegistryStep

LEMMA UpkeepFrame ==
    ASSUME Upkeep PROVE UNCHANGED <<hierarchy, source, request>>
BY DEF Upkeep, Bootstrap, ChangePassword, Recover, Retention, NinetyDaysPass, sharing

LEMMA SeedFrame ==
    ASSUME NEW plot, SeedStations(plot)
    PROVE  UNCHANGED <<accounts, membership, clientGrant, key, sharing, request>>
BY DEF SeedStations

(* A request that begins or fails changes nothing else.                    *)
LEMMA QuietFrame ==
    ASSUME NEW q, (\E u \in Users : Authenticate(q, u)) \/ Fail(q)
    PROVE  UNCHANGED Tables
BY DEF Authenticate, Fail, Tables

-----------------------------------------------------------------------------
(* Types.                                                                  *)

LEMMA TablesStay == ASSUME TablesOK, UNCHANGED Tables PROVE TablesOK'
BY DEF TablesOK, Tables, accounts, hierarchy, sharing

LEMMA DoneTyped == ASSUME RequestsOK, NEW q \in Requests, Done(q) PROVE RequestsOK'
BY DEF RequestsOK, RequestsAreWhole, Done

LEMMA RequestsStay == ASSUME RequestsOK, UNCHANGED request PROVE RequestsOK'
BY DEF RequestsOK, RequestsAreWhole

(* The first step of a handler fills in what it has read.                  *)
LEMMA FilledTyped ==
    ASSUME RequestsOK, NEW q \in Requests, NEW x \in Request,
           request' = [request EXCEPT ![q] = x],
           x.at = "transfer" => x.user \in Users,
           x.at \in {"rotate", "revokeKey"} => x.key \in Keys,
           x.at = "createSource" => x.plot \in Plots /\ x.farm \in Farms,
           x.at \in {"grant", "setGrantStations", "revoke", "revokeGrantStation"} =>
             x.source \in Sources /\ x.user \in Users,
           x.at = "importStations" => x.source \in Sources
    PROVE  RequestsOK'
BY DEF RequestsOK, RequestsAreWhole

LEMMA AccountStepTyped ==
    ASSUME TypeInv, NEW q \in Requests, AccountStep(q) PROVE TypeInv'
<1> USE DEF TypeInv
<1>1. ASSUME NEW u \in Users, NEW role \in Roles, CreateUser(q, u, role) PROVE TypeInv'
  <2>1. TablesOK'
    BY <1>1 DEF CreateUser, TablesOK, User, Roles, Statuses, accounts, hierarchy, sharing
  <2> QED BY <1>1, <2>1, DoneTyped DEF CreateUser
<1>2. ASSUME NEW u \in Users, NEW role \in Roles, NEW status \in Statuses,
             UpdateUser(q, u, role, status)
      PROVE  TypeInv'
  <2>1. user' \in [Users -> User]
    BY ZenonT(60), <1>2 DEF UpdateUser, TablesOK, User
  <2>3. key' \in [Keys -> Key]
    BY <1>2 DEF UpdateUser, KeysRevokedFor, TablesOK, Key
  <2>2. /\ membership' \subseteq membership /\ clientGrant' \subseteq clientGrant
        /\ grant' \subseteq grant /\ share' \subseteq share
    BY <1>2 DEF UpdateUser, RoleChanges, GrantsGoFor, WithoutUser
  <2>4. TablesOK'
    BY <1>2, <2>1, <2>2, <2>3 DEF UpdateUser, TablesOK, hierarchy
  <2> QED BY <1>2, <2>4, DoneTyped DEF UpdateUser
<1>3. ASSUME NEW u \in Users, RequestDeletion(q, u) PROVE TypeInv'
  <2>1. user' \in [Users -> User] /\ key' \in [Keys -> Key]
    BY <1>3 DEF RequestDeletion, KeysRevokedFor, TablesOK, User, Key, Statuses
  <2>2. TablesOK'
    BY <1>3, <2>1 DEF RequestDeletion, TablesOK, GrantsGoFor, WithoutUser, hierarchy
  <2> QED BY <1>3, <2>2, DoneTyped DEF RequestDeletion
<1>4. ASSUME NEW u \in Users, ResetPassword(q, u) PROVE TypeInv'
  <2>1. TablesOK'
    BY <1>4 DEF ResetPassword, TablesOK, User, Statuses, hierarchy, sharing
  <2> QED BY <1>4, <2>1, DoneTyped DEF ResetPassword
<1>5. ASSUME NEW u \in Users, StartTransfer(q, u) PROVE TypeInv'
  <2> DEFINE x == [request[q] EXCEPT !.at = "transfer", !.user = u]
  <2>1. request[q] \in Request /\ request' = [request EXCEPT ![q] = x]
    BY <1>5 DEF StartTransfer, Enters, RequestsOK
  <2>3. x \in Request /\ x.at = "transfer" /\ x.user = u
    BY <2>1 DEF Request, Steps
  <2> HIDE DEF x
  <2>2. RequestsOK' BY <2>1, <2>3, FilledTyped
  <2> QED BY <1>5, <2>2, TablesStay DEF StartTransfer, Tables
<1>6. ASSUME NEW u \in Users, NEW farm \in Farms, NEW assigned \in BOOLEAN,
             SetFarmMembership(q, u, farm, assigned)
      PROVE  TypeInv'
  <2>1. TablesOK'
    BY <1>6 DEF SetFarmMembership, TablesOK, FarmMembership, accounts, hierarchy, sharing
  <2> QED BY <1>6, <2>1, DoneTyped DEF SetFarmMembership
<1>7. ASSUME NEW u \in Users, NEW st \in Stations, NEW assigned \in BOOLEAN,
             SetStationGrant(q, u, st, assigned)
      PROVE  TypeInv'
  <2>1. key' \in [Keys -> Key]
    BY <1>7 DEF SetStationGrant, TablesOK, Key
  <2>2. TablesOK'
    BY <1>7, <2>1 DEF SetStationGrant, TablesOK, ClientStationGrant, accounts, hierarchy, sharing
  <2> QED BY <1>7, <2>2, DoneTyped DEF SetStationGrant
<1>8. ASSUME Transfer(q) PROVE TypeInv'
  <2>1. holder' \in Users
    BY <1>8 DEF Transfer, Continues, RequestsOK, RequestsAreWhole
  <2>2. TablesOK' BY <1>8, <2>1 DEF Transfer, TablesOK, hierarchy, sharing
  <2> QED BY <1>8, <2>2, DoneTyped DEF Transfer
<1> QED BY <1>1, <1>2, <1>3, <1>4, <1>5, <1>6, <1>7, <1>8 DEF AccountStep

LEMMA KeyStepTyped ==
    ASSUME TypeInv, NEW q \in Requests, KeyStep(q) PROVE TypeInv'
<1> USE DEF TypeInv
<1>1. ASSUME NEW stations \in SUBSET Stations, CheckKeyGrants(q, stations) PROVE TypeInv'
  <2> DEFINE x == [request[q] EXCEPT !.at = "createKey", !.stations = stations]
  <2>1. request[q] \in Request /\ request' = [request EXCEPT ![q] = x]
    BY <1>1 DEF CheckKeyGrants, Enters, RequestsOK
  <2>2. x \in Request /\ x.at = "createKey"
    BY <2>1 DEF Request, Steps
  <2> HIDE DEF x
  <2>3. RequestsOK' BY <2>1, <2>2, FilledTyped
  <2> QED BY <1>1, <2>3, TablesStay DEF CheckKeyGrants, Tables
<1>2. ASSUME NEW k \in Keys, CreateKey(q, k) PROVE TypeInv'
  <2>1. request[q] \in Request BY <1>2 DEF CreateKey, Continues, RequestsOK
  <2>2. NewKey(request[q].by.user, request[q].stations, None) \in Key
    BY <2>1 DEF NewKey, Key, Request, Principal
  <2>3. TablesOK'
    BY <1>2, <2>2 DEF CreateKey, TablesOK, accounts, hierarchy, sharing
  <2> QED BY <1>2, <2>3, DoneTyped DEF CreateKey
<1>3. ASSUME NEW k \in Keys, ReadKey(q, k) PROVE TypeInv'
  <2> DEFINE x == [request[q] EXCEPT !.at = "rotate", !.key = k, !.stations = key[k].scope]
  <2>1. request[q] \in Request /\ request' = [request EXCEPT ![q] = x]
    BY <1>3 DEF ReadKey, Enters, RequestsOK
  <2>2. key[k].scope \in SUBSET Stations BY DEF TablesOK, Key
  <2>3. x \in Request /\ x.at = "rotate" /\ x.key = k
    BY <2>1, <2>2 DEF Request, Steps
  <2> HIDE DEF x
  <2>4. RequestsOK' BY <2>1, <2>3, FilledTyped
  <2> QED BY <1>3, <2>4, TablesStay DEF ReadKey, Tables
<1>4. ASSUME NEW k \in Keys, Rotate(q, k) PROVE TypeInv'
  <2>1. request[q] \in Request /\ request[q].key \in Keys
    BY <1>4 DEF Rotate, Continues, RequestsOK, RequestsAreWhole
  <2>2. NewKey(request[q].by.user, request[q].stations, request[q].key) \in Key
    BY <2>1 DEF NewKey, Key, Request, Principal
  <2>3. key' \in [Keys -> Key]
    <3> DEFINE old == request[q].key
               new == NewKey(request[q].by.user, request[q].stations, old)
               revoked == [key[old] EXCEPT !.state = "revoked"]
    <3>1. key' = [key EXCEPT ![old] = revoked, ![k] = new] BY <1>4, <2>1 DEF Rotate, TablesOK
    <3>2. key[old] \in Key /\ new \in Key BY <2>1, <2>2 DEF TablesOK
    <3>3. revoked \in Key BY ZenonT(60), <3>2 DEF Key
    <3> HIDE DEF new, revoked
    <3> QED BY <2>1, <3>1, <3>2, <3>3 DEF TablesOK
  <2>4. TablesOK'
    BY <1>4, <2>3 DEF Rotate, TablesOK, accounts, hierarchy, sharing
  <2> QED BY <1>4, <2>4, DoneTyped DEF Rotate
<1>5. ASSUME NEW k \in Keys, FindKey(q, k) PROVE TypeInv'
  <2> DEFINE x == [request[q] EXCEPT !.at = "revokeKey", !.key = k]
  <2>1. request[q] \in Request /\ request' = [request EXCEPT ![q] = x]
    BY <1>5 DEF FindKey, Enters, RequestsOK
  <2>2. x \in Request /\ x.at = "revokeKey" /\ x.key = k
    BY <2>1 DEF Request, Steps
  <2> HIDE DEF x
  <2>3. RequestsOK' BY <2>1, <2>2, FilledTyped
  <2> QED BY <1>5, <2>3, TablesStay DEF FindKey, Tables
<1>6. ASSUME RevokeKey(q) PROVE TypeInv'
  <2>1. key' \in [Keys -> Key]
    <3> DEFINE k == request[q].key
    <3>1. CASE key' = key BY <3>1 DEF TablesOK
    <3>2. CASE key' = [key EXCEPT ![k].state = "revoked"] BY ZenonT(60), <3>2 DEF TablesOK, Key
    <3> QED BY <1>6, <3>1, <3>2 DEF RevokeKey
  <2>2. TablesOK' BY <1>6, <2>1 DEF RevokeKey, TablesOK, accounts, hierarchy, sharing
  <2> QED BY <1>6, <2>2, DoneTyped DEF RevokeKey
<1> QED BY <1>1, <1>2, <1>3, <1>4, <1>5, <1>6 DEF KeyStep

LEMMA UpkeepTyped == ASSUME TypeInv, Upkeep PROVE TypeInv'
<1> USE DEF TypeInv, TablesOK
<1>1. ASSUME NEW u \in Users, Bootstrap(u) PROVE TypeInv'
  BY <1>1, RequestsStay DEF Bootstrap, hierarchy, sharing, User, Roles, Statuses
<1>2. ASSUME NEW u \in Users, ChangePassword(u) PROVE TypeInv'
  BY <1>2, RequestsStay DEF ChangePassword, hierarchy, sharing, User, Statuses
<1>3. ASSUME Recover PROVE TypeInv'
  BY <1>3, RequestsStay DEF Recover, hierarchy, sharing, User, Statuses
<1>4. ASSUME Retention PROVE TypeInv'
  <2>1. user' \in [Users -> User] BY <1>4 DEF Retention, User, Statuses
  <2>2. key' \in [Keys -> Key] BY ZenonT(60), <1>4 DEF Retention, Key
  <2> QED BY <1>4, <2>1, <2>2, RequestsStay DEF Retention, hierarchy
<1>5. ASSUME NinetyDaysPass PROVE TypeInv'
  <2>1. user' \in [Users -> User] BY <1>5 DEF NinetyDaysPass, User
  <2>2. key' \in [Keys -> Key]
    <3> SUFFICES ASSUME NEW k \in Keys PROVE key'[k] \in Key
      BY <1>5 DEF NinetyDaysPass
    <3> QED BY <1>5 DEF NinetyDaysPass, Key
  <2> QED BY <1>5, <2>1, <2>2, RequestsStay DEF NinetyDaysPass, hierarchy, sharing
<1> QED BY <1>1, <1>2, <1>3, <1>4, <1>5 DEF Upkeep

(* Rows that are added to a source are rows of the right sorts.            *)
LEMMA WithRowsTyped ==
    ASSUME TablesOK, NEW s \in Sources \cup {System}, NEW plot \in Plots,
           NEW codes \in SUBSET Codes, NEW rows \in NewRows(Stations, codes)
    PROVE  WithRows(rows, s, plot) \in [Stations -> Station]
<1>1. DOMAIN rows = codes BY DEF NewRows
<1> SUFFICES ASSUME NEW st \in Stations PROVE WithRows(rows, s, plot)[st] \in Station
  BY DEF WithRows
<1>2. CASE \E c \in DOMAIN rows : rows[c] = st
  <2>1. (CHOOSE c \in DOMAIN rows : rows[c] = st) \in Codes BY <1>1, <1>2
  <2> QED BY <1>2, <2>1 DEF WithRows, Station
<1>3. CASE ~\E c \in DOMAIN rows : rows[c] = st
  BY <1>3 DEF WithRows, TablesOK
<1> QED BY <1>2, <1>3

LEMMA SeedTyped == ASSUME TypeInv, NEW plot \in Plots, SeedStations(plot) PROVE TypeInv'
<1>1. TablesOK BY DEF TypeInv
<1>2. station' \in [Stations -> Station]
  BY SMTT(60), <1>1, WithRowsTyped DEF SeedStations
<1>3. farms' \subseteq Farms /\ plots' \subseteq Plots
  BY <1>1, AccessAssumption DEF SeedStations, TablesOK
<1> QED BY <1>1, <1>2, <1>3, SeedFrame, RequestsStay DEF TypeInv, TablesOK, accounts, sharing

(* The first steps on a source, which keep what they have read.            *)
LEMMA ReadsTyped ==
    ASSUME TypeInv, NEW q \in Requests, NEW s \in Sources, NEW u \in Users,
           NEW stations \in SUBSET Stations, request[q] # None,
           NEW step \in {"grant", "setGrantStations", "revoke"}, Reads(q, step, s, u, stations)
    PROVE  TypeInv'
<1> USE DEF TypeInv
<1> DEFINE x == [request[q] EXCEPT !.at = step, !.source = s, !.user = u, !.stations = stations]
<1>1. request[q] \in Request /\ request' = [request EXCEPT ![q] = x]
  BY DEF Reads, RequestsOK
<1>2. x \in Request /\ x.at = step /\ x.source = s /\ x.user = u
  BY ZenonT(60), <1>1 DEF Request, Steps
<1> HIDE DEF x
<1>3. RequestsOK' BY <1>1, <1>2, FilledTyped
<1> QED BY <1>3, TablesStay DEF Reads, Tables

LEMMA DiscoveriesTyped ==
    ASSUME TypeInv, NEW q \in Requests
    PROVE  /\ \A plot \in Plots : \A named \in SUBSET {"farm", "plot"} : \A codes \in SUBSET Codes :
                DiscoverSource(q, plot, named, codes) => TypeInv'
           /\ \A s \in Sources : \A codes \in SUBSET Codes : DiscoverNodes(q, s, codes) => TypeInv'
           /\ \A s \in Sources : \A u \in Users : \A st \in Stations :
                RemainingStations(q, s, u, st) => TypeInv'
<1> USE DEF TypeInv
<1>1. ASSUME NEW plot \in Plots, NEW named \in SUBSET {"farm", "plot"}, NEW codes \in SUBSET Codes,
             DiscoverSource(q, plot, named, codes)
      PROVE  TypeInv'
  <2> DEFINE x == [request[q] EXCEPT !.at = "createSource", !.farm = FarmOf[plot],
                                     !.plot = plot, !.named = named, !.codes = codes]
  <2>1. request[q] \in Request /\ request' = [request EXCEPT ![q] = x]
    BY <1>1 DEF DiscoverSource, Enters, RequestsOK
  <2>2. x \in Request /\ x.at = "createSource" /\ x.plot = plot /\ x.farm \in Farms
    BY <2>1, AccessAssumption DEF Request, Steps
  <2> HIDE DEF x
  <2>3. RequestsOK' BY <2>1, <2>2, FilledTyped
  <2> QED BY <1>1, <2>3, TablesStay DEF DiscoverSource, Tables
<1>2. ASSUME NEW s \in Sources, NEW codes \in SUBSET Codes, DiscoverNodes(q, s, codes)
      PROVE  TypeInv'
  <2> DEFINE x == [request[q] EXCEPT !.at = "importStations", !.source = s, !.codes = codes]
  <2>1. request[q] \in Request /\ request' = [request EXCEPT ![q] = x]
    BY <1>2 DEF DiscoverNodes, Enters, RequestsOK
  <2>2. x \in Request /\ x.at = "importStations" /\ x.source = s
    BY <2>1 DEF Request, Steps
  <2> HIDE DEF x
  <2>3. RequestsOK' BY <2>1, <2>2, FilledTyped
  <2> QED BY <1>2, <2>3, TablesStay DEF DiscoverNodes, Tables
<1>3. ASSUME NEW s \in Sources, NEW u \in Users, NEW st \in Stations, RemainingStations(q, s, u, st)
      PROVE  TypeInv'
  <2> DEFINE x == [request[q] EXCEPT !.at = "revokeGrantStation", !.source = s, !.user = u,
                     !.station = st, !.stations = {y \in Stations \ {st} : <<s, u, y>> \in share}]
  <2>1. request[q] \in Request /\ request' = [request EXCEPT ![q] = x]
    BY <1>3 DEF RemainingStations, Enters, RequestsOK
  <2>2. x \in Request /\ x.at = "revokeGrantStation" /\ x.source = s /\ x.user = u
    BY <2>1 DEF Request, Steps
  <2> HIDE DEF x
  <2>3. RequestsOK' BY <2>1, <2>2, FilledTyped
  <2> QED BY <1>3, <2>3, TablesStay DEF RemainingStations, Tables
<1> QED BY <1>1, <1>2, <1>3

LEMMA RegistryStepTyped ==
    ASSUME TypeInv, NEW q \in Requests, RegistryStep(q) PROVE TypeInv'
<1> USE DEF TypeInv
<1>1. ASSUME NEW s \in Sources, CreateSource(q, s) PROVE TypeInv'
  <2> DEFINE plot == request[q].plot
             codes == request[q].codes
  <2>1. /\ request[q] \in Request /\ plot \in Plots /\ request[q].farm \in Farms
        /\ codes \in SUBSET Codes /\ request[q].by.user \in Users
    BY <1>1 DEF CreateSource, Continues, RequestsOK, RequestsAreWhole, Request, Principal
  <2>2. station' \in [Stations -> Station]
    <3>1. PICK rows \in NewRows(Stations, codes \ CodesIn(TakenOver(plot, codes))) :
            station' = [st \in Stations |-> IF st \in TakenOver(plot, codes)
                                            THEN [station[st] EXCEPT !.source = s]
                                            ELSE WithRows(rows, s, plot)[st]]
      BY <1>1 DEF CreateSource
    <3>2. WithRows(rows, s, plot) \in [Stations -> Station]
      BY <2>1, WithRowsTyped
    <3>3. \A st \in Stations : [station[st] EXCEPT !.source = s] \in Station
      BY DEF TablesOK, Station
    <3> QED BY <3>1, <3>2, <3>3
  <2>3. source' \in [Sources -> Source]
    BY <1>1, <2>1 DEF CreateSource, TablesOK, Source
  <2>4. farms' \subseteq Farms /\ plots' \subseteq Plots /\ membership' \subseteq FarmMembership
    BY <1>1, <2>1 DEF CreateSource, ResolveFarm, ResolvePlot, TablesOK, FarmMembership
  <2>5. TablesOK'
    BY <1>1, <2>2, <2>3, <2>4 DEF CreateSource, TablesOK, accounts
  <2> QED BY <1>1, <2>5, DoneTyped DEF CreateSource
<1>2. ASSUME NEW s \in Sources, RemoveSource(q, s) PROVE TypeInv'
  <2>1. TablesOK'
    BY <1>2 DEF RemoveSource, TablesOK, Source, accounts, hierarchy
  <2> QED BY <1>2, <2>1, DoneTyped DEF RemoveSource
<1>3. ASSUME NEW s \in Sources, NEW u \in Users, ReadSourceStations(q, s, u) PROVE TypeInv'
  BY <1>3, ReadsTyped DEF ReadSourceStations, Enters, StationsOf
<1>4. ASSUME NEW s \in Sources, NEW u \in Users, FindGrant(q, s, u) PROVE TypeInv'
  BY <1>4, ReadsTyped DEF FindGrant, Enters
<1>5. ASSUME NEW s \in Sources, NEW u \in Users, NEW stations \in SUBSET Stations,
             CheckGrantStations(q, s, u, stations)
      PROVE  TypeInv'
  BY <1>5, ReadsTyped DEF CheckGrantStations, Enters, Continues
<1>6. ASSUME ReplaceGrantStations(q) PROVE TypeInv'
  <2>1. /\ request[q].source \in Sources /\ request[q].user \in Users
        /\ request[q].stations \subseteq Stations
    BY <1>6 DEF ReplaceGrantStations, Continues, RequestsOK, RequestsAreWhole, Request
  <2>2. TablesOK'
    BY <1>6, <2>1 DEF ReplaceGrantStations, TablesOK, DataSourceGrant, DataSourceGrantStation,
                      accounts, hierarchy
  <2> QED BY <1>6, <2>2, DoneTyped DEF ReplaceGrantStations
<1>7. ASSUME RevokeGrant(q) PROVE TypeInv'
  <2>1. TablesOK' BY <1>7 DEF RevokeGrant, GrantDeleted, TablesOK, accounts, hierarchy
  <2> QED BY <1>7, <2>1, DoneTyped DEF RevokeGrant
<1>8. ASSUME RemoveGrantStation(q) PROVE TypeInv'
  <2>1. TablesOK' BY <1>8 DEF RemoveGrantStation, GrantDeleted, TablesOK, accounts, hierarchy
  <2> QED BY <1>8, <2>1, DoneTyped DEF RemoveGrantStation
<1>9. ASSUME ImportStations(q) PROVE TypeInv'
  <2>1. request[q].source \in Sources /\ request[q].codes \in SUBSET Codes
    BY <1>9 DEF ImportStations, Continues, RequestsOK, RequestsAreWhole, Request
  <2>2. station' \in [Stations -> Station]
    BY <1>9, <2>1, WithRowsTyped DEF ImportStations, TablesOK
  <2>3. TablesOK' BY <1>9, <2>2 DEF ImportStations, TablesOK, accounts, sharing
  <2> QED BY <1>9, <2>3, DoneTyped DEF ImportStations
<1> QED BY <1>1, <1>2, <1>3, <1>4, <1>5, <1>6, <1>7, <1>8, <1>9, DiscoveriesTyped DEF RegistryStep

LEMMA QuietTyped ==
    ASSUME TypeInv, NEW q \in Requests, (\E u \in Users : Authenticate(q, u)) \/ Fail(q)
    PROVE  TypeInv'
<1> USE DEF TypeInv
<1>1. TablesOK' BY QuietFrame, TablesStay
<1>2. ASSUME NEW u \in Users, Authenticate(q, u) PROVE RequestsOK'
  <2> DEFINE x == [by |-> PrincipalOf(u), at |-> "guarded", user |-> None, farm |-> None,
                   plot |-> None, named |-> {}, source |-> None, stations |-> {}, codes |-> {},
                   station |-> None, key |-> None]
  <2>1. PrincipalOf(u) \in Principal
    BY DEF PrincipalOf, Principal, TablesOK, User
  <2>2. x \in Request /\ x.at = "guarded"
    BY <2>1 DEF Request
  <2>3. request' = [request EXCEPT ![q] = x]
    BY <1>2 DEF Authenticate
  <2> HIDE DEF x
  <2> QED BY <2>2, <2>3, FilledTyped
<1>3. ASSUME Fail(q) PROVE RequestsOK'
  BY <1>3, DoneTyped DEF Fail
<1> QED BY <1>1, <1>2, <1>3

LEMMA NextTyped == ASSUME TypeInv, [Next]_vars PROVE TypeInv'
<1>1. CASE UNCHANGED vars
  BY <1>1, TablesStay, RequestsStay DEF TypeInv, vars, Tables, accounts, hierarchy, sharing
<1>2. CASE Next
  BY <1>2, QuietTyped, AccountStepTyped, KeyStepTyped, RegistryStepTyped, SeedTyped, UpkeepTyped
     DEF Next
<1> QED BY <1>1, <1>2

LEMMA InitTyped == Init => TypeInv
BY DEF Init, TypeInv, TablesOK, RequestsOK, RequestsAreWhole, User, Roles, Statuses, Key, Source,
       Station

(* The rows and the requests of accounts, keys and sources keep their      *)
(* types, whatever is under way.                                           *)
THEOREM AccessTypeCorrect == Spec => []TypeOK
<1>1. TypeInv => TypeOK BY DEF TypeInv, TablesOK, RequestsOK, TypeOK
<1> QED BY <1>1, InitTyped, NextTyped, PTL DEF Spec

-----------------------------------------------------------------------------
(* The authority, and the grants of stations.                              *)

(* The holder has a row, and one that is not disabled; a row that is not   *)
(* there yet has the role that Init gives it, so that nothing granted to a *)
(* client developer can belong to it.                                      *)
HolderIsThere == holder # None => Exists(holder)

AbsentIsFarmer == \A u \in Users : ~Exists(u) => user[u].role = "FARMER"

AccountsInv == SuperAdminStands /\ HolderIsThere /\ AbsentIsFarmer /\ StationGrantsFitTheRole

LEMMA AccountsStay ==
    ASSUME AccountsInv, UNCHANGED <<accounts, clientGrant>> PROVE AccountsInv'
BY DEF AccountsInv, SuperAdminStands, HolderIsThere, AbsentIsFarmer, StationGrantsFitTheRole,
       Exists, accounts

LEMMA AccountStepKeeps ==
    ASSUME TypeInv, AccountsInv, NEW q \in Requests, AccountStep(q) PROVE AccountsInv'
<1> USE DEF TypeInv, TablesOK, AccountsInv, SuperAdminStands, HolderIsThere, AbsentIsFarmer,
            StationGrantsFitTheRole, Exists, ClientStationGrant
<1>1. ASSUME NEW u \in Users, NEW role \in Roles, CreateUser(q, u, role) PROVE AccountsInv'
  BY <1>1, AccessAssumption DEF CreateUser
<1>2. ASSUME NEW u \in Users, NEW role \in Roles, NEW status \in Statuses,
             UpdateUser(q, u, role, status)
      PROVE  AccountsInv'
  <2>1. (SuperAdminStands /\ HolderIsThere /\ AbsentIsFarmer)'
    BY <1>2, AccessAssumption DEF UpdateUser, KeepsTheHolder, Statuses
  <2>2. StationGrantsFitTheRole'
    BY <1>2 DEF UpdateUser, RoleChanges, WithoutUser
  <2> QED BY <2>1, <2>2
<1>3. ASSUME NEW u \in Users, RequestDeletion(q, u) PROVE AccountsInv'
  BY <1>3, AccessAssumption DEF RequestDeletion, WithoutUser
<1>4. ASSUME NEW u \in Users, ResetPassword(q, u) PROVE AccountsInv'
  BY <1>4, AccessAssumption DEF ResetPassword
<1>5. ASSUME NEW u \in Users, StartTransfer(q, u) PROVE AccountsInv'
  BY <1>5, AccountsStay DEF StartTransfer
<1>6. ASSUME NEW u \in Users, NEW farm \in Farms, NEW assigned \in BOOLEAN,
             SetFarmMembership(q, u, farm, assigned)
      PROVE  AccountsInv'
  BY <1>6, AccountsStay DEF SetFarmMembership
<1>7. ASSUME NEW u \in Users, NEW st \in Stations, NEW assigned \in BOOLEAN,
             SetStationGrant(q, u, st, assigned)
      PROVE  AccountsInv'
  BY <1>7 DEF SetStationGrant, accounts
<1>8. ASSUME Transfer(q) PROVE AccountsInv'
  BY <1>8, AccessAssumption DEF Transfer
<1> QED BY <1>1, <1>2, <1>3, <1>4, <1>5, <1>6, <1>7, <1>8 DEF AccountStep

LEMMA UpkeepKeeps == ASSUME TypeInv, AccountsInv, Upkeep PROVE AccountsInv'
<1> USE DEF TypeInv, TablesOK, AccountsInv, SuperAdminStands, HolderIsThere, AbsentIsFarmer,
            StationGrantsFitTheRole, Exists, ClientStationGrant
<1>1. ASSUME NEW u \in Users, Bootstrap(u) PROVE AccountsInv'
  BY <1>1, AccessAssumption DEF Bootstrap
<1>2. ASSUME NEW u \in Users, ChangePassword(u) PROVE AccountsInv'
  BY <1>2, AccessAssumption DEF ChangePassword
<1>3. ASSUME Recover PROVE AccountsInv'
  BY <1>3, AccessAssumption DEF Recover
<1>4. ASSUME Retention PROVE AccountsInv'
  <2>1. \A u \in Users : /\ user'[u].role = user[u].role
                         /\ user'[u].status \in {user[u].status, "DISABLED"}
                         /\ u = holder => user'[u] = user[u]
    BY <1>4 DEF Retention, Anonymized, User
  <2>2. holder' = holder /\ clientGrant' \subseteq clientGrant
    BY <1>4 DEF Retention
  <2>3. clientGrant' \subseteq Users \X Stations
    BY <2>2
  <2> QED BY <2>1, <2>2, <2>3, AccessAssumption
<1>5. ASSUME NinetyDaysPass PROVE AccountsInv'
  BY <1>5, AccessAssumption DEF NinetyDaysPass
<1> QED BY <1>1, <1>2, <1>3, <1>4, <1>5 DEF Upkeep

LEMMA AccountsKept == ASSUME TypeInv, AccountsInv, [Next]_vars PROVE AccountsInv'
<1>1. CASE UNCHANGED vars BY <1>1, AccountsStay DEF vars
<1>2. ASSUME NEW q \in Requests,
             (\E u \in Users : Authenticate(q, u)) \/ Fail(q) \/ KeyStep(q) \/ RegistryStep(q)
      PROVE  AccountsInv'
  BY <1>2, QuietFrame, KeyFrame, RegistryFrame, AccountsStay DEF Tables
<1>3. ASSUME NEW plot \in Plots, SeedStations(plot) PROVE AccountsInv'
  BY <1>3, SeedFrame, AccountsStay
<1> QED BY <1>1, <1>2, <1>3, AccountStepKeeps, UpkeepKeeps DEF Next

LEMMA InitAccounts == Init => AccountsInv
BY DEF Init, AccountsInv, SuperAdminStands, HolderIsThere, AbsentIsFarmer, StationGrantsFitTheRole

(* Once there is a super admin there is one for good: the account that     *)
(* holds the authority is an admin and not disabled, whatever races between*)
(* transfers, changes of accounts, deletions, retention and recovery.      *)
THEOREM AuthorityStands == Spec => []SuperAdminStands
<1>1. AccountsInv => SuperAdminStands BY DEF AccountsInv
<1> QED BY <1>1, InitTyped, NextTyped, InitAccounts, AccountsKept, PTL DEF Spec

(* No change of role leaves a station grant on an account that may not     *)
(* hold one.                                                               *)
THEOREM StationGrantsFit == Spec => []StationGrantsFitTheRole
<1>1. AccountsInv => StationGrantsFitTheRole BY DEF AccountsInv
<1> QED BY <1>1, InitTyped, NextTyped, InitAccounts, AccountsKept, PTL DEF Spec
-----------------------------------------------------------------------------
(* An account becomes an admin by the hand of the holder.                  *)

(* The steps that change no role, and so make nobody an admin.             *)
RolesStay == \A u \in Users : user'[u].role = user[u].role

LEMMA UpkeepRoles ==
    ASSUME TypeInv, AccountsInv, Upkeep, holder # None PROVE RolesStay
<1> USE DEF TypeInv, TablesOK, RolesStay
<1>1. ASSUME NEW u \in Users, Bootstrap(u) PROVE FALSE
  BY <1>1 DEF Bootstrap
<1>2. ASSUME NEW u \in Users, ChangePassword(u) PROVE RolesStay
  BY <1>2 DEF ChangePassword, User
<1>3. ASSUME Recover PROVE RolesStay
  BY <1>3 DEF Recover, User
<1>4. ASSUME Retention PROVE RolesStay
  BY <1>4 DEF Retention, User
<1>5. ASSUME NinetyDaysPass PROVE RolesStay
  BY <1>5 DEF NinetyDaysPass, User
<1> QED BY <1>1, <1>2, <1>3, <1>4, <1>5 DEF Upkeep

(* A step of an account that makes an admin is the end of a request of the *)
(* holder.                                                                 *)
MakesByHolder(q) ==
    \/ \A u \in Users : user'[u].role = "ADMIN" => user[u].role = "ADMIN"
    \/ request[q] # None /\ request'[q] = None /\ request[q].by.user = holder

LEMMA AccountStepMakes ==
    ASSUME TypeInv, NEW q \in Requests, AccountStep(q) PROVE MakesByHolder(q)
<1> USE DEF TypeInv, TablesOK, MakesByHolder
<1>1. Done(q) => request'[q] = None
  BY DEF Done, RequestsOK
<1>2. ASSUME NEW u \in Users, NEW role \in Roles, CreateUser(q, u, role) PROVE MakesByHolder(q)
  <2>1. CASE role = "ADMIN" BY <1>1, <1>2, <2>1 DEF CreateUser, ByHolder, Enters
  <2>2. CASE role # "ADMIN" BY <1>2, <2>2 DEF CreateUser
  <2> QED BY <2>1, <2>2
<1>3. ASSUME NEW u \in Users, NEW role \in Roles, NEW status \in Statuses,
             UpdateUser(q, u, role, status)
      PROVE  MakesByHolder(q)
  <2>1. CASE ByHolder(q) BY <1>1, <1>3, <2>1 DEF UpdateUser, ByHolder, Enters
  <2>2. CASE ~ByHolder(q) BY <1>3, <2>2 DEF UpdateUser, MayChange, User
  <2> QED BY <2>1, <2>2
<1>4. ASSUME NEW u \in Users, RequestDeletion(q, u) PROVE MakesByHolder(q)
  BY <1>4 DEF RequestDeletion, User
<1>5. ASSUME NEW u \in Users, ResetPassword(q, u) PROVE MakesByHolder(q)
  BY <1>5 DEF ResetPassword, User
<1>6. ASSUME UNCHANGED user PROVE MakesByHolder(q)
  BY <1>6
<1> QED BY <1>2, <1>3, <1>4, <1>5, <1>6
        DEF AccountStep, StartTransfer, SetFarmMembership, SetStationGrant, Transfer, accounts

LEMMA AdminsMade ==
    ASSUME TypeInv, AccountsInv, [Next]_vars
    PROVE  \A u \in Users :
             user'[u].role = "ADMIN" /\ user[u].role # "ADMIN" /\ holder # None
               => \E q \in Requests : /\ request[q] # None /\ request'[q] = None
                                      /\ request[q].by.user = holder
<1>1. CASE UNCHANGED user BY <1>1
<1>2. ASSUME NEW q \in Requests,
             (\E u \in Users : Authenticate(q, u)) \/ Fail(q) \/ KeyStep(q) \/ RegistryStep(q)
      PROVE  UNCHANGED user
  BY <1>2, QuietFrame, KeyFrame, RegistryFrame DEF Tables, accounts
<1>3. ASSUME NEW plot \in Plots, SeedStations(plot) PROVE UNCHANGED user
  BY <1>3, SeedFrame DEF accounts
<1>4. UNCHANGED vars => UNCHANGED user BY DEF vars, accounts
<1> QED BY <1>1, <1>2, <1>3, <1>4, AccountStepMakes, UpkeepRoles
        DEF Next, MakesByHolder, RolesStay

(* After the bootstrap an account becomes an admin only as a request of the*)
(* account that holds the authority in that very step ends: a transfer that*)
(* overtakes a request takes the power from it.                            *)
THEOREM HolderMakesAdmins == Spec => OnlyTheHolderMakesAdmins
BY InitTyped, NextTyped, InitAccounts, AccountsKept, AdminsMade, PTL
   DEF Spec, OnlyTheHolderMakesAdmins

-----------------------------------------------------------------------------
(* A station leaves a source for none, a removed source stays as it is.    *)

(* The stations of the upstream's codes that get a row had none.           *)
LEMMA WithRowsAdds ==
    ASSUME NEW codes, NEW rows \in NewRows(Stations, codes), NEW s, NEW plot,
           NEW st \in Stations
    PROVE  \/ WithRows(rows, s, plot)[st] = station[st]
           \/ station[st].source = None /\ WithRows(rows, s, plot)[st].source = s
BY DEF WithRows, NewRows

(* A station that has a source keeps it, but for those of SYSTEM; a source *)
(* receives stations only while it is live or as it is created.            *)
StationsKept ==
    \A st \in Stations :
        /\ station[st].source \in Sources => station'[st].source = station[st].source
        /\ \A s \in Sources : station'[st].source = s /\ station[st].source # s
             => source[s].state # "removed"

(* A removed source is not changed.                                        *)
RemovedKept == \A s \in Sources : source[s].state = "removed" => source'[s] = source[s]

LEMMA CreateSourceKeeps ==
    ASSUME TypeInv, NEW q \in Requests, NEW s \in Sources, CreateSource(q, s)
    PROVE  StationsKept /\ RemovedKept
<1> DEFINE plot == request[q].plot
           taken == TakenOver(plot, request[q].codes)
<1>1. PICK rows \in NewRows(Stations, request[q].codes \ CodesIn(taken)) :
        station' = [st \in Stations |-> IF st \in taken THEN [station[st] EXCEPT !.source = s]
                                       ELSE WithRows(rows, s, plot)[st]]
  BY DEF CreateSource
<1>2. \A st \in Stations : \/ station'[st].source = station[st].source
                           \/ station[st].source \in {System, None} /\ station'[st].source = s
  <2>1. ASSUME NEW st \in Stations, st \in taken
        PROVE  station[st].source = System /\ station'[st].source = s
    BY <1>1, <2>1 DEF TakenOver, StationsOf, Station, TypeInv, TablesOK
  <2>2. ASSUME NEW st \in Stations, st \notin taken
        PROVE  \/ station'[st] = station[st]
               \/ station[st].source = None /\ station'[st].source = s
    <3>1. station'[st] = WithRows(rows, s, plot)[st] BY <1>1, <2>2
    <3> QED BY <3>1, WithRowsAdds
  <2> HIDE DEF taken
  <2> QED BY <2>1, <2>2
<1>3. source[s].state = "unused" /\ RemovedKept
  BY DEF CreateSource, RemovedKept, TypeInv, TablesOK
<1> QED BY <1>2, <1>3, AccessAssumption DEF StationsKept

LEMMA ImportKeeps ==
    ASSUME TypeInv, NEW q \in Requests, ImportStations(q) PROVE StationsKept /\ RemovedKept
<1>1. Live(request[q].source) /\ UNCHANGED source
  BY DEF ImportStations, StillOwned, sharing
<1>2. \A st \in Stations : \/ station'[st] = station[st]
                           \/ station[st].source = None /\ station'[st].source = request[q].source
  <2>1. CASE UNCHANGED station BY <2>1
  <2>2. ASSUME NEW plot \in Plots, NEW codes, NEW rows \in NewRows(Stations, codes),
               station' = WithRows(rows, request[q].source, plot)
        PROVE  \A st \in Stations :
                 \/ station'[st] = station[st]
                 \/ station[st].source = None /\ station'[st].source = request[q].source
    BY <2>2, WithRowsAdds
  <2> QED BY <2>1, <2>2 DEF ImportStations
<1> QED BY <1>1, <1>2, AccessAssumption DEF StationsKept, RemovedKept, Live

LEMMA SeedKeeps ==
    ASSUME TypeInv, NEW plot \in Plots, SeedStations(plot) PROVE StationsKept /\ RemovedKept
<1>1. UNCHANGED source BY SeedFrame DEF sharing
<1>2. \A st \in Stations : \/ station'[st] = station[st]
                           \/ station[st].source = None /\ station'[st].source = System
  <2>1. PICK rows \in NewRows(Stations, Codes \ CodesIn(StationsOf(System))) :
          station' = WithRows(rows, System, plot)
    BY DEF SeedStations
  <2> QED BY <2>1, WithRowsAdds
<1> QED BY <1>1, <1>2, AccessAssumption DEF StationsKept, RemovedKept

(* Which registry steps change a station or a source.                      *)
LEMMA RegistryMovesStations ==
    ASSUME NEW q \in Requests, RegistryStep(q)
    PROVE  \/ UNCHANGED <<station, source>>
           \/ \E s \in Sources : CreateSource(q, s) \/ RemoveSource(q, s)
           \/ ImportStations(q)
<1>1. ASSUME NEW s, NEW u, NEW st, NEW stations,
             \/ ReadSourceStations(q, s, u) \/ FindGrant(q, s, u)
             \/ RemainingStations(q, s, u, st) \/ CheckGrantStations(q, s, u, stations)
      PROVE  UNCHANGED <<station, source>>
  BY <1>1 DEF ReadSourceStations, FindGrant, RemainingStations, CheckGrantStations, Reads,
              hierarchy, sharing
<1>2. ASSUME NEW plot, NEW named, NEW codes, NEW s,
             DiscoverSource(q, plot, named, codes) \/ DiscoverNodes(q, s, codes)
      PROVE  UNCHANGED <<station, source>>
  BY <1>2 DEF DiscoverSource, DiscoverNodes, hierarchy, sharing
<1>3. ASSUME ReplaceGrantStations(q) \/ RevokeGrant(q) \/ RemoveGrantStation(q)
      PROVE  UNCHANGED <<station, source>>
  BY <1>3 DEF ReplaceGrantStations, RevokeGrant, RemoveGrantStation, hierarchy
<1> QED BY <1>1, <1>2, <1>3 DEF RegistryStep

LEMMA RegistryKeeps ==
    ASSUME TypeInv, NEW q \in Requests, RegistryStep(q) PROVE StationsKept /\ RemovedKept
<1>1. ASSUME UNCHANGED <<station, source>> PROVE StationsKept /\ RemovedKept
  BY <1>1 DEF StationsKept, RemovedKept
<1>2. ASSUME NEW s \in Sources, RemoveSource(q, s) PROVE StationsKept /\ RemovedKept
  BY <1>2 DEF RemoveSource, Live, StationsKept, RemovedKept, hierarchy, TypeInv, TablesOK
<1> QED BY <1>1, <1>2, RegistryMovesStations, CreateSourceKeeps, ImportKeeps

LEMMA NextKeeps == ASSUME TypeInv, [Next]_vars PROVE StationsKept /\ RemovedKept
<1>1. ASSUME UNCHANGED <<hierarchy, source>> PROVE StationsKept /\ RemovedKept
  BY <1>1 DEF StationsKept, RemovedKept, hierarchy
<1>2. ASSUME NEW q \in Requests, (\E u \in Users : Authenticate(q, u)) \/ Fail(q) \/ KeyStep(q)
      PROVE  UNCHANGED <<hierarchy, source>>
  BY <1>2, QuietFrame, KeyFrame DEF Tables, sharing
<1>3. UNCHANGED vars => UNCHANGED <<hierarchy, source>> BY DEF vars, sharing
<1> QED BY <1>1, <1>2, <1>3, AccountFrame, UpkeepFrame, RegistryKeeps, SeedKeeps DEF Next

(* A source that is removed neither changes nor receives a station, though *)
(* an import may have called the upstream before the removal.              *)
THEOREM RemovedSourceStaysClosed == Spec => RemovedSourceIsClosed
<1>1. TypeInv /\ [Next]_vars =>
        \A s \in Sources : source[s].state = "removed" =>
          /\ source'[s] = source[s]
          /\ {st \in Stations : station'[st].source = s} \subseteq StationsOf(s)
  BY NextKeeps DEF StationsKept, RemovedKept, StationsOf
<1> QED BY <1>1, InitTyped, NextTyped, PTL DEF Spec, RemovedSourceIsClosed

-----------------------------------------------------------------------------
(* Shares.                                                                 *)

(* The stations that a request carries from the check of a share to its    *)
(* writes are of its source, and stay so.                                  *)
CheckedStationsAreOfTheirSource ==
    \A q \in Requests : request[q] # None /\ request[q].at = "setGrantStations" =>
        \A st \in request[q].stations : station[st].source = request[q].source

SharesInv == SharedStationIsOfItsSource /\ CheckedStationsAreOfTheirSource

(* A step that adds no share and checks none keeps both.                   *)
LEMMA SharesStay ==
    ASSUME TypeInv, SharesInv, StationsKept, share' \subseteq share,
           \A q \in Requests : request'[q] # None /\ request'[q].at = "setGrantStations"
                               => request'[q] = request[q]
    PROVE  SharesInv'
<1>1. SharedStationIsOfItsSource'
  BY DEF SharesInv, SharedStationIsOfItsSource, TypeInv, TablesOK, StationsKept,
         DataSourceGrantStation
<1>2. CheckedStationsAreOfTheirSource'
  <2> SUFFICES ASSUME NEW q \in Requests, request'[q] # None,
                      request'[q].at = "setGrantStations", NEW st \in request'[q].stations
               PROVE  station'[st].source = request'[q].source
    BY DEF CheckedStationsAreOfTheirSource
  <2>1. request'[q] = request[q] OBVIOUS
  <2>2. station[st].source = request[q].source BY <2>1 DEF SharesInv, CheckedStationsAreOfTheirSource
  <2>3. request[q].source \in Sources /\ st \in Stations
    BY <2>1 DEF TypeInv, RequestsOK, RequestsAreWhole, Request
  <2> QED BY <2>1, <2>2, <2>3 DEF StationsKept
<1> QED BY <1>1, <1>2 DEF SharesInv

(* A request that ends, or one that goes on to another step.               *)
LEMMA OtherSteps ==
    ASSUME TypeInv, NEW q \in Requests,
           Done(q) \/ \E x : request' = [request EXCEPT ![q] = x] /\ x.at # "setGrantStations"
    PROVE  \A r \in Requests : request'[r] # None /\ request'[r].at = "setGrantStations"
                               => request'[r] = request[r]
BY DEF Done, TypeInv, RequestsOK

(* A request that does a first step other than the check of a share.       *)
MovesOn(q) == Done(q) \/ \E x : request' = [request EXCEPT ![q] = x] /\ x.at # "setGrantStations"

LEMMA AccountMoves ==
    ASSUME TypeInv, NEW q \in Requests, AccountStep(q) PROVE MovesOn(q) /\ share' \subseteq share
<1>1. ASSUME NEW u \in Users, StartTransfer(q, u) PROVE MovesOn(q) /\ share' \subseteq share
  <2> DEFINE x == [request[q] EXCEPT !.at = "transfer", !.user = u]
  <2>1. request[q] \in Request
    BY <1>1 DEF StartTransfer, Enters, TypeInv, RequestsOK
  <2>2. x.at = "transfer" /\ request' = [request EXCEPT ![q] = x]
    BY <1>1, <2>1 DEF StartTransfer, Request
  <2> HIDE DEF x
  <2> QED BY <1>1, <2>2 DEF MovesOn, StartTransfer, sharing
<1>2. ASSUME NEW u \in Users, NEW role, NEW status,
             CreateUser(q, u, role) \/ UpdateUser(q, u, role, status)
             \/ RequestDeletion(q, u) \/ ResetPassword(q, u)
      PROVE  MovesOn(q) /\ share' \subseteq share
  BY <1>2 DEF MovesOn, CreateUser, UpdateUser, RequestDeletion, ResetPassword, RoleChanges,
              GrantsGoFor, sharing
<1>3. ASSUME NEW u, NEW farm, NEW st, NEW assigned,
             SetFarmMembership(q, u, farm, assigned) \/ SetStationGrant(q, u, st, assigned)
             \/ Transfer(q)
      PROVE  MovesOn(q) /\ share' \subseteq share
  BY <1>3 DEF MovesOn, SetFarmMembership, SetStationGrant, Transfer, sharing
<1> QED BY <1>1, <1>2, <1>3 DEF AccountStep

LEMMA KeyMoves ==
    ASSUME TypeInv, NEW q \in Requests, KeyStep(q) PROVE MovesOn(q) /\ share' \subseteq share
<1>1. UNCHANGED share BY KeyFrame DEF sharing
<1>2. ASSUME NEW k, CreateKey(q, k) \/ Rotate(q, k) \/ RevokeKey(q) PROVE MovesOn(q)
  BY <1>2 DEF CreateKey, Rotate, RevokeKey, MovesOn
<1>3. ASSUME NEW stations, CheckKeyGrants(q, stations) PROVE MovesOn(q)
  <2> DEFINE x == [request[q] EXCEPT !.at = "createKey", !.stations = stations]
  <2>1. request[q] \in Request BY <1>3 DEF CheckKeyGrants, Enters, TypeInv, RequestsOK
  <2>2. x.at = "createKey" /\ request' = [request EXCEPT ![q] = x]
    BY <1>3, <2>1 DEF CheckKeyGrants, Request
  <2> HIDE DEF x
  <2> QED BY <2>2 DEF MovesOn
<1>4. ASSUME NEW k, ReadKey(q, k) PROVE MovesOn(q)
  <2> DEFINE x == [request[q] EXCEPT !.at = "rotate", !.key = k, !.stations = key[k].scope]
  <2>1. request[q] \in Request BY <1>4 DEF ReadKey, Enters, TypeInv, RequestsOK
  <2>2. x.at = "rotate" /\ request' = [request EXCEPT ![q] = x]
    BY <1>4, <2>1 DEF ReadKey, Request
  <2> HIDE DEF x
  <2> QED BY <2>2 DEF MovesOn
<1>5. ASSUME NEW k, FindKey(q, k) PROVE MovesOn(q)
  <2> DEFINE x == [request[q] EXCEPT !.at = "revokeKey", !.key = k]
  <2>1. request[q] \in Request BY <1>5 DEF FindKey, Enters, TypeInv, RequestsOK
  <2>2. x.at = "revokeKey" /\ request' = [request EXCEPT ![q] = x]
    BY <1>5, <2>1 DEF FindKey, Request
  <2> HIDE DEF x
  <2> QED BY <2>2 DEF MovesOn
<1> QED BY <1>1, <1>2, <1>3, <1>4, <1>5 DEF KeyStep

(* All steps of the registry but the two that check and write a share.     *)
LEMMA RegistryMoves ==
    ASSUME TypeInv, NEW q \in Requests, RegistryStep(q)
    PROVE  \/ MovesOn(q) /\ share' \subseteq share
           \/ \E s \in Sources : \E u \in Users : \E stations \in SUBSET Stations :
                CheckGrantStations(q, s, u, stations)
           \/ ReplaceGrantStations(q)
<1> DEFINE Moved == MovesOn(q) /\ share' \subseteq share
<1>1. ASSUME NEW s, CreateSource(q, s) \/ RemoveSource(q, s) PROVE Moved
  BY <1>1 DEF CreateSource, RemoveSource, MovesOn
<1>2. ASSUME RevokeGrant(q) \/ RemoveGrantStation(q) \/ ImportStations(q) PROVE Moved
  BY <1>2 DEF RevokeGrant, RemoveGrantStation, ImportStations, GrantDeleted, MovesOn, sharing
<1>3. ASSUME NEW plot, NEW named, NEW codes, DiscoverSource(q, plot, named, codes) PROVE Moved
  <2> DEFINE x == [request[q] EXCEPT !.at = "createSource", !.farm = FarmOf[plot],
                                     !.plot = plot, !.named = named, !.codes = codes]
  <2>1. request[q] \in Request BY <1>3 DEF DiscoverSource, Enters, TypeInv, RequestsOK
  <2>2. x.at = "createSource" /\ request' = [request EXCEPT ![q] = x] /\ UNCHANGED share
    BY <1>3, <2>1 DEF DiscoverSource, Request, sharing
  <2> HIDE DEF x
  <2> QED BY <2>2 DEF MovesOn
<1>4. ASSUME NEW s, NEW codes, DiscoverNodes(q, s, codes) PROVE Moved
  <2> DEFINE x == [request[q] EXCEPT !.at = "importStations", !.source = s, !.codes = codes]
  <2>1. request[q] \in Request BY <1>4 DEF DiscoverNodes, Enters, TypeInv, RequestsOK
  <2>2. x.at = "importStations" /\ request' = [request EXCEPT ![q] = x] /\ UNCHANGED share
    BY <1>4, <2>1 DEF DiscoverNodes, Request, sharing
  <2> HIDE DEF x
  <2> QED BY <2>2 DEF MovesOn
<1>5. ASSUME NEW s, NEW u, NEW st, RemainingStations(q, s, u, st) PROVE Moved
  <2> DEFINE x == [request[q] EXCEPT !.at = "revokeGrantStation", !.source = s, !.user = u,
                     !.station = st, !.stations = {y \in Stations \ {st} : <<s, u, y>> \in share}]
  <2>1. request[q] \in Request BY <1>5 DEF RemainingStations, Enters, TypeInv, RequestsOK
  <2>2. x.at = "revokeGrantStation" /\ request' = [request EXCEPT ![q] = x] /\ UNCHANGED share
    BY <1>5, <2>1 DEF RemainingStations, Request, sharing
  <2> HIDE DEF x
  <2> QED BY <2>2 DEF MovesOn
<1>6. ASSUME NEW s, NEW u, NEW stations, NEW step \in {"grant", "revoke"}, request[q] # None,
             Reads(q, step, s, u, stations)
      PROVE  Moved
  <2> DEFINE x == [request[q] EXCEPT !.at = step, !.source = s, !.user = u, !.stations = stations]
  <2>1. request[q] \in Request BY <1>6 DEF TypeInv, RequestsOK
  <2>2. x.at = step /\ request' = [request EXCEPT ![q] = x] /\ UNCHANGED share
    BY <1>6, <2>1 DEF Reads, Request, sharing
  <2> HIDE DEF x
  <2> QED BY <2>2 DEF MovesOn
<1>7. ASSUME NEW s, NEW u, ReadSourceStations(q, s, u) \/ FindGrant(q, s, u) PROVE Moved
  <2> HIDE DEF Moved
  <2> QED BY <1>6, <1>7 DEF ReadSourceStations, FindGrant, Enters
<1> HIDE DEF Moved
<1>8. \/ Moved
      \/ \E s \in Sources : \E u \in Users : \E stations \in SUBSET Stations :
           CheckGrantStations(q, s, u, stations)
      \/ ReplaceGrantStations(q)
  BY <1>1, <1>2, <1>3, <1>4, <1>5, <1>7 DEF RegistryStep
<1> QED BY <1>8 DEF Moved

(* The check of a share, and its writes.                                   *)
LEMMA CheckKeeps ==
    ASSUME TypeInv, SharesInv, StationsKept, NEW q \in Requests, NEW s \in Sources,
           NEW u \in Users, NEW stations \in SUBSET Stations, CheckGrantStations(q, s, u, stations)
    PROVE  SharesInv'
<1> DEFINE x == [request[q] EXCEPT !.at = "setGrantStations", !.source = s, !.user = u,
                                   !.stations = stations]
<1>1. request[q] \in Request
  BY DEF CheckGrantStations, Enters, Continues, TypeInv, RequestsOK
<1>2. x.source = s /\ x.stations = stations
  BY <1>1 DEF Request
<1>3. request' = [request EXCEPT ![q] = x] /\ UNCHANGED <<station, share>>
  BY DEF CheckGrantStations, Reads, hierarchy, sharing
<1>4. \A st \in stations : station[st].source = s
  BY DEF CheckGrantStations, SharedStations, StationsOf
<1> HIDE DEF x
<1>5. CheckedStationsAreOfTheirSource'
  BY <1>2, <1>3, <1>4 DEF SharesInv, CheckedStationsAreOfTheirSource, TypeInv, RequestsOK
<1>6. SharedStationIsOfItsSource'
  BY <1>3 DEF SharesInv, SharedStationIsOfItsSource
<1> QED BY <1>5, <1>6 DEF SharesInv

LEMMA ReplaceKeeps ==
    ASSUME TypeInv, SharesInv, NEW q \in Requests, ReplaceGrantStations(q) PROVE SharesInv'
<1>1. UNCHANGED station BY DEF ReplaceGrantStations, hierarchy
<1>2. CheckedStationsAreOfTheirSource'
  BY <1>1 DEF ReplaceGrantStations, Done, SharesInv, CheckedStationsAreOfTheirSource, TypeInv,
              RequestsOK
<1>3. \A st \in request[q].stations : station[st].source = request[q].source
  BY DEF ReplaceGrantStations, Continues, SharesInv, CheckedStationsAreOfTheirSource
<1>4. SharedStationIsOfItsSource'
  BY <1>1, <1>3 DEF ReplaceGrantStations, SharesInv, SharedStationIsOfItsSource
<1> QED BY <1>2, <1>4 DEF SharesInv

LEMMA SharesKept == ASSUME TypeInv, SharesInv, [Next]_vars PROVE SharesInv'
<1>1. StationsKept BY NextKeeps
<1>2. ASSUME UNCHANGED request, share' \subseteq share PROVE SharesInv'
  BY <1>1, <1>2, SharesStay
<1>3. ASSUME NEW q \in Requests, MovesOn(q), share' \subseteq share PROVE SharesInv'
  BY <1>1, <1>3, OtherSteps, SharesStay DEF MovesOn
<1>4. ASSUME NEW q \in Requests, (\E u \in Users : Authenticate(q, u)) \/ Fail(q)
      PROVE  MovesOn(q) /\ UNCHANGED share
  <2>1. ASSUME NEW u \in Users, Authenticate(q, u) PROVE MovesOn(q) /\ UNCHANGED share
    <3> DEFINE x == [by |-> PrincipalOf(u), at |-> "guarded", user |-> None, farm |-> None,
                     plot |-> None, named |-> {}, source |-> None, stations |-> {}, codes |-> {},
                     station |-> None, key |-> None]
    <3>1. x.at = "guarded" /\ request' = [request EXCEPT ![q] = x] /\ UNCHANGED share
      BY <2>1 DEF Authenticate, sharing
    <3> HIDE DEF x
    <3> QED BY <3>1 DEF MovesOn
  <2>2. ASSUME Fail(q) PROVE MovesOn(q) /\ UNCHANGED share
    BY <2>2 DEF Fail, MovesOn, sharing
  <2> QED BY <1>4, <2>1, <2>2
<1>5. Upkeep => UNCHANGED request /\ share' \subseteq share
  BY DEF Upkeep, Bootstrap, ChangePassword, Recover, Retention, NinetyDaysPass, sharing
<1>6. UNCHANGED vars => UNCHANGED request /\ share' \subseteq share
  BY DEF vars, sharing
<1>7. ASSUME NEW plot \in Plots, SeedStations(plot) PROVE UNCHANGED <<request, share>>
  BY <1>7, SeedFrame DEF sharing
<1>8. ASSUME NEW q \in Requests, RegistryStep(q) PROVE SharesInv'
  BY <1>1, <1>3, <1>8, RegistryMoves, CheckKeeps, ReplaceKeeps
<1> QED BY <1>2, <1>3, <1>4, <1>5, <1>6, <1>7, <1>8, AccountMoves, KeyMoves DEF Next

(* A share opens stations of its own source only, whatever happens to the  *)
(* source and its stations between the check of a share and its writes.    *)
THEOREM SharesFit == Spec => []SharedStationIsOfItsSource
<1>1. Init => SharesInv
  BY DEF Init, SharesInv, SharedStationIsOfItsSource, CheckedStationsAreOfTheirSource
<1>2. SharesInv => SharedStationIsOfItsSource BY DEF SharesInv
<1> QED BY <1>1, <1>2, InitTyped, NextTyped, SharesKept, PTL DEF Spec

-----------------------------------------------------------------------------
(* Keys.                                                                   *)

Gone(k) == key[k].state \in {"revoked", "purged"}

(* A key that was replaced is revoked for good, so that no second rotation *)
(* finds it; a row that is not used yet replaces none.                     *)
ReplacedIsGone == \A k \in Keys : key[k].replaces \in Keys => Gone(key[k].replaces)

UnusedReplacesNone == \A k \in Keys : key[k].state = "unused" => key[k].replaces = None

ReplacedOnce ==
    \A a, b \in Keys : key[a].replaces \in Keys /\ key[a].replaces = key[b].replaces => a = b

KeysInv == ReplacedIsGone /\ UnusedReplacesNone /\ ReplacedOnce

(* What every step but the creation and the rotation of a key does to the  *)
(* rows of keys.                                                           *)
KeysAge ==
    \A k \in Keys : /\ key'[k].replaces = key[k].replaces
                    /\ Gone(k) => key'[k].state \in {"revoked", "purged"}
                    /\ key'[k].state = "unused" => key[k].state = "unused"

LEMMA AgedKeys == ASSUME TypeInv, KeysInv, KeysAge PROVE KeysInv'
BY DEF TypeInv, TablesOK, KeysInv, ReplacedIsGone, UnusedReplacesNone, ReplacedOnce, KeysAge, Gone

LEMMA KeysStay == ASSUME UNCHANGED key PROVE KeysAge
BY DEF KeysAge, Gone

LEMMA KeysRevoked == ASSUME TypeInv, NEW u, key' = KeysRevokedFor(u) PROVE KeysAge
BY DEF TypeInv, TablesOK, KeysRevokedFor, KeysAge, Gone, Key

LEMMA AccountStepAges == ASSUME TypeInv, NEW q \in Requests, AccountStep(q) PROVE KeysAge
<1>1. ASSUME NEW u, NEW role, NEW status,
             UpdateUser(q, u, role, status) \/ RequestDeletion(q, u)
      PROVE  KeysAge
  BY <1>1, KeysRevoked, KeysStay DEF UpdateUser, RequestDeletion
<1>2. ASSUME NEW u, NEW st, NEW assigned, SetStationGrant(q, u, st, assigned) PROVE KeysAge
  <2>1. CASE UNCHANGED key BY <2>1, KeysStay
  <2>2. CASE key' = [k \in Keys |-> IF key[k].owner = u
                                    THEN [key[k] EXCEPT !.scope = @ \ {st}] ELSE key[k]]
    BY <2>2 DEF TypeInv, TablesOK, KeysAge, Gone, Key
  <2> QED BY <1>2, <2>1, <2>2 DEF SetStationGrant
<1>3. ASSUME NEW u, NEW role, NEW farm, NEW assigned,
             CreateUser(q, u, role) \/ ResetPassword(q, u) \/ StartTransfer(q, u)
             \/ SetFarmMembership(q, u, farm, assigned) \/ Transfer(q)
      PROVE  KeysAge
  BY <1>3, KeysStay DEF CreateUser, ResetPassword, StartTransfer, SetFarmMembership, Transfer
<1> QED BY <1>1, <1>2, <1>3 DEF AccountStep

LEMMA UpkeepAges == ASSUME TypeInv, Upkeep PROVE KeysAge
<1>1. ASSUME NEW u, Bootstrap(u) \/ ChangePassword(u) \/ Recover PROVE KeysAge
  BY <1>1, KeysStay DEF Bootstrap, ChangePassword, Recover
<1>2. ASSUME Retention PROVE KeysAge
  BY <1>2 DEF Retention, TypeInv, TablesOK, KeysAge, Gone, Key
<1>3. ASSUME NinetyDaysPass PROVE KeysAge
  <2> SUFFICES ASSUME NEW k \in Keys
               PROVE  /\ key'[k].replaces = key[k].replaces
                      /\ Gone(k) => key'[k].state \in {"revoked", "purged"}
                      /\ key'[k].state = "unused" => key[k].state = "unused"
    BY DEF KeysAge
  <2> QED BY <1>3 DEF NinetyDaysPass, TypeInv, TablesOK, Gone, Key
<1> QED BY <1>1, <1>2, <1>3 DEF Upkeep

LEMMA KeyStepKeeps ==
    ASSUME TypeInv, KeysInv, NEW q \in Requests, KeyStep(q) PROVE KeysInv'
<1> USE DEF TypeInv, TablesOK
<1>1. ASSUME NEW k \in Keys, CreateKey(q, k) PROVE KeysInv'
  <2>1. /\ key' = [key EXCEPT ![k] = NewKey(request[q].by.user, request[q].stations, None)]
        /\ key[k].state = "unused"
    BY <1>1 DEF CreateKey
  <2>2. key'[k].replaces = None /\ key'[k].state = "live"
    BY <2>1 DEF NewKey
  <2>3. \A j \in Keys \ {k} : key'[j] = key[j]
    BY <2>1
  <2> QED BY <2>1, <2>2, <2>3, AccessAssumption
          DEF KeysInv, ReplacedIsGone, UnusedReplacesNone, ReplacedOnce, Gone
<1>2. ASSUME NEW new \in Keys, Rotate(q, new) PROVE KeysInv'
  <2> DEFINE old == request[q].key
  <2>1. old \in Keys /\ key[old].state \in {"live", "expired"} /\ key[new].state = "unused"
    BY <1>2 DEF Rotate, Continues, RequestsOK, RequestsAreWhole, StillUnrevoked, Unrevoked
  <2>2. key' = [key EXCEPT ![old].state = "revoked",
                           ![new] = NewKey(request[q].by.user, request[q].stations, old)]
    BY <1>2 DEF Rotate
  <2> HIDE DEF old
  <2>3. key'[new].replaces = old /\ key'[new].state = "live"
    BY <2>2 DEF NewKey
  <2>4. key'[old].state = "revoked" /\ key'[old].replaces = key[old].replaces
    BY <2>1, <2>2 DEF Key
  <2>5. \A j \in Keys \ {old, new} : key'[j] = key[j]
    BY <2>2
  <2>6. \A j \in Keys : key[j].replaces # old
    BY <2>1 DEF KeysInv, ReplacedIsGone, Gone
  <2> QED BY <2>1, <2>3, <2>4, <2>5, <2>6
          DEF KeysInv, ReplacedIsGone, UnusedReplacesNone, ReplacedOnce, Gone
<1>3. ASSUME RevokeKey(q) PROVE KeysInv'
  <2>1. KeysAge BY <1>3 DEF RevokeKey, KeysAge, Gone, Key, Unrevoked
  <2> QED BY <2>1, AgedKeys
<1>4. ASSUME NEW k, NEW stations, CheckKeyGrants(q, stations) \/ ReadKey(q, k) \/ FindKey(q, k)
      PROVE  KeysInv'
  <2>1. UNCHANGED key BY <1>4 DEF CheckKeyGrants, ReadKey, FindKey
  <2> QED BY <2>1, KeysStay, AgedKeys
<1> QED BY <1>1, <1>2, <1>3, <1>4 DEF KeyStep

LEMMA KeysKept == ASSUME TypeInv, KeysInv, [Next]_vars PROVE KeysInv'
<1>1. UNCHANGED key => KeysInv' BY KeysStay, AgedKeys
<1>2. UNCHANGED vars => UNCHANGED key BY DEF vars
<1>3. ASSUME NEW q \in Requests,
             (\E u \in Users : Authenticate(q, u)) \/ Fail(q) \/ RegistryStep(q)
      PROVE  UNCHANGED key
  BY <1>3, QuietFrame, RegistryFrame DEF Tables
<1> QED BY <1>1, <1>2, <1>3, AgedKeys, AccountStepAges, UpkeepAges, KeyStepKeeps, SeedFrame
        DEF Next

(* However many rotations and revocations of a key race, at most one key   *)
(* takes its place.                                                        *)
THEOREM KeyReplacedOnce == Spec => []KeyIsReplacedOnce
<1>1. Init => KeysInv
  BY AccessAssumption DEF Init, KeysInv, ReplacedIsGone, UnusedReplacesNone, ReplacedOnce
<1>2. ASSUME KeysInv PROVE KeyIsReplacedOnce
  <2> DEFINE new(k) == {n \in Keys : key[n].replaces = k}
  <2>1. ASSUME NEW k \in Keys PROVE Cardinality(new(k)) <= 1
    <3>1. new(k) = {} \/ \E a : new(k) = {a}
      BY <1>2 DEF KeysInv, ReplacedOnce
    <3>2. Cardinality(new(k)) \in {0, 1}
      <4> HIDE DEF new
      <4> QED BY <3>1, FS_EmptySet, FS_Singleton
    <3> HIDE DEF new
    <3> QED BY <3>2
  <2> QED BY <2>1 DEF KeyIsReplacedOnce
<1> QED BY <1>1, <1>2, InitTyped, NextTyped, KeysKept, PTL DEF Spec

-----------------------------------------------------------------------------
(* Lists, walked page by page while the rows change.                       *)

(* The pages of a list, whatever its rows: Rank orders them.               *)

LEMMA GreatestExists ==
    ASSUME NEW n \in Nat, NEW T \in SUBSET (0 .. n), T # {}
    PROVE  \E x \in T : \A y \in T : y <= x
<1> DEFINE upTo == {x .. n : x \in T}
<1>1. upTo \subseteq FiniteSubsetsOf(0 .. n) /\ upTo # {}
  <2>1. \A x \in T : x .. n \in SUBSET (0 .. n) /\ IsFiniteSet(x .. n) BY FS_Interval
  <2> QED BY <2>1 DEF FiniteSubsetsOf
<1>2. PICK a \in upTo : \A b \in upTo : ~(<<b, a>> \in StrictSubsetOrdering(0 .. n))
  <2> HIDE DEF upTo
  <2> QED BY <1>1, FS_StrictSubsetOrderingWellFounded, WFMin
<1>3. PICK x \in T : a = x .. n BY <1>2
<1>4. ASSUME NEW y \in T, ~(y <= x) PROVE FALSE
  <2>1. /\ y .. n \subseteq x .. n /\ y .. n # x .. n
        /\ y .. n \in SUBSET (0 .. n) /\ x .. n \in SUBSET (0 .. n)
    BY <1>4
  <2>2. <<y .. n, x .. n>> \in StrictSubsetOrdering(0 .. n)
    BY <2>1, Zenon DEF StrictSubsetOrdering
  <2>3. y .. n \in upTo OBVIOUS
  <2> QED BY <1>2, <1>3, <2>2, <2>3
<1> QED BY <1>4

LEMMA RankOrders ==
    /\ \A x \in DOMAIN Rank : Rank[x] \in Nat
    /\ \A x, y \in DOMAIN Rank : Rank[x] = Rank[y] => x = y
    /\ None \notin DOMAIN Rank
    /\ PageSize \in Nat \ {0}
BY AccessAssumption, ListAssumption

(* A row has finitely many rows before it, the more the later it comes.    *)
LEMMA BeforeIsFinite ==
    ASSUME NEW rows \in SUBSET DOMAIN Rank, NEW x \in rows
    PROVE  IsFiniteSet(Before(x, rows)) /\ Cardinality(Before(x, rows)) \in Nat
<1> DEFINE B == Before(x, rows)
           f == [y \in B |-> Rank[y]]
<1>1. f \in [B -> 0 .. Rank[x]] BY RankOrders DEF Before
<1>2. \A y, z \in B : f[y] = f[z] => y = z BY RankOrders DEF Before
<1>3. IsFiniteSet(0 .. Rank[x]) BY RankOrders, FS_Interval
<1> HIDE DEF f, B
<1>4. f \in Injection(B, 0 .. Rank[x]) BY <1>1, <1>2 DEF Injection, IsInjective
<1>5. IsFiniteSet(B) BY <1>3, <1>4, FS_Injection
<1> QED BY <1>5, FS_CardinalityType DEF B

LEMMA BeforeGrows ==
    ASSUME NEW rows \in SUBSET DOMAIN Rank, NEW x \in rows, NEW y \in rows, Rank[y] <= Rank[x]
    PROVE  Cardinality(Before(y, rows)) <= Cardinality(Before(x, rows))
<1>1. Before(y, rows) \in SUBSET Before(x, rows) BY RankOrders DEF Before
<1> QED BY <1>1, BeforeIsFinite, FS_Subset

(* Rows have a first one, and a last one if a row comes behind them.       *)
LEMMA FirstExists ==
    ASSUME NEW rows \in SUBSET DOMAIN Rank, rows # {}
    PROVE  \E x \in rows : \A y \in rows : Rank[x] <= Rank[y]
<1>1. PICK z \in rows : TRUE OBVIOUS
<1> DEFINE T == {Rank[z] - Rank[y] : y \in {w \in rows : Rank[w] <= Rank[z]}}
<1>2. T \in SUBSET (0 .. Rank[z]) /\ T # {} /\ Rank[z] \in Nat BY <1>1, RankOrders
<1>3. PICK t \in T : \A s \in T : s <= t
  <2> HIDE DEF T
  <2> QED BY <1>2, GreatestExists
<1>4. PICK x \in rows : Rank[x] <= Rank[z] /\ t = Rank[z] - Rank[x] BY <1>3
<1>5. ASSUME NEW y \in rows PROVE Rank[x] <= Rank[y]
  <2>1. CASE Rank[y] <= Rank[z]
    <3>1. Rank[z] - Rank[y] \in T BY <2>1
    <3>2. Rank[z] - Rank[y] <= Rank[z] - Rank[x] BY <1>3, <1>4, <3>1
    <3> QED BY <1>1, <3>2, RankOrders
  <2>2. CASE ~(Rank[y] <= Rank[z]) BY <1>1, <1>4, <2>2, RankOrders
  <2> QED BY <2>1, <2>2
<1> QED BY <1>4, <1>5

LEMMA LastExists ==
    ASSUME NEW rows \in SUBSET DOMAIN Rank, rows # {}, NEW z \in DOMAIN Rank,
           \A x \in rows : Rank[x] <= Rank[z]
    PROVE  LastOf(rows) \in rows /\ \A y \in rows : Rank[y] <= Rank[LastOf(rows)]
<1> DEFINE T == {Rank[x] : x \in rows}
<1>1. T \in SUBSET (0 .. Rank[z]) /\ T # {} /\ Rank[z] \in Nat BY RankOrders
<1>2. PICK t \in T : \A s \in T : s <= t
  <2> HIDE DEF T
  <2> QED BY <1>1, GreatestExists
<1> QED BY <1>2 DEF LastOf

(* What a page is: rows from the first of them on; if it leaves rows for   *)
(* a next one, its last row comes before all of those.                     *)
LEMMA FrontIs ==
    ASSUME NEW rows \in SUBSET DOMAIN Rank, Front(rows) # rows
    PROVE  /\ LastOf(Front(rows)) \in Front(rows)
           /\ \A x \in rows : x \in Front(rows) <=> Rank[x] <= Rank[LastOf(Front(rows))]
<1> DEFINE F == Front(rows)
<1>1. F \subseteq rows /\ F \in SUBSET DOMAIN Rank BY DEF Front
<1>2. PICK z \in rows : z \notin F BY <1>1
<1>3. ASSUME NEW x \in rows, NEW y \in F, Rank[x] <= Rank[y] PROVE x \in F
  <2>1. Cardinality(Before(x, rows)) <= Cardinality(Before(y, rows)) BY <1>1, <1>3, BeforeGrows
  <2>2. /\ Cardinality(Before(x, rows)) \in Nat /\ Cardinality(Before(y, rows)) \in Nat
        /\ Cardinality(Before(y, rows)) < PageSize
    BY <1>1, BeforeIsFinite DEF Front
  <2> QED BY <2>1, <2>2, RankOrders DEF Front
<1>4. F # {}
  <2>1. PICK x \in rows : \A y \in rows : Rank[x] <= Rank[y] BY <1>2, FirstExists
  <2>2. Before(x, rows) = {} BY <2>1, RankOrders DEF Before
  <2>3. Cardinality(Before(x, rows)) = 0 BY <2>2, FS_EmptySet
  <2>4. x \in F BY <2>3, RankOrders DEF Front
  <2> QED BY <2>4
<1>5. \A x \in F : Rank[x] <= Rank[z] BY <1>1, <1>2, <1>3, RankOrders
<1> HIDE DEF F
<1>6. LastOf(F) \in F /\ \A y \in F : Rank[y] <= Rank[LastOf(F)] BY <1>1, <1>2, <1>4, <1>5, LastExists
<1> QED BY <1>1, <1>3, <1>6 DEF F

(* The invariant of a walk: until it ends, what it has got is what it was  *)
(* shown up to its cursor, and every row that was in each page's list up   *)
(* to there is among it.                                                   *)
Walk == [at : {"none", "begun", "walking", "refused", "done"},
         list : BrowserLists \cup {"none", "client stations"},
         by : Users \cup Keys \cup {None}, of : Farms \cup Plots \cup Sources \cup {None},
         next : DOMAIN Rank \cup {None},
         got : SUBSET DOMAIN Rank, twice : SUBSET DOMAIN Rank, common : SUBSET DOMAIN Rank]

WalkIsOfAList ==
    walk.at \in {"begun", "walking"} =>
        \/ walk.list \in BrowserLists /\ walk.by \in Users /\ walk.of \in ParentsOf(walk.list)
        \/ walk.list = "client stations" /\ walk.by \in Keys

GotUpToTheCursor ==
    /\ walk.at = "begun" => walk.next = None /\ walk.got = {}
    /\ walk.at = "walking" =>
         /\ walk.next # None
         /\ \A x \in walk.got : Rank[x] <= Rank[walk.next]
         /\ \A x \in walk.common : Rank[x] <= Rank[walk.next] => x \in walk.got

WalkInv ==
    /\ walk \in Walk /\ WalkIsOfAList
    /\ GotUpToTheCursor
    /\ walk.twice = {}
    /\ walk.at = "done" => walk.common \subseteq walk.got

(* A page of any known rows keeps it.                                      *)
LEMMA TakeKeeps ==
    ASSUME WalkInv, walk.at \in {"begun", "walking"}, NEW rows \in SUBSET DOMAIN Rank, Take(rows)
    PROVE  WalkInv'
<1> DEFINE behind == Behind(rows, walk.next)
           items == Front(behind)
           last == LastOf(items)
           next == IF items = behind THEN None ELSE last
           at == IF next = None THEN "done" ELSE "walking"
           common == IF walk.at = "begun" THEN rows ELSE walk.common \cap rows
<1>1. walk' = [walk EXCEPT !.at = at, !.next = next, !.got = @ \cup items,
                           !.twice = @ \cup (walk.got \cap items), !.common = common]
  BY DEF Take, PageOf
<1>2. behind \in SUBSET DOMAIN Rank /\ items \subseteq behind /\ behind \subseteq rows
  BY DEF Behind, Front
<1>3. items # behind => /\ last \in items
                        /\ \A x \in behind : x \in items <=> Rank[x] <= Rank[last]
  BY <1>2, FrontIs
<1> DEFINE cursor == walk.next
           got == walk.got
<1>0. /\ got \in SUBSET DOMAIN Rank /\ cursor \in DOMAIN Rank \cup {None}
      /\ walk.at = "begun" => cursor = None /\ got = {}
      /\ walk.at = "walking" => cursor # None /\ \A y \in got : Rank[y] <= Rank[cursor]
  BY DEF WalkInv, GotUpToTheCursor, Walk
<1>4. \A x \in behind, y \in got : Rank[y] < Rank[x]
  <2> SUFFICES ASSUME NEW x \in behind, NEW y \in got PROVE Rank[y] < Rank[x] OBVIOUS
  <2>1. x \in DOMAIN Rank /\ (cursor = None \/ Rank[x] > Rank[cursor]) BY <1>2 DEF Behind
  <2> HIDE DEF cursor, got, behind
  <2> QED BY <1>0, <2>1, RankOrders
<1>5. \A x \in rows : x \in behind \/ (walk.at = "walking" /\ Rank[x] <= Rank[cursor])
  <2> SUFFICES ASSUME NEW x \in rows, x \notin behind
               PROVE  walk.at = "walking" /\ Rank[x] <= Rank[cursor]
    OBVIOUS
  <2>1. cursor # None /\ ~(Rank[x] > Rank[cursor]) BY DEF Behind
  <2> HIDE DEF cursor, got, behind
  <2> QED BY <1>0, <2>1, RankOrders
<1>6. got \cap items = {}
  <2> HIDE DEF cursor, got, behind, items
  <2> QED BY <1>0, <1>2, <1>4, RankOrders
<1>7. common \in SUBSET rows /\ (walk.at = "walking" => common \subseteq walk.common) OBVIOUS
<1>8. next \in DOMAIN Rank \cup {None} /\ (items # behind => next = last /\ next # None)
  BY <1>2, <1>3, RankOrders
<1> HIDE DEF behind, items, last, common
<1>9. walk' \in Walk
  <2>1. /\ at \in {"walking", "done"} /\ next \in DOMAIN Rank \cup {None}
        /\ walk.got \cup items \in SUBSET DOMAIN Rank
        /\ walk.twice \cup (walk.got \cap items) \in SUBSET DOMAIN Rank
        /\ common \in SUBSET DOMAIN Rank
    BY <1>2, <1>7, <1>8 DEF WalkInv, Walk
  <2> HIDE DEF at, next
  <2>2. walk' = [at |-> at, list |-> walk.list, by |-> walk.by, of |-> walk.of, next |-> next,
                 got |-> walk.got \cup items, twice |-> walk.twice \cup (walk.got \cap items),
                 common |-> common]
    BY <1>1 DEF WalkInv, Walk
  <2> QED BY <2>1, <2>2 DEF WalkInv, Walk
<1>10. /\ walk'.at = at /\ walk'.next = next /\ walk'.got = walk.got \cup items
       /\ walk'.twice = {} /\ walk'.common = common
       /\ walk'.list = walk.list /\ walk'.by = walk.by /\ walk'.of = walk.of
  BY <1>1, <1>6 DEF WalkInv, Walk
<1>11. WalkIsOfAList' BY <1>10 DEF WalkInv, WalkIsOfAList
<1>12. CASE items = behind
  <2>1. walk'.at = "done" BY <1>10, <1>12
  <2>2. common \subseteq walk.got \cup items
    BY <1>5, <1>7, <1>12 DEF WalkInv, GotUpToTheCursor
  <2> QED BY <1>9, <1>10, <1>11, <2>1, <2>2 DEF WalkInv, GotUpToTheCursor
<1>13. CASE items # behind
  <2>1. walk'.at = "walking" /\ next = last /\ next # None BY <1>8, <1>10, <1>13
  <2>2. \A x \in walk.got \cup items : Rank[x] <= Rank[last]
    <3> HIDE DEF cursor
    <3>1. \A x \in items : Rank[x] <= Rank[last] BY <1>2, <1>3, <1>13
    <3>2. last \in behind /\ last \in DOMAIN Rank BY <1>2, <1>3, <1>13
    <3>3. \A x \in got : Rank[x] < Rank[last] BY <1>4, <3>2
    <3>4. got \subseteq DOMAIN Rank BY <1>0
    <3> HIDE DEF got
    <3>5. \A x \in got : Rank[x] <= Rank[last] BY <3>2, <3>3, <3>4, RankOrders
    <3> QED BY <3>1, <3>5 DEF got
  <2>3. ASSUME NEW x \in common, Rank[x] <= Rank[last] PROVE x \in walk.got \cup items
    <3>1. CASE x \in behind BY <1>3, <1>13, <2>3, <3>1
    <3>2. CASE x \notin behind
      BY <1>5, <1>7, <2>3, <3>2 DEF WalkInv, GotUpToTheCursor
    <3> QED BY <3>1, <3>2
  <2> QED BY <1>9, <1>10, <1>11, <2>1, <2>2, <2>3 DEF WalkInv, GotUpToTheCursor
<1> QED BY <1>12, <1>13

(* A station that has a row has a plot.                                    *)
RowsHavePlots == \A st \in Stations : station[st].source # None => station[st].plot \in Plots

PlotsStay == \A st \in Stations : station'[st] = station[st] \/ station'[st].plot \in Plots

LEMMA WithRowsPlots ==
    ASSUME NEW s, NEW plot \in Plots, NEW rows, NEW st \in Stations
    PROVE  WithRows(rows, s, plot)[st] = station[st] \/ WithRows(rows, s, plot)[st].plot \in Plots
BY DEF WithRows

LEMMA PlotsKept == ASSUME TypeInv, RowsHavePlots, [Next]_vars PROVE RowsHavePlots'
<1>1. ASSUME UNCHANGED station PROVE PlotsStay BY <1>1 DEF PlotsStay
<1>2. ASSUME NEW q \in Requests, (\E u \in Users : Authenticate(q, u)) \/ Fail(q) \/ KeyStep(q)
      PROVE  UNCHANGED station
  BY <1>2, QuietFrame, KeyFrame DEF Tables, hierarchy
<1>3. ASSUME NEW q \in Requests, RegistryStep(q) PROVE PlotsStay
  <2>1. ASSUME NEW s \in Sources, CreateSource(q, s) PROVE PlotsStay
    <3> DEFINE taken == TakenOver(request[q].plot, request[q].codes)
    <3>1. request[q].plot \in Plots
      BY <2>1 DEF CreateSource, Continues, TypeInv, RequestsOK, RequestsAreWhole
    <3>2. PICK rows \in NewRows(Stations, request[q].codes \ CodesIn(taken)) :
            station' = [st \in Stations |-> IF st \in taken THEN [station[st] EXCEPT !.source = s]
                                           ELSE WithRows(rows, s, request[q].plot)[st]]
      BY <2>1 DEF CreateSource
    <3>3. \A st \in taken : station[st] \in Station /\ station[st].source = System
      BY DEF TakenOver, StationsOf, TypeInv, TablesOK
    <3> HIDE DEF taken
    <3>4. ASSUME NEW st \in Stations, st \in taken PROVE station'[st].plot \in Plots
      <4>1. station[st].plot \in Plots BY <3>3, <3>4, AccessAssumption DEF RowsHavePlots
      <4>2. station'[st] = [station[st] EXCEPT !.source = s] BY <3>2, <3>4
      <4> QED BY <3>3, <3>4, <4>1, <4>2 DEF Station
    <3>5. ASSUME NEW st \in Stations, st \notin taken
          PROVE  station'[st] = station[st] \/ station'[st].plot \in Plots
      <4>1. station'[st] = WithRows(rows, s, request[q].plot)[st] BY <3>2, <3>5
      <4> QED BY <3>1, <4>1, WithRowsPlots
    <3> QED BY <3>4, <3>5 DEF PlotsStay
  <2>2. ASSUME ImportStations(q) PROVE PlotsStay
    <3>1. ASSUME NEW plot \in Plots, NEW codes, NEW rows \in NewRows(Stations, codes),
                 station' = WithRows(rows, request[q].source, plot)
          PROVE  PlotsStay
      BY <3>1, WithRowsPlots DEF PlotsStay
    <3> QED BY <1>1, <2>2, <3>1 DEF ImportStations
  <2>3. ASSUME NEW s \in Sources, RemoveSource(q, s) PROVE UNCHANGED station
    BY <2>3 DEF RemoveSource, hierarchy
  <2> QED BY <1>1, <1>3, <2>1, <2>2, <2>3, RegistryMovesStations
<1>4. ASSUME NEW plot \in Plots, SeedStations(plot) PROVE PlotsStay
  <2>1. PICK rows \in NewRows(Stations, Codes \ CodesIn(StationsOf(System))) :
          station' = WithRows(rows, System, plot)
    BY <1>4 DEF SeedStations
  <2> QED BY <2>1, WithRowsPlots DEF PlotsStay
<1>5. PlotsStay => RowsHavePlots' BY DEF PlotsStay, RowsHavePlots
<1>6. UNCHANGED vars => UNCHANGED station BY DEF vars, hierarchy
<1> QED BY <1>1, <1>2, <1>3, <1>4, <1>5, <1>6, AccountFrame, UpkeepFrame DEF Next, hierarchy

(* The rows of every list are known.                                       *)
LEMMA ReadScopePlots ==
    ASSUME TypeInv, RowsHavePlots, NEW p, NEW st \in ReadScope(p)
    PROVE  st \in Stations /\ station[st].plot \in Plots
BY AccessAssumption DEF ReadScope, Readable, RowsHavePlots

LEMMA RowsAreKnown ==
    ASSUME TypeInv, RowsHavePlots, NEW p, NEW list \in BrowserLists, NEW of \in ParentsOf(list)
    PROVE  RowsOf(p, list, of) \subseteq DOMAIN Rank
<1>1. DOMAIN Rank = Farms \cup Plots \cup Stations \cup Sources \cup Users BY ListAssumption
<1>2. FarmsFor(p) \subseteq Farms BY ReadScopePlots, AccessAssumption DEF FarmsFor
<1>3. PlotsFor(p, of) \subseteq Plots BY ReadScopePlots DEF PlotsFor
<1>4. StationsFor(p, of) \subseteq Stations BY ReadScopePlots DEF StationsFor
<1>5. Listed(p) \subseteq Sources BY DEF Listed
<1>6. GrantsOf(of) \subseteq Users /\ Candidates(of) \subseteq Users /\ AllUsers \subseteq Users
  BY DEF GrantsOf, Candidates, Eligible, AllUsers
<1> QED BY <1>1, <1>2, <1>3, <1>4, <1>5, <1>6 DEF RowsOf, BrowserLists

LEMMA ClientRowsAreKnown ==
    ASSUME TypeInv, NEW k \in Keys PROVE ClientStations(k) \subseteq DOMAIN Rank
BY ListAssumption DEF ClientStations, TypeInv, TablesOK, Key

LEMMA ListStepKeeps == ASSUME TypeInv, RowsHavePlots, WalkInv, ListStep PROVE WalkInv'
<1>1. ASSUME Refused PROVE WalkInv'
  <2>1. walk' = [walk EXCEPT !.at = "refused"] BY <1>1 DEF Refused
  <2> QED BY <2>1 DEF WalkInv, Walk, WalkIsOfAList, GotUpToTheCursor
<1>2. ASSUME BrowserPage PROVE WalkInv'
  <2>1. walk.list # "client stations" BY <1>2 DEF BrowserPage, BrowserLists
  <2>2. walk.of \in ParentsOf(walk.list) BY <1>2, <2>1 DEF BrowserPage, WalkInv, WalkIsOfAList
  <2>3. RowsOf(PrincipalOf(walk.by), walk.list, walk.of) \subseteq DOMAIN Rank
    BY <1>2, <2>2, RowsAreKnown DEF BrowserPage
  <2> QED BY <1>1, <1>2, <2>3, TakeKeeps DEF BrowserPage
<1>3. ASSUME ClientPage PROVE WalkInv'
  <2>1. walk.by \in Keys BY <1>3 DEF ClientPage, BrowserLists, WalkInv, WalkIsOfAList
  <2> QED BY <1>1, <1>3, <2>1, ClientRowsAreKnown, TakeKeeps DEF ClientPage
<1> QED BY <1>2, <1>3 DEF ListStep

LEMMA WalkBegins == ASSUME walk = NoWalk \/ Opened PROVE WalkInv
<1>1. CASE walk = NoWalk
  BY <1>1 DEF NoWalk, WalkInv, Walk, WalkIsOfAList, GotUpToTheCursor
<1>2. ASSUME NEW list \in BrowserLists, NEW u \in Users, NEW of \in ParentsOf(list),
             walk = WalkOf(list, u, of)
      PROVE  WalkInv
  <2>1. of \in Farms \cup Plots \cup Sources \cup {None} BY DEF ParentsOf
  <2>2. walk \in Walk /\ WalkIsOfAList BY <1>2, <2>1 DEF WalkOf, NoWalk, Walk, WalkIsOfAList
  <2> QED BY <1>2, <2>2 DEF WalkOf, NoWalk, WalkInv, GotUpToTheCursor
<1>3. ASSUME NEW k \in Keys, walk = WalkOf("client stations", k, None) PROVE WalkInv
  BY <1>3 DEF WalkOf, NoWalk, WalkInv, Walk, WalkIsOfAList, GotUpToTheCursor
<1> QED BY <1>1, <1>2, <1>3 DEF Opened

(* A client that walks any list to its end, while everything else goes on, *)
(* has each row that was there all along, once; for any page size, lists   *)
(* of any length and any order of their rows.                              *)
THEOREM WalkedListIsComplete == ListSpec => []ListIsComplete
<1> DEFINE Inv == TypeInv /\ RowsHavePlots /\ WalkInv
<1>1. ListInit => Inv
  <2>1. Init => RowsHavePlots BY DEF Init, RowsHavePlots
  <2> QED BY <2>1, InitTyped, WalkBegins DEF ListInit
<1>2. ASSUME Inv, [ListNext]_listVars PROVE Inv'
  <2>1. CASE Next /\ UNCHANGED walk
    BY <1>2, <2>1, NextTyped, PlotsKept DEF WalkInv, WalkIsOfAList, GotUpToTheCursor
  <2>2. CASE ListStep /\ UNCHANGED vars
    <3>1. [Next]_vars BY <2>2
    <3> QED BY <1>2, <2>2, <3>1, NextTyped, PlotsKept, ListStepKeeps
  <2>3. CASE UNCHANGED listVars
    <3>1. [Next]_vars /\ UNCHANGED walk BY <2>3 DEF listVars
    <3> QED BY <1>2, <3>1, NextTyped, PlotsKept DEF WalkInv, WalkIsOfAList, GotUpToTheCursor
  <2> QED BY <1>2, <2>1, <2>2, <2>3 DEF ListNext
<1>3. Inv => ListIsComplete BY DEF WalkInv, ListIsComplete
<1> QED BY <1>1, <1>2, <1>3, PTL DEF ListSpec
=============================================================================
