------------------------------ MODULE MCAccess ------------------------------
(***************************************************************************)
(* Access for TLC: a super admin, a farmer and a client developer, one     *)
(* farm with one plot, two stations, one source, three keys, and two       *)
(* requests at a time; or one request while a client walks a list.         *)
(***************************************************************************)
EXTENDS AccessLists, TLC

CONSTANTS root, farmer, developer, farm1, plot1, st1, st2, c1, c2, s1, k1,
          MaxChanges  \* bound on the steps that change a row

MCFarmOf == plot1 :> farm1

MCRank == farm1 :> 1 @@ plot1 :> 2 @@ st1 :> 3 @@ st2 :> 4 @@ s1 :> 5
          @@ root :> 6 @@ farmer :> 7 @@ developer :> 8

MCSymmetry == Permutations(Requests) \cup Permutations(Keys \ {k1})

VARIABLE changes  \* the steps that have changed a row

NoKey == [owner |-> None, scope |-> {}, replaces |-> None, state |-> "unused", old |-> FALSE]

mcvars == <<listVars, changes>>

(* Three deployments in use, which the actions of Access lead to: one with *)
(* its demo stations only, the same with a second admin, and one whose     *)
(* farmer has shared a source with a developer who has a key for it.       *)
InUse(second) ==
    /\ user = [u \in Users |-> [role |-> CASE u = root -> "ADMIN" [] u = farmer -> second
                                           [] OTHER -> "CLIENT_DEVELOPER",
                                status |-> "ACTIVE", deletion |-> "no"]]
    /\ holder = root
    /\ farms = {farm1} /\ plots = {plot1}
    /\ membership = {m \in {<<farmer, farm1>>} : second = "FARMER"} /\ clientGrant = {}
    /\ request = [q \in Requests |-> None]

Row(s, c) == [source |-> s, code |-> c, plot |-> plot1]

Demo(second) ==
    /\ InUse(second)
    /\ key = [k \in Keys |-> NoKey]
    /\ source = [s \in Sources |-> [owner |-> None, state |-> "unused"]]
    /\ station = st1 :> Row(System, c1) @@ st2 :> [source |-> None, code |-> None, plot |-> None]
    /\ grant = {} /\ share = {}

Shared(stations) ==
    /\ InUse("FARMER")
    /\ key = [k \in Keys |-> IF k = k1 THEN [NoKey EXCEPT !.owner = developer, !.scope = stations,
                                                         !.state = "live"] ELSE NoKey]
    /\ source = [s \in Sources |-> [owner |-> farmer, state |-> "live"]]
    /\ station = st1 :> Row(s1, c1) @@ st2 :> (IF st2 \in stations THEN Row(s1, c2) ELSE
                                               [source |-> None, code |-> None, plot |-> None])
    /\ grant = {<<s1, developer>>}
    /\ share = {<<s1, developer, st>> : st \in stations}

(* From nothing four changes, from a deployment in use two.               *)
Working ==
    \/ Init /\ changes = 0
    \/ (Demo("FARMER") \/ Demo("ADMIN") \/ Shared({st1})) /\ changes = 2

(* The lists that have rows to page through, with their readers.           *)
Walks == {<<"farms", farmer, None>>, <<"plots", farmer, farm1>>, <<"stations", farmer, plot1>>,
          <<"stations", root, plot1>>, <<"sources", root, None>>, <<"grants", farmer, s1>>,
          <<"candidates", farmer, s1>>, <<"users", root, None>>, <<"client stations", k1, None>>}

MCInit ==
    \/ Working /\ walk = NoWalk
    \/ /\ Shared({st1, st2}) /\ changes = 2
       /\ \E w \in Walks : walk = WalkOf(w[1], w[2], w[3])

Rows == <<user, holder, farms, plots, membership, clientGrant, key, source, station, grant, share>>

OneRequest == walk = NoWalk \/ Cardinality({q \in Requests : request'[q] # None}) <= 1

MCNext ==
    \/ /\ changes < MaxChanges
       /\ Next
       /\ OneRequest
       /\ changes' = changes + (IF Rows' = Rows THEN 0 ELSE 1)
       /\ UNCHANGED walk
    \/ ListStep /\ UNCHANGED <<vars, changes>>

MCSpec == MCInit /\ [][MCNext]_mcvars
=============================================================================
