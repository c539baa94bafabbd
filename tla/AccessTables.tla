---------------------------- MODULE AccessTables ----------------------------
(***************************************************************************)
(* The rows that decide who may do what: accounts, the super admin         *)
(* authority, farms, memberships, station grants, API keys, data sources,  *)
(* their stations and their shares (src/backend/prisma/schema.prisma); and *)
(* the requests that change them.                                          *)
(*                                                                         *)
(* A request passes the guard of its route, which attaches the principal   *)
(* it reads then; the handler works with that principal however old it is. *)
(* A SERIALIZABLE transaction is one step.  A READ COMMITTED one reads in  *)
(* one step and writes in another, so that what it read may have changed.  *)
(* Emails, names, passwords and ciphertexts are left out.                  *)
(***************************************************************************)
EXTENDS Integers, FiniteSets

CONSTANTS Users, Farms, Plots, FarmOf, Stations, Codes, Sources, Keys, Requests, System, None

ASSUME AccessAssumption ==
    /\ FarmOf \in [Plots -> Farms]
    /\ System \notin Sources
    /\ None \notin Users /\ None \notin Farms /\ None \notin Plots /\ None \notin Stations
    /\ None \notin Codes /\ None \notin Sources /\ None \notin Keys /\ None # System

VARIABLES
    user,        \* the User rows
    holder,      \* SystemAuthority.holderUserId, None before the bootstrap
    farms,       \* the Farm rows
    plots,       \* the Plot rows
    membership,  \* FarmMembership: <<user, farm>>
    clientGrant, \* ClientStationGrant: <<user, station>>
    key,         \* the ApiKey rows with their scopes
    source,      \* the DataSource rows of kind MANAGED
    station,     \* the Station rows
    grant,       \* DataSourceGrant: <<source, user>>
    share,       \* DataSourceGrantStation: <<source, user, station>>
    request      \* the requests being served

accounts == <<user, holder>>
hierarchy == <<farms, plots, station>>
sharing == <<source, grant, share>>
vars == <<accounts, hierarchy, membership, clientGrant, key, sharing, request>>

Roles == {"ADMIN", "FARMER", "CLIENT_DEVELOPER"}
Statuses == {"ACTIVE", "DISABLED", "PENDING_PASSWORD_CHANGE"}

(* absent: there is no such row.  deletion: deletionRequestedAt and        *)
(* anonymizedAt; it is due once 90 days have passed.                       *)
User == [role : Roles, status : Statuses \cup {"absent"},
         deletion : {"no", "requested", "due", "anonymized"}]

(* A key row: expired when expiresAt has passed and revokedAt is null, old *)
(* 90 days after either.  replaces is what the audit of a rotation records.*)
Key == [owner : Users \cup {None}, scope : SUBSET Stations, replaces : Keys \cup {None},
        state : {"unused", "live", "expired", "revoked", "purged"}, old : BOOLEAN]

Source == [owner : Users \cup {None}, state : {"unused", "live", "removed"}]

(* source is None where there is no row.                                   *)
Station == [source : Sources \cup {System, None}, code : Codes \cup {None},
            plot : Plots \cup {None}]

FarmMembership == Users \X Farms
ClientStationGrant == Users \X Stations
DataSourceGrant == Sources \X Users
DataSourceGrantStation == Sources \X Users \X Stations

Principal == [user : Users, role : Roles, super : BOOLEAN]

(* The routes with the roles that reach their handler: AdminAccessGuard    *)
(* for accounts, requireSupportedRole for sources, the role checks of the  *)
(* service for keys.                                                       *)
IdentityRoutes == {"createUser", "updateUser", "requestDeletion", "resetPassword",
                   "farmMembership", "stationGrant"}
AuthorityRoutes == {"transfer"}
SourceRoutes == {"createSource", "grant", "setGrantStations", "revoke", "revokeGrantStation",
                 "importStations", "remove"}
KeyRoutes == {"createKey", "rotate", "revokeKey"}

RolesOf(route) ==
    CASE route \in IdentityRoutes \cup AuthorityRoutes -> {"ADMIN"}
      [] route \in SourceRoutes -> {"ADMIN", "FARMER"}
      [] route = "revokeKey" -> {"ADMIN", "CLIENT_DEVELOPER"}
      [] OTHER -> {"CLIENT_DEVELOPER"}

(* A request: its principal and, once its first step has read what it      *)
(* needs, its route, its parameters and what it has read.  The parameters  *)
(* are chosen by that step, as nothing looks at them before.  named are    *)
(* the choices made by name, not by id.                                    *)
Steps == {"transfer", "createSource", "grant", "setGrantStations", "revoke",
          "revokeGrantStation", "importStations", "createKey", "rotate", "revokeKey"}

Request == [by : Principal, at : {"guarded"} \cup Steps, user : Users \cup {None},
            farm : Farms \cup {None}, plot : Plots \cup {None}, named : SUBSET {"farm", "plot"},
            source : Sources \cup {None}, stations : SUBSET Stations, codes : SUBSET Codes,
            station : Stations \cup {None}, key : Keys \cup {None}]

ASSUME NoRequestAssumption == None \notin Request

TypeOK ==
    /\ user \in [Users -> User]
    /\ holder \in Users \cup {None}
    /\ farms \subseteq Farms /\ plots \subseteq Plots
    /\ membership \subseteq FarmMembership
    /\ clientGrant \subseteq ClientStationGrant
    /\ key \in [Keys -> Key]
    /\ source \in [Sources -> Source]
    /\ station \in [Stations -> Station]
    /\ grant \subseteq DataSourceGrant
    /\ share \subseteq DataSourceGrantStation
    /\ request \in [Requests -> Request \cup {None}]

(* An empty database.                                                      *)
Init ==
    /\ user = [u \in Users |-> [role |-> "FARMER", status |-> "absent", deletion |-> "no"]]
    /\ holder = None
    /\ farms = {} /\ plots = {}
    /\ membership = {} /\ clientGrant = {}
    /\ key = [k \in Keys |-> [owner |-> None, scope |-> {}, replaces |-> None,
                              state |-> "unused", old |-> FALSE]]
    /\ source = [s \in Sources |-> [owner |-> None, state |-> "unused"]]
    /\ station = [st \in Stations |-> [source |-> None, code |-> None, plot |-> None]]
    /\ grant = {} /\ share = {}
    /\ request = [q \in Requests |-> None]

Exists(u) == user[u].status # "absent"

StationsOf(s) == {st \in Stations : station[st].source = s}

PrincipalOf(u) == [user |-> u, role |-> user[u].role, super |-> holder = u]

(* AccessTokenGuard: the account of the session is active; the principal   *)
(* is what the guard reads.  Sessions and their revocation are a module of *)
(* their own: whoever is active can sign in again.                         *)
Authenticate(q, u) ==
    /\ request[q] = None
    /\ user[u].status = "ACTIVE"
    /\ request' = [request EXCEPT ![q] =
           [by |-> PrincipalOf(u), at |-> "guarded", user |-> None, farm |-> None,
            plot |-> None, named |-> {}, source |-> None, stations |-> {}, codes |-> {},
            station |-> None, key |-> None]]
    /\ UNCHANGED <<accounts, hierarchy, membership, clientGrant, key, sharing>>

(* Request q has passed its guards and enters the handler of a route; or   *)
(* has done the first step of that handler.                                *)
Enters(q, route) ==
    request[q] # None /\ request[q].at = "guarded" /\ request[q].by.role \in RolesOf(route)

Continues(q, route) == request[q] # None /\ request[q].at = route

Done(q) == request' = [request EXCEPT ![q] = None]

(* A request ends with an error and changes nothing: a condition of its    *)
(* handler fails, or the database aborts its transaction for good.         *)
Fail(q) ==
    /\ request[q] # None
    /\ Done(q)
    /\ UNCHANGED <<accounts, hierarchy, membership, clientGrant, key, sharing>>
=============================================================================
