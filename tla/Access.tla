------------------------------- MODULE Access -------------------------------
(***************************************************************************)
(* Accounts, API keys and data sources together: the requests of all of    *)
(* them run at once on the same rows, so that an account changes its role, *)
(* a key is revoked or a source is removed while another request works     *)
(* with what it read before.                                               *)
(***************************************************************************)
EXTENDS Accounts, ApiKeys, SourceRegistry

Next ==
    \/ \E q \in Requests :
         \/ \E u \in Users : Authenticate(q, u)
         \/ AccountStep(q) \/ KeyStep(q) \/ RegistryStep(q) \/ Fail(q)
    \/ \E plot \in Plots : SeedStations(plot)
    \/ Upkeep

Spec == Init /\ [][Next]_vars

-----------------------------------------------------------------------------
(* There is a super admin from the bootstrap on, and the account that      *)
(* holds the authority is an admin that nobody has disabled: whatever      *)
(* races between a transfer, a change of the successor, a deletion, the    *)
(* retention and a recovery (authority.service.ts, identity.service.ts).   *)
SuperAdminStands ==
    holder # None => user[holder].role = "ADMIN" /\ user[holder].status # "DISABLED"

(* An account becomes an admin only by the hand of who holds the authority *)
(* at that moment: not by a request that its former holder began before he *)
(* transferred it, nor by any admin (createUser, updateUser).              *)
OnlyTheHolderMakesAdmins ==
    [][\A u \in Users :
          user'[u].role = "ADMIN" /\ user[u].role # "ADMIN" /\ holder # None
            => \E q \in Requests : /\ request[q] # None /\ request'[q] = None
                                   /\ request[q].by.user = holder]_vars

(* A station grant belongs to a client developer: a change of role and a   *)
(* grant that race leave no grant behind on an account that may not hold   *)
(* one (updateUser, setStationGrant).                                      *)
StationGrantsFitTheRole ==
    \A g \in clientGrant : user[g[1]].role = "CLIENT_DEVELOPER"

(* A share of a source opens stations of that source only, although        *)
(* stations change hands when a new source takes them over and the         *)
(* stations of a share are checked before they are written                 *)
(* (replaceGrantStations, createTransaction).                              *)
SharedStationIsOfItsSource ==
    \A h \in share : station[h[3]].source = h[1]

(* A key is replaced at most once, however many rotations and revocations  *)
(* of it run at the same time, so that a rotation leaves one key where     *)
(* there was one (ApiKeyService.rotate).                                   *)
KeyIsReplacedOnce ==
    \A k \in Keys : Cardinality({new \in Keys : key[new].replaces = k}) <= 1

(* Once a source is removed no station is added to it and it never comes   *)
(* back, though an import found it live before it called the upstream      *)
(* (importStations, remove).                                               *)
RemovedSourceIsClosed ==
    [][\A s \in Sources : source[s].state = "removed" =>
          /\ source'[s] = source[s]
          /\ {st \in Stations : station'[st].source = s} \subseteq StationsOf(s)]_vars

-----------------------------------------------------------------------------
(* A statement of the repository that the code does not keep               *)

(* What toDto asserts of every source that a list shows, on pain of an     *)
(* internal error for the whole list: its owner is an admin or a farmer    *)
(* (data-source.repository.ts, "Data source owner is invalid").            *)
ListedOwnersAreValid ==
    \A u \in Users : user[u].status = "ACTIVE" /\ user[u].role \in {"ADMIN", "FARMER"}
        => \A s \in Listed(PrincipalOf(u)) : ValidOwner(s)
=============================================================================
