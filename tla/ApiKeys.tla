------------------------------ MODULE ApiKeys -------------------------------
(***************************************************************************)
(* The keys of client developers: creation, rotation and revocation        *)
(* (src/backend/src/api-keys/api-key.service.ts).  Creation and revocation *)
(* run READ COMMITTED, rotation SERIALIZABLE after a read outside its      *)
(* transaction.                                                            *)
(***************************************************************************)
EXTENDS AccessTables

(* requireCurrentGrants: the stations u may scope a key to, by a grant of  *)
(* its own or a share of their source.                                     *)
Granted(u) == {st \in Stations : <<u, st>> \in clientGrant
                                 \/ \E s \in Sources : <<s, u, st>> \in share}

(* The row a creation or a rotation writes.                                *)
NewKey(u, scope, replaced) ==
    [owner |-> u, scope |-> scope, replaces |-> replaced, state |-> "live", old |-> FALSE]

(* revokedAt is null.                                                      *)
Unrevoked(k) == key[k].state \in {"live", "expired"}

(* create: the grants are read ...                                         *)
CheckKeyGrants(q, stations) ==
    /\ Enters(q, "createKey")
    /\ stations \subseteq Granted(request[q].by.user)
    /\ request' = [request EXCEPT ![q].at = "createKey", ![q].stations = stations]
    /\ UNCHANGED <<accounts, hierarchy, membership, clientGrant, key, sharing>>

(* ... and the key is written.                                             *)
CreateKey(q, k) ==
    /\ Continues(q, "createKey")
    /\ key[k].state = "unused"
    /\ key' = [key EXCEPT ![k] = NewKey(request[q].by.user, request[q].stations, None)]
    /\ Done(q)
    /\ UNCHANGED <<accounts, hierarchy, membership, clientGrant, sharing>>

(* rotate: the key and its scopes are read ...                             *)
ReadKey(q, k) ==
    /\ Enters(q, "rotate")
    /\ key[k].owner = request[q].by.user
    /\ Unrevoked(k)
    /\ request' = [request EXCEPT ![q].at = "rotate", ![q].key = k, ![q].stations = key[k].scope]
    /\ UNCHANGED <<accounts, hierarchy, membership, clientGrant, key, sharing>>

(* The conditional update that revokes the old key.  Mutant: it relies on  *)
(* what was read before the transaction.                                   *)
WasFound(k) == key[k].state # "unused"

StillUnrevoked(k) == Unrevoked(k)

(* ... and, if its stations are still granted and nobody has revoked it,   *)
(* it is revoked and replaced in one transaction.                          *)
Rotate(q, new) ==
    LET old == request[q].key
    IN  /\ Continues(q, "rotate")
        /\ request[q].stations \subseteq Granted(request[q].by.user)
        /\ StillUnrevoked(old)
        /\ key[new].state = "unused"
        /\ key' = [key EXCEPT ![old].state = "revoked",
                              ![new] = NewKey(request[q].by.user, request[q].stations, old)]
        /\ Done(q)
        /\ UNCHANGED <<accounts, hierarchy, membership, clientGrant, sharing>>

(* revoke, by the owner or an admin ...                                    *)
FindKey(q, k) ==
    /\ Enters(q, "revokeKey")
    /\ Unrevoked(k)
    /\ request[q].by.role = "ADMIN" \/ key[k].owner = request[q].by.user
    /\ request' = [request EXCEPT ![q].at = "revokeKey", ![q].key = k]
    /\ UNCHANGED <<accounts, hierarchy, membership, clientGrant, key, sharing>>

(* ... which writes nothing if the key has been revoked since.             *)
RevokeKey(q) ==
    LET k == request[q].key
    IN  /\ Continues(q, "revokeKey")
        /\ key' = IF Unrevoked(k) THEN [key EXCEPT ![k].state = "revoked"] ELSE key
        /\ Done(q)
        /\ UNCHANGED <<accounts, hierarchy, membership, clientGrant, sharing>>

KeyStep(q) ==
    \/ \E stations \in SUBSET Stations : CheckKeyGrants(q, stations)
    \/ \E k \in Keys : CreateKey(q, k) \/ ReadKey(q, k) \/ Rotate(q, k) \/ FindKey(q, k)
    \/ RevokeKey(q)
=============================================================================
