------------------------------ MODULE Accounts ------------------------------
(***************************************************************************)
(* Accounts and the super admin authority: provisioning, changes of role   *)
(* and status, deletion, reset of a password, memberships and station      *)
(* grants (src/backend/src/identity/identity.service.ts), the transfer of  *)
(* the authority (authority.service.ts), the two commands that create and  *)
(* recover its holder, and retention.  All of them run one SERIALIZABLE    *)
(* transaction; only the transfer also reads before it.                    *)
(***************************************************************************)
EXTENDS AccessTables

(* The holder's row: the tx of every identity route reads it again.        *)
(* Mutant: what the guard has read of the principal is taken for it.       *)
HolderAtTheGuard(q) == request[q].by.super

ByHolder(q) == holder = request[q].by.user

WithoutUser(rows, u) == {row \in rows : row[1] # u}

(* The shares of u on every source: their stations go with them.           *)
GrantsGoFor(u) ==
    /\ grant' = {g \in grant : g[2] # u}
    /\ share' = {h \in share : h[2] # u}

(* revokedAt is set on the keys of u that have none.                       *)
KeysRevokedFor(u) ==
    [k \in Keys |-> IF key[k].owner = u /\ key[k].state \in {"live", "expired"}
                    THEN [key[k] EXCEPT !.state = "revoked"] ELSE key[k]]

(* createUser: only the holder creates an admin, and still holds the       *)
(* authority in the transaction.                                           *)
CreateUser(q, u, role) ==
    /\ Enters(q, "createUser")
    /\ role = "ADMIN" => request[q].by.super /\ ByHolder(q)
    /\ ~Exists(u)
    /\ user' = [user EXCEPT ![u] = [role |-> role, status |-> "PENDING_PASSWORD_CHANGE",
                                    deletion |-> "no"]]
    /\ Done(q)
    /\ UNCHANGED <<holder, hierarchy, membership, clientGrant, key, sharing>>

(* Who may change the account u to a role: an admin neither himself nor    *)
(* another admin nor a role.                                               *)
MayChange(q, u, role) ==
    ~ByHolder(q) => u # request[q].by.user /\ user[u].role # "ADMIN" /\ role = user[u].role

(* The holder stays an enabled admin.  Mutant: who the holder is was read  *)
(* before.                                                                 *)
KeepsTheHolderAtTheGuard(q, u, role, status) ==
    request[q].by.super /\ request[q].by.user = u => role = "ADMIN" /\ status # "DISABLED"

KeepsTheHolder(q, u, role, status) == holder = u => role = "ADMIN" /\ status # "DISABLED"

(* A change of role drops what the new role cannot hold.  Mutant: the      *)
(* station grants are forgotten.                                           *)
RoleChangesButGrants(u, role) ==
    /\ membership' = IF role = "FARMER" THEN membership ELSE WithoutUser(membership, u)
    /\ UNCHANGED clientGrant
    /\ IF role = "FARMER" THEN UNCHANGED <<grant, share>> ELSE GrantsGoFor(u)

RoleChanges(u, role) ==
    /\ membership' = IF role = "FARMER" THEN membership ELSE WithoutUser(membership, u)
    /\ clientGrant' = IF role = "CLIENT_DEVELOPER" THEN clientGrant
                      ELSE WithoutUser(clientGrant, u)
    /\ IF role = "FARMER" THEN UNCHANGED <<grant, share>> ELSE GrantsGoFor(u)

(* updateUser with the role and the status its input gives, or those the   *)
(* account has.                                                            *)
UpdateUser(q, u, role, status) ==
    /\ Enters(q, "updateUser")
    /\ Exists(u)
    /\ MayChange(q, u, role)
    /\ KeepsTheHolder(q, u, role, status)
    /\ user' = [user EXCEPT ![u].role = role, ![u].status = status]
    /\ \/ /\ role = user[u].role /\ status = user[u].status
          /\ UNCHANGED key
       \/ /\ role # user[u].role \/ status # user[u].status
          /\ key' = KeysRevokedFor(u)
    /\ \/ role = user[u].role /\ UNCHANGED <<membership, clientGrant, grant, share>>
       \/ role # user[u].role /\ RoleChanges(u, role)
    /\ Done(q)
    /\ UNCHANGED <<holder, hierarchy, source>>

(* requestDeletion, which a repeated request leaves as it is.              *)
RequestDeletion(q, u) ==
    /\ Enters(q, "requestDeletion")
    /\ Exists(u)
    /\ ByHolder(q) /\ u # holder
    /\ user[u].deletion = "no"
    /\ user' = [user EXCEPT ![u].status = "DISABLED", ![u].deletion = "requested"]
    /\ key' = KeysRevokedFor(u)
    /\ membership' = WithoutUser(membership, u)
    /\ clientGrant' = WithoutUser(clientGrant, u)
    /\ GrantsGoFor(u)
    /\ Done(q)
    /\ UNCHANGED <<holder, hierarchy, source>>

(* resetPassword.  Its advisory lock and its 30 seconds of pause only keep *)
(* resets apart.                                                           *)
ResetPassword(q, u) ==
    /\ Enters(q, "resetPassword")
    /\ Exists(u)
    /\ u # request[q].by.user
    /\ ByHolder(q) \/ user[u].role # "ADMIN"
    /\ user' = [user EXCEPT ![u].status = "PENDING_PASSWORD_CHANGE"]
    /\ Done(q)
    /\ UNCHANGED <<holder, hierarchy, membership, clientGrant, key, sharing>>

(* setFarmMembership: only a farmer receives a membership.                 *)
SetFarmMembership(q, u, farm, assigned) ==
    /\ Enters(q, "farmMembership")
    /\ Exists(u) /\ farm \in farms
    /\ user[u].role = "FARMER"
    /\ membership' = IF assigned THEN membership \cup {<<u, farm>>}
                     ELSE membership \ {<<u, farm>>}
    /\ Done(q)
    /\ UNCHANGED <<accounts, hierarchy, clientGrant, key, sharing>>

(* setStationGrant: only a client developer receives a grant; it goes with *)
(* the scopes the keys of its user have on that station.                   *)
SetStationGrant(q, u, st, assigned) ==
    /\ Enters(q, "stationGrant")
    /\ Exists(u) /\ station[st].source # None
    /\ user[u].role = "CLIENT_DEVELOPER"
    /\ \/ assigned /\ clientGrant' = clientGrant \cup {<<u, st>>} /\ UNCHANGED key
       \/ /\ ~assigned
          /\ clientGrant' = clientGrant \ {<<u, st>>}
          /\ key' = [k \in Keys |-> IF key[k].owner = u
                                    THEN [key[k] EXCEPT !.scope = @ \ {st}] ELSE key[k]]
    /\ Done(q)
    /\ UNCHANGED <<accounts, hierarchy, membership, sharing>>

(* transfer: what it checks before its transaction ...                     *)
StartTransfer(q, u) ==
    /\ Enters(q, "transfer")
    /\ ByHolder(q)
    /\ u # request[q].by.user
    /\ request' = [request EXCEPT ![q].at = "transfer", ![q].user = u]
    /\ UNCHANGED <<accounts, hierarchy, membership, clientGrant, key, sharing>>

(* ... and the transaction: the password is right, the authority has not   *)
(* moved, the successor is an active admin.                                *)
Transfer(q) ==
    LET successor == request[q].user
    IN  /\ Continues(q, "transfer")
        /\ ByHolder(q)
        /\ user[successor].role = "ADMIN" /\ user[successor].status = "ACTIVE"
        /\ holder' = successor
        /\ Done(q)
        /\ UNCHANGED <<user, hierarchy, membership, clientGrant, key, sharing>>

(* bootstrapSuperAdmin: the first account.                                 *)
Bootstrap(u) ==
    /\ \A v \in Users : ~Exists(v)
    /\ holder = None
    /\ user' = [user EXCEPT ![u] = [role |-> "ADMIN", status |-> "ACTIVE", deletion |-> "no"]]
    /\ holder' = u
    /\ UNCHANGED <<hierarchy, membership, clientGrant, key, sharing, request>>

(* recoverSuperAdmin: a new password for the holder.                       *)
Recover ==
    /\ holder # None
    /\ user[holder].role = "ADMIN"
    /\ user' = [user EXCEPT ![holder].status = "ACTIVE"]
    /\ UNCHANGED <<holder, hierarchy, membership, clientGrant, key, sharing, request>>

(* The change of an issued password (AuthService.changePassword).          *)
ChangePassword(u) ==
    /\ user[u].status = "PENDING_PASSWORD_CHANGE"
    /\ user' = [user EXCEPT ![u].status = "ACTIVE"]
    /\ UNCHANGED <<holder, hierarchy, membership, clientGrant, key, sharing, request>>

(* RetentionService.run for the accounts and the keys that are due: an     *)
(* account is emptied, unless it holds the authority, and a key deleted.   *)
Anonymized(u) == user[u].deletion = "due" /\ u # holder

Purged(k) == key[k].old \/ (key[k].owner \in Users /\ Anonymized(key[k].owner))

Retention ==
    /\ user' = [u \in Users |-> IF Anonymized(u)
                                THEN [user[u] EXCEPT !.status = "DISABLED",
                                                     !.deletion = "anonymized"] ELSE user[u]]
    /\ key' = [k \in Keys |->
                 IF Purged(k) THEN [key[k] EXCEPT !.scope = {}, !.state = "purged", !.old = FALSE]
                 ELSE key[k]]
    /\ membership' = {m \in membership : ~Anonymized(m[1])}
    /\ clientGrant' = {g \in clientGrant : ~Anonymized(g[1])}
    /\ grant' = {g \in grant : ~Anonymized(g[2])}
    /\ share' = {h \in share : ~Anonymized(h[2])}
    /\ UNCHANGED <<holder, hierarchy, source, request>>

(* 90 days pass: the lifetime of a key, and the age at which retention     *)
(* takes revoked and expired keys and accounts to be deleted.              *)
NinetyDaysPass ==
    /\ user' = [u \in Users |-> IF user[u].deletion = "requested"
                                THEN [user[u] EXCEPT !.deletion = "due"] ELSE user[u]]
    /\ key' = [k \in Keys |->
                 CASE key[k].state = "live" -> [key[k] EXCEPT !.state = "expired"]
                   [] key[k].state \in {"expired", "revoked"} -> [key[k] EXCEPT !.old = TRUE]
                   [] OTHER -> key[k]]
    /\ UNCHANGED <<holder, hierarchy, membership, clientGrant, sharing, request>>

AccountStep(q) ==
    \/ \E u \in Users : \E role \in Roles : CreateUser(q, u, role)
    \/ \E u \in Users : \E role \in Roles : \E status \in Statuses : UpdateUser(q, u, role, status)
    \/ \E u \in Users : RequestDeletion(q, u) \/ ResetPassword(q, u) \/ StartTransfer(q, u)
    \/ \E u \in Users : \E assigned \in BOOLEAN :
         \/ \E farm \in Farms : SetFarmMembership(q, u, farm, assigned)
         \/ \E st \in Stations : SetStationGrant(q, u, st, assigned)
    \/ Transfer(q)

Upkeep ==
    \/ \E u \in Users : Bootstrap(u) \/ ChangePassword(u)
    \/ Recover \/ Retention \/ NinetyDaysPass
=============================================================================
