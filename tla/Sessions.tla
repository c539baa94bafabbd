------------------------------ MODULE Sessions ------------------------------
(***************************************************************************)
(* Refresh sessions and the accounts they belong to: login and its lockout *)
(* (src/backend/src/auth/auth.service.ts), rotation, reuse detection and   *)
(* logout (session.service.ts), the change of a password, and the changes  *)
(* an administrator makes (src/backend/src/identity/identity.service.ts).  *)
(*                                                                         *)
(* A request reads, then runs one transaction.  The transactions of auth/  *)
(* are READ COMMITTED: a statement picks its rows from what is committed   *)
(* when it starts, waits for the rows another transaction has locked, and  *)
(* then keeps those that still match.  The transactions of identity/ are   *)
(* SERIALIZABLE: they work on the snapshot of their first statement, and   *)
(* fail if a row they write has changed since.                             *)
(*                                                                         *)
(* A password is the number of the passwordHash; a family is named by its  *)
(* first session.                                                          *)
(***************************************************************************)
EXTENDS Integers, FiniteSets

CONSTANTS
    Users,
    SessionIds,
    Requests,      \* requests being served
    MaxFailed,     \* MAX_FAILED_LOGINS
    FailureBound,  \* bound on failedLoginCount
    MaxPassword,   \* bound on the number of passwords of a user
    None

ASSUME SessionsAssumption ==
    /\ MaxFailed \in Nat \ {0} /\ FailureBound \in Nat /\ MaxPassword \in Nat
    /\ MaxFailed <= FailureBound
    /\ None \notin Users /\ None \notin SessionIds

VARIABLES
    user,      \* the User rows
    session,   \* the Session rows, None where there is none
    request,   \* what each request has read and locked
    verified,  \* history: the password that was given when a family was opened
    issued     \* history: the last password of a user an administrator issued

vars == <<user, session, request, verified, issued>>

Statuses == {"ACTIVE", "DISABLED", "PENDING_PASSWORD_CHANGE"}

(* revokedAt and revokeReason are written together, and of the reasons the *)
(* code only ever asks for ROTATED.  expiresAt matters until revokedAt is  *)
(* written.                                                                *)
States == {"valid", "expired", "ROTATED", "revoked"}

(* lock is lockedUntil: null, in the future, in the past.                  *)
User == [password : 0 .. MaxPassword, status : Statuses, failed : 0 .. FailureBound,
         lock : {"none", "running", "over"}, leaving : BOOLEAN]

Session == [user : Users, family : SessionIds, state : States,
            next : SessionIds \cup {None}]

ASSUME NoneAssumption == None \notin Session

(* Where a request is: what it has read, or the transaction it is in.      *)
Reading == {"verified_login", "refused_login", "failed_login", "presented", "lost", "detected",
            "guarded", "verified_change"}
InTransaction == {"claimed", "revoking", "changing", "administering"}

(* The change an administrator's request makes, with the status it gives.  *)
Change == [kind : {"update", "reset", "deletion"}, status : Statuses]

Request == [at : {"idle"} \cup Reading \cup InTransaction,
            user : Users \cup {None}, session : SessionIds \cup {None},
            seen : 0 .. MaxPassword,      \* the passwordHash it has read
            victims : SUBSET SessionIds,  \* the sessions its updateMany found
            change : Change \cup {None},
            stale : BOOLEAN]              \* a row it writes has changed since its snapshot

Idle == [at |-> "idle", user |-> None, session |-> None, seen |-> 0, victims |-> {},
         change |-> None, stale |-> FALSE]

Init ==
    /\ user \in [Users -> {[password |-> 0, status |-> st, failed |-> 0, lock |-> "none",
                            leaving |-> FALSE] : st \in {"ACTIVE", "PENDING_PASSWORD_CHANGE"}}]
    /\ session = [s \in SessionIds |-> None]
    /\ request = [r \in Requests |-> Idle]
    /\ verified = [s \in SessionIds |-> 0]
    /\ issued = [u \in Users |-> 0]

-----------------------------------------------------------------------------
Exists(s) == session[s] # None
Unrevoked(s) == Exists(s) /\ session[s].state \in {"valid", "expired"}
Usable(s) == Exists(s) /\ session[s].state = "valid"
SessionsOf(u) == {s \in SessionIds : Unrevoked(s) /\ session[s].user = u}

(* Row locks: a rotation holds its session, a change of password its user. *)
SessionLocked(s) == \E r \in Requests : request[r].at = "claimed" /\ request[r].session = s
UserLocked(u) == \E r \in Requests : request[r].at = "changing" /\ request[r].user = u
AnyLocked(ss) == \E s \in ss : SessionLocked(s)

Now(r, place) == request[r].at = place
Become(r, place, u, s) ==
    request' = [request EXCEPT ![r] = [Idle EXCEPT !.at = place, !.user = u, !.session = s]]
Move(r, place) == request' = [request EXCEPT ![r].at = place]
Finish(r) == request' = [request EXCEPT ![r] = Idle]

(* Mutant: the transactions of identity/ are READ COMMITTED as well.       *)
NeverOutdated(q, us, ss) == FALSE

(* First updater wins: a SERIALIZABLE transaction that has yet to write    *)
(* one of the rows being committed will fail on it.                        *)
Outdated(q, us, ss) == Now(q, "administering") /\ (request[q].user \in us \/ request[q].victims \cap ss # {})

(* The commit of r (None for a request of one step) writes these rows.     *)
Commit(r, us, ss) ==
    request' = [q \in Requests |->
        IF q = r THEN Idle
        ELSE [request[q] EXCEPT !.stale = @ \/ Outdated(q, us, ss)]]

(* UPDATE ... WHERE "revokedAt" IS NULL, evaluated again on each row.      *)
RevokeAll(ss) ==
    session' = [s \in SessionIds |->
        IF s \in ss /\ Unrevoked(s) THEN [session[s] EXCEPT !.state = "revoked"] ELSE session[s]]

NewSession(u, family) ==
    [user |-> u, family |-> family, state |-> "valid", next |-> None]

-----------------------------------------------------------------------------
(* Login.                                                                  *)

CanAttempt(u) == user[u].status # "DISABLED" /\ user[u].lock # "running"

(* The user is read, then the password verified against the hash read.     *)
ReadLogin(r, u, matches) ==
    /\ Now(r, "idle")
    /\ request' = [request EXCEPT ![r] = [Idle EXCEPT
          !.user = u,
          !.seen = user[u].password,
          !.at = CASE ~CanAttempt(u) -> "refused_login"
                   [] CanAttempt(u) /\ matches -> "verified_login"
                   [] OTHER -> "failed_login"]]
    /\ UNCHANGED <<user, session, verified, issued>>

(* Mutant: the lock starts after the limit instead of at it.               *)
CountFailureLate(u) ==
    [user[u] EXCEPT !.failed = @ + 1,
                    !.lock = IF user[u].failed + 1 > MaxFailed THEN "running" ELSE @]

CountFailure(u) ==
    [user[u] EXCEPT !.failed = @ + 1,
                    !.lock = IF user[u].failed + 1 >= MaxFailed THEN "running" ELSE @]

(* recordFailedLogin: the increment is the database's.                     *)
RecordFailure(r) ==
    LET u == request[r].user IN
    /\ Now(r, "failed_login")
    /\ ~UserLocked(u) /\ user[u].failed < FailureBound
    /\ user' = [user EXCEPT ![u] = CountFailure(u)]
    /\ Commit(r, {u}, {})
    /\ UNCHANGED <<session, verified, issued>>

Refuse(r) ==
    /\ Now(r, "refused_login")
    /\ Finish(r)
    /\ UNCHANGED <<user, session, verified, issued>>

(* Mutant: only the password is compared again.                            *)
StillItsPasswordAtLogin(r) == user[request[r].user].password = request[r].seen

(* The where clause of the transaction that opens the session.             *)
StillWelcome(r) ==
    LET u == user[request[r].user] IN
    u.password = request[r].seen /\ u.status # "DISABLED" /\ u.lock # "running"

OpenSession(r, s) ==
    LET u == request[r].user IN
    /\ Now(r, "verified_login") /\ ~UserLocked(u) /\ StillWelcome(r)
    /\ ~Exists(s)
    /\ user' = [user EXCEPT ![u].failed = 0, ![u].lock = "none"]
    /\ session' = [session EXCEPT ![s] = NewSession(u, s)]
    /\ verified' = [verified EXCEPT ![s] = request[r].seen]
    /\ Commit(r, {u}, {})
    /\ UNCHANGED issued

MissSession(r) ==
    /\ Now(r, "verified_login") /\ ~UserLocked(request[r].user) /\ ~StillWelcome(r)
    /\ Finish(r)
    /\ UNCHANGED <<user, session, verified, issued>>

-----------------------------------------------------------------------------
(* Rotation of a refresh token, and the revocation of a reused family.     *)

Reused(s) == session[s].next # None \/ session[s].state = "ROTATED"

(* A token that is unknown, revoked, expired or of a disabled user is      *)
(* refused, and nothing changes.                                           *)
Present(r, s) ==
    /\ Now(r, "idle") /\ Exists(s)
    /\ \/ Reused(s) /\ Become(r, "detected", session[s].user, s)
       \/ /\ Usable(s)
          /\ user[session[s].user].status # "DISABLED"
          /\ Become(r, "presented", session[s].user, s)
    /\ UNCHANGED <<user, session, verified, issued>>

(* Mutant: the claim trusts the row that was read before.                  *)
CanClaimAnything(s) == TRUE

CanClaim(s) == Usable(s) /\ session[s].next = None

(* The conditional update waits for the lock and is evaluated after it.    *)
Claim(r) ==
    LET s == request[r].session IN
    /\ Now(r, "presented") /\ ~SessionLocked(s)
    /\ Move(r, IF CanClaim(s) THEN "claimed" ELSE "lost")
    /\ UNCHANGED <<user, session, verified, issued>>

Consumed(s, t) == [session[s] EXCEPT !.state = "ROTATED", !.next = t]

Rotate(r, t) ==
    LET s == request[r].session IN
    /\ Now(r, "claimed") /\ ~Exists(t)
    /\ session' = [session EXCEPT ![s] = Consumed(s, t),
                                  ![t] = NewSession(session[s].user, session[s].family)]
    /\ verified' = [verified EXCEPT ![t] = verified[s]]
    /\ Commit(r, {}, {s})
    /\ UNCHANGED <<user, issued>>

(* The claim was lost: the row is read again.                              *)
Reread(r) ==
    /\ Now(r, "lost")
    /\ IF Reused(request[r].session) THEN Move(r, "detected") ELSE Finish(r)
    /\ UNCHANGED <<user, session, verified, issued>>

(* revokeReusedFamily finds its rows, then revokes them.                   *)
FindFamily(r) ==
    /\ Now(r, "detected")
    /\ request' = [request EXCEPT ![r].at = "revoking",
          ![r].victims = {s \in SessionIds :
              Unrevoked(s) /\ session[s].family = session[request[r].session].family}]
    /\ UNCHANGED <<user, session, verified, issued>>

RevokeFamily(r) ==
    LET ss == request[r].victims IN
    /\ Now(r, "revoking") /\ ~AnyLocked(ss)
    /\ RevokeAll(ss)
    /\ Commit(r, {}, ss)
    /\ UNCHANGED <<user, verified, issued>>

(* logout revokes the session of the cookie and no other.                  *)
Logout(s) ==
    /\ Unrevoked(s) /\ ~SessionLocked(s)
    /\ RevokeAll({s})
    /\ Commit(None, {}, {s})
    /\ UNCHANGED <<user, verified, issued>>

-----------------------------------------------------------------------------
(* changePassword: the guard, the read of the user and the comparison with *)
(* its hash, then a transaction that locks the user's row first.           *)

Guard(r, s) ==
    /\ Now(r, "idle") /\ Usable(s)
    /\ user[session[s].user].status # "DISABLED"
    /\ Become(r, "guarded", session[s].user, s)
    /\ UNCHANGED <<user, session, verified, issued>>

VerifyPassword(r) ==
    /\ Now(r, "guarded")
    /\ request' = [request EXCEPT ![r].at = "verified_change",
                                  ![r].seen = user[request[r].user].password]
    /\ UNCHANGED <<user, session, verified, issued>>

(* The where clause of the update of the user.                             *)
StillItsPassword(r) ==
    LET u == user[request[r].user] IN u.password = request[r].seen /\ u.status # "DISABLED"

BeginChange(r) ==
    LET u == request[r].user IN
    /\ Now(r, "verified_change") /\ ~UserLocked(u)
    /\ IF StillItsPassword(r)
       THEN request' = [request EXCEPT ![r].at = "changing",
                                       ![r].victims = SessionsOf(u) \ {request[r].session}]
       ELSE Finish(r)
    /\ UNCHANGED <<user, session, verified, issued>>

ChangePassword(r) ==
    LET u == request[r].user
        ss == request[r].victims IN
    /\ Now(r, "changing") /\ ~AnyLocked(ss) /\ user[u].password < MaxPassword
    /\ user' = [user EXCEPT ![u].password = @ + 1, ![u].status = "ACTIVE",
                            ![u].failed = 0, ![u].lock = "none"]
    /\ RevokeAll(ss)
    /\ Commit(r, {u}, ss)
    /\ UNCHANGED <<verified, issued>>

-----------------------------------------------------------------------------
(* An administrator changes the account: updateUser with a status or a     *)
(* role, resetPassword, requestDeletion.                                   *)

BeginAdministration(r, u, change, victims) ==
    /\ Now(r, "idle")
    /\ request' = [request EXCEPT ![r] = [Idle EXCEPT !.at = "administering", !.user = u,
                                          !.victims = victims, !.change = change]]
    /\ UNCHANGED <<user, session, verified, issued>>

BeginUpdate(r, u, status, newRole) ==
    LET credentialsChanged == newRole \/ status # user[u].status IN
    BeginAdministration(r, u, [kind |-> "update", status |-> status],
                        IF credentialsChanged THEN SessionsOf(u) ELSE {})

(* The advisory lock admits one reset of a user at a time.                 *)
BeginReset(r, u) ==
    /\ ~\E q \in Requests : /\ Now(q, "administering") /\ request[q].user = u
                            /\ request[q].change.kind = "reset"
    /\ BeginAdministration(r, u,
          [kind |-> "reset", status |-> "PENDING_PASSWORD_CHANGE"], SessionsOf(u))

BeginDeletion(r, u) ==
    /\ ~user[u].leaving
    /\ BeginAdministration(r, u,
          [kind |-> "deletion", status |-> "DISABLED"], SessionsOf(u))

Administer(r) ==
    LET u == request[r].user
        ss == request[r].victims
        change == request[r].change
        reset == change.kind = "reset" IN
    /\ Now(r, "administering") /\ ~request[r].stale
    /\ ~AnyLocked(ss) /\ ~UserLocked(u)
    /\ reset => user[u].password < MaxPassword
    /\ user' = [user EXCEPT ![u].status = change.status,
                            ![u].password = IF reset THEN @ + 1 ELSE @,
                            ![u].leaving = @ \/ change.kind = "deletion"]
    /\ RevokeAll(ss)
    /\ issued' = [issued EXCEPT ![u] = IF reset THEN user'[u].password ELSE @]
    /\ Commit(r, {u}, ss)
    /\ UNCHANGED verified

-----------------------------------------------------------------------------
(* A request is lost with its process, or its transaction is rolled back:  *)
(* by a serialization failure, a deadlock or a lost connection.            *)
Abort(r) ==
    /\ request[r].at # "idle"
    /\ Finish(r)
    /\ UNCHANGED <<user, session, verified, issued>>

Expire(s) ==
    /\ Usable(s)
    /\ session' = [session EXCEPT ![s].state = "expired"]
    /\ UNCHANGED <<user, request, verified, issued>>

LockElapses(u) ==
    /\ user[u].lock = "running"
    /\ user' = [user EXCEPT ![u].lock = "over"]
    /\ UNCHANGED <<session, request, verified, issued>>

Next ==
    \/ \E r \in Requests :
          \/ RecordFailure(r) \/ Refuse(r) \/ MissSession(r)
          \/ Claim(r) \/ Reread(r) \/ FindFamily(r) \/ RevokeFamily(r)
          \/ VerifyPassword(r) \/ BeginChange(r) \/ ChangePassword(r)
          \/ Administer(r) \/ Abort(r)
    \/ \E r \in Requests, s \in SessionIds :
          OpenSession(r, s) \/ Present(r, s) \/ Rotate(r, s) \/ Guard(r, s)
    \/ \E r \in Requests, u \in Users :
          \/ \E matches \in BOOLEAN : ReadLogin(r, u, matches)
          \/ \E status \in Statuses, newRole \in BOOLEAN : BeginUpdate(r, u, status, newRole)
          \/ BeginReset(r, u) \/ BeginDeletion(r, u)
    \/ \E s \in SessionIds : Logout(s) \/ Expire(s)
    \/ \E u \in Users : LockElapses(u)

Spec == Init /\ [][Next]_vars

-----------------------------------------------------------------------------
(* Types; a request past its guard knows its user and, where it has one,   *)
(* its session, and a rotation in its transaction holds a session that is  *)
(* still unrevoked.                                                        *)
TypeOK ==
    /\ user \in [Users -> User]
    /\ session \in [SessionIds -> Session \cup {None}]
    /\ request \in [Requests -> Request]
    /\ verified \in [SessionIds -> 0 .. MaxPassword]
    /\ issued \in [Users -> 0 .. MaxPassword]
    /\ \A r \in Requests :
          /\ request[r].at # "idle" => request[r].user # None
          /\ request[r].at = "claimed" => Unrevoked(request[r].session)

(* A refresh token works once (rotate): however requests that present the  *)
(* same or successive tokens interleave with each other and with           *)
(* revocations, a family is one chain, each session but the first being    *)
(* the replacement of exactly one other of the same user and family.       *)
FamilyIsAChain ==
    \A t \in SessionIds : Exists(t) =>
        LET parents == {s \in SessionIds : Exists(s) /\ session[s].next = t} IN
        IF session[t].family = t
        THEN parents = {}
        ELSE \E s \in SessionIds :
                /\ parents = {s}
                /\ session[s].family = session[t].family /\ session[s].user = session[t].user

(* At most one token of a family is usable: whatever a client retries, and *)
(* whichever request answers first, a family has one unrevoked session.    *)
OneUsableToken ==
    \A s, t \in SessionIds :
        Unrevoked(s) /\ Unrevoked(t) /\ session[s].family = session[t].family => s = t

(* A disabled account has no usable session (updateUser, requestDeletion): *)
(* neither a login that verified the password before, nor a rotation or a  *)
(* change of password in its transaction, leaves one behind.               *)
DisabledHasNoSession ==
    \A u \in Users : user[u].status = "DISABLED" => SessionsOf(u) = {}

(* After resetPassword no session goes on that was opened with an earlier  *)
(* password, nor one rotated from such a session.                          *)
ResetEndsSessions ==
    \A s \in SessionIds : Unrevoked(s) => verified[s] >= issued[session[s].user]

(* Once as many logins have failed as the limit allows, the account has    *)
(* been locked since its last success, however the failures overlap        *)
(* (recordFailedLogin), and stays so until a success or a new password.    *)
LocksAtTheLimit ==
    \A u \in Users : user[u].failed >= MaxFailed => user[u].lock # "none"

=============================================================================
