--------------------------- MODULE SessionsProofs ---------------------------
(***************************************************************************)
(* Proofs about Sessions, for any users, sessions, requests and bounds: a  *)
(* family is a chain with one usable token, a disabled account has no      *)
(* session, and a reset ends those opened before.                          *)
(***************************************************************************)
EXTENDS Sessions, TLAPS

(* The places of a request that has found its session.                     *)
WithSession == {"presented", "claimed", "lost", "detected"}

(* Such a request names an existing session, and an administrator's        *)
(* transaction knows its change.                                           *)
RequestsAreWhole ==
    \A r \in Requests :
        /\ request[r].at \in WithSession => request[r].session \in SessionIds /\ Exists(request[r].session)
        /\ Now(r, "administering") => request[r].change \in Change

(* The row lock: one rotation at a time holds a session.                   *)
ClaimIsExclusive ==
    \A q, r \in Requests :
        Now(q, "claimed") /\ Now(r, "claimed") /\ request[q].session = request[r].session => q = r

RequestInv == TypeOK /\ RequestsAreWhole /\ ClaimIsExclusive

(* Only a session that has been consumed has a replacement, and families   *)
(* and replacements are names of existing sessions.                        *)
LinksExist ==
    \A s \in SessionIds : Exists(s) =>
        /\ Unrevoked(s) => session[s].next = None
        /\ session[s].next # None => session[s].next \in SessionIds /\ Exists(session[s].next)
        /\ Exists(session[s].family)

FamilyInv == LinksExist /\ FamilyIsAChain /\ OneUsableToken

(* What an administrator's transaction found is up to date unless it is    *)
(* stale: all unrevoked sessions, or a status that does not change.        *)
Found(u, victims, change) ==
    \/ SessionsOf(u) \subseteq victims
    \/ change.kind = "update" /\ change.status = user[u].status

SnapshotIsCurrent ==
    \A r \in Requests :
        Now(r, "administering") /\ ~request[r].stale =>
            Found(request[r].user, request[r].victims, request[r].change)

IssuedIsPast == \A u \in Users : issued[u] <= user[u].password

AccountInv ==
    DisabledHasNoSession /\ ResetEndsSessions /\ LocksAtTheLimit /\ SnapshotIsCurrent /\ IssuedIsPast

SessionsInv == RequestInv /\ FamilyInv /\ AccountInv

-----------------------------------------------------------------------------
(* Steps that change one request and nothing else.                         *)

Rows == <<user, session, verified, issued>>

Local(r, x) ==
    /\ request' = [request EXCEPT ![r] = x]
    /\ UNCHANGED Rows
    /\ x \in Request
    /\ x.at # "idle" => x.user # None
    /\ x.at \in WithSession => x.session \in SessionIds /\ Exists(x.session)
    /\ x.at = "claimed" => Unrevoked(x.session) /\ ~SessionLocked(x.session)
    /\ x.at = "administering" => x.change \in Change /\ Found(x.user, x.victims, x.change)

IsLocal == \E r \in Requests : \E x \in Request : Local(r, x)

LocalNext(r) ==
    \/ Refuse(r) \/ MissSession(r) \/ Claim(r) \/ Reread(r) \/ FindFamily(r)
    \/ VerifyPassword(r) \/ BeginChange(r) \/ Abort(r)
    \/ \E s \in SessionIds : Present(r, s) \/ Guard(r, s)
    \/ \E u \in Users :
          \/ \E matches \in BOOLEAN : ReadLogin(r, u, matches)
          \/ \E status \in Statuses, newRole \in BOOLEAN : BeginUpdate(r, u, status, newRole)
          \/ BeginReset(r, u) \/ BeginDeletion(r, u)

(* Reading a row, taking a lock or a snapshot, giving up: nothing but the  *)
(* request itself changes, and what it then holds is true of the rows.     *)
LEMMA LocalSteps ==
    ASSUME RequestInv, NEW r \in Requests, LocalNext(r)
    PROVE  IsLocal
<1>1. /\ \A u \in Users : user[u] \in User
      /\ \A s \in SessionIds : Exists(s) => session[s] \in Session
      /\ request \in [Requests -> Request]
  BY DEF RequestInv, TypeOK, Exists
<1>2. Idle \in Request
  BY SessionsAssumption DEF Idle, Request
<1>3. /\ request[r] \in Request
      /\ ~Now(r, "idle") => request[r].user \in Users
      /\ request[r].at \in WithSession => request[r].session \in SessionIds /\ Exists(request[r].session)
  BY <1>1 DEF RequestInv, TypeOK, RequestsAreWhole, Now, Request
<1>4. ASSUME Finish(r), UNCHANGED Rows PROVE IsLocal
  <2>1. Local(r, Idle)
    BY <1>2, <1>4 DEF Finish, Local, Idle, WithSession
  <2> QED  BY <2>1, <1>2 DEF IsLocal
<1>5. ASSUME NEW place \in WithSession \ {"claimed"}, Move(r, place), UNCHANGED Rows,
             request[r].at \in WithSession
      PROVE  IsLocal
  <2> DEFINE x == [request[r] EXCEPT !.at = place]
  <2>1. x \in Request
    BY <1>3 DEF Request, WithSession, Reading
  <2>2. request' = [request EXCEPT ![r] = x]
    BY <1>1, <1>5 DEF Move
  <2>3. Local(r, x)
    BY <2>1, <2>2, <1>3, <1>5, SessionsAssumption DEF Local, WithSession, Request, Now, Rows
  <2> QED  BY <2>1, <2>3 DEF IsLocal
<1>6. ASSUME NEW s \in SessionIds, Exists(s), NEW place \in {"presented", "detected", "guarded"},
             Become(r, place, session[s].user, s), UNCHANGED Rows
      PROVE  IsLocal
  <2> DEFINE x == [Idle EXCEPT !.at = place, !.user = session[s].user, !.session = s]
  <2>1. session[s].user \in Users /\ session[s].user # None
    BY <1>1, <1>6, SessionsAssumption DEF Session
  <2>2. x \in Request
    BY <1>2, <2>1 DEF Request, Reading, Idle
  <2>3. Local(r, x)
    BY <2>1, <2>2, <1>6 DEF Local, WithSession, Become, Idle
  <2> QED  BY <2>2, <2>3 DEF IsLocal
<1>7. ASSUME NEW u \in Users, NEW change \in Change, NEW victims \in SUBSET SessionIds,
             Found(u, victims, change), BeginAdministration(r, u, change, victims)
      PROVE  IsLocal
  <2> DEFINE x == [Idle EXCEPT !.at = "administering", !.user = u, !.victims = victims, !.change = change]
  <2>1. x \in Request
    BY <1>2, <1>7 DEF Request, InTransaction, Idle
  <2>2. Local(r, x)
    BY <2>1, <1>7, SessionsAssumption DEF Local, WithSession, BeginAdministration, Idle, Rows
  <2> QED  BY <2>1, <2>2 DEF IsLocal
<1>8. \A u \in Users : SessionsOf(u) \in SUBSET SessionIds
  BY DEF SessionsOf
<1> SUFFICES ASSUME LocalNext(r) PROVE IsLocal
  OBVIOUS
<1>9. CASE Refuse(r) \/ MissSession(r) \/ Abort(r)
  BY <1>4, <1>9 DEF Refuse, MissSession, Abort, Rows
<1>10. CASE Claim(r)
  <2>1. CASE CanClaim(request[r].session)
    <3> DEFINE x == [request[r] EXCEPT !.at = "claimed"]
    <3>1. x \in Request
      BY <1>3 DEF Request, InTransaction
    <3>2. request' = [request EXCEPT ![r] = x]
      BY <1>1, <1>10, <2>1 DEF Claim, Move
    <3>3. Unrevoked(request[r].session) /\ ~SessionLocked(request[r].session)
      BY <1>10, <2>1 DEF Claim, CanClaim, Usable, Unrevoked
    <3>4. Local(r, x)
      BY <3>1, <3>2, <3>3, <1>3, <1>10, SessionsAssumption
      DEF Local, WithSession, Claim, Now, Rows, Request
    <3> QED  BY <3>1, <3>4 DEF IsLocal
  <2>2. CASE ~CanClaim(request[r].session)
    BY <1>5, <1>10, <2>2 DEF Claim, Now, WithSession, Rows
  <2> QED  BY <2>1, <2>2
<1>11. CASE Reread(r)
  BY <1>4, <1>5, <1>11 DEF Reread, Now, WithSession, Rows
<1>12. CASE FindFamily(r)
  <2> DEFINE x == [request[r] EXCEPT !.at = "revoking",
          !.victims = {s \in SessionIds :
              Unrevoked(s) /\ session[s].family = session[request[r].session].family}]
  <2>1. x \in Request
    BY <1>3 DEF Request, InTransaction
  <2>2. request' = [request EXCEPT ![r] = x]
    BY <1>1, <1>12 DEF FindFamily
  <2>3. Local(r, x)
    BY <2>1, <2>2, <1>3, <1>12, SessionsAssumption DEF Local, WithSession, FindFamily, Now, Rows, Request
  <2> QED  BY <2>1, <2>3 DEF IsLocal
<1>13. CASE VerifyPassword(r)
  <2> DEFINE x == [request[r] EXCEPT !.at = "verified_change", !.seen = user[request[r].user].password]
  <2>1. x \in Request
    BY <1>1, <1>3, <1>13 DEF Request, Reading, VerifyPassword, Now, User
  <2>2. request' = [request EXCEPT ![r] = x]
    BY <1>1, <1>13 DEF VerifyPassword
  <2>3. Local(r, x)
    BY <2>1, <2>2, <1>3, <1>13, SessionsAssumption DEF Local, WithSession, VerifyPassword, Now, Rows, Request
  <2> QED  BY <2>1, <2>3 DEF IsLocal
<1>14. CASE BeginChange(r)
  <2>1. CASE StillItsPassword(r)
    <3> DEFINE x == [request[r] EXCEPT !.at = "changing",
                       !.victims = SessionsOf(request[r].user) \ {request[r].session}]
    <3>1. x \in Request
      BY <1>3, <1>8, <1>14 DEF Request, InTransaction, BeginChange, Now
    <3>2. request' = [request EXCEPT ![r] = x]
      BY <1>1, <1>14, <2>1 DEF BeginChange
    <3>3. Local(r, x)
      BY <3>1, <3>2, <1>3, <1>14, SessionsAssumption DEF Local, WithSession, BeginChange, Now, Rows, Request
    <3> QED  BY <3>1, <3>3 DEF IsLocal
  <2>2. CASE ~StillItsPassword(r)
    BY <1>4, <1>14, <2>2 DEF BeginChange, Rows
  <2> QED  BY <2>1, <2>2
<1>15. ASSUME NEW s \in SessionIds, Present(r, s) \/ Guard(r, s) PROVE IsLocal
  BY <1>6, <1>15 DEF Present, Guard, Usable, Rows
<1>16. ASSUME NEW u \in Users, NEW matches \in BOOLEAN, ReadLogin(r, u, matches) PROVE IsLocal
  <2>1. PICK place \in {"refused_login", "verified_login", "failed_login"} :
          request' = [request EXCEPT ![r] =
             [Idle EXCEPT !.user = u, !.seen = user[u].password, !.at = place]]
    BY <1>16 DEF ReadLogin
  <2> DEFINE x == [Idle EXCEPT !.user = u, !.seen = user[u].password, !.at = place]
  <2>2. x \in Request
    BY <1>1, <1>2 DEF Request, Reading, User, Idle
  <2>3. Local(r, x)
    BY <2>1, <2>2, <1>16, SessionsAssumption DEF Local, WithSession, ReadLogin, Rows, Idle
  <2> QED  BY <2>2, <2>3 DEF IsLocal
<1>17. ASSUME NEW u \in Users, NEW status \in Statuses, NEW newRole \in BOOLEAN,
              BeginUpdate(r, u, status, newRole)
       PROVE  IsLocal
  <2> DEFINE change == [kind |-> "update", status |-> status]
             victims == IF newRole \/ status # user[u].status THEN SessionsOf(u) ELSE {}
  <2>1. change \in Change /\ victims \in SUBSET SessionIds /\ Found(u, victims, change)
    BY <1>8 DEF Change, Found
  <2>2. BeginAdministration(r, u, change, victims)
    BY <1>17 DEF BeginUpdate
  <2> HIDE DEF change, victims
  <2> QED  BY <1>7, <2>1, <2>2
<1>18. ASSUME NEW u \in Users, BeginReset(r, u) PROVE IsLocal
  <2> DEFINE change == [kind |-> "reset", status |-> "PENDING_PASSWORD_CHANGE"]
  <2>1. change \in Change /\ Found(u, SessionsOf(u), change)
    BY DEF Change, Found, Statuses
  <2>2. BeginAdministration(r, u, change, SessionsOf(u))
    BY <1>18 DEF BeginReset
  <2> QED  BY <1>7, <1>8, <2>1, <2>2
<1>19. ASSUME NEW u \in Users, BeginDeletion(r, u) PROVE IsLocal
  <2> DEFINE change == [kind |-> "deletion", status |-> "DISABLED"]
  <2>1. change \in Change /\ Found(u, SessionsOf(u), change)
    BY DEF Change, Found, Statuses
  <2>2. BeginAdministration(r, u, change, SessionsOf(u))
    BY <1>19 DEF BeginDeletion
  <2> QED  BY <1>7, <1>8, <2>1, <2>2
<1> QED
  BY <1>9, <1>10, <1>11, <1>12, <1>13, <1>14, <1>15, <1>16, <1>17, <1>18, <1>19 DEF LocalNext

(* Such steps preserve every part of the invariant.                        *)
LEMMA LocalPreserves ==
    ASSUME SessionsInv, IsLocal
    PROVE  SessionsInv'
<1>1. PICK r \in Requests, x \in Request : Local(r, x)
  BY DEF IsLocal
<1>2. /\ request \in [Requests -> Request]
      /\ request' = [request EXCEPT ![r] = x]
      /\ user' = user /\ session' = session /\ verified' = verified /\ issued' = issued
  BY <1>1 DEF Local, Rows, SessionsInv, RequestInv, TypeOK
<1>3. /\ request'[r] = x
      /\ \A q \in Requests : q # r => request'[q] = request[q]
      /\ request' \in [Requests -> Request]
  BY <1>2
<1>4. \A s : /\ Exists(s)' <=> Exists(s)
             /\ Unrevoked(s)' <=> Unrevoked(s)
  BY <1>2 DEF Exists, Unrevoked
<1>5. \A u : SessionsOf(u)' = SessionsOf(u)
  BY <1>2 DEF SessionsOf, Unrevoked, Exists
<1>6. TypeOK'
  BY <1>1, <1>2, <1>3, <1>4 DEF SessionsInv, RequestInv, TypeOK, Local
<1>7. RequestsAreWhole'
  BY <1>1, <1>2, <1>3, <1>4 DEF SessionsInv, RequestInv, RequestsAreWhole, Local, Now
<1>8. ClaimIsExclusive'
  BY <1>1, <1>3 DEF SessionsInv, RequestInv, ClaimIsExclusive, Local, Now, SessionLocked
<1>9. FamilyInv'
  BY <1>2 DEF SessionsInv, FamilyInv, LinksExist, FamilyIsAChain, OneUsableToken, Unrevoked, Exists
<1>10. DisabledHasNoSession' /\ ResetEndsSessions' /\ LocksAtTheLimit' /\ IssuedIsPast'
  BY <1>2, <1>4, <1>5
  DEF SessionsInv, AccountInv, DisabledHasNoSession, ResetEndsSessions, LocksAtTheLimit, IssuedIsPast
<1>11. SnapshotIsCurrent'
  <2> SUFFICES ASSUME NEW q \in Requests, request'[q].at = "administering", ~request'[q].stale
               PROVE  Found(request[q].user, request[q].victims, request[q].change)'
    BY DEF SnapshotIsCurrent, Now
  <2>1. Found(request'[q].user, request'[q].victims, request'[q].change)
    BY <1>1, <1>3 DEF SessionsInv, AccountInv, SnapshotIsCurrent, Local, Now
  <2> QED
    BY <2>1, <1>2 DEF Found, SessionsOf, Unrevoked, Exists
<1> QED
  BY <1>6, <1>7, <1>8, <1>9, <1>10, <1>11 DEF SessionsInv, RequestInv, AccountInv

-----------------------------------------------------------------------------
(* Steps that commit: what they leave of the requests in flight.           *)

Committed(us, ss) ==
    /\ request' \in [Requests -> Request]
    /\ \A q \in Requests :
          \/ request'[q] = Idle
          \/ /\ request'[q].at = request[q].at /\ request'[q].user = request[q].user
             /\ request'[q].session = request[q].session
             /\ request'[q].victims = request[q].victims /\ request'[q].change = request[q].change
             /\ request[q].at = "administering" /\ ~request'[q].stale =>
                   /\ ~request[q].stale /\ request[q].user \notin us
                   /\ request[q].victims \cap ss = {}

LEMMA CommitLeaves ==
    ASSUME TypeOK, NEW r, NEW us, NEW ss, Commit(r, us, ss)
    PROVE  Committed(us, ss) /\ (r \in Requests => request'[r] = Idle)
<1>1. Idle \in Request
  BY SessionsAssumption DEF Idle, Request
<1>2. \A q \in Requests : request[q] \in Request
  BY DEF TypeOK
<1>3. \A q \in Requests : q # r => request'[q] = [request[q] EXCEPT !.stale = @ \/ Outdated(q, us, ss)]
  BY DEF Commit
<1>4. \A q \in Requests : q = r => request'[q] = Idle
  BY DEF Commit
<1>5. \A q \in Requests : Outdated(q, us, ss) \in BOOLEAN
  BY DEF Outdated, Now
<1>6. ASSUME NEW q \in Requests PROVE request'[q] \in Request
  <2>1. CASE q = r
    BY <1>1, <1>4, <2>1
  <2>2. CASE q # r
    <3> DEFINE b == request[q].stale \/ Outdated(q, us, ss)
    <3>1. request[q] \in Request /\ b \in BOOLEAN
      BY <1>2, <1>5 DEF Request
    <3>2. request'[q] = [request[q] EXCEPT !.stale = b]
      BY <1>3, <2>2
    <3> HIDE DEF b
    <3> QED  BY <3>1, <3>2 DEF Request
  <2> QED  BY <2>1, <2>2
<1>7. request' \in [Requests -> Request]
  BY <1>6 DEF Commit
<1>8. ASSUME NEW q \in Requests, q # r
      PROVE  /\ request'[q].at = request[q].at /\ request'[q].user = request[q].user
             /\ request'[q].session = request[q].session
             /\ request'[q].victims = request[q].victims /\ request'[q].change = request[q].change
             /\ request'[q].stale = (request[q].stale \/ Outdated(q, us, ss))
  BY <1>2, <1>3, <1>5, <1>8 DEF Request
<1> QED
  BY <1>4, <1>7, <1>8 DEF Committed, Outdated, Now

(* A commit preserves what is said of requests if the rows it does not     *)
(* announce keep their status and gain no session.                         *)
LEMMA CommitPreserves ==
    ASSUME SessionsInv, NEW us, NEW ss, Committed(us, ss),
           user' \in [Users -> User], session' \in [SessionIds -> Session \cup {None}],
           verified' \in [SessionIds -> 0 .. MaxPassword], issued' \in [Users -> 0 .. MaxPassword],
           \A s \in SessionIds : Exists(s) => Exists(s)',
           \A q \in Requests : request'[q].at = "claimed" => Unrevoked(request[q].session)',
           \A u \in Users \ us : user'[u].status = user[u].status,
           \A u \in Users \ us : SessionsOf(u)' \subseteq SessionsOf(u) \/ SessionsOf(u) \cap ss # {}
    PROVE  RequestInv' /\ SnapshotIsCurrent'
<1>1. /\ TypeOK /\ RequestsAreWhole /\ ClaimIsExclusive /\ SnapshotIsCurrent
      /\ request' \in [Requests -> Request] /\ request \in [Requests -> Request]
  BY DEF SessionsInv, RequestInv, AccountInv, Committed, TypeOK
<1>2. Idle.at = "idle"
  BY DEF Idle
<1>3. TypeOK'
  <2>1. \A q \in Requests : /\ request'[q].at # "idle" => request'[q].user # None
                            /\ request'[q].at = "claimed" => request'[q].session = request[q].session
    BY <1>1, <1>2 DEF Committed, TypeOK
  <2> QED
    BY <1>1, <2>1 DEF TypeOK, Unrevoked, Exists
<1>4. RequestsAreWhole'
  <2>1. ASSUME NEW q \in Requests
        PROVE  /\ request'[q].at \in WithSession =>
                     request'[q].session \in SessionIds /\ session'[request'[q].session] # None
               /\ request'[q].at = "administering" => request'[q].change \in Change
    BY <1>1, <1>2 DEF Committed, RequestsAreWhole, Now, WithSession, Exists
  <2> QED
    BY <2>1 DEF RequestsAreWhole, Now, Exists
<1>5. ClaimIsExclusive'
  <2>1. \A q \in Requests : request'[q].at = "claimed" =>
           request[q].at = "claimed" /\ request'[q].session = request[q].session
    BY <1>2 DEF Committed
  <2> QED
    BY <2>1, <1>1 DEF ClaimIsExclusive, Now
<1>6. ASSUME NEW q \in Requests, request'[q].at = "administering", ~request'[q].stale
      PROVE  Found(request[q].user, request[q].victims, request[q].change)'
  <2> DEFINE u == request[q].user
  <2>1. /\ request[q].at = "administering" /\ ~request[q].stale
        /\ u \notin us /\ request[q].victims \cap ss = {}
        /\ request'[q].user = u /\ request'[q].victims = request[q].victims
        /\ request'[q].change = request[q].change
    BY <1>2, <1>6 DEF Committed
  <2>2. u \in Users
    BY <2>1, <1>1, SessionsAssumption DEF TypeOK, Request
  <2>3. Found(u, request[q].victims, request[q].change)
    BY <2>1, <1>1 DEF SnapshotIsCurrent, Now
  <2>4. user'[u].status = user[u].status
    BY <2>1, <2>2
  <2>5. CASE SessionsOf(u)' \subseteq SessionsOf(u)
    <3>1. SessionsOf(request[q].user)' = SessionsOf(u)'
      BY <2>1 DEF SessionsOf
    <3> QED  BY <2>1, <2>3, <2>4, <2>5, <3>1 DEF Found
  <2>6. CASE SessionsOf(u) \cap ss # {}
    BY <2>1, <2>3, <2>4, <2>6 DEF Found
  <2> QED
    BY <2>1, <2>2, <2>5, <2>6
<1> QED
  BY <1>3, <1>4, <1>5, <1>6 DEF RequestInv, SnapshotIsCurrent, Now

-----------------------------------------------------------------------------
(* What a step does to the families.                                       *)

Settled ==
    /\ session' \in [SessionIds -> Session \cup {None}]
    /\ \A s \in SessionIds :
          \/ session'[s] = session[s]
          \/ Unrevoked(s) /\ \E x \in {"expired", "revoked"} : session'[s] = [session[s] EXCEPT !.state = x]

(* Revocations and expiry leave the links alone.                           *)
LEMMA SettledPreserves ==
    ASSUME TypeOK, FamilyInv, Settled
    PROVE  /\ FamilyInv'
           /\ \A s \in SessionIds :
                 /\ Exists(s)' <=> Exists(s)
                 /\ Unrevoked(s)' => Unrevoked(s)
                 /\ Exists(s) => session'[s].user = session[s].user
           /\ \A u : SessionsOf(u)' \subseteq SessionsOf(u)
<1>1. \A s \in SessionIds : Exists(s) => session[s] \in Session
  BY DEF TypeOK, Exists
<1>2. ASSUME NEW s \in SessionIds
      PROVE  /\ Exists(s)' <=> Exists(s)
             /\ Unrevoked(s)' => Unrevoked(s)
             /\ Exists(s) => /\ session'[s].user = session[s].user
                             /\ session'[s].family = session[s].family
                             /\ session'[s].next = session[s].next
  <2>1. CASE session'[s] = session[s]
    BY <2>1 DEF Exists, Unrevoked
  <2>2. CASE Unrevoked(s) /\ \E x \in {"expired", "revoked"} : session'[s] = [session[s] EXCEPT !.state = x]
    <3>1. PICK x \in {"expired", "revoked"} : session'[s] = [session[s] EXCEPT !.state = x]
      BY <2>2
    <3>2. Exists(s) /\ session[s] \in Session
      BY <1>1, <2>2 DEF Unrevoked
    <3>3. session'[s] \in Session
      BY <3>1, <3>2 DEF Session, States
    <3>4. Exists(s)'
      BY <3>3, NoneAssumption DEF Exists
    <3> QED
      BY <2>2, <3>1, <3>2, <3>4 DEF Session
  <2> QED  BY <2>1, <2>2 DEF Settled
<1>3. LinksExist'
  BY <1>1, <1>2 DEF FamilyInv, LinksExist, Exists, Unrevoked, Session
<1>4. FamilyIsAChain'
  <2> SUFFICES ASSUME NEW t \in SessionIds, session'[t] # None
      PROVE  LET parents == {s \in SessionIds : session'[s] # None /\ session'[s].next = t} IN
             IF session'[t].family = t
             THEN parents = {}
             ELSE \E s \in SessionIds :
                     /\ parents = {s}
                     /\ session'[s].family = session'[t].family /\ session'[s].user = session'[t].user
    BY DEF FamilyIsAChain, Exists
  <2> DEFINE parents == {s \in SessionIds : session[s] # None /\ session[s].next = t}
             after == {s \in SessionIds : session'[s] # None /\ session'[s].next = t}
  <2>1. Exists(t)
    BY <1>2 DEF Exists
  <2>2. parents = after
    BY <1>2 DEF Exists
  <2>3. IF session[t].family = t
        THEN parents = {}
        ELSE \E s \in SessionIds :
                /\ parents = {s}
                /\ session[s].family = session[t].family /\ session[s].user = session[t].user
    BY <2>1 DEF FamilyInv, FamilyIsAChain, Exists
  <2>4. \A s \in parents : session'[s].family = session[s].family /\ session'[s].user = session[s].user
    BY <1>2 DEF Exists
  <2>5. session'[t].family = session[t].family /\ session'[t].user = session[t].user
    BY <1>2, <2>1
  <2> HIDE DEF parents
  <2> QED
    BY <2>2, <2>3, <2>4, <2>5
<1>5. OneUsableToken'
  BY <1>2 DEF FamilyInv, OneUsableToken, Exists, Unrevoked
<1>6. \A u : SessionsOf(u)' \subseteq SessionsOf(u)
  BY <1>2 DEF SessionsOf, Unrevoked, Exists
<1> QED
  BY <1>2, <1>3, <1>4, <1>5, <1>6 DEF FamilyInv

(* A login opens a family that nothing refers to yet.                      *)
LEMMA OpenedPreserves ==
    ASSUME TypeOK, FamilyInv, NEW u \in Users, NEW s \in SessionIds, ~Exists(s),
           session' = [session EXCEPT ![s] = NewSession(u, s)]
    PROVE  /\ FamilyInv'
           /\ session' \in [SessionIds -> Session \cup {None}]
           /\ \A t \in SessionIds : t # s => session'[t] = session[t]
           /\ session'[s].user = u /\ Exists(s)'
<1>1. NewSession(u, s) \in Session
  BY DEF NewSession, Session, States
<1>2. /\ session' \in [SessionIds -> Session \cup {None}]
      /\ session'[s] = NewSession(u, s)
      /\ \A t \in SessionIds : t # s => session'[t] = session[t]
  BY <1>1 DEF TypeOK
<1>3. /\ session'[s].user = u /\ session'[s].family = s /\ session'[s].next = None
      /\ session'[s].state = "valid" /\ session'[s] # None
  BY <1>1, <1>2, NoneAssumption DEF NewSession
<1>4. \A t \in SessionIds : session[t] # None =>
         /\ session[t].next # s /\ session[t].family # s /\ t # s
  BY SessionsAssumption DEF FamilyInv, LinksExist, Exists
<1>5. LinksExist'
  BY <1>2, <1>3, <1>4 DEF FamilyInv, LinksExist, Exists, Unrevoked
<1>6. FamilyIsAChain'
  <2> SUFFICES ASSUME NEW t \in SessionIds, session'[t] # None
      PROVE  LET parents == {p \in SessionIds : session'[p] # None /\ session'[p].next = t} IN
             IF session'[t].family = t
             THEN parents = {}
             ELSE \E p \in SessionIds :
                     /\ parents = {p}
                     /\ session'[p].family = session'[t].family /\ session'[p].user = session'[t].user
    BY DEF FamilyIsAChain, Exists
  <2>1. CASE t = s
    BY <1>2, <1>3, <1>4, <2>1, SessionsAssumption
  <2>2. CASE t # s
    <3> DEFINE parents == {p \in SessionIds : session[p] # None /\ session[p].next = t}
    <3>1. {p \in SessionIds : session'[p] # None /\ session'[p].next = t} = parents
      BY <1>2, <1>3, <2>2, SessionsAssumption DEF Exists
    <3>2. s \notin parents
      BY DEF Exists
    <3>3. IF session[t].family = t
          THEN parents = {}
          ELSE \E p \in SessionIds :
                  /\ parents = {p}
                  /\ session[p].family = session[t].family /\ session[p].user = session[t].user
      BY <1>2, <2>2 DEF FamilyInv, FamilyIsAChain, Exists
    <3> HIDE DEF parents
    <3> QED
      BY <1>2, <2>2, <3>1, <3>2, <3>3
  <2> QED  BY <2>1, <2>2
<1>7. OneUsableToken'
  BY <1>2, <1>3, <1>4 DEF FamilyInv, OneUsableToken, Exists, Unrevoked
<1> QED
  BY <1>2, <1>3, <1>5, <1>6, <1>7 DEF FamilyInv, Exists

(* A rotation puts a new end to the chain of its family.                   *)
LEMMA RotatedPreserves ==
    ASSUME TypeOK, FamilyInv, NEW s \in SessionIds, Unrevoked(s), NEW t \in SessionIds, ~Exists(t),
           session' = [session EXCEPT ![s] = Consumed(s, t),
                                      ![t] = NewSession(session[s].user, session[s].family)]
    PROVE  /\ FamilyInv'
           /\ session' \in [SessionIds -> Session \cup {None}]
           /\ \A x \in SessionIds \ {s, t} : session'[x] = session[x]
           /\ Exists(s)' /\ ~Unrevoked(s)'
           /\ Exists(t)' /\ session'[t].user = session[s].user
<1>1. session[s] \in Session /\ session[s] # None /\ s # t /\ session[s].next = None
  BY DEF TypeOK, FamilyInv, LinksExist, Unrevoked, Exists
<1>2. NewSession(session[s].user, session[s].family) \in Session /\ Consumed(s, t) \in Session
  BY <1>1 DEF NewSession, Consumed, Session, States
<1>3. /\ session' \in [SessionIds -> Session \cup {None}]
      /\ session'[s] = Consumed(s, t)
      /\ session'[t] = NewSession(session[s].user, session[s].family)
      /\ \A x \in SessionIds \ {s, t} : session'[x] = session[x]
  BY <1>1, <1>2 DEF TypeOK
<1>4. /\ session'[s] # None /\ session'[t] # None
      /\ session'[s].user = session[s].user /\ session'[s].family = session[s].family
      /\ session'[s].next = t /\ session'[s].state = "ROTATED"
      /\ session'[t].user = session[s].user /\ session'[t].family = session[s].family
      /\ session'[t].next = None /\ session'[t].state = "valid"
  BY ZenonT(60), <1>1, <1>2, <1>3, NoneAssumption DEF NewSession, Consumed, Session
<1>5. \A x \in SessionIds : session[x] # None =>
         /\ session[x].next # t /\ session[x].family # t /\ x # t
         /\ session[x].family \in SessionIds /\ session[session[x].family] # None
         /\ session[x].next # None =>
               session[x].next \in SessionIds /\ session[session[x].next] # None
         /\ session[x].state \in {"valid", "expired"} => session[x].next = None
  BY SessionsAssumption DEF TypeOK, FamilyInv, LinksExist, Exists, Unrevoked, Session
<1>6. LinksExist'
  BY <1>1, <1>3, <1>4, <1>5, SessionsAssumption DEF LinksExist, Exists, Unrevoked
<1>7. FamilyIsAChain'
  <2> SUFFICES ASSUME NEW x \in SessionIds, session'[x] # None
      PROVE  LET parents == {p \in SessionIds : session'[p] # None /\ session'[p].next = x} IN
             IF session'[x].family = x
             THEN parents = {}
             ELSE \E p \in SessionIds :
                     /\ parents = {p}
                     /\ session'[p].family = session'[x].family /\ session'[p].user = session'[x].user
    BY DEF FamilyIsAChain, Exists
  <2> DEFINE after == {p \in SessionIds : session'[p] # None /\ session'[p].next = x}
  <2>1. CASE x = t
    <3>1. after = {s}
      BY <1>3, <1>4, <1>5, <2>1, SessionsAssumption
    <3>2. session'[x].family # x
      BY <1>1, <1>4, <1>5, <2>1
    <3> QED
      BY <1>4, <2>1, <3>1, <3>2
  <2>2. CASE x # t
    <3> DEFINE parents == {p \in SessionIds : session[p] # None /\ session[p].next = x}
    <3>1. after = parents
      BY <1>1, <1>3, <1>4, <1>5, <2>2, SessionsAssumption DEF Exists
    <3>2. t \notin parents
      BY DEF Exists
    <3>3. \A p \in SessionIds \ {t} :
             session'[p] # None => /\ session[p] # None
                                   /\ session'[p].family = session[p].family
                                   /\ session'[p].user = session[p].user
      BY <1>1, <1>3, <1>4
    <3>4. IF session[x].family = x
          THEN parents = {}
          ELSE \E p \in SessionIds :
                  /\ parents = {p}
                  /\ session[p].family = session[x].family /\ session[p].user = session[x].user
      BY <2>2, <3>3 DEF FamilyInv, FamilyIsAChain, Exists
    <3>5. \A p \in parents : p \in SessionIds \ {t} /\ session'[p] # None
      BY <3>1, <3>2
    <3>6. x \in SessionIds \ {t}
      BY <2>2
    <3> HIDE DEF parents
    <3>7. session'[x].family = session[x].family /\ session'[x].user = session[x].user
      BY <3>3, <3>6
    <3>8. CASE session[x].family = x
      BY <3>1, <3>4, <3>7, <3>8
    <3>9. CASE session[x].family # x
      <4>1. PICK p \in SessionIds :
               /\ parents = {p}
               /\ session[p].family = session[x].family /\ session[p].user = session[x].user
        BY <3>4, <3>9
      <4>2. session'[p].family = session[p].family /\ session'[p].user = session[p].user
        BY <3>3, <3>5, <4>1
      <4> QED
        BY <3>1, <3>7, <3>9, <4>1, <4>2
    <3> QED
      BY <3>8, <3>9
  <2> QED  BY <2>1, <2>2
<1>8. OneUsableToken'
  <2> SUFFICES ASSUME NEW x \in SessionIds, NEW y \in SessionIds,
                      Unrevoked(x)', Unrevoked(y)', session'[x].family = session'[y].family
               PROVE  x = y
    BY DEF OneUsableToken
  <2>1. x # s /\ y # s
    BY <1>4 DEF Unrevoked
  <2>2. \A z \in SessionIds \ {s, t} : Unrevoked(z)' => Unrevoked(z) /\ session'[z].family = session[z].family
    BY <1>3 DEF Unrevoked, Exists
  <2>3. \A z \in SessionIds \ {s, t} : Unrevoked(z)' => session[z].family # session[s].family
    BY <2>2 DEF FamilyInv, OneUsableToken
  <2>4. CASE x = t \/ y = t
    BY ZenonT(60), <1>4, <2>1, <2>2, <2>3, <2>4
  <2>5. CASE x # t /\ y # t
    BY <2>1, <2>2, <2>5 DEF FamilyInv, OneUsableToken
  <2> QED
    BY <2>4, <2>5
<1> QED
  BY <1>3, <1>4, <1>6, <1>7, <1>8 DEF FamilyInv, Exists, Unrevoked

-----------------------------------------------------------------------------
(* The committing steps, one lemma each.                                   *)

(* updateMany changes unrevoked sessions only, and no session a rotation   *)
(* has locked if it waits for those it found.                              *)
LEMMA RevokeAllSettles ==
    ASSUME TypeOK, NEW ss, RevokeAll(ss)
    PROVE  /\ Settled
           /\ \A s \in SessionIds : s \notin ss => session'[s] = session[s]
           /\ \A s \in SessionIds : s \in ss => ~Unrevoked(s)'
<1>1. \A s \in SessionIds : Unrevoked(s) => session[s] \in Session
  BY DEF TypeOK, Unrevoked, Exists
<1>2. \A s \in SessionIds :
         session'[s] = IF s \in ss /\ Unrevoked(s) THEN [session[s] EXCEPT !.state = "revoked"] ELSE session[s]
  BY DEF RevokeAll
<1>3. ASSUME NEW s \in SessionIds, s \in ss, Unrevoked(s)
      PROVE  /\ session'[s] = [session[s] EXCEPT !.state = "revoked"]
             /\ session'[s] \in Session /\ session'[s].state = "revoked"
  BY <1>1, <1>2, <1>3 DEF Session, States
<1>4. session' \in [SessionIds -> Session \cup {None}]
  BY <1>2, <1>3 DEF RevokeAll, TypeOK
<1> QED
  BY <1>2, <1>3, <1>4 DEF Settled, Unrevoked, Exists

(* Facts about the rows that the lemmas below share.                       *)
LEMMA RowTypes ==
    ASSUME TypeOK
    PROVE  /\ \A u \in Users : user[u] \in User
           /\ \A s \in SessionIds : Exists(s) => session[s] \in Session /\ session[s].user \in Users
           /\ \A r \in Requests : ~Now(r, "idle") => request[r].user \in Users
           /\ \A s \in SessionIds : \A u : s \in SessionsOf(u) <=> Unrevoked(s) /\ session[s].user = u
  BY DEF TypeOK, Exists, Session, Now, Request, SessionsOf

LEMMA ClaimedIsNotRevoked ==
    ASSUME TypeOK, RequestsAreWhole, NEW ss, ~AnyLocked(ss), NEW us, Committed(us, ss),
           \A s \in SessionIds : s \notin ss => session'[s] = session[s]
    PROVE  \A q \in Requests : request'[q].at = "claimed" => Unrevoked(request[q].session)'
<1> SUFFICES ASSUME NEW q \in Requests, request'[q].at = "claimed"
             PROVE  Unrevoked(request[q].session)'
  OBVIOUS
<1>1. request[q].at = "claimed" /\ request'[q].session = request[q].session
  BY DEF Committed, Idle
<1>2. request[q].session \in SessionIds /\ Unrevoked(request[q].session)
  BY <1>1 DEF TypeOK, RequestsAreWhole, WithSession
<1>3. request[q].session \notin ss
  BY <1>1 DEF AnyLocked, SessionLocked
<1>4. session'[request[q].session] = session[request[q].session]
  BY <1>2, <1>3
<1> QED
  BY <1>1, <1>2, <1>4 DEF Unrevoked, Exists

(* A step that revokes and changes no account: a reused family, a logout.  *)
LEMMA RevocationPreserves ==
    ASSUME SessionsInv, NEW r, NEW ss, ~AnyLocked(ss), RevokeAll(ss), Commit(r, {}, ss),
           UNCHANGED <<user, verified, issued>>
    PROVE  SessionsInv'
<1>1. TypeOK /\ RequestsAreWhole /\ FamilyInv
  BY DEF SessionsInv, RequestInv
<1>2. Committed({}, ss)
  BY <1>1, CommitLeaves
<1>3. /\ Settled
      /\ \A s \in SessionIds : s \notin ss => session'[s] = session[s]
  BY <1>1, RevokeAllSettles
<1>4. /\ FamilyInv'
      /\ \A s \in SessionIds :
            /\ Exists(s)' <=> Exists(s)
            /\ Unrevoked(s)' => Unrevoked(s)
            /\ Exists(s) => session'[s].user = session[s].user
      /\ \A u : SessionsOf(u)' \subseteq SessionsOf(u)
  BY <1>1, <1>3, SettledPreserves
<1>5. \A q \in Requests : request'[q].at = "claimed" => Unrevoked(request[q].session)'
  BY <1>1, <1>2, <1>3, ClaimedIsNotRevoked
<1>6. /\ user' \in [Users -> User] /\ verified' \in [SessionIds -> 0 .. MaxPassword]
      /\ issued' \in [Users -> 0 .. MaxPassword] /\ session' \in [SessionIds -> Session \cup {None}]
  BY <1>1, <1>3 DEF TypeOK, Settled
<1>7. RequestInv' /\ SnapshotIsCurrent'
  BY <1>2, <1>4, <1>5, <1>6, CommitPreserves
<1>8. DisabledHasNoSession' /\ ResetEndsSessions' /\ LocksAtTheLimit' /\ IssuedIsPast'
  BY <1>4 DEF SessionsInv, AccountInv, DisabledHasNoSession, ResetEndsSessions, LocksAtTheLimit,
              IssuedIsPast, Unrevoked, Exists
<1> QED
  BY <1>4, <1>7, <1>8 DEF SessionsInv, AccountInv

(* The session of a login that is still welcome belongs to the account as  *)
(* it is: not disabled, and with the newest password.                      *)
LEMMA OpenSessionPreserves ==
    ASSUME SessionsInv, NEW r \in Requests, NEW s \in SessionIds, OpenSession(r, s)
    PROVE  SessionsInv'
<1> DEFINE u == request[r].user
<1>1. TypeOK /\ RequestsAreWhole /\ FamilyInv
  BY DEF SessionsInv, RequestInv
<1>2. u \in Users /\ user[u] \in User
  BY <1>1, RowTypes DEF OpenSession, Now
<1>3. /\ user' = [user EXCEPT ![u].failed = 0, ![u].lock = "none"]
      /\ session' = [session EXCEPT ![s] = NewSession(u, s)]
      /\ verified' = [verified EXCEPT ![s] = request[r].seen]
      /\ issued' = issued /\ Commit(r, {u}, {}) /\ ~Exists(s)
      /\ user[u].password = request[r].seen /\ user[u].status # "DISABLED"
  BY DEF OpenSession, StillWelcome
<1>4. Committed({u}, {}) /\ request'[r] = Idle
  BY <1>1, <1>3, CommitLeaves
<1>5. /\ FamilyInv'
      /\ session' \in [SessionIds -> Session \cup {None}]
      /\ \A t \in SessionIds : t # s => session'[t] = session[t]
      /\ session'[s].user = u /\ Exists(s)'
  BY <1>1, <1>2, <1>3, OpenedPreserves
<1>6. /\ user' \in [Users -> User]
      /\ \A v \in Users : user'[v].status = user[v].status /\ user'[v].password = user[v].password
      /\ user'[u].failed = 0 /\ \A v \in Users \ {u} : user'[v] = user[v]
  <2> DEFINE row == [user[u] EXCEPT !.failed = 0, !.lock = "none"]
  <2>1. row \in User
    <3>1. 0 \in 0 .. FailureBound /\ "none" \in {"none", "running", "over"}
      BY SessionsAssumption
    <3> QED
      BY <1>2, <3>1 DEF User
  <2>2. user'[u] = [user[u] EXCEPT !.failed = 0, !.lock = "none"]
    BY <1>1, <1>2, <1>3 DEF TypeOK
  <2>3. \A v \in Users : v # u => user'[v] = user[v]
    BY <1>1, <1>3 DEF TypeOK
  <2>4. user' = [user EXCEPT ![u] = [user[u] EXCEPT !.failed = 0, !.lock = "none"]]
    BY <1>1, <1>2, <1>3 DEF TypeOK
  <2>5. row.failed = 0
    BY <1>2 DEF User
  <2> QED
    BY <1>1, <1>2, <2>1, <2>2, <2>3, <2>4, <2>5 DEF TypeOK, User
<1>7. /\ verified' \in [SessionIds -> 0 .. MaxPassword] /\ issued' \in [Users -> 0 .. MaxPassword]
      /\ verified'[s] = user[u].password
      /\ \A t \in SessionIds : t # s => verified'[t] = verified[t]
  BY <1>1, <1>2, <1>3 DEF TypeOK, Request, User
<1>8. \A v \in Users \ {u} : SessionsOf(v)' \subseteq SessionsOf(v)
  BY <1>5 DEF SessionsOf, Unrevoked, Exists
<1>9. \A q \in Requests : request'[q].at = "claimed" => Unrevoked(request[q].session)'
  <2> SUFFICES ASSUME NEW q \in Requests, request'[q].at = "claimed"
               PROVE  Unrevoked(request[q].session)'
    OBVIOUS
  <2>1. request[q].at = "claimed" /\ request'[q].session = request[q].session
    BY <1>4 DEF Committed, Idle
  <2>2. request[q].session \in SessionIds /\ Unrevoked(request[q].session)
    BY <1>1, <2>1 DEF TypeOK, RequestsAreWhole, WithSession
  <2>3. session'[request[q].session] = session[request[q].session]
    BY <1>3, <1>5, <2>2 DEF Unrevoked
  <2> QED
    BY <2>1, <2>2, <2>3 DEF Unrevoked, Exists
<1>10. \A t \in SessionIds : Exists(t) => Exists(t)'
  BY <1>5 DEF Exists
<1>11. RequestInv' /\ SnapshotIsCurrent'
  <2>1. /\ \A v \in Users \ {u} : user'[v].status = user[v].status
        /\ \A v \in Users \ {u} : SessionsOf(v)' \subseteq SessionsOf(v) \/ SessionsOf(v) \cap {} # {}
    BY <1>6, <1>8
  <2> QED
    BY <1>4, <1>5, <1>6, <1>7, <1>9, <1>10, <2>1, CommitPreserves
<1>12. DisabledHasNoSession'
  BY <1>3, <1>6, <1>8, <1>2 DEF SessionsInv, AccountInv, DisabledHasNoSession
<1>13. ResetEndsSessions'
  <2> SUFFICES ASSUME NEW t \in SessionIds, Unrevoked(t)'
               PROVE  verified'[t] >= issued'[session'[t].user]
    BY DEF ResetEndsSessions
  <2>1. CASE t = s
    BY <1>2, <1>3, <1>5, <1>7, <2>1 DEF SessionsInv, AccountInv, IssuedIsPast, TypeOK, User
  <2>2. CASE t # s
    BY <1>3, <1>5, <1>7, <2>2 DEF SessionsInv, AccountInv, ResetEndsSessions, Unrevoked, Exists
  <2> QED  BY <2>1, <2>2
<1>14. IssuedIsPast'
  BY <1>3, <1>6 DEF SessionsInv, AccountInv, IssuedIsPast
<1>15. LocksAtTheLimit'
  BY <1>6, SessionsAssumption DEF SessionsInv, AccountInv, LocksAtTheLimit
<1> QED
  BY <1>5, <1>11, <1>12, <1>13, <1>14, <1>15 DEF SessionsInv, AccountInv

(* A step that writes the row of one account, and revokes what it found of *)
(* the account's sessions: all of them if it disables or resets.           *)
LEMMA AccountPreserves ==
    ASSUME SessionsInv, NEW r, NEW u \in Users, NEW ss, NEW row \in User, NEW n \in 0 .. MaxPassword,
           ~AnyLocked(ss), RevokeAll(ss), Commit(r, {u}, ss),
           user' = [user EXCEPT ![u] = row], issued' = [issued EXCEPT ![u] = n], verified' = verified,
           row.password >= user[u].password, n <= row.password,
           row.status = "DISABLED" => user[u].status = "DISABLED" \/ SessionsOf(u) \subseteq ss,
           n = issued[u] \/ SessionsOf(u) \subseteq ss,
           row.failed >= MaxFailed => row.lock # "none"
    PROVE  SessionsInv'
<1>1. TypeOK /\ RequestsAreWhole /\ FamilyInv
  BY DEF SessionsInv, RequestInv
<1>2. Committed({u}, ss)
  BY <1>1, CommitLeaves
<1>3. /\ Settled
      /\ \A s \in SessionIds : s \notin ss => session'[s] = session[s]
      /\ \A s \in SessionIds : s \in ss => ~Unrevoked(s)'
  BY <1>1, RevokeAllSettles
<1>4. /\ FamilyInv'
      /\ \A s \in SessionIds :
            /\ Exists(s)' <=> Exists(s)
            /\ Unrevoked(s)' => Unrevoked(s)
            /\ Exists(s) => session'[s].user = session[s].user
      /\ \A v : SessionsOf(v)' \subseteq SessionsOf(v)
  BY <1>1, <1>3, SettledPreserves
<1>5. \A q \in Requests : request'[q].at = "claimed" => Unrevoked(request[q].session)'
  BY <1>1, <1>2, <1>3, ClaimedIsNotRevoked
<1>6. /\ user' \in [Users -> User] /\ verified' \in [SessionIds -> 0 .. MaxPassword]
      /\ issued' \in [Users -> 0 .. MaxPassword] /\ session' \in [SessionIds -> Session \cup {None}]
  BY <1>1, <1>3 DEF TypeOK, Settled
<1>7. /\ user'[u] = row /\ issued'[u] = n
      /\ \A v \in Users \ {u} : user'[v] = user[v] /\ issued'[v] = issued[v]
  BY <1>1 DEF TypeOK
<1>8. RequestInv' /\ SnapshotIsCurrent'
  BY <1>2, <1>4, <1>5, <1>6, <1>7, CommitPreserves
<1>9. SessionsOf(u) \subseteq ss => SessionsOf(u)' = {}
  BY <1>3, <1>4 DEF SessionsOf
<1>10. DisabledHasNoSession'
  BY <1>4, <1>7, <1>9 DEF SessionsInv, AccountInv, DisabledHasNoSession
<1>11. ResetEndsSessions'
  <2> SUFFICES ASSUME NEW s \in SessionIds, Unrevoked(s)'
               PROVE  verified'[s] >= issued'[session'[s].user]
    BY DEF ResetEndsSessions
  <2>1. /\ Unrevoked(s) /\ session'[s].user = session[s].user /\ session[s].user \in Users
        /\ verified[s] >= issued[session[s].user]
    BY <1>1, <1>4, RowTypes DEF SessionsInv, AccountInv, ResetEndsSessions, Unrevoked
  <2>2. session[s].user = u => n = issued[u]
    BY <1>3, <2>1 DEF SessionsOf
  <2> QED
    BY <1>7, <2>1, <2>2
<1>12. IssuedIsPast' /\ LocksAtTheLimit'
  BY <1>7 DEF SessionsInv, AccountInv, IssuedIsPast, LocksAtTheLimit
<1> QED
  BY <1>4, <1>8, <1>10, <1>11, <1>12 DEF SessionsInv, AccountInv

LEMMA RecordFailurePreserves ==
    ASSUME SessionsInv, NEW r \in Requests, RecordFailure(r)
    PROVE  SessionsInv'
<1> DEFINE u == request[r].user
<1>1. TypeOK
  BY DEF SessionsInv, RequestInv
<1>2. u \in Users /\ user[u] \in User
  BY <1>1, RowTypes DEF RecordFailure, Now
<1>3. /\ user' = [user EXCEPT ![u] = CountFailure(u)] /\ user[u].failed < FailureBound
      /\ session' = session /\ verified' = verified /\ issued' = issued /\ Commit(r, {u}, {})
  BY DEF RecordFailure
<1>4. user[u].failed + 1 \in 0 .. FailureBound
  BY <1>2, <1>3, SessionsAssumption DEF User
<1>5. /\ CountFailure(u) \in User
      /\ CountFailure(u).password = user[u].password /\ CountFailure(u).status = user[u].status
      /\ CountFailure(u).failed >= MaxFailed => CountFailure(u).lock # "none"
  <2> DEFINE lock == IF user[u].failed + 1 >= MaxFailed THEN "running" ELSE user[u].lock
  <2>1. lock \in {"none", "running", "over"}
    BY <1>2 DEF User
  <2>2. CountFailure(u) = [user[u] EXCEPT !.failed = user[u].failed + 1, !.lock = lock]
    BY <1>2 DEF CountFailure, User
  <2>3. user[u].failed + 1 >= MaxFailed => lock = "running"
    OBVIOUS
  <2> HIDE DEF lock
  <2> QED
    BY <1>2, <1>4, <2>1, <2>2, <2>3 DEF User
<1>6. RevokeAll({}) /\ ~AnyLocked({}) /\ issued' = [issued EXCEPT ![u] = issued[u]]
  BY <1>1, <1>2, <1>3 DEF RevokeAll, AnyLocked, TypeOK
<1>7. /\ issued[u] \in 0 .. MaxPassword /\ issued[u] <= CountFailure(u).password
      /\ CountFailure(u).password >= user[u].password
  BY <1>1, <1>2, <1>5 DEF SessionsInv, AccountInv, IssuedIsPast, TypeOK, User
<1> QED
  BY <1>2, <1>3, <1>5, <1>6, <1>7, AccountPreserves

(* A change of password leaves the account active, and does not count as   *)
(* one an administrator issued.                                            *)
LEMMA ChangePasswordPreserves ==
    ASSUME SessionsInv, NEW r \in Requests, ChangePassword(r)
    PROVE  SessionsInv'
<1> DEFINE u == request[r].user
           ss == request[r].victims
           row == [user[u] EXCEPT !.password = @ + 1, !.status = "ACTIVE", !.failed = 0, !.lock = "none"]
<1>1. TypeOK
  BY DEF SessionsInv, RequestInv
<1>2. u \in Users /\ user[u] \in User
  BY <1>1, RowTypes DEF ChangePassword, Now
<1>3. /\ user[u].password < MaxPassword /\ verified' = verified /\ issued' = issued
      /\ ~AnyLocked(ss) /\ RevokeAll(ss) /\ Commit(r, {u}, ss)
  BY DEF ChangePassword
<1>4. user' = [user EXCEPT ![u] = row]
  BY <1>1, <1>2 DEF ChangePassword, TypeOK, User
<1>5. user[u].password + 1 \in 0 .. MaxPassword /\ 0 \in 0 .. FailureBound
  BY <1>2, <1>3, SessionsAssumption DEF User
<1>6. /\ row \in User /\ row.password = user[u].password + 1 /\ row.status = "ACTIVE"
      /\ row.failed = 0
  <2>1. "ACTIVE" \in Statuses /\ "none" \in {"none", "running", "over"}
    BY DEF Statuses
  <2> QED
    BY <1>2, <1>5, <2>1 DEF User
<1>7. issued' = [issued EXCEPT ![u] = issued[u]]
  BY <1>1, <1>2, <1>3 DEF TypeOK
<1>8. /\ issued[u] \in 0 .. MaxPassword /\ issued[u] <= row.password
      /\ row.password >= user[u].password /\ ~(row.failed >= MaxFailed)
  BY <1>1, <1>2, <1>6, SessionsAssumption DEF SessionsInv, AccountInv, IssuedIsPast, TypeOK, User
<1> HIDE DEF row
<1> QED
  BY <1>2, <1>3, <1>4, <1>6, <1>7, <1>8, AccountPreserves

(* An administrator's transaction that is not stale knows every session it *)
(* has to revoke.                                                          *)
LEMMA AdministerPreserves ==
    ASSUME SessionsInv, NEW r \in Requests, Administer(r)
    PROVE  SessionsInv'
<1> DEFINE u == request[r].user
           ss == request[r].victims
           change == request[r].change
           reset == change.kind = "reset"
           password == IF reset THEN user[u].password + 1 ELSE user[u].password
           row == [user[u] EXCEPT !.status = change.status, !.password = password,
                                  !.leaving = user[u].leaving \/ change.kind = "deletion"]
           n == IF reset THEN password ELSE issued[u]
<1>1. TypeOK
  BY DEF SessionsInv, RequestInv
<1>2. /\ u \in Users /\ user[u] \in User /\ issued[u] \in 0 .. MaxPassword
      /\ change \in Change /\ Found(u, ss, change) /\ issued[u] <= user[u].password
  <2>1. Now(r, "administering") /\ ~Now(r, "idle") /\ ~request[r].stale
    BY DEF Administer, Now
  <2> QED
    BY <1>1, <2>1, RowTypes
    DEF SessionsInv, RequestInv, RequestsAreWhole, AccountInv, SnapshotIsCurrent, IssuedIsPast, TypeOK
<1>3. /\ ~AnyLocked(ss) /\ RevokeAll(ss) /\ Commit(r, {u}, ss) /\ verified' = verified
      /\ reset => user[u].password < MaxPassword
  BY DEF Administer
<1>4. password \in 0 .. MaxPassword /\ password >= user[u].password
  BY <1>2, <1>3, SessionsAssumption DEF User
<1>5. user' = [user EXCEPT ![u] = row]
  BY <1>1, <1>2 DEF Administer, TypeOK, User
<1>6. /\ row \in User /\ row.password = password /\ row.status = change.status
      /\ row.failed = user[u].failed /\ row.lock = user[u].lock
  <2> DEFINE leaving == user[u].leaving \/ change.kind = "deletion"
  <2>1. change.status \in Statuses /\ leaving \in BOOLEAN
    BY <1>2 DEF Change, User
  <2> HIDE DEF password, leaving
  <2> QED
    BY <1>2, <1>4, <2>1 DEF User
<1>7. issued' = [issued EXCEPT ![u] = n]
  <2>1. user'[u].password = password
    BY <1>1, <1>2, <1>5, <1>6 DEF TypeOK
  <2> QED
    BY <1>1, <1>2, <2>1 DEF Administer, TypeOK
<1>8. n \in 0 .. MaxPassword /\ n <= password
  BY <1>2, <1>4 DEF User
<1>9. reset => SessionsOf(u) \subseteq ss
  BY <1>2 DEF Found
<1>10. row.status = "DISABLED" => user[u].status = "DISABLED" \/ SessionsOf(u) \subseteq ss
  BY <1>2, <1>6 DEF Found
<1>11. n = issued[u] \/ SessionsOf(u) \subseteq ss
  BY <1>9
<1>12. row.failed >= MaxFailed => row.lock # "none"
  BY <1>2, <1>6 DEF SessionsInv, AccountInv, LocksAtTheLimit
<1> HIDE DEF row, n, password
<1> QED
  BY <1>2, <1>3, <1>4, <1>5, <1>6, <1>7, <1>8, <1>10, <1>11, <1>12, AccountPreserves

(* The new session stands for the one that was claimed, which its user     *)
(* still had.                                                              *)
LEMMA RotatePreserves ==
    ASSUME SessionsInv, NEW r \in Requests, NEW t \in SessionIds, Rotate(r, t)
    PROVE  SessionsInv'
<1>1. TypeOK /\ RequestsAreWhole /\ ClaimIsExclusive /\ FamilyInv
  BY DEF SessionsInv, RequestInv
<1> PICK s \in SessionIds : Now(r, "claimed") /\ request[r].session = s /\ Unrevoked(s)
  BY <1>1 DEF Rotate, Now, RequestsAreWhole, WithSession, TypeOK
<1> DEFINE u == session[s].user
<1>2. Now(r, "claimed") /\ request[r].session = s /\ Unrevoked(s)
  OBVIOUS
<1>3. /\ ~Exists(t) /\ verified' = [verified EXCEPT ![t] = verified[s]]
      /\ session' = [session EXCEPT ![s] = Consumed(s, t),
                                    ![t] = NewSession(session[s].user, session[s].family)]
      /\ Commit(r, {}, {s}) /\ user' = user /\ issued' = issued
  BY DEF Rotate
<1>4. Committed({}, {s}) /\ request'[r] = Idle
  BY <1>1, <1>3, CommitLeaves
<1>5. /\ FamilyInv'
      /\ session' \in [SessionIds -> Session \cup {None}]
      /\ \A x \in SessionIds \ {s, t} : session'[x] = session[x]
      /\ Exists(s)' /\ ~Unrevoked(s)'
      /\ Exists(t)' /\ session'[t].user = u
  BY <1>1, <1>2, <1>3, RotatedPreserves
<1>6. u \in Users /\ s \in SessionsOf(u)
  BY <1>1, <1>2, RowTypes DEF Unrevoked
<1>7. verified' \in [SessionIds -> 0 .. MaxPassword]
  BY <1>1, <1>2, <1>3 DEF TypeOK
<1>8. \A v \in Users : SessionsOf(v)' \subseteq SessionsOf(v) \/ v = u
  <2> SUFFICES ASSUME NEW v \in Users, v # u, NEW x \in SessionIds, Unrevoked(x)', session'[x].user = v
               PROVE  Unrevoked(x) /\ session[x].user = v
    BY DEF SessionsOf
  <2> QED
    BY <1>5 DEF Unrevoked, Exists
<1>9. \A x \in SessionIds : Exists(x) => Exists(x)'
  BY <1>5 DEF Exists
<1>10. \A q \in Requests : request'[q].at = "claimed" => Unrevoked(request[q].session)'
  <2> SUFFICES ASSUME NEW q \in Requests, request'[q].at = "claimed"
               PROVE  Unrevoked(request[q].session)'
    OBVIOUS
  <2>1. request[q].at = "claimed" /\ q # r /\ request'[q].session = request[q].session
    BY <1>4 DEF Committed, Idle
  <2>2. request[q].session \in SessionIds /\ Unrevoked(request[q].session)
    BY <1>1, <2>1 DEF TypeOK, RequestsAreWhole, WithSession
  <2>3. request[q].session # s /\ request[q].session # t
    BY <1>1, <1>2, <1>3, <2>1, <2>2 DEF ClaimIsExclusive, Now, Unrevoked
  <2>4. session'[request[q].session] = session[request[q].session]
    BY <1>5, <2>2, <2>3
  <2> QED
    BY <2>1, <2>2, <2>4 DEF Unrevoked, Exists
<1>11. RequestInv' /\ SnapshotIsCurrent'
  <2>1. \A v \in Users \ {} : SessionsOf(v)' \subseteq SessionsOf(v) \/ SessionsOf(v) \cap {s} # {}
    BY <1>6, <1>8
  <2>2. user' \in [Users -> User] /\ issued' \in [Users -> 0 .. MaxPassword]
    BY <1>1, <1>3 DEF TypeOK
  <2>3. \A v \in Users \ {} : user'[v].status = user[v].status
    BY <1>3
  <2> QED
    BY <1>4, <1>5, <1>7, <1>9, <1>10, <2>1, <2>2, <2>3, CommitPreserves
<1>12. DisabledHasNoSession'
  <2>1. user[u].status # "DISABLED"
    BY <1>6 DEF SessionsInv, AccountInv, DisabledHasNoSession
  <2> QED
    BY <1>3, <1>8, <2>1 DEF SessionsInv, AccountInv, DisabledHasNoSession
<1>13. ResetEndsSessions'
  <2> SUFFICES ASSUME NEW x \in SessionIds, Unrevoked(x)'
               PROVE  verified'[x] >= issued'[session'[x].user]
    BY DEF ResetEndsSessions
  <2>1. CASE x = t
    <3>1. verified'[t] = verified[s] /\ verified[s] >= issued[u]
      BY <1>1, <1>2, <1>3 DEF TypeOK, SessionsInv, AccountInv, ResetEndsSessions
    <3> QED
      BY <1>3, <1>5, <2>1, <3>1
  <2>2. CASE x # t
    <3>1. x # s /\ session'[x] = session[x] /\ verified'[x] = verified[x]
      BY <1>1, <1>3, <1>5, <2>2 DEF TypeOK
    <3> QED
      BY <1>3, <3>1 DEF SessionsInv, AccountInv, ResetEndsSessions, Unrevoked, Exists
  <2> QED  BY <2>1, <2>2
<1>14. IssuedIsPast' /\ LocksAtTheLimit'
  BY <1>3 DEF SessionsInv, AccountInv, IssuedIsPast, LocksAtTheLimit
<1> QED
  BY <1>5, <1>11, <1>12, <1>13, <1>14 DEF SessionsInv, AccountInv

(* Time passes, for a session or for a lock: no request is touched.        *)
LEMMA TimePreserves ==
    ASSUME SessionsInv, (\E s \in SessionIds : Expire(s)) \/ (\E u \in Users : LockElapses(u))
    PROVE  SessionsInv'
<1>1. TypeOK /\ RequestsAreWhole /\ FamilyInv
  BY DEF SessionsInv, RequestInv
<1>2. Committed({}, {})
  BY <1>1 DEF Committed, TypeOK, Expire, LockElapses
<1>3. CASE \E s \in SessionIds : Expire(s)
  <2>1. PICK s \in SessionIds : Expire(s)
    BY <1>3
  <2>2. /\ session[s] \in Session /\ Unrevoked(s) /\ UNCHANGED <<user, request, verified, issued>>
        /\ session' = [session EXCEPT ![s] = [session[s] EXCEPT !.state = "expired"]]
    BY <1>1, <2>1, RowTypes DEF Expire, Usable, Unrevoked, TypeOK
  <2>3. [session[s] EXCEPT !.state = "expired"] \in Session
    BY <2>2 DEF Session, States
  <2>4. Settled
    BY <1>1, <2>2, <2>3 DEF Settled, TypeOK
  <2>5. /\ FamilyInv'
        /\ \A x \in SessionIds :
              /\ Exists(x)' <=> Exists(x)
              /\ Unrevoked(x)' => Unrevoked(x)
              /\ Exists(x) => session'[x].user = session[x].user
        /\ \A v : SessionsOf(v)' \subseteq SessionsOf(v)
    BY <1>1, <2>4, SettledPreserves
  <2>6. \A q \in Requests : request'[q].at = "claimed" => Unrevoked(request[q].session)'
    <3> SUFFICES ASSUME NEW q \in Requests, request[q].at = "claimed"
                 PROVE  Unrevoked(request[q].session)'
      BY <2>2
    <3>1. request[q].session \in SessionIds /\ Unrevoked(request[q].session)
      BY <1>1 DEF TypeOK, RequestsAreWhole, WithSession
    <3>2. session'[s].state = "expired"
      BY <1>1, <2>2 DEF TypeOK, Session
    <3>3. Exists(request[q].session)'
      BY <2>2, <2>5, <3>1 DEF Unrevoked, Exists
    <3>4. request[q].session # s => session'[request[q].session] = session[request[q].session]
      BY <1>1, <2>2, <3>1 DEF TypeOK
    <3> QED
      BY <2>2, <3>1, <3>2, <3>3, <3>4 DEF Unrevoked, Exists
  <2>7. RequestInv' /\ SnapshotIsCurrent'
    <3>1. /\ user' \in [Users -> User] /\ verified' \in [SessionIds -> 0 .. MaxPassword]
          /\ issued' \in [Users -> 0 .. MaxPassword] /\ session' \in [SessionIds -> Session \cup {None}]
      BY <1>1, <2>2, <2>4 DEF TypeOK, Settled
    <3> QED
      BY <1>2, <2>2, <2>5, <2>6, <3>1, CommitPreserves
  <2>8. DisabledHasNoSession' /\ ResetEndsSessions' /\ LocksAtTheLimit' /\ IssuedIsPast'
    BY <2>2, <2>5 DEF SessionsInv, AccountInv, DisabledHasNoSession, ResetEndsSessions,
                      LocksAtTheLimit, IssuedIsPast, Unrevoked, Exists
  <2> QED
    BY <2>5, <2>7, <2>8 DEF SessionsInv, AccountInv
<1>4. CASE \E u \in Users : LockElapses(u)
  <2>1. PICK u \in Users : LockElapses(u)
    BY <1>4
  <2>2. /\ user[u] \in User /\ UNCHANGED <<session, request, verified, issued>>
        /\ user' = [user EXCEPT ![u] = [user[u] EXCEPT !.lock = "over"]]
    BY <1>1, <2>1, RowTypes DEF LockElapses, TypeOK
  <2>3. /\ [user[u] EXCEPT !.lock = "over"] \in User
        /\ user'[u].status = user[u].status /\ user'[u].password = user[u].password
        /\ user'[u].lock = "over"
        /\ \A v \in Users \ {u} : user'[v] = user[v]
    BY <1>1, <2>2 DEF User, TypeOK
  <2>4. user' \in [Users -> User]
    BY <1>1, <2>2, <2>3 DEF TypeOK
  <2>5. \A v : SessionsOf(v)' = SessionsOf(v)
    BY <2>2 DEF SessionsOf, Unrevoked, Exists
  <2>6. RequestInv' /\ SnapshotIsCurrent'
    <3>1. /\ \A v \in Users \ {} : user'[v].status = user[v].status
          /\ \A v \in Users \ {} : SessionsOf(v)' \subseteq SessionsOf(v)
          /\ \A s \in SessionIds : Exists(s) => Exists(s)'
      BY <2>2, <2>3, <2>5 DEF Exists
    <3>2. \A q \in Requests : request'[q].at = "claimed" => Unrevoked(request[q].session)'
      BY <1>1, <2>2 DEF TypeOK, Unrevoked, Exists
    <3>3. /\ verified' \in [SessionIds -> 0 .. MaxPassword] /\ issued' \in [Users -> 0 .. MaxPassword]
          /\ session' \in [SessionIds -> Session \cup {None}]
      BY <1>1, <2>2 DEF TypeOK
    <3> QED
      BY <1>2, <2>4, <3>1, <3>2, <3>3, CommitPreserves
  <2>7. FamilyInv'
    BY <1>1, <2>2 DEF FamilyInv, LinksExist, FamilyIsAChain, OneUsableToken, Unrevoked, Exists
  <2>8. DisabledHasNoSession' /\ ResetEndsSessions' /\ LocksAtTheLimit' /\ IssuedIsPast'
    BY <2>2, <2>3, <2>5 DEF SessionsInv, AccountInv, DisabledHasNoSession, ResetEndsSessions,
                            LocksAtTheLimit, IssuedIsPast, Unrevoked, Exists
  <2> QED
    BY <2>6, <2>7, <2>8 DEF SessionsInv, AccountInv
<1> QED
  BY <1>3, <1>4

-----------------------------------------------------------------------------
(* The invariant holds initially and every step preserves it.              *)

LEMMA InitSessions == Init => SessionsInv
<1> SUFFICES ASSUME Init PROVE SessionsInv
  OBVIOUS
<1>1. Idle \in Request /\ Idle.at = "idle"
  BY SessionsAssumption DEF Idle, Request
<1>2. \A s \in SessionIds : ~Exists(s) /\ ~Unrevoked(s)
  BY DEF Init, Exists, Unrevoked
<1>3. \A r \in Requests : request[r] = Idle
  BY DEF Init
<1>4. \A u \in Users :
         /\ user[u] \in User /\ user[u].failed = 0 /\ issued[u] = 0
         /\ user[u].status # "DISABLED"
  <2> SUFFICES ASSUME NEW u \in Users
               PROVE  user[u] \in User /\ user[u].failed = 0 /\ issued[u] = 0 /\ user[u].status # "DISABLED"
    OBVIOUS
  <2>1. PICK status \in {"ACTIVE", "PENDING_PASSWORD_CHANGE"} :
           user[u] = [password |-> 0, status |-> status, failed |-> 0, lock |-> "none", leaving |-> FALSE]
    BY DEF Init
  <2>2. 0 \in 0 .. MaxPassword /\ 0 \in 0 .. FailureBound
    BY SessionsAssumption
  <2> QED
    BY <2>1, <2>2 DEF Init, User, Statuses
<1>5. TypeOK
  BY <1>1, <1>3, <1>4, SessionsAssumption DEF Init, TypeOK
<1>6. RequestsAreWhole /\ ClaimIsExclusive /\ SnapshotIsCurrent
  BY <1>1, <1>3 DEF RequestsAreWhole, ClaimIsExclusive, SnapshotIsCurrent, WithSession, Now
<1>7. FamilyInv
  BY <1>2 DEF FamilyInv, LinksExist, FamilyIsAChain, OneUsableToken
<1>8. DisabledHasNoSession /\ ResetEndsSessions /\ LocksAtTheLimit /\ IssuedIsPast
  BY <1>2, <1>4, SessionsAssumption
  DEF DisabledHasNoSession, ResetEndsSessions, LocksAtTheLimit, IssuedIsPast, User
<1> QED
  BY <1>5, <1>6, <1>7, <1>8 DEF SessionsInv, RequestInv, AccountInv

LEMMA NextSessions == SessionsInv /\ [Next]_vars => SessionsInv'
<1> SUFFICES ASSUME SessionsInv, [Next]_vars PROVE SessionsInv'
  OBVIOUS
<1>1. CASE UNCHANGED vars
  BY <1>1 DEF vars, SessionsInv, RequestInv, TypeOK, RequestsAreWhole, ClaimIsExclusive,
              FamilyInv, LinksExist, FamilyIsAChain, OneUsableToken,
              AccountInv, DisabledHasNoSession, ResetEndsSessions, LocksAtTheLimit, SnapshotIsCurrent,
              IssuedIsPast, Found, SessionsOf, Unrevoked, Exists, Now
<1>2. CASE \E r \in Requests : LocalNext(r)
  BY <1>2, LocalSteps, LocalPreserves DEF SessionsInv
<1>3. CASE \E r \in Requests : RecordFailure(r)
  BY <1>3, RecordFailurePreserves
<1>4. CASE \E r \in Requests, s \in SessionIds : OpenSession(r, s)
  BY <1>4, OpenSessionPreserves
<1>5. CASE \E r \in Requests, t \in SessionIds : Rotate(r, t)
  BY <1>5, RotatePreserves
<1>6. CASE \E r \in Requests : RevokeFamily(r)
  BY <1>6, RevocationPreserves DEF RevokeFamily
<1>7. CASE \E s \in SessionIds : Logout(s)
  BY <1>7, RevocationPreserves DEF Logout, AnyLocked
<1>8. CASE \E r \in Requests : ChangePassword(r)
  BY <1>8, ChangePasswordPreserves
<1>9. CASE \E r \in Requests : Administer(r)
  BY <1>9, AdministerPreserves
<1>10. CASE (\E s \in SessionIds : Expire(s)) \/ (\E u \in Users : LockElapses(u))
  BY <1>10, TimePreserves
<1> QED
  BY <1>1, <1>2, <1>3, <1>4, <1>5, <1>6, <1>7, <1>8, <1>9, <1>10 DEF Next, LocalNext

(* The invariant of the proofs, which every theorem below projects.        *)
THEOREM SessionsInvariant == Spec => []SessionsInv
BY InitSessions, NextSessions, PTL DEF Spec

(* A request past its guard knows its rows, and a rotation in its          *)
(* transaction holds an unrevoked session, whatever commits meanwhile      *)
(* (session.service.ts, rotate).                                           *)
THEOREM SessionsTypeCorrect == Spec => []TypeOK
<1>1. SessionsInv => TypeOK
  BY DEF SessionsInv, RequestInv
<1> QED
  BY <1>1, SessionsInvariant, PTL

(* A refresh token is replaced once, so that a family is one chain of one  *)
(* user, however many requests present its tokens at the same time.        *)
THEOREM FamilyStaysAChain == Spec => []FamilyIsAChain
<1>1. SessionsInv => FamilyIsAChain
  BY DEF SessionsInv, FamilyInv
<1> QED
  BY <1>1, SessionsInvariant, PTL

(* A family never has two unrevoked sessions (rotate consumes one and      *)
(* creates its replacement in a transaction).                              *)
THEOREM FamilyHasOneToken == Spec => []OneUsableToken
<1>1. SessionsInv => OneUsableToken
  BY DEF SessionsInv, FamilyInv
<1> QED
  BY <1>1, SessionsInvariant, PTL

(* A disabled account has no session (updateUser, requestDeletion),        *)
(* whatever logins, rotations and changes were under way.                  *)
THEOREM DisabledStaysOut == Spec => []DisabledHasNoSession
<1>1. SessionsInv => DisabledHasNoSession
  BY DEF SessionsInv, AccountInv
<1> QED
  BY <1>1, SessionsInvariant, PTL

(* No session goes on that was opened with a password an administrator has *)
(* replaced since (resetPassword), nor one rotated from it.                *)
THEOREM ResetIsFinal == Spec => []ResetEndsSessions
<1>1. SessionsInv => ResetEndsSessions
  BY DEF SessionsInv, AccountInv
<1> QED
  BY <1>1, SessionsInvariant, PTL

(* The failed login that reaches the limit locks the account, however the  *)
(* failures overlap (recordFailedLogin).                                   *)
THEOREM LimitLocks == Spec => []LocksAtTheLimit
<1>1. SessionsInv => LocksAtTheLimit
  BY DEF SessionsInv, AccountInv
<1> QED
  BY <1>1, SessionsInvariant, PTL

=============================================================================
