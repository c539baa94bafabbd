----------------------------- MODULE WebSession -----------------------------
(***************************************************************************)
(* The session of the web client in one tab: the access token in memory,   *)
(* the epoch that numbers the sessions, the store that the routes read,    *)
(* and the calls whose answers arrive when all of these may have changed:  *)
(* requests that refresh and retry, the restore of a page load, the login, *)
(* the logout, the change of a password and the transfer of the authority  *)
(* of the Super Admin, which logs its page out.  Of the server there is    *)
(* what a call can tell: sessions that are rotated, revoked and reused.    *)
(*                                                                         *)
(* The handling of one answer is one step: its promise continuations run   *)
(* before the browser delivers the next one.                               *)
(***************************************************************************)
EXTENDS Naturals, FiniteSets

CONSTANTS
    Users,
    MaxSessions, \* bound on the rows of the server's session table, each with its tokens
    Calls,      \* requests of the pages that can be under way at once
    None,
    MaxEpochs,  \* bound on epochs
    MaxReloads  \* bound on page loads after the first

ASSUME WebSessionAssumption ==
    /\ None \notin Users \cup (1 .. MaxSessions)
    /\ MaxSessions \in Nat /\ MaxEpochs \in Nat /\ MaxReloads \in Nat
    /\ "me" \notin Calls

VARIABLES
    session,  \* the server's rows
    cookie,   \* the refresh token in the browser's jar: the session it belongs to
    token,    \* authStorage: the session the access token belongs to
    epoch,    \* sessionEpoch
    ending,   \* sessionEnding
    store,    \* user and isLoading of the store
    call,     \* the pages' requests under way
    flight,   \* the refresh that the interceptor's requests share
    restore,  \* restoreSession
    leaving,  \* logout
    form,     \* status of the login form
    secured,  \* the page has changed the password and not yet published the user
    reloads,
    refused,  \* history: a call of the session of now was refused
    foreign   \* history: the token came from a cookie of another user than the store's

page == <<call, flight, restore, leaving, form, secured>>
vars == <<session, cookie, token, epoch, ending, store, page, reloads, refused, foreign>>

-----------------------------------------------------------------------------
Sessions == 1 .. MaxSessions

Row == [user : Users \cup {None}, state : {"unused", "live", "rotated", "revoked"},
        expired : BOOLEAN, family : Sessions \cup {None}]

Snapshot == [epoch |-> epoch, token |-> token]

Kinds == {"data", "change", "wrong password", "transfer", "me"}

(* A call of the session's own endpoint.  own: the cookie it was sent with *)
(* is one of the user of the store, if there is one.                       *)
Refresh == [at : {"sent", "answered", "me"}, snap : [epoch : Nat, token : Sessions \cup {None}],
            sent : Sessions \cup {None}, result : Sessions \cup {None}, own : BOOLEAN]

(* A call of a page, or of the restore, with the session it was sent in.   *)
(* Only a transfer is answered in a step of its own: it ends the sessions  *)
(* of the server before its answer ends the one of the tab.                *)
PageCall == [kind : Kinds, snap : [epoch : Nat, token : Sessions \cup {None}],
          retry : BOOLEAN, at : {"sent", "waiting", "answered"}]

ASSUME NoCallAssumption == None \notin Refresh \cup PageCall

NewRefresh == [at |-> "sent", snap |-> Snapshot, sent |-> cookie, result |-> None,
               own |-> store.user = None \/ cookie = None \/ session[cookie].user = store.user]

Loaded == [user |-> None, loading |-> TRUE]

(* The page is loaded for the first time; the store is as it is then.      *)
Begins ==
    /\ session = [s \in Sessions |-> [user |-> None, state |-> "unused", expired |-> FALSE,
                                      family |-> None]]
    /\ cookie = None /\ token = None /\ epoch = 0 /\ ending = FALSE
    /\ call = [c \in Calls \cup {"me"} |-> None]
    /\ flight = None /\ leaving = None
    /\ restore = [at |-> "sent", snap |-> [epoch |-> 0, token |-> None], sent |-> None,
                  result |-> None, own |-> TRUE]
    /\ form = "idle" /\ secured = FALSE
    /\ reloads = 0 /\ refused = FALSE /\ foreign = FALSE

Init == Begins /\ store = Loaded

-----------------------------------------------------------------------------
(* What the routes show.                                                   *)
AppShows == IF store.loading THEN "nothing" ELSE "routes"

ProtectedShows == IF store.user = None THEN "login" ELSE "pages"

OnLogin == AppShows = "routes" /\ ProtectedShows = "login"

OnPages == AppShows = "routes" /\ ProtectedShows = "pages"

-----------------------------------------------------------------------------
(* The server.                                                             *)
IsNext(n) == n \in Sessions /\ \A s \in Sessions : session[s].state = "unused" <=> s >= n

Live(s) == s # None /\ session[s].state = "live"

Good(s) == Live(s) /\ ~session[s].expired

NewRow(u, family) == [user |-> u, state |-> "live", expired |-> FALSE, family |-> family]

(* A rotation, or the revocation of the family of a token that was rotated *)
(* before; the answer is the new session.                                  *)
Rotate(c, n) ==
    /\ Live(c) /\ IsNext(n)
    /\ session' = [session EXCEPT ![c].state = "rotated", ![c].expired = FALSE,
                                  ![n] = NewRow(session[c].user, session[c].family)]

RefuseRotation(c) ==
    /\ ~Live(c)
    /\ session' = IF c # None /\ session[c].state = "rotated"
                  THEN [s \in Sessions |-> IF session[s].family = session[c].family
                                           THEN [session[s] EXCEPT !.state = "revoked"]
                                           ELSE session[s]]
                  ELSE session

ServeRefresh ==
    /\ flight # None /\ flight.at = "sent"
    /\ \E n \in Sessions \cup {None} :
         /\ \/ n # None /\ Rotate(flight.sent, n)
            \/ n = None /\ RefuseRotation(flight.sent)
         /\ flight' = [flight EXCEPT !.at = "answered", !.result = n]
    /\ UNCHANGED <<cookie, token, epoch, ending, store, call, restore, leaving, form, secured,
                   reloads, refused, foreign>>

ServeRestore ==
    /\ restore # None /\ restore.at = "sent"
    /\ \E n \in Sessions \cup {None} :
         /\ \/ n # None /\ Rotate(restore.sent, n)
            \/ n = None /\ RefuseRotation(restore.sent)
         /\ restore' = [restore EXCEPT !.at = "answered", !.result = n]
    /\ UNCHANGED <<cookie, token, epoch, ending, store, call, flight, leaving, form, secured,
                   reloads, refused, foreign>>

ServeLogout ==
    /\ leaving # None /\ leaving.at = "sent"
    /\ session' = IF Live(leaving.sent) THEN [session EXCEPT ![leaving.sent].state = "revoked"] ELSE session
    /\ leaving' = [leaving EXCEPT !.at = "answered"]
    /\ UNCHANGED <<cookie, token, epoch, ending, store, call, flight, restore, form, secured,
                   reloads, refused, foreign>>

(* An access token expires, or an administrator revokes the session.  A    *)
(* token outlives every call that was under way when it was issued: its    *)
(* time is minutes, theirs is apiTimeout.                                  *)
TokenExpires(s) ==
    /\ Good(s) /\ s = token
    /\ flight = None /\ restore = None /\ leaving = None
    /\ session' = [session EXCEPT ![s].expired = TRUE]
    /\ UNCHANGED <<cookie, token, epoch, ending, store, page, reloads, refused, foreign>>

SessionRevoked(s) ==
    /\ session[s].state = "live" /\ s = token
    /\ session' = [session EXCEPT ![s].state = "revoked"]
    /\ UNCHANGED <<cookie, token, epoch, ending, store, page, reloads, refused, foreign>>

-----------------------------------------------------------------------------
(* invalidateSession: only for the session that the snapshot is of.        *)
(* Mutant: whatever the session is now.                                    *)
MatchesAny(snap) == TRUE

Matches(snap) == snap = Snapshot

(* Mutant: a logout's isLoading is left as it was.                         *)
InvalidateButLoading ==
    /\ epoch' = epoch + 1 /\ ending' = FALSE /\ token' = None
    /\ store' = [store EXCEPT !.user = None]
    /\ secured' = FALSE

Invalidate ==
    /\ epoch' = epoch + 1 /\ ending' = FALSE /\ token' = None
    /\ store' = [user |-> None, loading |-> FALSE]
    /\ secured' = FALSE

KeepSession == UNCHANGED <<epoch, ending, token, store, secured>>

(* startSession, by a login, a restore and a published change of password. *)
StartSession(u) ==
    /\ epoch' = epoch + 1 /\ ending' = FALSE
    /\ store' = [user |-> u, loading |-> FALSE]
    /\ refused' = FALSE

(* The restore's call was refused: its token is cleared and nobody is      *)
(* logged in, unless the session has changed since it began.               *)
RestoreFails ==
    /\ restore' = None
    /\ IF restore.snap.epoch = epoch
       THEN /\ token' = None /\ store' = [user |-> None, loading |-> FALSE]
            /\ UNCHANGED <<epoch, ending, secured>>
       ELSE KeepSession

-----------------------------------------------------------------------------
(* The pages' calls.                                                       *)
Me == "me"

Ask(c, kind) ==
    /\ OnPages /\ call[c] = None
    /\ call' = [call EXCEPT ![c] = [kind |-> kind, snap |-> Snapshot, retry |-> FALSE, at |-> "sent"]]
    /\ UNCHANGED <<session, cookie, token, epoch, ending, store, flight, restore, leaving, form,
                   secured, reloads, refused, foreign>>

(* The end of a call; the one of the restore decides who is logged in.     *)
Done(c) == call' = [call EXCEPT ![c] = None]

Reject(c) ==
    /\ Done(c)
    /\ IF c = Me THEN RestoreFails ELSE KeepSession /\ UNCHANGED restore

RejectInvalid(c) ==
    /\ Done(c) /\ Invalidate
    /\ restore' = IF c = Me THEN None ELSE restore

(* The interceptor's request goes out again with the token of now.         *)
Resent(c) == [call[c] EXCEPT !.snap = Snapshot, !.retry = TRUE, !.at = "sent"]

Accepted(c) == Good(call[c].snap.token)

(* A success; a changed password ends the user's other sessions.           *)
Succeed(c) ==
    LET q == call[c] IN
    /\ q # None /\ q.at = "sent" /\ Accepted(c) /\ q.kind \in {"data", "change", "me"}
    /\ Done(c)
    /\ session' = IF q.kind = "change"
                  THEN [s \in Sessions |->
                          IF s # q.snap.token /\ session[s].state = "live"
                             /\ session[s].user = session[q.snap.token].user
                          THEN [session[s] EXCEPT !.state = "revoked"] ELSE session[s]]
                  ELSE session
    /\ IF c = Me
       THEN /\ restore' = None
            /\ IF restore.snap.epoch = epoch
               THEN StartSession(session[q.snap.token].user) /\ UNCHANGED <<token, secured>>
               ELSE KeepSession /\ UNCHANGED refused
       ELSE /\ secured' = (secured \/ (q.kind = "change" /\ q.snap.epoch = epoch /\ OnPages))
            /\ UNCHANGED <<restore, epoch, ending, token, store, refused>>
    /\ UNCHANGED <<cookie, flight, leaving, form, reloads, foreign>>

(* The server transfers the authority: it revokes every session of the     *)
(* holder that asks and of the successor.                                  *)
ServeTransfer(c) ==
    LET q == call[c] IN
    /\ q # None /\ q.kind = "transfer" /\ q.at = "sent" /\ Accepted(c)
    /\ \E successor \in Users \ {session[q.snap.token].user} :
         session' = [s \in Sessions |->
                       IF session[s].state = "live"
                          /\ session[s].user \in {session[q.snap.token].user, successor}
                       THEN [session[s] EXCEPT !.state = "revoked"] ELSE session[s]]
    /\ call' = [call EXCEPT ![c].at = "answered"]
    /\ UNCHANGED <<cookie, token, epoch, ending, store, flight, restore, leaving, form, secured,
                   reloads, refused, foreign>>

(* The page that asked clears the token and the user of the tab, whatever  *)
(* session the tab has by then, and leaves the epoch as it is.  The        *)
(* navigation that follows is a Reload.                                    *)
TransferArrives(c) ==
    /\ call[c] # None /\ call[c].kind = "transfer" /\ call[c].at = "answered"
    /\ Done(c)
    /\ token' = None /\ store' = [user |-> None, loading |-> FALSE] /\ secured' = FALSE
    /\ UNCHANGED <<session, cookie, epoch, ending, flight, restore, leaving, form, reloads,
                   refused, foreign>>

(* What the interceptor passes on: no answer at all, another error, or the *)
(* wrong password of a reveal.                                             *)
Fail(c) ==
    /\ call[c] # None /\ call[c].at \in {"sent", "answered"}
    /\ Reject(c)
    /\ UNCHANGED <<session, cookie, flight, leaving, form, reloads, refused, foreign>>

(* A 401: of a token that is no longer good, or of a wrong current password*)
(* of a change.                                                            *)
Unauthorized(c) ==
    LET q == call[c] IN
    /\ q # None /\ q.at = "sent"
    /\ ~Accepted(c) \/ q.kind = "wrong password"
    /\ refused' = (refused \/ q.snap.epoch = epoch)
    /\ \/ ending /\ Reject(c) /\ UNCHANGED flight
       \/ /\ ~ending /\ q.retry
          /\ IF Matches(q.snap) THEN RejectInvalid(c) ELSE Reject(c)
          /\ UNCHANGED flight
       \/ /\ ~ending /\ ~q.retry /\ q.snap.epoch # epoch
          /\ Reject(c) /\ UNCHANGED flight
       \/ /\ ~ending /\ ~q.retry /\ q.snap.epoch = epoch
          /\ IF token # None /\ q.snap.token # token
             THEN call' = [call EXCEPT ![c] = Resent(c)] /\ UNCHANGED flight
             ELSE /\ call' = [call EXCEPT ![c] = [Resent(c) EXCEPT !.at = "waiting"]]
                  /\ flight' = IF flight = None THEN NewRefresh ELSE flight
          /\ KeepSession /\ UNCHANGED restore
    /\ UNCHANGED <<session, cookie, leaving, form, reloads, foreign>>

(* The shared refresh arrives, or fails: it writes its token only into the *)
(* session that asked for it, and those who wait go on or give up.         *)
(* Mutant: whatever the session is now.                                    *)
WritesAnywhere(r) == r.result # None

Writes(r) == r.result # None /\ Matches(r.snap)

Waiting == {c \in DOMAIN call : call[c] # None /\ call[c].at = "waiting"}

Resume ==
    /\ token' = flight.result /\ foreign' = ~flight.own
    /\ call' = [c \in DOMAIN call |->
                  IF c \in Waiting
                  THEN [Resent(c) EXCEPT !.snap = [epoch |-> epoch, token |-> flight.result]]
                  ELSE call[c]]
    /\ UNCHANGED <<epoch, ending, store, secured, restore>>

GiveUp ==
    /\ call' = [c \in DOMAIN call |-> IF c \in Waiting THEN None ELSE call[c]]
    /\ \/ /\ \E c \in Waiting : Matches(call[c].snap)
          /\ Invalidate /\ restore' = IF Me \in Waiting THEN None ELSE restore
       \/ /\ \A c \in Waiting : ~Matches(call[c].snap)
          /\ IF Me \in Waiting THEN RestoreFails ELSE KeepSession /\ UNCHANGED restore
    /\ UNCHANGED foreign

RefreshArrives ==
    /\ flight # None /\ flight.at = "answered"
    /\ cookie' = IF flight.result = None THEN cookie ELSE flight.result
    /\ IF Writes(flight) THEN Resume ELSE GiveUp
    /\ flight' = None
    /\ UNCHANGED <<session, leaving, form, reloads, refused>>

RefreshLost ==
    /\ flight # None
    /\ GiveUp /\ flight' = None
    /\ UNCHANGED <<session, cookie, leaving, form, reloads, refused>>

-----------------------------------------------------------------------------
(* The restore of a page load: a refresh of its own, then the user.        *)
RestoreArrives ==
    /\ restore # None /\ restore.at = "answered"
    /\ cookie' = IF restore.result = None THEN cookie ELSE restore.result
    /\ IF Writes(restore)
       THEN /\ token' = restore.result /\ foreign' = ~restore.own
            /\ restore' = [restore EXCEPT !.at = "me"]
            /\ call' = [call EXCEPT ![Me] = [kind |-> "me", retry |-> FALSE, at |-> "sent",
                                snap |-> [epoch |-> epoch, token |-> restore.result]]]
            /\ UNCHANGED <<epoch, ending, store, secured>>
       ELSE RestoreFails /\ UNCHANGED <<call, foreign>>
    /\ UNCHANGED <<session, flight, leaving, form, reloads, refused>>

RestoreLost ==
    /\ restore # None /\ restore.at # "me"
    /\ RestoreFails
    /\ UNCHANGED <<session, cookie, call, flight, leaving, form, reloads, refused, foreign>>

-----------------------------------------------------------------------------
(* The login form.                                                         *)
SubmitLogin ==
    /\ OnLogin /\ form \in {"idle", "error"} /\ epoch < MaxEpochs
    /\ form' = "authenticating"
    /\ UNCHANGED <<session, cookie, token, epoch, ending, store, call, flight, restore, leaving,
                   secured, reloads, refused, foreign>>

LoginSucceeds(u, n) ==
    /\ form = "authenticating" /\ IsNext(n)
    /\ session' = [session EXCEPT ![n] = NewRow(u, n)]
    /\ cookie' = n /\ token' = n /\ foreign' = FALSE
    /\ StartSession(u)
    /\ form' = "idle"
    /\ UNCHANGED <<call, flight, restore, leaving, secured, reloads>>

LoginFails ==
    /\ form = "authenticating"
    /\ form' \in {"error", "service_unavailable"}
    /\ UNCHANGED <<session, cookie, token, epoch, ending, store, call, flight, restore, leaving,
                   secured, reloads, refused, foreign>>

(* Typing ends the error, and the wait for a service.                      *)
EditLogin ==
    /\ form \in {"error", "service_unavailable"}
    /\ form' = "idle"
    /\ UNCHANGED <<session, cookie, token, epoch, ending, store, call, flight, restore, leaving,
                   secured, reloads, refused, foreign>>

(* The logout begins a new epoch at once and keeps the token for its call. *)
Logout ==
    /\ OnPages /\ leaving = None /\ epoch < MaxEpochs
    /\ ending' = TRUE /\ epoch' = epoch + 1
    /\ store' = [store EXCEPT !.loading = TRUE] /\ secured' = FALSE
    /\ leaving' = [at |-> "sent", epoch |-> epoch + 1, sent |-> cookie]
    /\ UNCHANGED <<session, cookie, token, call, flight, restore, form, reloads, refused, foreign>>

LogoutEnds ==
    /\ leaving # None
    /\ \/ leaving.at = "answered" /\ cookie' = None
       \/ UNCHANGED cookie
    /\ IF epoch = leaving.epoch THEN Invalidate ELSE KeepSession
    /\ leaving' = None
    /\ UNCHANGED <<session, call, flight, restore, form, reloads, refused, foreign>>

(* The page that changed the password publishes the user, on a click or a  *)
(* timer.                                                                  *)
PublishUser ==
    /\ secured /\ OnPages /\ epoch < MaxEpochs
    /\ StartSession(store.user) /\ secured' = FALSE
    /\ UNCHANGED <<session, cookie, token, call, flight, restore, leaving, form, reloads, foreign>>

(* The page is loaded again: the memory is new, the cookie is not.  Its    *)
(* epoch begins at 0 in the code; no snapshot of the old memory is left.   *)
Reload ==
    /\ reloads < MaxReloads /\ epoch < MaxEpochs
    /\ reloads' = reloads + 1
    /\ epoch' = epoch + 1 /\ token' = None /\ ending' = FALSE /\ store' = Loaded
    /\ call' = [c \in DOMAIN call |-> None] /\ flight' = None /\ leaving' = None
    /\ restore' = [NewRefresh EXCEPT !.snap = [epoch |-> epoch + 1, token |-> None], !.own = TRUE]
    /\ form' = "idle" /\ secured' = FALSE /\ refused' = FALSE /\ foreign' = FALSE
    /\ UNCHANGED <<session, cookie>>

-----------------------------------------------------------------------------
Answers ==
    \/ ServeRefresh \/ RefreshArrives \/ RefreshLost
    \/ ServeRestore \/ RestoreArrives \/ RestoreLost
    \/ ServeLogout \/ LogoutEnds
    \/ \E c \in Calls \cup {Me} : Succeed(c) \/ Fail(c) \/ Unauthorized(c)
    \/ \E c \in Calls : ServeTransfer(c) \/ TransferArrives(c)

Next ==
    \/ Answers
    \/ \E c \in Calls, kind \in Kinds \ {"me"} : Ask(c, kind)
    \/ \E s \in Sessions : TokenExpires(s) \/ SessionRevoked(s)
    \/ SubmitLogin \/ LoginFails \/ EditLogin
    \/ \E u \in Users, n \in Sessions : LoginSucceeds(u, n)
    \/ Logout \/ PublishUser \/ Reload

(* Every call is answered or times out (apiTimeout).                       *)
Spec == Init /\ [][Next]_vars /\ WF_vars(Answers)

-----------------------------------------------------------------------------
(* The tab never acts as one user while it shows another: a token in       *)
(* memory is one of the store's user, whatever answers of earlier sessions *)
(* arrive late.  Except for a token from a cookie that was already another *)
(* user's when it was presented (README, known divergences).               *)
TokenIsTheUsers ==
    token # None /\ store.user # None /\ ~foreign => session[token].user = store.user

TransferEnds(c) ==
    /\ call[c] # None /\ call[c].kind = "transfer" /\ call[c].at = "answered"
    /\ call'[c] = None

(* A user is logged out by a logout or a reload, because a call of that    *)
(* very session was refused, or by a transfer of the authority that the    *)
(* server made, which is the one answer to an earlier session that ends a  *)
(* later one (README, known divergences).                                  *)
SessionEndsForItsOwnReason ==
    [][store.user # None /\ store'.user = None =>
         \/ leaving # None \/ store'.loading \/ refused'
         \/ \E c \in Calls : TransferEnds(c)]_vars

(* The application does not stay blank: a restore or a logout under way    *)
(* comes to an end that shows the login or the pages.                      *)
LoadingEnds == store.loading ~> ~store.loading
=============================================================================
