---------------------------- MODULE WebClientProofs ----------------------------
(***************************************************************************)
(* The web client for any users, calls, stations, records and bounds.  The *)
(* session: whatever answers come late, the token in memory is one of the  *)
(* user in the store, and a session ends only for a reason of its own.  The*)
(* page of the sources.  All pages together: what one shows as loading     *)
(* waits for an answer it will take, and what it shows is of what is       *)
(* selected on it.                                                         *)
(***************************************************************************)
EXTENDS MCWebClient, WebPagesProofs, FiniteSetTheorems, WellFoundedInduction

SessionTyped ==
    /\ session \in [Sessions -> Row]
    /\ cookie \in Sessions \cup {None} /\ token \in Sessions \cup {None}
    /\ epoch \in Nat
    /\ store \in [user : Users \cup {None}, loading : BOOLEAN]
    /\ call \in [Calls \cup {Me} -> PageCall \cup {None}]
    /\ flight \in Refresh \cup {None} /\ restore \in Refresh \cup {None}

(* A row gets its user when it is made, and keeps it.                      *)
UnusedIsNobodys == \A s \in Sessions : session[s].state = "unused" => session[s].user = None

(* No snapshot is of a session still to come.                              *)
SnapsArePast ==
    /\ flight # None => flight.snap.epoch <= epoch
    /\ restore # None => restore.snap.epoch <= epoch
    /\ \A c \in Calls \cup {Me} : call[c] # None => call[c].snap.epoch <= epoch

(* What the shared refresh of the session of now brings is of its user.    *)
FlightIsOwn ==
    flight # None /\ flight.snap.epoch = epoch /\ flight.own /\ store.user # None =>
        /\ flight.sent # None => session[flight.sent].user = store.user
        /\ flight.result # None => session[flight.result].user = store.user

(* As long as the session is the one the restore began in, nobody is       *)
(* logged in, no page calls, and the restore's call has the token of now   *)
(* or waits for it.                                                        *)
RestoreIsAlone ==
    restore # None /\ restore.snap.epoch = epoch =>
        /\ store.user = None
        /\ \A c \in Calls : call[c] = None
        /\ flight # None => call[Me] # None /\ call[Me].at = "waiting"
        /\ call[Me] # None /\ call[Me].at = "sent" => call[Me].snap.token = token

MeIsTheRestores == call[Me] # None => restore # None /\ restore.at = "me"

(* Who waits for the refresh of the session of now was refused in it.      *)
WaitersWereRefused ==
    \A c \in Calls \cup {Me} :
        call[c] # None /\ call[c].at = "waiting" /\ call[c].snap.epoch = epoch => refused

WebSessionInv ==
    /\ SessionTyped /\ UnusedIsNobodys /\ TokenIsTheUsers /\ SnapsArePast /\ FlightIsOwn
    /\ RestoreIsAlone /\ MeIsTheRestores /\ WaitersWereRefused

LEMMA InitWebSessionInv == Init => WebSessionInv
<1> SUFFICES ASSUME Init PROVE WebSessionInv OBVIOUS
<1>1. SessionTyped
  <2>1. session \in [Sessions -> Row] /\ epoch \in Nat BY DEF Init, Begins, Row
  <2>2. store \in [user : Users \cup {None}, loading : BOOLEAN] BY DEF Init, Loaded
  <2>3. restore \in Refresh BY DEF Init, Begins, Refresh
  <2> QED BY <2>1, <2>2, <2>3 DEF Init, Begins, SessionTyped, Me
<1> QED BY <1>1 DEF Init, Begins, WebSessionInv, UnusedIsNobodys, TokenIsTheUsers, SnapsArePast,
                    FlightIsOwn, RestoreIsAlone, MeIsTheRestores, WaitersWereRefused, Loaded, Me

-----------------------------------------------------------------------------
(* The server's rows                                                       *)

(* No row that has a user gets another one.                                *)
UsersKept ==
    /\ session' \in [Sessions -> Row]
    /\ \A s \in Sessions : session[s].user # None => session'[s].user = session[s].user
    /\ \A s \in Sessions : session'[s].state = "unused" => session'[s].user = None

LEMMA RotateIs ==
  ASSUME SessionTyped, UnusedIsNobodys, NEW c \in Sessions \cup {None}, NEW n, Rotate(c, n)
  PROVE  /\ UsersKept
         /\ n \in Sessions /\ c \in Sessions /\ session'[n].user = session[c].user
<1> DEFINE old == [session[c] EXCEPT !.state = "rotated", !.expired = FALSE]
           new == NewRow(session[c].user, session[c].family)
<1>1. c \in Sessions /\ n \in Sessions /\ session[c].state = "live" /\ session[n].state = "unused"
  BY DEF Rotate, Live, IsNext, Sessions
<1>2. c # n BY <1>1
<1>3. session \in [Sessions -> Row] BY DEF SessionTyped
<1>4. old \in Row /\ old.state = "rotated" /\ old.user = session[c].user
  BY <1>1, <1>3 DEF Row
<1>5. new \in Row /\ new.state = "live" /\ new.user = session[c].user
  BY <1>1, <1>3 DEF Row, NewRow
<1>6. session' = [session EXCEPT ![c].state = "rotated", ![c].expired = FALSE, ![n] = new]
  BY DEF Rotate
<1>7. session' = [session EXCEPT ![c] = old, ![n] = new]
  BY <1>1, <1>2, <1>3, <1>6
<1> HIDE DEF old, new
<1> QED BY <1>1, <1>2, <1>3, <1>4, <1>5, <1>7 DEF UsersKept, UnusedIsNobodys

LEMMA RevokeIs ==
  ASSUME SessionTyped, UnusedIsNobodys, NEW S \in SUBSET Sessions,
         session' = [s \in Sessions |-> IF s \in S THEN [session[s] EXCEPT !.state = "revoked"]
                                        ELSE session[s]]
  PROVE  UsersKept
<1>1. \A s \in Sessions : /\ [session[s] EXCEPT !.state = "revoked"] \in Row
                          /\ [session[s] EXCEPT !.state = "revoked"].user = session[s].user
                          /\ [session[s] EXCEPT !.state = "revoked"].state = "revoked"
  BY DEF SessionTyped, Row
<1> QED BY <1>1 DEF SessionTyped, UsersKept, UnusedIsNobodys

LEMMA RefusedIs ==
  ASSUME SessionTyped, UnusedIsNobodys, NEW c, RefuseRotation(c) PROVE UsersKept
<1>1. CASE UNCHANGED session BY <1>1 DEF SessionTyped, UsersKept, UnusedIsNobodys
<1>2. CASE session' = [s \in Sessions |-> IF session[s].family = session[c].family
                                          THEN [session[s] EXCEPT !.state = "revoked"]
                                          ELSE session[s]]
  <2> DEFINE S == {s \in Sessions : session[s].family = session[c].family}
  <2>1. session' = [s \in Sessions |-> IF s \in S THEN [session[s] EXCEPT !.state = "revoked"]
                                       ELSE session[s]]
    BY <1>2
  <2> HIDE DEF S
  <2>2. S \in SUBSET Sessions BY DEF S
  <2> QED BY <2>1, <2>2, RevokeIs
<1> QED BY <1>1, <1>2 DEF RefuseRotation

LEMMA UsersStay ==
  ASSUME SessionTyped, UnusedIsNobodys, UNCHANGED session PROVE UsersKept
BY DEF SessionTyped, UsersKept, UnusedIsNobodys

-----------------------------------------------------------------------------
(* Steps that begin no new call                                            *)

(* A new session: what is under way is of an earlier one.                  *)
LEMMA NewEpochKeeps ==
  ASSUME WebSessionInv, UsersKept, epoch' = epoch + 1,
         cookie' \in Sessions \cup {None}, token' \in Sessions \cup {None},
         store' \in [user : Users \cup {None}, loading : BOOLEAN],
         call' \in [Calls \cup {Me} -> PageCall \cup {None}],
         \A c \in Calls \cup {Me} : call'[c] \in {call[c], None},
         flight' \in {flight, None}, restore' \in {restore, None},
         TokenIsTheUsers', call'[Me] # None => restore' = restore
  PROVE  WebSessionInv'
<1>1. SessionTyped /\ SnapsArePast /\ MeIsTheRestores BY DEF WebSessionInv
<1>2. SessionTyped' BY <1>1 DEF SessionTyped, UsersKept
<1>3. epoch \in Nat BY <1>1 DEF SessionTyped
<1>4. /\ flight # None => flight.snap.epoch \in Nat
      /\ restore # None => restore.snap.epoch \in Nat
      /\ \A c \in Calls \cup {Me} : call[c] # None => call[c].snap.epoch \in Nat
  BY <1>1 DEF SessionTyped, Refresh, PageCall
<1>5. /\ flight' # None => flight'.snap.epoch < epoch'
      /\ restore' # None => restore'.snap.epoch < epoch'
      /\ \A c \in Calls \cup {Me} :
           call'[c] # None => call'[c].snap.epoch \in Nat /\ call'[c].snap.epoch < epoch'
  BY <1>1, <1>3, <1>4 DEF SnapsArePast
<1>6. SnapsArePast' /\ FlightIsOwn' /\ RestoreIsAlone' /\ WaitersWereRefused'
  BY <1>3, <1>4, <1>5 DEF SnapsArePast, FlightIsOwn, RestoreIsAlone, WaitersWereRefused
<1>7. MeIsTheRestores' BY <1>1 DEF MeIsTheRestores, Me
<1> QED BY <1>2, <1>6, <1>7 DEF WebSessionInv, UsersKept, UnusedIsNobodys

(* The same session, or one that ends while no restore is under way in it. *)
LEMMA SameEpochKeeps ==
  ASSUME WebSessionInv, UsersKept, UNCHANGED epoch, refused => refused',
         cookie' \in Sessions \cup {None},
         \/ UNCHANGED <<token, store, foreign>>
         \/ /\ token' = None /\ (restore' # None => restore.snap.epoch # epoch)
            /\ store' \in [user : {None}, loading : BOOLEAN],
         call' \in [Calls \cup {Me} -> PageCall \cup {None}],
         \A c \in Calls \cup {Me} : call'[c] \in {call[c], None},
         flight' \in {flight, None}, restore' \in {restore, None},
         call'[Me] = call[Me] \/ restore' = None \/ flight' = None,
         call'[Me] # None => restore' = restore
  PROVE  WebSessionInv'
<1>1. /\ SessionTyped /\ UnusedIsNobodys /\ TokenIsTheUsers /\ SnapsArePast /\ FlightIsOwn
      /\ RestoreIsAlone /\ MeIsTheRestores /\ WaitersWereRefused
  BY DEF WebSessionInv
<1>2. SessionTyped' BY <1>1 DEF SessionTyped, UsersKept
<1>3. TokenIsTheUsers' BY <1>1 DEF SessionTyped, TokenIsTheUsers, UsersKept
<1>4. SnapsArePast' BY <1>1 DEF SnapsArePast
<1>5. FlightIsOwn'
  <2>1. flight # None =>
          flight.sent \in Sessions \cup {None} /\ flight.result \in Sessions \cup {None}
    BY <1>1 DEF SessionTyped, Refresh
  <2>2. store'.user # None => UNCHANGED store OBVIOUS
  <2> QED BY <1>1, <2>1, <2>2 DEF FlightIsOwn, UsersKept
<1>6. RestoreIsAlone' BY <1>1 DEF RestoreIsAlone, Me
<1>7. MeIsTheRestores' BY <1>1 DEF MeIsTheRestores, Me
<1>8. WaitersWereRefused' BY <1>1 DEF WaitersWereRefused
<1> QED BY <1>2, <1>3, <1>4, <1>5, <1>6, <1>7, <1>8 DEF WebSessionInv, UsersKept, UnusedIsNobodys

-----------------------------------------------------------------------------
(* The server answers                                                      *)

LEMMA CalmKeeps ==
  ASSUME WebSessionInv, UsersKept,
         UNCHANGED <<cookie, token, epoch, store, call, flight, restore, refused, foreign>>
  PROVE  WebSessionInv'
<1>1. SessionTyped BY DEF WebSessionInv
<1> QED BY <1>1, SameEpochKeeps DEF SessionTyped

LEMMA RevokedInvKeeps ==
  ASSUME WebSessionInv, NEW s \in Sessions, NEW row \in Row,
         row.user = session[s].user, row.state # "unused", session' = [session EXCEPT ![s] = row],
         UNCHANGED <<cookie, token, epoch, store, call, flight, restore, refused, foreign>>
  PROVE  WebSessionInv'
<1>1. UsersKept BY DEF WebSessionInv, SessionTyped, UnusedIsNobodys, UsersKept
<1> QED BY <1>1, CalmKeeps

LEMMA RowsKeep ==
  ASSUME WebSessionInv,
         ServeLogout \/ \E s \in Sessions : TokenExpires(s) \/ SessionRevoked(s)
  PROVE  WebSessionInv'
<1>1. SessionTyped /\ UnusedIsNobodys /\ session \in [Sessions -> Row]
  BY DEF WebSessionInv, SessionTyped
<1> DEFINE revoked(s) == [session[s] EXCEPT !.state = "revoked"]
           expired(s) == [session[s] EXCEPT !.expired = TRUE]
<1>2. ASSUME NEW s \in Sessions, session[s].state = "live"
      PROVE  /\ revoked(s) \in Row /\ revoked(s).user = session[s].user
             /\ revoked(s).state = "revoked"
             /\ expired(s) \in Row /\ expired(s).user = session[s].user
             /\ expired(s).state = "live"
  BY <1>1, <1>2 DEF Row
<1>3. CASE ServeLogout
  <2>0. UNCHANGED <<cookie, token, epoch, store, call, flight, restore, refused, foreign>>
    BY <1>3 DEF ServeLogout
  <2>1. CASE UNCHANGED session BY <1>1, <2>0, <2>1, UsersStay, CalmKeeps
  <2>2. CASE Live(leaving.sent) /\ leaving.sent \in Sessions
    <3>1. session' = [session EXCEPT ![leaving.sent] = revoked(leaving.sent)]
      BY <1>1, <1>3, <2>2 DEF ServeLogout
    <3> HIDE DEF revoked
    <3> QED BY <1>2, <2>0, <2>2, <3>1, RevokedInvKeeps DEF Live
  <2>3. CASE Live(leaving.sent) /\ leaving.sent \notin Sessions
    BY <1>1, <1>3, <2>1, <2>3 DEF ServeLogout
  <2> QED BY <1>3, <2>1, <2>2, <2>3 DEF ServeLogout
<1>4. ASSUME NEW s \in Sessions, TokenExpires(s) PROVE WebSessionInv'
  <2>1. session' = [session EXCEPT ![s] = expired(s)] BY <1>1, <1>4 DEF TokenExpires
  <2>2. session[s].state = "live" BY <1>4 DEF TokenExpires, Good, Live
  <2> HIDE DEF expired
  <2> QED BY <1>2, <1>4, <2>1, <2>2, RevokedInvKeeps DEF TokenExpires, page
<1>5. ASSUME NEW s \in Sessions, SessionRevoked(s) PROVE WebSessionInv'
  <2>1. session' = [session EXCEPT ![s] = revoked(s)] BY <1>1, <1>5 DEF SessionRevoked
  <2>2. session[s].state = "live" BY <1>5 DEF SessionRevoked
  <2> HIDE DEF revoked
  <2> QED BY ZenonT(60), <1>2, <1>5, <2>1, <2>2, RevokedInvKeeps DEF SessionRevoked, page
<1> QED BY <1>3, <1>4, <1>5

(* The shared refresh is answered with a session of the same user.         *)
LEMMA ServeRefreshKeeps == ASSUME WebSessionInv, ServeRefresh PROVE WebSessionInv'
<1>1. /\ SessionTyped /\ UnusedIsNobodys /\ TokenIsTheUsers /\ SnapsArePast /\ FlightIsOwn
      /\ RestoreIsAlone /\ MeIsTheRestores /\ WaitersWereRefused
  BY DEF WebSessionInv
<1>2. flight \in Refresh /\ flight.sent \in Sessions \cup {None}
  BY <1>1 DEF ServeRefresh, SessionTyped, Refresh
<1>3. PICK n \in Sessions \cup {None} :
        /\ \/ n # None /\ Rotate(flight.sent, n)
           \/ n = None /\ RefuseRotation(flight.sent)
        /\ flight' = [flight EXCEPT !.at = "answered", !.result = n]
  BY DEF ServeRefresh
<1>4. UsersKept BY <1>1, <1>2, <1>3, RotateIs, RefusedIs
<1>5. n # None => flight.sent \in Sessions /\ session'[n].user = session[flight.sent].user
  BY <1>1, <1>2, <1>3, RotateIs
<1>6. UNCHANGED <<cookie, token, epoch, store, call, restore, refused, foreign>>
  BY DEF ServeRefresh
<1>7. /\ flight' \in Refresh /\ flight'.snap = flight.snap /\ flight'.own = flight.own
      /\ flight'.sent = flight.sent /\ flight'.result = n
  BY <1>2, <1>3 DEF Refresh
<1>8. flight # None /\ flight' # None BY <1>2, <1>7, NoCallAssumption
<1>9. SessionTyped' BY <1>1, <1>4, <1>6, <1>7 DEF SessionTyped, UsersKept
<1>10. TokenIsTheUsers' BY <1>1, <1>4, <1>6 DEF SessionTyped, TokenIsTheUsers, UsersKept
<1>11. FlightIsOwn'
  BY <1>1, <1>2, <1>4, <1>5, <1>6, <1>7, <1>8, WebSessionAssumption
     DEF FlightIsOwn, UsersKept, Sessions
<1>12. SnapsArePast' /\ RestoreIsAlone' /\ MeIsTheRestores' /\ WaitersWereRefused'
  BY <1>1, <1>6, <1>7, <1>8
     DEF SnapsArePast, RestoreIsAlone, MeIsTheRestores, WaitersWereRefused, Me
<1> QED BY <1>4, <1>9, <1>10, <1>11, <1>12 DEF WebSessionInv, UsersKept, UnusedIsNobodys

LEMMA ServeRestoreKeeps == ASSUME WebSessionInv, ServeRestore PROVE WebSessionInv'
<1>1. /\ SessionTyped /\ UnusedIsNobodys /\ TokenIsTheUsers /\ SnapsArePast /\ FlightIsOwn
      /\ RestoreIsAlone /\ MeIsTheRestores /\ WaitersWereRefused
  BY DEF WebSessionInv
<1>2. /\ restore \in Refresh /\ restore.sent \in Sessions \cup {None}
      /\ restore # None /\ restore.at = "sent"
  BY <1>1 DEF ServeRestore, SessionTyped, Refresh
<1>3. PICK n \in Sessions \cup {None} :
        /\ \/ n # None /\ Rotate(restore.sent, n)
           \/ n = None /\ RefuseRotation(restore.sent)
        /\ restore' = [restore EXCEPT !.at = "answered", !.result = n]
  BY DEF ServeRestore
<1>4. UsersKept BY <1>1, <1>2, <1>3, RotateIs, RefusedIs
<1>5. UNCHANGED <<cookie, token, epoch, store, call, flight, refused, foreign>>
  BY DEF ServeRestore
<1>6. restore' \in Refresh /\ restore'.snap = restore.snap
  BY <1>2, <1>3 DEF Refresh
<1>7. restore' # None BY <1>6, NoCallAssumption
<1>8. SessionTyped' BY <1>1, <1>4, <1>5, <1>6 DEF SessionTyped, UsersKept
<1>9. TokenIsTheUsers' BY <1>1, <1>4, <1>5 DEF SessionTyped, TokenIsTheUsers, UsersKept
<1>10. FlightIsOwn'
  <2>1. flight # None =>
          flight.sent \in Sessions \cup {None} /\ flight.result \in Sessions \cup {None}
    BY <1>1 DEF SessionTyped, Refresh
  <2> QED BY <1>1, <1>4, <1>5, <2>1 DEF FlightIsOwn, UsersKept
<1>11. SnapsArePast' /\ RestoreIsAlone' /\ MeIsTheRestores' /\ WaitersWereRefused'
  BY <1>1, <1>2, <1>5, <1>6, <1>7
     DEF SnapsArePast, RestoreIsAlone, MeIsTheRestores, WaitersWereRefused, Me
<1> QED BY <1>4, <1>8, <1>9, <1>10, <1>11 DEF WebSessionInv, UsersKept, UnusedIsNobodys

-----------------------------------------------------------------------------
(* The steps of the user                                                   *)

LEMMA NewRefreshIs ==
  ASSUME SessionTyped
  PROVE  /\ NewRefresh \in Refresh /\ NewRefresh.at = "sent" /\ NewRefresh.snap = Snapshot
         /\ NewRefresh.sent = cookie /\ NewRefresh.result = None
         /\ NewRefresh.own <=> \/ store.user = None \/ cookie = None
                               \/ session[cookie].user = store.user
<1>1. Snapshot \in [epoch : Nat, token : Sessions \cup {None}] BY DEF SessionTyped, Snapshot
<1>2. (\/ store.user = None \/ cookie = None
       \/ session[cookie].user = store.user) \in BOOLEAN
  OBVIOUS
<1>3. cookie \in Sessions \cup {None} BY DEF SessionTyped
<1>4. NewRefresh \in Refresh BY <1>1, <1>2, <1>3 DEF NewRefresh, Refresh
<1> QED BY <1>4 DEF NewRefresh

LEMMA LoginKeeps ==
  ASSUME WebSessionInv, NEW u \in Users, NEW n \in Sessions, LoginSucceeds(u, n)
  PROVE  WebSessionInv'
<1>1. SessionTyped /\ UnusedIsNobodys /\ session \in [Sessions -> Row]
  BY DEF WebSessionInv, SessionTyped
<1>2. session[n].user = None
  <2>1. n >= n BY DEF Sessions
  <2> QED BY <1>1, <2>1 DEF LoginSucceeds, IsNext, UnusedIsNobodys
<1>3. NewRow(u, n) \in Row /\ NewRow(u, n).user = u /\ NewRow(u, n).state = "live"
  BY DEF NewRow, Row
<1>4. UsersKept /\ session'[n].user = u
  BY <1>1, <1>2, <1>3 DEF LoginSucceeds, UsersKept, UnusedIsNobodys
<1>5. /\ epoch' = epoch + 1 /\ cookie' = n /\ token' = n
      /\ store' = [user |-> u, loading |-> FALSE] /\ UNCHANGED <<call, flight, restore>>
  BY DEF LoginSucceeds, StartSession
<1>6. TokenIsTheUsers' BY <1>4, <1>5 DEF TokenIsTheUsers
<1>7. call' \in [Calls \cup {Me} -> PageCall \cup {None}] BY <1>1, <1>5 DEF SessionTyped
<1> QED BY <1>4, <1>5, <1>6, <1>7, NewEpochKeeps

LEMMA UserStepsKeep ==
  ASSUME WebSessionInv,
         SubmitLogin \/ LoginFails \/ EditLogin \/ Logout \/ LogoutEnds \/ PublishUser
  PROVE  WebSessionInv'
<1>1. SessionTyped /\ UnusedIsNobodys /\ TokenIsTheUsers BY DEF WebSessionInv
<1>2. UNCHANGED session /\ UsersKept
  BY <1>1, UsersStay
     DEF SubmitLogin, LoginFails, EditLogin, Logout, LogoutEnds, PublishUser
<1>3. /\ token \in Sessions \cup {None} /\ cookie \in Sessions \cup {None}
      /\ store \in [user : Users \cup {None}, loading : BOOLEAN]
      /\ call \in [Calls \cup {Me} -> PageCall \cup {None}]
  BY <1>1 DEF SessionTyped
<1>4. CASE SubmitLogin \/ LoginFails \/ EditLogin
  BY <1>2, <1>4, CalmKeeps DEF SubmitLogin, LoginFails, EditLogin
<1>5. CASE Logout
  <2>1. /\ epoch' = epoch + 1 /\ store' = [store EXCEPT !.loading = TRUE]
        /\ UNCHANGED <<cookie, token, call, flight, restore, foreign>>
    BY <1>5 DEF Logout
  <2>2. store' \in [user : Users \cup {None}, loading : BOOLEAN] /\ store'.user = store.user
    BY <1>3, <2>1
  <2>3. TokenIsTheUsers' BY <1>1, <1>2, <2>1, <2>2 DEF TokenIsTheUsers
  <2> QED BY <1>2, <1>3, <2>1, <2>2, <2>3, NewEpochKeeps
<1>6. CASE LogoutEnds
  <2>1. cookie' \in Sessions \cup {None} /\ UNCHANGED <<call, flight, restore, refused, foreign>>
    BY <1>3, <1>6 DEF LogoutEnds
  <2>2. CASE Invalidate
    <3>1. TokenIsTheUsers' BY <2>2 DEF Invalidate, TokenIsTheUsers
    <3> QED BY <1>2, <1>3, <2>1, <2>2, <3>1, NewEpochKeeps DEF Invalidate
  <2>3. CASE KeepSession
    BY <1>2, <1>3, <2>1, <2>3, SameEpochKeeps DEF KeepSession
  <2> QED BY <1>6, <2>2, <2>3 DEF LogoutEnds
<1>7. CASE PublishUser
  <2>1. /\ epoch' = epoch + 1 /\ store' = [user |-> store.user, loading |-> FALSE]
        /\ UNCHANGED <<cookie, token, call, flight, restore, foreign>>
    BY <1>7 DEF PublishUser, StartSession
  <2>2. TokenIsTheUsers' BY <1>1, <1>2, <2>1 DEF TokenIsTheUsers
  <2> QED BY <1>2, <1>3, <2>1, <2>2, NewEpochKeeps
<1> QED BY <1>4, <1>5, <1>6, <1>7

LEMMA ReloadKeeps == ASSUME WebSessionInv, Reload PROVE WebSessionInv'
<1>1. SessionTyped /\ UnusedIsNobodys BY DEF WebSessionInv
<1>2. /\ UNCHANGED <<session, cookie>> /\ epoch' = epoch + 1 /\ token' = None /\ store' = Loaded
      /\ call' = [c \in DOMAIN call |-> None] /\ flight' = None
      /\ restore' = [NewRefresh EXCEPT !.snap = [epoch |-> epoch + 1, token |-> None], !.own = TRUE]
  BY DEF Reload
<1>3. epoch \in Nat /\ DOMAIN call = Calls \cup {Me} BY <1>1 DEF SessionTyped
<1>4. restore' \in Refresh /\ restore'.snap.epoch = epoch'
  <2>1. NewRefresh \in Refresh BY <1>1, NewRefreshIs
  <2> DEFINE snap == [epoch |-> epoch + 1, token |-> None]
             new == [NewRefresh EXCEPT !.snap = snap, !.own = TRUE]
  <2>2. snap \in [epoch : Nat, token : Sessions \cup {None}] /\ snap.epoch = epoch'
    BY <1>2, <1>3
  <2> HIDE DEF snap
  <2>3. new \in Refresh /\ new.snap = snap BY <2>1, <2>2 DEF Refresh
  <2>4. restore' = new BY <1>2 DEF snap
  <2> HIDE DEF new
  <2> QED BY <2>2, <2>3, <2>4
<1>5. SessionTyped' BY <1>1, <1>2, <1>3, <1>4 DEF SessionTyped, Loaded
<1>6. \A c \in Calls \cup {Me} : call'[c] = None BY <1>2, <1>3
<1> QED BY <1>1, <1>2, <1>3, <1>4, <1>5, <1>6
        DEF WebSessionInv, UnusedIsNobodys, TokenIsTheUsers, SnapsArePast, FlightIsOwn,
            RestoreIsAlone, MeIsTheRestores, WaitersWereRefused, Loaded

LEMMA AskKeeps ==
  ASSUME WebSessionInv, NEW c \in Calls, NEW what \in Kinds \ {"me"}, Ask(c, what)
  PROVE  WebSessionInv'
<1>1. /\ SessionTyped /\ UnusedIsNobodys /\ TokenIsTheUsers /\ SnapsArePast /\ FlightIsOwn
      /\ RestoreIsAlone /\ MeIsTheRestores /\ WaitersWereRefused
  BY DEF WebSessionInv
<1> DEFINE q == [kind |-> what, snap |-> Snapshot, retry |-> FALSE, at |-> "sent"]
<1>2. /\ call' = [call EXCEPT ![c] = q] /\ store.user # None
      /\ UNCHANGED <<session, cookie, token, epoch, store, flight, restore, refused, foreign>>
  BY DEF Ask, OnPages, ProtectedShows
<1>3. q \in PageCall /\ q.at = "sent" /\ q.snap.epoch = epoch
  BY <1>1 DEF SessionTyped, PageCall, Snapshot
<1>4. epoch \in Nat /\ c # Me BY <1>1, WebSessionAssumption DEF SessionTyped, Me
<1> HIDE DEF q
<1>5. \A d \in (Calls \cup {Me}) \ {c} : call'[d] = call[d] BY <1>1, <1>2 DEF SessionTyped
<1>6. call'[c] = q BY <1>1, <1>2 DEF SessionTyped
<1>7. SessionTyped' BY <1>1, <1>2, <1>3 DEF SessionTyped
<1>8. FlightIsOwn' /\ TokenIsTheUsers' BY <1>1, <1>2 DEF FlightIsOwn, TokenIsTheUsers
<1>9. RestoreIsAlone' BY <1>1, <1>2 DEF RestoreIsAlone
<1>10. SnapsArePast' /\ MeIsTheRestores' /\ WaitersWereRefused'
  BY <1>1, <1>2, <1>3, <1>4, <1>5, <1>6 DEF SnapsArePast, MeIsTheRestores, WaitersWereRefused
<1> QED BY <1>1, <1>2, <1>7, <1>8, <1>9, <1>10 DEF WebSessionInv, UnusedIsNobodys

-----------------------------------------------------------------------------
(* The answers the tab receives                                            *)

LEMMA DoneIs ==
  ASSUME SessionTyped, NEW c \in Calls \cup {Me}, Done(c)
  PROVE  /\ call' \in [Calls \cup {Me} -> PageCall \cup {None}]
         /\ \A d \in Calls \cup {Me} : call'[d] \in {call[d], None}
         /\ call'[c] = None
         /\ \A d \in (Calls \cup {Me}) \ {c} : call'[d] = call[d]
BY DEF SessionTyped, Done

LEMMA RestoreFailsKeeps ==
  ASSUME WebSessionInv, UsersKept, RestoreFails, refused => refused', UNCHANGED foreign,
         cookie' \in Sessions \cup {None}, flight' \in {flight, None},
         call' \in [Calls \cup {Me} -> PageCall \cup {None}],
         \A c \in Calls \cup {Me} : call'[c] \in {call[c], None}, call'[Me] = None
  PROVE  WebSessionInv'
<1>1. restore' = None /\ UNCHANGED epoch BY DEF RestoreFails, KeepSession
<1>2. \/ UNCHANGED <<token, store, foreign>>
      \/ token' = None /\ restore' = None /\ store' \in [user : {None}, loading : BOOLEAN]
  <2>1. CASE restore.snap.epoch = epoch
    <3>1. token' = None /\ restore' = None /\ store' = [user |-> None, loading |-> FALSE]
      BY <2>1 DEF RestoreFails
    <3> QED BY <3>1
  <2>2. CASE restore.snap.epoch # epoch BY <2>2 DEF RestoreFails, KeepSession
  <2> QED BY <2>1, <2>2
<1> QED BY <1>1, <1>2, SameEpochKeeps

LEMMA RejectKeeps ==
  ASSUME WebSessionInv, NEW c \in Calls \cup {Me}, Reject(c), refused => refused',
         UNCHANGED <<session, cookie, flight, foreign>>
  PROVE  WebSessionInv'
<1>1. SessionTyped /\ UsersKept BY UsersStay DEF WebSessionInv
<1>2. cookie' \in Sessions \cup {None} BY <1>1 DEF SessionTyped
<1>3. Done(c) BY DEF Reject
<1>4. CASE c = Me BY <1>1, <1>2, <1>3, <1>4, DoneIs, RestoreFailsKeeps DEF Reject
<1>5. CASE c # Me
  <2>1. call'[Me] = call[Me] BY <1>1, <1>3, <1>5, DoneIs
  <2>2. KeepSession /\ UNCHANGED restore BY <1>5 DEF Reject
  <2> QED BY <1>1, <1>2, <1>3, <2>1, <2>2, DoneIs, SameEpochKeeps DEF KeepSession
<1> QED BY <1>4, <1>5

LEMMA InvalidateKeeps ==
  ASSUME WebSessionInv, UNCHANGED session, Invalidate, cookie' \in Sessions \cup {None},
         flight' \in {flight, None}, restore' \in {restore, None},
         call' \in [Calls \cup {Me} -> PageCall \cup {None}],
         \A c \in Calls \cup {Me} : call'[c] \in {call[c], None},
         call'[Me] # None => restore' = restore
  PROVE  WebSessionInv'
<1>1. UsersKept BY UsersStay DEF WebSessionInv
<1>2. TokenIsTheUsers' BY DEF Invalidate, TokenIsTheUsers
<1> QED BY <1>1, <1>2, NewEpochKeeps DEF Invalidate

(* A success of a page's call, and of the restore's, which logs in the     *)
(* user of the token of now.                                               *)
LEMMA SucceedKeeps ==
  ASSUME WebSessionInv, NEW c \in Calls \cup {Me}, Succeed(c) PROVE WebSessionInv'
<1> DEFINE q == call[c]
<1>1. SessionTyped /\ UnusedIsNobodys /\ RestoreIsAlone /\ MeIsTheRestores BY DEF WebSessionInv
<1>2. /\ q # None /\ q.at = "sent" /\ Good(q.snap.token) /\ Done(c)
      /\ UNCHANGED <<cookie, flight, foreign>>
  BY DEF Succeed, Accepted
<1>3. UsersKept
  <2> DEFINE S == {s \in Sessions : s # q.snap.token /\ session[s].state = "live"
                                   /\ session[s].user = session[q.snap.token].user}
  <2>1. \/ UNCHANGED session
        \/ session' = [s \in Sessions |-> IF s \in S THEN [session[s] EXCEPT !.state = "revoked"]
                                          ELSE session[s]]
    BY DEF Succeed
  <2>2. S \in SUBSET Sessions OBVIOUS
  <2> HIDE DEF S
  <2> QED BY <1>1, <2>1, <2>2, RevokeIs, UsersStay
<1>4. cookie' \in Sessions \cup {None} /\ token \in Sessions \cup {None}
  BY <1>1, <1>2 DEF SessionTyped
<1>5. CASE c = Me /\ restore.snap.epoch = epoch
  <2>1. restore # None BY <1>1, <1>2, <1>5 DEF MeIsTheRestores, Me
  <2>2. q.snap.token = token BY <1>1, <1>2, <1>5, <2>1 DEF RestoreIsAlone
  <2>3. token \in Sessions /\ session[token].state = "live"
    BY <1>2, <1>4, <2>2 DEF Good, Live
  <2>4. /\ restore' = None /\ UNCHANGED token
        /\ StartSession(session[token].user)
    BY <1>5, <2>2 DEF Succeed
  <2>5. session[token].user \in Users \cup {None} BY <1>1, <2>3 DEF SessionTyped, Row
  <2>6. TokenIsTheUsers'
    BY <1>3, <2>3, <2>4, <2>5 DEF TokenIsTheUsers, StartSession, UsersKept
  <2>7. call'[Me] = None BY <1>1, <1>2, <1>5, DoneIs
  <2>8. store' \in [user : Users \cup {None}, loading : BOOLEAN] /\ epoch' = epoch + 1
    BY <2>4, <2>5 DEF StartSession
  <2> QED BY <1>1, <1>2, <1>3, <1>4, <2>4, <2>6, <2>7, <2>8, DoneIs, NewEpochKeeps
<1>6. CASE c = Me /\ restore.snap.epoch # epoch
  <2>1. restore' = None /\ KeepSession /\ UNCHANGED refused BY <1>6 DEF Succeed
  <2>2. call'[Me] = None BY <1>1, <1>2, <1>6, DoneIs
  <2> QED BY <1>1, <1>2, <1>3, <1>4, <2>1, <2>2, DoneIs, SameEpochKeeps DEF KeepSession
<1>7. CASE c # Me
  <2>1. UNCHANGED <<restore, epoch, token, store, refused>> BY <1>7 DEF Succeed
  <2>2. call'[Me] = call[Me] BY <1>1, <1>2, <1>7, DoneIs
  <2> QED BY <1>1, <1>2, <1>3, <1>4, <2>1, <2>2, DoneIs, SameEpochKeeps
<1> QED BY <1>5, <1>6, <1>7

(* A transfer ends sessions of the server first ...                        *)
LEMMA ServeTransferKeeps ==
  ASSUME WebSessionInv, NEW c \in Calls, ServeTransfer(c) PROVE WebSessionInv'
<1>1. /\ SessionTyped /\ UnusedIsNobodys /\ TokenIsTheUsers /\ SnapsArePast /\ FlightIsOwn
      /\ RestoreIsAlone /\ MeIsTheRestores /\ WaitersWereRefused
  BY DEF WebSessionInv
<1> DEFINE q == [call[c] EXCEPT !.at = "answered"]
<1>2. /\ call[c] # None /\ call[c].at = "sent" /\ call' = [call EXCEPT ![c] = q]
      /\ UNCHANGED <<cookie, token, epoch, store, flight, restore, refused, foreign>>
  BY <1>1 DEF ServeTransfer, SessionTyped
<1>3. UsersKept
  <2>1. PICK successor \in Users \ {session[call[c].snap.token].user} :
          session' = [s \in Sessions |->
                        IF session[s].state = "live"
                           /\ session[s].user \in {session[call[c].snap.token].user, successor}
                        THEN [session[s] EXCEPT !.state = "revoked"] ELSE session[s]]
    BY DEF ServeTransfer
  <2> DEFINE S == {s \in Sessions : session[s].state = "live"
                     /\ session[s].user \in {session[call[c].snap.token].user, successor}}
  <2>2. session' = [s \in Sessions |-> IF s \in S THEN [session[s] EXCEPT !.state = "revoked"]
                                       ELSE session[s]]
    BY <2>1
  <2>3. S \in SUBSET Sessions OBVIOUS
  <2> HIDE DEF S
  <2> QED BY <1>1, <2>2, <2>3, RevokeIs
<1>4. q \in PageCall /\ q.at = "answered" /\ q.snap = call[c].snap /\ q # None
  <2>1. call[c] \in PageCall BY <1>1, <1>2 DEF SessionTyped
  <2> QED BY <2>1, NoCallAssumption DEF PageCall
<1> HIDE DEF q
<1>5. /\ call'[c] = q /\ \A d \in (Calls \cup {Me}) \ {c} : call'[d] = call[d]
      /\ call' \in [Calls \cup {Me} -> PageCall \cup {None}]
  BY <1>1, <1>2, <1>4 DEF SessionTyped
<1>6. c # Me BY WebSessionAssumption DEF Me
<1>7. SessionTyped' BY <1>1, <1>2, <1>3, <1>5 DEF SessionTyped, UsersKept
<1>8. TokenIsTheUsers' BY <1>1, <1>2, <1>3 DEF SessionTyped, TokenIsTheUsers, UsersKept
<1>9. FlightIsOwn'
  <2>1. flight # None =>
          flight.sent \in Sessions \cup {None} /\ flight.result \in Sessions \cup {None}
    BY <1>1 DEF SessionTyped, Refresh
  <2> QED BY <1>1, <1>2, <1>3, <2>1 DEF FlightIsOwn, UsersKept
<1>10. SnapsArePast' BY <1>1, <1>2, <1>4, <1>5 DEF SnapsArePast
<1>11. RestoreIsAlone' BY <1>1, <1>2 DEF RestoreIsAlone
<1>12. MeIsTheRestores' /\ WaitersWereRefused'
  BY <1>1, <1>2, <1>4, <1>5, <1>6 DEF MeIsTheRestores, WaitersWereRefused, Me
<1> QED BY <1>3, <1>7, <1>8, <1>9, <1>10, <1>11, <1>12 DEF WebSessionInv, UsersKept, UnusedIsNobodys

(* ... and then the one of the tab, in which no restore is under way: the  *)
(* page would not be there.                                                *)
LEMMA TransferArrivesKeeps ==
  ASSUME WebSessionInv, NEW c \in Calls, TransferArrives(c) PROVE WebSessionInv'
<1>1. SessionTyped /\ RestoreIsAlone /\ UsersKept
  BY UsersStay DEF WebSessionInv, TransferArrives
<1>2. /\ call[c] # None /\ Done(c)
      /\ token' = None /\ store' = [user |-> None, loading |-> FALSE]
      /\ UNCHANGED <<cookie, epoch, flight, restore, refused>>
  BY DEF TransferArrives
<1>3. restore # None => restore.snap.epoch # epoch BY <1>1, <1>2 DEF RestoreIsAlone
<1>4. cookie' \in Sessions \cup {None} BY <1>1, <1>2 DEF SessionTyped
<1>5. call'[Me] = call[Me] BY <1>1, <1>2, DoneIs, WebSessionAssumption DEF Me
<1>6. store' \in [user : {None}, loading : BOOLEAN] BY <1>2
<1> QED BY <1>1, <1>2, <1>3, <1>4, <1>5, <1>6, DoneIs, SameEpochKeeps

(* A refused call that goes out again, or waits for the shared refresh.    *)
LEMMA ResendKeeps ==
  ASSUME WebSessionInv, NEW c \in Calls \cup {Me}, call[c] # None, call[c].at = "sent",
         call[c].snap.epoch = epoch, refused',
         UNCHANGED <<session, cookie, token, epoch, store, restore, foreign>>,
         \/ call' = [call EXCEPT ![c] = Resent(c)] /\ UNCHANGED flight
         \/ /\ call' = [call EXCEPT ![c] = [Resent(c) EXCEPT !.at = "waiting"]]
            /\ flight' = IF flight = None THEN NewRefresh ELSE flight
  PROVE  WebSessionInv'
<1>1. /\ SessionTyped /\ UnusedIsNobodys /\ TokenIsTheUsers /\ SnapsArePast /\ FlightIsOwn
      /\ RestoreIsAlone /\ MeIsTheRestores /\ WaitersWereRefused
  BY DEF WebSessionInv
<1>2. PICK q : /\ call' = [call EXCEPT ![c] = q]
               /\ \/ q = Resent(c) /\ UNCHANGED flight
                  \/ /\ q = [Resent(c) EXCEPT !.at = "waiting"]
                     /\ flight' = IF flight = None THEN NewRefresh ELSE flight
  OBVIOUS
<1>3. /\ Snapshot \in [epoch : Nat, token : Sessions \cup {None}]
      /\ Snapshot.epoch = epoch /\ Snapshot.token = token
  BY <1>1 DEF SessionTyped, Snapshot
<1>4. call[c] \in PageCall BY <1>1 DEF SessionTyped
<1>5. Resent(c) \in PageCall /\ Resent(c).snap = Snapshot /\ Resent(c).at = "sent"
  BY <1>3, <1>4 DEF Resent, PageCall
<1>6. /\ q \in PageCall /\ q.snap = Snapshot /\ q # None
      /\ \/ q.at = "sent" /\ UNCHANGED flight
         \/ q.at = "waiting" /\ flight' = IF flight = None THEN NewRefresh ELSE flight
  <2>1. \A r \in PageCall : /\ [r EXCEPT !.at = "waiting"] \in PageCall
                            /\ [r EXCEPT !.at = "waiting"].snap = r.snap
                            /\ [r EXCEPT !.at = "waiting"].at = "waiting"
    BY DEF PageCall
  <2> QED BY <1>2, <1>5, <2>1, NoCallAssumption
<1>7. /\ call'[c] = q /\ \A d \in (Calls \cup {Me}) \ {c} : call'[d] = call[d]
      /\ call' \in [Calls \cup {Me} -> PageCall \cup {None}]
  BY <1>1, <1>2, <1>6 DEF SessionTyped
<1>8. /\ flight' \in Refresh \cup {None}
      /\ flight' # flight =>
           /\ flight'.snap = Snapshot /\ flight'.sent = cookie /\ flight'.result = None
           /\ flight'.own <=> \/ store.user = None \/ cookie = None
                              \/ session[cookie].user = store.user
  BY <1>1, <1>6, NewRefreshIs DEF SessionTyped
<1>9. SessionTyped' /\ TokenIsTheUsers'
  BY <1>1, <1>7, <1>8 DEF SessionTyped, TokenIsTheUsers
<1>10. SnapsArePast'
  <2>1. epoch <= epoch BY <1>1 DEF SessionTyped
  <2>2. flight' # None => flight'.snap.epoch <= epoch
    BY <1>1, <1>3, <1>8, <2>1 DEF SnapsArePast
  <2>3. \A d \in Calls \cup {Me} : call'[d] # None => call'[d].snap.epoch <= epoch
    BY <1>1, <1>3, <1>6, <1>7, <2>1 DEF SnapsArePast
  <2> QED BY <1>1, <2>2, <2>3 DEF SnapsArePast
<1>11. FlightIsOwn'
  <2>1. CASE flight' = flight BY <1>1, <2>1 DEF FlightIsOwn
  <2>2. CASE flight' # flight
    <3>1. flight'.result = None /\ flight'.sent = cookie BY <1>8, <2>2
    <3>2. flight'.own /\ store.user # None /\ cookie # None => session[cookie].user = store.user
      BY <1>8, <2>2
    <3> QED BY <3>1, <3>2 DEF FlightIsOwn
  <2> QED BY <2>1, <2>2
<1>12. RestoreIsAlone'
  <2> SUFFICES ASSUME restore # None, restore.snap.epoch = epoch PROVE RestoreIsAlone'
    BY DEF RestoreIsAlone
  <2>1. c = Me /\ flight = None BY <1>1 DEF RestoreIsAlone, Me
  <2> QED BY <1>1, <1>3, <1>6, <1>7, <2>1 DEF RestoreIsAlone
<1>13. MeIsTheRestores' BY <1>1, <1>7 DEF MeIsTheRestores, Me
<1>14. WaitersWereRefused' BY DEF WaitersWereRefused
<1> QED BY <1>1, <1>9, <1>10, <1>11, <1>12, <1>13, <1>14 DEF WebSessionInv, UnusedIsNobodys

LEMMA UnauthorizedKeeps ==
  ASSUME WebSessionInv, NEW c \in Calls \cup {Me}, Unauthorized(c) PROVE WebSessionInv'
<1>1. SessionTyped BY DEF WebSessionInv
<1>2. /\ call[c] # None /\ call[c].at = "sent"
      /\ refused' = (refused \/ call[c].snap.epoch = epoch)
      /\ UNCHANGED <<session, cookie, foreign>>
  BY DEF Unauthorized
<1>3. \/ Reject(c) /\ UNCHANGED flight
      \/ RejectInvalid(c) /\ UNCHANGED flight
      \/ /\ call[c].snap.epoch = epoch /\ KeepSession /\ UNCHANGED restore
         /\ \/ call' = [call EXCEPT ![c] = Resent(c)] /\ UNCHANGED flight
            \/ /\ call' = [call EXCEPT ![c] = [Resent(c) EXCEPT !.at = "waiting"]]
               /\ flight' = IF flight = None THEN NewRefresh ELSE flight
  BY Zenon DEF Unauthorized
<1>4. CASE Reject(c) /\ UNCHANGED flight BY <1>2, <1>4, RejectKeeps
<1>5. CASE RejectInvalid(c) /\ UNCHANGED flight
  <2>1. cookie' \in Sessions \cup {None} BY <1>1, <1>2 DEF SessionTyped
  <2>2. Done(c) /\ Invalidate /\ restore' = IF c = Me THEN None ELSE restore
    BY <1>5 DEF RejectInvalid
  <2> QED BY <1>1, <1>2, <1>5, <2>1, <2>2, DoneIs, InvalidateKeeps
<1>6. CASE /\ call[c].snap.epoch = epoch /\ KeepSession /\ UNCHANGED restore
           /\ \/ call' = [call EXCEPT ![c] = Resent(c)] /\ UNCHANGED flight
              \/ /\ call' = [call EXCEPT ![c] = [Resent(c) EXCEPT !.at = "waiting"]]
                 /\ flight' = IF flight = None THEN NewRefresh ELSE flight
  BY <1>2, <1>6, ResendKeeps DEF KeepSession
<1> QED BY <1>3, <1>4, <1>5, <1>6

(* The refresh brings a token for the session that asked for it ...        *)
LEMMA ResumeKeeps ==
  ASSUME WebSessionInv, flight # None, Writes(flight), Resume, flight' = None,
         cookie' \in Sessions \cup {None}, UNCHANGED <<session, refused>>
  PROVE  WebSessionInv'
<1>1. /\ SessionTyped /\ UnusedIsNobodys /\ TokenIsTheUsers /\ SnapsArePast /\ FlightIsOwn
      /\ RestoreIsAlone /\ MeIsTheRestores /\ WaitersWereRefused
  BY DEF WebSessionInv
<1> DEFINE snap == [epoch |-> epoch, token |-> flight.result]
<1>2. flight.result \in Sessions /\ flight.result # None /\ flight.snap.epoch = epoch
  BY <1>1 DEF Writes, Matches, Snapshot, SessionTyped, Refresh
<1>3. snap \in [epoch : Nat, token : Sessions \cup {None}] /\ snap.epoch = epoch
      /\ snap.token = flight.result
  BY <1>1, <1>2 DEF SessionTyped
<1>4. /\ token' = flight.result /\ (foreign' <=> ~flight.own)
      /\ UNCHANGED <<epoch, store, restore>>
      /\ call' = [c \in Calls \cup {Me} |-> IF c \in Waiting
                                          THEN [Resent(c) EXCEPT !.snap = snap] ELSE call[c]]
  BY <1>1 DEF Resume, SessionTyped
<1> HIDE DEF snap
<1>5. ASSUME NEW c \in Waiting
      PROVE  /\ call'[c] \in PageCall /\ call'[c].snap = snap /\ call'[c].at = "sent"
             /\ c \in Calls \cup {Me} /\ call[c] # None
  <2>1. c \in Calls \cup {Me} /\ call[c] \in PageCall /\ call[c] # None
    BY <1>1, NoCallAssumption DEF SessionTyped, Waiting
  <2>2. Snapshot \in [epoch : Nat, token : Sessions \cup {None}] BY <1>1 DEF SessionTyped, Snapshot
  <2>3. Resent(c) \in PageCall /\ Resent(c).at = "sent" BY <2>1, <2>2 DEF Resent, PageCall
  <2>4. /\ [Resent(c) EXCEPT !.snap = snap] \in PageCall
        /\ [Resent(c) EXCEPT !.snap = snap].snap = snap
        /\ [Resent(c) EXCEPT !.snap = snap].at = "sent"
    BY <1>3, <2>3 DEF PageCall
  <2> QED BY <1>4, <2>1, <2>4
<1>6. \A c \in (Calls \cup {Me}) \ Waiting :
        call'[c] = call[c] /\ (call[c] # None => call[c].at # "waiting")
  BY <1>1, <1>4 DEF Waiting, SessionTyped
<1>7. call' \in [Calls \cup {Me} -> PageCall \cup {None}]
  <2>1. \A c \in Calls \cup {Me} : call'[c] \in PageCall \cup {None}
    BY <1>1, <1>5, <1>6 DEF SessionTyped
  <2> QED BY <1>4, <2>1
<1>8. SessionTyped' BY <1>1, <1>2, <1>4, <1>7 DEF SessionTyped
<1>9. TokenIsTheUsers' BY <1>1, <1>2, <1>4 DEF TokenIsTheUsers, FlightIsOwn
<1>10. SnapsArePast'
  <2>1. epoch <= epoch BY <1>1 DEF SessionTyped
  <2>2. \A c \in Calls \cup {Me} : call'[c] # None => call'[c].snap.epoch <= epoch
    BY <1>1, <1>3, <1>5, <1>6, <2>1 DEF SnapsArePast
  <2> QED BY <1>1, <1>4, <2>2 DEF SnapsArePast
<1>11. FlightIsOwn' BY DEF FlightIsOwn
<1>12. RestoreIsAlone'
  <2> SUFFICES ASSUME restore # None, restore.snap.epoch = epoch PROVE RestoreIsAlone'
    BY <1>4 DEF RestoreIsAlone
  <2>1. Me \in Waiting BY <1>1 DEF RestoreIsAlone, Waiting, SessionTyped
  <2>2. call'[Me].snap.token = token' BY <1>3, <1>4, <1>5, <2>1
  <2>3. \A c \in Calls : c \notin Waiting BY <1>1 DEF RestoreIsAlone, Waiting
  <2>4. \A c \in Calls : call'[c] = None BY <1>1, <1>6, <2>3 DEF RestoreIsAlone
  <2> QED BY <1>1, <1>4, <2>2, <2>4 DEF RestoreIsAlone
<1>13. MeIsTheRestores' BY <1>1, <1>4, <1>5, <1>6 DEF MeIsTheRestores, Me
<1>14. WaitersWereRefused' BY <1>5, <1>6 DEF WaitersWereRefused
<1> QED BY <1>1, <1>8, <1>9, <1>10, <1>11, <1>12, <1>13, <1>14 DEF WebSessionInv, UnusedIsNobodys

(* ... or fails, or is of an earlier one: those who wait give up.          *)
LEMMA GiveUpIs ==
  ASSUME SessionTyped, GiveUp
  PROVE  /\ call' \in [Calls \cup {Me} -> PageCall \cup {None}]
         /\ \A c \in Calls \cup {Me} : call'[c] \in {call[c], None}
         /\ Me \in Waiting => call'[Me] = None
         /\ Me \notin Waiting => call'[Me] = call[Me]
<1>1. call' = [c \in Calls \cup {Me} |-> IF c \in Waiting THEN None ELSE call[c]]
  BY DEF GiveUp, SessionTyped
<1> QED BY <1>1 DEF SessionTyped

LEMMA GiveUpKeeps ==
  ASSUME WebSessionInv, GiveUp, flight' = None, cookie' \in Sessions \cup {None},
         UNCHANGED <<session, refused>>
  PROVE  WebSessionInv'
<1>1. SessionTyped /\ UsersKept BY UsersStay DEF WebSessionInv
<1>2. CASE Invalidate /\ restore' = IF Me \in Waiting THEN None ELSE restore
  BY <1>1, <1>2, GiveUpIs, InvalidateKeeps
<1>3. CASE Me \in Waiting /\ RestoreFails
  BY <1>1, <1>3, GiveUpIs, RestoreFailsKeeps DEF GiveUp
<1>4. CASE Me \notin Waiting /\ KeepSession /\ UNCHANGED restore
  BY <1>1, <1>4, GiveUpIs, SameEpochKeeps DEF GiveUp, KeepSession
<1> QED BY <1>2, <1>3, <1>4 DEF GiveUp

LEMMA RefreshEndKeeps ==
  ASSUME WebSessionInv, RefreshArrives \/ RefreshLost PROVE WebSessionInv'
<1>1. /\ flight # None /\ flight' = None /\ UNCHANGED <<session, refused>>
      /\ (Writes(flight) /\ Resume) \/ GiveUp
      /\ cookie' \in {cookie, flight.result}
  BY DEF RefreshArrives, RefreshLost
<1>2. cookie' \in Sessions \cup {None} BY <1>1 DEF WebSessionInv, SessionTyped, Refresh
<1> QED BY <1>1, <1>2, ResumeKeeps, GiveUpKeeps

LEMMA RestoreEndKeeps ==
  ASSUME WebSessionInv, RestoreArrives \/ RestoreLost PROVE WebSessionInv'
<1>1. /\ SessionTyped /\ UnusedIsNobodys /\ TokenIsTheUsers /\ SnapsArePast /\ FlightIsOwn
      /\ RestoreIsAlone /\ MeIsTheRestores /\ WaitersWereRefused
  BY DEF WebSessionInv
<1>2. /\ restore # None /\ restore.at # "me" /\ UNCHANGED <<session, flight, refused>>
      /\ cookie' \in {cookie, restore.result}
  BY DEF RestoreArrives, RestoreLost
<1>3. restore \in Refresh /\ cookie' \in Sessions \cup {None} /\ call[Me] = None
  BY <1>1, <1>2 DEF SessionTyped, Refresh, MeIsTheRestores
<1>4. CASE RestoreFails /\ UNCHANGED <<call, foreign>>
  <2>1. call' \in [Calls \cup {Me} -> PageCall \cup {None}] BY <1>1, <1>4 DEF SessionTyped
  <2>2. UsersKept BY <1>1, <1>2, UsersStay
  <2> QED BY <1>2, <1>3, <1>4, <2>1, <2>2, RestoreFailsKeeps
<1>5. CASE RestoreArrives /\ Writes(restore)
  <2> DEFINE snap == [epoch |-> epoch, token |-> restore.result]
             q == [kind |-> "me", retry |-> FALSE, at |-> "sent", snap |-> snap]
             next == [restore EXCEPT !.at = "me"]
  <2>1. restore.result \in Sessions /\ restore.snap.epoch = epoch
    BY <1>3, <1>5 DEF Writes, Matches, Snapshot, Refresh
  <2>2. /\ token' = restore.result /\ restore' = next /\ call' = [call EXCEPT ![Me] = q]
        /\ UNCHANGED <<epoch, store, flight>>
    BY <1>5 DEF RestoreArrives
  <2>3. q \in PageCall /\ q.snap.epoch = epoch /\ q.snap.token = restore.result /\ q.at = "sent"
    BY <1>1, <2>1 DEF SessionTyped, PageCall, Kinds
  <2>4. next \in Refresh /\ next.snap = restore.snap /\ next.at = "me" /\ next # None
    BY <1>3, NoCallAssumption DEF Refresh
  <2> HIDE DEF q, next
  <2>5. /\ call'[Me] = q /\ \A c \in Calls : call'[c] = call[c]
        /\ call' \in [Calls \cup {Me} -> PageCall \cup {None}]
    BY <1>1, <2>2, <2>3, WebSessionAssumption DEF SessionTyped, Me
  <2>6. /\ store.user = None /\ \A c \in Calls : call[c] = None
        /\ flight = None
    BY <1>1, <1>2, <1>3, <2>1 DEF RestoreIsAlone
  <2>7. SessionTyped' BY <1>1, <1>2, <1>3, <2>1, <2>2, <2>4, <2>5 DEF SessionTyped
  <2>8. TokenIsTheUsers' /\ FlightIsOwn' BY <2>2, <2>6 DEF TokenIsTheUsers, FlightIsOwn
  <2>9. epoch <= epoch BY <1>1 DEF SessionTyped
  <2>10. SnapsArePast' BY <2>1, <2>2, <2>3, <2>4, <2>5, <2>6, <2>9 DEF SnapsArePast
  <2>11. RestoreIsAlone' /\ MeIsTheRestores' /\ WaitersWereRefused'
    BY <2>2, <2>3, <2>4, <2>5, <2>6 DEF RestoreIsAlone, MeIsTheRestores, WaitersWereRefused
  <2> QED BY <1>1, <1>2, <2>7, <2>8, <2>10, <2>11 DEF WebSessionInv, UnusedIsNobodys
<1> QED BY <1>4, <1>5 DEF RestoreArrives, RestoreLost

LEMMA NextWebSessionInv == WebSessionInv /\ [Next]_vars => WebSessionInv'
<1> SUFFICES ASSUME WebSessionInv, [Next]_vars PROVE WebSessionInv' OBVIOUS
<1>1. CASE UNCHANGED vars
  BY <1>1, UsersStay, CalmKeeps DEF WebSessionInv, vars, page
<1>2. CASE Answers
  <2>1. ASSUME NEW c \in Calls \cup {Me}, Fail(c) PROVE WebSessionInv'
    BY <2>1, RejectKeeps DEF Fail
  <2>2. CASE LogoutEnds BY <2>2, UserStepsKeep
  <2>3. ASSUME NEW c \in Calls, ServeTransfer(c) \/ TransferArrives(c) PROVE WebSessionInv'
    BY <2>3, ServeTransferKeeps, TransferArrivesKeeps
  <2> QED BY <1>2, <2>1, <2>2, <2>3, ServeRefreshKeeps, ServeRestoreKeeps, RowsKeep, RefreshEndKeeps,
             RestoreEndKeeps, SucceedKeeps, UnauthorizedKeeps
          DEF Answers
<1> QED BY <1>1, <1>2, AskKeeps, RowsKeep, UserStepsKeep, LoginKeeps, ReloadKeeps DEF Next

LEMMA WebSessionInvHolds == Spec => []WebSessionInv
BY InitWebSessionInv, NextWebSessionInv, PTL DEF Spec

(* The tab never acts as one user while it shows another, whatever answers *)
(* of earlier sessions arrive late.                                        *)
THEOREM TabActsForItsUser == Spec => []TokenIsTheUsers
<1>1. WebSessionInv => TokenIsTheUsers BY DEF WebSessionInv
<1> QED BY <1>1, WebSessionInvHolds, PTL

(* An answer logs its user out only if the session it was given in is the  *)
(* one of now and had a call refused, or if it is that of a transfer.      *)
LEMMA StepEndsForItsOwnReason ==
  ASSUME WebSessionInv, [Next]_vars, store.user # None, store'.user = None
  PROVE  \/ leaving # None \/ store'.loading \/ refused'
         \/ \E c \in Calls : TransferEnds(c)
<1>1. /\ SessionTyped /\ RestoreIsAlone /\ MeIsTheRestores /\ WaitersWereRefused
  BY DEF WebSessionInv
<1>2. ~(restore # None /\ restore.snap.epoch = epoch) BY <1>1 DEF RestoreIsAlone
<1>3. restore # None => ~RestoreFails BY <1>2 DEF RestoreFails, KeepSession
<1>4. ~UNCHANGED store OBVIOUS
<1>5. CASE RefreshArrives \/ RefreshLost
  <2>1. UNCHANGED refused /\ (Resume \/ GiveUp) BY <1>5 DEF RefreshArrives, RefreshLost
  <2>2. GiveUp BY <1>4, <2>1 DEF Resume
  <2>3. CASE \E c \in Waiting : Matches(call[c].snap)
    <3>1. PICK c \in Waiting : Matches(call[c].snap) BY <2>3
    <3>2. c \in Calls \cup {Me} /\ call[c] # None /\ call[c].at = "waiting"
          /\ call[c].snap.epoch = epoch
      BY <1>1, <3>1 DEF Waiting, Matches, Snapshot, SessionTyped
    <3> QED BY <1>1, <2>1, <3>2 DEF WaitersWereRefused
  <2>4. CASE Me \in Waiting /\ RestoreFails
    <3>1. restore # None BY <1>1, <2>4 DEF MeIsTheRestores, Waiting
    <3> QED BY <1>3, <2>4, <3>1
  <2> QED BY <1>4, <2>2, <2>3, <2>4 DEF GiveUp, KeepSession
<1>6. CASE RestoreArrives \/ RestoreLost
  BY <1>3, <1>4, <1>6 DEF RestoreArrives, RestoreLost
<1>7. ASSUME NEW c \in Calls \cup {Me}, Reject(c), call[c] # None PROVE FALSE
  BY <1>1, <1>3, <1>4, <1>7 DEF Reject, MeIsTheRestores, KeepSession
<1>8. ASSUME NEW c \in Calls \cup {Me}, Unauthorized(c) PROVE refused'
  <2>1. \/ Reject(c) \/ Matches(call[c].snap) \/ KeepSession
    BY Zenon, <1>8 DEF Unauthorized
  <2>2. call[c] # None /\ refused' = (refused \/ call[c].snap.epoch = epoch)
    BY <1>8 DEF Unauthorized
  <2>3. CASE Matches(call[c].snap)
    <3>1. call[c].snap.epoch = epoch BY <2>3 DEF Matches, Snapshot
    <3> QED BY Zenon, <2>2, <3>1
  <2>4. CASE KeepSession BY <1>4, <2>4 DEF KeepSession
  <2> QED BY <1>7, <2>1, <2>2, <2>3, <2>4
<1>9. ASSUME NEW c \in Calls \cup {Me}, Succeed(c) PROVE FALSE
  <2>1. c = Me /\ restore.snap.epoch = epoch
    BY <1>4, <1>9 DEF Succeed, KeepSession
  <2>2. restore # None BY <1>1, <1>9, <2>1 DEF Succeed, MeIsTheRestores
  <2> QED BY <1>2, <2>1, <2>2
<1>10. CASE Answers
  <2>1. ASSUME NEW c \in Calls, TransferArrives(c) PROVE TransferEnds(c)
    <3>1. call'[c] = None BY <1>1, <2>1, DoneIs DEF TransferArrives
    <3> QED BY <2>1, <3>1 DEF TransferArrives, TransferEnds
  <2> QED BY <1>4, <1>5, <1>6, <1>7, <1>8, <1>9, <1>10, <2>1
          DEF Answers, ServeRefresh, ServeRestore, ServeLogout, LogoutEnds, Fail, ServeTransfer
<1>11. ASSUME NEW u \in Users, NEW n \in Sessions, LoginSucceeds(u, n) PROVE FALSE
  BY <1>11, WebSessionAssumption DEF LoginSucceeds, StartSession
<1>12. ~PublishUser BY DEF PublishUser, StartSession
<1>13. CASE Logout \/ Reload BY <1>1, <1>13 DEF Logout, Reload, Loaded, SessionTyped
<1>14. ~UNCHANGED vars BY <1>4 DEF vars
<1> QED BY <1>4, <1>10, <1>11, <1>12, <1>13, <1>14
        DEF Next, Ask, TokenExpires, SessionRevoked, SubmitLogin, LoginFails, EditLogin

(* A user is never logged out by a late answer to an earlier session other *)
(* than that of a transfer.                                                *)
THEOREM LateAnswersEndNothing == Spec => SessionEndsForItsOwnReason
<1>1. WebSessionInv /\ [Next]_vars =>
        [store.user # None /\ store'.user = None =>
           \/ leaving # None \/ store'.loading \/ refused'
           \/ \E c \in Calls : TransferEnds(c)]_vars
  BY StepEndsForItsOwnReason
<1> QED BY <1>1, WebSessionInvHolds, PTL DEF Spec, SessionEndsForItsOwnReason

-----------------------------------------------------------------------------
(* The page of the sources: its list and the checks of it.                 *)
IsAPanel(p) ==
    p = [items |-> p.items, loading |-> p.loading, refreshing |-> p.refreshing, error |-> p.error,
         checks |-> p.checks, fill |-> p.fill, found |-> p.found]

IsAFill(f) == f = [gen |-> f.gen, at |-> f.at, left |-> f.left, out |-> f.out]

ChecksOf(f, o) == f.at = "list" \/ o \in f.left \cup f.out

(* What is shown as loading or being checked is fed by a current run.      *)
Fed(p, fs) ==
    /\ IsAPanel(p)
    /\ \A f \in fs : IsAFill(f) /\ (f.at = "list" => f.out = {})
    /\ p.loading \/ p.refreshing => \E f \in fs : f.gen = p.fill
    /\ \A o \in DOMAIN p.checks : p.checks[o] = "CHECKING" => \E f \in fs : f.gen = p.fill /\ ChecksOf(f, o)

PanelInv == Fed(panel, fills)

LEMMA FillIs ==
    ASSUME NEW g, NEW f, f = Fill(g)
    PROVE  IsAFill(f) /\ f.gen = g /\ f.at = "list" /\ f.out = {}
  BY DEF Fill, IsAFill

LEMMA RestedIs ==
    ASSUME NEW p, IsAPanel(p), NEW q, q = Rested(p)
    PROVE  IsAPanel(q) /\ ~q.loading /\ ~q.refreshing /\ q.checks = p.checks /\ q.fill = p.fill
<1>1. q = [items |-> p.items, loading |-> FALSE, refreshing |-> FALSE, error |-> p.error,
           checks |-> p.checks, fill |-> p.fill, found |-> p.found]
  BY DEF IsAPanel, Rested
<1> QED BY <1>1 DEF IsAPanel

(* A run begins a generation: it feeds whatever is shown.                  *)
LEMMA LoadSourcesKeeps ==
    ASSUME PanelInv, LoadSources
    PROVE  PanelInv'
<1>1. PICK c, h : c = [o \in DOMAIN panel.checks |-> "CHECKING"] /\ h = panel.fill + 1 OBVIOUS
<1>2. PICK f : f = Fill(h) OBVIOUS
<1>3. IsAFill(f) /\ f.gen = h /\ f.at = "list" /\ f.out = {} BY <1>2, FillIs
<1>4. panel' = [items |-> panel.items, loading |-> panel.loading, refreshing |-> TRUE, error |-> FALSE,
                checks |-> c, fill |-> h, found |-> panel.found]
  BY <1>1 DEF LoadSources, PanelInv, Fed, IsAPanel
<1>5. IsAPanel(panel') /\ panel'.fill = h BY <1>4 DEF IsAPanel
<1>6. fills' = fills \cup {f} BY <1>1, <1>2 DEF LoadSources
<1>7. f \in fills' /\ \A o : ChecksOf(f, o) BY <1>3, <1>6 DEF ChecksOf
<1>8. \A g \in fills' : IsAFill(g) /\ (g.at = "list" => g.out = {}) BY <1>3, <1>6 DEF PanelInv, Fed
<1> QED BY <1>3, <1>5, <1>7, <1>8 DEF PanelInv, Fed

(* The runs that feed the panel stay, and nothing more is to be fed.       *)
LEMMA FedStays ==
    ASSUME NEW p, NEW fs, Fed(p, fs), NEW q, IsAPanel(q), q.fill = p.fill,
           (q.loading \/ q.refreshing) => (p.loading \/ p.refreshing),
           \A o \in DOMAIN q.checks : q.checks[o] = "CHECKING" => o \in DOMAIN p.checks /\ p.checks[o] = "CHECKING",
           NEW gs, gs \subseteq fs, \A f \in fs \ gs : f.gen # p.fill
    PROVE  Fed(q, gs)
  BY DEF Fed

LEMMA ListArrivesKeeps ==
    ASSUME PanelInv, NEW f, ListArrives(f)
    PROVE  PanelInv'
<1>t. f \in fills /\ f.at = "list" /\ IsAPanel(panel) /\ IsAFill(f) BY DEF ListArrives, PanelInv, Fed
<1>1. CASE ~CurrentFill(f) /\ fills' = fills \ {f} /\ UNCHANGED panel
  <2>1. Fed(panel, fills') BY <1>t, <1>1, FedStays DEF PanelInv, CurrentFill
  <2> QED BY <1>1, <2>1 DEF PanelInv
<1>2. ASSUME NEW p, IsAPanel(p), p.checks = [o \in {} |-> "CHECKING"], fills' = fills \ {f}, panel' = Rested(p)
      PROVE  PanelInv'
  <2>1. IsAPanel(panel') /\ ~panel'.loading /\ ~panel'.refreshing /\ panel'.checks = p.checks
    BY <1>2, RestedIs
  <2>2. DOMAIN panel'.checks = {} BY <1>2, <2>1
  <2> QED BY <1>2, <2>1, <2>2 DEF PanelInv, Fed
<1>3. CASE /\ CurrentFill(f) /\ fills' = fills \ {f}
           /\ panel' = Rested([panel EXCEPT !.items = {}, !.checks = [o \in {} |-> "CHECKING"], !.error = TRUE])
  <2>1. PICK none : none = [o \in {} |-> "CHECKING"] OBVIOUS
  <2>2. PICK p : p = [panel EXCEPT !.items = {}, !.checks = none, !.error = TRUE] OBVIOUS
  <2>3. p = [items |-> {}, loading |-> panel.loading, refreshing |-> panel.refreshing, error |-> TRUE,
             checks |-> none, fill |-> panel.fill, found |-> panel.found]
    BY <1>t, <2>2 DEF IsAPanel
  <2>4. IsAPanel(p) /\ p.checks = none BY <2>3 DEF IsAPanel
  <2>5. panel' = Rested(p) BY <1>3, <2>1, <2>2
  <2> QED BY <1>2, <1>3, <2>1, <2>4, <2>5
<1>4. ASSUME CurrentFill(f), NEW S \in SUBSET Origins, NEW p,
             p = [panel EXCEPT !.items = S, !.checks = [o \in S |-> "CHECKING"], !.loading = FALSE],
             IF S = {} THEN panel' = Rested(p) /\ fills' = fills \ {f}
             ELSE /\ panel' = p
                  /\ \E out \in SUBSET S :
                       fills' = (fills \ {f}) \cup {[f EXCEPT !.at = "checks", !.out = out, !.left = S \ out]}
      PROVE  PanelInv'
  <2>1. PICK c : c = [o \in S |-> "CHECKING"] OBVIOUS
  <2>2. p = [items |-> S, loading |-> FALSE, refreshing |-> panel.refreshing, error |-> panel.error,
             checks |-> c, fill |-> panel.fill, found |-> panel.found]
    BY <1>t, <1>4, <2>1 DEF IsAPanel
  <2>3. IsAPanel(p) /\ p.checks = c /\ p.fill = panel.fill BY <2>2 DEF IsAPanel
  <2>4. CASE S = {}
    <3>1. p.checks = [o \in {} |-> "CHECKING"] BY <2>1, <2>3, <2>4
    <3> QED BY <1>2, <1>4, <2>3, <2>4, <3>1
  <2>5. CASE S # {}
    <3>0. PICK out \in SUBSET S :
            fills' = (fills \ {f}) \cup {[f EXCEPT !.at = "checks", !.out = out, !.left = S \ out]}
      BY <1>4, <2>5
    <3>1. PICK g : /\ fills' = (fills \ {f}) \cup {g}
                   /\ g = [f EXCEPT !.at = "checks", !.out = out, !.left = S \ out]
      BY <3>0
    <3>2. g = [gen |-> f.gen, at |-> "checks", left |-> S \ out, out |-> out] BY <1>t, <3>1 DEF IsAFill
    <3>3. IsAFill(g) /\ g.gen = p.fill /\ g.at = "checks" /\ g.left \cup g.out = S
      BY <1>4, <2>3, <3>2 DEF IsAFill, CurrentFill
    <3>4. g \in fills' /\ \A o \in DOMAIN c : ChecksOf(g, o) BY <2>1, <3>1, <3>3 DEF ChecksOf
    <3>5. \A h \in fills' : IsAFill(h) /\ (h.at = "list" => h.out = {}) BY <3>1, <3>3 DEF PanelInv, Fed
    <3>6. panel' = p BY <1>4, <2>5
    <3> QED BY <2>3, <3>3, <3>4, <3>5, <3>6 DEF PanelInv, Fed
  <2> QED BY <2>4, <2>5
<1>5. CASE /\ CurrentFill(f)
           /\ \E S \in SUBSET Origins :
               LET shown == [panel EXCEPT !.items = S, !.checks = [o \in S |-> "CHECKING"], !.loading = FALSE]
               IN IF S = {} THEN panel' = Rested(shown) /\ fills' = fills \ {f}
                  ELSE /\ panel' = shown
                       /\ \E out \in SUBSET S :
                            /\ Cardinality(out) = IF Cardinality(S) < 2 THEN 1 ELSE 2
                            /\ fills' = (fills \ {f}) \cup {[f EXCEPT !.at = "checks", !.out = out, !.left = S \ out]}
  <2>1. PICK S \in SUBSET Origins :
            LET shown == [panel EXCEPT !.items = S, !.checks = [o \in S |-> "CHECKING"], !.loading = FALSE]
            IN IF S = {} THEN panel' = Rested(shown) /\ fills' = fills \ {f}
               ELSE /\ panel' = shown
                    /\ \E out \in SUBSET S :
                         fills' = (fills \ {f}) \cup {[f EXCEPT !.at = "checks", !.out = out, !.left = S \ out]}
    BY <1>5
  <2>2. PICK p : p = [panel EXCEPT !.items = S, !.checks = [o \in S |-> "CHECKING"], !.loading = FALSE] OBVIOUS
  <2> QED BY <1>4, <1>5, <2>1, <2>2
<1> QED BY <1>1, <1>3, <1>5 DEF ListArrives

(* One check of a list is answered.                                        *)
Noted(p, o, result) == [p EXCEPT !.checks = [x \in DOMAIN @ \cup {o} |-> IF x = o THEN result ELSE @[x]]]

LEMMA NotedIs ==
    ASSUME NEW p, IsAPanel(p), NEW o, NEW result, result # "CHECKING", NEW q, q = Noted(p, o, result)
    PROVE  /\ IsAPanel(q) /\ q.loading = p.loading /\ q.refreshing = p.refreshing /\ q.fill = p.fill
           /\ \A x \in DOMAIN q.checks : q.checks[x] = "CHECKING" =>
                 x # o /\ x \in DOMAIN p.checks /\ p.checks[x] = "CHECKING"
<1>1. PICK d, c : d = p.checks /\ c = [x \in DOMAIN d \cup {o} |-> IF x = o THEN result ELSE d[x]] OBVIOUS
<1>2. q = [items |-> p.items, loading |-> p.loading, refreshing |-> p.refreshing, error |-> p.error,
           checks |-> c, fill |-> p.fill, found |-> p.found]
  BY <1>1 DEF IsAPanel, Noted
<1>3. /\ IsAPanel(q) /\ q.loading = p.loading /\ q.refreshing = p.refreshing /\ q.fill = p.fill /\ q.checks = c
  BY <1>2 DEF IsAPanel
<1>4. \A x \in DOMAIN c : c[x] = "CHECKING" => x # o /\ x \in DOMAIN d /\ d[x] = "CHECKING" BY <1>1
<1> QED BY <1>1, <1>3, <1>4

LEMMA CheckArrivesKeeps ==
    ASSUME PanelInv, NEW f, NEW o, CheckArrives(f, o)
    PROVE  PanelInv'
<1>t. /\ f \in fills /\ o \in f.out /\ IsAPanel(panel) /\ IsAFill(f) /\ f.at # "list"
      /\ \A g \in fills : IsAFill(g) /\ (g.at = "list" => g.out = {})
  BY DEF CheckArrives, PanelInv, Fed
<1>1. CASE ~CurrentFill(f)
  <2>1. PICK Z : /\ fills' = (fills \ {f}) \cup Z
                 /\ Z = (IF f.out = {o} THEN {} ELSE {[f EXCEPT !.out = @ \ {o}]})
    BY <1>1 DEF CheckArrives
  <2>2. \A g \in Z : IsAFill(g) /\ g.gen = f.gen /\ g.at = f.at
    <3> SUFFICES ASSUME NEW g \in Z PROVE IsAFill(g) /\ g.gen = f.gen /\ g.at = f.at OBVIOUS
    <3>1. g = [f EXCEPT !.out = @ \ {o}] BY <2>1
    <3>2. g = [gen |-> f.gen, at |-> f.at, left |-> f.left, out |-> f.out \ {o}] BY <1>t, <3>1 DEF IsAFill
    <3> QED BY <3>2 DEF IsAFill
  <2>3. \A g \in fills' : IsAFill(g) /\ (g.at = "list" => g.out = {}) BY <1>t, <2>1, <2>2
  <2>4. \A g \in fills : g.gen = panel.fill => g \in fills' BY <1>1, <2>1 DEF CurrentFill
  <2>5. panel' = panel BY <1>1 DEF CheckArrives
  <2> QED BY <2>3, <2>4, <2>5 DEF PanelInv, Fed
<1>2. CASE CurrentFill(f)
  <2>0. PICK result \in {"VERIFIED", "UNVERIFIED"} :
             IF f.left # {}
             THEN /\ panel' = Noted(panel, o, result)
                  /\ \E n \in f.left : fills' = (fills \ {f}) \cup
                                           {[f EXCEPT !.out = (@ \ {o}) \cup {n}, !.left = @ \ {n}]}
             ELSE IF f.out # {o}
             THEN panel' = Noted(panel, o, result) /\ fills' = (fills \ {f}) \cup {[f EXCEPT !.out = @ \ {o}]}
             ELSE panel' = Rested(Noted(panel, o, result)) /\ fills' = fills \ {f}
    BY <1>2 DEF CheckArrives, Noted
  <2>1. PICK q :
          /\ q = Noted(panel, o, result)
          /\ IF f.left # {}
             THEN panel' = q /\ \E n \in f.left : fills' = (fills \ {f}) \cup
                                                      {[f EXCEPT !.out = (@ \ {o}) \cup {n}, !.left = @ \ {n}]}
             ELSE IF f.out # {o}
             THEN panel' = q /\ fills' = (fills \ {f}) \cup {[f EXCEPT !.out = @ \ {o}]}
             ELSE panel' = Rested(q) /\ fills' = fills \ {f}
    BY <2>0
  <2>2. /\ IsAPanel(q) /\ q.loading = panel.loading /\ q.refreshing = panel.refreshing /\ q.fill = panel.fill
        /\ \A x \in DOMAIN q.checks : q.checks[x] = "CHECKING" =>
              x # o /\ x \in DOMAIN panel.checks /\ panel.checks[x] = "CHECKING"
    <3>1. result # "CHECKING" OBVIOUS
    <3>2. q = Noted(panel, o, result) BY <2>1
    <3>3. IsAPanel(panel) BY <1>t
    <3> QED BY <3>1, <3>2, <3>3, NotedIs
  <2>3. ASSUME NEW g, IsAFill(g), g.gen = f.gen, g.at = f.at,
               f.left \cup f.out \subseteq g.left \cup g.out \cup {o},
               panel' = q, fills' = (fills \ {f}) \cup {g}
        PROVE  PanelInv'
    <3>1. \A h \in fills' : IsAFill(h) /\ (h.at = "list" => h.out = {}) BY <1>t, <2>3
    <3>2. g \in fills' /\ g.gen = q.fill BY <1>2, <2>2, <2>3 DEF CurrentFill
    <3>3. ASSUME NEW x \in DOMAIN q.checks, q.checks[x] = "CHECKING"
          PROVE  \E h \in fills' : h.gen = q.fill /\ ChecksOf(h, x)
      <4>1. PICK h \in fills : h.gen = panel.fill /\ ChecksOf(h, x) /\ x # o
        BY <2>2, <3>3 DEF PanelInv, Fed
      <4>2. CASE h = f
        <5>1. ChecksOf(g, x) BY <1>t, <2>3, <4>1, <4>2 DEF ChecksOf
        <5> QED BY <3>2, <5>1
      <4>3. CASE h # f BY <2>2, <2>3, <4>1, <4>3
      <4> QED BY <4>2, <4>3
    <3> QED BY <2>2, <2>3, <3>1, <3>2, <3>3 DEF PanelInv, Fed
  <2>4. CASE f.left # {}
    <3>0. PICK n \in f.left : /\ panel' = q
                              /\ fills' = (fills \ {f}) \cup
                                           {[f EXCEPT !.out = (@ \ {o}) \cup {n}, !.left = @ \ {n}]}
      BY <2>1, <2>4
    <3>1. PICK g : /\ g = [f EXCEPT !.out = (@ \ {o}) \cup {n}, !.left = @ \ {n}]
                   /\ panel' = q /\ fills' = (fills \ {f}) \cup {g}
      BY <3>0
    <3>2. g = [gen |-> f.gen, at |-> f.at, left |-> f.left \ {n}, out |-> (f.out \ {o}) \cup {n}]
      BY <1>t, <3>1 DEF IsAFill
    <3>3. /\ IsAFill(g) /\ g.gen = f.gen /\ g.at = f.at /\ g.left = f.left \ {n} /\ g.out = (f.out \ {o}) \cup {n}
      BY <3>2 DEF IsAFill
    <3>4. f.left \cup f.out \subseteq g.left \cup g.out \cup {o} BY <3>3
    <3> QED BY <2>3, <3>1, <3>3, <3>4
  <2>5. CASE f.left = {} /\ f.out # {o}
    <3>1. PICK g : g = [f EXCEPT !.out = @ \ {o}] /\ panel' = q /\ fills' = (fills \ {f}) \cup {g}
      BY <2>1, <2>5
    <3>2. g = [gen |-> f.gen, at |-> f.at, left |-> f.left, out |-> f.out \ {o}] BY <1>t, <3>1 DEF IsAFill
    <3>3. IsAFill(g) /\ g.gen = f.gen /\ g.at = f.at /\ g.left = f.left /\ g.out = f.out \ {o}
      BY <3>2 DEF IsAFill
    <3>4. f.left \cup f.out \subseteq g.left \cup g.out \cup {o} BY <3>3
    <3> QED BY <2>3, <3>1, <3>3, <3>4
  <2>6. CASE f.left = {} /\ f.out = {o}
    <3>1. panel' = Rested(q) /\ fills' = fills \ {f} BY <2>1, <2>6
    <3>2. IsAPanel(panel') /\ ~panel'.loading /\ ~panel'.refreshing /\ panel'.checks = q.checks /\ panel'.fill = q.fill
      BY <2>2, <3>1, RestedIs
    <3>3. ASSUME NEW x \in DOMAIN q.checks, q.checks[x] = "CHECKING"
          PROVE  \E h \in fills' : h.gen = q.fill /\ ChecksOf(h, x)
      <4>1. PICK h \in fills : h.gen = panel.fill /\ ChecksOf(h, x) /\ x # o
        BY <2>2, <3>3 DEF PanelInv, Fed
      <4>2. h # f BY <1>t, <2>6, <4>1 DEF ChecksOf
      <4> QED BY <2>2, <3>1, <4>1, <4>2
    <3> QED BY <1>t, <3>1, <3>2, <3>3 DEF PanelInv, Fed
  <2> QED BY <2>4, <2>5, <2>6
<1> QED BY <1>1, <1>2

(* A change of the panel that shows nothing more as loading or checked.    *)
Calmer(p, q) ==
    /\ IsAPanel(q) /\ q.loading = p.loading /\ q.refreshing = p.refreshing /\ q.fill = p.fill
    /\ \A o \in DOMAIN q.checks : q.checks[o] = "CHECKING" => o \in DOMAIN p.checks /\ p.checks[o] = "CHECKING"

LEMMA CalmerKeeps ==
    ASSUME PanelInv, UNCHANGED fills, Calmer(panel, panel')
    PROVE  PanelInv'
  BY DEF PanelInv, Fed, Calmer

LEMMA CalmerIs ==
    ASSUME NEW p, IsAPanel(p)
    PROVE  /\ Calmer(p, p)
           /\ \A x : Calmer(p, [p EXCEPT !.error = x]) /\ Calmer(p, [p EXCEPT !.found = x])
           /\ \A S, x : Calmer(p, [p EXCEPT !.items = S, !.found = x])
<1>1. Calmer(p, p) BY DEF Calmer
<1>2. ASSUME NEW q, NEW S, NEW e, NEW x,
             q = [items |-> S, loading |-> p.loading, refreshing |-> p.refreshing, error |-> e,
                  checks |-> p.checks, fill |-> p.fill, found |-> x]
      PROVE  Calmer(p, q)
  BY <1>2 DEF Calmer, IsAPanel
<1>3. ASSUME NEW x PROVE Calmer(p, [p EXCEPT !.error = x])
  <2>1. [p EXCEPT !.error = x] = [items |-> p.items, loading |-> p.loading, refreshing |-> p.refreshing,
                                  error |-> x, checks |-> p.checks, fill |-> p.fill, found |-> p.found]
    BY DEF IsAPanel
  <2> QED BY <1>2, <2>1
<1>4. ASSUME NEW x PROVE Calmer(p, [p EXCEPT !.found = x])
  <2>1. [p EXCEPT !.found = x] = [items |-> p.items, loading |-> p.loading, refreshing |-> p.refreshing,
                                  error |-> p.error, checks |-> p.checks, fill |-> p.fill, found |-> x]
    BY DEF IsAPanel
  <2> QED BY <1>2, <2>1
<1>5. ASSUME NEW S, NEW x PROVE Calmer(p, [p EXCEPT !.items = S, !.found = x])
  <2>1. PICK q : q = [p EXCEPT !.items = S, !.found = x] OBVIOUS
  <2>2. q = [items |-> S, loading |-> p.loading, refreshing |-> p.refreshing,
             error |-> p.error, checks |-> p.checks, fill |-> p.fill, found |-> x]
    BY <2>1 DEF IsAPanel
  <2>3. Calmer(p, q) BY <1>2, <2>2
  <2> QED BY <2>1, <2>3
<1> QED BY <1>1, <1>3, <1>4, <1>5

LEMMA CheckedIsCalmer ==
    ASSUME NEW p, NEW q, IsAPanel(q), Calmer(p, q), NEW o, NEW r, r = Checked(q, o)
    PROVE  Calmer(p, r)
<1>1. PICK v : v = "VERIFIED" OBVIOUS
<1>2. v # "CHECKING" BY <1>1
<1>3. r = Noted(q, o, v) BY <1>1 DEF Checked, Noted
<1>4. /\ IsAPanel(r) /\ r.loading = q.loading /\ r.refreshing = q.refreshing /\ r.fill = q.fill
      /\ \A x \in DOMAIN r.checks : r.checks[x] = "CHECKING" =>
            x # o /\ x \in DOMAIN q.checks /\ q.checks[x] = "CHECKING"
  BY <1>2, <1>3, NotedIs
<1> QED BY <1>4 DEF Calmer

IsAnErrand(e) ==
    /\ e = [what |-> e.what, source |-> e.source, awaits |-> e.awaits]
    /\ e.what \in {"create", "test", "remove", "import"}

ErrandsFit == \A e \in errands : IsAnErrand(e)

LEMMA ErrandsKeep ==
    ASSUME PanelInv, ErrandsFit
    PROVE  /\ \A what, o : StartErrand(what, o) => PanelInv'
           /\ \A e : ErrandSucceeds(e) \/ ErrandFails(e) \/ FailedTestEnds(e) => PanelInv'
           /\ LeaveForLater \/ RefreshSources => PanelInv'
<1>t. IsAPanel(panel) BY DEF PanelInv, Fed
<1>1. ASSUME NEW what, NEW o, StartErrand(what, o) PROVE PanelInv'
  <2>1. UNCHANGED fills BY <1>1 DEF StartErrand
  <2>2. panel' = panel \/ panel' = [panel EXCEPT !.error = FALSE] BY <1>1 DEF StartErrand
  <2>3. Calmer(panel, panel') BY <1>t, <2>2, CalmerIs
  <2> QED BY <2>1, <2>3, CalmerKeeps
<1>2. ASSUME NEW e, ErrandSucceeds(e) PROVE PanelInv'
  <2>1. UNCHANGED fills /\ e.what \in {"create", "test", "remove", "import"}
    BY <1>2 DEF ErrandSucceeds, ErrandsFit, IsAnErrand
  <2>2. PICK o : o = e.source OBVIOUS
  <2>3. \/ \E S, x : panel' = Checked([panel EXCEPT !.items = S, !.found = x], o)
        \/ \E x : panel' = Checked([panel EXCEPT !.found = x], o)
        \/ \E S, x : panel' = [panel EXCEPT !.items = S, !.found = x]
        \/ \E x : panel' = [panel EXCEPT !.found = x]
    <3>1. CASE e.what = "create" BY <1>2, <2>2, <3>1 DEF ErrandSucceeds
    <3>2. CASE e.what = "test" BY <1>2, <2>2, <3>2 DEF ErrandSucceeds
    <3>3. CASE e.what = "remove" BY <1>2, <2>2, <3>3 DEF ErrandSucceeds
    <3>4. CASE e.what = "import" BY <1>2, <2>2, <3>4 DEF ErrandSucceeds
    <3> QED BY <2>1, <3>1, <3>2, <3>3, <3>4
  <2>4. Calmer(panel, panel')
    <3>1. ASSUME NEW q, Calmer(panel, q) PROVE Calmer(panel, Checked(q, o))
      <4>1. IsAPanel(q) BY <3>1 DEF Calmer
      <4> QED BY <3>1, <4>1, CheckedIsCalmer
    <3>2. ASSUME NEW S, NEW x, panel' = Checked([panel EXCEPT !.items = S, !.found = x], o)
          PROVE  Calmer(panel, panel')
      BY <1>t, <3>1, <3>2, CalmerIs
    <3>3. ASSUME NEW x, panel' = Checked([panel EXCEPT !.found = x], o) PROVE Calmer(panel, panel')
      BY <1>t, <3>1, <3>3, CalmerIs
    <3>4. ASSUME NEW S, NEW x, panel' = [panel EXCEPT !.items = S, !.found = x] PROVE Calmer(panel, panel')
      BY <1>t, <3>4, CalmerIs
    <3>5. ASSUME NEW x, panel' = [panel EXCEPT !.found = x] PROVE Calmer(panel, panel')
      BY <1>t, <3>5, CalmerIs
    <3> QED BY <2>3, <3>2, <3>3, <3>4, <3>5
  <2> QED BY <2>1, <2>4, CalmerKeeps
<1>3. ASSUME NEW e, ErrandFails(e) PROVE PanelInv'
  <2>1. CASE e.what = "test" BY <1>3, <2>1, LoadSourcesKeeps DEF ErrandFails
  <2>2. CASE e.what # "test"
    <3>1. UNCHANGED fills /\ (panel' = panel \/ panel' = [panel EXCEPT !.error = TRUE])
      BY <1>3, <2>2 DEF ErrandFails
    <3>2. Calmer(panel, panel') BY <1>t, <3>1, CalmerIs
    <3> QED BY <3>1, <3>2, CalmerKeeps
  <2> QED BY <2>1, <2>2
<1>4. ASSUME NEW e, FailedTestEnds(e) PROVE PanelInv'
  <2>1. UNCHANGED fills /\ panel' = [panel EXCEPT !.error = TRUE] BY <1>4 DEF FailedTestEnds
  <2>2. Calmer(panel, panel') BY <1>t, <2>1, CalmerIs
  <2> QED BY <2>1, <2>2, CalmerKeeps
<1>5. ASSUME LeaveForLater PROVE PanelInv'
  <2>1. UNCHANGED fills /\ panel' = [panel EXCEPT !.found = Missing] BY <1>5 DEF LeaveForLater
  <2>2. Calmer(panel, panel') BY <1>t, <2>1, CalmerIs
  <2> QED BY <2>1, <2>2, CalmerKeeps
<1>6. ASSUME RefreshSources PROVE PanelInv' BY <1>6, LoadSourcesKeeps DEF RefreshSources
<1> QED BY <1>1, <1>2, <1>3, <1>4, <1>5, <1>6

LEMMA ErrandsStay == ErrandsFit /\ PanelNext => ErrandsFit'
<1> SUFFICES ASSUME ErrandsFit, PanelNext PROVE ErrandsFit' OBVIOUS
<1>1. ASSUME NEW what \in {"create", "test", "remove", "import"}, NEW o, StartErrand(what, o) PROVE ErrandsFit'
  <2>1. errands' = errands \cup {Errand(what, o)} BY <1>1 DEF StartErrand
  <2>2. PICK e : e = Errand(what, o) OBVIOUS
  <2>3. IsAnErrand(e) BY <2>2 DEF Errand, IsAnErrand
  <2> QED BY <2>1, <2>2, <2>3 DEF ErrandsFit
<1>2. ASSUME NEW e, ErrandFails(e) PROVE ErrandsFit'
  <2>1. errands' = errands \ {e} \/ errands' = (errands \ {e}) \cup {[e EXCEPT !.awaits = panel.fill + 1]}
    BY <1>2 DEF ErrandFails
  <2>2. PICK n, f : n = panel.fill + 1 /\ f = [e EXCEPT !.awaits = n] OBVIOUS
  <2>3. IsAnErrand(e) BY <1>2 DEF ErrandFails, ErrandsFit
  <2>4. f = [what |-> e.what, source |-> e.source, awaits |-> n] BY <2>2, <2>3 DEF IsAnErrand
  <2>5. IsAnErrand(f) BY <2>3, <2>4 DEF IsAnErrand
  <2> QED BY <2>1, <2>2, <2>5 DEF ErrandsFit
<1>3. CASE errands' \subseteq errands BY <1>3 DEF ErrandsFit
<1> QED BY <1>1, <1>2, <1>3
     DEF PanelNext, ListArrives, CheckArrives, RefreshSources, LeaveForLater, ErrandSucceeds, FailedTestEnds

LEMMA PanelKeeps == PanelInv /\ ErrandsFit /\ PanelNext => PanelInv'
<1> SUFFICES ASSUME PanelInv, ErrandsFit, PanelNext PROVE PanelInv' OBVIOUS
<1>1. ASSUME NEW f, ListArrives(f) PROVE PanelInv' BY <1>1, ListArrivesKeeps
<1>2. ASSUME NEW f, NEW o, CheckArrives(f, o) PROVE PanelInv' BY <1>2, CheckArrivesKeeps
<1> QED BY <1>1, <1>2, ErrandsKeep DEF PanelNext

LEMMA InitPanel == SourceInit => PanelInv /\ ErrandsFit
<1> SUFFICES ASSUME SourceInit PROVE PanelInv /\ ErrandsFit OBVIOUS
<1>1. IsAPanel(panel) /\ panel.fill = 1 /\ panel.checks = [o \in {} |-> "CHECKING"] BY DEF SourceInit, IsAPanel
<1>2. PICK f : f = Fill(1) OBVIOUS
<1>3. fills = {f} /\ IsAFill(f) /\ f.gen = 1 /\ f.at = "list" /\ f.out = {} BY <1>2, FillIs DEF SourceInit
<1>4. ErrandsFit BY DEF SourceInit, ErrandsFit
<1> QED BY <1>1, <1>3, <1>4 DEF PanelInv, Fed

-----------------------------------------------------------------------------
(* The dialog that reveals a key.                                          *)
IsAReveal(r) == r = [source |-> r.source, key |-> r.key, timer |-> r.timer, gen |-> r.gen]

RevealInv ==
    /\ IsAReveal(reveal) /\ reveal.gen \in Nat
    /\ reveal.key # Missing => reveal.key = reveal.source /\ reveal.timer
    /\ \A a \in reveals : /\ a.gen \in Nat /\ a.gen <= reveal.gen
                          /\ CurrentReveal(a) => a.source = reveal.source /\ reveal.source # Missing

LEMMA InitReveal == SourceInit => RevealInv BY DEF SourceInit, RevealInv, IsAReveal

LEMMA RevealKeeps == RevealInv /\ [RevealNext]_revealVars => RevealInv'
<1> SUFFICES ASSUME RevealInv, [RevealNext]_revealVars PROVE RevealInv' OBVIOUS
<1>t. IsAReveal(reveal) /\ reveal.gen \in Nat BY DEF RevealInv
<1>1. ASSUME NEW o \in Origins, OpenReveal(o) PROVE RevealInv'
  <2>1. reveal' = [source |-> o, key |-> reveal.key, timer |-> reveal.timer, gen |-> reveal.gen]
    BY <1>t, <1>1 DEF OpenReveal, IsAReveal
  <2>2. IsAReveal(reveal') /\ reveal'.source = o /\ reveal'.key = reveal.key /\ reveal'.gen = reveal.gen
    BY <2>1 DEF IsAReveal
  <2>3. reveal.key = Missing /\ \A a \in reveals : ~CurrentReveal(a) BY <1>1 DEF OpenReveal, RevealInv
  <2>4. reveals' = reveals BY <1>1 DEF OpenReveal
  <2>5. \A a \in reveals' : a.gen \in Nat /\ a.gen <= reveal'.gen /\ ~CurrentReveal(a)'
    BY <2>2, <2>3, <2>4 DEF RevealInv, CurrentReveal
  <2> QED BY <1>t, <2>2, <2>3, <2>5 DEF RevealInv
<1>2. CASE RevealKey
  <2>1. PICK n : n = reveal.gen + 1 OBVIOUS
  <2>2. reveal' = [source |-> reveal.source, key |-> reveal.key, timer |-> reveal.timer, gen |-> n]
    BY <1>t, <1>2, <2>1 DEF RevealKey, IsAReveal
  <2>3. IsAReveal(reveal') /\ reveal'.source = reveal.source /\ reveal'.key = reveal.key /\ reveal'.gen = n
    BY <2>2 DEF IsAReveal
  <2>4. reveals' = reveals \cup {[gen |-> n, source |-> reveal.source]} BY <1>2, <2>1 DEF RevealKey
  <2>5. reveal.key = Missing /\ reveal.source # Missing BY <1>2 DEF RevealKey
  <2>6. ASSUME NEW a \in reveals'
        PROVE  /\ a.gen \in Nat /\ a.gen <= reveal'.gen
               /\ CurrentReveal(a)' => a.source = reveal'.source
    <3>1. CASE a \in reveals
      <4>1. a.gen \in Nat /\ a.gen <= reveal.gen BY <3>1 DEF RevealInv
      <4> QED BY <1>t, <2>1, <2>3, <4>1 DEF CurrentReveal
    <3>2. CASE a = [gen |-> n, source |-> reveal.source] BY <1>t, <2>1, <2>3, <3>2
    <3> QED BY <2>4, <3>1, <3>2
  <2> QED BY <1>t, <2>1, <2>3, <2>5, <2>6 DEF RevealInv
<1>3. CASE CloseReveal
  <2>1. PICK n : n = reveal.gen + 1 OBVIOUS
  <2>2. reveal' = [source |-> Missing, key |-> Missing, timer |-> FALSE, gen |-> n] /\ reveals' = reveals
    BY <1>3, <2>1 DEF CloseReveal
  <2>3. IsAReveal(reveal') /\ reveal'.key = Missing /\ reveal'.gen = n BY <2>2 DEF IsAReveal
  <2>4. \A a \in reveals' : a.gen \in Nat /\ a.gen <= n /\ ~CurrentReveal(a)'
    BY <1>t, <2>1, <2>2, <2>3 DEF RevealInv, CurrentReveal
  <2> QED BY <1>t, <2>1, <2>3, <2>4 DEF RevealInv
<1>4. ASSUME NEW a \in reveals, RevealArrives(a) PROVE RevealInv'
  <2>1. reveals' = reveals \ {a} BY <1>4 DEF RevealArrives
  <2>2. CASE UNCHANGED reveal BY <1>t, <2>1, <2>2 DEF RevealInv, CurrentReveal
  <2>3. CASE CurrentReveal(a) /\ reveal' = [reveal EXCEPT !.key = a.source, !.timer = TRUE]
    <3>1. reveal' = [source |-> reveal.source, key |-> a.source, timer |-> TRUE, gen |-> reveal.gen]
      BY <1>t, <2>3 DEF IsAReveal
    <3>2. /\ IsAReveal(reveal') /\ reveal'.source = reveal.source /\ reveal'.key = a.source /\ reveal'.timer
          /\ reveal'.gen = reveal.gen
      BY <3>1 DEF IsAReveal
    <3>3. a.source = reveal.source BY <2>3 DEF RevealInv
    <3> QED BY <1>t, <2>1, <3>2, <3>3 DEF RevealInv, CurrentReveal
  <2> QED BY <1>4, <2>2, <2>3 DEF RevealArrives
<1>5. CASE UNCHANGED revealVars BY <1>5 DEF revealVars, RevealInv, CurrentReveal
<1> QED BY <1>1, <1>2, <1>3, <1>4, <1>5 DEF RevealNext

-----------------------------------------------------------------------------
(* The manager of the grants.  A set of numbers up to n that is not empty  *)
(* has a greatest element: of the intervals from its elements up to n one  *)
(* is the least.                                                           *)
LEMMA GreatestExists ==
    ASSUME NEW n \in Nat, NEW T \in SUBSET (1 .. n), T # {}
    PROVE  \E x \in T : \A y \in T : x >= y
<1> DEFINE upTo == {x .. n : x \in T}
<1>1. upTo \subseteq FiniteSubsetsOf(1 .. n) /\ upTo # {}
  <2>1. \A x \in T : x .. n \in SUBSET (1 .. n) /\ IsFiniteSet(x .. n)
    BY FS_Interval
  <2> QED BY <2>1 DEF FiniteSubsetsOf
<1>2. PICK a \in upTo : \A b \in upTo : ~(<<b, a>> \in StrictSubsetOrdering(1 .. n))
  <2> HIDE DEF upTo
  <2> QED BY <1>1, FS_StrictSubsetOrderingWellFounded, WFMin
<1>3. PICK x \in T : a = x .. n BY <1>2
<1>4. ASSUME NEW y \in T, ~(x >= y) PROVE FALSE
  <2>1. y .. n \subseteq x .. n /\ y .. n # x .. n
    BY <1>4
  <2>2. y .. n \in SUBSET (1 .. n) /\ x .. n \in SUBSET (1 .. n) OBVIOUS
  <2>3. <<y .. n, x .. n>> \in StrictSubsetOrdering(1 .. n)
    BY <2>1, <2>2, Zenon DEF StrictSubsetOrdering
  <2>4. y .. n \in upTo OBVIOUS
  <2> QED BY <1>2, <1>3, <2>3, <2>4
<1> QED BY <1>4

(* ... and, likewise, a least one.                                         *)
LEMMA LeastExists ==
    ASSUME NEW n \in Nat, NEW T \in SUBSET (1 .. n), T # {}
    PROVE  \E x \in T : \A y \in T : x <= y
<1> DEFINE R == {n + 1 - x : x \in T}
<1>1. R \in SUBSET (1 .. n) /\ R # {}
  <2>1. \A x \in T : n + 1 - x \in 1 .. n OBVIOUS
  <2>2. R # {} OBVIOUS
  <2> QED BY <2>1, <2>2
<1>2. PICK r \in R : \A s \in R : r >= s
  <2> HIDE DEF R
  <2> QED BY <1>1, GreatestExists
<1>3. PICK x \in T : r = n + 1 - x BY <1>2
<1>4. ASSUME NEW y \in T PROVE x <= y
  <2>1. r >= n + 1 - y BY <1>2
  <2> QED BY <1>3, <2>1
<1> QED BY <1>4

(* What is known of the grants is right, and whatever else has any comes   *)
(* after the cursor.                                                       *)
Fresh(known, cursor) ==
    /\ known = [g \in DOMAIN known |-> known[g]] /\ DOMAIN known \subseteq Guests /\ cursor \in Nat
    /\ \A g \in DOMAIN known : known[g] = granted[g]
    /\ \A g \in Guests \ DOMAIN known : granted[g] # {} => cursor # 0 /\ g > cursor

LEMMA GrantPageIs ==
    ASSUME NEW after \in Nat, NEW part, part = GrantPage(after)
    PROVE  /\ DOMAIN part.known \subseteq Listable(after) /\ part.next \in Nat
           /\ part.known = [g \in DOMAIN part.known |-> part.known[g]]
           /\ \A g \in DOMAIN part.known : part.known[g] = granted[g]
           /\ \A g \in Listable(after) \ DOMAIN part.known : part.next # 0 /\ g > part.next
<1> DEFINE rest == Listable(after)
           before(g) == {k \in rest : k < g}
           P == {g \in rest : Cardinality(before(g)) < GrantLimit}
<1>t. MaxGuests \in Nat /\ GrantLimit \in Nat \ {0} BY SourcePagesAssumption
<1>1. /\ rest \in SUBSET (1 .. MaxGuests) /\ IsFiniteSet(rest)
      /\ part = [known |-> [g \in P |-> granted[g]], next |-> IF P = rest THEN 0 ELSE Max(P)]
  <2>1. IsFiniteSet(1 .. MaxGuests) BY <1>t, FS_Interval
  <2>2. rest \in SUBSET (1 .. MaxGuests) BY DEF Listable, Guests
  <2>3. IsFiniteSet(rest)
    <3> HIDE DEF rest
    <3> QED BY <2>1, <2>2, FS_Subset
  <2>4. part = [known |-> [g \in P |-> granted[g]], next |-> IF P = rest THEN 0 ELSE Max(P)]
    BY DEF GrantPage
  <2> QED BY <2>2, <2>3, <2>4
<1>2. \A g : IsFiniteSet(before(g)) /\ Cardinality(before(g)) \in Nat
  BY <1>1, FS_Subset, FS_CardinalityType
<1>3. P # {} \/ rest = {}
  <2> SUFFICES ASSUME rest # {} PROVE P # {} OBVIOUS
  <2>1. PICK g \in rest : \A k \in rest : g <= k
    <3> HIDE DEF rest
    <3> QED BY <1>t, <1>1, LeastExists
  <2>2. before(g) = {} BY <1>1, <2>1
  <2>3. Cardinality({}) = 0 BY FS_EmptySet
  <2>4. g \in P BY <1>t, <2>1, <2>2, <2>3
  <2> QED BY <2>4
<1>4. ASSUME P # rest
      PROVE  Max(P) \in P /\ \A y \in P : Max(P) >= y
  <2>1. P \in SUBSET (1 .. MaxGuests) /\ P # {} BY <1>1, <1>3, <1>4
  <2> HIDE DEF P
  <2>2. \E x \in P : \A y \in P : x >= y BY <1>t, <2>1, GreatestExists
  <2> QED BY <2>2 DEF Max
<1>5. ASSUME NEW g \in rest \ P, NEW k \in P PROVE g > k
  <2> SUFFICES ASSUME ~(g > k) PROVE FALSE OBVIOUS
  <2>1. before(g) \in SUBSET before(k) BY <1>1, <1>5
  <2>2. Cardinality(before(g)) <= Cardinality(before(k))
    <3> HIDE DEF before
    <3> QED BY <1>2, <2>1, FS_Subset
  <2>3. Cardinality(before(k)) < GrantLimit /\ ~(Cardinality(before(g)) < GrantLimit) BY <1>5
  <2> HIDE DEF before
  <2> QED BY <1>t, <1>2, <2>2, <2>3
<1>6. PICK S : S = P OBVIOUS
<1>7. PICK known : known = [g \in S |-> granted[g]] OBVIOUS
<1>8. part.known = known /\ part.next = IF S = rest THEN 0 ELSE Max(S) BY <1>1, <1>6, <1>7
<1>9. DOMAIN known = S /\ known = [g \in DOMAIN known |-> known[g]] /\ \A g \in S : known[g] = granted[g]
  BY <1>7
<1>10. ASSUME NEW g \in rest \ S PROVE part.next # 0 /\ g > part.next
  <2>1. S # rest BY <1>10
  <2>2. part.next = Max(S) /\ Max(S) \in S BY <1>4, <1>6, <1>8, <2>1
  <2>3. g > Max(S) BY <1>5, <1>6, <1>10, <2>2
  <2>4. Max(S) \in 1 .. MaxGuests BY <1>1, <1>6, <2>2
  <2> QED BY <2>2, <2>3, <2>4
<1>11. part.next \in Nat
  <2>1. CASE S = rest BY <1>8, <2>1
  <2>2. CASE S # rest
    <3>1. part.next = Max(S) /\ Max(S) \in S BY <1>4, <1>6, <1>8, <2>2
    <3>2. PICK m : m = Max(S) OBVIOUS
    <3>3. m \in 1 .. MaxGuests BY <1>1, <1>6, <3>1, <3>2
    <3>4. m \in Nat BY <1>t, <3>3
    <3> QED BY <3>1, <3>2, <3>4
  <2> QED BY <2>1, <2>2
<1>12. S \subseteq rest BY <1>6
<1> HIDE DEF rest
<1> QED BY <1>8, <1>9, <1>10, <1>11, <1>12 DEF rest

LEMMA FirstPageIsFresh ==
    ASSUME NEW part, part = GrantPage(0)
    PROVE  Fresh(part.known, part.next)
<1>1. PICK z \in Nat : z = 0 OBVIOUS
<1>2. part = GrantPage(z) BY <1>1
<1>3. /\ DOMAIN part.known \subseteq Listable(z) /\ part.next \in Nat
      /\ part.known = [g \in DOMAIN part.known |-> part.known[g]]
      /\ \A g \in DOMAIN part.known : part.known[g] = granted[g]
      /\ \A g \in Listable(z) \ DOMAIN part.known : part.next # 0 /\ g > part.next
  BY <1>2, GrantPageIs
<1>4. \A g \in Guests : granted[g] # {} => g \in Listable(z) BY <1>1 DEF Listable, Guests
<1>5. Listable(z) \subseteq Guests BY DEF Listable
<1> QED BY <1>3, <1>4, <1>5 DEF Fresh

LEMMA NextPageIsFresh ==
    ASSUME NEW known, NEW cursor, Fresh(known, cursor), NEW part, part = GrantPage(cursor), NEW k,
           k = With(known, part)
    PROVE  Fresh(k, part.next)
<1>1. /\ known = [g \in DOMAIN known |-> known[g]] /\ DOMAIN known \subseteq Guests /\ cursor \in Nat
      /\ \A g \in DOMAIN known : known[g] = granted[g]
      /\ \A g \in Guests \ DOMAIN known : granted[g] # {} => cursor # 0 /\ g > cursor
  BY DEF Fresh
<1>2. /\ DOMAIN part.known \subseteq Listable(cursor) /\ part.next \in Nat
      /\ \A g \in DOMAIN part.known : part.known[g] = granted[g]
      /\ \A g \in Listable(cursor) \ DOMAIN part.known : part.next # 0 /\ g > part.next
  BY <1>1, GrantPageIs
<1>3. PICK D, f : D = DOMAIN known \cup DOMAIN part.known /\ f = part.known OBVIOUS
<1>4. k = [g \in D |-> IF g \in DOMAIN known THEN known[g] ELSE f[g]] BY <1>3 DEF With
<1>5. DOMAIN k = D /\ k = [g \in DOMAIN k |-> k[g]] BY <1>4
<1>6. \A g \in D : k[g] = granted[g] BY <1>1, <1>2, <1>3, <1>4
<1>7. D \subseteq Guests BY <1>1, <1>2, <1>3 DEF Listable
<1>8. \A g \in Guests \ D : granted[g] # {} => g \in Listable(cursor) BY <1>1, <1>3 DEF Listable
<1>9. \A g \in Guests \ D : granted[g] # {} => part.next # 0 /\ g > part.next BY <1>2, <1>3, <1>8
<1> QED BY <1>2, <1>5, <1>6, <1>7, <1>9 DEF Fresh

(* The stations that an edit of g starts from.                             *)
LEMMA ResolvedIsRight ==
    ASSUME NEW known, NEW cursor, Fresh(known, cursor), NEW g \in Guests, Resolved(g, known, cursor)
    PROVE  (IF g \in DOMAIN known THEN known[g] ELSE {}) = granted[g]
  BY DEF Fresh, Resolved

IsAManager(m) ==
    m = [at |-> m.at, known |-> m.known, cursor |-> m.cursor, recipient |-> m.recipient, existing |-> m.existing,
         busy |-> m.busy, email |-> m.email, gen |-> m.gen, found |-> m.found, searching |-> m.searching]

IsATalk(t) ==
    /\ t = [by |-> t.by, what |-> t.what, guest |-> t.guest, set |-> t.set, known |-> t.known,
            cursor |-> t.cursor, at |-> t.at]
    /\ t.what \in {"init", "reload", "more", "walk", "write"} /\ t.set \in SUBSET Nodes

ManagerFits ==
    manager # Missing => /\ opened # 0 /\ IsAManager(manager) /\ manager.gen \in Nat
                         /\ manager.found \subseteq {manager.email}
                         /\ manager.at # "ready" => manager.recipient = 0

SeeksFit ==
    \A s \in seeks : /\ s.by \in 0 .. opened
                     /\ Active(s) => /\ s.gen \in Nat /\ s.gen <= manager.gen
                                     /\ s.gen = manager.gen => s.query = manager.email

TalksAre == \A t \in talks : IsATalk(t) /\ t.by \in 0 .. opened

(* A manager that is open waits for one answer at a time.                  *)
OneTalk ==
    /\ \A t, u \in talks : Active(t) /\ Active(u) => t = u
    /\ Idle => \A t \in talks : ~Active(t)

TalkFits(t) ==
    /\ t.what \in {"init", "reload"} => manager.recipient = 0 /\ t.cursor = 0
    /\ t.what # "init" => manager.at = "ready"
    /\ t.what = "more" => t.cursor = manager.cursor
    /\ t.what = "walk" /\ ~strays => t.guest \in Guests /\ Fresh(t.known, t.cursor)

TalksFit == \A t \in talks : Active(t) => TalkFits(t)

(* After a change was applied what the manager knows is out of date, until *)
(* it has read the grants again.                                           *)
Unsettled(t) == t.what = "reload" \/ (t.what = "write" /\ t.at = "applied")

EditRight(m) ==
    /\ Fresh(m.known, m.cursor)
    /\ m.recipient # 0 => m.recipient \in Guests /\ m.existing = granted[m.recipient]

EditFits ==
    manager # Missing /\ ~strays /\ manager.at = "ready" /\ (\A t \in talks : Active(t) => ~Unsettled(t)) =>
       EditRight(manager)

AccessInv ==
    /\ granted \in [Guests -> SUBSET Nodes] /\ opened \in Nat
    /\ ManagerFits /\ SeeksFit /\ TalksAre /\ OneTalk /\ TalksFit /\ EditFits

LEMMA FreshStays ==
    ASSUME UNCHANGED granted
    PROVE  /\ \A k, c : Fresh(k, c)' <=> Fresh(k, c)
           /\ \A m : EditRight(m)' <=> EditRight(m)
  BY DEF Fresh, EditRight

(* A step of an idle manager on its own.                                   *)
LEMMA IdleKeeps ==
    ASSUME AccessInv, Idle, UNCHANGED <<granted, opened, talks, strays>>, SeeksFit',
           NEW m, manager' = m, IsAManager(m), m.gen \in Nat, m.found \subseteq {m.email}, m.at = "ready",
           ~strays => EditRight(m)
    PROVE  AccessInv'
<1>1. opened # 0 /\ manager # Missing BY DEF AccessInv, ManagerFits, Idle
<1>2. ManagerFits' BY <1>1 DEF ManagerFits
<1>3. \A t \in talks' : ~Active(t)' BY <1>1 DEF AccessInv, OneTalk, Active
<1>4. OneTalk' /\ TalksFit' BY <1>3 DEF OneTalk, TalksFit
<1>5. ~strays => EditRight(m)' BY FreshStays
<1>6. EditFits' BY <1>5 DEF EditFits
<1>7. TalksAre' BY DEF AccessInv, TalksAre
<1> QED BY <1>2, <1>4, <1>6, <1>7 DEF AccessInv

(* An idle manager asks something.                                         *)
LEMMA AsksKeepsAccess ==
    ASSUME AccessInv, Idle, UNCHANGED <<granted, opened, strays>>, SeeksFit',
           NEW m, manager' = m, IsAManager(m), m.gen \in Nat, m.found \subseteq {m.email}, m.at = "ready", m.busy,
           m.known = manager.known, m.cursor = manager.cursor, m.recipient = manager.recipient,
           m.existing = manager.existing,
           NEW u, talks' = talks \cup {u}, IsATalk(u), u.by = opened, u.what \in {"walk", "write", "more"},
           u.at = "sent", u.what = "more" => u.cursor = m.cursor,
           u.what = "walk" /\ ~strays => u.guest \in Guests /\ Fresh(u.known, u.cursor)
    PROVE  AccessInv'
<1>1. opened # 0 /\ manager # Missing /\ manager.at = "ready" /\ opened \in Nat
  BY DEF AccessInv, ManagerFits, Idle
<1>2. ManagerFits' BY <1>1 DEF ManagerFits
<1>3. \A t \in talks : ~Active(t)' BY <1>1 DEF AccessInv, OneTalk, Active
<1>4. OneTalk' BY <1>3 DEF OneTalk, Idle
<1>5. \A k, c : Fresh(k, c)' <=> Fresh(k, c) BY FreshStays
<1>6. TalkFits(u)' BY <1>5 DEF TalkFits
<1>7. TalksFit' BY <1>3, <1>6 DEF TalksFit
<1>8. ~strays => EditRight(manager)
  BY <1>1 DEF AccessInv, OneTalk, EditFits
<1>9. ~strays => EditRight(m)' BY <1>8, FreshStays DEF EditRight
<1>10. EditFits' BY <1>9 DEF EditFits
<1>11. TalksAre' BY <1>1 DEF AccessInv, TalksAre
<1> QED BY <1>2, <1>4, <1>7, <1>10, <1>11 DEF AccessInv

(* The talk of a manager ends: what is left of it is no longer the         *)
(* manager's.                                                              *)
LEMMA EndsKeepsAccess ==
    ASSUME AccessInv, NEW t \in talks, Active(t), UNCHANGED <<granted, opened, seeks>>,
           NEW Z, talks' = (talks \ {t}) \cup Z, \A z \in Z : IsATalk(z) /\ z.by = 0,
           NEW m, manager' = m, IsAManager(m), m.gen = manager.gen, m.email = manager.email,
           m.found \subseteq {m.email}, m.at # "ready" => m.recipient = 0,
           ~strays' /\ m.at = "ready" => EditRight(m)
    PROVE  AccessInv'
<1>1. opened # 0 /\ manager # Missing /\ opened \in Nat /\ manager.gen \in Nat
  BY DEF AccessInv, ManagerFits, Active
<1>2. ManagerFits' BY <1>1 DEF ManagerFits
<1>3. \A x \in talks' : ~Active(x)' BY <1>1 DEF AccessInv, OneTalk, Active
<1>4. OneTalk' /\ TalksFit' BY <1>3 DEF OneTalk, TalksFit
<1>5. ~strays' /\ m.at = "ready" => EditRight(m)' BY FreshStays
<1>6. EditFits' BY <1>5 DEF EditFits
<1>7. TalksAre' BY <1>1 DEF AccessInv, TalksAre
<1>8. SeeksFit' BY <1>1 DEF AccessInv, SeeksFit, Active
<1> QED BY <1>2, <1>4, <1>6, <1>7, <1>8 DEF AccessInv

LEMMA EndsAlone ==
    ASSUME AccessInv, NEW t \in talks, Active(t), UNCHANGED <<granted, opened, seeks, strays>>, talks' = talks \ {t},
           NEW m, manager' = m, IsAManager(m), m.gen = manager.gen, m.email = manager.email,
           m.found \subseteq {m.email}, m.at # "ready" => m.recipient = 0,
           ~strays /\ m.at = "ready" => EditRight(m)
    PROVE  AccessInv'
<1>1. PICK Z : Z = {} OBVIOUS
<1>2. talks' = (talks \ {t}) \cup Z /\ \A z \in Z : IsATalk(z) /\ z.by = 0 BY <1>1
<1>3. ~strays' /\ m.at = "ready" => EditRight(m) OBVIOUS
<1> QED BY <1>2, <1>3, EndsKeepsAccess

LEMMA IdleIsRight ==
    ASSUME AccessInv, Idle
    PROVE  /\ manager # Missing /\ opened # 0 /\ opened \in Nat /\ IsAManager(manager) /\ manager.gen \in Nat
           /\ manager.found \subseteq {manager.email} /\ manager.at = "ready"
           /\ ~strays => EditRight(manager)
  BY DEF AccessInv, ManagerFits, OneTalk, EditFits, Idle

LEMMA OpenAccessKeeps ==
    ASSUME AccessInv, OpenAccess
    PROVE  AccessInv'
<1>1. /\ manager = Missing /\ opened \in Nat /\ opened' = opened + 1 /\ UNCHANGED <<granted, seeks>>
  BY DEF OpenAccess, AccessInv
<1>2. PICK m : m = [at |-> "loading", known |-> NoGrants, cursor |-> 0, recipient |-> 0, existing |-> {},
                    busy |-> FALSE, email |-> Missing, gen |-> 0, found |-> {}, searching |-> FALSE]
  OBVIOUS
<1>3. manager' = m BY <1>2 DEF OpenAccess
<1>4. /\ IsAManager(m) /\ m.at = "loading" /\ m.recipient = 0 /\ m.gen = 0 /\ m.found = {}
  BY <1>2 DEF IsAManager
<1>5. PICK n \in Nat : n = opened + 1 BY <1>1
<1>6. PICK u : u = [Talk("init", 0, {}, NoGrants, 0) EXCEPT !.by = n] OBVIOUS
<1>7. u = [by |-> n, what |-> "init", guest |-> 0, set |-> {}, known |-> NoGrants, cursor |-> 0, at |-> "sent"]
  BY <1>6 DEF Talk
<1>8. IsATalk(u) /\ u.by = n /\ u.what = "init" /\ u.cursor = 0 BY <1>7 DEF IsATalk
<1>9. talks' = talks \cup {u} BY <1>5, <1>6 DEF OpenAccess
<1>10. ManagerFits' BY <1>1, <1>3, <1>4 DEF ManagerFits
<1>11. \A s \in seeks : s.by \in 0 .. opened BY DEF AccessInv, SeeksFit
<1>12. SeeksFit' BY <1>1, <1>11 DEF SeeksFit, Active
<1>13. \A t \in talks : IsATalk(t) /\ t.by \in 0 .. opened BY DEF AccessInv, TalksAre
<1>14. TalksAre' BY <1>1, <1>5, <1>8, <1>9, <1>13 DEF TalksAre
<1>15. \A t \in talks' : Active(t)' => t = u BY <1>1, <1>9, <1>13 DEF Active
<1>16. OneTalk' BY <1>3, <1>4, <1>15 DEF OneTalk, Idle
<1>17. TalksFit' BY <1>3, <1>4, <1>8, <1>15 DEF TalksFit, TalkFits
<1>18. EditFits' BY <1>3, <1>4 DEF EditFits
<1> QED BY <1>1, <1>5, <1>10, <1>12, <1>14, <1>16, <1>17, <1>18 DEF AccessInv

LEMMA CloseAccessKeeps ==
    ASSUME AccessInv, CloseAccess
    PROVE  AccessInv'
<1>1. manager' = Missing /\ UNCHANGED <<granted, opened, talks, seeks>> BY DEF CloseAccess
<1> QED BY <1>1 DEF AccessInv, ManagerFits, SeeksFit, TalksAre, OneTalk, TalksFit, EditFits, Active, Idle

(* What the steps of the manager make of it.                               *)
Typed(x, q, n) == [x EXCEPT !.email = q, !.gen = n, !.found = {}, !.searching = FALSE]

Sought(x, n) == [x EXCEPT !.gen = n, !.searching = TRUE]

FoundIn(x, F) == [x EXCEPT !.searching = FALSE, !.found = F]

LEMMA TypedIs ==
    ASSUME NEW x, IsAManager(x), NEW q, NEW n, NEW y, y = Typed(x, q, n)
    PROVE  /\ IsAManager(y) /\ y.gen = n /\ y.email = q /\ y.found = {}
           /\ y.at = x.at /\ y.known = x.known /\ y.cursor = x.cursor /\ y.recipient = x.recipient
           /\ y.existing = x.existing
<1>1. y = [at |-> x.at, known |-> x.known, cursor |-> x.cursor, recipient |-> x.recipient, existing |-> x.existing,
           busy |-> x.busy, email |-> q, gen |-> n, found |-> {}, searching |-> FALSE]
  BY DEF IsAManager, Typed
<1> QED BY <1>1 DEF IsAManager

LEMMA SoughtIs ==
    ASSUME NEW x, IsAManager(x), NEW n, NEW y, y = Sought(x, n)
    PROVE  /\ IsAManager(y) /\ y.gen = n /\ y.email = x.email /\ y.found = x.found
           /\ y.at = x.at /\ y.known = x.known /\ y.cursor = x.cursor /\ y.recipient = x.recipient
           /\ y.existing = x.existing
<1>1. y = [at |-> x.at, known |-> x.known, cursor |-> x.cursor, recipient |-> x.recipient, existing |-> x.existing,
           busy |-> x.busy, email |-> x.email, gen |-> n, found |-> x.found, searching |-> TRUE]
  BY DEF IsAManager, Sought
<1> QED BY <1>1 DEF IsAManager

LEMMA FoundInIs ==
    ASSUME NEW x, IsAManager(x), NEW F, NEW y, y = FoundIn(x, F)
    PROVE  /\ IsAManager(y) /\ y.gen = x.gen /\ y.email = x.email /\ y.found = F /\ y.busy = x.busy
           /\ y.at = x.at /\ y.known = x.known /\ y.cursor = x.cursor /\ y.recipient = x.recipient
           /\ y.existing = x.existing
<1>1. y = [at |-> x.at, known |-> x.known, cursor |-> x.cursor, recipient |-> x.recipient, existing |-> x.existing,
           busy |-> x.busy, email |-> x.email, gen |-> x.gen, found |-> F, searching |-> FALSE]
  BY DEF IsAManager, FoundIn
<1> QED BY <1>1 DEF IsAManager

LEMMA TypeEmailKeeps ==
    ASSUME AccessInv, NEW q, TypeEmail(q)
    PROVE  AccessInv'
<1>t. /\ Idle /\ IsAManager(manager) /\ manager.gen \in Nat /\ manager.at = "ready" /\ manager # Missing
      /\ ~strays => EditRight(manager)
      /\ UNCHANGED <<granted, opened, talks, seeks, strays>>
  BY IdleIsRight DEF TypeEmail
<1>1. PICK n : n = manager.gen + 1 OBVIOUS
<1>2. PICK m : m = manager' OBVIOUS
<1>3. m = Typed(manager, q, n) BY <1>1, <1>2 DEF TypeEmail, Typed
<1>4. /\ IsAManager(m) /\ m.gen = n /\ m.email = q /\ m.found = {} /\ m.at = manager.at
      /\ m.known = manager.known /\ m.cursor = manager.cursor /\ m.recipient = manager.recipient
      /\ m.existing = manager.existing
  BY <1>t, <1>3, TypedIs
<1>5. \A s \in seeks : s.by \in 0 .. opened /\ (Active(s) => s.gen \in Nat /\ s.gen <= manager.gen)
  BY DEF AccessInv, SeeksFit
<1>6. SeeksFit' BY <1>t, <1>1, <1>2, <1>4, <1>5 DEF SeeksFit, Active
<1>7. ~strays => EditRight(m) BY <1>t, <1>4 DEF EditRight
<1>8. n \in Nat BY <1>t, <1>1
<1> QED BY <1>t, <1>2, <1>4, <1>6, <1>7, <1>8, IdleKeeps

LEMMA SearchKeeps ==
    ASSUME AccessInv, NEW more, Search(more)
    PROVE  AccessInv'
<1>t. /\ Idle /\ IsAManager(manager) /\ manager.gen \in Nat /\ manager.at = "ready" /\ manager # Missing
      /\ ~strays => EditRight(manager)
      /\ manager.found \subseteq {manager.email} /\ opened \in Nat
      /\ UNCHANGED <<granted, opened, talks, strays>>
  BY IdleIsRight DEF Search
<1>1. PICK n : n = manager.gen + 1 OBVIOUS
<1>2. PICK m : m = manager' OBVIOUS
<1>3. m = Sought(manager, n) BY <1>1, <1>2 DEF Search, Sought
<1>4. /\ IsAManager(m) /\ m.gen = n /\ m.email = manager.email /\ m.found = manager.found /\ m.at = manager.at
      /\ m.known = manager.known /\ m.cursor = manager.cursor /\ m.recipient = manager.recipient
      /\ m.existing = manager.existing
  BY <1>t, <1>3, SoughtIs
<1>5. PICK k : k = [by |-> opened, gen |-> n, query |-> manager.email, more |-> more] OBVIOUS
<1>6. seeks' = seeks \cup {k} BY <1>1, <1>5 DEF Search
<1>7. k.by = opened /\ k.gen = n /\ k.query = manager.email BY <1>5
<1>8. n \in Nat /\ manager.gen < n BY <1>t, <1>1
<1>9. \A s \in seeks : s.by \in 0 .. opened /\ (Active(s) => s.gen \in Nat /\ s.gen <= manager.gen)
  BY DEF AccessInv, SeeksFit
<1>10. SeeksFit'
  <2> SUFFICES ASSUME NEW s \in seeks'
               PROVE  /\ s.by \in 0 .. opened
                      /\ Active(s)' => s.gen \in Nat /\ s.gen <= n /\ (s.gen = n => s.query = m.email)
    BY <1>t, <1>2, <1>4 DEF SeeksFit
  <2>1. CASE s = k BY <1>t, <1>4, <1>7, <1>8, <2>1
  <2>2. CASE s \in seeks BY <1>t, <1>8, <1>9, <2>2 DEF Active
  <2> QED BY <1>6, <2>1, <2>2
<1>11. ~strays => EditRight(m) BY <1>t, <1>4 DEF EditRight
<1> QED BY <1>t, <1>2, <1>4, <1>8, <1>10, <1>11, IdleKeeps

LEMMA SearchArrivesKeeps ==
    ASSUME AccessInv, NEW s \in seeks, SearchArrives(s)
    PROVE  AccessInv'
<1>t. seeks' = seeks \ {s} /\ UNCHANGED <<granted, opened, talks, strays>> BY DEF SearchArrives
<1>1. CASE UNCHANGED manager
  <2>1. SeeksFit' BY <1>t, <1>1 DEF AccessInv, SeeksFit, Active
  <2>2. /\ ManagerFits' /\ TalksAre' /\ OneTalk'
    BY <1>t, <1>1 DEF AccessInv, ManagerFits, TalksAre, OneTalk, Active, Idle
  <2>3. TalksFit' /\ EditFits'
    BY <1>t, <1>1, FreshStays DEF AccessInv, TalksFit, TalkFits, EditFits, Active
  <2> QED BY <1>t, <2>1, <2>2, <2>3 DEF AccessInv
<1>2. CASE Active(s) /\ s.gen = manager.gen
  <2>1. /\ manager # Missing /\ IsAManager(manager) /\ manager.gen \in Nat /\ s.query = manager.email
        /\ manager.found \subseteq {manager.email}
    BY <1>2 DEF AccessInv, ManagerFits, SeeksFit, Active
  <2>2. PICK F : /\ F \subseteq {manager.email}
                 /\ manager' = [manager EXCEPT !.searching = FALSE, !.found = F]
    <3>1. CASE manager' = [manager EXCEPT !.searching = FALSE,
                                !.found = IF s.more THEN @ \cup {s.query} ELSE {s.query}]
      BY <2>1, <3>1
    <3>2. CASE manager' = [manager EXCEPT !.searching = FALSE]
      <4>1. manager' = [manager EXCEPT !.searching = FALSE, !.found = manager.found]
        BY <2>1, <3>2 DEF IsAManager
      <4> QED BY <2>1, <4>1
    <3> QED BY <1>2, <3>1, <3>2 DEF SearchArrives
  <2>3. PICK m : m = manager' OBVIOUS
  <2>4. m = FoundIn(manager, F) BY <2>2, <2>3 DEF FoundIn
  <2>5. /\ IsAManager(m) /\ m.gen = manager.gen /\ m.email = manager.email /\ m.found = F /\ m.at = manager.at
        /\ m.known = manager.known /\ m.cursor = manager.cursor /\ m.recipient = manager.recipient
        /\ m.existing = manager.existing /\ m.busy = manager.busy
    BY <2>1, <2>4, FoundInIs
  <2>6. SeeksFit' BY <1>t, <2>1, <2>3, <2>5 DEF AccessInv, SeeksFit, Active
  <2>7. ManagerFits' BY <1>t, <2>1, <2>2, <2>3, <2>5 DEF AccessInv, ManagerFits
  <2>8. \A t \in talks : Active(t)' => Active(t) BY <1>t, <2>1 DEF Active
  <2>9. Idle' => Idle BY <2>1, <2>3, <2>5 DEF Idle
  <2>10. OneTalk' BY <1>t, <2>8, <2>9 DEF AccessInv, OneTalk
  <2>11. TalksFit' BY <1>t, <2>3, <2>5, <2>8, FreshStays DEF AccessInv, TalksFit, TalkFits
  <2>12. EditFits'
    <3> SUFFICES ASSUME manager' # Missing, ~strays, m.at = "ready", \A t \in talks : Active(t)' => ~Unsettled(t)
                 PROVE  EditRight(m)'
      BY <1>t, <2>3 DEF EditFits
    <3>1. \A t \in talks : Active(t) => Active(t)' BY <1>t DEF Active
    <3>2. EditRight(manager) BY <2>1, <2>5, <3>1 DEF AccessInv, EditFits
    <3>3. EditRight(m) BY <2>5, <3>2 DEF EditRight
    <3> QED BY <1>t, <3>3, FreshStays
  <2>13. TalksAre' BY <1>t DEF AccessInv, TalksAre
  <2> QED BY <1>t, <2>6, <2>7, <2>10, <2>11, <2>12, <2>13 DEF AccessInv
<1> QED BY <1>1, <1>2 DEF SearchArrives

LEMMA CancelEditKeeps ==
    ASSUME AccessInv, CancelEdit
    PROVE  AccessInv'
<1>t. /\ Idle /\ IsAManager(manager) /\ manager.gen \in Nat /\ manager.at = "ready" /\ manager # Missing
      /\ ~strays => EditRight(manager)
      /\ manager.found \subseteq {manager.email}
      /\ UNCHANGED <<granted, opened, talks, seeks, strays>>
  BY IdleIsRight DEF CancelEdit
<1>1. PICK m : m = [at |-> manager.at, known |-> manager.known, cursor |-> manager.cursor,
                    recipient |-> 0, existing |-> manager.existing, busy |-> manager.busy,
                    email |-> manager.email, gen |-> manager.gen, found |-> manager.found,
                    searching |-> manager.searching]
  OBVIOUS
<1>2. manager' = m BY <1>t, <1>1 DEF CancelEdit, IsAManager
<1>3. /\ IsAManager(m) /\ m.gen = manager.gen /\ m.email = manager.email /\ m.found = manager.found
      /\ m.at = manager.at /\ m.known = manager.known /\ m.cursor = manager.cursor /\ m.recipient = 0
  BY <1>1 DEF IsAManager
<1>4. SeeksFit' BY <1>t, <1>2, <1>3 DEF AccessInv, SeeksFit, Active
<1>5. ~strays => EditRight(m) BY <1>t, <1>3 DEF EditRight
<1> QED BY <1>t, <1>2, <1>3, <1>4, <1>5, IdleKeeps

Turned(x, n) == [x EXCEPT !.gen = n, !.searching = FALSE]

Busied(x) == [x EXCEPT !.busy = TRUE]

LEMMA TurnedIs ==
    ASSUME NEW x, IsAManager(x), NEW n, NEW y, y = Turned(x, n)
    PROVE  /\ IsAManager(y) /\ y.gen = n /\ y.email = x.email /\ y.found = x.found
           /\ y.at = x.at /\ y.known = x.known /\ y.cursor = x.cursor /\ y.recipient = x.recipient
           /\ y.existing = x.existing
<1>1. y = [at |-> x.at, known |-> x.known, cursor |-> x.cursor, recipient |-> x.recipient, existing |-> x.existing,
           busy |-> x.busy, email |-> x.email, gen |-> n, found |-> x.found, searching |-> FALSE]
  BY DEF IsAManager, Turned
<1> QED BY <1>1 DEF IsAManager

LEMMA BusiedIs ==
    ASSUME NEW x, IsAManager(x), NEW y, y = Busied(x)
    PROVE  /\ IsAManager(y) /\ y.gen = x.gen /\ y.email = x.email /\ y.found = x.found /\ y.busy
           /\ y.at = x.at /\ y.known = x.known /\ y.cursor = x.cursor /\ y.recipient = x.recipient
           /\ y.existing = x.existing
<1>1. y = [at |-> x.at, known |-> x.known, cursor |-> x.cursor, recipient |-> x.recipient, existing |-> x.existing,
           busy |-> TRUE, email |-> x.email, gen |-> x.gen, found |-> x.found, searching |-> x.searching]
  BY DEF IsAManager, Busied
<1>2. y.busy = TRUE BY <1>1
<1> QED BY <1>1, <1>2 DEF IsAManager

LEMMA EditsIs ==
    ASSUME NEW x, IsAManager(x), NEW g, NEW known, NEW cursor, NEW y, y = Edits(x, g, known, cursor)
    PROVE  /\ IsAManager(y) /\ y.gen = x.gen /\ y.email = x.email /\ y.found = {} /\ y.at = x.at
           /\ y.known = known /\ y.cursor = cursor /\ y.recipient = g
           /\ y.existing = IF g \in DOMAIN known THEN known[g] ELSE {}
<1>1. PICK e : e = IF g \in DOMAIN known THEN known[g] ELSE {} OBVIOUS
<1>2. y = [x EXCEPT !.known = known, !.cursor = cursor, !.recipient = g, !.found = {}, !.busy = FALSE, !.existing = e]
  BY <1>1 DEF Edits
<1>3. y = [at |-> x.at, known |-> known, cursor |-> cursor, recipient |-> g, existing |-> e,
           busy |-> FALSE, email |-> x.email, gen |-> x.gen, found |-> {}, searching |-> x.searching]
  BY <1>2 DEF IsAManager
<1> QED BY <1>1, <1>3 DEF IsAManager

LEMMA TalkIs ==
    ASSUME NEW what, NEW g, NEW set, NEW known, NEW cursor, NEW u, u = Talk(what, g, set, known, cursor),
           what \in {"init", "reload", "more", "walk", "write"}, set \in SUBSET Nodes
    PROVE  /\ IsATalk(u) /\ u.by = opened /\ u.what = what /\ u.guest = g /\ u.cursor = cursor /\ u.known = known
           /\ u.at = "sent"
<1>1. u = [by |-> opened, what |-> what, guest |-> g, set |-> set, known |-> known, cursor |-> cursor, at |-> "sent"]
  BY DEF Talk
<1> QED BY <1>1 DEF IsATalk

LEMMA SelectRecipientKeeps ==
    ASSUME AccessInv, NEW g \in Guests, SelectRecipient(g)
    PROVE  AccessInv'
<1>t. /\ Idle /\ IsAManager(manager) /\ manager.gen \in Nat /\ manager.at = "ready" /\ manager # Missing
      /\ ~strays => EditRight(manager)
      /\ manager.found \subseteq {manager.email}
      /\ UNCHANGED <<granted, opened, seeks, strays>>
  BY IdleIsRight DEF SelectRecipient
<1>1. PICK n : n = manager.gen + 1 OBVIOUS
<1>2. n \in Nat /\ manager.gen < n BY <1>t, <1>1
<1>3. PICK x : x = Turned(manager, n) OBVIOUS
<1>4. /\ IsAManager(x) /\ x.gen = n /\ x.email = manager.email /\ x.found = manager.found /\ x.at = manager.at
      /\ x.known = manager.known /\ x.cursor = manager.cursor /\ x.recipient = manager.recipient
      /\ x.existing = manager.existing
  BY <1>t, <1>3, TurnedIs
<1>5. IF Resolved(g, x.known, x.cursor)
      THEN manager' = Edits(x, g, x.known, x.cursor) /\ UNCHANGED talks
      ELSE /\ manager' = Busied(x)
           /\ talks' = talks \cup {Talk("walk", g, {}, x.known, x.cursor)}
  BY <1>1, <1>3 DEF SelectRecipient, Turned, Busied
<1>6. \A s \in seeks : s.by \in 0 .. opened /\ (Active(s) => s.gen \in Nat /\ s.gen <= manager.gen)
  BY DEF AccessInv, SeeksFit
<1>7. PICK m : m = manager' OBVIOUS
<1>8. ASSUME m.gen = n PROVE SeeksFit'
  BY <1>t, <1>2, <1>6, <1>7, <1>8 DEF SeeksFit, Active
<1>9. CASE Resolved(g, x.known, x.cursor)
  <2>1. m = Edits(x, g, x.known, x.cursor) /\ UNCHANGED talks BY <1>5, <1>7, <1>9
  <2>2. /\ IsAManager(m) /\ m.gen = n /\ m.found = {} /\ m.at = manager.at
        /\ m.known = x.known /\ m.cursor = x.cursor /\ m.recipient = g
        /\ m.existing = IF g \in DOMAIN x.known THEN x.known[g] ELSE {}
    BY <1>4, <2>1, EditsIs
  <2>3. ~strays => EditRight(m)
    <3> SUFFICES ASSUME ~strays PROVE EditRight(m) OBVIOUS
    <3>1. Fresh(x.known, x.cursor) BY <1>t, <1>4 DEF EditRight
    <3>2. m.existing = granted[g] BY <1>9, <2>2, <3>1, ResolvedIsRight
    <3> QED BY <2>2, <3>1, <3>2 DEF EditRight
  <2>4. SeeksFit' BY <1>8, <2>2
  <2> QED BY <1>t, <1>2, <1>7, <2>1, <2>2, <2>3, <2>4, IdleKeeps
<1>10. CASE ~Resolved(g, x.known, x.cursor)
  <2>1. m = Busied(x) BY <1>5, <1>7, <1>10
  <2>2. /\ IsAManager(m) /\ m.gen = n /\ m.email = x.email /\ m.found = x.found /\ m.busy /\ m.at = x.at
        /\ m.known = x.known /\ m.cursor = x.cursor /\ m.recipient = x.recipient /\ m.existing = x.existing
    BY <1>4, <2>1, BusiedIs
  <2>3. PICK u : u = Talk("walk", g, {}, x.known, x.cursor) OBVIOUS
  <2>4. talks' = talks \cup {u} BY <1>5, <1>10, <2>3
  <2>5. IsATalk(u) /\ u.by = opened /\ u.what = "walk" /\ u.guest = g /\ u.cursor = x.cursor /\ u.known = x.known
        /\ u.at = "sent"
    BY <2>3, TalkIs
  <2>6. u.what = "walk" /\ ~strays => u.guest \in Guests /\ Fresh(u.known, u.cursor)
    BY <1>t, <1>4, <2>5 DEF EditRight
  <2>7. SeeksFit' BY <1>8, <2>2
  <2>8. u.what = "more" => u.cursor = m.cursor BY <2>5
  <2>9. u.what \in {"walk", "write", "more"} BY <2>5
  <2> QED BY <1>t, <1>2, <1>4, <1>7, <2>2, <2>4, <2>5, <2>6, <2>7, <2>8, <2>9, AsksKeepsAccess
<1> QED BY <1>9, <1>10

(* A change and a further page are asked for by an idle manager.           *)
LEMMA TalkKeeps ==
    ASSUME AccessInv, Idle, manager' = Busied(manager), UNCHANGED <<granted, opened, seeks, strays>>,
           NEW u, talks' = talks \cup {u}, IsATalk(u), u.by = opened, u.what \in {"write", "more"}, u.at = "sent",
           u.what = "more" => u.cursor = manager.cursor
    PROVE  AccessInv'
<1>1. /\ IsAManager(manager) /\ manager.gen \in Nat /\ manager.at = "ready" /\ manager # Missing
      /\ manager.found \subseteq {manager.email}
  BY IdleIsRight
<1>2. PICK m : m = manager' OBVIOUS
<1>3. /\ IsAManager(m) /\ m.gen = manager.gen /\ m.email = manager.email /\ m.found = manager.found /\ m.busy
      /\ m.at = manager.at /\ m.known = manager.known /\ m.cursor = manager.cursor
      /\ m.recipient = manager.recipient /\ m.existing = manager.existing
  BY <1>1, <1>2, BusiedIs
<1>4. SeeksFit' BY <1>1, <1>2, <1>3 DEF AccessInv, SeeksFit, Active
<1>5. u.what \in {"walk", "write", "more"} OBVIOUS
<1>6. u.what = "more" => u.cursor = m.cursor BY <1>3
<1>7. u.what = "walk" /\ ~strays => u.guest \in Guests /\ Fresh(u.known, u.cursor) OBVIOUS
<1> QED BY <1>1, <1>2, <1>3, <1>4, <1>5, <1>6, <1>7, AsksKeepsAccess

LEMMA SaveKeeps ==
    ASSUME AccessInv, NEW set \in SUBSET Nodes, Save(set)
    PROVE  AccessInv'
<1>1. PICK r, u : r = manager.recipient /\ u = Talk("write", r, set, NoGrants, 0) OBVIOUS
<1>2. /\ IsATalk(u) /\ u.by = opened /\ u.what = "write" /\ u.at = "sent" BY <1>1, TalkIs
<1>3. talks' = talks \cup {u} /\ Idle /\ UNCHANGED <<granted, opened, seeks, strays>> BY <1>1 DEF Save
<1>4. manager' = Busied(manager) BY DEF Save, Busied
<1>5. u.what \in {"write", "more"} /\ (u.what = "more" => u.cursor = manager.cursor) BY <1>2
<1> QED BY <1>2, <1>3, <1>4, <1>5, TalkKeeps

LEMMA LoadMoreGrantsKeeps ==
    ASSUME AccessInv, LoadMoreGrants
    PROVE  AccessInv'
<1>1. PICK c, u : c = manager.cursor /\ u = Talk("more", 0, {}, NoGrants, c) OBVIOUS
<1>2. /\ IsATalk(u) /\ u.by = opened /\ u.what = "more" /\ u.at = "sent" /\ u.cursor = c BY <1>1, TalkIs
<1>3. talks' = talks \cup {u} /\ Idle /\ UNCHANGED <<granted, opened, seeks, strays>> BY <1>1 DEF LoadMoreGrants
<1>4. manager' = Busied(manager) BY DEF LoadMoreGrants, Busied
<1>5. u.what \in {"write", "more"} /\ (u.what = "more" => u.cursor = manager.cursor) BY <1>1, <1>2
<1> QED BY <1>2, <1>3, <1>4, <1>5, TalkKeeps

(* What the answers make of a talk and of the manager.                     *)
AnsweredAs(x, a) == [x EXCEPT !.at = a]

Walked(x, known, cursor) == [x EXCEPT !.known = known, !.cursor = cursor]

Orphaned(x) == [x EXCEPT !.by = 0]

LEMMA AnsweredIs ==
    ASSUME NEW x, IsATalk(x), NEW a, NEW y, y = AnsweredAs(x, a)
    PROVE  /\ IsATalk(y) /\ y.by = x.by /\ y.what = x.what /\ y.guest = x.guest /\ y.cursor = x.cursor
           /\ y.known = x.known /\ y.at = a
<1>1. y = [by |-> x.by, what |-> x.what, guest |-> x.guest, set |-> x.set, known |-> x.known, cursor |-> x.cursor,
           at |-> a]
  BY DEF IsATalk, AnsweredAs
<1> QED BY <1>1 DEF IsATalk

LEMMA WalkedIs ==
    ASSUME NEW x, IsATalk(x), NEW k, NEW c, NEW y, y = Walked(x, k, c)
    PROVE  /\ IsATalk(y) /\ y.by = x.by /\ y.what = x.what /\ y.guest = x.guest /\ y.cursor = c
           /\ y.known = k /\ y.at = x.at
<1>1. y = [by |-> x.by, what |-> x.what, guest |-> x.guest, set |-> x.set, known |-> k, cursor |-> c, at |-> x.at]
  BY DEF IsATalk, Walked
<1> QED BY <1>1 DEF IsATalk

LEMMA OrphanedIs ==
    ASSUME NEW x, IsATalk(x), NEW y, y = Orphaned(x)
    PROVE  IsATalk(y) /\ y.by = 0
<1>1. y = [by |-> 0, what |-> x.what, guest |-> x.guest, set |-> x.set, known |-> x.known, cursor |-> x.cursor,
           at |-> x.at]
  BY DEF IsATalk, Orphaned
<1> QED BY <1>1 DEF IsATalk

Freed(x, at, known, cursor) == [x EXCEPT !.busy = FALSE, !.at = at, !.known = known, !.cursor = cursor]

Dismissed(x) == [x EXCEPT !.recipient = 0]

LEMMA FreedIs ==
    ASSUME NEW x, IsAManager(x), NEW at, NEW known, NEW cursor, NEW y, y = Freed(x, at, known, cursor)
    PROVE  /\ IsAManager(y) /\ y.gen = x.gen /\ y.email = x.email /\ y.found = x.found
           /\ y.at = at /\ y.known = known /\ y.cursor = cursor /\ y.recipient = x.recipient
           /\ y.existing = x.existing
<1>1. y = [at |-> at, known |-> known, cursor |-> cursor, recipient |-> x.recipient, existing |-> x.existing,
           busy |-> FALSE, email |-> x.email, gen |-> x.gen, found |-> x.found, searching |-> x.searching]
  BY DEF IsAManager, Freed
<1> QED BY <1>1 DEF IsAManager

LEMMA FreedOnly ==
    ASSUME NEW x, IsAManager(x)
    PROVE  [x EXCEPT !.busy = FALSE] = Freed(x, x.at, x.known, x.cursor)
<1>1. PICK y : y = [x EXCEPT !.busy = FALSE] OBVIOUS
<1>2. PICK z : z = Freed(x, x.at, x.known, x.cursor) OBVIOUS
<1>3. y = [at |-> x.at, known |-> x.known, cursor |-> x.cursor, recipient |-> x.recipient, existing |-> x.existing,
           busy |-> FALSE, email |-> x.email, gen |-> x.gen, found |-> x.found, searching |-> x.searching]
  BY <1>1 DEF IsAManager
<1>4. z = [at |-> x.at, known |-> x.known, cursor |-> x.cursor, recipient |-> x.recipient, existing |-> x.existing,
           busy |-> FALSE, email |-> x.email, gen |-> x.gen, found |-> x.found, searching |-> x.searching]
  BY <1>2 DEF IsAManager, Freed
<1> QED BY <1>1, <1>2, <1>3, <1>4

LEMMA DismissedIs ==
    ASSUME NEW x, IsAManager(x), NEW y, y = Dismissed(x)
    PROVE  /\ IsAManager(y) /\ y.gen = x.gen /\ y.email = x.email /\ y.found = x.found /\ y.at = x.at
           /\ y.known = x.known /\ y.cursor = x.cursor /\ y.recipient = 0 /\ y.busy = x.busy
<1>1. y = [at |-> x.at, known |-> x.known, cursor |-> x.cursor, recipient |-> 0, existing |-> x.existing,
           busy |-> x.busy, email |-> x.email, gen |-> x.gen, found |-> x.found, searching |-> x.searching]
  BY DEF IsAManager, Dismissed
<1> QED BY <1>1 DEF IsAManager

(* The talk that a manager waits in is the only one: what it knows is      *)
(* right unless that one unsettles it.                                     *)
LEMMA TalkingIsRight ==
    ASSUME AccessInv, NEW t \in talks, Active(t)
    PROVE  /\ manager # Missing /\ opened # 0 /\ IsAManager(manager) /\ IsATalk(t) /\ TalkFits(t) /\ ~Idle
           /\ manager.found \subseteq {manager.email}
           /\ ~strays /\ manager.at = "ready" /\ ~Unsettled(t) => EditRight(manager)
<1>1. \A u \in talks : Active(u) => u = t BY DEF AccessInv, OneTalk
<1>2. ~strays /\ manager.at = "ready" /\ ~Unsettled(t) => EditRight(manager)
  BY <1>1 DEF AccessInv, EditFits, Active
<1> QED BY <1>2 DEF AccessInv, ManagerFits, TalksAre, TalksFit, OneTalk, Active

LEMMA ServeSaveKeeps ==
    ASSUME AccessInv, NEW t \in talks, ServeSave(t)
    PROVE  AccessInv'
<1>t. IsATalk(t) /\ t.what = "write" /\ t.at = "sent" /\ UNCHANGED <<manager, opened, seeks>>
  BY DEF AccessInv, TalksAre, ServeSave
<1>1. ManagerFits' /\ SeeksFit' BY <1>t DEF AccessInv, ManagerFits, SeeksFit, Active
<1>2. ASSUME NEW a, NEW u, u = AnsweredAs(t, a),
             talks' = (talks \ {t}) \cup IF t.by = 0 THEN {} ELSE {u}
      PROVE  /\ TalksAre' /\ OneTalk'
             /\ \A x \in talks' : Active(x)' =>
                  (x = u /\ Active(t) /\ u.what = "write" /\ u.at = a) \/ (x \in talks \ {t} /\ Active(x))
             /\ Active(t) => t.by # 0 /\ Active(u)'
  <2>1. IsATalk(u) /\ u.by = t.by /\ u.what = t.what /\ u.at = a BY <1>t, <1>2, AnsweredIs
  <2>2. TalksAre' BY <1>t, <1>2, <2>1 DEF AccessInv, TalksAre
  <2>3. \A x : Active(x)' <=> Active(x) BY <1>t DEF Active
  <2>4. Active(u) <=> Active(t) BY <2>1 DEF Active
  <2>5. OneTalk' BY <1>t, <1>2, <2>3, <2>4 DEF AccessInv, OneTalk, Idle
  <2>6. Active(t) => t.by # 0 BY DEF AccessInv, ManagerFits, Active
  <2> QED BY <1>t, <1>2, <2>1, <2>2, <2>3, <2>4, <2>5, <2>6
<1>3. CASE /\ granted' = [granted EXCEPT ![t.guest] = t.set]
           /\ talks' = (talks \ {t}) \cup (IF t.by = 0 THEN {} ELSE {[t EXCEPT !.at = "applied"]})
           /\ strays' = (strays \/ ~Active(t))
  <2>1. PICK u : u = AnsweredAs(t, "applied") OBVIOUS
  <2>2. talks' = (talks \ {t}) \cup IF t.by = 0 THEN {} ELSE {u} BY <1>3, <2>1 DEF AnsweredAs
  <2>3. /\ TalksAre' /\ OneTalk'
        /\ \A x \in talks' : Active(x)' =>
             (x = u /\ Active(t) /\ u.what = "write" /\ u.at = "applied") \/ (x \in talks \ {t} /\ Active(x))
        /\ Active(t) => t.by # 0 /\ Active(u)'
    BY <1>2, <2>1, <2>2
  <2>4. granted' \in [Guests -> SUBSET Nodes]
    <3>1. t.set \in SUBSET Nodes /\ granted \in [Guests -> SUBSET Nodes] BY <1>t DEF AccessInv, IsATalk
    <3>2. granted' = [granted EXCEPT ![t.guest] = t.set] BY <1>3
    <3> QED BY <3>1, <3>2
  <2>5. TalksFit'
    <3> SUFFICES ASSUME NEW x \in talks', Active(x)' PROVE TalkFits(x)' BY DEF TalksFit
    <3>1. CASE x = u /\ Active(t) /\ u.what = "write" /\ u.at = "applied"
      <4>1. manager.at = "ready" BY <1>t, <3>1, TalkingIsRight DEF TalkFits
      <4> QED BY <1>t, <3>1, <4>1 DEF TalkFits
    <3>2. CASE x \in talks \ {t} /\ Active(x)
      <4>1. TalkFits(x) BY <3>2 DEF AccessInv, TalksFit
      <4>2. ~Active(t) BY <3>2 DEF AccessInv, OneTalk
      <4>3. strays' BY <1>3, <4>2
      <4> QED BY <1>t, <4>1, <4>3 DEF TalkFits
    <3> QED BY <2>3, <3>1, <3>2
  <2>6. EditFits'
    <3>1. CASE Active(t)
      <4>1. u \in talks' /\ Active(u)' BY <2>2, <2>3, <3>1
      <4>2. Unsettled(u)
        <5>1. IsATalk(u) /\ u.what = t.what /\ u.at = "applied" BY <1>t, <2>1, AnsweredIs
        <5> QED BY <1>t, <5>1 DEF Unsettled
      <4> QED BY <4>1, <4>2 DEF EditFits
    <3>2. CASE ~Active(t) BY <1>3, <3>2 DEF EditFits
    <3> QED BY <3>1, <3>2
  <2> QED BY <1>t, <1>1, <2>3, <2>4, <2>5, <2>6 DEF AccessInv
<1>4. CASE /\ talks' = (talks \ {t}) \cup (IF t.by = 0 THEN {} ELSE {[t EXCEPT !.at = "refused"]})
           /\ UNCHANGED <<granted, strays>>
  <2>1. PICK u : u = AnsweredAs(t, "refused") OBVIOUS
  <2>2. talks' = (talks \ {t}) \cup IF t.by = 0 THEN {} ELSE {u} BY <1>4, <2>1 DEF AnsweredAs
  <2>3. /\ TalksAre' /\ OneTalk'
        /\ \A x \in talks' : Active(x)' =>
             (x = u /\ Active(t) /\ u.what = "write" /\ u.at = "refused") \/ (x \in talks \ {t} /\ Active(x))
        /\ Active(t) => t.by # 0 /\ Active(u)'
    BY <1>2, <2>1, <2>2
  <2>4. \A k, c : Fresh(k, c)' <=> Fresh(k, c) BY <1>4, FreshStays
  <2>5. TalksFit'
    <3> SUFFICES ASSUME NEW x \in talks', Active(x)' PROVE TalkFits(x)' BY DEF TalksFit
    <3>1. CASE x = u /\ Active(t) /\ u.what = "write" /\ u.at = "refused"
      <4>1. manager.at = "ready" BY <1>t, <3>1, TalkingIsRight DEF TalkFits
      <4> QED BY <1>t, <3>1, <4>1 DEF TalkFits
    <3>2. CASE x \in talks \ {t} /\ Active(x)
      <4>1. TalkFits(x) BY <3>2 DEF AccessInv, TalksFit
      <4> QED BY <1>t, <1>4, <2>4, <4>1 DEF TalkFits
    <3> QED BY <2>3, <3>1, <3>2
  <2>6. EditFits'
    <3> SUFFICES ASSUME manager # Missing, ~strays, manager.at = "ready", \A x \in talks' : Active(x)' => ~Unsettled(x)
                 PROVE  EditRight(manager)'
      BY <1>t, <1>4 DEF EditFits
    <3>1. \A x \in talks : Active(x) => ~Unsettled(x)
      <4>1. ~Unsettled(t) BY <1>t DEF Unsettled
      <4>2. \A x \in talks \ {t} : Active(x) => x \in talks' /\ Active(x)' BY <1>t, <2>2 DEF Active
      <4> QED BY <4>1, <4>2
    <3>2. EditRight(manager) BY <3>1 DEF AccessInv, EditFits
    <3> QED BY <1>t, <1>4, <3>2, FreshStays
  <2> QED BY <1>t, <1>1, <1>4, <2>3, <2>5, <2>6 DEF AccessInv
<1> QED BY <1>3, <1>4 DEF ServeSave

(* What goes with each answer.                                             *)
Quiet == UNCHANGED <<granted, opened, seeks>>

LEMMA UnheardKeeps ==
    ASSUME AccessInv, NEW t \in talks, Unheard(t), Quiet
    PROVE  AccessInv'
<1>1. ~Active(t) /\ talks' = talks \ {t} /\ UNCHANGED <<manager, strays, granted, opened, seeks>>
  BY DEF Unheard, Quiet
<1>2. \A x : Active(x)' <=> Active(x) BY <1>1 DEF Active
<1>3. \A k, c : Fresh(k, c)' <=> Fresh(k, c) BY <1>1, FreshStays
<1>4. ManagerFits' /\ SeeksFit' /\ TalksAre' BY <1>1, <1>2 DEF AccessInv, ManagerFits, SeeksFit, TalksAre
<1>5. OneTalk' BY <1>1, <1>2 DEF AccessInv, OneTalk, Idle
<1>6. TalksFit' BY <1>1, <1>2, <1>3 DEF AccessInv, TalksFit, TalkFits
<1>7. EditFits'
  <2> SUFFICES ASSUME manager # Missing, ~strays, manager.at = "ready", \A x \in talks' : Active(x)' => ~Unsettled(x)
               PROVE  EditRight(manager)'
    BY <1>1 DEF EditFits
  <2>1. \A x \in talks : Active(x) => ~Unsettled(x) BY <1>1, <1>2
  <2>2. EditRight(manager) BY <2>1 DEF AccessInv, EditFits
  <2> QED BY <1>1, <2>2, FreshStays
<1> QED BY <1>1, <1>4, <1>5, <1>6, <1>7 DEF AccessInv

(* The talk of a manager goes on as another: nothing of the manager that   *)
(* the others see changes.                                                 *)
LEMMA GoesOnKeeps ==
    ASSUME AccessInv, NEW t \in talks, Active(t), Quiet, UNCHANGED strays,
           NEW u, talks' = (talks \ {t}) \cup {u}, IsATalk(u), u.by = opened,
           NEW m, manager' = m, IsAManager(m), m.gen = manager.gen, m.email = manager.email,
           m.found = manager.found, m.at = manager.at, m.busy = manager.busy,
           m.at # "ready" => m.recipient = 0, TalkFits(u)',
           Unsettled(u) \/ (m = manager /\ ~Unsettled(t))
    PROVE  AccessInv'
<1>1. /\ manager # Missing /\ opened # 0 /\ opened \in Nat /\ manager.gen \in Nat /\ ~Idle
      /\ manager.found \subseteq {manager.email}
      /\ ~strays /\ manager.at = "ready" /\ ~Unsettled(t) => EditRight(manager)
      /\ UNCHANGED <<granted, opened, seeks>>
  BY TalkingIsRight DEF AccessInv, ManagerFits, Quiet
<1>2. ManagerFits' BY <1>1 DEF ManagerFits
<1>3. \A x \in talks : Active(x) => x = t BY DEF AccessInv, OneTalk
<1>4. \A x \in talks' : Active(x)' => x = u BY <1>1, <1>3 DEF Active
<1>5. ~Idle' BY <1>1 DEF Idle
<1>6. OneTalk' /\ TalksFit' BY <1>4, <1>5 DEF OneTalk, TalksFit
<1>7. TalksAre' BY <1>1 DEF AccessInv, TalksAre
<1>8. SeeksFit' BY <1>1 DEF AccessInv, SeeksFit, Active
<1>9. EditFits'
  <2>1. CASE Unsettled(u)
    <3>1. u \in talks' /\ (manager' # Missing => Active(u)') BY <1>1 DEF Active
    <3> QED BY <2>1, <3>1 DEF EditFits
  <2>2. CASE m = manager /\ ~Unsettled(t)
    <3>1. ~strays /\ manager.at = "ready" => EditRight(manager)' BY <1>1, <2>2, FreshStays
    <3> QED BY <2>2, <3>1 DEF EditFits
  <2> QED BY <2>1, <2>2
<1> QED BY <1>1, <1>2, <1>6, <1>7, <1>8, <1>9 DEF AccessInv

LEMMA GrantsArriveKeeps ==
    ASSUME AccessInv, NEW t \in talks, t.what # "write", GrantsArrive(t), Quiet
    PROVE  AccessInv'
<1>t. /\ Active(t) /\ UNCHANGED <<strays, granted, opened, seeks>>
      /\ manager # Missing /\ opened # 0 /\ IsAManager(manager) /\ IsATalk(t) /\ TalkFits(t)
      /\ manager.found \subseteq {manager.email}
      /\ ~strays /\ manager.at = "ready" /\ ~Unsettled(t) => EditRight(manager)
  BY TalkingIsRight DEF GrantsArrive, Quiet
<1>1. PICK part, c : part = GrantPage(t.cursor) /\ c = part.next OBVIOUS
<1>2. PICK known : known = With(t.known, part) OBVIOUS
<1>3. PICK m : m = manager' OBVIOUS
<1>4. CASE t.what = "walk" /\ ~Resolved(t.guest, known, c)
  <2>1. PICK u : u = Walked(t, known, c) OBVIOUS
  <2>2. talks' = (talks \ {t}) \cup {u} /\ manager' = manager
    BY <1>1, <1>2, <1>4, <2>1 DEF GrantsArrive, Walked
  <2>3. IsATalk(u) /\ u.by = t.by /\ u.what = "walk" /\ u.guest = t.guest /\ u.cursor = c /\ u.known = known
    BY <1>t, <1>4, <2>1, WalkedIs
  <2>4. manager.at = "ready" BY <1>t, <1>4 DEF TalkFits
  <2>5. ~strays => t.guest \in Guests /\ Fresh(known, c)
    <3> SUFFICES ASSUME ~strays PROVE t.guest \in Guests /\ Fresh(known, c) OBVIOUS
    <3>1. t.guest \in Guests /\ Fresh(t.known, t.cursor) BY <1>t, <1>4 DEF TalkFits
    <3>2. Fresh(known, part.next) BY <1>1, <1>2, <3>1, NextPageIsFresh
    <3> QED BY <1>1, <3>1, <3>2
  <2>6. TalkFits(u)'
    <3>1. \A k, d : Fresh(k, d)' <=> Fresh(k, d) BY <1>t, FreshStays
    <3> QED BY <1>t, <2>2, <2>3, <2>4, <2>5, <3>1 DEF TalkFits
  <2>7. u.by = opened BY <1>t, <2>3 DEF Active
  <2>8. ~Unsettled(t) BY <1>4 DEF Unsettled
  <2> QED BY <1>t, <2>2, <2>3, <2>4, <2>6, <2>7, <2>8, GoesOnKeeps
<1>5. CASE ~(t.what = "walk" /\ ~Resolved(t.guest, known, c))
  <2>1. talks' = talks \ {t} BY <1>1, <1>2, <1>5 DEF GrantsArrive
  <2>2. SUFFICES /\ IsAManager(m) /\ m.gen = manager.gen /\ m.email = manager.email /\ m.found \subseteq {m.email}
                 /\ m.at # "ready" => m.recipient = 0
                 /\ ~strays /\ m.at = "ready" => EditRight(m)
    BY <1>t, <1>3, <2>1, EndsAlone
  <2>3. CASE t.what \in {"init", "reload"}
    <3>1. manager' = [[manager EXCEPT !.busy = FALSE] EXCEPT !.at = "ready", !.known = part.known, !.cursor = part.next]
      BY <1>1, <1>2, <1>5, <2>3 DEF GrantsArrive
    <3>2. m = Freed(manager, "ready", part.known, c) BY <1>t, <1>1, <1>3, <3>1 DEF Freed, IsAManager
    <3>3. /\ IsAManager(m) /\ m.gen = manager.gen /\ m.email = manager.email /\ m.found = manager.found
          /\ m.at = "ready" /\ m.known = part.known /\ m.cursor = c /\ m.recipient = manager.recipient
      BY <1>t, <3>2, FreedIs
    <3>4. m.recipient = 0 /\ t.cursor = 0 BY <1>t, <2>3, <3>3 DEF TalkFits
    <3>5. Fresh(part.known, part.next) BY <1>1, <3>4, FirstPageIsFresh
    <3>6. EditRight(m) BY <1>1, <3>3, <3>4, <3>5 DEF EditRight
    <3> QED BY <1>t, <3>3, <3>4, <3>6
  <2>4. CASE t.what = "more"
    <3>1. PICK k : k = With(manager.known, part) OBVIOUS
    <3>2. manager' = [[manager EXCEPT !.busy = FALSE] EXCEPT !.known = With(@, part), !.cursor = part.next]
      BY <1>1, <1>2, <1>5, <2>4 DEF GrantsArrive
    <3>3. m = Freed(manager, manager.at, k, c) BY <1>t, <1>1, <1>3, <3>1, <3>2 DEF Freed, IsAManager
    <3>4. /\ IsAManager(m) /\ m.gen = manager.gen /\ m.email = manager.email /\ m.found = manager.found
          /\ m.at = manager.at /\ m.known = k /\ m.cursor = c /\ m.recipient = manager.recipient
          /\ m.existing = manager.existing
      BY <1>t, <3>3, FreedIs
    <3>5. manager.at = "ready" /\ t.cursor = manager.cursor /\ ~Unsettled(t) BY <1>t, <2>4 DEF TalkFits, Unsettled
    <3>6. ~strays => EditRight(m)
      <4> SUFFICES ASSUME ~strays PROVE EditRight(m) OBVIOUS
      <4>1. EditRight(manager) BY <1>t, <3>5
      <4>2. Fresh(k, part.next)
        <5>1. Fresh(manager.known, manager.cursor) /\ part = GrantPage(manager.cursor) BY <1>1, <3>5, <4>1 DEF EditRight
        <5> QED BY <3>1, <5>1, NextPageIsFresh
      <4> QED BY <1>1, <3>4, <4>1, <4>2 DEF EditRight
    <3> QED BY <1>t, <3>4, <3>5, <3>6
  <2>5. CASE t.what = "walk"
    <3>1. Resolved(t.guest, known, c) BY <1>5, <2>5
    <3>2. m = Edits(manager, t.guest, known, c) BY <1>1, <1>2, <1>3, <1>5, <2>5 DEF GrantsArrive
    <3>3. /\ IsAManager(m) /\ m.gen = manager.gen /\ m.email = manager.email /\ m.found = {}
          /\ m.at = manager.at /\ m.known = known /\ m.cursor = c /\ m.recipient = t.guest
          /\ m.existing = IF t.guest \in DOMAIN known THEN known[t.guest] ELSE {}
      BY <1>t, <3>2, EditsIs
    <3>4. manager.at = "ready" BY <1>t, <2>5 DEF TalkFits
    <3>5. ~strays => EditRight(m)
      <4> SUFFICES ASSUME ~strays PROVE EditRight(m) OBVIOUS
      <4>1. t.guest \in Guests /\ Fresh(t.known, t.cursor) BY <1>t, <2>5 DEF TalkFits
      <4>2. Fresh(known, part.next) BY <1>1, <1>2, <4>1, NextPageIsFresh
      <4>3. Fresh(known, c) BY <1>1, <4>2
      <4>4. m.existing = granted[t.guest] BY <3>1, <3>3, <4>1, <4>3, ResolvedIsRight
      <4> QED BY <3>3, <4>1, <4>3, <4>4 DEF EditRight
    <3> QED BY <1>t, <3>3, <3>4, <3>5
  <2> QED BY <1>t, <2>3, <2>4, <2>5 DEF IsATalk
<1> QED BY <1>4, <1>5

LEMMA GrantsFailKeeps ==
    ASSUME AccessInv, NEW t \in talks, t.what # "write", GrantsFail(t), Quiet
    PROVE  AccessInv'
<1>t. /\ Active(t) /\ UNCHANGED <<strays, granted, opened, seeks>>
      /\ manager # Missing /\ opened # 0 /\ IsAManager(manager) /\ IsATalk(t) /\ TalkFits(t)
      /\ manager.found \subseteq {manager.email}
      /\ ~strays /\ manager.at = "ready" /\ ~Unsettled(t) => EditRight(manager)
  BY TalkingIsRight DEF GrantsFail, Quiet
<1>1. PICK m : m = manager' OBVIOUS
<1>2. PICK at : at = IF t.what \in {"init", "reload"} THEN "failed" ELSE manager.at OBVIOUS
<1>3. m = Freed(manager, at, manager.known, manager.cursor) BY <1>t, <1>1, <1>2 DEF GrantsFail, Freed, IsAManager
<1>4. /\ IsAManager(m) /\ m.gen = manager.gen /\ m.email = manager.email /\ m.found = manager.found
      /\ m.at = at /\ m.known = manager.known /\ m.cursor = manager.cursor /\ m.recipient = manager.recipient
      /\ m.existing = manager.existing
  BY <1>t, <1>3, FreedIs
<1>5. m.at # "ready" => m.recipient = 0 BY <1>t, <1>2, <1>4 DEF TalkFits
<1>6. ~strays /\ m.at = "ready" => EditRight(m)
  <2>1. m.at = "ready" => ~Unsettled(t) /\ manager.at = "ready" BY <1>2, <1>4 DEF Unsettled
  <2> QED BY <1>t, <1>4, <2>1 DEF EditRight
<1>7. talks' = talks \ {t} BY DEF GrantsFail
<1>8. m.found \subseteq {m.email} BY <1>t, <1>4
<1> QED BY <1>t, <1>1, <1>4, <1>5, <1>6, <1>7, <1>8, EndsAlone

LEMMA SaveSucceedsKeeps ==
    ASSUME AccessInv, NEW t \in talks, t.what = "write", SaveSucceeds(t), Quiet
    PROVE  AccessInv'
<1>t. /\ Active(t) /\ UNCHANGED <<strays, granted, opened, seeks>>
      /\ manager # Missing /\ IsAManager(manager) /\ IsATalk(t) /\ TalkFits(t)
  BY TalkingIsRight DEF SaveSucceeds, Quiet
<1>1. PICK m : m = manager' OBVIOUS
<1>2. m = Dismissed(manager) BY <1>1 DEF SaveSucceeds, Dismissed
<1>3. /\ IsAManager(m) /\ m.gen = manager.gen /\ m.email = manager.email /\ m.found = manager.found
      /\ m.at = manager.at /\ m.known = manager.known /\ m.cursor = manager.cursor /\ m.recipient = 0
      /\ m.busy = manager.busy
  BY <1>t, <1>2, DismissedIs
<1>4. PICK u : u = Talk("reload", 0, {}, NoGrants, 0) OBVIOUS
<1>5. talks' = (talks \ {t}) \cup {u} BY <1>4 DEF SaveSucceeds
<1>6. IsATalk(u) /\ u.by = opened /\ u.what = "reload" /\ u.cursor = 0 BY <1>4, TalkIs
<1>7. manager.at = "ready" BY <1>t DEF TalkFits
<1>8. TalkFits(u)' BY <1>1, <1>3, <1>6, <1>7 DEF TalkFits
<1>9. Unsettled(u) BY <1>6 DEF Unsettled
<1> QED BY <1>t, <1>1, <1>3, <1>5, <1>6, <1>8, <1>9, GoesOnKeeps

LEMMA SaveFailsKeeps ==
    ASSUME AccessInv, NEW t \in talks, t.what = "write", SaveFails(t), Quiet
    PROVE  AccessInv'
<1>t. /\ Active(t) /\ UNCHANGED <<granted, opened, seeks>>
      /\ manager # Missing /\ IsAManager(manager) /\ IsATalk(t) /\ TalkFits(t)
      /\ manager.found \subseteq {manager.email}
      /\ ~strays /\ manager.at = "ready" /\ ~Unsettled(t) => EditRight(manager)
  BY TalkingIsRight DEF SaveFails, Quiet
<1>1. PICK m : m = manager' OBVIOUS
<1>2. m = Freed(manager, manager.at, manager.known, manager.cursor) BY <1>t, <1>1, FreedOnly DEF SaveFails
<1>3. /\ IsAManager(m) /\ m.gen = manager.gen /\ m.email = manager.email /\ m.found = manager.found
      /\ m.at = manager.at /\ m.known = manager.known /\ m.cursor = manager.cursor /\ m.recipient = manager.recipient
      /\ m.existing = manager.existing
  BY <1>t, <1>2, FreedIs
<1>4. manager.at = "ready" BY <1>t DEF TalkFits
<1>5. PICK Z : /\ talks' = (talks \ {t}) \cup Z /\ \A z \in Z : IsATalk(z) /\ z.by = 0
               /\ strays' \/ (strays' = strays /\ t.at = "refused")
  <2>1. CASE t.at = "sent" /\ talks' = (talks \ {t}) \cup {[t EXCEPT !.by = 0]} /\ strays' = TRUE
    <3>1. PICK u : u = Orphaned(t) OBVIOUS
    <3>2. talks' = (talks \ {t}) \cup {u} BY <2>1, <3>1 DEF Orphaned
    <3>3. IsATalk(u) /\ u.by = 0 BY <1>t, <3>1, OrphanedIs
    <3>4. PICK Z : Z = {u} OBVIOUS
    <3>5. talks' = (talks \ {t}) \cup Z /\ \A z \in Z : IsATalk(z) /\ z.by = 0 BY <3>2, <3>3, <3>4
    <3>6. strays' BY <2>1
    <3> QED BY <3>5, <3>6, Zenon
  <2>2. CASE talks' = talks \ {t} /\ (strays' = TRUE \/ (strays' = strays /\ t.at = "refused"))
    <3>0. PICK Z : Z = {} OBVIOUS
    <3>1. talks' = (talks \ {t}) \cup Z /\ \A z \in Z : IsATalk(z) /\ z.by = 0 BY <2>2, <3>0
    <3>2. strays' \/ (strays' = strays /\ t.at = "refused") BY <2>2
    <3> QED BY <3>1, <3>2, Zenon
  <2> QED BY <2>1, <2>2 DEF SaveFails
<1>6. ~strays' /\ m.at = "ready" => EditRight(m)
  <2> SUFFICES ASSUME ~strays' PROVE EditRight(m) OBVIOUS
  <2>1. ~strays /\ ~Unsettled(t) BY <1>5 DEF Unsettled
  <2>2. EditRight(manager) BY <1>t, <1>4, <2>1
  <2> QED BY <1>3, <2>2 DEF EditRight
<1>7. m.at # "ready" => m.recipient = 0 BY <1>3, <1>4
<1>8. m.found \subseteq {m.email} BY <1>t, <1>3
<1> QED BY <1>t, <1>1, <1>3, <1>5, <1>6, <1>7, <1>8, EndsKeepsAccess

LEMMA TalkEndsKeeps ==
    ASSUME AccessInv, NEW t \in talks, TalkEnds(t)
    PROVE  AccessInv'
<1>1. Quiet BY DEF TalkEnds, Quiet
<1> QED BY <1>1, UnheardKeeps, GrantsArriveKeeps, GrantsFailKeeps, SaveSucceedsKeeps, SaveFailsKeeps DEF TalkEnds

LEMMA AccessStays ==
    ASSUME AccessInv, UNCHANGED accessVars
    PROVE  AccessInv'
<1>1. UNCHANGED <<granted, manager, opened, talks, seeks, strays>> BY DEF accessVars
<1>2. \A x : Active(x)' <=> Active(x) BY <1>1 DEF Active
<1>3. /\ \A k, c : Fresh(k, c)' <=> Fresh(k, c)
      /\ \A m : EditRight(m)' <=> EditRight(m)
  BY <1>1, FreshStays
<1>4. ManagerFits' /\ SeeksFit' /\ TalksAre' BY <1>1, <1>2 DEF AccessInv, ManagerFits, SeeksFit, TalksAre
<1>5. OneTalk' BY <1>1, <1>2 DEF AccessInv, OneTalk, Idle
<1>6. TalksFit' BY <1>1, <1>2, <1>3 DEF AccessInv, TalksFit, TalkFits
<1>7. EditFits' BY <1>1, <1>2, <1>3 DEF AccessInv, EditFits
<1> QED BY <1>1, <1>4, <1>5, <1>6, <1>7 DEF AccessInv

LEMMA AccessKeeps == AccessInv /\ AccessNext => AccessInv'
  BY OpenAccessKeeps, CloseAccessKeeps, TypeEmailKeeps, SearchKeeps, SearchArrivesKeeps, SelectRecipientKeeps, SaveKeeps,
     CancelEditKeeps, LoadMoreGrantsKeeps, ServeSaveKeeps, TalkEndsKeeps
  DEF AccessNext

LEMMA InitAccess == SourceInit /\ granted \in [Guests -> SUBSET Nodes] => AccessInv
  BY DEF SourceInit, AccessInv, ManagerFits, SeeksFit, TalksAre, OneTalk, TalksFit, EditFits, Idle

(* The page as a whole.                                                    *)
SourceInv == PanelInv /\ ErrandsFit /\ RevealInv /\ AccessInv

SourceNext == PanelNext \/ RevealNext \/ AccessNext \/ \E f \in fills : ListArrives(f)

(* A step of one part leaves the others, but a change of grants that has   *)
(* succeeded reads the page's list.                                        *)
LEMMA PanelStepStays == PanelNext => UNCHANGED <<revealVars, accessVars>>
<1>1. ASSUME NEW f, ListArrives(f) PROVE UNCHANGED <<revealVars, accessVars>> BY <1>1 DEF ListArrives
<1>2. ASSUME NEW f, NEW o, CheckArrives(f, o) PROVE UNCHANGED <<revealVars, accessVars>> BY <1>2 DEF CheckArrives
<1>3. ASSUME RefreshSources \/ LeaveForLater PROVE UNCHANGED <<revealVars, accessVars>>
  BY <1>3 DEF RefreshSources, LeaveForLater
<1>4. ASSUME NEW what, NEW o, StartErrand(what, o) PROVE UNCHANGED <<revealVars, accessVars>> BY <1>4 DEF StartErrand
<1>5. ASSUME NEW e, ErrandSucceeds(e) \/ ErrandFails(e) \/ FailedTestEnds(e) PROVE UNCHANGED <<revealVars, accessVars>>
  BY <1>5 DEF ErrandSucceeds, ErrandFails, FailedTestEnds
<1> QED BY <1>1, <1>2, <1>3, <1>4, <1>5 DEF PanelNext

LEMMA RevealStepStays == RevealNext => UNCHANGED <<panel, fills, errands, accessVars>>
  BY DEF RevealNext, OpenReveal, RevealKey, CloseReveal, RevealArrives, panelVars

LEMMA AccessStepStays == AccessNext => UNCHANGED <<errands, revealVars>> /\ (UNCHANGED <<panel, fills>> \/ LoadSources)
<1>1. ASSUME OpenAccess \/ CloseAccess \/ CancelEdit \/ LoadMoreGrants PROVE UNCHANGED <<panel, fills, errands, revealVars>>
  BY <1>1 DEF OpenAccess, CloseAccess, CancelEdit, LoadMoreGrants, panelVars
<1>2. ASSUME NEW x, TypeEmail(x) \/ Search(x) \/ SearchArrives(x) \/ SelectRecipient(x) \/ Save(x) \/ ServeSave(x)
      PROVE  UNCHANGED <<panel, fills, errands, revealVars>>
  BY <1>2 DEF TypeEmail, Search, SearchArrives, SelectRecipient, Save, ServeSave, panelVars
<1>3. ASSUME NEW t, TalkEnds(t)
      PROVE  UNCHANGED <<errands, revealVars>> /\ (UNCHANGED <<panel, fills>> \/ LoadSources)
  <2>1. UNCHANGED <<errands, revealVars>> BY <1>3 DEF TalkEnds
  <2>2. UNCHANGED <<panel, fills>> \/ LoadSources
    BY <1>3 DEF TalkEnds, Unheard, GrantsArrive, GrantsFail, SaveSucceeds, SaveFails
  <2> QED BY <2>1, <2>2
<1> QED BY <1>1, <1>2, <1>3 DEF AccessNext

LEMMA InitSource == SourceInit /\ granted \in [Guests -> SUBSET Nodes] => SourceInv
  BY InitPanel, InitReveal, InitAccess DEF SourceInv

LEMMA NextSource == SourceInv /\ [SourceNext]_sourceVars => SourceInv'
<1> SUFFICES ASSUME SourceInv, [SourceNext]_sourceVars PROVE SourceInv' OBVIOUS
<1>t. PanelInv /\ ErrandsFit /\ RevealInv /\ AccessInv BY DEF SourceInv
<1>1. ASSUME UNCHANGED revealVars PROVE RevealInv' BY <1>t, <1>1, RevealKeeps
<1>2. ASSUME UNCHANGED <<panel, fills>> PROVE PanelInv' BY <1>t, <1>2 DEF PanelInv
<1>3. ASSUME UNCHANGED errands PROVE ErrandsFit' BY <1>t, <1>3 DEF ErrandsFit
<1>4. CASE PanelNext
  <2>1. UNCHANGED revealVars /\ UNCHANGED accessVars BY <1>4, PanelStepStays
  <2> QED BY <1>t, <1>1, <1>4, <2>1, PanelKeeps, ErrandsStay, AccessStays DEF SourceInv
<1>5. CASE RevealNext
  <2>1. UNCHANGED <<panel, fills>> /\ UNCHANGED errands /\ UNCHANGED accessVars BY <1>5, RevealStepStays
  <2> QED BY <1>t, <1>2, <1>3, <1>5, <2>1, RevealKeeps, AccessStays DEF SourceInv
<1>6. CASE AccessNext
  <2>1. UNCHANGED errands /\ UNCHANGED revealVars /\ (UNCHANGED <<panel, fills>> \/ LoadSources)
    BY <1>6, AccessStepStays
  <2>2. PanelInv' BY <1>t, <1>2, <2>1, LoadSourcesKeeps
  <2> QED BY <1>t, <1>1, <1>3, <1>6, <2>1, <2>2, AccessKeeps DEF SourceInv
<1>7. ASSUME NEW f \in fills, ListArrives(f) PROVE SourceInv'
  <2>1. PanelNext BY <1>7 DEF PanelNext
  <2> QED BY <1>4, <2>1
<1>8. CASE UNCHANGED sourceVars
  <2>1. UNCHANGED <<panel, fills>> /\ UNCHANGED errands /\ UNCHANGED revealVars /\ UNCHANGED accessVars
    BY <1>8 DEF sourceVars, panelVars
  <2> QED BY <1>t, <1>1, <1>2, <1>3, <2>1, AccessStays DEF SourceInv
<1> QED BY <1>4, <1>5, <1>6, <1>7, <1>8 DEF SourceNext

LEMMA SourceInvTells == SourceInv => SourcesWait /\ RevealedKeyIsWatched /\ EditStartsFromTheGrants
<1> SUFFICES ASSUME SourceInv PROVE SourcesWait /\ RevealedKeyIsWatched /\ EditStartsFromTheGrants OBVIOUS
<1>1. SourcesWait BY DEF SourceInv, PanelInv, Fed, SourcesWait, CurrentFill, ChecksOf
<1>2. RevealedKeyIsWatched BY DEF SourceInv, RevealInv, RevealedKeyIsWatched
<1>3. ASSUME manager # Missing, manager.recipient # 0, ~strays, \A t \in talks : t.what # "write"
      PROVE  manager.existing = granted[manager.recipient]
  <2>1. manager.at = "ready" BY <1>3 DEF SourceInv, AccessInv, ManagerFits
  <2>2. \A t \in talks : Active(t) => t.what # "reload" BY <1>3 DEF SourceInv, AccessInv, TalksFit, TalkFits
  <2>3. \A t \in talks : Active(t) => ~Unsettled(t) BY <1>3, <2>2 DEF Unsettled
  <2>4. EditRight(manager) BY <1>3, <2>1, <2>3 DEF SourceInv, AccessInv, EditFits
  <2> QED BY <1>3, <2>4 DEF EditRight
<1>4. manager # Missing => manager.found \subseteq {manager.email} BY DEF SourceInv, AccessInv, ManagerFits
<1> QED BY <1>1, <1>2, <1>3, <1>4 DEF EditStartsFromTheGrants

-----------------------------------------------------------------------------
(* The client.  Every part keeps its own invariant, whichever is run.      *)
PagesInv ==
    /\ AccountsInv /\ AuditInv /\ AlertsInv /\ KeysInv /\ SearchInv

HistoryInv ==
    /\ AnalysisInv /\ ReportInv
    /\ focus # "analysis" => AnalysisIdle
    /\ focus # "report" => ReportIdle

ClientInv == StationInv /\ HistoryInv /\ InboxInv /\ SourceInv /\ PagesInv

LEMMA InitClient == MCInit => ClientInv
<1> SUFFICES ASSUME MCInit PROVE ClientInv OBVIOUS
<1>1. /\ StationInit /\ ViewInit /\ InboxInit /\ SourceInit
      /\ AccountsInit /\ AuditInit /\ AlertsInit /\ KeysInit /\ SearchInit
  BY DEF MCInit
<1>2. granted \in [Guests -> SUBSET Nodes]
  <2>1. granted \in {[g \in Guests |-> Nodes], [g \in Guests |-> IF g = MaxGuests THEN Nodes ELSE {}]}
    BY DEF MCInit
  <2> QED BY <2>1
<1>3. HistoryInv BY <1>1, InitAnalysis, InitReport DEF HistoryInv
<1>4. PagesInv BY <1>1, InitAccounts, InitAudit, InitAlerts, InitKeys, InitSearch DEF PagesInv
<1> QED BY <1>1, <1>2, <1>3, <1>4, InitStation, InitInbox, InitSource DEF ClientInv

LEMMA HistoryStepKeeps == HistoryInv /\ HistoryStep /\ UNCHANGED focus => HistoryInv'
<1> SUFFICES ASSUME HistoryInv, HistoryStep, UNCHANGED focus PROVE HistoryInv' OBVIOUS
<1>t. /\ AnalysisInv /\ ReportInv
      /\ focus # "analysis" => AnalysisIdle
      /\ focus # "report" => ReportIdle
  BY DEF HistoryInv
<1>1. CASE focus = "analysis" /\ AnalysisNext
  <2>1. AnalysisInv' BY <1>t, <1>1, NextAnalysis
  <2>2. denials' \in [Plotted -> Nat] BY <2>1 DEF AnalysisInv
  <2>3. ReportInv' /\ ReportIdle' BY <1>t, <1>1, <2>2, AnalysisStepStays, ReportRests
  <2> QED BY <1>1, <2>1, <2>3 DEF HistoryInv
<1>2. CASE focus = "report" /\ ReportNext
  <2>1. ReportInv' BY <1>t, <1>2, NextReport
  <2>2. denials' \in [Plotted -> Nat] BY <2>1 DEF ReportInv
  <2>3. AnalysisInv' /\ AnalysisIdle' BY <1>t, <1>2, <2>2, ReportStepStays, AnalysisRests
  <2> QED BY <1>2, <2>1, <2>3 DEF HistoryInv
<1> QED BY <1>1, <1>2 DEF HistoryStep

LEMMA HistoryRests == HistoryInv /\ UNCHANGED <<viewVars, focus>> => HistoryInv'
<1> SUFFICES ASSUME HistoryInv, UNCHANGED <<viewVars, focus>> PROVE HistoryInv' OBVIOUS
<1>1. UNCHANGED <<analysisVars, denials>> /\ UNCHANGED <<reportVars, denials>> BY DEF viewVars
<1>2. AnalysisInv' /\ ReportInv' BY <1>1, NextAnalysis, NextReport DEF HistoryInv
<1>3. (AnalysisIdle' <=> AnalysisIdle) /\ (ReportIdle' <=> ReportIdle)
  BY <1>1 DEF AnalysisIdle, ReportIdle, analysisVars, reportVars
<1> QED BY <1>2, <1>3 DEF HistoryInv

LEMMA PageStepKeeps == PagesInv /\ (PageStep \/ UNCHANGED pageVars) => PagesInv'
<1> SUFFICES ASSUME PagesInv, PageStep \/ UNCHANGED pageVars PROVE PagesInv' OBVIOUS
<1>1. /\ [AccountsNext]_deskVars /\ [AuditNext]_auditVars /\ [AlertsNext]_alertVars /\ [KeysNext]_keyVars
      /\ [SearchNext]_searchVars
  BY DEF PageStep, pageVars, AccountsStep, AlertsStep
<1> QED BY <1>1, NextAccounts, NextAudit, NextAlerts, NextKeys, NextSearch DEF PagesInv

LEMMA NextClient == ClientInv /\ [MCNext]_mcvars => ClientInv'
<1> SUFFICES ASSUME ClientInv, [MCNext]_mcvars PROVE ClientInv' OBVIOUS
<1>1. UNCHANGED focus BY DEF MCNext, mcvars
<1>2. /\ [StationNext]_stationVars /\ [InboxNext]_inboxVars /\ [SourceNext]_sourceVars
      /\ HistoryStep \/ UNCHANGED viewVars
      /\ PageStep \/ UNCHANGED pageVars
  BY DEF MCNext, mcvars, StationStep, InboxStep, SourceStep, SourceNext
<1>3. HistoryInv' BY <1>1, <1>2, HistoryStepKeeps, HistoryRests DEF ClientInv
<1>4. PagesInv' BY <1>2, PageStepKeeps DEF ClientInv
<1> QED BY <1>2, <1>3, <1>4, NextStation, NextInbox, NextSource DEF ClientInv

LEMMA ClientInvHolds == MCSpec => []ClientInv
  BY InitClient, NextClient, PTL DEF MCSpec

(* Whatever a page shows as loading, or as being checked or acted on, waits*)
(* for an answer that is under way and that the page will take: no page is *)
(* left loading by an answer that it dropped as late.                      *)
THEOREM PagesWaitForAnAnswer == MCSpec => []WaitsForAnAnswer
<1>1. ClientInv => WaitsForAnAnswer
  BY StationInvTells, ViewInvTells, InboxInvTells, SourceInvTells, AccountsInvTells, AuditInvTells, KeysInvTells
  DEF ClientInv, HistoryInv, PagesInv, AlertsInv, SearchInv, WaitsForAnAnswer
<1> QED BY <1>1, ClientInvHolds, PTL

(* Whatever a page shows is of what is selected on it now, and not older   *)
(* than a refusal that the page has heard of.                              *)
THEOREM PagesShowWhatIsCurrent == MCSpec => []WhatIsShownIsCurrent
<1>1. ClientInv => WhatIsShownIsCurrent
  BY StationInvTells, ViewInvTells, InboxInvTells, SourceInvTells, AccountsInvTells, AuditInvTells, KeysInvTells
  DEF ClientInv, HistoryInv, PagesInv, AlertsInv, SearchInv, WhatIsShownIsCurrent
<1> QED BY <1>1, ClientInvHolds, PTL
================================================================================
