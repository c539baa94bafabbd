------------------------------- MODULE KeysPage -------------------------------
(***************************************************************************)
(* The developer's page of the API keys in the web client: the list, and a *)
(* dialog that creates a key and shows the secret of a created or rotated  *)
(* one, once, until its user says that it is saved.  Secrets are numbered  *)
(* as the server issues them.                                              *)
(***************************************************************************)
EXTENDS Naturals, FiniteSets

CONSTANTS
    KeyIds,      \* keys
    MaxSecrets,  \* bound on the secrets issued
    MaxPosts     \* bound on the requests under way

ASSUME KeysPageAssumption == {MaxSecrets, MaxPosts} \subseteq Nat

VARIABLES
    ring,     \* the server: the status of each key
    issued,   \* secrets issued so far
    sheet,    \* keys, available stations, loading, error
    slip,     \* the dialog: showCreate, generatedSecret, acknowledged
    posts,    \* requests of apiKeyService under way
    lost,     \* history: a secret left the page before its user said it is saved
    crossed   \* history: two keys were issued at a time, or the dialog closed on a creation

keyVars == <<ring, issued, sheet, slip, posts, lost, crossed>>

-----------------------------------------------------------------------------
Post(what, key) == [what |-> what, key |-> key, at |-> "sent", secret |-> 0, found |-> [k \in {} |-> "none"]]

Issues(p) == p.what \in {"create", "rotate"}

Sent(p) == p \notin posts /\ Cardinality(posts) < MaxPosts /\ posts' = posts \cup {p}

(* The server: list and listAvailableStations, create, rotate, revoke; or  *)
(* a refusal.                                                              *)
ServePost(p) ==
    LET done(q) == posts' = (posts \ {p}) \cup {[q EXCEPT !.at = "answered"]}
        issue(status) == /\ issued < MaxSecrets /\ issued' = issued + 1
                         /\ ring[p.key] = status /\ ring' = [ring EXCEPT ![p.key] = "active"]
                         /\ done([p EXCEPT !.secret = issued + 1])
    IN
    /\ p \in posts /\ p.at = "sent"
    /\ \/ p.what = "create" /\ issue("none")
       \/ p.what = "rotate" /\ issue("active")
       \/ /\ p.what = "revoke" /\ ring' = [ring EXCEPT ![p.key] = "revoked"] /\ done(p)
          /\ UNCHANGED issued
       \/ /\ p.what = "load"
          /\ LET known == {k \in KeyIds : ring[k] # "none"} IN done([p EXCEPT !.found = [k \in known |-> ring[k]]])
          /\ UNCHANGED <<ring, issued>>
       \/ posts' = (posts \ {p}) \cup {[p EXCEPT !.at = "refused"]} /\ UNCHANGED <<ring, issued>>
    /\ UNCHANGED <<sheet, slip, lost, crossed>>

(* loadData, of the page and of the button beside an error.                *)
RetryKeys ==
    /\ sheet.error /\ ~slip.open /\ Sent(Post("load", "none"))
    /\ sheet' = [sheet EXCEPT !.loading = TRUE, !.error = FALSE]
    /\ UNCHANGED <<ring, issued, slip, lost, crossed>>

KeysArrive(p) ==
    /\ p \in posts /\ p.what = "load" /\ p.at # "sent" /\ posts' = posts \ {p}
    /\ sheet' = IF p.at = "refused" THEN [sheet EXCEPT !.loading = FALSE, !.error = TRUE]
                ELSE [sheet EXCEPT !.loading = FALSE, !.keys = p.found, !.stations = TRUE]
    /\ UNCHANGED <<ring, issued, slip, lost, crossed>>

-----------------------------------------------------------------------------
Unsaved == slip.secret # 0 /\ ~slip.acknowledged

NoSlip == [open |-> FALSE, secret |-> 0, acknowledged |-> FALSE]

(* A secret that a late creation left behind the closed dialog is dropped. *)
OpenCreateModal ==
    /\ ~slip.open /\ slip' = [NoSlip EXCEPT !.open = TRUE]
    /\ lost' = (lost \/ Unsaved)
    /\ UNCHANGED <<ring, issued, sheet, posts, crossed>>

(* Mutant: the dialog closes on a secret that was not saved.               *)
ClosesAlways == TRUE

MayClose == slip.secret = 0 \/ slip.acknowledged

CloseCreateModal ==
    /\ slip.open /\ MayClose /\ slip' = NoSlip
    /\ lost' = (lost \/ Unsaved)
    /\ crossed' = (crossed \/ \E p \in posts : p.what = "create")
    /\ UNCHANGED <<ring, issued, sheet, posts>>

Acknowledge ==
    /\ slip.open /\ Unsaved /\ slip' = [slip EXCEPT !.acknowledged = TRUE]
    /\ UNCHANGED <<ring, issued, sheet, posts, lost, crossed>>

Asks(p) ==
    /\ Sent(p) /\ crossed' = (crossed \/ (Issues(p) /\ \E q \in posts : Issues(q)))
    /\ UNCHANGED <<ring, issued, slip, lost>>

(* createKey, with a name and at least one of the stations.                *)
CreateKey ==
    /\ slip.open /\ slip.secret = 0 /\ sheet.stations
    /\ \E k \in KeyIds : ring[k] = "none" /\ Asks(Post("create", k))
    /\ sheet' = [sheet EXCEPT !.error = FALSE]

Usable(k) == ~slip.open /\ k \in DOMAIN sheet.keys /\ sheet.keys[k] # "revoked"

RotateKey(k) == Usable(k) /\ Asks(Post("rotate", k)) /\ UNCHANGED sheet

RevokeKey(k) == Usable(k) /\ Asks(Post("revoke", k)) /\ UNCHANGED sheet

(* The answers.  A rotation opens the dialog, a creation only fills it.    *)
IssueArrives(p) ==
    /\ p \in posts /\ Issues(p) /\ p.at = "answered" /\ posts' = posts \ {p}
    /\ sheet' = [sheet EXCEPT !.keys = [k \in DOMAIN @ \cup (IF p.what = "create" THEN {p.key} ELSE {}) |->
                                          IF k = p.key THEN "active" ELSE @[k]]]
    /\ slip' = [open |-> slip.open \/ p.what = "rotate", secret |-> p.secret, acknowledged |-> FALSE]
    /\ lost' = (lost \/ Unsaved)
    /\ UNCHANGED <<ring, issued, crossed>>

RevokeArrives(p) ==
    /\ p \in posts /\ p.what = "revoke" /\ p.at = "answered" /\ posts' = posts \ {p}
    /\ sheet' = [sheet EXCEPT !.keys = [k \in DOMAIN @ |-> IF k = p.key THEN "revoked" ELSE @[k]]]
    /\ UNCHANGED <<ring, issued, slip, lost, crossed>>

ChangeRefused(p) ==
    /\ p \in posts /\ p.what # "load" /\ p.at = "refused" /\ posts' = posts \ {p}
    /\ sheet' = [sheet EXCEPT !.error = TRUE]
    /\ UNCHANGED <<ring, issued, slip, lost, crossed>>

-----------------------------------------------------------------------------
KeysInit ==
    /\ \E first \in KeyIds : ring = [k \in KeyIds |-> IF k = first THEN "active" ELSE "none"]
    /\ issued = 0 /\ slip = NoSlip /\ lost = FALSE /\ crossed = FALSE
    /\ sheet = [keys |-> [k \in {} |-> "none"], stations |-> FALSE, loading |-> TRUE, error |-> FALSE]
    /\ posts = {Post("load", "none")}

KeysNext ==
    \/ \E p \in posts : ServePost(p) \/ KeysArrive(p) \/ IssueArrives(p) \/ RevokeArrives(p) \/ ChangeRefused(p)
    \/ RetryKeys \/ OpenCreateModal \/ CloseCreateModal \/ Acknowledge \/ CreateKey
    \/ \E k \in KeyIds : RotateKey(k) \/ RevokeKey(k)

-----------------------------------------------------------------------------
(* A list that is loading waits for its answer.                            *)
KeysWait == sheet.loading => \E p \in posts : p.what = "load"

(* A secret that the server issued to the page is not taken away before    *)
(* its user says that it is saved, as long as the keys are issued one at a *)
(* time and the dialog is not closed on a creation under way.              *)
SecretStaysUntilSaved == lost => crossed
=============================================================================
