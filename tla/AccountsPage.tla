---------------------------- MODULE AccountsPage ----------------------------
(***************************************************************************)
(* The administrators' page of the accounts in the web client: a list with *)
(* cursors, the drawer that creates or edits an account, the dialogs that  *)
(* confirm a change, and the temporary password that is shown once.  The   *)
(* server answers a request at one moment and the page hears of it at a    *)
(* later one.  What an overlay covers cannot be used, and a request that   *)
(* equals one under way is not counted again.                              *)
(***************************************************************************)
EXTENDS Naturals, FiniteSets, Sequences, FiniteSetsExt

CONSTANTS
    MaxPeople,  \* bound on the accounts, numbered in the order of the list; the first is the viewer's
    DeskLimit,  \* a page of the list
    MaxTrips,   \* bound on the requests under way
    MaxLeaves   \* bound on the pages of the list that are remembered

ASSUME AccountsPageAssumption ==
    /\ {MaxTrips, MaxLeaves} \subseteq Nat
    /\ {MaxPeople, DeskLimit} \subseteq Nat \ {0}

VARIABLES
    registry,    \* the server: the accounts there are
    viewer,      \* what the page knows of its user: "super", "admin" or "gone"
    desk,        \* items, next cursor, cursor history, page, loading; history: failed, of
    drawer,      \* open, editingUser and the role that is chosen
    dialog,      \* the dialog in front, with what it asks
    credential,  \* the account whose temporary password is shown, or 0
    trips        \* requests of userService and authorityService under way

deskVars == <<registry, viewer, desk, drawer, dialog, credential, trips>>

-----------------------------------------------------------------------------
People == 1 .. MaxPeople

Vacant == [role |-> "none", status |-> "none", super |-> FALSE]

Roles == {"ADMIN", "FARMER"}

Account(role) == [role |-> role, status |-> "ACTIVE", super |-> FALSE]

(* listUsers: the accounts after the cursor.                               *)
AccountsAfter(cursor) ==
    LET rest == {u \in People : u > cursor /\ registry[u] # Vacant}
        leaf == {u \in rest : Cardinality({k \in rest : k < u}) < DeskLimit}
    IN [items |-> [u \in leaf |-> registry[u]], next |-> IF leaf = rest THEN 0 ELSE Max(leaf)]

(* A request, and whether the page still takes its answer.                 *)
Trip(what, who, set) ==
    [what |-> what, who |-> who, set |-> set, confirmed |-> FALSE, active |-> TRUE, at |-> "sent", answer |-> Vacant]

Sends(t) == /\ t \notin trips /\ Cardinality(trips) < MaxTrips /\ trips' = trips \cup {t}

(* The server reads for a list or a detail, and applies a change or refuses*)
(* it by the rules of the accounts, which this page does not repeat.       *)
ServeTrip(t) ==
    LET answered(a) == trips' = (trips \ {t}) \cup {[t EXCEPT !.at = "answered", !.answer = a]}
        change(u, a) == registry' = [registry EXCEPT ![u] = a] /\ answered(a)
    IN
    /\ t \in trips /\ t.at = "sent"
    /\ \/ trips' = (trips \ {t}) \cup {[t EXCEPT !.at = "refused"]} /\ UNCHANGED registry
       \/ t.what = "list" /\ answered(AccountsAfter(t.who)) /\ UNCHANGED registry
       \/ t.what = "detail" /\ answered(registry[t.who]) /\ UNCHANGED registry
       \/ t.what = "create" /\ registry[t.who] = Vacant /\ change(t.who, [Account(t.set) EXCEPT !.status = "PENDING"])
       \/ t.what = "reset" /\ change(t.who, [registry[t.who] EXCEPT !.status = "PENDING"])
       \/ t.what = "role" /\ change(t.who, [registry[t.who] EXCEPT !.role = t.set])
       \/ t.what = "status" /\ change(t.who, [registry[t.who] EXCEPT !.status = t.set])
       \/ t.what = "delete" /\ change(t.who, [registry[t.who] EXCEPT !.status = "DISABLED"])
       \/ t.what = "transfer" /\ change(t.who, [registry[t.who] EXCEPT !.super = TRUE])
    /\ UNCHANGED <<viewer, desk, drawer, dialog, credential>>

Answered(t) == t \in trips /\ t.at # "sent" /\ viewer # "gone"

Refused(t) == t.at = "refused"

-----------------------------------------------------------------------------
(* The list.  A change of the page or of the cursors asks for the page and *)
(* leaves the answer of the request before it unheard.                     *)
Turn(d) ==
    /\ desk' = d
    /\ LET asked == Trip("list", d.history[d.page], "none")
           left == {IF t.what = "list" THEN [t EXCEPT !.active = FALSE] ELSE t : t \in trips}
       IN Cardinality(left) < MaxTrips /\ trips' = left \cup {asked}
    /\ UNCHANGED <<registry, viewer, drawer, dialog, credential>>

(* Mutant: an answer is heard whatever was asked for since.                *)
HeardAlways(t) == TRUE

Heard(t) == t.active

UsersArrive(t) ==
    /\ Answered(t) /\ t.what = "list" /\ trips' = trips \ {t}
    /\ desk' = IF ~Heard(t) THEN desk
               ELSE IF Refused(t) THEN [desk EXCEPT !.loading = FALSE, !.failed = TRUE]
               ELSE [desk EXCEPT !.loading = FALSE, !.failed = FALSE, !.of = t.who,
                                 !.items = t.answer.items, !.next = t.answer.next]
    /\ UNCHANGED <<registry, viewer, drawer, dialog, credential>>

NoDialog == [what |-> "none", who |-> 0, set |-> "none", busy |-> FALSE]

(* Nothing lies over the table.                                            *)
Free == viewer # "gone" /\ ~drawer.open /\ dialog = NoDialog /\ credential = 0

(* The search and the two filters show some of the rows, and go back to the*)
(* first page, without a mark that it is being loaded.                     *)
FilterUsers == Free /\ desk.page # 1 /\ Turn([desk EXCEPT !.page = 1])

PreviousUsers ==
    Free /\ desk.page # 1 /\ ~desk.loading /\ Turn([desk EXCEPT !.page = @ - 1, !.loading = TRUE])

NextUsers ==
    /\ Free /\ desk.next # 0 /\ ~desk.loading /\ desk.page < MaxLeaves
    /\ Turn([desk EXCEPT !.page = @ + 1, !.loading = TRUE,
                         !.history = Append(SubSeq(@, 1, desk.page), desk.next)])

-----------------------------------------------------------------------------
(* What the buttons of a row allow.                                        *)
CanReset(u) == u # 1 /\ ~desk.items[u].super /\ (viewer = "super" \/ desk.items[u].role # "ADMIN")

CanTransferTo(u) ==
    viewer = "super" /\ u # 1 /\ ~desk.items[u].super /\ desk.items[u].role = "ADMIN" /\ desk.items[u].status = "ACTIVE"

CanDelete(u) == viewer = "super" /\ u # 1 /\ ~desk.items[u].super

Opens(what, u, set) ==
    /\ Free /\ u \in DOMAIN desk.items
    /\ dialog' = [NoDialog EXCEPT !.what = what, !.who = u, !.set = set]
    /\ UNCHANGED <<registry, viewer, desk, drawer, credential, trips>>

RowAction(u) ==
    /\ u \in DOMAIN desk.items
    /\ \/ ~desk.items[u].super /\ Opens("status", u, IF desk.items[u].status = "ACTIVE" THEN "DISABLED" ELSE "ACTIVE")
       \/ CanDelete(u) /\ Opens("delete", u, "none")
       \/ CanTransferTo(u) /\ Opens("transfer", u, "none")

(* resetPassword asks at once.                                             *)
ResetPassword(u) ==
    /\ Free /\ u \in DOMAIN desk.items /\ CanReset(u)
    /\ Sends(Trip("reset", u, "none"))
    /\ UNCHANGED <<registry, viewer, desk, drawer, dialog, credential>>

-----------------------------------------------------------------------------
(* The drawer.                                                             *)
OpenCreate ==
    /\ Free /\ drawer' = [open |-> TRUE, who |-> 0, seen |-> Vacant, role |-> "FARMER"]
    /\ UNCHANGED <<registry, viewer, desk, dialog, credential, trips>>

OpenEdit(u) ==
    /\ Free /\ u \in DOMAIN desk.items
    /\ drawer' = [open |-> TRUE, who |-> u, seen |-> desk.items[u], role |-> desk.items[u].role]
    /\ Sends(Trip("detail", u, "none"))
    /\ UNCHANGED <<registry, viewer, desk, dialog, credential>>

(* The detail replaces the account that is edited, whichever that is now.  *)
DetailArrives(t) ==
    /\ Answered(t) /\ t.what = "detail" /\ trips' = trips \ {t}
    /\ drawer' = IF Refused(t) THEN drawer
                 ELSE [drawer EXCEPT !.who = t.who, !.seen = t.answer, !.role = t.answer.role]
    /\ UNCHANGED <<registry, viewer, desk, dialog, credential>>

CloseDrawer ==
    /\ viewer # "gone" /\ drawer.open /\ dialog = NoDialog
    /\ drawer' = [drawer EXCEPT !.open = FALSE]
    /\ UNCHANGED <<registry, viewer, desk, dialog, credential, trips>>

(* Another role of an account that exists is confirmed first.              *)
ChooseRole(role) ==
    /\ viewer # "gone" /\ drawer.open /\ dialog = NoDialog /\ role # drawer.role /\ ~drawer.seen.super
    /\ IF drawer.who # 0
       THEN dialog' = [NoDialog EXCEPT !.what = "role", !.set = role] /\ UNCHANGED drawer
       ELSE drawer' = [drawer EXCEPT !.role = role] /\ UNCHANGED dialog
    /\ UNCHANGED <<registry, viewer, desk, credential, trips>>

(* persistUser: of the account that the drawer edits at that moment, or of *)
(* a new one, wherever the list puts it.                                   *)
PersistUser(role, confirmed) ==
    IF drawer.who # 0 THEN Sends([Trip("role", drawer.who, role) EXCEPT !.confirmed = confirmed])
    ELSE \E u \in People : registry[u] = Vacant /\ Sends(Trip("create", u, role))

(* saveUser: a change of the role is confirmed again before it is sent.    *)
SaveUser ==
    /\ viewer # "gone" /\ drawer.open /\ dialog = NoDialog
    /\ IF drawer.who # 0 /\ drawer.role # drawer.seen.role
       THEN dialog' = [NoDialog EXCEPT !.what = "save", !.set = drawer.role] /\ UNCHANGED trips
       ELSE PersistUser(drawer.role, FALSE) /\ UNCHANGED dialog
    /\ UNCHANGED <<registry, viewer, desk, drawer, credential>>

-----------------------------------------------------------------------------
(* The dialogs.  A confirmation stays, busy, until its request is answered.*)
CloseDialog ==
    /\ viewer # "gone" /\ dialog # NoDialog /\ ~dialog.busy
    /\ dialog' = NoDialog
    /\ UNCHANGED <<registry, viewer, desk, drawer, credential, trips>>

ConfirmRole ==
    /\ viewer # "gone" /\ dialog.what = "role"
    /\ drawer' = [drawer EXCEPT !.role = dialog.set] /\ dialog' = NoDialog
    /\ UNCHANGED <<registry, viewer, desk, credential, trips>>

Confirm ==
    /\ viewer # "gone" /\ dialog.what \notin {"none", "role"} /\ ~dialog.busy
    /\ dialog' = [dialog EXCEPT !.busy = TRUE]
    /\ IF dialog.what = "save" THEN PersistUser(dialog.set, TRUE)
       ELSE Sends([Trip(dialog.what, dialog.who, dialog.set) EXCEPT !.confirmed = TRUE])
    /\ UNCHANGED <<registry, viewer, desk, drawer, credential>>

(* A busy dialog closes with the answer to its own request; a transfer that*)
(* was refused keeps its dialog for another attempt.                       *)
Settles(t) ==
    dialog' = IF ~t.confirmed THEN dialog
              ELSE IF t.what = "transfer" THEN [dialog EXCEPT !.busy = FALSE] ELSE NoDialog

Replaced(t) == [desk EXCEPT !.items = [u \in DOMAIN @ |-> IF u = t.who THEN t.answer ELSE @[u]]]

(* The answers.  A refused one only shows its error.                       *)
Saved(t) ==
    /\ t.what \in {"role", "create"}
    /\ drawer' = IF Refused(t) THEN drawer ELSE [drawer EXCEPT !.open = FALSE]
    /\ desk' = IF Refused(t) THEN desk
               ELSE IF t.what = "role" THEN Replaced(t)
               ELSE [desk EXCEPT !.items = [u \in DOMAIN @ \cup {t.who} |-> IF u = t.who THEN t.answer ELSE @[u]]]
    /\ credential' = IF t.what = "create" /\ ~Refused(t) THEN t.who ELSE credential
    /\ UNCHANGED viewer

StatusSaved(t) ==
    /\ t.what = "status" /\ desk' = IF Refused(t) THEN desk ELSE Replaced(t)
    /\ UNCHANGED <<viewer, drawer, credential>>

PasswordReset(t) ==
    /\ t.what = "reset" /\ desk' = IF Refused(t) THEN desk ELSE Replaced(t)
    /\ credential' = IF Refused(t) THEN credential ELSE t.who
    /\ UNCHANGED <<viewer, drawer>>

Deleted(t) ==
    /\ t.what = "delete"
    /\ desk' = IF Refused(t) THEN desk
               ELSE [desk EXCEPT !.items = [u \in DOMAIN @ |-> IF u = t.who THEN [@[u] EXCEPT !.status = "DISABLED"]
                                                               ELSE @[u]]]
    /\ UNCHANGED <<viewer, drawer, credential>>

Transferred(t) ==
    /\ t.what = "transfer" /\ viewer' = IF Refused(t) THEN viewer ELSE "gone"
    /\ UNCHANGED <<desk, drawer, credential>>

ChangeArrives(t) ==
    /\ Answered(t) /\ trips' = trips \ {t} /\ Settles(t)
    /\ Saved(t) \/ StatusSaved(t) \/ PasswordReset(t) \/ Deleted(t) \/ Transferred(t)
    /\ UNCHANGED registry

(* The temporary password leaves once it is said to be saved.              *)
CredentialSaved ==
    /\ viewer # "gone" /\ credential # 0 /\ credential' = 0
    /\ UNCHANGED <<registry, viewer, desk, drawer, dialog, trips>>

-----------------------------------------------------------------------------
AccountsInit ==
    /\ viewer \in {"super", "admin"}
    /\ registry = [u \in People |-> IF u = 1 THEN [Account("ADMIN") EXCEPT !.super = (viewer = "super")]
                                    ELSE IF u = MaxPeople THEN Vacant
                                    ELSE Account(IF u = 2 THEN "ADMIN" ELSE "FARMER")]
    /\ desk = [items |-> [u \in {} |-> Vacant], next |-> 0, history |-> <<0>>, page |-> 1, loading |-> TRUE,
               failed |-> FALSE, of |-> 0]
    /\ drawer = [open |-> FALSE, who |-> 0, seen |-> Vacant, role |-> "FARMER"]
    /\ dialog = NoDialog /\ credential = 0
    /\ trips = {Trip("list", 0, "none")}

AccountsNext ==
    \/ \E t \in trips : ServeTrip(t) \/ UsersArrive(t) \/ DetailArrives(t) \/ ChangeArrives(t)
    \/ FilterUsers \/ PreviousUsers \/ NextUsers
    \/ \E u \in People : RowAction(u) \/ ResetPassword(u) \/ OpenEdit(u)
    \/ \E role \in Roles : ChooseRole(role)
    \/ OpenCreate \/ CloseDrawer \/ SaveUser
    \/ CloseDialog \/ ConfirmRole \/ Confirm \/ CredentialSaved

-----------------------------------------------------------------------------
(* A list that is loading and a dialog that is busy wait for an answer that*)
(* the page will hear.                                                     *)
AccountsWait ==
    viewer # "gone" =>
    /\ desk.loading => \E t \in trips : t.what = "list" /\ Heard(t)
    /\ dialog.busy => \E t \in trips : t.confirmed

(* When no list is awaited and the last one did not fail, the rows are of  *)
(* the page whose number is shown.                                         *)
RowsAreOfThePage ==
    viewer # "gone" /\ ~desk.failed /\ (\A t \in trips : t.what = "list" => ~t.active) =>
        desk.of = desk.history[desk.page]
=============================================================================
