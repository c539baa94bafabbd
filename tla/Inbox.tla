------------------------------- MODULE Inbox -------------------------------
(***************************************************************************)
(* The notifications of one user: what the server lists and marks, and the *)
(* two views of them in the web client, the inbox page with its filter and *)
(* older pages, and the menu of the top bar.  A call is served at one      *)
(* moment and its answer arrives at a later one.  A view lists its items   *)
(* newest first, that is from the highest number down; here they are a set.*)
(***************************************************************************)
EXTENDS Naturals, FiniteSets

CONSTANTS
    MaxMail,     \* bound on the notifications; a later one has a higher number
    PageSize,    \* limit of a page
    MenuSize,    \* limit of the menu
    MaxLoads,    \* bound on the generations of the two views
    MaxMarks,    \* bound on the marks
    MaxAbsences  \* bound on the refusals the page hears of

ASSUME InboxAssumption ==
    /\ {MaxMail, MaxLoads, MaxMarks, MaxAbsences} \subseteq Nat
    /\ {PageSize, MenuSize} \subseteq Nat \ {0}

VARIABLES
    mail,     \* the notifications of the user: "none", "unread" or "read"
    allowed,  \* the user may read them: role, status and scope
    inbox,    \* the state of the page
    menu,     \* the state of the menu
    mails,    \* calls under way
    marks,    \* marks so far
    absences  \* history: the refusals the page has heard of

inboxVars == <<mail, allowed, inbox, menu, mails, marks, absences>>

-----------------------------------------------------------------------------
Mail == 1 .. MaxMail

There == {n \in Mail : mail[n] # "none"}

(* NotificationService.list: the newest before the cursor, one more than   *)
(* the limit to know of a next page, and the number of unread ones.        *)
Listed(unread, cursor, limit) ==
    LET match == {n \in There : (unread => mail[n] = "unread") /\ (cursor # 0 => n < cursor)}
        ahead(n) == Cardinality({k \in match : k > n})
        page == {n \in match : ahead(n) < limit}
    IN [out |-> "page", items |-> {[id |-> n, read |-> mail[n] = "read"] : n \in page},
        next |-> IF Cardinality(match) > limit THEN CHOOSE n \in page : \A k \in page : n <= k ELSE 0,
        unread |-> Cardinality({n \in There : mail[n] = "unread"})]

Nothing == [out |-> "none"]

Failed == [out |-> "failed"]

Of(what, by, gen, unread, cursor, id, read) ==
    [what |-> what, by |-> by, gen |-> gen, unread |-> unread, cursor |-> cursor, id |-> id,
     read |-> read, told |-> absences, at |-> "sent", result |-> Nothing]

(* list and patch.  A mark that the notification has already is answered   *)
(* with it, too.                                                           *)
Serve(c) ==
    /\ c \in mails /\ c.at = "sent"
    /\ LET answer(r) == mails' = (mails \ {c}) \cup {[c EXCEPT !.at = "answered", !.result = r]} IN
       IF ~allowed THEN answer([out |-> "refused"]) /\ UNCHANGED mail
       ELSE IF c.what = "mark"
       THEN /\ mail' = [mail EXCEPT ![c.id] = IF c.read THEN "read" ELSE "unread"]
            /\ answer([out |-> "mark", id |-> c.id, read |-> c.read])
       ELSE answer(Listed(c.unread, c.cursor, IF c.by = "menu" THEN MenuSize ELSE PageSize)) /\ UNCHANGED mail
    /\ UNCHANGED <<allowed, inbox, menu, marks, absences>>

Notified ==
    /\ \E n \in Mail : /\ n \notin There /\ \A k \in 1 .. n - 1 : k \in There
                       /\ mail' = [mail EXCEPT ![n] = "unread"]
    /\ UNCHANGED <<allowed, inbox, menu, mails, marks, absences>>

AccessChanges ==
    /\ absences < MaxAbsences /\ allowed' = ~allowed
    /\ UNCHANGED <<mail, inbox, menu, mails, marks, absences>>

-----------------------------------------------------------------------------
(* The page.                                                               *)
InboxInit ==
    /\ mail = [n \in Mail |-> "none"] /\ allowed = TRUE
    /\ inbox = [items |-> {}, unread |-> 0, next |-> 0, filter |-> FALSE, gen |-> 1, loading |-> TRUE,
                more |-> FALSE, marking |-> 0, error |-> FALSE]
    /\ menu = [items |-> {}, unread |-> 0, gen |-> 1, loading |-> TRUE, marking |-> 0, error |-> FALSE]
    /\ absences = 0 /\ marks = 0
    /\ mails = {[what |-> "list", by |-> by, gen |-> 1, unread |-> FALSE, cursor |-> 0, id |-> 0,
                 read |-> FALSE, told |-> 0, at |-> "sent", result |-> Nothing] : by \in {"page", "menu"}}

(* load: by Refresh, and by a change of the filter, which empties the page.*)
Load(filter) ==
    /\ inbox.gen < MaxLoads /\ ~inbox.loading
    /\ inbox' = [inbox EXCEPT !.gen = @ + 1, !.loading = TRUE, !.more = FALSE, !.error = FALSE,
                    !.filter = filter, !.items = IF filter = inbox.filter THEN @ ELSE {},
                    !.next = IF filter = inbox.filter THEN @ ELSE 0]
    /\ mails' = mails \cup {Of("list", "page", inbox.gen + 1, filter, 0, 0, FALSE)}
    /\ UNCHANGED <<mail, allowed, menu, marks, absences>>

LoadMore ==
    /\ inbox.next # 0 /\ ~inbox.loading /\ ~inbox.more
    /\ inbox' = [inbox EXCEPT !.more = TRUE, !.error = FALSE]
    /\ mails' = mails \cup {Of("more", "page", inbox.gen, inbox.filter, inbox.next, 0, FALSE)}
    /\ UNCHANGED <<mail, allowed, menu, marks, absences>>

ToggleRead(item) ==
    /\ ~inbox.loading /\ inbox.marking # item.id /\ marks < MaxMarks
    /\ marks' = marks + 1
    /\ inbox' = [inbox EXCEPT !.marking = item.id, !.error = FALSE]
    /\ mails' = mails \cup {Of("mark", "page", inbox.gen, FALSE, 0, item.id, ~item.read)}
    /\ UNCHANGED <<mail, allowed, menu, absences>>

Told(page, c) == {[id |-> x.id, read |-> x.read, told |-> c.told] : x \in page}

(* appendNotificationItems                                                 *)
AppendNotificationItems(items, older) ==
    items \cup {x \in older : \A y \in items : y.id # x.id}

Marked(items, r) == {IF x.id = r.id THEN [x EXCEPT !.read = r.read] ELSE x : x \in items}

Adjusted(n, r) == IF r.read THEN (IF n = 0 THEN 0 ELSE n - 1) ELSE n + 1

Took(b, c) ==
    CASE c.what = "list" -> [b EXCEPT !.items = Told(c.result.items, c), !.unread = c.result.unread,
                                      !.next = c.result.next]
      [] c.what = "more" -> [b EXCEPT !.items = AppendNotificationItems(@, Told(c.result.items, c)),
                                      !.unread = c.result.unread, !.next = c.result.next]
      [] c.what = "mark" ->
           [b EXCEPT !.items = IF b.filter /\ c.result.read
                               THEN {x \in @ : x.id # c.result.id} ELSE Marked(@, c.result),
                     !.unread = Adjusted(@, c.result)]

(* purgeAccess: nothing is kept and no call under way counts any more.     *)
(* Mutant: the calls under way still count.                                *)
PurgeAccessOnly(b) == [b EXCEPT !.items = {}, !.unread = 0, !.next = 0, !.loading = FALSE,
                                !.more = FALSE, !.marking = 0]

PurgeAccess(b) == [b EXCEPT !.gen = @ + 1, !.items = {}, !.unread = 0, !.next = 0, !.loading = FALSE,
                            !.more = FALSE, !.marking = 0]

(* The finally of a call, of its own generation only for a load.           *)
Finally(b, c) ==
    CASE c.what = "list" -> IF c.gen = b.gen THEN [b EXCEPT !.loading = FALSE] ELSE b
      [] c.what = "more" -> [b EXCEPT !.more = FALSE]
      [] c.what = "mark" -> [b EXCEPT !.marking = 0]

PageHears(c, result) ==
    /\ c.by = "page" /\ UNCHANGED menu
    /\ IF c.gen # inbox.gen THEN inbox' = Finally(inbox, c) /\ UNCHANGED absences
       ELSE IF result.out = "failed"
       THEN inbox' = Finally([inbox EXCEPT !.error = TRUE], c) /\ UNCHANGED absences
       ELSE IF result.out = "refused"
       THEN /\ inbox' = Finally(PurgeAccess([inbox EXCEPT !.error = TRUE]), c)
            /\ absences' = absences + 1
       ELSE inbox' = Finally(Took(inbox, c), c) /\ UNCHANGED absences

-----------------------------------------------------------------------------
(* The menu.                                                               *)
LoadMenu ==
    /\ menu.gen < MaxLoads
    /\ menu' = [menu EXCEPT !.gen = @ + 1, !.loading = TRUE, !.error = FALSE]
    /\ mails' = mails \cup {Of("list", "menu", menu.gen + 1, FALSE, 0, 0, FALSE)}
    /\ UNCHANGED <<mail, allowed, inbox, marks, absences>>

MarkAsRead(item) ==
    /\ ~menu.loading /\ ~menu.error /\ ~item.read /\ menu.marking # item.id /\ marks < MaxMarks
    /\ marks' = marks + 1
    /\ menu' = [menu EXCEPT !.marking = item.id, !.error = FALSE]
    /\ mails' = mails \cup {Of("mark", "menu", menu.gen, FALSE, 0, item.id, TRUE)}
    /\ UNCHANGED <<mail, allowed, inbox, absences>>

MenuHears(c, result) ==
    /\ c.by = "menu" /\ UNCHANGED <<inbox, absences>>
    /\ LET failed == result.out \in {"failed", "refused"} IN
       IF c.what = "mark"
       THEN menu' = IF failed THEN [menu EXCEPT !.error = TRUE, !.marking = 0]
                    ELSE [menu EXCEPT !.items = Marked(@, result), !.marking = 0,
                                      !.unread = IF @ = 0 THEN 0 ELSE @ - 1]
       ELSE IF c.gen # menu.gen THEN UNCHANGED menu
       ELSE menu' = IF failed THEN [menu EXCEPT !.items = {}, !.unread = 0, !.error = TRUE, !.loading = FALSE]
                    ELSE [menu EXCEPT !.items = Told(result.items, c), !.unread = result.unread, !.loading = FALSE]

(* An answer arrives, or none does.                                        *)
Hear(c) ==
    /\ c \in mails /\ mails' = mails \ {c}
    /\ \/ c.at = "answered" /\ (PageHears(c, c.result) \/ MenuHears(c, c.result))
       \/ PageHears(c, Failed) \/ MenuHears(c, Failed)
    /\ UNCHANGED <<mail, allowed, marks>>

InboxNext ==
    \/ \E c \in mails : Serve(c) \/ Hear(c)
    \/ Notified \/ AccessChanges
    \/ \E filter \in BOOLEAN : Load(filter)
    \/ LoadMore
    \/ \E item \in inbox.items : ToggleRead(item)
    \/ LoadMenu
    \/ \E item \in menu.items : MarkAsRead(item)

-----------------------------------------------------------------------------
(* A view that is loading has a call under way whose answer ends it.       *)
InboxWaits ==
    /\ inbox.loading => \E c \in mails : c.what = "list" /\ c.by = "page" /\ c.gen = inbox.gen
    /\ inbox.more => \E c \in mails : c.what = "more"
    /\ menu.loading => \E c \in mails : c.what = "list" /\ c.by = "menu" /\ c.gen = menu.gen

(* Once the page has heard that the user may not read them, it shows no    *)
(* notification that was asked for before.                                 *)
InboxForgotten == \A x \in inbox.items : x.told = absences
=============================================================================
