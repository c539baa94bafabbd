---------------------------- MODULE SourcePages ----------------------------
(***************************************************************************)
(* The page of the API sources in the web client: the list with a check of *)
(* each source's connection, the errands on a source, the dialog that      *)
(* reveals its key and the manager of its grants.  Each asks on its own    *)
(* and shares the panel, its busy mark and its generations with the others.*)
(* The times and outcomes of the checks are left out.                      *)
(***************************************************************************)
EXTENDS Naturals, FiniteSets, FiniteSetsExt

CONSTANTS
    Origins,     \* sources
    Nodes,       \* stations of the source whose access is managed
    MaxGuests,   \* bound on its recipients, numbered in the order of the list
    GrantLimit,  \* a page of grants
    Emails,      \* what is typed in the search
    Missing,
    MaxFills,    \* bound on the generations of the list
    MaxReveals,  \* bound on the generations of the reveal
    MaxSaves,    \* bound on the changes of grants
    MaxSeeks,    \* bound on the generations of the search
    MaxOpenings  \* bound on the openings of the manager

ASSUME SourcePagesAssumption ==
    /\ Missing \notin Origins \cup Nodes \cup Emails
    /\ {MaxGuests, MaxFills, MaxReveals, MaxSaves, MaxSeeks, MaxOpenings} \subseteq Nat
    /\ GrantLimit \in Nat \ {0}

VARIABLES
    panel,    \* sources, loading, refreshing, error, checks, generation, importSource
    fills,    \* runs of loadSources
    busyId,
    errands,  \* creations, tests, removals and imports under way
    reveal,   \* the dialog: its source, the key, its timer, its generation
    reveals,  \* its calls
    granted,  \* the server: the stations of each recipient
    manager,  \* the manager of the grants, if it is open
    opened,   \* managers opened so far
    talks,    \* their calls
    seeks,    \* their searches
    saves,    \* changes so far
    strays    \* history: a change was applied that the manager was not told of

panelVars == <<panel, fills, busyId, errands>>
revealVars == <<reveal, reveals>>
accessVars == <<granted, manager, opened, talks, seeks, saves, strays>>
sourceVars == <<panelVars, revealVars, accessVars>>

Guests == 1 .. MaxGuests

-----------------------------------------------------------------------------
(* The list.  loadSources begins a generation.                             *)
Fill(g) == [gen |-> g, at |-> "list", left |-> {}, out |-> {}]

LoadSources ==
    /\ panel.fill < MaxFills
    /\ panel' = [panel EXCEPT !.fill = @ + 1, !.refreshing = TRUE, !.error = FALSE,
                              !.checks = [o \in DOMAIN @ |-> "CHECKING"]]
    /\ fills' = fills \cup {Fill(panel.fill + 1)}

CurrentFill(f) == f.gen = panel.fill

Rested(p) == [p EXCEPT !.loading = FALSE, !.refreshing = FALSE]

(* The list arrives, with any sources, and the checks of it begin, two at  *)
(* a time; or it fails.                                                    *)
ListArrives(f) ==
    /\ f \in fills /\ f.at = "list"
    /\ \/ ~CurrentFill(f) /\ fills' = fills \ {f} /\ UNCHANGED panel
       \/ /\ CurrentFill(f) /\ fills' = fills \ {f}
          /\ panel' = Rested([panel EXCEPT !.items = {}, !.checks = [o \in {} |-> "CHECKING"], !.error = TRUE])
       \/ /\ CurrentFill(f)
          /\ \E S \in SUBSET Origins :
               LET listed == [panel EXCEPT !.items = S, !.checks = [o \in S |-> "CHECKING"], !.loading = FALSE]
               IN IF S = {} THEN panel' = Rested(listed) /\ fills' = fills \ {f}
                  ELSE /\ panel' = listed
                       /\ \E out \in SUBSET S :
                            /\ Cardinality(out) = IF Cardinality(S) < 2 THEN 1 ELSE 2
                            /\ fills' = (fills \ {f}) \cup {[f EXCEPT !.at = "checks", !.out = out, !.left = S \ out]}
    /\ UNCHANGED <<busyId, errands, revealVars, accessVars>>

(* refreshSourceConnections: a worker publishes its check and takes the    *)
(* next, while the generation is the current one.                          *)
CheckArrives(f, o) ==
    /\ f \in fills /\ o \in f.out
    /\ IF ~CurrentFill(f)
       THEN /\ fills' = (fills \ {f}) \cup (IF f.out = {o} THEN {} ELSE {[f EXCEPT !.out = @ \ {o}]})
            /\ UNCHANGED panel
       ELSE \E result \in {"VERIFIED", "UNVERIFIED"} :
            LET checked == [panel EXCEPT !.checks = [x \in DOMAIN @ \cup {o} |-> IF x = o THEN result ELSE @[x]]] IN
            IF f.left # {}
            THEN /\ panel' = checked
                 /\ \E n \in f.left : fills' = (fills \ {f})
                                        \cup {[f EXCEPT !.out = (@ \ {o}) \cup {n}, !.left = @ \ {n}]}
            ELSE IF f.out # {o}
            THEN panel' = checked /\ fills' = (fills \ {f}) \cup {[f EXCEPT !.out = @ \ {o}]}
            ELSE panel' = Rested(checked) /\ fills' = fills \ {f}
    /\ UNCHANGED <<busyId, errands, revealVars, accessVars>>

RefreshEnabled == ~panel.refreshing /\ busyId = Missing

RefreshSources ==
    /\ RefreshEnabled \/ panel.error
    /\ LoadSources /\ UNCHANGED <<busyId, errands, revealVars, accessVars>>

-----------------------------------------------------------------------------
(* The errands: addSource, testConnection, confirmRemoveSource and the     *)
(* import of new stations, which keeps a busy mark of its own.             *)
Errand(what, o) == [what |-> what, source |-> o, awaits |-> 0]

StartErrand(what, o) ==
    /\ CASE what = "create" -> o \notin panel.items /\ busyId # "create"
         [] what = "test" -> o \in panel.items /\ ~panel.refreshing /\ busyId # o
         [] what = "remove" -> o \in panel.items
         [] what = "import" -> panel.found = o /\ Errand(what, o) \notin errands
    /\ errands' = errands \cup {Errand(what, o)}
    /\ IF what = "import" THEN UNCHANGED <<busyId, panel>>
       ELSE /\ busyId' = IF what = "create" THEN what ELSE o
            /\ panel' = [panel EXCEPT !.error = FALSE]
    /\ UNCHANGED <<fills, revealVars, accessVars>>

Checked(p, o) == [p EXCEPT !.checks = [x \in DOMAIN @ \cup {o} |-> IF x = o THEN "VERIFIED" ELSE @[x]]]

ErrandSucceeds(e) ==
    /\ e \in errands /\ e.awaits = 0 /\ errands' = errands \ {e}
    /\ CASE e.what = "create" -> panel' = Checked([panel EXCEPT !.items = @ \cup {e.source}, !.found = Missing], e.source)
         [] e.what = "test" -> \E found \in {e.source, Missing} :
                                 panel' = Checked([panel EXCEPT !.found = found], e.source)
         [] e.what = "remove" -> panel' = [panel EXCEPT !.items = @ \ {e.source}, !.found = Missing]
         [] e.what = "import" -> panel' = [panel EXCEPT !.found = Missing]
    /\ busyId' = IF e.what = "import" THEN busyId ELSE Missing
    /\ UNCHANGED <<fills, revealVars, accessVars>>

(* A test that fails reads the list again before it ends.                  *)
ErrandFails(e) ==
    /\ e \in errands /\ e.awaits = 0
    /\ IF e.what = "test"
       THEN /\ LoadSources
            /\ errands' = (errands \ {e}) \cup {[e EXCEPT !.awaits = panel.fill + 1]}
            /\ UNCHANGED busyId
       ELSE /\ errands' = errands \ {e} /\ UNCHANGED fills
            /\ busyId' = IF e.what = "import" THEN busyId ELSE Missing
            /\ panel' = IF e.what = "import" THEN panel ELSE [panel EXCEPT !.error = TRUE]
    /\ UNCHANGED <<revealVars, accessVars>>

(* The nodes that a test has found are left for later.                     *)
LeaveForLater ==
    /\ panel.found # Missing
    /\ panel' = [panel EXCEPT !.found = Missing]
    /\ UNCHANGED <<fills, busyId, errands, revealVars, accessVars>>

FailedTestEnds(e) ==
    /\ e \in errands /\ e.awaits # 0 /\ \A f \in fills : f.gen # e.awaits
    /\ errands' = errands \ {e} /\ busyId' = Missing /\ panel' = [panel EXCEPT !.error = TRUE]
    /\ UNCHANGED <<fills, revealVars, accessVars>>

-----------------------------------------------------------------------------
(* The dialog that reveals a key.                                          *)
OpenReveal(o) ==
    /\ o \in panel.items /\ reveal.source = Missing /\ reveal.gen < MaxReveals
    /\ reveal' = [reveal EXCEPT !.source = o]
    /\ UNCHANGED <<reveals, panelVars, accessVars>>

RevealKey ==
    /\ reveal.source # Missing /\ reveal.key = Missing /\ busyId # "reveal" /\ reveal.gen < MaxReveals
    /\ reveal' = [reveal EXCEPT !.gen = @ + 1] /\ busyId' = "reveal"
    /\ reveals' = reveals \cup {[gen |-> reveal.gen + 1, source |-> reveal.source]}
    /\ UNCHANGED <<panel, fills, errands, accessVars>>

(* By the user, and by the timer of a key that is shown.                   *)
CloseReveal ==
    /\ reveal.source # Missing
    /\ reveal' = [source |-> Missing, key |-> Missing, timer |-> FALSE, gen |-> reveal.gen + 1]
    /\ busyId' = IF busyId = "reveal" THEN Missing ELSE busyId
    /\ UNCHANGED <<reveals, panel, fills, errands, accessVars>>

CurrentReveal(a) == a.gen = reveal.gen

RevealArrives(a) ==
    /\ a \in reveals /\ reveals' = reveals \ {a}
    /\ IF CurrentReveal(a)
       THEN /\ busyId' = Missing
            /\ \/ reveal' = [reveal EXCEPT !.key = a.source, !.timer = TRUE]
               \/ UNCHANGED reveal
       ELSE UNCHANGED <<busyId, reveal>>
    /\ UNCHANGED <<panel, fills, errands, accessVars>>

-----------------------------------------------------------------------------
(* The manager of the grants.  listGrants: a page after a cursor, in an    *)
(* order that stays while the list is walked.                              *)
Listable(after) == {g \in Guests : g > after /\ granted[g] # {}}

GrantPage(after) ==
    LET page == {g \in Listable(after) : Cardinality({k \in Listable(after) : k < g}) < GrantLimit}
    IN [known |-> [g \in page |-> granted[g]], next |-> IF page = Listable(after) THEN 0 ELSE Max(page)]

With(known, page) == [g \in DOMAIN known \cup DOMAIN page.known |->
                        IF g \in DOMAIN known THEN known[g] ELSE page.known[g]]

Talk(what, g, set, known, cursor) ==
    [by |-> opened, what |-> what, guest |-> g, set |-> set, known |-> known, cursor |-> cursor, at |-> "sent"]

NoGrants == [g \in {} |-> {}]

OpenAccess ==
    /\ manager = Missing /\ opened < MaxOpenings
    /\ opened' = opened + 1
    /\ manager' = [at |-> "loading", known |-> NoGrants, cursor |-> 0, recipient |-> 0, existing |-> {},
                   busy |-> FALSE, email |-> Missing, gen |-> 0, found |-> {}, searching |-> FALSE]
    /\ talks' = talks \cup {[Talk("init", 0, {}, NoGrants, 0) EXCEPT !.by = opened + 1]}
    /\ strays' = FALSE
    /\ UNCHANGED <<granted, seeks, saves, panelVars, revealVars>>

CloseAccess ==
    /\ manager # Missing /\ manager' = Missing
    /\ UNCHANGED <<granted, opened, talks, seeks, saves, strays, panelVars, revealVars>>

Idle == manager # Missing /\ manager.at = "ready" /\ ~manager.busy

(* Typing drops what an earlier search found or may find.                  *)
TypeEmail(q) ==
    /\ Idle /\ q # manager.email /\ manager.gen < MaxSeeks
    /\ manager' = [manager EXCEPT !.email = q, !.gen = @ + 1, !.found = {}, !.searching = FALSE]
    /\ UNCHANGED <<granted, opened, talks, seeks, saves, strays, panelVars, revealVars>>

Search(more) ==
    /\ Idle /\ manager.email # Missing /\ ~manager.searching /\ manager.gen < MaxSeeks
    /\ more => manager.found # {}
    /\ manager' = [manager EXCEPT !.gen = @ + 1, !.searching = TRUE]
    /\ seeks' = seeks \cup {[by |-> opened, gen |-> manager.gen + 1, query |-> manager.email, more |-> more]}
    /\ UNCHANGED <<granted, opened, talks, saves, strays, panelVars, revealVars>>

Active(t) == manager # Missing /\ t.by = opened

SearchArrives(s) ==
    /\ s \in seeks /\ seeks' = seeks \ {s}
    /\ IF Active(s) /\ s.gen = manager.gen
       THEN \/ manager' = [manager EXCEPT !.searching = FALSE,
                                !.found = IF s.more THEN @ \cup {s.query} ELSE {s.query}]
            \/ manager' = [manager EXCEPT !.searching = FALSE]
       ELSE UNCHANGED manager
    /\ UNCHANGED <<granted, opened, talks, saves, strays, panelVars, revealVars>>

Edits(m, g, known, cursor) ==
    [m EXCEPT !.known = known, !.cursor = cursor, !.recipient = g, !.found = {}, !.busy = FALSE,
              !.existing = IF g \in DOMAIN known THEN known[g] ELSE {}]

(* selectRecipient looks for the recipient on the further pages of the     *)
(* grants before it is edited.  Mutant: only on those that are known.      *)
ResolvedAsKnown(g, known, cursor) == TRUE

Resolved(g, known, cursor) == g \in DOMAIN known \/ cursor = 0

SelectRecipient(g) ==
    /\ Idle /\ manager.gen < MaxSeeks
    /\ LET m == [manager EXCEPT !.gen = @ + 1, !.searching = FALSE] IN
       IF Resolved(g, m.known, m.cursor)
       THEN manager' = Edits(m, g, m.known, m.cursor) /\ UNCHANGED talks
       ELSE /\ manager' = [m EXCEPT !.busy = TRUE]
            /\ talks' = talks \cup {Talk("walk", g, {}, m.known, m.cursor)}
    /\ UNCHANGED <<granted, opened, seeks, saves, strays, panelVars, revealVars>>

Save(set) ==
    /\ Idle /\ manager.recipient # 0 /\ set # manager.existing /\ saves < MaxSaves
    /\ saves' = saves + 1
    /\ manager' = [manager EXCEPT !.busy = TRUE]
    /\ talks' = talks \cup {Talk("write", manager.recipient, set, NoGrants, 0)}
    /\ UNCHANGED <<granted, opened, seeks, strays, panelVars, revealVars>>

CancelEdit ==
    /\ Idle /\ manager.recipient # 0
    /\ manager' = [manager EXCEPT !.recipient = 0]
    /\ UNCHANGED <<granted, opened, talks, seeks, saves, strays, panelVars, revealVars>>

LoadMoreGrants ==
    /\ Idle /\ manager.cursor # 0
    /\ manager' = [manager EXCEPT !.busy = TRUE]
    /\ talks' = talks \cup {Talk("more", 0, {}, NoGrants, manager.cursor)}
    /\ UNCHANGED <<granted, opened, seeks, saves, strays, panelVars, revealVars>>

(* The server applies a change or refuses it, even one nobody waits for.   *)
ServeSave(t) ==
    /\ t \in talks /\ t.what = "write" /\ t.at = "sent"
    /\ \/ /\ granted' = [granted EXCEPT ![t.guest] = t.set]
          /\ talks' = (talks \ {t}) \cup (IF t.by = 0 THEN {} ELSE {[t EXCEPT !.at = "applied"]})
          /\ strays' = (strays \/ ~Active(t))
       \/ /\ talks' = (talks \ {t}) \cup (IF t.by = 0 THEN {} ELSE {[t EXCEPT !.at = "refused"]})
          /\ UNCHANGED <<granted, strays>>
    /\ UNCHANGED <<manager, opened, seeks, saves, panelVars, revealVars>>

(* The answers.  A manager that was closed hears of none.                  *)
Unheard(t) ==
    /\ ~Active(t) /\ (t.what = "write" => t.at # "sent")
    /\ talks' = talks \ {t} /\ UNCHANGED <<manager, panel, fills, strays>>

GrantsArrive(t) ==
    LET page == GrantPage(t.cursor) known == With(t.known, page) ready == [manager EXCEPT !.busy = FALSE] IN
    /\ Active(t) /\ UNCHANGED <<panel, fills, strays>>
    /\ IF t.what = "walk" /\ ~Resolved(t.guest, known, page.next)
       THEN /\ talks' = (talks \ {t}) \cup {[t EXCEPT !.known = known, !.cursor = page.next]}
            /\ UNCHANGED manager
       ELSE /\ talks' = talks \ {t}
            /\ CASE t.what \in {"init", "reload"} ->
                      manager' = [ready EXCEPT !.at = "ready", !.known = page.known, !.cursor = page.next]
                 [] t.what = "more" -> manager' = [ready EXCEPT !.known = With(@, page), !.cursor = page.next]
                 [] t.what = "walk" -> manager' = Edits(manager, t.guest, known, page.next)

GrantsFail(t) ==
    /\ Active(t) /\ talks' = talks \ {t}
    /\ manager' = [manager EXCEPT !.busy = FALSE, !.at = IF t.what \in {"init", "reload"} THEN "failed" ELSE @]
    /\ UNCHANGED <<panel, fills, strays>>

(* A change that succeeded is followed by the page's list and the grants'. *)
SaveSucceeds(t) ==
    /\ Active(t) /\ t.at = "applied"
    /\ manager' = [manager EXCEPT !.recipient = 0]
    /\ LoadSources
    /\ talks' = (talks \ {t}) \cup {Talk("reload", 0, {}, NoGrants, 0)}
    /\ UNCHANGED strays

SaveFails(t) ==
    /\ Active(t) /\ manager' = [manager EXCEPT !.busy = FALSE]
    /\ \/ t.at = "refused" /\ talks' = talks \ {t} /\ UNCHANGED strays
       \/ t.at = "applied" /\ talks' = talks \ {t} /\ strays' = TRUE
       \/ t.at = "sent" /\ talks' = (talks \ {t}) \cup {[t EXCEPT !.by = 0]} /\ strays' = TRUE
    /\ UNCHANGED <<panel, fills>>

TalkEnds(t) ==
    /\ t \in talks
    /\ \/ Unheard(t)
       \/ t.what # "write" /\ (GrantsArrive(t) \/ GrantsFail(t))
       \/ t.what = "write" /\ (SaveSucceeds(t) \/ SaveFails(t))
    /\ UNCHANGED <<busyId, errands, revealVars, granted, opened, seeks, saves>>

-----------------------------------------------------------------------------
SourceInit ==
    /\ panel = [items |-> {}, loading |-> TRUE, refreshing |-> TRUE, error |-> FALSE,
                checks |-> [o \in {} |-> "CHECKING"], fill |-> 1, found |-> Missing]
    /\ fills = {Fill(1)} /\ busyId = Missing /\ errands = {}
    /\ reveal = [source |-> Missing, key |-> Missing, timer |-> FALSE, gen |-> 0] /\ reveals = {}
    /\ manager = Missing /\ opened = 0 /\ talks = {} /\ seeks = {} /\ saves = 0 /\ strays = FALSE

PanelNext ==
    \/ \E f \in fills : ListArrives(f)
    \/ \E f \in fills, o \in Origins : CheckArrives(f, o)
    \/ RefreshSources \/ LeaveForLater
    \/ \E what \in {"create", "test", "remove", "import"}, o \in Origins : StartErrand(what, o)
    \/ \E e \in errands : ErrandSucceeds(e) \/ ErrandFails(e) \/ FailedTestEnds(e)

RevealNext ==
    \/ \E o \in Origins : OpenReveal(o)
    \/ RevealKey \/ CloseReveal
    \/ \E a \in reveals : RevealArrives(a)

AccessNext ==
    \/ OpenAccess \/ CloseAccess
    \/ \E q \in Emails : TypeEmail(q)
    \/ \E more \in BOOLEAN : Search(more)
    \/ \E s \in seeks : SearchArrives(s)
    \/ \E g \in Guests : SelectRecipient(g)
    \/ \E set \in SUBSET Nodes : Save(set)
    \/ CancelEdit \/ LoadMoreGrants
    \/ \E t \in talks : ServeSave(t) \/ TalkEnds(t)

-----------------------------------------------------------------------------
(* A list that is loading or refreshing, and a source that is shown as     *)
(* being checked, have a run of the current generation under way.          *)
SourcesWait ==
    /\ panel.loading \/ panel.refreshing => \E f \in fills : CurrentFill(f)
    /\ \A o \in DOMAIN panel.checks : panel.checks[o] = "CHECKING" =>
         \E f \in fills : CurrentFill(f) /\ (f.at = "list" \/ o \in f.left \cup f.out)

(* A key is shown only in the dialog of its own source, and never without  *)
(* the timer that takes it away.                                           *)
RevealedKeyIsWatched == reveal.key # Missing => reveal.key = reveal.source /\ reveal.timer

(* An edit of a recipient starts from all the stations it has: saving      *)
(* replaces them.  Except after a change the manager was not told of.      *)
EditStartsFromTheGrants ==
    manager # Missing =>
    /\ manager.recipient # 0 /\ ~strays /\ (\A t \in talks : t.what # "write") =>
         manager.existing = granted[manager.recipient]
    /\ manager.found \subseteq {manager.email}
=============================================================================
