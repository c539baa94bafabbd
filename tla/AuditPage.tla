------------------------------ MODULE AuditPage ------------------------------
(***************************************************************************)
(* The Super Admin's page of the audit log in the web client: a list with  *)
(* cursors that is asked for again whenever its filters, its page or its   *)
(* refresh number change, and whenever the user's authority does.  The     *)
(* events themselves are left out: a cursor is the depth of its page.      *)
(***************************************************************************)
EXTENDS Naturals, FiniteSets, Sequences

CONSTANTS
    Sieves,      \* filters: a result and a range of days
    MaxDepth,    \* bound on the pages of a filter
    MaxReadings  \* bound on the requests under way

ASSUME AuditPageAssumption ==
    /\ Sieves # {} /\ MaxDepth \in Nat /\ MaxReadings \in Nat \ {0}

VARIABLES
    auditor,  \* the user is the Super Admin
    log,      \* filters, cursors, pageIndex, next cursor, loading, error; history: of
    readings  \* the requests of adminAuditService under way

auditVars == <<auditor, log, readings>>

-----------------------------------------------------------------------------
Subjects(l) == [sieve |-> l.sieve, cursor |-> l.cursors[l.index]]

(* AuditService.list: the page after the cursor is the last, or has a      *)
(* cursor of its own.                                                      *)
NextCursors(of) == {0, of.cursor + 1} \cap (0 .. MaxDepth)

(* The effect: one request is active, the latest.                          *)
Reads(l, who) ==
    LET left == {[r EXCEPT !.active = FALSE] : r \in readings}
    IN /\ Cardinality(left) < MaxReadings \/ ~who
       /\ readings' = IF who THEN left \cup {[of |-> Subjects(l), active |-> TRUE]} ELSE left

(* Mutant: an answer is taken whatever was asked for since.                *)
TakesAny(r) == TRUE

TakesReading(r) == r.active

AuditArrives(r) ==
    /\ r \in readings /\ readings' = readings \ {r}
    /\ IF ~TakesReading(r) THEN UNCHANGED log
       ELSE \/ \E next \in NextCursors(r.of) :
                 log' = [log EXCEPT !.loading = FALSE, !.error = FALSE, !.next = next, !.of = r.of]
            \/ log' = [log EXCEPT !.loading = FALSE, !.error = TRUE]
    /\ UNCHANGED auditor

Shows(l) == /\ auditor /\ log' = l /\ Reads(l, auditor) /\ UNCHANGED auditor

(* applyFilters, with a valid range: the first page of the new filters.    *)
ApplyFilters ==
    \E s \in Sieves : Shows([log EXCEPT !.sieve = s, !.cursors = <<0>>, !.index = 1, !.loading = TRUE])

RefreshLog == (~log.loading \/ log.error) /\ Shows([log EXCEPT !.loading = TRUE])

PanelShows == auditor /\ ~log.loading /\ ~log.error

PreviousEvents == PanelShows /\ log.index # 1 /\ Shows([log EXCEPT !.index = @ - 1, !.loading = TRUE])

NextEvents ==
    /\ PanelShows /\ log.next # 0
    /\ Shows([log EXCEPT !.cursors = Append(SubSeq(@, 1, log.index), log.next), !.index = @ + 1, !.loading = TRUE])

(* Another user, or the same one without the authority, and back.          *)
AuditorChanges ==
    /\ auditor' = ~auditor /\ Reads(log, ~auditor)
    /\ UNCHANGED log

-----------------------------------------------------------------------------
AuditInit ==
    /\ auditor \in BOOLEAN
    /\ \E s \in Sieves : log = [sieve |-> s, cursors |-> <<0>>, index |-> 1, next |-> 0, loading |-> TRUE,
                                error |-> FALSE, of |-> [sieve |-> s, cursor |-> 0]]
    /\ readings = IF auditor THEN {[of |-> Subjects(log), active |-> TRUE]} ELSE {}

AuditNext ==
    \/ \E r \in readings : AuditArrives(r)
    \/ ApplyFilters \/ RefreshLog \/ PreviousEvents \/ NextEvents \/ AuditorChanges

-----------------------------------------------------------------------------
(* While the Super Admin sees the log loading, a request that the page will*)
(* take is under way.                                                      *)
AuditWaits == auditor /\ log.loading => \E r \in readings : TakesReading(r)

(* The events that the panel shows are those of the filters and of the page*)
(* that it names.                                                          *)
EventsAreOfThePage == PanelShows => log.of = Subjects(log)
=============================================================================
