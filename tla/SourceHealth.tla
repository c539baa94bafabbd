---------------------------- MODULE SourceHealth ----------------------------
(***************************************************************************)
(* Whether the upstream of a managed source can be reached: the checks of  *)
(* its readers, which share a probe and a result that is kept for a while, *)
(* the owner's test, and the mark that a successful request of readings    *)
(* leaves (SourceConnectionStatusService, DataSourceService                *)
(* .testConnection, StationSourceClientResolver).  Checks of other sources *)
(* appear as the places they take in the table of results.                 *)
(***************************************************************************)
EXTENDS Naturals, FiniteSets

CONSTANTS Readers,      \* accounts that may see the source, or could
          Nobody,
          KeptFor,      \* how long a result is kept, from the start of its probe
          LastMoment    \* bound on the clock

ASSUME HealthAssumption == KeptFor \in Nat /\ Nobody \notin Readers

VARIABLES
    moment,   \* the clock
    up,       \* whether the upstream answers
    row,      \* DataSource: status, lastCheckedAt, removedAt
    grants,   \* the accounts that may see the source
    result,   \* SourceConnectionStatusService.results, for this source
    probe,    \* its pending probes, by the account whose request began it
    check,    \* where each account's check is
    test,     \* the owner's test of the connection
    request,  \* a request of readings that has begun
    told      \* history: the newest check that was answered

healthVars == <<moment, up, row, grants, result, probe, check, test, request, told>>

Quiet == [at |-> "idle", of |-> Nobody, checked |-> 0, connected |-> FALSE, seen |-> 0]

HealthInit ==
    /\ moment = 0 /\ up = TRUE
    /\ row = [connected |-> TRUE, checked |-> 0, live |-> TRUE]
    /\ grants = Readers
    /\ result = {}
    /\ probe = [q \in Readers |-> {}]
    /\ check = [q \in Readers |-> Quiet]
    /\ test = "none" /\ request = {} /\ told = 0

-----------------------------------------------------------------------------
(* getVisibleConnection: the source is there and the account may see it.   *)
Visible(q) == row.live /\ q \in grants

(* A result is kept from the start of its probe on.                        *)
Kept(r) == moment < r.checked + KeptFor

Probing == {q \in Readers : probe[q] # {}}

(* A request joins the probe that is under way.  Mutant: it starts its own.*)
JoinsNone == {}

Joins == Probing

(* check: the source is authorised first, whatever the cache holds; then a *)
(* kept result is answered, a probe joined or started.  Without a free slot *)
(* the request is refused, which changes nothing.                          *)
Check(q) ==
    LET asks == [Quiet EXCEPT !.seen = told]
    IN  /\ check[q].at \in {"idle", "answered"} /\ Visible(q)
        /\ \/ \E r \in result :
                /\ Kept(r)
                /\ check' = [check EXCEPT ![q] = [asks EXCEPT !.at = "answered",
                        !.checked = r.checked, !.connected = r.connected]]
                /\ told' = IF r.checked > told THEN r.checked ELSE told
                /\ UNCHANGED probe
           \/ /\ ~\E r \in result : Kept(r)
              /\ \E p \in Joins : check' = [check EXCEPT ![q] = [asks EXCEPT !.at = "waiting", !.of = p]]
              /\ UNCHANGED <<probe, told>>
           \/ /\ ~\E r \in result : Kept(r)
              /\ Joins = {}
              /\ check' = [check EXCEPT ![q] = [asks EXCEPT !.at = "waiting", !.of = q]]
              /\ probe' = [probe EXCEPT ![q] = {[checked |-> moment, connected |-> "unknown"]}]
              /\ UNCHANGED told
        /\ UNCHANGED <<moment, up, row, grants, result, test, request>>

(* The upstream lists its stations, or does not.                           *)
Probed(q) ==
    \E p \in probe[q] :
        /\ p.connected = "unknown"
        /\ probe' = [probe EXCEPT ![q] = {[p EXCEPT !.connected = IF up THEN "yes" ELSE "no"]}]
        /\ UNCHANGED <<moment, up, row, grants, result, check, test, request, told>>

(* recordConnectionStatus: an observation of a source that is there, unless *)
(* a newer one is recorded; then the result is kept and the probe ends.    *)
Observe(connected, checked) ==
    row' = IF row.live /\ row.checked <= checked
           THEN [row EXCEPT !.connected = connected, !.checked = checked] ELSE row

Waiters(q) == {w \in Readers : check[w].at = "waiting" /\ check[w].of = q}

ProbeEnds(q) ==
    \E p \in probe[q] :
        /\ p.connected # "unknown"
        /\ Observe(p.connected = "yes", p.checked)
        /\ result' = {[connected |-> p.connected = "yes", checked |-> p.checked]}
        /\ probe' = [probe EXCEPT ![q] = {}]
        /\ check' = [w \in Readers |->
                       IF w \in Waiters(q)
                       THEN [check[w] EXCEPT !.at = "rechecking", !.checked = p.checked,
                                             !.connected = p.connected = "yes"]
                       ELSE check[w]]
        /\ UNCHANGED <<moment, up, grants, test, request, told>>

(* The probe throws something else than an error of the upstream.          *)
ProbeThrows(q) ==
    /\ probe[q] # {}
    /\ probe' = [probe EXCEPT ![q] = {}]
    /\ check' = [w \in Readers |-> IF w \in Waiters(q) THEN Quiet ELSE check[w]]
    /\ UNCHANGED <<moment, up, row, grants, result, test, request, told>>

(* A grant or the source may be gone by now: the account is checked again. *)
Recheck(q) ==
    /\ check[q].at = "rechecking"
    /\ \/ /\ Visible(q)
          /\ check' = [check EXCEPT ![q].at = "answered"]
          /\ told' = IF check[q].checked > told THEN check[q].checked ELSE told
       \/ /\ ~Visible(q)
          /\ check' = [check EXCEPT ![q] = Quiet]
          /\ UNCHANGED told
    /\ UNCHANGED <<moment, up, row, grants, result, probe, test, request>>

(* A result makes room for those of other sources.                         *)
ResultEvicted ==
    /\ result # {} /\ result' = {}
    /\ UNCHANGED <<moment, up, row, grants, probe, check, test, request, told>>

-----------------------------------------------------------------------------
(* testConnection: the owner's connection is read, the upstream asked ...  *)
StartTest ==
    /\ test = "none" /\ row.live /\ test' = "asking"
    /\ UNCHANGED <<moment, up, row, grants, result, probe, check, request, told>>

TestAnswered ==
    /\ test = "asking" /\ test' = IF up THEN "yes" ELSE "no"
    /\ UNCHANGED <<moment, up, row, grants, result, probe, check, request, told>>

(* ... and recordConnectionTest, READ COMMITTED, finds the source ...      *)
FindTested ==
    /\ test \in {"yes", "no"}
    /\ test' = IF ~row.live THEN "none" ELSE IF test = "yes" THEN "found up" ELSE "found down"
    /\ UNCHANGED <<moment, up, row, grants, result, probe, check, request, told>>

(* ... and stamps the outcome with its own time, though the source may have*)
(* been removed since: the row it updates is named by its id alone.        *)
RecordTest ==
    /\ test \in {"found up", "found down"} /\ test' = "none"
    /\ row' = [row EXCEPT !.connected = test = "found up", !.checked = moment]
    /\ UNCHANGED <<moment, up, grants, result, probe, check, request, told>>

TestStep == StartTest \/ TestAnswered \/ FindTested \/ RecordTest

(* A request of readings resolves the source's client, is served or not,   *)
(* and marks a FAILED source as connected at the time when it began.       *)
ResolveClient ==
    /\ request = {} /\ row.live /\ request' = {[began |-> moment, served |-> FALSE]}
    /\ UNCHANGED <<moment, up, row, grants, result, probe, check, test, told>>

ClientAnswers ==
    \E r \in request :
        /\ ~r.served
        /\ request' = IF up THEN {[r EXCEPT !.served = TRUE]} ELSE {}
        /\ UNCHANGED <<moment, up, row, grants, result, probe, check, test, told>>

MarkConnected ==
    \E r \in request :
        /\ r.served /\ request' = {}
        /\ row' = IF row.live /\ ~row.connected
                  THEN [row EXCEPT !.connected = TRUE, !.checked = r.began] ELSE row
        /\ UNCHANGED <<moment, up, grants, result, probe, check, test, told>>

-----------------------------------------------------------------------------
GrantChanges(q) ==
    /\ grants' = IF q \in grants THEN grants \ {q} ELSE grants \cup {q}
    /\ UNCHANGED <<moment, up, row, result, probe, check, test, request, told>>

(* remove: the credential is erased and the status becomes FAILED.         *)
Removed ==
    /\ row.live /\ row' = [row EXCEPT !.live = FALSE, !.connected = FALSE]
    /\ UNCHANGED <<moment, up, grants, result, probe, check, test, request, told>>

UpstreamTurns ==
    /\ up' = ~up
    /\ UNCHANGED <<moment, row, grants, result, probe, check, test, request, told>>

MomentPasses ==
    /\ moment < LastMoment /\ moment' = moment + 1
    /\ UNCHANGED <<up, row, grants, result, probe, check, test, request, told>>

CheckStep(q) == Check(q) \/ Probed(q) \/ ProbeEnds(q) \/ ProbeThrows(q) \/ Recheck(q)

HealthNext ==
    \/ \E q \in Readers : CheckStep(q) \/ GrantChanges(q)
    \/ ResultEvicted \/ TestStep \/ ResolveClient \/ ClientAnswers
    \/ MarkConnected \/ Removed \/ UpstreamTurns \/ MomentPasses

-----------------------------------------------------------------------------
(* A check that begins after an answer never reports an older observation  *)
(* than it: probes of a source follow one another although many accounts   *)
(* ask at once, and a result is never older than one already given.        *)
ChecksNeverGoBack ==
    \A q \in Readers : check[q].at = "answered" => check[q].checked >= check[q].seen
=============================================================================
