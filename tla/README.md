# Verification of IoT-web

TLA+ models of IoT-web, its backend (`src/backend`) and its web client
(`src/frontend`), checked with TLC on small instances, with proofs checked by
TLAPS. File names without a directory are those of the table below.

The system reads soil measurements of stations from an upstream weather API,
stores them, serves them to browsers and API clients, evaluates alert rules on
them and notifies the people concerned. The backend is a NestJS application
over one PostgreSQL database; several processes of it may run at once, so
everything they share is in the database. The client is a React application
that holds its access token in memory and asks for everything by HTTP.

## 1. The system's parts

| Part | State it keeps | Operations | Hard behaviour | What makes it correct |
|---|---|---|---|---|
| Alert evaluation (`alert-config/alert-evaluation.service.ts`, `alert-evaluator.ts`) | `AlertEvaluationState` (counters, last sample), `Alert` | a run reads a batch of rules, checks metadata, fetches the latest reading per station and evaluates each rule in a transaction | everything read before a transaction may be out of date in it; a failure in the middle of a group; the lease lost at any point | an alert of a live rule only, at most one unresolved, it shows the latest sample |
| Evaluator lease (same file) | `EvaluatorLease` row, heartbeat timer | acquire, renew, fence each write, release | pauses beyond the lease, lost heartbeats, restarts | only the holder writes, no lease is stolen |
| Rule rotation (same file) | `continuationCursor` | a bounded batch after the cursor, wrap-around | runs cut short; rules disabled and enabled | every ready rule has its turn |
| Alert rules (`alert-rule.service.ts`) | `AlertRule`, `IdempotencyClaim` | create, patch, list | retries with a key, claims that retention deletes, two creates of one slot, metadata that changes after validation, removal of the source | one enabled rule per slot, one rule per key until its claim expires, condition frozen under an alert |
| Alert lifecycle (`alert-lifecycle.service.ts`) | `Alert`, `AlertLifecycleEvent`, `IdempotencyClaim` | acknowledge, resolve, list | the evaluator and a removal race the user | RESOLVED is final, every change is announced |
| Notification delivery (`notifications/notification-delivery*.ts`) | `NotificationDeliveryJob`, recipients, `InAppNotification` | queue, claim, snapshot, batches | several workers, failing batches, changing grants | exactly once per recipient of the snapshot, every job finished |
| Inbox (`notifications/notification.service.ts`, `NotificationSettings.tsx`, `Topbar.tsx`) | `readAt`; in the client the items, cursor and count | list by cursor, mark one, mark all | marks and pages that answer late, access lost | nothing shown survives a loss of access |
| Soil collection (`station-data/soil-collection.service.ts`, `soil-reading.repository.ts`, `raw-history*.ts`) | `SoilReading`, `SoilLatestReading`, `SoilHistoryCoverage`, `SoilCollectionCheckpoint`, lease `soil-collector` | collect due stations page by page, store, prune | cut off between pages, late responses, storage limits, pruning | coverage and watermark claim only what is stored; the collector catches up |
| Station data API (`station-data.service.ts`, `stored-history.repository.ts`, `history.mapper.ts`, controllers) | caches, and the tables above | latest, history, hierarchy | requests store what they fetch, without a lease; pages of one query come from three places | an answer never goes back in time, the response fetched last wins, a walk over pages is complete |
| Caches and rate limit (`bounded-cache.ts`, `client-rate-limit.guard.ts`) | entries, loads in flight, windows | get, stale fallback; count a request | shared loads, eviction of what is in use | bounds hold, nothing stale is served as fresh |
| Data sources (`data-sources/data-source.repository.ts`, `data-source.service.ts`) | `DataSource`, `Station`, grants | create, test, import, share, remove | removal under everything else, concurrent imports and changes of a share | a shared station is of its source, nothing of a removed source is open |
| Connection status (`source-connection-status.service.ts`) | status, pending checks, results | check, test, mark connected | late answers, shared probes, revoked readers | what is answered never goes back to an older check |
| Sessions and login (`auth/`) | `Session` families, lockout counters | login, refresh, logout, change password | retried refreshes, concurrent rotations and revocations | a token works once; resets and disabling end every session; the account locks at the limit |
| Identity, authority (`identity/`) | users, roles, super admin, memberships, station grants | create, update, delete, reset, transfer, bootstrap, recover, retention | concurrent transfers and deletions, a principal read before the change | an active super admin at all times; only it makes admins; grants fit the role |
| API keys (`api-keys/`) | keys and their scope | create, rotate, revoke, authenticate | rotation against revocation, a role that changes | a key has one replacement |
| Scopes and lists (`authorization/`, `data-source.repository.ts`, `identity.service.ts`) | none | what an account or a key may read, by cursor | rows that change between two pages | a walk lists everything that was there throughout |
| Web client: session (`frontend/src/api/apiClient.ts`, `refreshCoordinator.ts`, `stores/authStore.ts`, `pages/auth`) | access token, epoch, user, loading | request with refresh and retry, restore, login, logout, change of password, transfer of the authority | answers of a session that is over; two calls that refresh at once; a reload | a token is of the user shown; no page stays loading; a session ends for its own reason |
| Web client: pages (`frontend/src/pages`, `components`) | what is selected, what is shown, generations of requests | load, select, page, refresh, change | answers out of order, refusals in the middle | what is shown is of what is selected; nothing is forgotten half; no page waits for an answer it will drop |
| Audit, operations, health, configuration, weather client | counters, wiring, I/O | | | |

How they interact: the collector and the requests of users write readings,
under one advisory lock (`guardWrite`, soil-reading.repository.ts:232). The
evaluator asks the station data service for the latest reading outside any
transaction and writes rule state and alerts inside one that locks the lease
row and the rule. Each transition of an alert queues a delivery job in its own
transaction; workers claim jobs with `SKIP LOCKED`. Removing a source disables
its rules and resolves its alerts in one transaction and is seen by the others
through `removedAt`. Every request of a browser or a key passes a guard that
reads its principal afresh; what the handler does rests on that principal. In
the client, all pages share one `apiClient`, which joins refreshes that are
under way and tells the pages, by the epoch of the session, which answers are
of a session that is over.

## 2. Modules

Backend, with the module or configuration that TLC runs:

| Module | Models | Run as |
|---|---|---|
| `AlertLifecycle`, `AlertLifecycleProofs` | rules, evaluation, alerts, lifecycle events, idempotency, removal, retention | `MCAlerts` |
| `FencedWriter` | the abstract promise of a lease: one writer at a time, no write without it | instantiated by `EvaluatorLease` |
| `EvaluatorLease`, `WorkersProofs` | the lease row, clock, heartbeats, pauses, restarts, the fence | `MCEvaluatorLease` |
| `EvaluatorRotation` | batches after the continuation cursor | itself |
| `NotificationDelivery`, `WorkersProofs` | the outbox and its workers | `MCNotificationDelivery` |
| `SoilCollection`, `SoilCollectionProofs` | collector, requests that store, retention, coverage, watermark | `MCSoilCollection` |
| `Sessions`, `SessionsProofs` | login and lockout, rotation and reuse, logout, change of password, changes by an administrator | `MCSessions` |
| `AccessTables` | the rows that decide who may do what, and the steps a request takes on them | extended by the next three |
| `Accounts`, `ApiKeys`, `SourceRegistry` | the routes on accounts, keys and sources | `Access` extends all three |
| `Access`, `AccessProofs`, `AccessLists` | those routes together; scopes, and lists walked by cursor | `MCAccess` |
| `LatestReadings` | the latest reading over cache, snapshot and upstream | `MCStationServing` |
| `SourceHealth` | checks, tests and marks of a source's connection | `MCStationServing` |
| `ClientRateLimit` | windows of the keys | `MCStationServing` |
| `HistoryPages` | pages of a history from upstream, cache and database | `MCStationServing` |
| `StationServingProofs` | the proofs about these four | |

Web client, all run by `MCWebClient`:

| Module | Models |
|---|---|
| `WebSession` | token, epoch, store, calls with refresh and retry, restore, login, logout, change of password, transfer of the authority, with the server's sessions as far as a call can tell |
| `StationPages` | hierarchy selection, farm dashboard, monitoring and detail page of a station |
| `HistoryView` | historical analysis of a plot and the report of a station |
| `Inbox` | notifications, on the server and in page and menu |
| `SourcePages` | API sources: list with checks, errands, revealed key, manager of grants |
| `AccountsPage` | accounts: list, drawer, confirmations, temporary password |
| `AuditPage` | audit log by cursor |
| `AlertsPage` | alerts and rules of the selected station |
| `KeysPage` | API keys and the secret that is shown once |
| `StationSearch` | the search of the top bar |
| `WebPagesProofs`, `WebClientProofs` | the proofs about the pages; about the session, the sources and the client as a whole |

How state and actions correspond to the code is written down definition by
definition in `PROJECT.json` ("map"). The main points:

**AlertLifecycle.** The variables `rule`, `eval`, `alert`, `claims` and
`removed` are the rows of the tables of those names; `events` holds each
lifecycle event with the job queued beside it. A database transaction is one
action: the evaluator's and the lifecycle's lock the rule row `FOR UPDATE`,
`createRule` and `patchRule` run with the unique indexes as their arbiter, and
a removal is one transaction. What is read before a transaction is a step of
its own and kept in `batch` (the evaluator's rules with their stage and the
binding that was checked) or `pending` (a user's validated request). So
`CommitCreate`, `CommitPatch`, `EvaluateRule`, `BlockForMetadata` and
`WriteSafeResult` each find a database that may have moved on, and contain
exactly the rechecks the code makes. Abstractions: a condition is a model
value with the set of values it calls a breach, and severity belongs to it;
the results MISSING, STALE, INVALID, UPSTREAM_ERROR and METADATA_BLOCKED,
which have the same effect on the counters, are one result; a claim keeps its key
and its response, not its fingerprint; claims are committed complete, so the
answer REQUEST_IN_PROGRESS cannot occur. `Retention` lets the expiry of a
claim pass and deletes expired claims and resolved alerts with their events;
ages and deliveries are left out, so that it may delete an alert earlier than
the code does. Delivered jobs go with their alert; no worker reads them again.
`origin` is the key each rule was created with and whether its claim has expired. The evaluator may evaluate several
batches under one acquisition of `lease`, which allows more behaviours than
the code. `Alerts` is a pool of rows: a rule opens no alert when it is used up.

**EvaluatorLease.** One clock stands for those of the database and of the
processes; a process may stop for any time between two steps. The transaction
reads the lease row `FOR UPDATE` (`Fence`) and commits later
(`EndTransaction`); until then nobody can take the lease over. `FencedWriter`
has no clock, expiry or heartbeat; the refinement maps its writer to
the process that is in a fenced transaction.

**EvaluatorRotation.** Rules are numbers in the order of their ids. Readiness
changes freely up to the point where the property needs it stable.

**NotificationDelivery.** Jobs and users are numbered in the order the queries
sort by. A claim holds the row lock until its transaction ends; a batch that
fails leaves nothing behind. The history variable `made` counts the
notifications ever made, so that deleting one does not hide a duplicate.

**SoilCollection.** One station and one field. `upstream` is what the provider
has at each time: a sequence of values, with `None` for a missing one; records
appear when the clock reaches them and do not change. `FetchPage` is the
provider's answer together with `normalizeRawHistory`. `stored` are the times
with a row; values and fetch generations are left to `LatestReadings`. Each write
transaction is atomic because all take the advisory lock first; fetching is a
step of its own and the response is kept in `run` or `request`.
`checkpoint.due` stands for `nextAttemptAt` and its backoff, and time 0 for a
missing `historyThrough`.

**Sessions.** `user` and `session` are the rows of those tables. `request` is
what each HTTP request has read, and the locks and the snapshot of its
transaction. The transactions of `auth/` are READ COMMITTED: `Claim` and
`BeginChange` lock a row that others then wait for; `FindFamily` and
`BeginChange` pick the rows an `updateMany` finds, `RevokeFamily` and
`ChangePassword` write those that still match once no rotation holds them.
The transactions of `identity/` are SERIALIZABLE: `BeginUpdate`, `BeginReset`
and `BeginDeletion` take the snapshot, `Administer` commits, and cannot once
another commit wrote its user or one of its sessions (`Outdated`); `Abort` is
that failure, a deadlock, or the loss of the process. A session's state merges
`revokedAt`, `revokeReason` (of which the code asks only for ROTATED) and the
comparison with `expiresAt`. Of roles only the fact that a role changes is
kept; who may administer whom is in `Accounts`, and here any account may be
administered. The 30 seconds
between two resets are left out, so the model allows resets the code refuses.
`verified` and `issued` are history variables. A change of password and the
revocation of a reused family do not find the session a rotation is about to
commit: of these two, no property says that they end every session, and none
would hold.

**AccessTables, Accounts, ApiKeys, SourceRegistry, Access.** The variables are
the rows: accounts with role, status and deletion, the holder of the super
admin authority, farms, plots, memberships, client grants, keys, sources,
stations, grants and shares. `request` is what each HTTP request has read. A
route begins with its guard, which attaches the principal it reads then;
everything later works with that principal however old it is, and finds what
has changed only where the code asks again. A SERIALIZABLE transaction is one
action. A READ COMMITTED one (creation and revocation of a key, changes of a
share) reads in one step and writes in another. Creation and import of sources
call the upstream first, so their inputs are older than their transaction.
Emails, names, passwords, ciphertexts and the audit rows are left out.

**AccessLists.** Scopes are computed from those rows, as the code does, at each
page. A page is the set of rows behind the cursor with fewer than `limit` rows
before them, and its cursor is the last one. A walk keeps the cursor and the
rows collected; `common` is the set of rows that were in the list of every page
of it so far, which is what `ListIsComplete` compares them with, and `twice`
those that came on two pages.

**LatestReadings.** A request looks up the cache, joins the load under way or
starts one. Responses carry the number of their fetch, so that the snapshot's
and the raw row's conditions on fetch times are what the code compares.
`collector` is a response on its way to the database outside this cache. The
cache is a function from the stations that have an entry, and the order of the
`Map` is in each entry's `later`: the stations touched since.

**SourceHealth.** One source, whose checks are shared by concurrent readers and
kept for a while. The owner's test and the mark left by a successful request
write the same row. Checks of other sources appear as the places they take in
the table of results (`ResultEvicted`).

**ClientRateLimit.** Windows of one minute per key, a set whose order is that of
their last use; the clock counts minutes.

**HistoryPages.** A walk over one query, whose pages come from the cache, from
the upstream, whose records they also store, or, if the first page cannot be
fetched, from the database, while readings arrive and retention deletes.
A cursor of the upstream names a record by its time, its values and its
occurrence among the equal ones. What a walk got out of order or twice is in
`early`. The cap of 5000 on the upstream's limit is out of reach of the limits
that a query may have (500). Raw readings only: the buckets of stored aggregates are left out.

**WebSession.** One tab. A call is the chain of awaits of `apiClient.request`
(or of restore, login, logout, change of password, transfer); the handling of one answer
is one action, since promise continuations run before the browser delivers the
next answer. The server's side of a call (verify, rotate, revoke) is an action
between the two, with the sessions as far as a call can tell them apart:
rotated, revoked, reused, expired. A transfer of the authority is served in one
step, which revokes the sessions of the holder and of the successor, and heard
of in another (`TransferArrives`), which clears the tab whatever its session is
by then; who the holder is belongs to `Accounts`, the dialog to `AccountsPage`.
The navigation that follows is a `Reload`. Cookies are one variable, because the
browser has one jar; `foreign` marks a cookie that a late answer of an earlier
login put there.

**StationPages, HistoryView, Inbox, SourcePages, AccountsPage, AuditPage,
AlertsPage, KeysPage, StationSearch.** A change of state and the render and
effects that follow it are one action: React batches the updates of a handler
and runs its effects before the next event of interest. A request is a record
in a set (`asks`, `fetches`, `mails`, `fills`, `trips`, `hails`, ...) with what
the page will compare when the answer arrives: a generation, an abort signal,
a cancelled flag, the query it was asked with. Answers arrive in any order.
Where the server's state matters (notifications, grants, accounts, keys), it is
served at one moment and the page hears of it at a later one. What an overlay
covers cannot be clicked. Left out: layout, formats and wording; the unmounting
of the page of the sources, its check times and outcomes, and other people
who change its grants; the page that resets a password, which sends nothing.

## 3. Runs

| Run | Question | Instance and why it is enough |
|---|---|---|
| `alerts` | Can the evaluator, users, the provider and a removal together produce a wrong alert or break the unique keys? | one of three sides per behaviour. One rule, two alerts, two conditions that disagree on both values, revisions to 3, samples to 4: open, acknowledge, recover, reopen and a patch between any two of them. Or two rules of one slot, two users, two keys, two metadata revisions, no evaluator. Or two rules, two users and two alerts with one key for every request, expiring claims and the retention |
| `removal_vs_create` | Does a removed source ever keep an enabled rule? | the same instance; violated |
| `evaluator_lease` | Is the writer fenced, and is it an implementation of `FencedWriter`? | two processes, lease of two ticks, clock to 6: a takeover, a return of the first holder and a second takeover |
| `evaluator_rotation` | Does every ready rule get its turn? | four rules, two per batch (wrap-around in the middle of a batch), two lost leases |
| `notification_delivery` | Exactly once, and in the end? | two workers, two jobs, three users, recipients in batches of two, one failure, one change of grants |
| `soil_collection` | Do coverage and watermark claim only what is stored, whatever comes late? | two collectors, two histories (a full page in the middle of a timestamp, a conflict across two pages, a saturated timestamp, a missing value, an empty time), pages of three records, limit of two readings, retention of two ticks, one fault, one removal |
| `soil_progress` | Does the collector catch up? | one collector, window of one tick and one page per run (the smallest steps), one history more, two faults |
| `sessions` | Does a refresh token work once, and does what an administrator does end the sessions of an account? | one account, three sessions, two requests at a time, a limit of two failed logins, one new password: two rotations of one token, a rotation or a login inside a reset, a change of password against either |
| `access` | Do accounts, keys and sources that change at once keep the authority, the grants and the shares consistent, and is a list complete? | a super admin, a farmer and a developer; one farm and plot, two stations, one source, three keys; two requests at a time, from an empty database with four changes or from three deployments in use with two: enough for a transfer or a removal inside every other request; or one request while a client walks one of nine lists by pages of one row |
| `source_owners` | Do the sources that a list shows have an owner that its DTO accepts? | the instance of `access`; violated |
| `station_serving` | Is what a process serves of a station ever out of order, incomplete or beyond its bound? | one of five parts per behaviour: one station with every event and four requests, four stations over two cache entries, two readers with three disturbances of a check, four keys over two windows with six requests, every set of four out of six records (three of one time, two of them equal) in pages of two |
| `web_client` | Do answers that come late leave a tab with another user's token, a page that waits for nothing, or data of another selection? | one of nineteen parts per behaviour; two calls, three server sessions of two users, four epochs and one reload for the session, whose transfer may be answered after another login; per page the fewest rows with two selections, two pages of a list and one or two answers that are late |

`alerts` chooses its side by `focus`, so that neither pays for the other's
constants. `station_serving` and `web_client` run modules that share no state: `focus`
chooses at the start of a behaviour the part that runs, so that the state space
is the sum of the parts and not their product. In `web_client` the parts of a
page also leave out what another part of the same page covers (`Near`,
`FewLate`, and the conjuncts of the `...Step` operators): for instance, the
hierarchy is walked with every failure in the part `hierarchy`, and the parts
of the station start from selections it reaches. The monitoring page stands for
the farm dashboard, whose selection and fences are the same hook's.

Bounds are CONSTANTS named in the modules (`Max...`, `FailureBound`,
`LastMoment`, `LastMinute`, `GrantLimit`, `DeskLimit`, `MenuSize`, page sizes).
They cap counters, history, faults and the number of requests; none of them
disables an operation before it occurred in combination with the others of the
instance. Symmetry is used in runs without liveness only.

Each property comes with a mutant: an operator named in `PROJECT.json` that
changes one mapped definition the way a plausible mistake in the code would,
under which TLC finds the property violated. `WhatIsShownIsCurrent` and
`WaitsForAnAnswer` are conjunctions over the pages; they have several.

**What the properties of the larger runs say.**
- `access`: whoever holds the authority is an admin that nobody has disabled,
  and only the holder makes admins (`SuperAdminStands`,
  `OnlyTheHolderMakesAdmins`); station grants belong to client developers
  (`StationGrantsFitTheRole`); what a share opens is a station of the source
  (`SharedStationIsOfItsSource`); a key is replaced once (`KeyIsReplacedOnce`);
  a removed source stays removed and gets no station
  (`RemovedSourceIsClosed`); a walk has each row that was in the list of every
  page of it, once (`ListIsComplete`).
- `station_serving`: the observation answered for a station never gets older
  (`AnswersNeverGoBack`), and of the responses for one reading the one fetched
  last is what remains (`LastFetchedWins`); the cache may exceed its limit,
  by fewer entries than the limit (`CacheStaysBounded`); nor does a check
  report an older observation than one already given (`ChecksNeverGoBack`); a
  key exceeds its limit only if enough others are used between two of its
  requests (`LimitHolds`); a walk over pages has every record that was there
  when each page was fetched, once and in order (`WalkIsComplete`).
- `web_client`: the token in memory was issued to the user in the store
  (`TokenIsTheUsers`); a user is logged out by a logout, a reload, because a
  call of that very session was refused, or by a transfer of the authority that
  the server made (`SessionEndsForItsOwnReason`);
  the application's loading ends (`LoadingEnds`); pages wait only for answers
  they will take (`WaitsForAnAnswer`) and show only what is of the selection
  and was asked for after the last refusal (`WhatIsShownIsCurrent`).

**Fairness.** `evaluator_rotation`: a run goes on and a new one starts (the
interval timer), while leases are lost finitely often; the property is for
rules that stay ready. `notification_delivery`: weak fairness of starting a
run (the poll timer) and of finishing a batch, strong fairness of claiming,
since a claim is disabled while another worker holds the lock and `ORDER BY`
gives the oldest job to whoever comes next; batches fail finitely often,
because a job that always fails does stay at the head of the queue. `soil_progress`:
weak fairness of the timer, of the steps of a run, of the expiry of a lease
left behind and of the next attempt. `web_client`: weak fairness of the answers
to the session's calls: each is answered, fails or runs into the time limit of
`apiClient`. No fairness is assumed of users, of the provider's changes, of
failures or of the clock.

## 4. Proofs

`WorkersProofs` proves of `EvaluatorLease`, for every set of processes, lease time, batch
and clock bound:
- `LeaseTypeCorrect`, `WriterIsFenced` and `LeaseNeverStolen`: the type
  invariant, `WriterHoldsLease` and `LeaseIsNotStolen`. The inductive invariant
  `LeaseInv` adds to the first two that the run of the process the lease row
  names has the newest term (`RunsAreCurrent`): that a run which passes its
  fence is the current one is a fact about the runs that have not passed it
  yet. `LeaseNeverStolen` needs in addition that an acquisition computed its
  expiry from a time that is past (`AskedInThePast`).
- `LeaseFencesWrites`: `LeaseSpec => ImplementsFencedWriter`, the refinement of
  `FencedWriter`, from the same invariant.

`AlertLifecycleProofs` proves, for all rules, slots, stations, sources,
alerts, evaluators, clients and bounds:
- `LifecycleTypeCorrect`, `UnresolvedAlertIsUnique`, `UnresolvedAlertStaysLive`
  from the inductive invariant `LifecycleInv`, which adds
  `FetchedRuleIsLive`: a rule whose reading was fetched and that is still READY
  is of a source that is not removed. It is needed because
  `evaluateRule` rereads the rule in its transaction but not its source, and a
  rule created late may be ready on a removed one (see `removal_vs_create`).
- `ResolvedStaysFinal` and `ConditionStaysFrozen`, action properties from the
  same invariant, and `ActiveKeyIsUnique` from its own.

What the transactions leave behind builds on `LifecycleInv`:
- `CreateKeyMakesOneRule`. `CreatesInv` adds `PatchedRuleExists`: a patch
  writes the status of its rule, and would make a rule exist without a claim if
  the rule it was started for were not there. `ExpiredHasLapsed` says that a
  claim that has expired was seen to by the rule it is of, so that a purge takes
  no claim from a rule within its retention.
- `EveryChangeIsLogged`. `LogInv` says of each alert that its log tells the
  revisions of its row (`Tells`), and that a row not opened yet has revision 0.
  `LogIsExtended` is the one fact about logs; `TransitionIsLogged` and
  `ResolutionsAreLogged` carry it over to the two ways the code writes a row
  with its event.
- `LatestSampleIsShown`, inductive together with `LifecycleInv`: a rule just
  created has no alert left from before, and a rule has one unresolved alert at
  most, so that resolving one leaves none behind with an older sample.

`SessionsProofs` proves, for all users, sessions, requests and bounds, the six
properties of the run: `SessionsTypeCorrect`, `FamilyStaysAChain`,
`FamilyHasOneToken`, `DisabledStaysOut`, `ResetIsFinal` and `LimitLocks`, from
one inductive invariant, `SessionsInv`:
- `LinksExist` makes the chains inductive: an unrevoked session has no
  replacement yet, and no family or replacement is the name of a session still
  to be created.
- `ClaimIsExclusive` says that the row lock admits one rotation of a session;
  without it the claimed session could be consumed twice, which is what
  `TypeOK` excludes.
- `SnapshotIsCurrent` says what SERIALIZABLE gives an administrator's
  transaction: unless it is stale, it found every unrevoked session of its
  user, or it is an update that leaves the status as it is. Disabling and
  resetting are final because of it, and a login, a rotation and a change of
  password preserve it because they write a row that makes it stale.
- `IssuedIsPast` says that a password issued by an administrator is no newer
  than the account's, which a login just compared with.

The proof goes by kinds of steps: those that change one request only
(`LocalSteps`, `LocalPreserves`), what a commit leaves of the other requests
(`CommitPreserves`), what it does to the families (`SettledPreserves`,
`OpenedPreserves`, `RotatedPreserves`), and one lemma per committing action.

`WorkersProofs` proves of `NotificationDelivery`, for all workers, jobs, users, batch sizes
and bounds, `DeliveryTypeCorrect` and `EveryoneIsNotifiedOnce`. The inductive
invariant `DeliveryInv` relates the cursor of a job to what was made for it:
the recipients up to the cursor have been notified once and those after it not
at all (`MadeUpToCursor`), the inbox and a delivered job are within that part
(`InboxIsPast`, `DeliveredIsPast`), the snapshot is taken before the cursor
moves (`SnapshotIsFirst`), and a job that a worker has claimed is locked for it
(`ClaimsAreLocked`). The code orders recipients by id and takes the first
`BatchSize` after the cursor; that such a batch has no recipient left behind it
(`BatchIsNext`, `BatchMovesCursor`) needs that a bounded set of numbers has a
least and a greatest element, which `LeastExists` and `GreatestExists` derive
from the well-foundedness of finite subsets.

`AccessProofs` proves, for all users, stations, sources, keys, requests and
bounds, the types of the rows and of the requests (`AccessTypeCorrect`; a
request past its first step carries what the next one works on,
`RequestsAreWhole`) and
six properties of the run:
- `AuthorityStands` and `StationGrantsFit` from `AccountsInv`, which adds that
  the holder exists (`HolderIsThere`) and that an account not created yet has
  no role that grants could belong to (`AbsentIsFarmer`). The argument is that
  every route which writes an account reads it again in its SERIALIZABLE
  transaction, whatever principal it was started with.
- `HolderMakesAdmins` and `RemovedSourceStaysClosed`, action properties; the
  second goes by what every step keeps of stations and removed sources
  (`StationsKept`, `RemovedKept`).
- `SharesFit` from `SharesInv`: a change of a share reads the stations in one
  step and writes in another, so it needs that what was read stays true
  (`CheckedStationsAreOfTheirSource`), which holds because a station never
  changes its source.
- `KeyReplacedOnce` from `KeysInv`: a replaced key is revoked or purged and
  stays so (`ReplacedIsGone`), a key not created yet replaces none, and no two
  keys replace the same one.

- `WalkedListIsComplete` of `ListSpec`, in which one walk of a list takes place
  while the rows change as in `Next`. `WalkInv` says of a walk under way that
  it has exactly what lies up to its cursor: nothing behind it, and everything
  before it that was in the list of every page. The cursor of a page is the
  last row of it, so what must be shown of `Front` is that it leaves no row
  before its last one out (`FrontIs`); this goes by the number of rows before
  a row, which the order of the ranks makes strictly larger for a later row.
  That all rows have a rank needs that a station with a row has a plot
  (`RowsHavePlots`).

`SoilCollectionProofs` proves, for all processes, histories of the upstream,
windows, pages, limits and queries, `CollectionTypes` (with the bound of
readings that `canInsert` keeps) and the four properties of the run, from
`CollectionInv`:
- `Tells(page, t)` says what a page may be taken for: it was fetched when `t`
  had come, and if it calls itself complete, `t` is empty or sound and among its
  readings. `FetchedPage` derives it from the definition of a page by counting:
  a page that is not full has all records of its range, a full one those before
  its last timestamp (`CountSplit`).
- `RunTells` says that the page a run holds tells this of the range it will be
  taken to cover, and that everything sound before the range is stored;
  `RequestTells` says the same of a user's request, but for times to come.
- `HolderLeads` says that the run which holds the lease began at the watermark:
  other runs may be anywhere, but they cannot write a checkpoint. The watermark
  is for that reason monotonic, and complete behind it.
- `CoverTells` is coverage time by time; `CoverageStored` puts the times
  together as `historyCoverage` does. Retention removes rows, and only what the
  clipping removes from coverage too.
- `WatermarkAdvances` and `RemovedStaysEmpty` are action properties from the
  same invariant.

`StationServingProofs` proves the six properties of `station_serving`, each
for its module on its own and for all stations, keys, readers, records, limits
and times:
- `AnswersStayCurrent` and `LatestFetchStays` from `LatestInv`, which ties what
  was answered to what is stored: nothing answered is newer than the snapshot
  (`ShownIsStored`), a request has seen no more than was answered before it
  (`ReadingsOK`), and there is a snapshot exactly where something was written
  (`NothingCommittedYet`). What the cache holds does not occur in it, since
  `getLatest` answers with the snapshot: all steps of the cache go by one lemma
  (`CacheStepsKeep`), and `WriteKeeps` is where the condition of the upsert is
  used.
- `CacheIsBounded` from `CacheInv`: the stations that have an entry or will get
  theirs back if their load fails (`Claimed`) are fewer than twice the limit.
  Counting the entries alone is not inductive: a load that fails puts back what
  was evicted while it ran. A load that starts trims first, and a claim stays
  one while the entries come and go; that trimming leaves what it should is a
  fact about the order of the entries (`CacheOK`).
- `ChecksStayCurrent` from `HealthInv`: there is one probe at a time, it is not
  older than the result that is kept, nor that than an answer, and a check that
  will be answered with an observation of before joined none older.
- `LimitIsKept` from `LimitInv`: a key whose window may have been forgotten has
  not been used since as many others as the table has places (`Forgotten`),
  because the window dropped is the one used longest ago and each of the others
  was used after it.
- `WalkedHistoryIsComplete` from `HistoryInv`: a page has what lies behind its
  cursor up to the next one, of the records that were there when it was fetched
  (`PageIs`), which holds of pages in the cache as well, since the upstream
  only gains records and numbers the copies of a record as they come: the
  occurrence that a cursor counts names the same record later (`OccurrenceIs`).
  That the response reaches behind the boundary is the one place that needs
  `Sparse` (`ResponseIsLongEnough`). Pages of the database are cut between
  times, and retention may delete rows between two of them.

`WebClientProofs` proves of `WebSession`, for all users, calls and bounds, `TabActsForItsUser`
and the action property `LateAnswersEndNothing`. `WebSessionInv` says why the
comparison of epoch and token before each write is enough:
- a snapshot is never of a session still to come (`SnapsArePast`);
- the shared refresh of the session of now carries rows of its user, unless it
  was sent with a foreign cookie (`FlightIsOwn`);
- while the restore's session lasts, nobody is logged in and no page calls
  (`RestoreIsAlone`), so that the user it stores is that of the token;
- who waits for a refresh was refused in the session of now
  (`WaitersWereRefused`), which is the reason a logout without a click needs.

A transfer that arrives may end a session of any epoch, but never one in which
a restore is under way: `RestoreIsAlone` says that no page calls in it.

`WebPagesProofs` and `WebClientProofs` prove of the pages of the web client, for
all stations, plots, accounts, sources, records and bounds,
`PagesWaitForAnAnswer` and `PagesShowWhatIsCurrent`. Each page has an invariant
that every one of its calls, callbacks and timers keeps. The lemmas about it
(`NextStation`, `NextReport`, `NextAnalysis`, `NextInbox`, `NextSource`,
`NextAccounts`, `NextAudit`, `NextAlerts`, `NextKeys`, `NextSearch`) are about the
page's whole next-state relation, without the restrictions by which
`MCWebClient` keeps its parts apart; `ClientInv` is their conjunction, and the two
theorems follow from it for the specification that TLC runs. What the
properties leave to be found is why a late answer does no harm:
- of the calls under way those that the page would still take are of what is
  selected now, and the answer to one ends what it shows as loading: by a
  request number (`SearchInv`), by the `active` flag of an effect (`AuditInv`,
  `HailsAreOf`, `TripsAre`, `ReportInv`), by a generation that every reload and
  refusal raises (`PageCallsAre`, `FetchesAre`), or by the walk that is current
  (`HierInv`);
- what a fallback or a retained record keeps was asked for after the last
  refusal heard (`DataInv`, `RecordsFit`), since a refusal empties both;
- a source that the list shows as being checked is among those that the fill of
  now has still to check or is checking, or will list (`PanelInv`);
- the grants known to the manager of a source are the first of all there are,
  in the order of the guests, without a gap (`Fresh`), so that an edit starts
  from what the server has; that the walk over the pages of grants leaves none
  out needs a greatest element of a bounded set, from the well-foundedness of
  finite subsets;
- a secret lies only in the open dialog (`OneKeyAtATime`), as long as keys are
  issued one at a time and a dialog stays with what it asked for. The page does
  not ensure that; what happens otherwise is excepted by `crossed` (section 5).

The assumptions are those named in the modules (`ConstantsAssumption`,
`LeaseAssumption`, `SessionsAssumption`, `NoneAssumption`, `AccessAssumption`,
`NoRequestAssumption`, `ListAssumption`, `DeliveryAssumption`,
`CollectionAssumption`, `CacheAssumption`, `HealthAssumption`,
`LimitAssumption`, `HistoryAssumption`, `WebSessionAssumption`,
`NoCallAssumption`, `NullIsNoObject`, `VoidIsNoObject`, and one named after
the module of each page): the constants are of the right sorts, the values
that stand for nothing are none of the others, and the order of a list has no
ties (its ranks are names with ids, or times of creation with ids). TLC
evaluates them in every run.

Model-checked only: everything about liveness (`EveryReadyRuleIsServed`,
`EveryJobIsDelivered`, `CatchesUp`, `LoadingEnds`), which is out of the
prover's reach. Every invariant and action property of a passing run is a
theorem.

## 5. What the code does differently

`removal_vs_create` shows a violation: `createRule` checks the station's scope
before its transaction only (alert-rule.service.ts:98); a rule committed after
the source's removal stays enabled (ARCHITECTURE.md:194 says removal disables
the rules).

`source_owners` shows another: a change of role drops the memberships and grants
that the new role cannot hold and leaves the sources the account owns
(identity.service.ts:171-181). A farmer who becomes a client developer keeps
them, `toDto` then throws 'Data source owner is invalid'
(data-source.repository.ts:972), and the list of sources fails for every admin.

The following came up while modelling. The models contain the behaviour (except
where stated) and the properties are worded so that they hold in spite of it.

- A claim answers retries until it expires (168 hours by default,
  ENV-REFERENCE.md:112); then retention deletes it
  (identity/retention.service.ts:71-74) and leaves its rule, and `createRule`, which
  knows a key by its claim only (alert-rule.service.ts:117-136), makes a second
  rule of the same request once the slot is free. ARCHITECTURE.md:198 promises no
  further rule, without a limit in time. In the model: a creation,
  `ClaimExpires`, `Purge`, the rule's disabling and the creation again.
  `OneRulePerCreateKey` says what holds: one rule per key until its claim expires.
- `transferSuperAdmin` clears the token and the user after its await without
  comparing the epoch (UserManagement.tsx:224-228). Its answer, when it arrives
  after a logout and another login in the tab, logs out the new session, which
  the server has live; INTEGRATION.md:63 of the client's docs excludes it. In the
  model: `ServeTransfer`, `Logout`, `LogoutEnds`, a login and `TransferArrives`. It
  is the only answer that does; `SessionEndsForItsOwnReason` excepts it and no
  other.
- A patch keeps the breach counter (alert-rule.service.ts:310-324), so one
  breach of the new condition opens an alert after one of the old condition
  (alert-evaluator.spec.ts:12 wants two).
- A request whose range ends in the future records coverage of the whole range
  (station-data.service.ts:245-252); readings that appear in it later are
  reported as covered although nobody fetched them. The runs have such
  requests; the times they covered in advance are remembered in `foreseen`, and
  `CoverageIsStored` excepts these times and no others.
- `markConnected` has no condition on time (station-source-client.resolver.ts:31):
  it may overwrite the FAILED status of a later check.
- `recordConnectionTest` finds the source in one statement and updates it by its
  id in another (data-source.repository.ts:835-850): the test of a source that is
  removed in between marks the removed row CONNECTED, which nothing reads.
- A grant whose checks found the source live may be written after its removal
  (data-source.repository.ts:364-415) and stays in the tables; no list or scope
  reads the grants of a removed source.
- A change of password and the revocation of a reused family do not find the
  session that a concurrent rotation is about to commit (session.service.ts:125).
- `NotificationService.list` reads the page and the unread count in two
  statements; the model takes one.
- Client: a wrong current password is answered 401 (auth.service.ts:139-141), so
  `apiClient` refreshes, retries, takes the second 401 for the end of the
  session, and the user is logged out (apiClient.ts:73).
- Client: the refresh answer of user A that arrives after A's logout and B's
  login overwrites the cookie, although its token is dropped; B's next refresh
  yields a token of A. `foreign` marks such a cookie, and `TokenIsTheUsers`
  leaves out what was issued from it.
- Inbox: the late `finally` of an old "Load more" clears the mark of the new
  one, so two calls with one cursor may run; unread counts may be stale after a
  mark.
- Alerts: "Refresh" has no fence and may show the alerts of another filter; the
  rules of the previous station stay until the next are loaded, and after a
  failed load; a creation answered late is put before another station's rules.
- Accounts: the detail of one account that arrives after the drawer was opened
  for another replaces the account being edited; a filter's change keeps the
  old next cursor until the list answers; a second temporary password replaces
  one that nobody has seen.
- Station pages: leaving a plot and coming back while it loads keeps a denied
  state until "Refresh".
- API sources: a list asked for before a removal or creation and answered after
  it shows the old rows until "Refresh"; the late result of a test replaces a
  newer status.
- API keys: closing the dialog on a creation under way leaves the secret behind
  the closed dialog, and the next opening drops it; a second creation under way
  replaces an unsaved secret.

## 6. Not modelled

Response formats and mappers that only rename; password hashing, tokens and
encryption; HTTP clients, of which the models keep that a call may fail or be
late; audit rows, written in the transactions that are modelled; buckets of
stored aggregates; the purge of sessions that ended 30 days
before, which no request can use any more; configuration, health, counters and the weather client. In the
client: the API explorer, the administrators' dashboard, charts, layout, and
components that nothing mounts (`UserScopeEditor`, `AlertTable`, `AlertDetail`,
`GatewayCard`, `SensorCard`). The list of due stations is one station: that a
failure which cannot be recorded ends the run for the stations behind it
(soil-collection.service.ts:267) is in no model. `FencedWriter` has no
counterpart in the code.

## 7. Plan

1. Several due stations in one run, with backoff, beside `SoilCollection`.
2. An abstract specification of a page that loads by selection, which
   `StationPages`, `HistoryView`, `AuditPage` and `StationSearch` implement.
