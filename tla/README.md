# Verification of snooze

TLA+ models of the snooze server and of the programs around it: how an alert
becomes a row, how counters, notifications and configuration travel, what the
three storage backends make of the same call, who may do what, which jobs run
in the background, and how the bridges to other systems behave when a request
is lost. Paths below are relative to the repository's `internal/` unless they
say otherwise; the definition-to-line map is in `PROJECT.json`.

## The system

`snooze-server` is one Go process, or several on one database. Alerts come in
over HTTP, from receiver plugins and from the daemons under
`internal/components`; they pass a chain of processor plugins and end as rows
of the `record` collection. People look at, comment on, acknowledge, close and
shelve those rows; notifiers tell other systems.

| part | state it keeps | operations | how it meets the others |
|---|---|---|---|
| pipeline (`core/pipeline.go`) | one goroutine per alert, nothing shared | `ProcessRecord`: run `rule`, `aggregaterule`, `snooze`, `notification`, write | calls the plugins in order; every verdict but Abort ends in one driver write |
| rule, modification, condition, time constraints | the rule tree (cached) | evaluate, modify, tag | pure functions; the tree is reloaded by the syncer |
| aggregaterule | the rules (cached); the aggregate itself is a row | lookup by hash, then first occurrence / close / watched change / re-open / throttle / escalation | reads the row, writes auto comments, queues increments, unsets `snoozed` |
| snooze, notification | filters, entries, actions (cached) | match; send on a detached goroutine, inject the response | write the record beside the pipeline |
| comment | - | POST of a comment, then `AfterCreate` | reads and patches the record |
| notifiers | batch buckets (webhook, mail, script), else none | `Send` | called from detached goroutines; incidents live at the service |
| async writer (`db/asyncwriter`) | a channel, buckets of merged deltas | `Increment`, the `Run` loop, `flush` | fed by pipeline and statistics, run by the supervisor |
| syncer, buses (`syncer`, `db/*/bus`, `listen.go`) | subscriptions, a merged channel, a debounce window | forward, debounce, reload per tenant with a timeout | fed by the drivers, calls `Reload` of the plugins |
| drivers (`db/sqlite`, `db/postgres`, `db/mongo`) | the collections | reads, writes, bulk increments, cleanups, each scoped to a tenant | everybody |
| message queue (`mq`) | a channel, a table or a collection | publish, claim, handle, acknowledge, close | between a producer and a pool of consumers |
| accounts, sessions, tenants (`auth`, `api`, `plugins`) | user, role, token, key, tenant rows; an ingest table in memory | guarded writes, login, refresh, API keys, OIDC, tenant life cycle, migration | requests interleave on the database; no lock spans two calls |
| housekeeper, heartbeat, settings, stats | schedules, `fired`, caches with a TTL, hourly counters | clean, scan, ping, read through, invalidate, reduce | delete and raise under the feet of the rest |
| daemons (`components/*`, `pkg/snoozeclient`) | cursors, caches, tickets, tokens | listen or poll, forward, answer | the outside world on one side, the API on the other |

What is hard about it, and what correctness means there:

* **Read, think, write.** A worker, a guard, a scan or a token refresh reads,
  decides, and writes some calls later; others get in between. An alert must
  not vanish, a counter must not count what did not happen, the last
  administrator must stay, a revoked token must stay revoked.
* **Batching and queueing.** Increments and rendered records sit in channels,
  buckets and batches. None may be lost or applied twice by a failing flush, a
  restart, a full queue or an expired lock, and nobody may block for good.
* **Caches.** Events are dropped when a buffer is full and coalesced per
  tenant, loads race edits, reloads time out and go on as orphans. A change
  must still arrive.
* **Three translations.** Evaluator, SQL builder and Mongo filter; three
  drivers; three sets of cleanups. They have to mean the same.
* **Half-done work.** A tenant's creation, deletion and migration are many
  writes that may stop anywhere and be tried again.
* **Unreliable neighbours.** An answer is lost after the request was taken; a
  watch expires; a peer resends. What was acknowledged must be on the server.
* **Stopping.** Every goroutine must come back when the context is cancelled.

`PROJECT.json` lists these as hazards, each at its line.

## The modules

An `MC` module instantiates components for TLC. Components that do not
interact share a run: `Init` chooses a *topic* and a behaviour is about that
one component, the variables of the others keep their initial values. The
topics are not a composition and nothing is claimed across them; components
that do interact are composed (`AlertPipeline` on `RecordStore`, `Rules` on
`Modifications` on `Conditions`, `Sessions` on `Accounts` on `Permissions`).
`MCDelivery` and `MCJobs` extend the components they run, so that a theorem
about a component and the run that checks it speak of the same definition.

| modules | model | run through |
|---|---|---|
| `AsyncWriter`, `CounterLedger` (abstract), `AsyncWriterProofs` | batched increments | itself |
| `RecordStore`, `AlertPipeline`, `AlertPipelineProofs` | workers, users, notifier responses, housekeeper on the record collection | `MCAlertPipeline` |
| `Syncer`, `SyncerProofs` | writers, bus, forwarders, dispatch loop, reloads | itself |
| `Drivers` | the methods of the three drivers | `MCDrivers` |
| `MessageQueue`, `BatchBuckets`, `Incidents`, `DeliveryProofs` | the queue; batching notifiers; incident notifiers | `MCDelivery` |
| `Conditions`, `Dialects`, `Modifications`, `Rules`, `TimeConstraints` | the languages an operator writes in | `MCLanguage` |
| `Permissions`, `Accounts`, `Sessions`, `Tenancy`, `AccessProofs` | who may do what | `MCAccess` |
| `Housekeeper`, `Heartbeat`, `Settings`, `Stats`, `JobsProofs` | background jobs and caches | `MCJobs` |
| `JiraBridge`, `Relp`, `SmtpServer`, `Collectors`, `KubeWatch`, `ChangeFeeds`, `SnoozeClient`, `TeamsBridge`, `GraphToken`, `BridgesProofs`, `SourcesProofs` | the programs around the server | `MCBridges` |

### AsyncWriter

`calling` is where each producer is inside `Increment`; `requests` is the
channel, `buckets` the map under the mutex, `batch` the local `pending` of
`flush`, `loop` the place of the `Run` goroutine (`select`, `flush`, `drain`,
`final`) or of the supervisor around it (`backoff`, `stopped`). All callers in
the repository pass a delta of one, and `accept` only adds, so a channel is a
number of requests per counter. `FlushPartition` is one `BulkIncrement` of one
collection and tenant; `FlushFails` is the same call failing, which drops what
is left of the batch, ends `Run` and hands over to `SuperviseFailure`. The
timer restarts whenever the select is entered, as `clock.After` does. A panic
of `Run` (its second return closes `closed` again) is recovered by `invoke` and
treated as an error, which leads to the same transitions.

### RecordStore and AlertPipeline

A document is a record with `Absent` for a missing key. `Write` merges by uid,
rejects a uid that is gone *without an error* and inserts a document without
one; `UpdateOne` and `BulkIncrement` upsert. A worker's `pc` stands at its next
database call: `lookup` (one action per branch of `matchAggregate`), `comment`,
`unset`, `snooze`, `notify`, `write`; the work between two calls is one step.
An alert arrives with its hash, a severity (the watched field) and perhaps
`close`. The throttle is a function of the severity, negative for infinite.
Users have two calls after their POST, `read` and `patch`. A failing call is an
action of its own, bounded by `MaxFaults`. History variables (`hits`,
`missing`, `cleaned`, `lastSent`, `flaps`, `matched`, `shelved`) record what
happened; no guard reads them.

### Syncer

A collection of a tenant is the number of commits to it, a cache the commit it
holds, a channel a count per tenant. `pending`/`todo`/`current` are the window,
its unfinished tenants and the awaited reload; `call` holds the reload
goroutines, the abandoned ones too. `missed` names the ways in which a change
can pass the syncer by: `early` (published before `Subscribe`, or after the bus
closed the subscription), `dropped` (buffer full and no event of that tenant in
it), `failed` (the query failed; nobody retries), `late` (abandoned after
`ReloadTimeout`), `lookup` (`lookupAction` stored actions read before a
reload), `silent` (`CommitSilently`: the SQL cleanups of expired snoozes and
notifications publish nothing, and a write in platform scope is published with
an empty tenant, for which `Reload` returns at once). It is history; a complete
reload that the loop waited for clears it.

### Drivers

One tenant-scoped collection, `table`, whose `backend` is chosen in `Init`. An
operation has two steps: `Begin` keeps in `seen` what its look-ups read,
`Commit` applies `Effects`, the set of outcomes the backend allows. sqlite
refuses a transaction whose snapshot is `stale`, postgres at READ COMMITTED and
mongo go on with it. `Effects` has one operator per method and backend, and a
condition is reduced to equality on fields. A document has a nested field `m`,
the one sqlite's `json_patch` (RFC 7396: deep, a null deletes) treats unlike the
shallow merge of the other two; `Conforming` leaves patches of it out of
`DriversAgree`, and `due` counts the increments each row was promised.

### MessageQueue, BatchBuckets, Incidents

A message of the queue is a row with the age of its lock; `pc` is where a
consumer is (`claim`, `drain`, `handle`, `ack`, `exited`), `batch` what it
claimed, `ctx` the context its backend gives it. A crash leaves rows locked.
In `BatchBuckets` `stage` is where a sender is; the bucket, its timer (armed for
a new bucket only), the timer goroutines that fired and have not taken the mutex
(`fired`) and the deliveries outside it (`flights`) are apart, since that is
where a record could be taken twice or not at all.
In `Incidents` a notification is a goroutine: PagerDuty and Opsgenie send one
event with a key, ServiceNow and Statuspage search and then change what they
found, and each request may be lost before or after it was carried out.

### Conditions, Dialects, Modifications, Rules, TimeConstraints

Strings are opaque; substring, order, capture and replacement are relations
given as constants, so a value keeps only what an operator can tell apart.
`Dialects` says what a row answers to a condition lowered to SQL (true, false,
unknown, or an error that fails the statement) and to Mongo. `Inside` is
substring whatever the case, `Within` as it is written: SEARCH in memory uses the
second, in the databases the first. Records also hold explicit nulls. The parser,
which is in `Conditions` with the language it reads (boolean, list and object
literals included), is compared with the grammar of its own comment, written as
a relation between token sequences and trees. `Rules` reloads query by query,
with edits between two queries and queries that fail (`SearchFails`: the old tree
stays, and nothing tries again before the next edit), and walks the tree over a
record. In `TimeConstraints` a minute has several ticks, so that an instant
inside the minute a window ends with exists. These modules use RECURSIVE
operators and are checked, not proved.

### Permissions, Accounts, Sessions, Tenancy

A permission is a pair of an access and a scope. Account writes are `validate`,
`transform`, `guard`, `write`, `audit`, one database call per step. A create may
carry a uid: its guard is called without one, and the driver lays it over the row
of that uid. `lapses` is history, what the guards and the audit have missed so
far: `overlap` (two guarded writes at once), `upsert` (a create over a guarded
row), `audit` (a row of the audit could not be written, which is only logged).
`Sessions` has one step per call of login, refresh, logout, API keys and the
OIDC redirect; a token is a number, and cryptography and the LDAP bind are
verdicts. An LDAP login looks at no account. The checks of account and tenant
fail open: a lookup that fails lets the request pass, and a sign-in whose lookup
fails stores the account again, enabled.
`Tenancy` follows a tenant's rows per collection through creation, update,
deletion, the ingest table and its reload (an announcement may be `lost` on the
way, or its reload fail), the migration stage by stage, its sentinel being itself
a row without a tenant, and the secrets drawn by nodes that boot on an empty
database.

### Housekeeper, Heartbeat, Settings, Stats

A cleanup is one statement where the backend makes it one, otherwise a scan, a
probe of parents and a delete. The heartbeat scanner judges a copy of a row
while pings write the original; `fired` dies with the process. `held` is
history: the heartbeats a mark was set for. The mark is kept by tenant and name,
so two heartbeats of one name share it (`Shared`). Bodies of POST, PUT and PATCH
are judged by whether they carry a name, whatever the verb, so a heartbeat can be
stored without one (`partial`); suspended tenants are `dormant` and not scanned, and
a failing list of tenants ends the pass. The backfill of tokens goes by name.
`NOT IN` over an empty subquery is true of a NULL (`NotIn`). `Settings` has
the cache with its lock and its TTL on two servers, reads without a tenant, which
get the file alone (`LoadNoTenant`), the plugin's
sections and subscribers, and the overrides laid over the file. `Stats` is the
hourly counters and every reduction the dashboard makes of them, of at most
`CounterCap` documents (100000 in the code).

### The bridges

`JiraBridge`: envelopes, tickets, the retrying client (a create whose priority is
refused is asked again as a string, with its own attempts), transitions, the
poller with its own query or an override (`jql`), and tickets that are deleted,
moved or edited out of it (`Relist`). `Relp`: frames cut anywhere, and sessions
whose peer resends, with and without a read timeout (`deadline`; there is none by
default). `SmtpServer`: one session's commands, envelope, dot-stuffing, limits; a
read that times out inside DATA leaves the envelope, and the rest of the body is
read as commands (`TimeOutInData`, `astray`). `Collectors`: syslog over UDP and
TCP, where a line over the limit of the scanner takes the connection and what
stands behind it (`Overlong`, the end `"cut"`), traps over a bounded queue.
`KubeWatch`: watch, resume, 410, back-off, suppression. `ChangeFeeds`:
LISTEN/NOTIFY and change streams, the kinds of commit each tells and in which
form (`Kinds`, `MayBeBare`), subscriptions as prefixes of topics (`Fits`), and for
each commit not heard of the reason (`unheard`). `SnoozeClient`: callers that
share a token, or send an ingest token, which no login replaces. `TeamsBridge`:
posts, the thread cache, the poller's cursor and its commands; what Graph lists
is a configuration (`Listings`), with replies or without. `GraphToken`: the grant
in memory and on disk, two callers refreshing it, a refresh whose answer is lost
(`AnswerLost`), the device flow. Peers (Jira, the
cluster, Graph, a mail sender) are external and modelled by what the code
expects of them, lost answers included.

## The runs

A run's properties are either stated alone or are named conjunctions, one per
subject; the conjuncts are defined and commented in the component's module.

| run | property | what it says |
|---|---|---|
| `writer_faults` | `Conservation`, `GracefulShutdownDelivers`, `ImplementsLedger` | no increment is applied twice or lost outside a failed batch; without a failure a shutdown delivers; the writer implements `CounterLedger` |
| | `WriterProgresses` | what was taken is flushed, `Increment` returns until a flush has failed |
| `pipeline_single` | `OneRowPerHash`, `SnoozedIsCurrent`, `FlappingCap`, `ThrottleHonoured` | one worker at a time, an edited filter, time: one row per hash, current attribution, limits kept |
| `pipeline_concurrent` | `CommentCountCovered`, `WriteStores` | two workers, a user, the housekeeper and a failing call: the count never exceeds the comments made, an alert whose write succeeded is there unless its row was deleted in between |
| `syncer_safe` | `NothingForgotten` | a cache that is behind has something on the way, or the change was missed in a named way, silent ones included |
| `syncer_live` | `SyncerProgresses`, `ShutdownCompletes` | a change arrives, a hanging reload stalls the loop only until its timeout, shutdown ends every goroutine |
| `drivers` | `WritesSerialise` | primary keys on sqlite, exact counters on sqlite and mongo (not on postgres, see `IncrementsKept` below) |
| | `DriversAgree` | on conforming calls, without nested objects in a patch, the three leave the same rows and return the same documents |
| | `StepsStayInScope` | no call changes another tenant's rows; the methods of the SQL drivers, but not the cleanups, announce what they change |
| `delivery` | `QueueKeepsPromise`, `BatchesHold` | acknowledged means handled, one live holder, at most once in process; a batched record is in one place and buckets are bounded |
| | `IncidentsFollow`, `DeliveryProgresses` | an incident follows its record and a close resolves nobody else's; every message is handled, every batched record attempted, and `Close` returns |
| `language` | `BackendsAgree`, `ConditionsSurvive`, `ParserFollowsGrammar` | evaluator and backends agree but for two leaves (EXISTS of a null, the case of SEARCH) on which the backends agree with each other; stored forms round-trip; the server's parser is its grammar |
| | `RulesHold`, `WindowIsDaily` | the tree in memory is the stored one once edits settle and unless the last reload failed, tags and modifications follow it; daily windows over midnight, to the first instant of the last minute |
| `access` | `AccountsGuarded`, `SessionsHold` | a platform administrator stays as long as guarded writes do not overlap and no create carries a holder's uid, reserved roles are confined, deletions audited unless the audit row failed; no local session, sign-in or key whose lookups were answered gives more than account and tenant have |
| | `TenantsWhole`, `StepsStayHome` | purge, ingest table (unless an announcement or its reload was lost), login page, migration and secrets; revoked stays revoked, rows go only with their tenant |
| `jobs` | `HeartbeatsHold`, `SettingsHold`, `DashboardHolds` | stored heartbeats can be scanned unless a body without a name made them, silences are raised once, a tenant's settings are fresh and harmless, the dashboard adds up on every backend up to the cap |
| | `StepsSpareOthers`, `JobsProgress` | cleanups delete useless rows of their tenant; what can be cleaned is, a silence in an active tenant is raised |
| `bridges` | `FramesRoundTrip`, `AnsweredWasForwarded` | RELP framing; what a sender was told was accepted is on the server |
| | `SourcesFollowed`, `BridgesProgress` | nothing followed is lost, doubled or made up without a reason the code names; each daemon gets there and stops (a RELP session whose read has no deadline only at the end of its connection) |
| `heartbeat_never_pinged` | `NeverPingedRaised` (**violated**) | `markFired` answers false when the remembered `last_seen` equals the present one; for a heartbeat never pinged both are empty, so it is never raised, against the comment at `heartbeat/scan.go:88` |

`TypeOK` is an invariant of `pipeline_concurrent` and `syncer_safe` and a
conjunct of `QueueKeepsPromise`, `ConditionsSurvive`, `AccountsGuarded`,
`HeartbeatsHold` and `WritesSerialise`; `BatchTypeOK` is one of `BatchesHold`.

Where a property holds only up to something the code does not promise, the
exception is in the formula and named: `overlapped` records, `loose` callers,
`late` boots, `missed` changes, the guards' `lapses`, `raced` sessions, rows
`touched` between scan and delete, watchers `overtaken`, refreshes that `overlap`,
mail gone `astray`, commits `unheard` for a reason, a rule moved while the tree was
read, heartbeats that share a name or have none. An excepted case is not caught
by its property; the hazards in `PROJECT.json` whose case is excepted name no
property, and say so.

### Bounds and why they are enough

Bounds are constants used as guards of the actions concerned and named so
(`MaxFaults`, `MaxEdits`, ...); the cfg files hold their values.

* Two actors wherever a race is between two (workers, clients, callers,
  servers, senders, consumers); three alerts, four notifications or three calls
  let a third one meet the result of the race. One webhook handler in
  `JiraBridge`, against the poller: two handlers share only the
  tickets and the cache of users.
* One hash in `AlertPipeline`: workers of different hashes share no row. Two
  tenants wherever something is kept apart by tenant.
* Capacity 1 for channels, queues and caches (2 for the thread cache, 2 for
  batches), so that the next item already meets a full one.
* Throttles, leases, TTLs, intervals and visibility timeouts of one or two
  ticks and a clock a little longer: an instant inside, at and after each.
* `Uids` is large enough for every insert the other bounds allow.
* `language`: every condition of at most two connectives over the leaves that
  distinguish the operators, on every small record; every query of at most four
  phrases; three edits of a tree of two rules; four modifications; every
  window over a day of four minutes, two ticks each, in two zones.
* `bridges`: frames of at most 13 bytes of data with a limit of 12, mail of a few
  lines with a limit of 11 bytes, two tickets, three cluster events, two tenants
  of which one's slug begins the other's.
* One or two faults (lost answers, refused requests, crashes) per behaviour,
  placed anywhere.

Symmetry is used on workers, uids, users, clients, requests and writers in runs
without liveness properties. `CHECK_DEADLOCK FALSE` where the inputs can be
used up and everyone is idle; in `delivery` deadlock is checked, a queue that
has stopped (`Stopped`) being the one state that may stay as it is.

### Fairness

Only goroutines that can run, timers, and calls that return are fair; nobody is
obliged to send an alert, to edit, to fail or to stop the server.

* `AsyncWriter`: a send, an accept and the `ctx.Done` case get strong fairness.
  Blocked senders wait in the FIFO of the channel and a Go select picks
  uniformly among the ready cases, so a case that is ready again and again is
  taken.
* `Syncer`: weak fairness, and strong for `DispatchEnds`, a select case for
  which the same holds. A reload gets fairness only until it has run past its
  timeout, so the results hold with a query that never comes back.
* `MessageQueue`, `BatchBuckets`: weak fairness of consumers, of blocked sends,
  of senders in a flush, of the bucket's timer and of deliveries (whose
  outcome, success or failure, is free).
* `Housekeeper`, `Heartbeat`: the poll loop, the steps of a pass or a scan, the
  clock and pings under way. Failures are bounded, since the next pass retries.
* `MCBridges`: the loops of the daemons (poll cycle, session, listeners,
  worker, watch, feed delivery, callers of the client, device polling). Peers
  are not fair: a client that never answers is a fault with a bound.

## The proofs

TLAPS checks the following for every value of the constants: any number of
producers, tenants, workers, users, consumers, senders, servers and goroutines,
any buffer size and any bound on faults. The assumptions are the named ones of
the modules. They say that capacities and periods are positive and bounds are
naturals, that the null value is none of the values it stands beside, and that
a constant naming backends, jobs or comment types names only ones the code has.
`SettingsAssumption` takes the TTL to be positive, which the constructor
enforces (`NewRuntimeSettings` replaces a value that is not); `BatchAssumption`
takes the senders to be finite, as goroutines are.

An invariant that a run checks is seldom inductive. Each inductive invariant
below was checked by TLC before it was proved; what it adds to the property is
where the argument lies.

`AsyncWriterProofs`

* `TypeCorrect`: no buffer count goes below zero, no timer past its period.
* `ConservationHolds`: `Conservation` needs `BatchEmpty`, that the batch is
  empty outside a flush, or else a swap would overwrite unsent deltas.
* `GracefulShutdown`: `ShutdownInv` follows the deltas while the loop stops:
  `closing` is closed before the drain, and from the final flush on everything
  taken early is in the batch or stored.
* `Implementation`: each action of the writer maps to a step or a stutter of
  `CounterLedger` under `owed = requests + buckets + batch`.

`SyncerProofs`

* `TypeCorrect`, and `NothingIsForgotten`: the reload the loop waits for may
  have read one collection before a commit, and storing that snapshot would
  leave the cache behind with nothing on the way; `SnapshotCovered` says that
  whatever it has not seen is covered, or missed in a named way. `WindowDone` (no leftover tenants when a
  window closes), `WaitsForRunning` and `OpenUntilShutdown` complete `SyncerInv`.
  The step is split by actors: `BusCovers`, `ChannelsCover`, `ReloadsCover`,
  `OthersCover`.

`AlertPipelineProofs`, with any interleaving, faults and cleanups included

* `TypeCorrect`: documents keep their fields through merge, upsert, unset,
  increment and cleanup.
* `CountCovered`: a row's `comment_count` never exceeds the comments made on it.
  The count travels: a worker reads it, adds its auto comment and writes it
  calls later, and a user does so too. `CountInv` has one part for each place:
  `StoredCovered` (rows), `CarriedCovered` (workers; one more is allowed while
  the comment itself is still to be written) and `ReadCovered` (users between
  read and patch). They are related to `Due`, the comments made plus those
  posted and not yet counted, which no step but a counting one lowers (`DueGrows`).
* `WrittenIsStored`: an action property; a write that returned leaves a row with
  the alert's hash unless the row was deleted since the lookup.

Also in `AlertPipelineProofs`, what holds when alerts come one at a time. The
hypothesis `OneWorker` is needed: with two workers each of these fails, as the
last section says. `~Cleaning` says that no record expires meanwhile, since a
row that goes between a worker's lookup and its write takes its history with it.

* `SerialOneRowPerHash`: `RowInv` says that a worker's view is current: the row it found
  is still there under its hash (`FoundIsThere`), and if it found none there is
  none yet (`MissedIsMissing`); queued increments have a row to go to.
* `SerialSnoozedIsCurrent`: the attribution on a row, and the one a worker is
  about to write, come from the last evaluation (`SnoozeInv`). Stated, like the
  property, for behaviours without a failed call.
* `SerialFlappingCap`: what is left of the countdown covers the notifications
  sent, on the row or, between the notification and the write, on the worker
  (`FlapInv`). It assumes `Flapping >= 0`, because a negative one is no cap.
* `SerialThrottleHonoured`: an action property; a row is not dated before the last
  notification of its hash, and an escalating worker has waited the throttle out
  and cannot have been overtaken (`ThrottleInv`).

`DeliveryProofs`

* `PromiseKept`: `AckedWasHandled`, `OneLiveHolder` and at-most-once in process.
  `QueueInv` adds that a consumer has a batch exactly while it works on one
  (`BatchShape`), that an unexpired claim is as old as the lock it took
  (`LockHeld`, without which two consumers could both count as live), and that
  an in-process message is in one place (`Placed`).
* `RecordsInOnePlace`: every record accepted so far is in exactly one of a
  bucket, a sender, a delivery and the outcomes (`RecordsPlaced`), and a bucket
  exceeds its size by at most the senders about to flush it (`BucketFits`, an
  argument about cardinalities).
* `IncidentsFollowRecords`, `Spec => []IncidentsFollow`. When the notifications of
  a record did not overlap and all succeeded, a record last notified as open has
  a live incident and one last notified as closed has none, within the limits of
  each service: Statuspage resolves by name, so another record's close may reach
  the incident, and ServiceNow resolves one incident of a record. For these two
  a close is a search and a change in two requests, and the property speaks of
  neither alone. `NoticeShape` says that what a notification found is of its
  record or has its name, `IncidentShape` that an incident has the key and the
  name of a firing of its record. `Follows` is the part about a record left in
  peace (`Smooth`): its notifications go one after the other (`OneByOne`), a
  record that fired once has at most one incident (`OneIncident`), a live one has
  a firing no close came after (`LiveWasFired`), such a firing left a live one
  (`FiredIsLive`), and under a name of its own a close that found an incident is
  about to resolve the only live one (`OneOpen`). `AlertsAssumption` says that two
  records share neither uid nor hash, and that no uid is another's hash: the
  correlation key is the hash or, without one, the uid.

`JobsProofs`

* `SettingsKept`: a read for a tenant is not staler than the TTL, nor older than
  the last save that returned on its server; one without a tenant gets the file
  alone, and nothing is said of its age. `CacheInv` says it of the partition and of every
  phase of a load; a load that has queried still holds the lock, so no
  invalidation slips between query and store. `SectionInv`: a `Set` that nobody
  overlapped writes back what is still there; a watcher announced to after it
  left is known to have been overtaken.
* `HeartbeatsKept`: a stored heartbeat can be scanned unless it is `partial`, and a
  silence is raised once. `BeatInv` says that a raised
  silence keeps its mark until it is over for the document and for the copy the
  scan holds, and that the copy is never older than the raised silence
  (`RaisedMarked`).
* `StepsSpare`: an action property; a cleanup deletes only useless rows of the
  tenant it is at, a comment of no record being one on SQL once its tenant has
  none (`NotIn`). The choice is made some calls earlier, so `CleanInv` carries
  that what was chosen stays worthless as time passes and rows go
  (`ChosenUseless`, by `UselessLater` and `UselessFewer`), that the probe's
  references are of chosen rows (`ProbeHolds`) and that the pass stays in its
  tenant (`PassHome`).

`AccessProofs` takes `TenantsWhole`, `StepsStayHome`, `AccountsGuarded` and
`SessionsHold` from `MCAccess`.

* `TenantsStayWhole`, `Spec => []TenantsWhole`. `PurgeComplete` is not
  inductive: when `DeleteRegistry` removes the document, nothing in it says that
  the sweep was finished. `PurgeInv` adds `SweptIsClean` (the collections before
  a deletion's position hold no live row of its tenant) and the position itself
  (`DeletionAt`: past the end of the list exactly when the document is next).
  The interesting cases are a second deletion that starts over, a client's write
  between two sweeps (`Written` marks it late exactly when some deletion has
  passed the collection, which is what keeps every other deletion's
  `SweptIsClean`), and a tenant created again while an old deletion is still
  under way. `IngestTableFollows` needs that everything that changes a token
  announces it, and speaks of announcements and reloads that were not lost:
  `SameTables` says that the table asked for depends on the tokens
  only, so seeding the default tenant and switching a status need no
  announcement. `MigrationInv` says which collections are stamped at each stage,
  with the one that the platform role unstamps and the sentinel apart, `BootInv` that a server past its
  secret has the key of the database as long as no write was late. `QuietInv`
  adds that outside the topic of tenants no tenant request is under way. TLC
  finds `QuietInv` and `MigrationInv` true on the instance of the `access` run.
* `StepsStay`, `Spec => StepsStayHome`. A row is only stored for a token not in
  use, which is the least of the unused ones and so exists (`NextIsUnused`, by
  the well-foundedness of the numbers); `markRevoked` and `Cleanup` are the
  other writers (`RefreshSteps`). Every write of a row leaves one
  (`WriteRowEffect`), so only `DeletePurge` removes any.
* `AccountsStayGuarded`, `Spec => []AccountsGuarded`. `LastAdminKept` is about
  requests that do not overlap and creates that carry no holder's uid (`lapses`,
  which only grows: `Lapsing`), and it is not inductive: what `CommitUpdate` and
  `CommitDelete` write is safe only because the guard, a step earlier, saw the
  same users. `Serial` says so: when no two guarded writes have overlapped, the
  request in flight is alone, the document it read before is still the stored
  one, a bulk delete's search still names the same uids, and a request about to
  write would pass its guard again (`Current`). `GuardForesees` is the fact about
  the code's arithmetic on documents that the rest hangs on: the roles
  `newHasPlatformAdmin` computes from the request and the prior document are the
  roles of the document the write leaves, for a patch and for a replacement, and
  that document is enabled unless `disablesUser` said otherwise. A create lays its
  body over the row of the uid it carries, which leaves the other holders; the
  holder itself it can demote, and that is the lapse `upsert`. A commit then
  either keeps the witness or has another one from the guard (`HolderKept`). The
  same invariant gives `DeletionsAudited`: what a lone bulk delete removes is
  what it searched for and audits, or the audit failed and that is a lapse.
  `ReservedConfined` needs no premise on overlap, only that no create was laid over
  the platform role; it follows from `TransformWrite` and `checkReservedRole` alone, through
  `PatchPlatform` (a patch gives a document the platform role, or the document
  had it), and therefore holds when writes overlap. The steps outside the account
  routes are part of it: an administrator's patch, a password change, and an
  account stored by single sign-on, whose tenant comes from the cookie
  (`LoginTyped`, `CookieTyped`). TLC finds `AccountsInv` true on the instance of
  the `access` run.
* `SessionsStayHeld`, `Spec => []SessionsHold`. A refresh is four database calls,
  and between them nothing says that the session has no other live row.
  `ClaimsAlone` does: of a session nobody raced for, a request that has read the
  row but not yet revoked it claims the only live row, and one that has revoked it
  and not yet issued the successor claims a session without any; no two requests
  claim one session. `handleRefresh` keeps it because `Holders` marks the session
  raced when another request holds the token, and `signSession` because a session
  takes the number of a token never drawn (`SessionsSigned`). For the accounts and
  the tenants, `Sound` says of a request in flight what its flags are worth at each
  step: before the check, disabled (suspended) ever since it began means disabled
  (suspended) now; after the check, it was not. A check that was not answered, and
  an LDAP login, clear the flag, for the code then knows nothing of the account;
  what is proved is what the checks are worth when they are made. That needs the
  other actors: an
  administrator who enables the account or reopens the tenant clears the flag of
  exactly the requests it concerns, a sign-in that stores an account leaves the
  other disabled ones disabled, and a password login looks at the one account of its
  topic (`OneAccount`). `CookieSound` says that a start has the state of the cookie
  only if it has its organisation. `KeyWithinOwner` needs no invariant
  (`KeysWithinOwners`): what `IntersectGrant` keeps is permitted by the owner's live
  permissions, and on every route of `UserMetas` a reading permission is accepted
  wherever its writing form is (`GrantWithin`). TLC finds `SessionsInv` true on the
  instance of the `access` run.

The list of collections, the requests, clients, tokens, keys and servers are
arbitrary; the tenants are the three that `MCAccess` names, and so are the
documents its requests bring. Assumed of the constants: the list is a sequence of
names that has the five collections written by name (`TenancyAssumption`),
no server is called `NoSecret`, uids and tokens are numbers, the refresh lease
and the bound on the clock are numbers, and the uids 1 to 3 and the ingest tokens
`k1` and `k2`, which the requests of `MCAccess` name, exist (`AccessAssumption`).

`BridgesProofs`, from `BridgesAssumption` (a mail is a list of lines, retries are
counted, the polled channel is one of the channels)

* `AnsweredIsForwarded`, `Spec => []AnsweredWasForwarded`. The property compares
  two ends, what a sender was told and what the server has; `BridgesInv` follows
  what is between them, one part per program, and each program moves alone
  (`IdleKeeps`). `RelpInv` says of every frame on the wire that it belongs to a
  transaction of this connection (`Carries`) and of every reply on its way that
  what the peer would take it for is true (`Honest`): numbers start again with
  each connection, so an old acknowledgement could otherwise be read as that of
  a later transaction. `SmtpInv` says that session and peer agree on sender,
  recipients and login, until a read of the session timed out inside DATA, and that
  an envelope was begun by one who may, even then (`MeantFor`); that a
  mail is read as it was meant is a lemma about dot-stuffing, that the line
  ending a body on the wire is its first dot line (`ReadAsMeant`). `ClientInv`
  bounds the sends of a call by its place in the retries (`CountSound`) and says
  that a call that logged in again has a token the server takes, or lost it to
  someone else, or sends an ingest token that the server refuses (`AuthSound`).
  `GraphInv` does the first for requests to the chat's provider (`SendsSound`). `TeamsInv` says that a channel of an alert
  request waits, has failed or shows its message (`Underway`), and that the
  command being answered was done.

`SourcesProofs`, from `SourcesAssumption` as well (windows, limits, pages and
attempts are counted, at least one attempt is made, a listener has a socket,
batches and requests are lists). The parts about cluster events, change feeds and
collectors are proved in `BridgesProofs`.

* `SourcesAreFollowed`, `Spec => []SourcesFollowed`.
  `KubeInv`: everything up to the tracked version, and everything the open stream
  has passed, has its fate; these are two places, and a watch that resumes goes
  back to the first. A remembered key stands for an attempt, so what is
  suppressed recurred within the window.
  `FeedInv`: a commit is on the wire, in the channel, heard or left out with an
  excuse that was true when it was given and still is (`Somewhere`), and what is
  in the channel was asked for (`Routed`); the
  channel is open while someone listens, so nobody sends on a closed one.
  `CollInv`: messages unread, queued, in hand and ended are apart and together all
  there are (`Apart`), each in one place (`PlacesSound`), and what ended as cut
  stands at or behind a line that was too long, on a connection that is gone
  (`CutsSound`); for UDP and traps they also stand in order from the posts
  to the socket (`InTurn`), which is what makes the posts rise.
  `JiraInv`: a ticket that is done was resolved, what the poller tracks is a
  ticket with the hash in its field, so what a full search did not show was
  resolved or had left the list (`Unseen`, `PollerInv`); a request has tried each envelope up to the one it is
  at, and asked for no more tickets than it has tries (`JiraRequests`).
  `GrantInv`: while refreshes have not overlapped, one request at most is
  between its refresh and the rename (`OneRefresh`), the temporary file is its own
  (`SavesSound`), and, unless the answer to a refresh was lost, the file holds a
  good grant or such a request carries one (`GrantsGood`).
  `ThreadInv`: a known thread starts with a message of the daemon that shows the
  record (`KnownThread`), and what was done for a message is remembered, unless
  the message was evicted or its thread is out of reach (`Remembered`). The last
  exception is what a restart needs: it forgets what was seen and the threads
  together, and a thread comes back only with a new message (`Reachable`). Of the
  command in hand, nothing was done for it before (`NotDone`, `NotAcked`). Roots
  that are stored, answered or about to be cached are roots (`RootedInv`).
  The oldest message evicted and the newest one posted are extremes of finite
  sets of numbers, which exist by well-foundedness.

TLC finds `BridgesInv` and `SourcesInv` true on the instance of the `bridges` run.

Only model-checked: liveness (fairness and ENABLED are beyond the prover);
everything that reaches a RECURSIVE operator (`Conditions`, `Dialects`, `Rules`
and what extends them: `ConditionsSurvive`, `BackendsAgree`,
`ParserFollowsGrammar`, `RulesHold`, and `WindowIsDaily`, which is stated beside
them); and the invariants that say what a computation over data of any length
returns, which needs induction: `DashboardHolds` (sums over rows), `FramesRoundTrip`
(decimal lengths read back digit by digit), `DriversAgree` and `WritesSerialise`
(folds over the documents of a bulk operation).

## Disagreements met while modelling

`heartbeat_never_pinged` is checked as a run. The following are consequences of
the models or were met while reading. Where a formula is named it is defined
in its module and is violated by what the code does; it is not part of a run.

Records and pipeline:

* A throttled hit is counted in the written record and by the queued increment
  (`DuplicatesCountHits`); the flapping countdown is never reset
  (`FlappingEndsWithThrottle`); a throttled duplicate writes back the state it
  read, over an acknowledgement (`ThrottledKeepsState`); the next hit writes a
  positive ttl over a shelved row's negative one (`ShelvedStays`).
* A row deleted between lookup and write: the rejected write is not an error
  and the alert is lost (the exception in `WriteStores`).
* Two concurrent first occurrences insert two rows
  (`aggregaterule/plugin.go:375`); two hits outside the window both escalate.
  `comment_count` may stay below the comments made. A comment restarts the
  throttle window and the life time of its record. An increment flushed after
  its record was deleted creates a row without a ttl.
* A notifier that answers before the first write of its record finds no row
  (`notification/plugin.go:425`).
* The flush timer (`writer.go:107`) is made anew for each request, so a steady
  stream postpones the flush; after a failed flush during shutdown `Increment`
  can block (`IncrementReturns`).
* An abandoned reload may store an old snapshot over a newer one; caches are
  loaded before the syncer subscribes.
* The SQL cleanups of snoozes and notifications delete cached rows and publish
  nothing (`sqlite/cleanup.go:273`, `postgres/cleanup.go:183`); a write in platform
  scope is published without its tenant, and `Reload` without one does nothing
  (`notification/plugin.go:152`). Either stays in the caches until the next event.

Notifiers:

* Nothing calls `Stop` of the batching notifiers: a shutdown drops the buckets
  (`ShutdownFlushes`, `webhook/batch.go:134`). A webhook bucket of mixed URLs is
  sent to one of them (`OwnTarget`). The comment of script's environment says
  that values set by the user win; they do not.
* Every firing opens another ServiceNow or Statuspage incident; ServiceNow's
  resolve takes any one with the correlation id, resolved or not. Statuspage
  scans a newest-first list from its end "so the most-recently-created entry
  wins"; the oldest one does. Its name contains the severity by default, so a
  close with another severity matches nothing.
* Notifications of one record are detached goroutines and may overtake each
  other; a close that arrives first leaves the incident open.

Storage and language:

* Two writers can both insert a primary key on postgres (`PrimaryIdentifies`);
  a mongo batch with a repeated primary inserts both; a postgres merge after a
  concurrent delete inserts a row whose data has no uid. `GetOne` of sqlite
  documents the first row and returns the newest; postgres ignores descending
  order without a sort field.
* `BulkIncrement` of postgres reads the row without a lock and writes the sum
  back: of two at once one increment is lost (`IncrementsKept`).
* sqlite merges with `json_patch`, deep and with nulls as deletions, which
  `sqlite/bulk.go:9` says and `sqlite/driver.go:1082` calls a shallow merge;
  postgres and mongo merge the top level only.
* EXISTS of an explicit null is false in memory (`condition/evaluator.go:143`) and
  true in the databases; SEARCH heeds case in memory (`:186`) and not there.
* The web client's parser binds AND tighter than OR and reads `field IN list`;
  the server's binds OR tighter and reads `list IN field`. The web test claims
  parity with the server (`web/src/lib/condition/text.test.ts:80`).
* SET of a value that prints like the old one, 1 for "1", is made and reported as
  no change (`pyEqual`, `modification.go:659`). A rule reload whose query failed
  is not tried again before the next edit (`rule/plugin.go:151`).
* A window until 07:29 ends at 07:29:00; `docs/content/general/timeconstraints.md`
  (lines 28 and 72) has it last to 07:29:59.
* SEARCH without fields matches nothing on mongo; CONTAINS on a missing field
  searches `<nil>` in memory; IN binds numbers as text on sqlite; `/.../` is
  stripped from MATCHES by the evaluator and postgres only; sqlite raises on a
  list operator over a scalar (`ScalarsHandled`); `["", ...]` and `[null, ...]`
  decode to an always-true condition.
* A rule with an empty list of parents is documented as a root and is not read
  as one (`EmptyParentsAreRoots`); a cycle of rules recurses without end; typed
  tags make `IN tags` and ARRAY_APPEND no-ops in rules. Time bounds in two
  different zones do not describe a daily window.

Accounts, sessions, tenants:

* Overlapping guarded writes can remove the last platform administrator. PATCH
  and PUT of a uid that is not there insert. PATCH of an API key can raise its
  expiry past the maximum.
* A POST whose body carries the uid of a stored row is laid over it, and its guard
  is not told of that uid (`plugins/crud.go:300`): it can take the role from the
  last administrator, where `user/plugin.go:146` promises otherwise, or rename the
  platform role (`role/plugin.go:121`). The audit is best effort
  (`crud.go:28`): a deletion may leave no trace.
* Disabled accounts are refused by local logins and by single sign-on; an LDAP
  login never looks at the account, where `docs/content/general/users.md:93` says
  that it does. The checks fail open: a lookup that fails passes, and a sign-in
  whose lookup failed stores the account again, enabled.
* The comment of `handleRefresh` says "atomically"; it is several steps. A
  refresh does not check that the tenant is suspended. `markRevoked` after the
  cleanup writes a row without a tenant. The cleanups of refresh tokens and keys
  are not scheduled. API keys of LDAP users never resolve.
* Deleting a tenant leaves its API keys (`NothingLeftBehind`), and live sessions
  may write while it is purged. `TenantStatus` documents that an unknown tenant
  fails closed. Boot re-activates a suspended default tenant. `EnsureSecrets`
  takes any read error for "no secrets"; two first boots may sign with different
  keys. `writeSentinel` documents an upsert and inserts, and its row has no tenant,
  in a migration that is to leave none.
* The ingest table stays as it was when the event of a tenant's change is dropped
  (`cmd/snooze-server/main.go:395`) or the reload fails (`ingest_reload.go:68`),
  until the next change of any tenant.

Jobs:

* Cleanups that scan and then delete can remove a row refreshed in between;
  orphan rules differ between backends; the aggregate cleanup drops the whole
  collection for each tenant. NULL `NOT IN` nothing is true: once a tenant has no
  record, the SQL cleanups delete its comments without a `record_uid`, which mongo
  keeps.
* The housekeeper reads settings without a tenant and so gets the file alone
  (`config/runtime.go:271`); an interval edited in the settings never reaches it,
  where `core/boot.go:374` says the next firing does.
* The dashboard reads at most 100000 counters; what is over the cap, the latest,
  is left out with a warning in the log (`stats/plugin.go:189`).
* The settings plugin stores `{section, values}`, the runtime reads
  `{name, value}`; `fanout` can send on a channel that was closed; `Set` is a
  read and a write. Another server is stale for the TTL and the query.
* Two heartbeats of one name in a tenant share one mark: each scan takes the
  other's `last_seen` for a new silence and raises both again, where
  `markFired` promises "exactly one miss alert" (`Shared`, the exception in
  `RaisedOnce`). A heartbeat miss is marked before the pipeline took the alert; PATCH with a
  name and no token mints a new token; the backfill covers the default tenant.
* A heartbeat created or replaced by a body without a name passes `Validate`, which
  takes it for a patch, is stored, and is never scanned (`partial`, the exception in
  `StoredIsScanned`). Heartbeats of one name get one token from the backfill
  (`heartbeat/plugin.go:185`), and a ping whose token names two is refused.
* A suspended tenant is not scanned, and a failing list of tenants ends the pass
  (`housekeeper/tenant.go:24`); `SilenceRaised` speaks of active tenants and of
  passes that are made again.

Daemons:

* Jira and Google Chat read `snooze_webhook_responses`, which nothing writes. A
  truncated poll treats unseen tickets as closed, and so does any poll a ticket
  that was deleted, moved, cleared of its field or is outside `poll_jql`; a failed
  close is not tried again; a failed user lookup is cached for good. A create that
  needs its priority as a string may ask twice as often as the attempts allow.
* RELP sends `serverclose` only on a close command, not on a graceful shutdown
  (`relp/listener.go:128`), and has no read timeout by default, so that a silent
  peer keeps a shutdown waiting (`Serve`). SMTP keeps the envelope after 552, and
  after a read that timed out inside DATA (`smtp/server.go:371`): no reply is
  sent, the rest of the body is read as commands, and the peer may take a later
  250 for the answer to its mail. A TCP syslog line of more than 64 KiB ends its
  connection and takes the lines behind it along (`syslog/listener_tcp.go:22`),
  with a message at debug level only. Traps still
  queued at shutdown are dropped although `Run` says the forwarder finishes
  them; an idle syslog connection keeps the listener waiting at shutdown. A
  failed post of a cluster event still suppresses its recurrences.
* `pgBus.Close` does not close every subscriber's channel as documented; the
  mongo stream opens after `Subscribe` returned. The postgres cleanups notify
  nobody; platform-scope writes on postgres, and deletions and updates of a row
  since gone on mongo, carry no tenant. A subscription is a prefix of the topic
  (`strings.HasPrefix`), so that of one tenant also hears tenants whose slug
  begins with its own.
* The client's `Login` runs concurrently (`client.go:153` says one at a time);
  EOFs and DNS errors are not retried. A refused ingest token makes it log in and
  send the same ingest token again.
* Teams: `fetchMessages` asks for the messages of the channel, which Graph lists
  without replies (`teams/graph.go:449`), so a command typed in the thread of an
  alert is never seen; the model has both listings and claims of each what holds
  for what it lists. A refresh whose answer is lost may leave a grant that the
  provider has rotated away, until someone authorises again.
* Teams, too: a command older than one handled in the same poll is skipped; with
  several records in one message the last uid wins; a re-escalated thread is
  cached under the reply's id; the token on disk is used again after a 401;
  overlapping refreshes share one `.tmp` and may save the older grant last; a
  failure to save fails the call; `authorize` beside a running daemon is
  overwritten by its next save; evicted commands may act twice.

## Not modelled

`PROJECT.json` gives the reason for each component. Left out for good: pure
translation (receivers, notifiers of one request, CLI, web, telemetry),
fixtures, and start-up code that only wires. Left out of modelled components:
MIME and syslog parsing, the lexer's characters, regular expressions (given as
relations), cryptography, driver connections, indexes and backups. The
Mattermost bridge and the frequency limits of notification entries are the
next candidates.
