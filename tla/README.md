# pb-ext in TLA+

A verification project for [pb-ext](../src/README.md), an extension of the
PocketBase server: alerting, an audit log of administrative access, analytics,
cron jobs with logs, request statistics and versioned API documents, all inside
one Go process. The modules are translated from the code in `src/`; paths below
are relative to it.

    tlc -workers 2 -config MCNotifier.cfg MCNotifier      # one run
    tlapm NotifierProofs.tla                              # one module of proofs

`PROJECT.json` lists the runs, maps every definition to the lines it models, and
names, for every property of a passing run, a mutant of the model (an operator
that differs from a definition the way a plausible bug would) that violates it.

## 1. Inventory

### The process and its order

`core/server/server.go` registers three hooks.

- **Bootstrap** (97-153): pb-ext's own migrations, `alerts.Initialize` (which
  reads the crash marker), `audit.Initialize` and its auth hooks,
  `jobs.Initialize` (which marks orphaned logs) and the internal jobs. It runs in
  *every* command of the binary, not only in `serve`.
- **Serve** (183-328): the request middleware, health page, analytics, the routes
  of jobs, alerts and audit, and `NotifyStarted`, which judges the previous run.
- **Terminate** (156-181): `analytics.Close`, `auditor.Close`, `NotifyStopped`,
  `alerts.Close`, in this order, because a final flush of the auditor may raise
  alerts and `NotifyStopped` queues one.

Goroutines: the requests; the notifier's worker and the rule evaluator; the flush
workers of audit, analytics and of the job logs, the latter with a timer beside
it; the cron scheduler with a goroutine per due job.

### Components

| Component | State | Operations | What is hard | What makes it correct |
|---|---|---|---|---|
| **Notifier** `core/alerts/alerts.go` | cooldown map, hour window, tally of suppressed alerts, counters (all under `mu`); channel of `QueueSize`; `stop`, `stopped` | `Send`, worker (`deliver`, `pace`, `sleep`, `record`, `takeDigest`), `drain`, `Close` | admission and push are two steps; one worker sleeps, retries, and must notice the stop; a drain under one deadline | no alert goes missing uncounted; a suppression is told once; cooldown and cap hold under pruning; Close ends |
| **Crash marker** `core/alerts/crash.go` | a JSON file, a temporary file, the marker in memory | `NotifyStarted`, `heartbeat`, `NotifyStopped`, `readMarker` | two goroutines save through one temporary name; a crash at any point | a crash is seen, a clean stop is not called a crash, a loop is only reported when it is one |
| **Rule evaluator** `core/alerts/rules.go` | holds, firing, panics per rule; last metrics sample and baseline | `AddRule`, `evaluate`, `sample` | edge triggering composed with the cooldown of `Send`; a baseline that follows the surge; statistics somebody else collected; user code that panics | an incident is announced; an edge is one of the resource; a surge is one |
| **Alert transport, history, routes** `telegram.go`, `format.go`, `storage.go`, `handlers.go` | none; table `_alerts` | one call per attempt, one insert per delivery | what is permanent, what is retried | answers are classified rightly |
| **Auditor** `core/audit/audit.go`, `detect.go`, `storage.go` | `pending` map and counters under `mu`; `flushNow`; table `_admin_access` | `Track`, `Flush` (swap, detect, write, restore), worker, `Close`, `Purge` | I/O on a batch outside of the lock while `Track` fills the next; failures fold back | events are conserved; the ceiling holds; detection answers from before the batch |
| **Audit collector** `core/audit/collector.go` | none | classification of requests, auth hooks | which request is administrative | pure |
| **Analytics** `core/analytics/` | pending counters, daily path set, rings, the visitor generations, a cached aggregate | `Track`, `Flush` by worker, `Close` and dashboard, cache and invalidation | three flushers; a query racing an invalidation; visits out of order around midnight; rotation | views are conserved up to the ceiling; the cache is never older than its TTL; an open session is continued, and only an open one |
| **Job manager** `core/jobs/manager.go` | registry, the cron scheduler | `RegisterJob`, the wrapper, `ExecuteJobManually`, `RemoveJob` | scheduled and manual executions overlap; panics | each execution leaves the row it earned; a failure alerts |
| **Job logger** `core/jobs/logger.go` | `activeJobs` per job, buffer, `flushChan`, table `_job_logs` | start, complete, timer, flush, orphans at boot, retention | entry per job and not per execution; a start that could not be saved; a stop in between | no entry left behind; final rows stay; the buffer drains |
| **Request statistics** `server.go` 190-256, `monitoring/requests.go` | atomics, ring of 100 | the middleware, `TrackRequest` | unsynchronised read-modify-write, panics, errors that are not a status yet | counters add up; the average is a mean; the ring keeps the last ones in order |
| **System statistics** `monitoring/stats.go` | a cache with a TTL | `CollectSystemStats` | shared by dashboard and rules; partial and cancelled collections | what a rule reads is not older than the TTL |
| **API versions** `server/api/version_manager.go` | versions, registrars, default version | register, remove, register and bind routes | changes while the routes are registered | every version has one registry; what is served is what is documented |
| **API registry** `registry*.go` | endpoints, cached document with a dirty flag | register, get document | generation outside of the lock; pruning of components | the document shows every endpoint and every component it needs |
| **Documents on disk** `spec_generator.go`, `openapi_embedded_loader.go` | one file per version; in the server, parsed documents and errors | generate, validate; load once per version | two processes, files that are written in place, concurrent loads, errors that stick | what was validated is served; answers do not flap |
| **Source analysis** `ast*.go`, `schema*.go`, `discovery.go` | parse results | Go syntax to OpenAPI schemas | phases over Go maps; what is known when a handler is analysed | the document names what a handler answers, takes and reads |
| **Logging, recovery** `core/logging/` | none | the outermost middleware | what passes through as an error or a panic | every counter sees the same outcome |
| **Pages, tools, examples** | none | I/O | | |

`PROJECT.json` lists the same components with what is modelled of each, and under
`hazards` what is hard to test, at its line.

## 2. Modules

| Module | Models | Runs | Proofs |
|---|---|---|---|
| `Notifier` | `alerts.go`: `Send` to `Close` | `notifier` | `NotifierProofs` |
| `RunMarker` | `crash.go`, over several processes | `marker`, `alarm` | `AlertsProofs` |
| `Rules` | `rules.go`, the cache of `stats.go`, the cooldown of `Send` | `rules` | `AlertsProofs` |
| `Ledger` | what a buffer with batched writes promises (abstract) | as `Books` of `Auditor` and `Analytics` | in the proofs of these two |
| `Auditor` | `audit.go`, `detect.go`, `write` and `Purge` | `auditor` | `AuditorProofs` |
| `Analytics` | `analytics.go`, `storage.go`, drain and restore of `aggregator.go` | `analytics` | `AnalyticsProofs` |
| `Visits` | `visitors.go`, the rest of `aggregator.go`, `Track` | `visits` | `AnalyticsProofs` |
| `Requests` | the middleware of `server.go` and `core/logging`, `requests.go`, the classification of `audit` and `analytics` | `requests` | `RequestsProofs` |
| `Jobs` | `manager.go` and `logger.go`, for one job | `jobs` | `JobsProofs` |
| `Versions` | `version_manager.go`, `registry.go`, the cache of `registry_spec.go` | `versions` | `ApiProofs` |
| `Schemas`, `Handlers`, `Documents` | the source analysis, bottom up: types and references; function bodies; files, routes, the document | `documents` | none: recursive operators |
| `SpecFiles` | `spec_generator.go`, `openapi_embedded_loader.go` | `specfiles` | `ApiProofs` |
| `VersionNames` | the constants `Versions` and `SpecFiles` share | | |
| `Sums` | nothing of the program: facts about sums over finite sets | | its own, used by the proofs of `Requests`, `Analytics` and `Visits` |

`AlertsProofs`, `AnalyticsProofs` and `ApiProofs` are each about two modules that
share no variable; the second of the two has its formulas under names of its own
(`RulesSpec`, `VisitsSpec`, `FilesSpec`, and so on).

### Notifier

*State.* `lastSent`, `hourStart`, `hourCount`, `suppressed` and `counters` are the
fields under `mu`; a key that is not in the map has `Zero`. `queue` is the channel.
The worker is `wpc` (select, pacing, sending, backoff, drain, stopped) with the
locals of `deliver`; `draining` and `expired` are the context of `drain`; `closer`
is where `Close` is. Histories (`admits`, `clears`, `digests`, `overflow`,
`reported`) are only read by properties; `admits` and `counters` also bound the
number of calls.

*Actions.* A call of `Send` is `SendSuppressed`, or `SendAdmitted` followed by
`Enqueue` or `QueueFull`, since the mutex is free in between. The worker has one
action per place where it can wait or choose: the select (`TakeMessage`,
`TakeDigest`, `StartDrain`), the end of a sleep by time or by stop (`PaceDone`,
`PaceInterrupted`, `Retry`, `RetryInterrupted`), the answer of the transport
(`SendSucceeds`, `SendRejected`, `SendFails`). `Close` has four steps.

*Abstractions.* A message is its key. `suppressed` is a total, not a map. Time ticks.
A backoff ends at any time. `retryAfter` is a choice of the transport. A wait that
finds `stop` closed ends in the same step, and `DrainMessage` takes the drain's look at its
context (`alerts.go:389`) together with the start of the attempt (418), which is given that
context: a deadline that ends in between cuts it short. The notifier is enabled: a disabled one
returns from every call. The `misconfigured` flag and the start-up check of the
transport are reported, never read, and are left out, as are `SendTest` (which
bypasses the queue) and the history table.

### RunMarker

A process is `life`: booted (marker read), serving (after `NotifyStarted`),
stopping and stopped (in and after `NotifyStopped`), down. `main` and `beat` are
the two goroutines that save; each goes through `saveMarker` step by step:
assign the marker in memory, truncate or create the temporary file, write, rename,
or the error returns of 113-119, before anything was written (`SaveFails`) and after (`RenameFails`).
Files are inodes, so that a file that is open under a name
another goroutine has renamed is still the same file. `Crash` may happen at any
step of a process before `NotifyStopped` has returned.

*Abstractions.* Whether a restart is within `restartLoopWindow` is chosen. The marker carries the number of its run
(for the properties) in place of the process id and times. What was written
survives the process (a crash of the process, not of the machine; the code calls
no fsync). A shutdown begins after `NotifyStarted` has returned. Processes come one
after the other: a second command beside a running server is not in this module
(it is in `Jobs`, as `OtherCommand`).

### Ledger and Auditor

`Ledger` is the abstract specification of a buffer that writes in batches: a tally
per key is received, waiting, recorded or lost, and moves between these columns
only forward. It is written for the auditor and for analytics.

`Auditor` has the buffer `pending`, the `batch` that `Flush` swapped out and
the point `flush` inside `Flush` (detect, report, write, count, restore), which
the worker or `Close` is in. `table` are the rows, `dropped`, `written` and
`droppedReported` the counters, per key. `Restore(S)` may keep any set `S` of the
batch that fits, since the code ranges over a map. A detection query fails for any
set `U` of keys, and then answers what the code answers (0 failures, a known
address). The refinement maps *waiting* to the buffer together with the batch
while it is not written, *recorded* to the rows and those `Purge` deleted.

*Abstractions.* An event is its aggregation key, times and texts are left out. `Track` and
its `requestFlush` are one step: a request that comes late asks for what the next
tick does anyway. Detection of a batch is one step; only `Purge` could change
the table under it. A run is shorter than the brute-force window, so all
rows count; `Purge` may remove those of any keys. The notifier is behind
`raised`: what its cooldown holds back is `Notifier`'s matter.

### Jobs

One job, its executions named in advance: `Scheduled` ones run the wrapper,
`Manual` ones are calls of `ExecuteJobManually`. `active` is `activeJobs[jobID]`, and says
whether the row of the start could be saved (`RecordID`). Rows are named by the
execution whose start made them, so that an execution that finishes another's row
can be seen. A job ends in one of `Outcomes`: it returns, gives up (calls
`ExecutionLogger.Fail` and returns) or panics. `RemoveJob` and
`ExecuteJobManually` each read scheduler and registry in two steps, so a
manual execution may find the job but no metadata, and then run the wrapper inside
of itself (`CallWrapper`). A boot is `Boot`, which reads the rows that say "started" (`orphans`,
per process that boots), one `markOrphan` per row, and then `Register`; nothing locks the table meanwhile.
`OtherCommand` is the same in another process on the same database, at any time beside a running
server, whose executions may end between the query and the save. The flush worker receives a
request (`ReceiveRequest`), which lets the next one be queued, takes the buffer (`TakeBuffer`) and writes
one row per log (`FlushLog`), each a step; the timer and `ForceFlush` ask for it.

*Abstractions.* A write of the database fails for at most `MaxRefused`
executions; a save of the sweep may fail always. Rows are swept in any order (the code's is
the newest first). Retention, the limit of 1000 orphans, output and duration are left
out. `Stop` is a crash or a shutdown alike, since no hook of this package runs. It drops
what the histories say of the executions it ends, which keeps the state space small.

### Rules

One rule of each sort (`error_rate`, `traffic_surge`, `cpu_high`, a `custom` check).
`Pass` lets time go by, with load and traffic; `Dashboard` collects the statistics,
completely, in part or cancelled, into the cache the rules read, too; `Evaluate`
is a whole tick: `sample` (deltas, rate, baseline), each rule's check, its holds and
edges, its message, and the cooldown that may swallow it. `heard` is the history of what was let through of
each rule.

*Abstractions.* A tick is one step: the rules' state is the evaluator's alone. A rate
is requests per `Interval`, the baseline is an exact fraction (the code's is a float), and `SurgeFactor` a whole
number, where the code takes any float above zero. A resource is low or high. The hourly cap and the queue are left to `Notifier`.

### Analytics and Visits

`Analytics` has the map of counters, and for each goroutine that flushes (the
worker, `Close`, viewers of the dashboard) the batch it has drained and where it is; a viewer
then queries the rows, in two queries, and stores the aggregate. `snapshot`, `mark`
and `excused` are histories of what a viewer may expect. It refines `Ledger`: waiting
is the map together with all batches, lost is what `restore` drops in silence.

`Visits` is the memory beside the counters: `Track` reads the clock, `classify`
takes the tracker's lock (rotation, search through the generations, promotion),
`record` the aggregator's (budget of paths, recent visits, minute buckets), and
`Activity` is the dashboard's. Times are minutes and a day is `DayLength` of them.

*Abstractions.* A counter is its key; which sessions it counts moves with its views. Retention
and user agents are left out. A path is a value or the overflow path itself, which
is what a path that is too long becomes.

### Requests

A request is a record with its place in the middleware, from outside to inside, and the local variables of
the average (`oldAvg`, `totalReqs`), which are read and stored in separate steps.
A handler writes a status, returns an error or panics; a returned `ServerError` has a status of its
own (`denied`: the 401 of `NewAuthError`) or is answered 500, as any other error is (`statusCode`).
The dashboard is one path for a superuser and another (`login`) for anyone else, whom the audit calls denied
whatever the answer. The order of the middleware
decides who sees what: inside, a returned error has no status yet. A panic passes
through everything, because `recover` is called one function too deep
(`core/logging/error_handler.go:153`), and is answered outside, by PocketBase,
which is external.

*Abstractions.* One status stands for those the code does not tell apart. An error whose status is below 400
(`NewHTTPError` takes any), and a handler that writes an answer and returns an error as well, are left out.

### Versions

The goroutine that registers the routes is `serving`, with the version and which of the six calls of
`CRUD` it is at, those without a handler skipped;
`RegisterVersion`, `RemoveVersion`, `SetDefaultVersion` and
`SetVersionRouteRegistrar` happen at any moment. A registry has an identity, so that a
goroutine may hold one that was removed, and it is `enabled` or ignores every registration
(`registry_routes.go:21`, `registry.go:123`). `Middleware` is what `CRUD` is given for its writing routes:
`AuthOf` is the authentication that `discovery.go` finds in the name of a function, or none, and `Bindable`
are those of a type that `Bind` passes on to the router; a middleware may be either, both or neither.
What the source of a handler asks for (`InHandler`) takes the place of all that (`documented`). A request looks up the registry, looks at
the cache, assembles from the endpoints and stores the document, in separate
steps.

*Abstractions.* A version is a number in sort order. A document is the map of endpoints it was made
from. Middleware is a set, for the most restrictive counts in any order; `BindFunc` is `Bind` with the functions wrapped
first, of a type the router takes. That an endpoint only for guests is documented as one that
requires authentication is the code's word, and kept. `UpdateConfig`, `SetServers`, `SetVersion` and `ClearEndpoints`, which
nothing calls once routes are registered, are left out, and so are the
global manager and the pages of the documentation viewer.

### Schemas, Handlers, Documents

A syntax node is a record of kind, name, type and children; a file has structs,
aliases, functions and imports. `Schemas` resolves aliases and turns types into
schemas; `Handlers` walks over bodies: variables and their types, map literals and
additions, appended slices, helper functions, what is bound from the body, query and
header; `Documents` goes through the phases of discovery, one directory or file per
step in any order where the code ranges over a map, registers the routes, and
assembles and prunes the document. The properties compare the document with what
the handlers of the program really do, which is computed from the same syntax by
independent operators (`Outcome`, `ReadsWithHelpers`). A helper that is declared in a file parsed after
the handler's own is not followed by the code, and what it does is not asked for (`InTime`).

*Abstractions.* Descriptions, examples, formats, tags and positions are left out;
blocks are flattened, as `ast.Inspect` does. Names that the code tells apart by their
text are constants or members of sets. Headers that are held in a variable first are in no program.

### SpecFiles

`file` is what is on disk per version: nothing, a torn file or the run of the
command that wrote it. The command truncates and fills one version after the
other and validates all of them, or ends anywhere in between. A request checks the
maps, reads, and stores a document or an error. `Restart` begins with empty maps.

*Abstractions.* A document that lacks a required field (`spec_generator.go:182-199`) is one that does not
parse: the command writes none. The copy for each answer is faithful; the index of versions and the
environment variables are left out; one command runs at a time.

## 3. What the runs show

| Run | Instance | States | Shows |
|---|---|---|---|
| `notifier` | 2 senders, 2 keys, channel 1, cap 1, map 1, 1 retry, 3 sends, 3 ticks | 0.4 M | the properties of `Notifier`, and that `Close` returns |
| `auditor` | 3 keys of one address, ceiling 2, threshold 2, 4 events | 0.5 M | the refinement of `Ledger` and all properties of `Auditor` |
| `marker` | 3 runs, loop threshold 2, saves may fail | 0.9 M | what undisturbed runs are promised |
| `alarm` | 2 runs | violation | what overlapping saves break |
| `jobs` | 1 scheduled, 1 manual, 2 boots, 1 other command, batch 2, 2 refused | 0.2 M | all properties of `Jobs` |
| `rules` | 4 rules, 4 ticks of 1, cooldown 3, sustain 2, statistics kept for 2, two sorts of traffic | 0.1 M | what is heard of a rule, edges, surges |
| `analytics` | 2 counters, worker, `Close`, 1 viewer, ceiling 1, TTL 1, 2 views, 2 ticks | 0.2 M | the refinement of `Ledger`, fresh answers, the cache |
| `visits` | 2 goroutines, 3 visitors, 2 generations of 2, 1 path a day, ring 2, 2 buckets, 4 visits, days of 3 | 1.9 M | sessions, bounds, the present |
| `requests` | 3 requests, 7 handlers, ring 2, 2 ticks | 2.0 M | that all counters tell the same |
| `versions` | 2 versions, 2 routes, 3 middlewares, 1 request, 3 changes, 3 registries | 3.7 M | registration and documents under changes |
| `documents` | the applications of `MCDocuments`, all orders of the maps | 8 910 | documents against programs |
| `specfiles` | 2 versions, 2 requests, 2 commands, 2 restarts | 0.2 M | loading beside generation |

**Why the bounds are enough.** *notifier*: two keys against a map of one make
pruning give up and clear; a cap of one with an hour of two ticks puts three
sends over two windows; the cooldown of three ticks is longer than the hour, so
it is the cooldown that refuses the same key later; a channel of one is full while another sender
holds a message; three ticks are enough for each sleep of the worker to begin, to end by time
and to be cut off by `stop`. *auditor*: three keys against a ceiling of two reach the drop in
`Track` and in `restore`; with four events a failing batch meets a new one, and the
threshold is reached over two batches. *marker*: the second run judges the first,
the third shows what a marker that survived from the first does; a loop needs two. *jobs*: two
executions overlap in every order, and one may be inside of the other; two boots are a stop and the sweep after it; the other
command may boot any number of times, before, during and after each execution. With both executions refused,
two logs fill a batch, and one of them may come while the other's flush is asked for, due or under way. No execution
gives up: for everything but the alert that is a normal return. (With a second scheduled execution, `Scheduled <- MCScheduled`, one
boot and one refused execution, the safety properties hold in 4.4 M states; `JobsProofs` has them for any number.) *rules*: four
ticks are a first sample, a baseline, a surge and its end; a sustain of two makes a resource rise, hold and fire;
statistics are kept over a tick; three panics, which disable a check, fit. Edges of a kind are two ticks apart at least: with a cooldown of three ticks the share of errors that
rises at 2, clears at 3 and rises at 4 has its second alert refused, as has the application's check at 1 and 3, while its alerts
at 1 and 4 are both let through. *analytics*:
two views over two counters against a ceiling of one make `restore` drop; two ticks are more than the TTL. *visits*: three
visitors overfill a generation of two; four minutes cross midnight, and two
goroutines cross it in the wrong order; the window of two minutes is as long as the
buckets; the first two visitors may be swapped with their paths. *requests*: three requests overfill the ring and interleave two averages with a third that
changes the total; the handlers write a status below 400, above and from 500, and return one of each. *versions*: the
middleware of the writing route asks for a user and is bound, asks for more and is not bound, or asks for nothing; the reading
route's handler asks in its source; a version is enabled or not, in every combination; three changes remove a version, add it again and give it a registrar
while the routes are registered; the third registry is the one that replaces a
held one. *documents*: each way of answering, taking and reading that the
analysis distinguishes is in a program; two files and three packages make
the order matter. *specfiles*: two requests race for one version while the other fails; the second
command overwrites what the first wrote under a running server.

**Deadlock** is not checked: in each instance the calls are used up and the system has
closed, or stopped for the last time.

**Fairness.** `Notifier`: the worker goroutine runs on and a transport call returns,
for it has a deadline (`SendTimeout`), and `Close`, once called, runs on. No
fairness of callers, of ticks or of the deadline: `CloseTerminates` does not
need them. `Auditor`: the steps of a flush, the ticker and `Close` are weakly fair;
`WorkerStops` is strongly fair, because Go's select chooses at random among ready
branches, so a stop that is ready again and again is taken. Nothing forces a
write to commit: `DropsReported` and `CloseTerminates` hold with a database that never
works again. `Jobs`: the timer, and each step of the flush worker, are goroutines of the process, started
at boot and never ended before it; nothing makes an execution end or the server stay up. The other modules state safety only: a
request, a dashboard or a command may end anywhere.

**Type invariants.** Each module with state of its own that is proved about, and most others, has
a `TypeOK`; it is proved where there is a module of proofs, and holds in the
instances above (add it to the `INVARIANTS` of a configuration). The runs are for the rest.

**Properties worth a note.** `Accounted` counts a digest that `Close` finds no room
for: it is the only loss nobody counts. `CooldownsKept` holds between two clearings
of the map, where the code accepts a repeated alert. `SlidingHourBounded` says what a
fixed window gives for an hour that starts anywhere: twice the cap.
`FalseAlarmNeedsOverlap` and `CrashIsSeen` except runs in which two saves overlapped
or one failed: `alarm` shows why. `NewSourceAlerted` and
`RepeatedFailureAlerted` except keys whose query failed, which the code treats as
known. `EndIsTold` excepts the rows of executions that overlapped: they share an entry,
and one may finish the other's row; and it admits a timeout for an execution whose row a command had read
as started. `FinalRowStays` admits the same of a command, and of nobody else: `MCJobsSwept` shows that it happens.
`LogIsFlushed` is about each log: a row, a refusal of the database or the end of the process comes of it. `LastWordIsTrue` excepts an edge that
comes within the cooldown of the last one of its kind: its message is swallowed, the rule fires on (or stays
clear), and nothing more is sent of it before the next edge. `EdgesAreReal` excepts incomplete statistics: what could not
be read is taken for zero, so a rule recovers. `FreshAnswer` excepts what another
flush had in hand and what failed to be written. `TrackersBounded` counts how often a date came up for the
budget. `ActiveCounts` says that a request that panicked is counted as active for ever. `MonitoringAgrees` says where each
error is counted, and no more: a returned error is in `TotalErrors`, whatever its status, and in neither of the
counters by status. `DocumentedAsServed` says what is documented as far as the code recognises it: a middleware it does not
know is served and documented as open.
`AnswersAreCurrent` excepts a registry that changed while a document of it was
assembled. `OperationsDocumented` excepts component names that two handlers share,
fields whose struct the parser never sees and open schemas. `AnswersSettle` says that answers settle, not on what: a load that failed is
remembered, and a file that is mended later is not read before the next start.

### Findings

`alarm`: a heartbeat that overlaps the shutdown makes the next boot report a crash
that was none (`crash.go:157`), though `crash.go:28` says "false alarms are not"
recoverable.


Further configurations are kept beside the runs, each with one property that states
what a comment or the documentation says and that TLC finds violated:

| Configuration | Property | What the code does |
|---|---|---|
| `MCNotifierDrain` | `DrainTriesEveryMessage` | at shutdown one queued message is tried when pacing is on: the drain's own `lastSend` (`alerts.go:395`) brings the pace back, and with `stop` closed its sleep fails at once; `alerts.go:382` says pacing is dropped there |
| `MCRunMarkerTorn` | `MarkerIsWhole` | two saves share the temporary file (`crash.go:112`), so the marker may be empty; `crash.go:100` says it is replaced atomically |
| `MCAuditorSplit` | `SourceEscalates` | failed sign-ins of one address under several accounts, in one batch, do not escalate (`detect.go:49`); the source's `README.md:188` counts by source |
| `MCJobsAlert` | `FailedJobAlerts` | a job that reports an error, without panicking, is recorded as completed and sends no alert (`manager.go:500`); the source's `README.md:185` says it does |
| `MCJobsTimeout` | `TimeoutMeansStopped` | any command of the binary marks the jobs a running server is executing as timed out (`logger.go:57`) |
| `MCJobsSwept` | `OnlyStartedTimesOut` | a command that boots beside a running server reads the rows that say "started" (`logger.go:74`) and saves each of them later (83-87), with no transaction around: a job that ends in between has its row, "completed" or "failed" by then, made a "timeout"; `logger.go:66` says that rows stuck in "started" are updated |
| `MCRequestsRecords` | `RecordsAreServed` | a returned error becomes a status further out (`error_handler.go:40`) than analytics and audit look for it: `analytics/collector.go:98` takes the missing one for a page view, though 94 says that errors make no rows, and the audit calls the request allowed, though `audit/collector.go:212` "reports the status a request finished with" |
| `MCRequestsErrors` | `ServerErrorsCounted` | a returned 500 has status 0 where it is counted (`server.go:387`), so the error rate of `alerts/types.go:183` does not see it |
| `MCAnalyticsBreakdown` | `BreakdownFits` | the breakdowns are queried after the total, so they may exceed the denominator `storage.go:185` calls valid |
| `MCVersionsCache` | `CacheIsCurrent` | a document assembled before a registration is stored after it and declared clean (`registry_spec.go:102`); `registry.go:23` says registration invalidates it |
| `MCDocumentsDangling` | `RefsResolve` | types the parser does not know become references to no component; `registry_spec.go:301` expects them to resolve |
| `MCVisitsDaily` | `PathsBoundedPerDay` | visits recorded out of order around midnight give a date its budget of paths again (`aggregator.go:148`); `aggregator.go:42` says distinct paths per day are bounded |

Met while translating, without a run: panics are not recovered by `core/logging`
(`error_handler.go:153` is called by the deferred function, not deferred), so they
are not alerted as the source's `README.md:186` says; `SurgeFires` of `Rules` fails for the larger factors, since
the rate is in the baseline it is compared with (with a factor of five the rule never
fires); helpers that call helpers are not followed; a type
that is defined by itself in an expression sends the analysis into endless recursion;
`Bind` documents a route as authenticated after it was served without; a failed load that
ends last hides a document that was loaded.

## 4. What is proved

Every safety property of a passing run but the two of `documents` is a theorem. All proofs hold for every value of the constants under the named assumption of the
module (`ConfigAssumption`, `JobsAssumption`, ...): finite sets, positive sizes, the markers
distinct. TLC evaluates the assumptions in each run.

**Notifier.** `TypeCorrect` is inductive once `attempt` and the capacity are in it.
`NothingGoesMissing` (`Accounted`) adds that the worker has a message in hand exactly
in its busy states, and reduces to sums over the finite set of holders. `DigestsTellEverything`
is inductive by itself. `CooldownsAreKept` has two parts: `CooldownMapStaysBounded` needs the cardinality lemmas for
pruning: after it, there is room for one more key. `CooldownIsKept` needs a strengthening: an admission since the
last clearing is at least a cooldown ago, or the map knows it or a later one of its key; and
the map knows nothing from the future. `SlidingHourIsBounded` relates the window to the
tail of `admits` (`WindowKnows`): the last `hourCount` admissions are within an `Hour` of its start, those before them
no later than it, and those a cap further back an `Hour` earlier. `DeadlineIsKept` needs that a worker that drains finds
`stop` closed, so that it neither paces nor backs off (`Drains`).

**Ledger, Auditor.** `BooksBalance` shows that the abstract books balance (once for each instance of `Ledger`, here and in
`AnalyticsProofs`).
`AuditorKeepsBooks` is the refinement: the initial states agree, each step of
`Auditor` is a step of `Ledger` or leaves the books alone; it needs `TypeCorrect`,
whose part `Phase` says that a batch is in somebody's hand only inside of `Flush` and that
worker and `Close` are never both in it. `EventsConserved` combines the two.
`CeilingHolds` needs the cardinality of what `Restore` may keep; `WrittenAgrees` follows the
batch through `count`; `CountersAreTrue` states both. `NewSourcesAreReported` is strengthened
by what holds of a batch between detection and write; `RepeatedFailuresAreReported` and
`BruteForcesAreDeserved` likewise: what was detected of a batch is said of the rows and the batch
together, and a report is of failures that were tracked, which only grow.

**Analytics.** `AnalyticsKeepsBooks` is the refinement of `Ledger` with any number of
flushers side by side, each with a batch of its own (`drained`); `ViewsConserved` reads conservation
off it. `AnswersAreFresh` is proved from `Conserved` (the totals: every view is waiting, in
a batch, in a row or lost) and `Owed`, what a viewer was promised when it asked: at each step of
its flush, what it has yet to see is in its own batch, in another's or was lost. `CacheIsYoung`
follows from `Aged`, which tells age by the ticks of the clock: an answer in hand, and what is cached until a
`CacheTTL` later, has the rows of every tick up to the one at which its viewer asked.

**Jobs.** `NoEntryIsLeft` and `FinalRowsStay` follow from `Inv`: an execution
that goes on to log its start is one that keeps a log (`Logging`); before it has, it has left
no trace (`Fresh`); the entry belongs to one that has not ended (`ActiveEntryEnds`); the row of the entry is not final or, if
it could not be saved, nothing waits for it (`ActiveRow`); a log that waits in the
buffer or the flush has no row and is the only one of its execution (`Apart`), and none is left when the worker
has a request in hand (`OneFlush`); nothing runs unless the server is up (`Quiet`), so that the rows its own boot
has still to mark stay open, and what a command has still to mark is known as `misread` (`Orphaned`). `EndsAreTold` adds what an
execution that ran alone holds at each step of its wrapper, and that only the scheduled ones that panicked alert.

**Requests.** All four invariants and `TypeCorrect` follow from one inductive invariant, over any
set of requests: `Courses` (what a request has done follows from where it is), `Books` (each
counter is the number of requests that are past its increment, so that every step of a
request moves a set by one element; the errors are split into those that were written below 500 (`Blamed`), from 500
(`Failed`) and returned (`Erred`), whose answers are told by `statusCode`), `Recent` (the ring, read backwards from its newest entry with the
arithmetic of `Slot`, is the end of the history), `Listed`, and for the average `Bounded` (it
is no longer than the longest, whatever is lost) and `Serial` (the sum of the durations, less what the
divisions drop). The sums are over finite sets; `Sums` proves that one more element adds its term.

**RunMarker.** `FalseAlarmsNeedOverlap`, `CrashesAreSeen` and `LoopsAreDeserved` follow from `IInv`, over any
number of processes. `Undisturbed` is the heart: in a run whose saves neither overlapped nor failed
one writer has the temporary file to itself, and once the last save of the main goroutine is over the file says
what memory says. `OnDisk` covers all other runs: whatever marker is under the name is `Credible` (it counts
no more restarts than there were), and a temporary file left by an earlier process is emptied
before anything can rename it. `Left` carries the marker of a run that died to the next boot.

**Rules.** `LastWordsAreTrue` needs that the cooldown buckets of a rule's alerts and of its recoveries are each moved by
nothing else (`Told`); `EdgesAreOfTheResource` that what the cache says was so when it was taken or
later, or that the statistics were incomplete (`Witnessed`). `SurgesAreDeserved` needs of the samples only that
counters grow (`Sampled`), and that a rate which is `f` times an average it is part of is `f` times the
rest, for every `f` from one up (`ReachesTheRest`). Below one, which the code allows, it would be false.

**Visits.** `VisitsInv` is one invariant in parts that each follow one structure. `Fitting`: no generation holds
more visitors than it may. `Sessions`: a visitor is in one generation at most, with the time it was last
seen (`Apart`), and as long as no generation was full, which one it is in follows from when that was and when
they last rotated (`Sorted`); `SessionsDeserved` reads the class of the next visit off this. `Budgeted`: the paths a date
names and what is left of its budget are together within `MaxDistinctPaths` for each time the date came
up. `Recorded`: the ring, read back from its head, is the end of the history. `Booked`: the bucket
`j` places back counts the minute `j` minutes ago, and the total is the sum of the buckets, however far the ring was
advanced at once; the sum is split and reindexed by `SumSplit` and `SumReindex`. `MemoryBounded` and
`PresentExact` are consequences.

**SpecFiles.** `FilesInv` follows a version's file to the server: what was found valid parses and is not being
written (`ValidParses`), and of a version that was not written since the start the server has the file, nothing,
or an error that is true, and so has every request on its way (`Untouched`). `AnswersDoSettle` is inductive with the
types; `ValidIsServed` combines the two.

**Versions.** `VInv` has six parts. `Owners`: a registry is of one version for ever, removed or not. `Course`: where
`RegisterAllVersionRoutes` is, and that it has yet to come to what it has yet to do. `Registered`: a version nobody touched since the
validation still has its registrar (`FailuresNeedChange`). `Progress`: for every version and call, what is served and
documented before the call it is at, at it, and after it (`Stage`; `DocumentedIsServed` is its end), where what is to be
documented is `said`: that it is what the handler asks for, or the most restrictive of what is recognised (`DocumentedIs`), rests on
the order of the four types (`HierarchyIs`) and on the largest of a set of them (`MaxLevelIs`); registering leaves the
endpoints of every other route, and all of a registry that is not enabled, alone (`RouteIsSaid`, `NotEnabledKeeps`).
`Documents`: what a request has in hand answers for all that was registered when it came in, and the cache of a registry
that did not change under an assembly is its endpoints (`AnswersCurrent`). The proof of the last found a
slip in an earlier form of the model, whose debug dump read one version and stopped.

**Only model-checked.** Liveness (`CloseTerminates`, `DropsReported`,
`LogIsFlushed`) is out of the prover's reach. `Schemas`, `Handlers` and
`Documents` are recursive over syntax: `NeededIsKept` and `OperationsDocumented` say what recursive operators
compute, and no module that declares one can hold a proof. The library's
induction theorems cannot be instantiated; `Sums` gets its induction from the finite sets themselves, as a
collection of sets that is closed under adding an element.

## 5. Plan

The modules of the plan exist. What is left:

- `Lifecycle`: bootstrap, serve and terminate, composing abstract analytics, auditor and notifier:
  what a final flush raises is still delivered or counted.
- The content of documents in a form that can be proved about: the recursion over syntax as recursive
  functions, and pruning (`NeededIsKept`) as the least set that is closed under references.

## 6. What is not modelled

Rendering and truncation of messages, the
HTML pages and their scripts (most of `version_manager.go` and `health.go` by length), descriptions, examples and formats in
documents, the command-line tools and benchmark (process and file
I/O), readings of the operating system, the migrations, the history and dashboard routes that only read,
retention of rows by age, PocketBase itself. The database is external
to every module: a write commits or fails as a whole.
