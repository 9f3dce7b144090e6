# RedisStreamScope in TLA+

RedisStreamScope watches Redis Streams: it samples streams and consumer groups,
keeps history in SQLite, evaluates alert rules, delivers webhooks, and lets an
operator repair consumer groups. This directory holds TLA+ models of its state
machines, TLC configurations that check them on small instances, and theorems
about them proved with TLAPS.

Run a check with `tlc -config MCAlertRules_tables.cfg MCAlertRules.tla`, a proof
with `tlapm AlertRules_proofs.tla`.

## The system

One process, started by `main.go`, runs an HTTP server and several tickers over
one SQLite file. The file is opened with immediate transactions, WAL and two
connections (`store.go`), so a transaction is one atomic step, and two
transactions never read before they exclude each other. What interleaves is
whatever the code does in more than one transaction, and whatever it does with
Redis or a webhook receiver in between.

| component | state | operations | interacts with |
|---|---|---|---|
| alert rules, evaluator (`alerts.go`) | `alert_rules`, `alert_rule_states`, `alert_incidents` | create, update, delete, acknowledge; a pass every 5 s: evaluate each rule, decide a notification | reads snapshots of the monitor; hands notifications to the outbox |
| notification outbox (`alerts.go`, `alert_operations.go`) | `alert_notification_jobs`, a bounded channel, workers | reserve, offer, scan, claim, POST, complete, retention | webhook receivers |
| suppressions, routes, escalations (`alert_operations.go`) | silences, windows, routes with destinations, policies with steps | create, update, delete of each; a pass every 5 s schedules escalations | reads incidents; hands jobs to the outbox |
| recovery commands (`recovery.go`) | `recovery_executions` | plan, execute once per idempotency key | Redis XACK, XCLAIM, XAUTOCLAIM, XGROUP SETID |
| quarantine (`recovery.go`) | `quarantine_records`, markers in Redis | copy to a DLQ, acknowledge, replay, skip, prune | Redis scripts |
| operational monitor (`operational.go`) | snapshots, trends and collector attempts in memory | collect every 5 s and on demand | Redis INFO/XINFO; history; alert observations |
| metric samples (`metrics.go`) | samples and minute rollups | collect every second, roll up, prune | Redis; prunes the other histories |
| consumer and topology history (`history.go`) | consumer presence, topology events | complete and partial sets, transitions | fed by the monitor |
| capacity (`capacity.go`) | samples, retention policies | record, trend, compliance | fed by the monitor |
| lifecycles (`lifecycle.go`) | request lifecycles, tokens | ingest batches, merge | HTTP clients |
| insights (`insights.go`) | schema snapshots, trace spans, dashboards | sample, compare, upsert | Redis, HTTP clients |
| live tail (`redis_manager.go`) | workers, subscribers | subscribe, read, drop, reset | Redis XREAD, SSE clients |
| users, sessions, grants (`store.go`, `auth.go`, `scoped_acl.go`) | users, sessions, grants, access log | login, update, grant, revoke | every handler |
| settings (`config.go`, `server.go`) | properties file, connections | save, reload | Redis manager, tail broker |

### What is hard, and what makes each component correct

* **Evaluator.** A pass takes one copy of the rules and then needs several
  transactions per rule, while administrators update, delete and acknowledge, and
  the process may stop between the commit of a decision and its insertion in the
  outbox. Correct means: the state of a rule and its incident agree, at most one
  incident is active, an acknowledged one is silent, a changed expression starts
  afresh, what counts as notified was queued, and a firing incident that can be
  delivered is announced some day.
* **Outbox.** Duplicates in the channel, a full channel, leases that run out,
  answers that come after a take-over, crashes between POST and record. Correct
  means: the attempts bound what a receiver sees, a job is closed once and for a
  reason, one worker holds a job, and every job is closed some day.
* **Routing and escalation.** Two-step validations against tables that change,
  dedup keys that outlive their rows or do not.
* **Recovery and quarantine.** Redis and SQLite do not commit together; a reply
  may be lost, a receipt may not be written, a marker expires. Correct means: one
  execution per key, no acknowledgement without a copy, no second copy while the
  marker lives.
* **Collectors and histories.** Coalesced collections, snapshots of removed
  connections, partial observations, bucket edges, pruning that races the rollup.
* **Users and sessions.** A request reads its session, its grants and its row in
  transactions of their own, and what it read may be changed by another one before it
  writes. Correct means: an administrator is left who can sign in, a changed password
  ends what was signed in before, a password set by another one is temporary, and what
  the user interface offers is no less than what is permitted.
* **Lifecycles and spans.** Services report late, twice and out of order, and two
  batches may commit in another order than their times. Correct means: the result does
  not depend on the order where it need not, the last attempt has the last word where
  it does, and a listing neither repeats nor skips what stands still.
* **Live tail.** Workers shared by clients that come and go, bounded channels, a
  reset that takes workers out of the map while clients follow them. Correct means:
  nothing is missed but what a full channel drops, the limit bounds what reads, and
  a worker without clients stops.

The list with its lines is `hazards` in `PROJECT.json`.

## Plan

1. `AlertRules` with its proofs - done.
2. `AlertOutbox` refining `DeliveryLedger`, with its proofs - done.
3. `AlertEscalation` with its proofs: routes, policies, the escalation scheduler,
   retention - done.
4. `RecoveryExecution` and `Quarantine` with their proofs: receipts,
   compare-and-set, DLQ copies, markers, replay and skip - done.
5. `OperationalMonitor` and `MonitoringHistory` with their proofs: collections that
   are coalesced, partial sets, transitions, expiry - done.
6. `ScopedAccess` and `UserAccounts` with their proofs: permissions as operators, the
   requests that use and change them - done.
7. `RequestLifecycle` with its proofs: the merge of events into requests and spans,
   batches, paging, retention - done.
8. `LiveTail` with its proofs: workers, subscribers, reset - done.

Left for later: the minute rollups of `metrics.go` (their averages carry no promise
that could be checked) and ingestion tokens. Of what the runs check only liveness is not
proved.

## Modules

### AlertRules

`life`, `config`, `state`, `incident` are the tables; `jobs` is what was inserted
into the outbox; `obs`, `suppressed` and `routes` are what the evaluator reads
from the monitor, the suppressions and the routes; `phase`, `listed`, `snapshot`,
`note`, `pending` are the local variables of a pass; `editor` holds updates that
have read the rule and not written it. One action is one transaction or one
read: `BeginPass` is `listAlertRules`, `EvaluateRule` the transaction of
`evaluateRule`, `DispatchWithheld`, `DispatchStarts` and `Enqueue` the steps of
`dispatchAlertNotification`, `ReadForUpdate` and `CommitUpdate` the two halves of
`updateAlertRule`. `EnqueueFails`, `PassFails` and `Crash` are the error paths,
bounded by `MaxFaults`; `PurgeIncident` and `PurgeRule` are retention.

Time is the age of the stored instants. A pass takes one `now`, so that ages grow
by one tick per pass; they saturate at `Horizon`, which has to be at least every
delay and cooldown of the instance. The value, the threshold and the choice of
the worst observation are abstracted to whether the expression is breached,
clear or missing. Observations change between passes, which loses nothing: a
pass is handed its observations at its start.

Runs (rules do not interact except through the order of a pass):

* `rules_tables`: a rule with its own webhook, two editors whose updates may race, two
  expressions and two incident ids, so that one can be reopened while the other is in
  retention. The tables agree, one incident is active, a resolved notice is true and
  an acknowledged incident is silent. A changed expression resets, unless the update
  was overtaken (`Overtaken`, see below). Faults are left to `rules_live` and to the proofs.
  Editors and incidents are symmetric; no liveness is checked here.
* `rules_live`: a rule with its own webhook and a routed destination, contents that fire
  after a tick and others that are switched off, one incident id and a fault,
  under fairness. A
  firing incident that can be delivered is announced some day, a recovered one is
  resolved, and a notified one was queued. Fairness is asked of the evaluator, one
  goroutine driven by a ticker, and of retention, which frees incident ids; nothing
  is asked of administrators, collectors or faults. Without free ids the model would
  stop where the code would not.

`CHECK_DEADLOCK FALSE`: with every incident id in use the instance may stop.

### DeliveryLedger and AlertOutbox

`DeliveryLedger` is what the outbox promises: notifications are accepted, charged,
received, closed as delivered or failed, and forgotten after retention.
`AlertOutbox` is the implementation: `row` is the table, `queue` the channel,
`inserted` a caller between its INSERT and its send, `found` the rows a scan read,
`worker` what each goroutine holds. `received` and `refused` record what the
receiver saw.

A tick is a second; a stored instant is the seconds left to it. The code compares
instants as text whose trailing zeros are cut off (`formatAlertTime`), which is
right across seconds and may be wrong within one: 0 is past, 1 is "this second",
which a comparison takes either way. `Prompt` are the workers that finish within
their timeouts; the lease (`ClaimTTL`) is longer than those (`SendTime`), as in the
code (30 s against a 5 s client, 2 s claim and 2 s record). The others may be held
up for longer, by a machine that sleeps for instance.

* `outbox_ledger`: one job, three workers of which one is not prompt, three attempts,
  two faults. The outbox implements the ledger, sends are charged, only the owner
  ends a live claim, and of the prompt workers at most one holds the job. The slow
  worker gives every take-over, the third attempt a take-over of a take-over.
* `outbox_progress`: two jobs for a channel of one place, so that items are
  dropped. Every job ends. Retention is off in this run (`Expiring = {}`): with
  it, ids that are reused without end could starve a dropped job, which thirty
  days against seconds rules out. Fairness: every goroutine runs, the clock runs,
  a stopping process exits and is restarted (`restart: unless-stopped`).

### AlertEscalation

`incident` is what the scheduler reads of `alert_incidents`; `route` and `policy`
are the two tables with the destinations and steps that belong to their rows; `edit`
holds a POST or PUT of a policy between its validation and its transaction; `job`
are the escalation rows of the outbox by dedup key. `phase`, `listed`, `ids`, `current`,
`steps`, `item` and `pending` are the local variables of `ScheduleEscalationsAt`:
one action is one query of it. `DeleteRoute` has the trigger
`alert_webhook_route_delete_guard`, `StorePolicy` the foreign key of the steps,
`Purge...` is `maintainAdvancedAlertHistory`, which runs between two passes in the
goroutine of the scheduler. A key is inserted by INSERT OR IGNORE, and its row may be
purged while the incident is still active, so that the same key is inserted again: that
is not excluded, and the code does it.

* `escalation`: one incident, one route with up to two destinations, one policy of one
  step, a fault. The row of a route outlives its steps; what is due is escalated some
  day; and an acknowledgement ends the escalation: once an incident is acknowledged or
  resolved and the pass that may have read it is over, none of its keys that has no row
  is ever given one, although passes fail half-way, policies are stored again and
  retention forgets keys. Fairness is asked of the scheduler's goroutine only. With one
  policy, one route and one step there is no other work behind a step that fails, and
  the run says nothing of such work: with several policies, an administrator who deletes
  one in every pass just after its id was listed would end every pass with an error, and
  nothing in the code says otherwise; with one the premise of the property is false then.

Left out: the LIMITs of the two lists (5000 incidents, 500 policies),
selectors, and incidents of deleted rules, which the query of the scheduler
does not list.

### RecoveryExecution

`receipt` is `recovery_executions` by key, `execution` the handlers of
`executeRecovery`, `group` the last delivered id of the group, `applied` how often
Redis carried out the command of a receipt. `Begin` is the INSERT OR IGNORE of
`beginRecoveryExecution` and `LoadReceipt` its second statement; `Execute`, `Unreachable`,
`LostReply` and `Refused` are what may become of a command, with the retries of the
Redis client (`MaxRetries: 1` in `redis_manager.go`); `RecordOutcome` and `RecordFails` the
last UPDATE; `Abandon` a client that goes, and its context with it; `ProcessStops` a stop of
the process; `PruneReceipt` the retention of 30 days. `claim` stands for the commands that
take effect whenever they arrive. Plans only read, and appear as the expected id of a
request.

* `recovery_receipts`: two requests, two keys, a claim and two compare-and-sets that
  move the group forth and back, two faults, so that a lost reply may follow a lost
  command. One executor per key, executions bounded by the retries, answers that are
  true, unknown outcomes that are kept.

Keys meet only in the group they move and in the request that uses one after the
other, so two of each give every conflict.

### Quarantine

`stored`, `pending`, `acked`, `copies`, `marker`, `replays` and `mark` are Redis,
`record` and `nextId` are `quarantine_records`; `request` are the handlers of
`quarantineEntries` and `executeQuarantineAction` after they have their key, which is
`RecoveryExecution`'s part. One action is one call: `Load` reads the entries,
`LookUp` the record of one, `Copy` runs the script, `Save` is the INSERT OR IGNORE,
`Ack` the XACK and `Flag` the note of it; `Replay` runs the script for a record and
`Close` and `Skip` are the guarded UPDATEs. `ReplyLost` repeats a command that was
carried out; `Consume` and `Trim` are the other users of the stream. A marker lives
for 30 days after it was last asked for, so that it does not end under a request.

* `quarantine`: one entry, one dead letter stream, two requests, two records one after
  the other, two targets. No acknowledgement without a copy, one copy and one replay
  per target while the marker lives, records that are true, final ones that stay.
  `CHECK_DEADLOCK FALSE`: ids are never used again, and with all of them in use the
  instance may stop.

Not promised by the code and not stated here: that `source_acked` is set for every
acknowledged entry (a lost reply of XACK loses it), and that of two racing replays to
two targets only one adds its copy.

### OperationalMonitor and MonitoringHistory

`OperationalMonitor` is `CollectConnection`: `redis` is the deployment, `snapshot` and
`collecting` are the entries of the connection in the maps of the monitor, `call` the
local variables of the ticker's goroutine and of the requests. `Ask` reads what is
monitored, `Coalesce` returns the snapshot of others, `Begin...` set the mark, copy the
snapshot and sample the nodes if they are due (all of them, some of a cluster, or none).
`collectStreamHealth` is call by call: `ReadStreams` is the pipeline of XINFO STREAM and
XINFO GROUPS with what the limits take of it, and then each group that was taken has its
turn, as `SampleConsumers` (XINFO CONSUMERS, with `SampleStatusOf` for what the limit of
a group and the room left of the collection cut off), `ConsumersNotRead` (the call fails
and is charged) or `ConsumersNotAsked` (a budget is used up). Redis may change between
two of these calls. `StoreStreams` and `StreamsNotDue` store the snapshot and remove the
mark. The limits are constants (`MaxStreams`, `MaxGroups`, `MaxConsumerCalls`...). `seen`
remembers in which states a consumer was since the groups were read, for one property
only. `MonitoringHistory` composes it with what each caller
then does: `RecordConsumers` and `RecordTopology` are the two transactions of
`recordOperationalSnapshot`, `Maintain` the hourly one, on the tables `groupRow`,
`consumerRow` and `topology`. Events are not kept: nothing reads them back, and the
properties speak of the condition under which a transaction writes one (`GroupLeft`,
`SaysConsumerGone`, `NodesLeft`...).

Time is the age of a sample in ticks; ages saturate at `Horizon`, above which a row may
be beyond its retention. A caller takes at most `CallTime` ticks. A failed command, a
partial walk of the nodes and a failed transaction cost one of `MaxFaults`. What happens to
Redis, to the choice of monitored streams and to the process costs one of
`MaxChanges`.

* `monitoring_history`: one stream with two groups, of which one has two consumers, one
  node, one request beside the ticker, one change and one fault; one call for consumers
  and room for one consumer in a collection, so that a group is not asked for and a
  list of two is cut off. What is reported as gone or recovered was so at a moment of
  the collection; a consumer has no row without its group; a complete sample leaves
  nothing of an earlier one; a dead connection is no leave of its nodes; rows never go
  back. Rows of different streams and groups meet nowhere but in the limits; a second
  caller gives every order of two collections and their transactions. The limits of
  streams and groups are not reached in the instance, the theorems are for any.
* `monitoring_false_leave`: Redis does not change here. When XINFO STREAM answers and
  XINFO GROUPS does not, the health of the stream is kept as available with no group and
  nothing cut off, and the group is reported as gone and dropped although it is there.
  The comment at `history.go:327` says that leaves are suppressed in such a collection.

No fairness is assumed: both runs are of safety. Left out are figures (memory, lag,
trends, ages of entries), the samples that charts read, collector attempts, the health
of topology nodes beyond being shown. The answers of one pipeline are taken as of one
moment, and of a list that is cut off any part may be what is kept. Two more things the code does not promise, and no property says: `group_stalled` and
`group_recovered` need not alternate after a failed sample of a group, and with the
tables empty (after retention) an old snapshot is recorded again.

### ScopedAccess and UserAccounts

`ScopedAccess` has no state: `RoleAllows`, `Allows`, `AllowsScopeCoverage` and
`EffectivePermissionActions` are the functions of those names in `store.go` and
`scoped_acl.go`. An action or a scope is a sequence of segments and a pattern may end
in the wildcard. Patterns that end in two wildcards are left out by the assumption of
the theorem about them: the code cuts off one and compares the other literally.

`UserAccounts` is the life of a request. `user`, `session` and `grants` are the
tables, `request` what a handler holds between two transactions: `SignIn` is
`authenticate` and `CreateSession` its second half; `LookUpSession` is
`store.session`, `CheckPermission` the load of the grants in `permissionChecker`, and
after it a handler has its turn (`CreateUser`, `UpdateUser`, `UpsertGrant`,
`DeleteGrant`, `UpdateGrant`; `ComparePassword` and `ChangeOwnPassword` are the two
halves of `changePassword`, which then signs in again). `Abandon` is a client that goes
or a step that fails. `resets` counts the commits that end all sessions of a user and
a session remembers the count it was made under; `setBy` remembers who chose the
password. Both are for the properties only.

* `accounts`: two users, two requests, two sessions, viewers and administrators, one user
  who is given grants of two patterns (all users, the streams of one connection), one
  reset of each. An enabled administrator remains, no session is older than the last
  reset, a lasting password is one's own, what is permitted is offered.
  Two requests give every crossing of the guard of `updateUser` with another commit, and
  two administrators are what the guard distinguishes from one. A stop of the process
  is `Abandon` of every request, since nothing else is in memory.

What the code does and no property excludes: a sign-in that compared the password just
before a reset or disabling inserts its session after it (`auth.go:40`; a session of a
disabled user is deleted on use); a request works with the role its session had when it
was looked up; a user who is changing the own password while an administrator resets
it keeps the own one. Users are identified with their names, changes of names are left
out.

### RequestLifecycle

`db` are `request_lifecycles` and `trace_spans` as committed, `tx` the one transaction
that holds the writer slot with its own copy of them, `request` the batches that were
read and validated (`ReadBatch`) and wait for the slot. `UpsertEvent` is one turn of the
loop of `ingestLifecycleBatch`: `Merged` is `mergeLifecycle` for the request's row and
the corresponding half of `upsertTraceSpan` for the span, which differ only in what an
older attempt may fill in. `RollBack` is a refused event, an error or a client that
goes. `MaintainOperationalHistory` is the retention of both tables, `Restart` the stop
of the process and the backfill of root spans by `migrateInsights`. `listing` is a
client that follows the cursors of `listLifecycleRequests`. `from` records what was
merged into a row, for the properties only.

* `lifecycle`: two requests at a time with batches from seven events of two traces (two
  attempts, a completion that comes before its start, a span of its own, an event for
  another home that is refused after the first of its batch was stored), pages of one
  row, one tick, after which what was written before it is pruned, and crashes. Times
  are extremes, the last attempt stands, an untouched row is listed once. Every rule of
  the merge is met by a pair of these events, and two batches are what it takes to
  commit in another order than read.

What the code does and no property excludes: an older attempt that succeeded fills in an
empty outcome, and with it clears the error a newer attempt gave, in the request's row
and not in its root span; what intermediate attempts leave depends on the order; a row
that is written again while a client pages may be missed, since it moves to the front,
or, if its batch took its time before the time of the page that listed it and committed
after, listed twice. Services, operations, attributes and the filters of a listing are
left out.

### LiveTail

`mapped` is the map of the broker, `worker` the goroutines of `run`, `tail` what a
request (`server.tail`) follows with its channel, `doomed` the workers a reset has taken
out of the map and not cancelled yet. The mutexes make `SubscribeFirst`,
`SubscribeNext`, `Cancel` and `HandOut` one step each; a read begins (`StartRead`) and
ends (`ReadEntries`, `ReadNothing`) in steps of its own, because `$` is resolved when
Redis serves it and because a worker may be cancelled in between. `sent`, `dropped` and
`after` remember what a client was handed, for the property only.

* `live_tail`: two clients, two streams with two entries between them, a limit of one
  worker, goroutines for two, channels of one place, pages of two, one reset. Nothing is
  missed but what a full channel drops; a worker that is neither cancelled nor about to
  be is the one in the map; one that nobody follows stops. Two goroutines are what an old and a new worker
  of one stream need, and one reset makes a worker old. Fairness is asked of the
  goroutines: they are scheduled, and a read ends within its five seconds or with its
  context.

What the code does and no property excludes: of several clients of a stream the first
one's start counts for all; with `$` a worker that has read nothing yet asks for what is
new after every empty read, so that entries between two of them are missed; clients of a
worker that a reset ended stay connected, with heartbeats only, until they leave. Which
Redis client a worker has is left out: a request that resolved its connection before a
reload may start a worker on a client that is closed five seconds later, which then
fails and pauses as long as it is followed.

### Known behaviour

Five disagreements of the code with its comments or tests were met while modelling. The
run `monitoring_false_leave` shows one; the models have the other four (the first four
below), which the runs of their modules step through without a property that excludes
them. The last two disagree with nothing that is written, and no property excludes them
either:

* `alerts.go:1281`: a pass that listed the rule before its expression changed opens an
  incident of the old expression after the reset, which the comment at `alerts.go:719`
  excludes. `rules_live` shows that a later pass resolves it, as long as the rule lives.
* `alerts.go:719`: an update compares the expression with the row it read before its
  transaction (`alerts.go:686`). Of two racing updates the second may therefore change
  the expression back without a reset, which the comment there excludes;
  `ChangedExpressionResets` names exactly this exception.
* `alert_operations.go:1114`: a policy is validated before its route is deleted and
  stored after it; the trigger `alert_webhook_route_delete_guard` saw no reference then
  and the foreign key is content with a row that is marked deleted.
* `recovery.go:401`: the reply of the compare-and-set is lost, the client repeats it, and
  the second run finds the id that the first has set: the plan is reported as stale
  although the group was moved (`recovery_test.go:184` says "stale plan mutated Redis").
* `alerts.go:1281`: if the rule was deleted after the pass listed it, the incident that
  the pass opens stays firing: no later pass lists the rule.
* `operational.go:519`: the error of the walk over the shards is dropped, so that a walk
  that comes to some of the nodes only, or to none (then INFO gives one node "default"),
  counts as an answer, and the others are reported as `node_left`; the same holds beyond
  `operationalMaxClusterNodes`. `NodeLeaveIsTrue` says no more than that the connection
  answered without the node.

## Proofs

Every safety invariant and every action property of the passing runs is proved, for
all values of the constants that the ASSUMEs of the modules admit; the theorems are
listed in `PROJECT.json` with the property each one states. Type invariants are proved
and not checked by a run.

`AlertRules_proofs` proves `TypeOK`, `StateIncidentAgreement` and
`OneActiveIncident` for any number of rules, incidents, editors and destinations.
The inductive invariant adds `References`: an editor and a pass refer to rules
that have a row, and a used incident refers to a rule with contents. Agreement
and uniqueness need each other: that opening an incident keeps uniqueness follows
from agreement, and that resolving the one found keeps agreement from uniqueness.
On top of it `Announced` is inductive: `NotifiedMeansEnqueued` and
`ResolvedNoticeIsTrue` with `Notes`, what the note between the commit of a decision and
its insertion says of the tables (the incident is of the rule; a resolution is of one
that is resolved). The actions of administrators that may come in between never reopen
an incident, and the evaluator, which may, is the one that holds the note.
`AcknowledgementSilences` and `ChangedExpressionResets` follow step by step.

`AlertOutbox_proofs` proves `TypeOK`, `SendsAreCharged`, `ImplementsLedger`,
`OnlyOwnerEndsClaim` and `OneHolder` for any number of jobs and workers and any budget. The
invariant behind the first counts: POSTs made plus workers that hold a claim and have
not sent yet are at most the attempts of the row (`Budgeted`); what a worker holds
is a claim that was charged (`Holding`), and an absent row has no history
(`CleanSlate`). That a timely holder is alone needs two more facts: whoever holds a row
holds it under an attempt of its own (`ClaimsDiffer`), and a timely worker under the
last one, with its lease still running (`Timely`), so that nobody can claim it meanwhile.

`AlertEscalation_proofs` proves `TypeOK`, `StepsReferToRows` and
`AcknowledgementEndsEscalation`. The types need where a pass stands (`PassShape`); the
second is inductive with the guard of `PurgeRoute` and the foreign key. The third is
temporal and is safety only: once a key is `Over` it is `Quiet`, which says that its
incident is not firing again, that no pass holds it (neither in its list nor as due work
nor as the step it escalates) and that it has no row, and every step keeps it quiet.

`Recovery_proofs` is about the two modules of `recovery.go`. It proves the types and all
five properties of the quarantine. `Sound` says that
what a request holds between two of its steps is true of the tables and the streams,
`Marked` that what was added has its marker or had one that ended, `Fresh` that an id
is never used again. A step that only adds (`Grows`) leaves every other request sound,
which is why the interleavings need no case of their own. Of the receipts
(`ExecutionSpec`; the names of `RecoveryExecution` differ from those of `Quarantine`, so
that one module of proofs extends both) it proves the types and all four properties. The bound of
the executions rests on `Tried`: what Redis has done for a receipt is at most what
its executor has tried, which in turn needs the executor to be alone. That answers
are true needs the content of the running receipt to be that of its executor.

`MonitoringHistory_proofs` proves `TypeOK`, `OneCollector`, `NoOrphanConsumers`,
`CompleteMeansCurrent`, `NodeLeaveIsTrue`, `RowsNeverGoBack` and
`ConsumerEventsAreTrue` for any streams, groups, consumers, nodes and requests. The invariant
adds `Shows`, of the stored snapshot and of the one each caller holds: a snapshot shows
consumers of those groups only that it sampled, and no node of a deployment that did not
answer. With it an upserted consumer has a
row of its group of the same sample. That rows of consumers never go back follows from
`NoOrphanConsumers`: the guard of the transaction compares with the groups only, and
a consumer's row is no newer than its group's. `CompleteMeansCurrent` is inductive on
top: only a transaction with a complete sample of the group makes it complete, and that
one deletes what it does not write. `ConsumerEventsAreTrue` rests on `TrueSample`, an
invariant of the call that collects: what its snapshot shows of a consumer, and of a
group it counts as sampled the absence too, is a state the consumer was seen in. That is an argument about cardinalities: below both limits as many consumers are
kept as there are, so that the part kept is the whole. It needs the names of consumers
to be finite and nothing of the limits, nor of what changes between two calls.

`UserAccounts_proofs` proves `TypeOK`, `EnabledAdminRemains`, `NoEarlierSession`,
`LastingPasswordIsOwn` and `AllowedIsOffered` for any users, requests, sessions and
patterns. The invariant adds what a request and a session may refer to: a user that is
known. That an administrator remains needs the guard of `updateUser` only because it
counts inside the transaction: with two of them, one stays whichever is changed.
`CoverageIsSound` is about the operators alone: a pattern that `AllowsScopeCoverage`
permits as a whole holds no resource that `Allows` refuses.

`RequestLifecycle_proofs` proves `TypeOK`, `TimesAreExtremes`, `FinalAttemptStands` and
`ListedOnce` for any events, batches, sizes of pages and clients. The invariant says that
every row, committed or in a
transaction, is sound with respect to what was merged into it, and that batches are of
events; the lemma behind it is that `Merged` keeps a row sound. For the listing `Paged`
is inductive: of the rows that stand still, those behind the cursor were shown once and
those before it not yet. A page keeps it because the keys of rows are in a strict total
order, the time and then the id, so that the last row of a page divides what it shows
from what remains.

`LiveTail_proofs` proves `StreamIsContiguous` and `ReadersWithinLimit` for any streams,
clients, workers, limit, sizes of channels and pages, and number of resets. The workers
that read are those in the map (`Maps`), which needs every way out of the map to go with
the end or the cancelling of that very worker; their number is then the bound of the map.
What a client was handed goes up to the last entry of its worker without a gap (`NoGap`):
a read goes on after the last entry (`GoesOn`), a client follows the worker
that has it as a subscriber and no other, and goroutines that are not in use have none
(`Follows`).

The theorems assume what the modules' ASSUMEs say of the constants, nothing else. What
is model-checked only is liveness under fairness: `FiringIsAnnounced`,
`RecoveryResolves`, `EveryJobEnds`, `DueIsEscalated` and `NobodyReadsForNobody`; the
prover does not reason about ENABLED. `GroupLeaveIsTrue` is false of the code. What a
recursive computation returns for every input would need induction over data and is
not stated.

## Not modelled

See `components` in `PROJECT.json`: each part that is not modelled, or only partly, is
listed with the reason. In short:

* pure functions of one read: message delivery view, schema analysis and drift, trend
  estimator, metrics aggregated from lifecycles, the rendering for Prometheus;
* plain rows with no rule that relates them to another: dashboards, capacity policies,
  suppressions (a toggle in the models that read them), the access log;
* arithmetic on time buckets without a stated promise: the rollup of `metrics.go`;
* layout and wording: payloads, URL policy, JSON, HTTP routing, the properties file, the
  user interface, the Helm chart;
* limits on failed sign-ins and ingestion tokens, each a single check before the
  modelled steps.
