# AutoFlowOps: models, checks and proofs

AutoFlowOps runs HTTP jobs by hand or on a schedule, records their executions, raises
alerts and sends them to notification channels. It is a FastAPI backend (one process,
asyncio, with an APScheduler inside), Celery workers, Redis (broker and event channel),
PostgreSQL and a React frontend.

This directory holds TLA+ modules of its core protocols, the TLC configurations that
check them on small instances and TLAPS proofs of what holds for every instance.
Source paths below are relative to `src/backend/app/` unless they begin with `src/` or
`docs/`.

| Module | Models | Runs | Proofs |
| --- | --- | --- | --- |
| `JobExecution` | the life of an execution, from request to final status | 3 | `JobExecutionProofs` |
| `ExecutionLifecycle` | what a reader of the executions table may rely on (abstract) | refinement in 2 | in `JobExecutionProofs` |
| `Escalation` | dispatch of alerts, escalation events, the checker's passes | 2 | `EscalationProofs` |
| `Scheduler` | schedule entries against job rows | 1 | `SchedulerProofs` |
| `UserAdmin` | accounts and the last administrator | 1 + 1 | `UserAdminProofs` |
| `RateLimiter`, `Webhooks` | the sliding log; webhooks and their receiver behind it | 1 | `WebhooksProofs` |
| `Calls` | API calls that overlap | with the next two | in the next two |
| `Workspaces`, `Channels`, `Routing` | workspaces and members; channels and templates; an alert's way to the channels | 1 | `RoutingProofs` |
| `AlertRules`, `ExecutionHistory`, `Summaries` | rules and their conditions; the history they look at; statistics and reports read from it | 1 | `SummariesProofs` |
| `EventStream` | events from a commit to the page that lists executions | 1 | `EventStreamProofs` |

("1 + 1": a run whose properties hold and one that shows a disagreement between the code
and a statement about it.) The `MC*` modules give the instances their constants, initial
states and symmetry.

## 1. Inventory

| Component | State | Operations | Hard behaviour | What makes it correct |
| --- | --- | --- | --- | --- |
| **Job execution**: `services/job_queue.py`, `services/http_runner.py`, `worker/tasks.py` | execution row (status, retry_attempt), Redis messages, the worker's session, alert rows, events | create queued row, send the task, attempt, commit outcome, retry, raise alerts, publish; inline mode | two workers, retry hand-over, commits before and after sends, workers that die, a DELETE that meets a running attempt | one holder per execution; nothing is left behind; one alert per final failure; events agree with rows; everything settles |
| **Alert rules**: `http_runner.py` 71-170, `api/alert_rules.py` | rules, recent executions | evaluate four conditions; CRUD | counts over the last 50 executions, executions that overlap, rules that change meanwhile | a streak of failures is noticed |
| **Alerts and escalation**: `api/alerts.py`, `services/escalation.py`, `api/escalation_policies.py` | alert status, policies, steps, events with scheduled_at | dispatch, pass of the checker, acknowledge, resolve, changes and cascading deletions | commits hidden in a helper, stale session objects, crash between send and mark, overlapping PATCH requests | the table says what was sent; closed alerts stay quiet; due events settle; steps are sent |
| **Notification delivery**: `services/notifications.py`, `api/notifications.py` | channels, deliveries, templates | send with two attempts, CRUD, test, activate | a send that raises, a channel deleted or changed meanwhile, a template that cannot be rendered | every active channel hears of an alert; a configuration fits its type; every send is recorded (through `Escalation`) |
| **Scheduler**: `services/scheduler.py`, `api/jobs.py`, `main.py` | APScheduler entries in memory, job rows | load at start, create/patch/delete a job, fire | memory against database, restarts, late answers | entries agree with rows; paused jobs stop; active ones go on |
| **Users and roles**: `api/users.py`, `dependencies.py`, `services/auth.py` | accounts | bootstrap, create, change, delete, login | check, then act | an active administrator is left |
| **Real-time events**: `api/ws.py`, `services/event_publisher.py`, `src/frontend/src/hooks/useWebSocket.ts` | connection registry, Redis subscription, reconnect timer | publish, broadcast, connect, reconnect | Redis goes away, clients come and go, events lost meanwhile | nobody registered is skipped; the page ends up with the row's state |
| **Webhooks and rate limiter**: `api/webhook_receiver.py`, `api/webhooks.py`, `services/rate_limiter.py` | webhooks, events, timestamps per key | receive, reprocess, CRUD, sliding log | paused, changed or deleted webhooks under a delivery, window boundaries, two clock readings | at most `limit` per window; the answer says what was stored; acknowledged settings hold |
| **Workspaces**: `api/workspaces.py`, `services/workspace.py`, `src/frontend/src/contexts/WorkspaceContext.tsx` | workspaces, memberships, the stored selection | CRUD, membership, default, routing of alerts | deletion under running requests, additions that overlap, rows with no workspace | one default; nothing refers to a workspace that is gone; a user is a member once |
| **Audit log**: `services/audit.py` | entries | write with the action | a flush that fails is swallowed | nothing a module checks: the entry shares the session and the commit of its action |
| **Reports and statistics**: `api/reports.py`, `api/stats.py` | saved reports | count, rate, group | several statements, no snapshot | the parts of an answer fit each other |
| **Masking, address guard, credential encryption** | none | pure functions on strings and addresses | – | unit tests reach it |
| **Configuration, observability, migrations** | settings | – | – | nothing a property is about |
| **Frontend pages** | query caches | render | – | left to its tests |

How they interact. The API handlers and the scheduler's callbacks run in one event loop
and change places at every `await`; each has a database session of its own. Workers are
processes that share only PostgreSQL and Redis with them. Whoever finishes an execution
(a worker, or the handler in inline mode) raises its alerts and dispatches them within
the same task; deferred escalation steps go through the `escalation_events` table to
the checker in the API process. Events for the browser go through Redis publish and
subscribe, with no memory. The frontend refetches rows when an event arrives.

The database is modelled as PostgreSQL with READ COMMITTED: a reader sees committed
rows only; a flushed and uncommitted change locks its row for other writers; a cascade
waits for the locks of the rows it deletes; a deadlock is ended by aborting one party.

## 2. Plan

Built in this order: `JobExecution` with `ExecutionLifecycle`, `Escalation`, `Scheduler`,
`UserAdmin`; then `RateLimiter` and `Webhooks`, `Calls` with `Workspaces`, `Channels` and
`Routing`, `AlertRules` with `ExecutionHistory` and `Summaries`, `EventStream`; the
proofs of section 5 beside them.

Composition: `Webhooks` extends `RateLimiter` and uses its steps in its own. `Routing`
composes `Workspaces` and `Channels`, which share the calls of `Calls`. `Summaries`
composes `ExecutionHistory` with the readers; `ExecutionHistory` composes `AlertRules`
with the attempts. `JobExecution` is refined from `ExecutionLifecycle`; `EventStream`
takes what is published (`Publications`) from it.

Left: the workspace a browser has stored (`WorkspaceContext.tsx`), logins and the
lifetime of tokens. Every invariant and action property of the passing runs is proved
(section 5). Next to prove: which pages of `EventStream` are behind only by what was lost.

## 3. The modules

### JobExecution

State: `job`, `execution` and `created` (alert rows) are committed rows; `submitting`
the handlers between the commit of the queued row and `.delay()`; `broker` the messages
in Redis, those of a countdown included; `task` what every worker does and has in its
session; `deleting` the DELETE requests that wait for a row lock; `dispatched` and
`event` the effects outside the database. `lost`, `loaded`, `missed`, `faults` are history.
`Publish` is `publish_event`, which swallows every error: an event gets through, or Redis
refuses it, which counts as a fault and puts the execution into `missed` until a later event
of it gets through. After the event of an outcome the row is read back (`Refresh`,
`AfterDispatch`), which fails when it was deleted meanwhile.

| Action | Code |
| --- | --- |
| `CreateQueued`, `Delay`, `DelayFails` | `create_queued_execution`, then `execute_http_job.delay` (`job_queue.py` 11-43) |
| `ReadJobInline`, `CreateInline` | `POST /jobs/{id}/run` in inline mode |
| `Receive`, `LoadJob`, `LoadExecution` | a worker takes the message (acknowledged early) and reads job and execution by two statements (`tasks.py` 22-60) |
| `StartAttempt`, `HttpOutcome`, `CommitAttempt`, `PublishCompleted` | `run_job_http` (`http_runner.py` 185-304): "running" is flushed and announced, the request, the commit, the event |
| `CommitRetrying`, `AnnounceRetrying`, `Retry` | `tasks.py` 72-93 |
| `CreateAlerts`, `Dispatch`, `PublishFinal` | `tasks.py` 95-141 |
| `DatabaseRejects` | a flush on a deleted row, an insert for a deleted job |
| `Abort` | a process that dies, an exception nobody catches; the session is rolled back |
| `UpdateJob`, `DeleteWaits`, `DeleteJob`, `DeadlockEndsDelete`, `DeadlockEndsTask` | `PATCH` and `DELETE /jobs/{id}` and PostgreSQL's deadlock detector |

`LoadExecution` keeps the branch "Job not found" of the code. It is hardly ever
reached, as the deletion of a job takes its executions with it.

`ExecutionLifecycle` is the abstract specification: queued, an attempt's outcome,
retrying with the next attempt number, at most one failure alert and only for an
execution with no attempt to come. `JobExecution` implements it with status, attempt
number and alert count read from its rows.

### Escalation

State: committed rows (`alert`, `policy`, `channel`, `step`, `event`, `due`), one
`dispatch` per alert with the rows its session holds, one `pass` of the checker (APScheduler
runs one instance), PATCH `requests` that have passed their check, the clock `now`.
`send_channel_notification` commits the caller's session, so a dispatch and a pass
commit half-way: `RecordStep` and `RecordEvent` commit what was flushed before
(`flushed`), and the mark of the step just sent goes with a later commit (`new`).
`Seen` is SQLAlchemy's identity map: `database.py` 20 sets `expire_on_commit=False`, so
a second SELECT of the alert in the same pass gives back the object with its old
status while the pass still refers to it.

`RaiseAlert` … `EndDirect` are `dispatch_alert_notifications` and
`dispatch_via_escalation_policies`; `BeginPass` … `EndPass` are
`process_pending_escalation_events`; `DispatchRejected` and `PassRejected` are flushes
that meet deleted rows; `DispatchDies` and `PassDies` are crashes; `ReadAlert` and
`CommitAlert` are the two halves of acknowledge and resolve; `ChangeConfig` is every
change and deletion of policies, steps and channels, with the cascade. Several active
policies are visited in any order. All rows share a workspace.

### Scheduler

State: job rows, `entry` (APScheduler's jobs, in memory), requests under way with the
row each has read, firings. A request commits its row, reads it back, and only then
sets the entry (`CreateJob`/`WriteUpdate`, `Refresh`, `CallScheduleJob`,
`StoreNextRun`; `DeleteRow`, `UnscheduleJob`). `WriteUpdate` writes only the columns
that differ from the row that was loaded, as SQLAlchemy does. `Fire`, `ReadJob`,
`Enqueue`, `ReadNextRun`, `CommitNextRun` are `_run_scheduled_job`; `Enqueue` also ends the
firing when `.delay()` raises or the inline run fails, after the row of the execution was
committed. `Start` is `load_scheduled_jobs`, `Crash` the end of the API process. A schedule
is "manual", a valid one, "bad" (ValueError) or "huge" (an integer beyond `timedelta`:
OverflowError, which ends a start; the jobs it did not reach are any of the others).

Two history variables say which overlap the entries do not survive: `raced` holds the
requests that overlap another one for the same job, `apart` the jobs whose entry may differ
from the row, because requests for them overlapped or the last start did not reach them. A
request that is alone takes its job out of `apart` again when it has set the entry
(`Settles`), and so does a start that is complete.

### UserAdmin

State: the rows of `users` and the requests under way, each with the account it loaded.
The steps of `PATCH` and `DELETE /users/{id}` are those between which other requests
are served: authentication, load, the counts, the write with the audit entry.
`POST /users` decides nothing about other accounts and is one step. A null `is_active`
and unknown roles write nothing and are left out. The audit entry has a foreign key to
the caller's row, so a request whose caller is gone fails as a whole (`Auditable`). `stale`
is history: the requests during which another one has taken an administrator away.

### RateLimiter and Webhooks

State of the limiter: a clock and per key the log (`counters`); `allowed` is history. A
call reads `time.monotonic()` for its own entry and once more in `_prune`: `skew` is the
time between. `Allow`, `Refuse` are `check_rate_limit`, `Forget` a restart, as the log
is memory of one process.

State of `Webhooks`: the rows of one slug, events, alerts, and the handlers under way:
deliveries and operators' calls.

| Action | Code |
| --- | --- |
| `Arrive` | the limiter, then 404, or the row as this request holds it (`webhook_receiver.py`) |
| `CreateAlert`, `Dispatch` | paused or wrong token: the alert is committed and sent, then 403, or 500 when the sending raises |
| `Store`, `Acknowledge` | the body has come: event and `last_received_at` in one commit; then the event is read back and answered with 200, or, when that fails or it is gone, with 500 |
| `Disconnect` | the caller is gone before the body has come |
| `BeginCreate`/`CreateWebhook`, `BeginUpdate`/`UpdateWebhook`, `BeginDelete`/`DeleteWebhook` | `api/webhooks.py`: load and check, then write. `Written`: only columns that differ from the loaded row are written |
| `ReprocessEvent`, `Restart`, `ClockTick` | reprocess; a new API process; time |

### Calls, Workspaces, Channels, Routing

`Calls` is what all administration calls have in common: `Begin` (the row is loaded and
checked), `Finish` (the commit) and `StopCalls` (the process ends, sessions are rolled
back); `Do` is for calls that decide nothing. `raced` records subjects that two calls of a kind had under way at
once, so that a property may say exactly which overlap it does not survive.

`Workspaces` has the calls of `api/workspaces.py`, the default that `lifespan` makes
(`Start`), membership checks (`MayEnter`) and `POST /jobs`. `Channels` has the calls of
`api/notifications.py` and `api/notification_templates.py`. What a configuration holds is abstracted to the type it was
validated for, or `"null"`, which `PATCH {"config": null}` stores; a template's text to
how `str.format` ends. `Routing` adds the dispatch: `RaiseAlert`, `SelectChannels` (with
the alert's workspace), `SendNext`, `EndDispatch`.

### AlertRules, ExecutionHistory, Summaries

`AlertRules` has the calls of `api/alert_rules.py` and the four conditions (`IsMet`).
`ExecutionHistory` has, per execution, the attempt that works on it: `Queue`,
`StartAttempt`, then in inline mode `AnswerInline` (the rules see the flushed outcome)
and `CommitAlerts` (outcome and alerts in one commit), or in Celery mode `AnswerCelery`
(the outcome is committed), `Retry` or `EvaluateCelery`, `CommitAlerts`; `Die` at any
point. The first query of the rules flushes `last_run_at` (`http_runner.py` 264-265, 106), so
that an inline attempt holds its job's row from then to its commit: `AnswerInline` waits for
other attempts of the job, and `DeleteJob` for all that hold a row (`Locks`). A Celery
worker holds nothing after its commit: its execution may be deleted under it (`FindNoRow`).
`CreateRule` is refused for a job that is gone. `commits` numbers the commits of outcomes,
and `place` is the number an attempt got. `_count_consecutive_failures` is translated with
its limit of 50 as `Limit`. The clock moves in `StartAttempt` only: two attempts never start
at one instant.

`Summaries` reads the statements of `GET /stats` and `POST /reports/generate` one by one
against the history as it is at each (READ COMMITTED). Of a count the model keeps the
rows that are counted.

### EventStream

| Part | Actions | Code |
| --- | --- | --- |
| publishers | `Commit`, `Publish` | a commit, then `publish_event`, which swallows errors |
| API process | `StartApi`, `StopApi` | `lifespan` |
| subscriber | `SubscriberExits`, `TakeMessage`, `Send`, `EndBroadcast` | `redis_subscriber`, `ConnectionManager.broadcast` (on a copy of the registry, one send after the other) |
| connection | `Authenticate`, `AuthenticateRaises`, `Greet`, `HandlerEnds` | `ws_events` |
| page | `Connect`, `OnMessage`, `OnClose`, `Leave` | `useWebSocket.ts` |
| list | `OnLastEvent`, `Poll`, `Answer`, `Show`, `FetchFails` | `ExecutionsPage.tsx`, `useExecutions.ts`, `client.ts` |
| faults | `RedisFails`, `RedisReturns`, `LoseConnection`, `Expire`, `LogOutElsewhere` | an outage of Redis breaks every subscription; a dropped connection, which the page may never notice; the end of the token, or its removal by another tab |

A row is the number of its committed changes: what a page shows is right when it is that
number. An event may be lost at any time (`Publish` allows it), since Pub/Sub keeps
nothing. A request without a token is answered 401, or 403 by an older FastAPI, on which the
page stays (`Answer`, `client.ts` 25-28). The pages are tabs of one browser that share a
token, in the foreground: the query library does not poll for hidden tabs.

## 4. The runs

Bounds are named constants; each is the smallest for which the case happens.

| Run | Instance | What it shows |
| --- | --- | --- |
| `JobExecution_celery` | 2 executions of a job, 2 workers, 1 retry, 1 crash or refused event; 1 030 000 states | attempts exclude one another (`SingleHolder`); queued and retrying rows have somebody (`NoOrphan`); retries are used up and never exceeded (`RetriesExhausted`); the failure alert is unique, final and dispatched (`AlertOnlyWhenFinal`, `OneAlertPerFailure`, `DispatchedOnce`); the last event is the row's status unless that very event was refused (`LastEventIsStatus`), and none is ahead of its commit (`CompletedNotAhead`); `ImplementsLifecycle` |
| `JobExecution_inline` | the same, attempts in request handlers, 2 crashes or refused events; 878 000 states | the promises that inline mode keeps |
| `JobExecution_live` | 2 executions, 1 worker, 1 crash or refused event; 918 000 states | every execution comes to rest (`Settles`) |
| `Escalation_one` | 1 alert; an immediate step and two due together; 1 change, 1 crash; 140 000 states | a mark agrees with what was sent (`MarkedAsSent`), marks are final, due events settle, steps are sent |
| `Escalation_two` | 2 alerts, two deferred steps, any initial configuration; 440 000 states | `MarkedAsSent` and `ClosedStaysQuiet` when the events of two alerts share a pass and a session |
| `Scheduler_requests` | 2 jobs, 3 requests of which two may overlap, 2 valid schedules and a huge one, 1 crash; 1 240 000 states | entries agree with rows but for what `apart` says (`EntryMatchesRow`); a paused job runs at most once more (`PauseHolds`); an active one goes on (`KeepsRunning`) |
| `UserAdmin_requests` | 3 accounts, 4 requests of which two may overlap; 827 000 states | the last administrator goes only by a request during which another removal took place (`LastAdminLeavesByRace`) |
| `UserAdmin_overlap` | 2 accounts, 3 requests of which two may overlap | that this happens: `SomeAdmin` is violated (below) |
| `Webhooks_overlap` | 2 ids for one slug, 2 deliveries, 3 operators' calls, limit 1 in a window of 2 ticks, skew 1; 2 040 000 states | at most `Limit` calls in a window (`WindowBound`); an answer says what was stored (`AnswerIsTrue`); acknowledged settings are not lost to a call that was over before (`SettingsHold`) |
| `Routing_changes` | 3 calls, 2 workspaces, 2 channels of 2 types, 2 templates, 1 alert; 753 000 states | `MembershipsHold`, `ConfigFitsType`; an alert reaches every active channel of its workspace and no other (`EveryChannelHears`) |
| `Summaries_history` | 2 jobs, 2 executions, 1 retry, a rule for 2 failures in a row that one call may create, change or delete, 1 death, 3 attempts, 2 days of 2 ticks; 2 180 000 states | the failure of a streak that is committed last raises the alert (`StreakIsNoticed`); statements of a summary fit together (`SummaryAddsUp`); a day is counted whole (`DaysAreComplete`) |
| `EventStream_pages` | 1 page, 3 connections, 2 faults, 1 change with its events; 997 000 states | nobody registered is skipped (`EveryConnectionHears`); the page ends up with the row, unless it leaves or another tab logs out (`PagesCatchUp`) |

Why these bounds suffice. Executions meet only through their job's row and the workers,
so two executions and two workers show each kind of meeting; the second retry is like
the first, and `AttemptsExcludeOneAnother` is proved for any number. For the checker,
what matters is the first and a later event of a pass, and whether they are of the same
alert. A job's entry depends on another one only in `Start` with a "huge" interval, and its
requests matter to it only two at a time: two jobs, two slots. The run leaves out
"manual", which is treated like a paused job, and "bad", which requests treat like "huge" and
starts like a paused job; the module and the proofs have them.
Three accounts allow one to be changed by an administrator while a third is left or not.
Within two ticks an entry of the limiter leaves the log at the very end of its window.
`SettingsHold` needs a creation and two changes that overlap. Three calls let two overlap
on a row that a third has made or takes away. A streak needs as many executions as the
threshold, here also the query's `Limit`, so that the boundary is what is checked: with
threshold 2 they overlap, are retried and die in every order. Thresholds above the limit are
outside the property (below).
`EventStream` has a connection more than faults (`EnoughConnections`), so that no page
is stopped by the bound; `NobodyIsSkipped` is proved for any number of pages.

`MCSummaries` limits `Summaries_history` to behaviours of one interest (`OneInterest`):
either calls and deaths, or a second job and a summary, with which the behaviour ends. The
first concern `StreakIsNoticed` only, the second `SummaryAddsUp` and `DaysAreComplete`.
`ConfiguredInit` starts `Routing_changes` on a database in use.

Every action happens in some passing run. Deadlock is not checked, as each instance
stops when its ids and bounds are used up.

Fairness. `JobExecution`: a handler goes on to send its task, a waiting message is taken
by some worker (weak), a worker goes on (strong, as PostgreSQL grants row locks in order
and httpx bounds every request by the job's timeout), and deadlocks are ended.
`Escalation`: a dispatch goes on (two attempts per channel, with timeouts), time passes
and the interval trigger starts and runs pass after pass. `Scheduler`: the container is
restarted (`restart: always` in docker-compose.prod.yml), requests and firings go on,
APScheduler fires what it has. `EventStream`: the API is restarted, timers of a page go
off and its requests are answered while the API runs (weak); nothing is assumed of Redis,
the subscriber or any event, so `PagesCatchUp` rests on polling and reconnecting alone.
No fairness is assumed of users, administrators, crashes or the outcome of a request.
`StepsAreSent` is promised only while no process dies and no administrator intervenes: a
dispatch that dies has not stored its later steps, and nobody resumes it.

### Where the code and a statement about it part

| Run | Statement | Counterexample |
| --- | --- | --- |
| `UserAdmin_overlap` | docs/security.md 208: an active administrator is left | two requests count before either commits |

### Seen while modelling, without a run

Executions and alerts:
* docs/architecture.md 193 and docs/api-reference.md 203 show `running` during an attempt;
  it is flushed (`http_runner.py` 205, 218) and overwritten before the commit (291): no
  other session sees it. A failed attempt shows `failure` before `retrying` (`tasks.py` 72).
* CHANGELOG.md 132 has events cancelled on resolution; `cancel_pending_escalations_for_alert`
  (`escalation.py` 199) has no caller, and a pass cancels them when they fall due.
* An acknowledgement that was read before a resolution is written after it
  (`alerts.py` 77; docs/api-reference.md 450 says it is refused).
* The second due event of an alert is sent although the alert was closed while the first
  was being sent (`Seen`, `escalation.py` 139).
* A threshold above 50 failures in a row is never reached (`http_runner.py` 74), while
  docs/api-reference.md 209 and 243 set no limit. A worker that dies between the commit of
  the last outcome of a streak and its evaluation leaves no rule alert.
* Two PATCH requests on a rule, one of the type and one of the value, may leave a rule
  that either alone would have been refused.

Jobs and accounts:
* An interval beyond `timedelta` (OverflowError, `scheduler.py` 31 and 66) ends the
  loading of the other jobs at a start (`main.py` 78).
* An invalid new expression leaves the old entry in place (`scheduler.py` 80); of two
  overlapping PATCH requests the older row may set the entry last (`jobs.py` 155).
* An inactive administrator cannot be deleted while one active one is left (`users.py` 182).

Workspaces and channels:
* No endpoint gives a channel, a policy or a webhook a workspace (`create_channel` ignores
  the header): alerts of a workspace's jobs reach nobody. CHANGELOG.md 16 has them dispatched
  through the channels of the workspace, and docs/architecture.md 232 and 251 have active
  channels receive an alert. `Channels` lets a channel have a workspace, as its column
  does, so that `EveryChannelHears` says what dispatch does with one.
* Two additions of one member that overlap leave two rows; the user is locked out
  (`scalar_one_or_none` raises) and cannot be removed.
* docs/security.md 222 and docs/architecture.md 134 list activation, deactivation and test
  of a channel as audited. The first two write no entry, and that of the test is followed by
  no commit (`notifications.py` 162-177, 180-203); workspace calls write none either.
* `PATCH {"config": null}` is let through and stored as `null`; listing the channels and
  sending through this one then fail.
* A template that `str.format` cannot parse, or a channel with a null configuration,
  ends the dispatch for all channels after it.

Summaries, events, limiter:
* The statistics count an execution twice that was retried between two statements; in
  Celery mode a report may list an outcome without its alert.
* The subscriber ends for good when Redis breaks (`ws.py` 98-103); its comment (19-21)
  has events come back with Redis. A slow client holds up the broadcast for all.
* Without a token an older FastAPI (`fastapi>=0.115` allows it) answers 403, on which
  `client.ts` 25-28 does not go to the login: a tab stays after a logout in another one.
* docs/api-reference.md 962 gives 30 s for the polling of executions, the code has 15 s
  (`useExecutions.ts` 9).
* The limiter's module comment says fixed window; it is a sliding log, whose keys are
  never removed.

## 5. What is proved

The proofs hold for every value of the constants under the named assumptions of the
modules (all of them about types and bounds).

* `TypeCorrect`, `AttemptsExcludeOneAnother` (`JobExecutionProofs`): `TypeOK` and
  `SingleHolder` for any number of jobs, executions, workers, retries and crashes, in
  both modes. `SingleHolder` is not inductive: in Celery mode a
  row is created whenever there is none, and that nobody holds it then has to follow. The
  invariant `IInv` adds `NoneUnheld` (in Celery mode an execution without a row is
  held by nobody) and `PointInv` (what `task` holds at each point; in
  particular a worker at "retry" has a number below the job's retry_count). The lemmas
  `WorkerMoves`, `HoldersKept` say once how a step of one worker leaves the others'
  holdings alone; one lemma per group of actions uses them.
* `NobodyIsForgotten`, `RetriesAreUsed`, `AlertsComeLast`, `FailuresAreAlerted`,
  `AlertsAreDispatched`, `EventsEndWithTheRow`, `EventsFollowCommits`
  (`JobExecutionProofs`): the remaining properties of `JobExecution`, from one invariant.
  `OutcomeInv` says of each execution what its row, its alerts and its events are while
  each possible holder has it (an event is `Announced` when it was sent or refused): a
  handler or a message (`Waiting`), a task at each of its
  points (`Working`), or nobody (`Sound`, and `Finished` unless a holder died).
  Since at most one holds it (`SingleHolder`), a step that moves one holder leaves every
  other execution alone. `RowsHaveJobs` is the foreign key.
* `LifecycleImplemented`: `ImplementsLifecycle`, the refinement of `ExecutionLifecycle`,
  step by step: each action is a step of the abstract specification for the execution it
  is about, or changes nothing of what a reader sees.
* `EscalationTyped`, `TableTellsWhatHappened`, `ClosedAlertsStayQuiet`, `MarksStayForEver`
  (`EscalationProofs`): `TypeOK`, `MarkedAsSent`, `ClosedStaysQuiet` and `MarksAreFinal`
  for any number of alerts, policies, steps, channels, changes and deaths. As commits are
  hidden in a helper, an event's row may be absent or behind while somebody has it.
  `DispatchOK` says that an event a dispatch has is not a row yet and what was sent of it
  agrees with what the dispatch is about to store; `PassOK` that an event of a pass is
  pending or deleted, likewise; `AtRest` is the property for an event nobody has.
  `PassQuiet`: an alert that the pass takes to be open, from its own copy too, was open
  when the pass began.
* `SchedulerTyped`, `PausedJobsStop` (`SchedulerProofs`): `TypeOK` and `PauseHolds` for
  any number of jobs and of OVERLAPPING requests. `PauseInv` counts: a firing
  that has read the row is the only one that may add an execution to a paused job, and
  none has been added before it.
* `EntriesFollowRows`: `EntryMatchesRow` for any number of jobs, OVERLAPPING requests,
  firings, crashes and restarts, and with huge intervals. `EntryInv` says of a job at rest
  that entry and row agree unless it is `apart`, and of a request under way (`Between`) that
  its job is `apart` if it was `raced`; otherwise it is the only one for its job, and at each
  point what it has read is the row (`Alone`). `AloneStep` moves one request on,
  `StepIsLocal` says that no other step reaches its job.
* `AccountsTyped`, `LastAdminRemains` (`UserAdminProofs`): `TypeOK` and
  `LastAdminLeavesByRace` for any number of accounts and OVERLAPPING requests. `Checked`
  says what holds of a request that is not `stale`, whatever else was committed meanwhile:
  its caller is still an active administrator, and if it changes the caller's own account,
  its copy of it is right and its counts hold. A request about another account leaves its
  caller. Without `stale` the statement is false: `UserAdmin_overlap` is the counterexample.

* `LimiterBound` (`WebhooksProofs`): `WindowBound` for any limit, window, skew and number
  of keys. `LogIsComplete` is the strengthening: whatever was let through within the last
  window is still in the log. Then a call that is let through finds fewer than `Limit`
  entries, and every window that its own entry joins holds only entries of that log. The
  window shrinks by the skew: the pruning looks at a later clock than the entry it adds.
  `UsesLimiter`: every step of `Webhooks` is a step of the limiter or leaves it alone
  (refinement), hence `ReceiverIsLimited` for the receiver with all its handlers.
* `AnswersAreTrue`, `WebhooksTyped` (`WebhooksProofs`): `AnswerIsTrue` and `TypeOK` for any
  number of webhooks, deliveries, changes and restarts. `AnswerInv` adds `IdsAreNew` (an
  id is given away once, so whoever is about to insert its row is alone) and `Traces`
  (what a delivery has left behind at each point of its handler: no event before the body,
  an alert from "dispatch" on, an event and no alert while it is read back).
* `AcknowledgedSettingsHold` (`WebhooksProofs`): `SettingsHold` for any number of
  overlapping calls. Two facts carry it. `Order`: calls take effect when they end, and
  what each of them came after was over, so that these sets are nested.
  `CopiesExplained`: while a PATCH waits, a column is as it was loaded, or somebody who
  overlaps the PATCH has set it. A PATCH that leaves a column alone because it equals the
  loaded copy is then either already true or overtaken by a call it overlaps. With that,
  `EffectiveEnd` treats creation, PATCH and deletion at once, and `QuietStep` all steps in
  which no call takes effect.
* `NobodyIsSkipped` (`EventStreamProofs`): `EveryConnectionHears` for any number of pages,
  connections, events and faults. The invariant adds `Shapes` (a broadcast is there
  exactly while the subscriber hands it out, and only to connections in use) and
  `NewAreUnknown` (a connection that is not made yet is registered nowhere and owed
  nothing).

* `RoutingTyped`, `WorkspacesHoldTogether`, `ConfigurationsFit`, `AlertsAreHeard`
  (`RoutingProofs`): `TypeOK` and the three properties of
  `Routing_changes` for any number of calls, workspaces, users, channels, templates and
  alerts. `CallShape` says what a call is, `LoadedOK` what
  its handler has read. `AdditionOK`: while an addition waits there is no membership of
  that user yet, unless the subject is `raced`; `UpdateOK`: while a PATCH waits the
  channel has the type it was checked against, unless `raced`. The two properties with
  `raced` in them need no more overlap excluded than that. `HearsOK`: what a dispatch has
  selected are the active channels of its scope for as long as nothing changed.
* `StreaksRaiseAlerts` (`SummariesProofs`): `StreakIsNoticed` for any number of
  executions, rules, retries, deaths and deletions, in both modes and for any limit. The
  property looks at a whole streak, which no single step establishes. `StreaksNoticed` is the
  strengthening: of ANY set of failures, as many as a rule's threshold and with no success
  after the first, the one that is committed last, once judged, has met the rule. It sees
  the outcomes of all others (in inline mode because attempts of a job exclude one another
  from the evaluation to the commit: `Exclusive`), no two of which began at one instant
  (`Distinct`); `FailuresCounted` then shows that `_count_consecutive_failures` is at least
  the threshold, though the query's limit may cut the set.
  The set of newest rows is reasoned about through cardinalities of sets of newer rows,
  with the least element of a set of numbers (`NatMin`) in place of an induction.
* `SummariesAddUp` (`SummariesProofs`): `SummaryAddsUp`. `SummaryInv` says what still
  holds of the rows that earlier statements counted: a failure that was counted is one
  still or was retried (`FailedOnce`), an outcome that is listed in inline mode is final
  and its alerts are there (`Listed`). `Moves` collects what every step of the history
  leaves true for that.
* `DaysAreWhole` (`SummariesProofs`): `DaysAreComplete` for any length of a day and any
  number of days (`DaysFit` is the arithmetic).

Model-checked only: liveness under fairness, which is out of the prover's reach:
`Settles` (`JobExecution`), `DueEventsSettle` and `StepsAreSent` (`Escalation`),
`KeepsRunning` (`Scheduler`), `PagesCatchUp` (`EventStream`). All invariants and action
properties of the passing runs are proved.

## 6. What is not modelled

* Redelivery of a task by Redis after the visibility timeout (an hour): `SingleHolder`
  is shown for retry delays below it, while `schemas/job.py` 20 sets no bound on them.
* Several API replicas (docs/architecture.md 154 rules them out), SQLite (tests only),
  a database that cannot be reached when the API starts.
* The contents of requests, responses, messages and templates, and how reports are
  rendered; the requests of the single senders; masking, address checks and encryption,
  which are pure functions of strings; settings, metrics and migrations.
* The shipping of logs (`observability.py`): nothing depends on what it delivers.
* Logins and tokens, beyond the token that ends under an open page; the frontend beyond
  the list of executions and its socket.
* `asyncio.run` per Celery task with an engine that outlives it (`tasks.py` 29): what
  psycopg does with connections of a closed loop is the library's.
