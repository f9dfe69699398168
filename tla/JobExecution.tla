--------------------------- MODULE JobExecution ---------------------------
(***************************************************************************)
(* The life of a job execution: backend/app/services/job_queue.py creates  *)
(* and submits it, backend/app/worker/tasks.py runs it in a Celery worker  *)
(* (or the API request handler runs it itself, in "inline" mode), and      *)
(* backend/app/services/http_runner.py makes one HTTP attempt and writes   *)
(* the outcome.                                                            *)
(*                                                                         *)
(* `job`, `execution` and `created` are the COMMITTED rows of PostgreSQL   *)
(* (READ COMMITTED); what a worker's session holds and has not committed   *)
(* is in `task`.  A worker between its first flush and its commit holds    *)
(* the row lock of its execution.                                          *)
(***************************************************************************)
EXTENDS Integers, FiniteSets

CONSTANTS
    Jobs,            \* ids of jobs
    Executions,      \* ids of executions, each used for at most one row
    Workers,         \* processes running attempts: Celery workers, or handlers
    JobOf,           \* the job each execution is created for
    Mode,            \* settings.job_execution_mode
    MaxRetryCount,   \* the largest retry_count a job may ask for
    MaxFaults,       \* bound on crashes, unexpected exceptions and refusals of Redis
    None             \* no execution, no job

ASSUME JobOfAssumption == JobOf \in [Executions -> Jobs]
ASSUME ModeAssumption == Mode \in {"celery", "inline"}
ASSUME BoundAssumption == MaxRetryCount \in Nat /\ MaxFaults \in Nat
ASSUME NoneAssumption ==
    /\ None \notin Executions
    /\ None \notin [retry_count : 0 .. MaxRetryCount, alert_on_failure : BOOLEAN]

Failed == {"failure", "timeout"}            \* FAILED_EXECUTION_STATUSES
Completed == Failed \cup {"success"}
Statuses == Completed \cup {"queued", "running", "retrying", "none", "deleted"}
Sources == {"job_execution", "alert_rule"}  \* Alert.source_type

\* The columns of a job row that its executions read.
JobConfig == [retry_count : 0 .. MaxRetryCount, alert_on_failure : BOOLEAN]
Message == [exec : Executions, retries : 0 .. MaxRetryCount]

\* Where a process is in _execute_http_job / run_job_http, named for what it
\* does next.
Points == {"idle", "create", "load_job", "load_execution", "start", "http",
           "commit", "completed", "dispatch", "refresh", "retrying", "announce",
           "retry", "alerting", "final"}

Task == [pc : Points,
         exec : Executions \cup {None},
         retries : 0 .. MaxRetryCount,        \* celery_task.request.retries
         status : Completed \cup {"none"},    \* execution.status, in the session
         job : JobConfig \cup {None},         \* the job as the session loaded it
         alerts : SUBSET Sources]             \* alerts still to dispatch

Idle == [pc |-> "idle", exec |-> None, retries |-> 0, status |-> "none",
         job |-> None, alerts |-> {}]

VARIABLES
    job,         \* committed job rows; None once deleted
    execution,   \* committed execution rows: status and retry_attempt
    submitting,  \* rows committed as queued whose .delay() is still to come
    broker,      \* Celery messages waiting in Redis, countdown included
    task,        \* what each worker is doing
    deleting,    \* jobs whose DELETE waits for execution row locks
    created,     \* alert rows committed per execution and source
    dispatched,  \* dispatch_alert_notifications calls per execution and source
    event,       \* status of the last execution.* event that Redis took
    missed,      \* history: executions whose latest event Redis did not take
    lost,        \* history: executions whose handler or task died half-way
    loaded,      \* history: job configuration the latest attempt ran with
    faults       \* crashes and refusals of Redis so far

rows == <<job, execution, created>>
history == <<missed, lost, loaded, faults>>
vars == <<job, execution, submitting, broker, task, deleting, created,
          dispatched, event, missed, lost, loaded, faults>>

Init ==
    /\ job \in [Jobs -> JobConfig]
    /\ execution = [e \in Executions |-> [status |-> "none", retry_attempt |-> 0]]
    /\ submitting = {}
    /\ broker = {}
    /\ task = [w \in Workers |-> Idle]
    /\ deleting = {}
    /\ created = [e \in Executions |-> [s \in Sources |-> 0]]
    /\ dispatched = [e \in Executions |-> [s \in Sources |-> 0]]
    /\ event = [e \in Executions |-> "none"]
    /\ missed = {}
    /\ lost = {}
    /\ loaded = [e \in Executions |-> None]
    /\ faults = 0

---------------------------------------------------------------------------
Status(e) == execution[e].status
Exists(e) == Status(e) \notin {"none", "deleted"}
Busy(w) == task[w].pc # "idle"
On(w) == task[w].exec

\* The session flushed status = "running" and has not committed: the row is
\* locked for everybody else.
HoldsRow(w) == task[w].pc \in {"http", "commit"}
RowLocked(e) == \E w \in Workers : HoldsRow(w) /\ On(w) = e

\* Somebody will still act on the execution: a handler about to submit it, a
\* message waiting for a worker, or a worker.
Held(e) ==
    \/ e \in submitting
    \/ \E m \in broker : m.exec = e
    \/ \E w \in Workers : Busy(w) /\ On(w) = e

Goto(w, pc) == task' = [task EXCEPT ![w].pc = pc]
Release(w) == task' = [task EXCEPT ![w] = Idle]

\* publish_event, publish_event_async: an error of Redis is logged and swallowed;
\* whoever publishes goes on as if the event had been sent.
Publish(e, status) ==
    \/ /\ event' = [event EXCEPT ![e] = status]
       /\ missed' = missed \ {e}
       /\ UNCHANGED faults
    \/ /\ faults < MaxFaults
       /\ faults' = faults + 1
       /\ missed' = missed \cup {e}
       /\ UNCHANGED event

---------------------------------------------------------------------------
\* create_queued_execution in Celery mode: the row is committed before the
\* task is sent.  The foreign key makes the insert need the job's row.
CreateQueued(e) ==
    /\ Mode = "celery"
    /\ Status(e) = "none"
    /\ job[JobOf[e]] # None
    /\ JobOf[e] \notin deleting
    /\ execution' = [execution EXCEPT ![e].status = "queued"]
    /\ submitting' = submitting \cup {e}
    /\ UNCHANGED <<job, broker, task, deleting, created, dispatched, event, history>>

\* execute_http_job.delay(...)
Delay(e) ==
    /\ e \in submitting
    /\ submitting' = submitting \ {e}
    /\ broker' = broker \cup {[exec |-> e, retries |-> 0]}
    /\ UNCHANGED <<rows, task, deleting, dispatched, event, history>>

\* .delay() raises (Redis is down) or the API process dies: the queued row stays.
DelayFails(e) ==
    /\ e \in submitting
    /\ faults < MaxFaults
    /\ submitting' = submitting \ {e}
    /\ lost' = lost \cup {e}
    /\ faults' = faults + 1
    /\ UNCHANGED <<rows, broker, task, deleting, dispatched, event, missed, loaded>>

\* Inline mode: the request handler reads the job and then runs the attempt
\* in its own session.
ReadJobInline(w, e) ==
    /\ Mode = "inline"
    /\ ~Busy(w)
    /\ Status(e) = "none"
    /\ ~Held(e)
    /\ job[JobOf[e]] # None
    /\ task' = [task EXCEPT ![w] = [Idle EXCEPT !.pc = "create", !.exec = e,
                                               !.job = job[JobOf[e]]]]
    /\ UNCHANGED <<rows, submitting, broker, deleting, dispatched, event, history>>

CreateInline(w) ==
    /\ task[w].pc = "create"
    /\ job[JobOf[On(w)]] # None
    /\ JobOf[On(w)] \notin deleting
    /\ execution' = [execution EXCEPT ![On(w)].status = "queued"]
    /\ loaded' = [loaded EXCEPT ![On(w)] = task[w].job]
    /\ Goto(w, "start")
    /\ UNCHANGED <<job, submitting, broker, deleting, created, dispatched, event,
                   missed, lost, faults>>

---------------------------------------------------------------------------
\* Mutant of Receive: the message stays in the queue while the task runs.
ReceiveUnacknowledged(w, m) ==
    /\ ~Busy(w)
    /\ m \in broker
    /\ task' = [task EXCEPT ![w] = [Idle EXCEPT !.pc = "load_job", !.exec = m.exec,
                                               !.retries = m.retries]]
    /\ UNCHANGED <<rows, submitting, broker, deleting, dispatched, event, history>>

\* A worker takes a message.  Celery acknowledges it before running the task.
Receive(w, m) ==
    /\ ~Busy(w)
    /\ m \in broker
    /\ broker' = broker \ {m}
    /\ task' = [task EXCEPT ![w] = [Idle EXCEPT !.pc = "load_job", !.exec = m.exec,
                                               !.retries = m.retries]]
    /\ UNCHANGED <<rows, submitting, deleting, dispatched, event, history>>

LoadJob(w) ==
    /\ task[w].pc = "load_job"
    /\ task' = [task EXCEPT ![w].job = job[JobOf[On(w)]],
                            ![w].pc = "load_execution"]
    /\ UNCHANGED <<rows, submitting, broker, deleting, dispatched, event, history>>

\* The execution is read by a second SELECT: the job may have been deleted,
\* and its executions with it, in between.
LoadExecution(w) ==
    /\ task[w].pc = "load_execution"
    /\ \/ /\ ~Exists(On(w))                                \* "missing"
          /\ Release(w)
          /\ UNCHANGED <<execution, loaded>>
       \/ /\ Exists(On(w))
          /\ task[w].job = None                            \* "Job not found"
          /\ execution' = [execution EXCEPT ![On(w)].status = "failure"]
          /\ Release(w)
          /\ UNCHANGED loaded
       \/ /\ Exists(On(w))
          /\ task[w].job # None
          /\ loaded' = [loaded EXCEPT ![On(w)] = task[w].job]
          /\ Goto(w, "start")
          /\ UNCHANGED execution
    /\ UNCHANGED <<job, submitting, broker, deleting, created, dispatched, event,
                   missed, lost, faults>>

\* run_job_http up to the request: status "running" is flushed, not committed,
\* and execution.started is published.
StartAttempt(w) ==
    /\ task[w].pc = "start"
    /\ Exists(On(w))
    /\ ~RowLocked(On(w))
    /\ Publish(On(w), "running")
    /\ Goto(w, "http")
    /\ UNCHANGED <<rows, submitting, broker, deleting, dispatched, lost, loaded>>

\* Mutant of HttpOutcome: the outcome is published before it is committed.
HttpOutcomeAnnounced(w) ==
    /\ task[w].pc = "http"
    /\ \E s \in Completed :
          /\ task' = [task EXCEPT ![w].status = s, ![w].pc = "commit"]
          /\ event' = [event EXCEPT ![On(w)] = s]
    /\ UNCHANGED <<rows, submitting, broker, deleting, dispatched, history>>

\* The request returns, times out or raises.
HttpOutcome(w) ==
    /\ task[w].pc = "http"
    /\ \E s \in Completed :
          task' = [task EXCEPT ![w].status = s, ![w].pc = "commit"]
    /\ UNCHANGED <<rows, submitting, broker, deleting, dispatched, event, history>>

\* Mutant of FailureAlert: a timeout is not a failure.
FailureAlertNotOnTimeout(t) ==
    {s \in {"job_execution"} : t.job.alert_on_failure /\ t.status = "failure"}

\* Mutant of FailureAlert: an alert for a successful attempt too.
FailureAlertAlways(t) == {s \in {"job_execution"} : t.job.alert_on_failure}

\* The alerts an attempt raises: one for the failure when the job asks for it,
\* and one if an alert rule fires (module AlertRules says when it does).
FailureAlert(t) ==
    {s \in {"job_execution"} : t.job.alert_on_failure /\ t.status \in Failed}
AlertSets(t) == {FailureAlert(t) \cup rule : rule \in SUBSET {"alert_rule"}}

Raise(e, sources) ==
    created' = [created EXCEPT ![e] =
                  [s \in Sources |-> @[s] + IF s \in sources THEN 1 ELSE 0]]

\* Mutant of CommitAttempt: run_job_http raises the alerts for the worker as well,
\* with every attempt.
CommitAttemptAlerting(w) ==
    /\ task[w].pc = "commit"
    /\ JobOf[On(w)] \notin deleting
    /\ execution' = [execution EXCEPT ![On(w)] =
                       [status |-> task[w].status, retry_attempt |-> task[w].retries]]
    /\ \E alerts \in AlertSets(task[w]) : Raise(On(w), alerts)
    /\ Goto(w, "completed")
    /\ UNCHANGED <<job, submitting, broker, deleting, dispatched, event, history>>

\* Mutant of CommitAttempt: retry_attempt is not written.
CommitAttemptUnnumbered(w) ==
    /\ task[w].pc = "commit"
    /\ JobOf[On(w)] \notin deleting
    /\ execution' = [execution EXCEPT ![On(w)].status = task[w].status]
    /\ \E alerts \in IF Mode = "inline" THEN AlertSets(task[w]) ELSE {{}} :
          /\ Raise(On(w), alerts)
          /\ task' = [task EXCEPT ![w].pc = "completed", ![w].alerts = alerts]
    /\ UNCHANGED <<job, submitting, broker, deleting, dispatched, event, history>>

\* The commit at the end of run_job_http: the execution, job.last_run_at and,
\* in inline mode (create_alert=True), the alerts.  Updating the job's row
\* waits for a DELETE that has locked it.
CommitAttempt(w) ==
    /\ task[w].pc = "commit"
    /\ JobOf[On(w)] \notin deleting
    /\ execution' = [execution EXCEPT ![On(w)] =
                       [status |-> task[w].status, retry_attempt |-> task[w].retries]]
    /\ \E alerts \in IF Mode = "inline" THEN AlertSets(task[w]) ELSE {{}} :
          /\ Raise(On(w), alerts)
          /\ task' = [task EXCEPT ![w].pc = "completed", ![w].alerts = alerts]
    /\ UNCHANGED <<job, submitting, broker, deleting, dispatched, event, history>>

\* Mutant of MustRetry: one retry too few.
MustRetryOneLess(t) == t.status \in Failed /\ t.retries + 1 < t.job.retry_count

\* Mutant of MustRetry: one retry too many.
MustRetryOneMore(t) == t.status \in Failed /\ t.retries <= t.job.retry_count

\* `execution.status in FAILED_EXECUTION_STATUSES and attempt < job.retry_count`
MustRetry(t) == t.status \in Failed /\ t.retries < t.job.retry_count

\* Mutant of PublishCompleted: no event for an attempt that raised an alert.
PublishCompletedUnlessAlerted(w) ==
    /\ task[w].pc = "completed"
    /\ IF task[w].alerts = {}
       THEN Publish(On(w), task[w].status) /\ Goto(w, "refresh")
       ELSE UNCHANGED <<event, missed, faults>> /\ Goto(w, "dispatch")
    /\ UNCHANGED <<rows, submitting, broker, deleting, dispatched, lost, loaded>>

\* execution.completed with the outcome of the attempt
PublishCompleted(w) ==
    /\ task[w].pc = "completed"
    /\ Publish(On(w), task[w].status)
    /\ Goto(w, IF task[w].alerts = {} THEN "refresh" ELSE "dispatch")
    /\ UNCHANGED <<rows, submitting, broker, deleting, dispatched, lost, loaded>>

\* The row is read again, and run_job_http returns to its caller, who decides
\* what comes next.
Refresh(w) ==
    /\ task[w].pc = "refresh"
    /\ Exists(On(w))
    /\ IF Mode = "inline"
       THEN Release(w)
       ELSE Goto(w, IF MustRetry(task[w]) THEN "retrying" ELSE "alerting")
    /\ UNCHANGED <<rows, submitting, broker, deleting, dispatched, event, history>>

\* execution.status = "retrying" and a second commit
CommitRetrying(w) ==
    /\ task[w].pc = "retrying"
    /\ Exists(On(w))
    /\ ~RowLocked(On(w))
    /\ execution' = [execution EXCEPT ![On(w)].status = "retrying"]
    /\ Goto(w, "announce")
    /\ UNCHANGED <<job, submitting, broker, deleting, created, dispatched, event, history>>

AnnounceRetrying(w) ==
    /\ task[w].pc = "announce"
    /\ Publish(On(w), "retrying")
    /\ Goto(w, "retry")
    /\ UNCHANGED <<rows, submitting, broker, deleting, dispatched, lost, loaded>>

\* Mutant of Retry: the task ends without the retry being sent.
RetryNotSent(w) ==
    /\ task[w].pc = "retry"
    /\ Release(w)
    /\ UNCHANGED <<rows, submitting, broker, deleting, dispatched, event, history>>

\* celery_task.retry(...): a new message with the next retry number, and the
\* Retry exception ends this task.
Retry(w) ==
    /\ task[w].pc = "retry"
    /\ broker' = broker \cup {[exec |-> On(w), retries |-> task[w].retries + 1]}
    /\ Release(w)
    /\ UNCHANGED <<rows, submitting, deleting, dispatched, event, history>>

\* No retry is left: the alerts are added and committed.
CreateAlerts(w) ==
    /\ task[w].pc = "alerting"
    /\ \E alerts \in AlertSets(task[w]) :
          /\ Raise(On(w), alerts)
          /\ task' = [task EXCEPT ![w].alerts = alerts,
                                  ![w].pc = IF alerts = {} THEN "final" ELSE "dispatch"]
    /\ UNCHANGED <<job, execution, submitting, broker, deleting, dispatched, event, history>>

\* run_job_http dispatches in inline mode, the worker in Celery mode.
AfterDispatch == IF Mode = "inline" THEN "refresh" ELSE "final"

\* Mutant of Dispatch: only the first alert is dispatched.
DispatchFirstOnly(w, s) ==
    /\ task[w].pc = "dispatch"
    /\ s \in task[w].alerts
    /\ dispatched' = [dispatched EXCEPT ![On(w)][s] = @ + 1]
    /\ task' = [task EXCEPT ![w].alerts = {}, ![w].pc = AfterDispatch]
    /\ UNCHANGED <<rows, submitting, broker, deleting, event, history>>

\* dispatch_alert_notifications for one of them (module Escalation has its steps)
Dispatch(w, s) ==
    /\ task[w].pc = "dispatch"
    /\ s \in task[w].alerts
    /\ dispatched' = [dispatched EXCEPT ![On(w)][s] = @ + 1]
    /\ task' = [task EXCEPT ![w].alerts = @ \ {s},
                            ![w].pc = IF task[w].alerts = {s} THEN AfterDispatch ELSE @]
    /\ UNCHANGED <<rows, submitting, broker, deleting, event, history>>

\* Mutant of PublishFinal: the event repeats the status of the start.
PublishFinalAsRunning(w) ==
    /\ task[w].pc = "final"
    /\ Publish(On(w), "running")
    /\ Release(w)
    /\ UNCHANGED <<rows, submitting, broker, deleting, dispatched, lost, loaded>>

\* the worker publishes execution.completed again, with the final status
PublishFinal(w) ==
    /\ task[w].pc = "final"
    /\ Publish(On(w), task[w].status)
    /\ Release(w)
    /\ UNCHANGED <<rows, submitting, broker, deleting, dispatched, lost, loaded>>

---------------------------------------------------------------------------
\* A flush finds that the row it updates is gone (StaleDataError), a refresh does
\* (InvalidRequestError), or the insert finds that the job is gone: the exception
\* ends the task or request.
DatabaseRejects(w) ==
    /\ \/ task[w].pc \in {"start", "refresh", "retrying"} /\ ~Exists(On(w))
       \/ task[w].pc = "create" /\ job[JobOf[On(w)]] = None
    /\ Release(w)
    /\ UNCHANGED <<rows, submitting, broker, deleting, dispatched, event, history>>

\* The worker process dies, or an exception nobody catches ends the task.  What
\* the session had not committed is rolled back; the message is already gone.
Abort(w) ==
    /\ Busy(w)
    /\ faults < MaxFaults
    /\ Release(w)
    /\ lost' = lost \cup {On(w)}
    /\ faults' = faults + 1
    /\ UNCHANGED <<rows, submitting, broker, deleting, dispatched, event, missed, loaded>>

---------------------------------------------------------------------------
\* Mutant of UpdateJob: JobUpdate does not bound retry_count.
UpdateJobUnbounded(j) ==
    /\ job[j] # None
    /\ j \notin deleting
    /\ job' = [job EXCEPT ![j].retry_count = @ + 1]
    /\ UNCHANGED <<execution, submitting, broker, task, deleting, created, dispatched,
                   event, history>>

\* PATCH /jobs/{id}
UpdateJob(j) ==
    /\ job[j] # None
    /\ j \notin deleting
    /\ \E c \in JobConfig \ {job[j]} : job' = [job EXCEPT ![j] = c]
    /\ UNCHANGED <<execution, submitting, broker, task, deleting, created, dispatched,
                   event, history>>

LockedExecutions(j) == {e \in Executions : JobOf[e] = j /\ RowLocked(e)}

\* DELETE /jobs/{id} locks the job's row and cascades to its executions, so it
\* waits while a worker holds one of them.
DeleteWaits(j) ==
    /\ job[j] # None
    /\ j \notin deleting
    /\ LockedExecutions(j) # {}
    /\ deleting' = deleting \cup {j}
    /\ UNCHANGED <<rows, submitting, broker, task, dispatched, event, history>>

DeleteJob(j) ==
    /\ job[j] # None
    /\ LockedExecutions(j) = {}
    /\ job' = [job EXCEPT ![j] = None]
    /\ execution' = [e \in Executions |->
                       IF JobOf[e] = j /\ Exists(e)
                       THEN [execution[e] EXCEPT !.status = "deleted"]
                       ELSE execution[e]]
    /\ deleting' = deleting \ {j}
    /\ UNCHANGED <<submitting, broker, task, created, dispatched, event, history>>

\* The DELETE holds the job's row and waits for the execution's; the worker
\* holds the execution's row and now needs the job's.  PostgreSQL ends one.
Deadlocked(w) == task[w].pc = "commit" /\ JobOf[On(w)] \in deleting

DeadlockEndsDelete(w) ==
    /\ Deadlocked(w)
    /\ deleting' = deleting \ {JobOf[On(w)]}
    /\ UNCHANGED <<rows, submitting, broker, task, dispatched, event, history>>

DeadlockEndsTask(w) ==
    /\ Deadlocked(w)
    /\ Release(w)
    /\ lost' = lost \cup {On(w)}
    /\ UNCHANGED <<rows, submitting, broker, deleting, dispatched, event, missed, loaded,
                   faults>>

---------------------------------------------------------------------------
\* What a worker does by itself once it has an execution.
WorkerStep(w) ==
    \/ CreateInline(w)
    \/ LoadJob(w)
    \/ LoadExecution(w)
    \/ StartAttempt(w)
    \/ HttpOutcome(w)
    \/ CommitAttempt(w)
    \/ PublishCompleted(w)
    \/ Refresh(w)
    \/ CommitRetrying(w)
    \/ AnnounceRetrying(w)
    \/ Retry(w)
    \/ CreateAlerts(w)
    \/ \E s \in Sources : Dispatch(w, s)
    \/ PublishFinal(w)
    \/ DatabaseRejects(w)

Next ==
    \/ \E e \in Executions : CreateQueued(e) \/ Delay(e) \/ DelayFails(e)
    \/ \E w \in Workers :
          \/ \E e \in Executions : ReadJobInline(w, e)
          \/ \E m \in broker : Receive(w, m)
          \/ WorkerStep(w)
          \/ Abort(w)
          \/ DeadlockEndsDelete(w)
          \/ DeadlockEndsTask(w)
    \/ \E j \in Jobs : UpdateJob(j) \/ DeleteWaits(j) \/ DeleteJob(j)

Spec == Init /\ [][Next]_vars

\* Fairness: a handler that committed the row goes on to send it, a waiting
\* message is taken by some worker, a worker goes on (httpx bounds the request
\* by job.timeout_seconds, PostgreSQL grants row locks in order: hence strong
\* fairness), and PostgreSQL's deadlock detector ends every deadlock.
Fairness ==
    /\ \A e \in Executions : WF_vars(Delay(e))
    /\ \A e \in Executions :
          WF_vars(\E w \in Workers : \E m \in broker : m.exec = e /\ Receive(w, m))
    /\ \A w \in Workers :
          /\ SF_vars(WorkerStep(w))
          /\ WF_vars(DeadlockEndsDelete(w) \/ DeadlockEndsTask(w))

FairSpec == Spec /\ Fairness

---------------------------------------------------------------------------
TypeOK ==
    /\ job \in [Jobs -> JobConfig \cup {None}]
    /\ execution \in [Executions -> [status : Statuses, retry_attempt : 0 .. MaxRetryCount]]
    /\ submitting \subseteq Executions
    /\ broker \subseteq Message
    /\ task \in [Workers -> Task]
    /\ deleting \subseteq Jobs
    /\ created \in [Executions -> [Sources -> Nat]]
    /\ dispatched \in [Executions -> [Sources -> Nat]]
    /\ event \in [Executions -> Statuses]
    /\ missed \subseteq Executions
    /\ lost \subseteq Executions
    /\ loaded \in [Executions -> JobConfig \cup {None}]
    /\ faults \in 0 .. MaxFaults

\* No two parties ever act on the same execution: the handler that submits it,
\* a message that waits, and the workers exclude one another, also across the
\* hand-over from an attempt to its retry.
SingleHolder ==
    /\ \A m \in broker : m.exec \notin submitting
    /\ \A m, n \in broker : m.exec = n.exec => m = n
    /\ \A w \in Workers : Busy(w) =>
          /\ On(w) \notin submitting
          /\ \A m \in broker : m.exec # On(w)
          /\ \A v \in Workers \ {w} : Busy(v) => On(v) # On(w)

\* An execution that shows "queued" or "retrying" has somebody who will take it
\* further, unless a handler or a task of it died half-way.
NoOrphan ==
    \A e \in Executions :
        Status(e) \in {"queued", "retrying"} /\ e \notin lost => Held(e)

\* The retries are used up, and no more than them: nobody gives up on a failed
\* execution while the job as its last attempt loaded it still allows a retry, and
\* no retry waits whose number is above what the job allowed when the attempt
\* before it loaded it (a PATCH may have lowered it since).
RetriesExhausted ==
    /\ \A e \in Executions :
          /\ Mode = "celery"
          /\ Status(e) \in Failed
          /\ ~Held(e)
          /\ e \notin lost
          => execution[e].retry_attempt >= loaded[e].retry_count
    /\ \A m \in broker : m.retries > 0 => m.retries <= loaded[m.exec].retry_count

\* An alert for an execution means that it is over: no attempt is left that
\* could still make it succeed (docs/api-reference.md:203).
AlertOnlyWhenFinal ==
    \A e \in Executions :
        created[e]["job_execution"] > 0 =>
            /\ Status(e) \in Failed \cup {"deleted"}
            /\ e \notin submitting
            /\ \A m \in broker : m.exec # e
            /\ \A w \in Workers : Busy(w) /\ On(w) = e =>
                  task[w].pc \in {"completed", "dispatch", "refresh", "final"}

\* When nobody works on it any more and no task of it died, a failed execution
\* has exactly the one failure alert its job asked for, and a successful one none.
OneAlertPerFailure ==
    \A e \in Executions :
        Status(e) \in Completed /\ ~Held(e) /\ e \notin lost =>
            created[e]["job_execution"] =
                IF Status(e) \in Failed /\ loaded[e].alert_on_failure THEN 1 ELSE 0

\* Every alert is handed to the notification dispatcher at most once, and exactly
\* once when no task died.
DispatchedOnce ==
    \A e \in Executions, s \in Sources :
        /\ dispatched[e][s] <= created[e][s]
        /\ created[e][s] <= 1
        /\ ~Held(e) /\ e \notin lost => dispatched[e][s] = created[e][s]

\* When an execution has come to rest, the last event of it that was sent is the
\* status the database shows, unless Redis refused that very event (nothing is sent
\* again): no event of an earlier attempt or decision comes last, and a lost event
\* does no harm once a later one gets through.
LastEventIsStatus ==
    \A e \in Executions :
        Status(e) \in Completed /\ ~Held(e) /\ e \notin lost \cup missed =>
            event[e] = Status(e)

\* execution.completed is never ahead of the database: a client that refetches
\* the row on the event finds the announced status (or no row).
CompletedNotAhead ==
    [][\A e \in Executions :
          event'[e] # event[e] /\ event'[e] # "running" =>
              Status(e) \in {event'[e], "deleted"}]_vars

\* Every execution comes to rest: it reaches a final status with nobody working
\* on it, unless its job is deleted or a task of it died.
Settles ==
    \A e \in Executions :
        Status(e) = "queued" ~>
            \/ Status(e) \in Completed /\ ~Held(e)
            \/ Status(e) = "deleted"
            \/ e \in lost

\* Read through the executions table alone, all of this is the life cycle of
\* module ExecutionLifecycle.
Lifecycle == INSTANCE ExecutionLifecycle WITH
    status <- [e \in Executions |-> Status(e)],
    attempt <- [e \in Executions |-> execution[e].retry_attempt],
    alerts <- [e \in Executions |-> created[e]["job_execution"]]

\* The status sequence, the attempt numbers and the alert promised there hold of
\* the workers, handlers, messages and deletions of this module.
ImplementsLifecycle == Lifecycle!Spec
===========================================================================
