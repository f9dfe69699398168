------------------------- MODULE ExecutionHistory -------------------------
(***************************************************************************)
(* The executions of a job as its alert rules see them.  Attempts overlap, *)
(* fail, are retried by Celery and end with their worker; module           *)
(* JobExecution has their queue and events.                                *)
(***************************************************************************)
EXTENDS AlertRules, FiniteSets

CONSTANTS
    Jobs,
    Ruled,     \* the job with the rules
    RunIds,
    Responses, \* [status, code, duration_ms, body]
    MaxRetry,  \* retry_count
    MaxTime,   \* bound of the clock
    MaxLost    \* bound of the workers that die

Failed == {"failure", "timeout"}  \* FAILED_EXECUTION_STATUSES
Completed == Failed \cup {"success"}

ASSUME HistoryAssumption ==
    /\ Ruled \in Jobs
    /\ \A o \in Responses : o.status \in Completed
    /\ {MaxRetry, MaxTime, MaxLost} \subseteq Nat

VARIABLES
    mode,       \* job_execution_mode
    now,
    job,        \* committed rows, or None
    execution,  \* committed rows, or None
    run,        \* the attempt that works on each execution
    alerts,     \* committed alerts of rules
    commits     \* history: the number of outcomes committed so far

historyVars == <<mode, now, job, execution, run, alerts, commits>>

Idle == <<>>
JobRows == {j \in Jobs : job[j] # None}
Rows == {e \in RunIds : execution[e] # None}
Rests(e) == run[e] = Idle \/ run[e].pc \in {"ended", "lost"}

InitHistory ==
    /\ mode \in {"inline", "celery"}
    /\ now = 0
    /\ job \in [Jobs -> {None, [created_at |-> 0]}] /\ job[Ruled] # None
    /\ execution = [e \in RunIds |-> None]
    /\ run = [e \in RunIds |-> Idle]
    /\ alerts = {}
    /\ commits = 0

CreateJob(j) ==
    /\ job[j] = None /\ j # Ruled
    /\ job' = [job EXCEPT ![j] = [created_at |-> now]]
    /\ UNCHANGED <<mode, now, execution, run, alerts, commits>>

\* An attempt that has written to its execution's row holds it up to its next commit:
\* through the request and, in inline mode, through the evaluation of the rules.
Locks(e) == run[e].pc = "request" \/ (mode = "inline" /\ run[e].pc = "evaluated")

\* Executions and rules go with their job; alerts stay.  The deletion waits for the rows
\* that are locked.  A worker that comes to take up an execution finds none.
DeleteJob(j) ==
    /\ j \in JobRows
    /\ LET gone == {e \in Rows : execution[e].job = j} IN
       /\ \A e \in gone : ~Locks(e)
       /\ execution' = [e \in RunIds |-> IF e \in gone THEN None ELSE execution[e]]
       /\ run' = [e \in RunIds |-> IF e \in gone /\ run[e].pc = "queued"
                                    THEN [run[e] EXCEPT !.pc = "ended"] ELSE run[e]]
    /\ job' = [job EXCEPT ![j] = None]
    /\ rule' = IF j = Ruled THEN [r \in RuleIds |-> None] ELSE rule
    /\ UNCHANGED <<mode, now, alerts, commits>>

\* create_queued_execution.
Queue(e, j) ==
    /\ run[e] = Idle /\ j \in JobRows
    /\ execution' = [execution EXCEPT ![e] = [job |-> j, status |-> "queued", started_at |-> now]]
    /\ run' = [run EXCEPT ![e] =
          [pc |-> "queued", began |-> now, started_at |-> now, attempt |-> 0,
           rules |-> <<>>, met |-> {}, response |-> <<>>, place |-> 0]]
    /\ UNCHANGED <<mode, now, job, alerts, commits>>

\* The row's new values are flushed, which nobody else sees.  The clock moves here and
\* nowhere else: no two attempts start at the same time.
StartAttempt(e) ==
    /\ run[e] # Idle /\ run[e].pc = "queued"
    /\ run' = [run EXCEPT ![e].pc = "request", ![e].started_at = now]
    /\ now < MaxTime
    /\ now' = now + 1
    /\ UNCHANGED <<mode, job, execution, alerts, commits>>

---------------------------------------------------------------------------
\* ORDER BY started_at DESC LIMIT n.
Newest(rows, n) ==
    {e \in DOMAIN rows :
       Cardinality({f \in DOMAIN rows : rows[f].started_at > rows[e].started_at}) < n}

\* The completed executions of the job with rules, as the session of e sees them.
CompletedRows(rows) ==
    [e \in {f \in DOMAIN rows : /\ rows[f] # None
                                /\ rows[f].job = Ruled
                                /\ rows[f].status \in Completed} |-> rows[e]]

\* _count_consecutive_failures: those of the newest that are newer than every success.
_count_consecutive_failures(seen) ==
    LET rows == CompletedRows(seen)
        newest == Newest(rows, Limit)
    IN  Cardinality({e \in newest : \A f \in newest :
                       rows[f].started_at >= rows[e].started_at => rows[f].status \in Failed})

\* evaluate_alert_rules in the session of e, which sees `seen`.
Evaluated(e, response, seen) ==
    LET ruled == e \in Rows /\ execution[e].job = Ruled IN
    [run[e] EXCEPT !.pc = "evaluated",
                   !.response = response,
                   !.rules = rule,
                   !.met = IF ruled THEN RulesMet(response, _count_consecutive_failures(seen)) ELSE {}]

Outcome(e, response) ==
    [execution[e] EXCEPT !.status = response.status, !.started_at = run[e].started_at]

\* Mutant of AnswerInline: last_run_at is written after the rules were evaluated.
AnswerInlineUnlocked(e, response) ==
    /\ mode = "inline"
    /\ run[e] # Idle /\ run[e].pc = "request"
    /\ run' = [run EXCEPT ![e] =
          Evaluated(e, response, [execution EXCEPT ![e] = Outcome(e, response)])]
    /\ UNCHANGED <<mode, now, job, execution, alerts, commits>>

\* run_job_http in inline mode: the rules are evaluated before the outcome is committed.
\* The first of their queries flushes last_run_at, so that the job's row is locked up to
\* the commit, and other attempts of the job wait for it.
AnswerInline(e, response) ==
    /\ mode = "inline"
    /\ run[e] # Idle /\ run[e].pc = "request"
    /\ \A f \in Rows : execution[f].job = execution[e].job => run[f].pc # "evaluated"
    /\ run' = [run EXCEPT ![e] =
          Evaluated(e, response, [execution EXCEPT ![e] = Outcome(e, response)])]
    /\ UNCHANGED <<mode, now, job, execution, alerts, commits>>

\* run_job_http in a worker: the outcome is committed at once.
AnswerCelery(e, response) ==
    /\ mode = "celery"
    /\ run[e] # Idle /\ run[e].pc = "request"
    /\ execution' = [execution EXCEPT ![e] = Outcome(e, response)]
    /\ run' = [run EXCEPT ![e].pc = "committed", ![e].response = response, ![e].began = now,
                          ![e].place = commits + 1]
    /\ commits' = commits + 1
    /\ UNCHANGED <<mode, now, job, alerts>>

MustRetry(e) == run[e].response.status \in Failed /\ run[e].attempt < MaxRetry

Retry(e) ==
    /\ run[e] # Idle /\ run[e].pc = "committed" /\ MustRetry(e)
    /\ e \in Rows
    /\ execution' = [execution EXCEPT ![e].status = "retrying"]
    /\ run' = [run EXCEPT ![e].pc = "queued", ![e].attempt = @ + 1]
    /\ UNCHANGED <<mode, now, job, alerts, commits>>

\* The row is gone when run_job_http refreshes it, or when the retry is written to it:
\* an error, with which the task ends.
FindNoRow(e) ==
    /\ run[e] # Idle /\ run[e].pc = "committed"
    /\ e \notin Rows
    /\ run' = [run EXCEPT ![e].pc = "ended"]
    /\ UNCHANGED <<mode, now, job, execution, alerts, commits>>

\* Also of an execution that is deleted after it was refreshed; its rules are gone, too.
EvaluateCelery(e) ==
    /\ run[e] # Idle /\ run[e].pc = "committed" /\ ~MustRetry(e)
    /\ run' = [run EXCEPT ![e] = Evaluated(e, run[e].response, execution)]
    /\ UNCHANGED <<mode, now, job, execution, alerts, commits>>

\* The commit of the alerts, in inline mode together with the outcome.  An alert's
\* created_at is the time its transaction began.
CommitAlerts(e) ==
    /\ run[e] # Idle /\ run[e].pc = "evaluated"
    /\ execution' = IF mode = "inline"
                    THEN [execution EXCEPT ![e] = Outcome(e, run[e].response)]
                    ELSE execution
    /\ alerts' = alerts \cup {[rule |-> r, execution |-> e, created_at |-> run[e].began] :
                                 r \in run[e].met}
    /\ run' = [run EXCEPT ![e].pc = "ended", ![e].response = <<>>, ![e].met = {},
                          ![e].place = IF mode = "inline" THEN commits + 1 ELSE @]
    /\ commits' = IF mode = "inline" THEN commits + 1 ELSE commits
    /\ UNCHANGED <<mode, now, job>>

\* A worker or the API process dies: what is not committed is gone.
Die(e) ==
    /\ ~Rests(e)
    /\ Cardinality({f \in RunIds : run[f] # Idle /\ run[f].pc = "lost"}) < MaxLost
    /\ run' = [run EXCEPT ![e].pc = "lost"]
    /\ UNCHANGED <<mode, now, job, execution, alerts, commits>>

AttemptStep ==
    \E e \in RunIds :
       \/ \E j \in Jobs : Queue(e, j)
       \/ StartAttempt(e) \/ Retry(e) \/ FindNoRow(e) \/ EvaluateCelery(e) \/ CommitAlerts(e)
       \/ Die(e)
       \/ \E response \in Responses : AnswerInline(e, response) \/ AnswerCelery(e, response)

HistoryStep ==
    \/ \E j \in Jobs : DeleteJob(j) /\ UNCHANGED callVars
    \/ (AttemptStep \/ \E j \in Jobs : CreateJob(j)) /\ UNCHANGED <<callVars, rule>>
    \/ RuleCall(Ruled \in JobRows) /\ UNCHANGED historyVars

---------------------------------------------------------------------------
\* services/http_runner.py:71, 147: when the last executions of a job, as many as an
\* enabled rule's threshold, have all failed, the one of them whose outcome was committed
\* last has raised the rule's alert, in whichever order they began, ended and were
\* evaluated, and although others of them died before.  It is required that this one has
\* not died before its alerts were committed, that it was evaluated against the rule as it
\* is now, and that the query looks at as many executions as the threshold.
StreakIsNoticed ==
    \A r \in RuleRows :
       LET rows == CompletedRows(execution)
           threshold == rule[r].condition_value
           streak == Newest(rows, threshold)
       IN  /\ rule[r].is_enabled
           /\ rule[r].condition_type = "consecutive_failures_gte"
           /\ threshold \in 1 .. Limit
           /\ Cardinality(streak) = threshold
           /\ \A e \in streak : rows[e].status \in Failed
           => \A e \in streak :
                 /\ \A f \in streak \ {e} : run[f].place < run[e].place
                 /\ run[e].pc = "ended" /\ run[e].rules[r] = rule[r]
                 => \E a \in alerts : a.rule = r /\ a.execution = e
===========================================================================
