----------------------------- MODULE Summaries -----------------------------
(***************************************************************************)
(* What is read from the execution history: a report of api/reports.py or  *)
(* the statistics of api/stats.py.  Either is put together from several    *)
(* statements, each of which sees what is committed at its time (READ      *)
(* COMMITTED), while executions go on.  Averages, rates and the other      *)
(* counts are left out; of a count the model keeps which rows are in it.    *)
(***************************************************************************)
EXTENDS ExecutionHistory

CONSTANTS
    Day,   \* the length of a day: 24 hours
    Days,  \* the days of the statistics: 7
    Periods  \* [start, end] of POST /reports/generate

ASSUME SummaryAssumption ==
    /\ Day \in Nat \ {0} /\ Days \in Nat \ {0}
    /\ \A p \in Periods : p.start \in Nat /\ p.end \in Nat /\ p.start <= p.end

VARIABLES
    summary  \* None, or the one report or answer

vars == <<callVars, rule, historyVars, summary>>

Init ==
    /\ up = TRUE
    /\ InitCalls
    /\ rule = [r \in RuleIds |-> None]
    /\ InitHistory
    /\ summary = None

\* One statement after the other.
Starts(pc, start, end) ==
    /\ summary = None
    /\ summary' = [pc |-> pc, now |-> now, start |-> start, end |-> end, jobs |-> JobRows,
                   failures |-> {}, successes |-> {}, daily |-> <<>>,
                   rows |-> {}, alerts |-> {}]
    /\ UNCHANGED <<callVars, rule, historyVars>>

Reads(pc, changed) ==
    /\ summary # None /\ summary.pc = pc
    /\ summary' = changed
    /\ UNCHANGED <<callVars, rule, historyVars>>

DayOf(time) == time \div Day
StartedSince(time) == {e \in Rows : execution[e].started_at >= time}
InStatus(rows, statuses) == {e \in rows : execution[e].status \in statuses}

---------------------------------------------------------------------------
\* GET /stats: `now` is taken once.
BeginStats == Starts("failures_24h", now - Day, now)

\* Mutant of CountFailures: whatever is no success is a failure.
CountUnsuccessful ==
    Reads("failures_24h",
          [summary EXCEPT !.pc = "successes_24h",
                          !.failures = InStatus(StartedSince(summary.start), Failed \cup {"queued", "retrying"})])

CountFailures ==
    Reads("failures_24h",
          [summary EXCEPT !.pc = "successes_24h",
                          !.failures = InStatus(StartedSince(summary.start), Failed)])

CountSuccesses ==
    Reads("successes_24h",
          [summary EXCEPT !.pc = "daily_stats",
                          !.successes = InStatus(StartedSince(summary.start), {"success"})])

\* Today and the days before it, in UTC.
ListedDays(today) == {DayOf(today) - i : i \in 0 .. Days - 1}

\* Mutant of CountDays: one day less is selected.
CountDaysShort ==
    LET rows == StartedSince(summary.now - (Days - 1) * Day)
        on(day, statuses) ==
           InStatus({e \in rows : DayOf(execution[e].started_at) = day}, statuses)
    IN  Reads("daily_stats",
              [summary EXCEPT !.pc = "answered",
                              !.daily = [day \in ListedDays(summary.now) |->
                                 [success |-> on(day, {"success"}), failure |-> on(day, Failed)]]])

\* The executions of the last `Days` times 24 hours, by the calendar day.
CountDays ==
    LET rows == StartedSince(summary.now - Days * Day)
        on(day, statuses) ==
           InStatus({e \in rows : DayOf(execution[e].started_at) = day}, statuses)
    IN  Reads("daily_stats",
              [summary EXCEPT !.pc = "answered",
                              !.daily = [day \in ListedDays(summary.now) |->
                                 [success |-> on(day, {"success"}), failure |-> on(day, Failed)]]])

---------------------------------------------------------------------------
\* POST /reports/generate.
BeginReport(period) == Starts("report_executions", period.start, period.end)

InPeriod(time) == summary.start <= time /\ time <= summary.end

ReadExecutions ==
    Reads("report_executions",
          [summary EXCEPT !.pc = "report_alerts",
                          !.rows = {[id |-> e, job |-> execution[e].job, status |-> execution[e].status] :
                                      e \in {f \in Rows : InPeriod(execution[f].started_at)}}])

ReadAlerts ==
    Reads("report_alerts",
          [summary EXCEPT !.pc = "generated", !.alerts = {a \in alerts : InPeriod(a.created_at)}])

Summarise ==
    \/ BeginStats \/ CountFailures \/ CountSuccesses \/ CountDays
    \/ \E period \in Periods : BeginReport(period)
    \/ ReadExecutions \/ ReadAlerts

Next ==
    \/ HistoryStep /\ UNCHANGED summary
    \/ Summarise

Spec == Init /\ [][Next]_vars

---------------------------------------------------------------------------
\* api/stats.py:39-70, api/reports.py:58-89: what the statements of a summary, read one
\* after the other, still promise together.  Only an execution that was retried counts as
\* failure and as success at once.  A report names the job of every execution unless the
\* job was created meanwhile; in inline mode it lists the alerts of the outcomes it lists, but for those whose
\* transaction began before the period.
SummaryAddsUp ==
    summary # None =>
       /\ summary.pc = "answered" =>
             \A e \in summary.failures \cap summary.successes : run[e].attempt > 0
       /\ summary.pc = "generated" =>
             \A row \in summary.rows :
                /\ \/ row.job \in summary.jobs
                   \/ job[row.job] = None \/ job[row.job].created_at >= summary.now
                /\ \A a \in alerts :
                      /\ mode = "inline" /\ row.status \in Completed
                      /\ a.execution = row.id /\ a.created_at >= summary.start
                      => a \in summary.alerts

\* api/stats.py:79-109: for each day it lists, the answer counts all executions that began
\* on that day and are completed by then: the window of whole days back from now never
\* cuts a listed day short.
DaysAreComplete ==
    [][summary # None =>
       \A day \in ListedDays(summary.now) :
          summary.pc = "daily_stats" /\ summary'.pc = "answered" =>
             LET began == {e \in Rows : DayOf(execution[e].started_at) = day} IN
             /\ summary'.daily[day].success = InStatus(began, {"success"})
             /\ summary'.daily[day].failure = InStatus(began, Failed)]_summary
===========================================================================
