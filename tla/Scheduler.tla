----------------------------- MODULE Scheduler -----------------------------
(***************************************************************************)
(* The in-process scheduler of the API (services/scheduler.py) and the     *)
(* requests that change jobs (api/jobs.py).  PostgreSQL keeps the job rows *)
(* and survives; APScheduler keeps its entries in memory and is loaded     *)
(* from the rows when the API starts.  A request commits the row, reads it *)
(* back, and only then changes the entry, so the two can part; a firing    *)
(* entry reads the row again before it runs anything.                      *)
(*                                                                         *)
(* A schedule (schedule_type with schedule_expression) is "manual", a      *)
(* valid one of ValidSchedules, "bad" (_parse_trigger raises ValueError)   *)
(* or "huge" (an interval that timedelta cannot hold: OverflowError).      *)
(***************************************************************************)
EXTENDS Integers

CONSTANTS
    Jobs,            \* ids of jobs, each created at most once
    Requests,        \* slots for API requests under way at the same time
    ValidSchedules,  \* interval and cron schedules that parse
    OddSchedules,    \* those of "manual", "bad" and "huge" that jobs may get
    MaxRequests,     \* bound on the number of requests
    MaxAborts        \* bound on crashes of the API process

ASSUME ScheduleAssumption ==
    /\ OddSchedules \subseteq {"manual", "bad", "huge"}
    /\ ValidSchedules \cap {"manual", "bad", "huge", "none"} = {}
ASSUME BoundAssumption == MaxRequests \in Nat /\ MaxAborts \in Nat

Schedules == ValidSchedules \cup OddSchedules
Row == [status : {"active", "paused"}, schedule : Schedules,
        next_run_at : ValidSchedules \cup {"none"}]   \* of which schedule it is
NoRow == [status |-> "none"]

\* A request: what it does to which job, the row it loaded or read back.
Request == [pc : {"write", "delete", "refresh", "schedule",
                  "unschedule", "next"},
            job : Jobs, updates : [status : {"active", "paused"}, schedule : Schedules],
            row : Row \cup {NoRow}, next : ValidSchedules \cup {"none"}]

VARIABLES
    row,      \* committed job rows
    used,     \* jobs whose id has been given away
    up,       \* the API process is running
    entry,    \* APScheduler's entries: the schedule of a job, or "none"
    request,  \* the requests under way; <<>> in a free slot
    firing,   \* _run_scheduled_job: where it is, per job
    next,     \* the next_run_time a firing is about to store
    late,     \* history: scheduled executions created since the job was paused
    raced,    \* history: the requests that overlap another one for the same job
    apart,    \* history: the jobs whose entries may differ from their rows
    requests, aborts

history == <<raced, apart>>
vars == <<row, used, up, entry, request, firing, next, late, raced, apart, requests, aborts>>

Free == <<>>
Exists(j) == row[j] # NoRow

Init ==
    /\ row = [j \in Jobs |-> NoRow]
    /\ used = {}
    /\ up = FALSE
    /\ entry = [j \in Jobs |-> "none"]
    /\ request = [r \in Requests |-> Free]
    /\ firing = [j \in Jobs |-> "idle"]
    /\ next = [j \in Jobs |-> "none"]
    /\ late = [j \in Jobs |-> 0]
    /\ raced = {}
    /\ apart = {}
    /\ requests = 0
    /\ aborts = 0

---------------------------------------------------------------------------
\* The entry a job should have.
Wanted(r) == IF r # NoRow /\ r.status = "active" /\ r.schedule \in ValidSchedules
             THEN r.schedule ELSE "none"

\* Mutant of ScheduleJob: expressions are not parsed first.
ScheduleJobUnparsed(old, r) ==
    IF r.schedule = "manual" \/ r.status # "active" THEN "none"
    ELSE r.schedule

\* Mutant of ScheduleJob: only manual jobs are unscheduled.
ScheduleJobKeepsPaused(old, r) ==
    IF r.schedule = "manual" THEN "none"
    ELSE IF r.schedule \in ValidSchedules THEN r.schedule
    ELSE old

\* schedule_job: a job without a schedule or not active loses its entry, a
\* valid one gets it or replaces it, and an invalid one keeps what it has.
ScheduleJob(old, r) ==
    IF r.schedule = "manual" \/ r.status # "active" THEN "none"
    ELSE IF r.schedule \in ValidSchedules THEN r.schedule
    ELSE old

\* Mutant of Start: the jobs are not loaded.
StartEmpty ==
    /\ ~up
    /\ up' = TRUE
    /\ LET Active == {j \in Jobs : Exists(j) /\ row[j].status = "active"}
           Huge == {j \in Active : row[j].schedule = "huge"}
       IN \E reached \in IF Huge = {} THEN {Active} ELSE SUBSET (Active \ Huge) :
             /\ entry' = [j \in Jobs |-> "none"]
             /\ apart' = (Active \ Huge) \ reached
    /\ UNCHANGED <<row, used, request, firing, next, late, raced, requests, aborts>>

\* load_scheduled_jobs, for the rows in an order the database chooses; an
\* OverflowError ends it and is only logged, so any subset of the other jobs
\* may have been reached.  (The database answers: the container runs its
\* migrations first.)
Start ==
    /\ ~up
    /\ up' = TRUE
    /\ LET Active == {j \in Jobs : Exists(j) /\ row[j].status = "active"}
           Huge == {j \in Active : row[j].schedule = "huge"}
       IN \E reached \in IF Huge = {} THEN {Active} ELSE SUBSET (Active \ Huge) :
             /\ entry' = [j \in Jobs |-> IF j \in reached THEN ScheduleJob("none", row[j])
                                                          ELSE "none"]
             /\ apart' = (Active \ Huge) \ reached
    /\ UNCHANGED <<row, used, request, firing, next, late, raced, requests, aborts>>

\* The API process ends: entries, requests and firings are gone.
Crash ==
    /\ up
    /\ aborts < MaxAborts
    /\ up' = FALSE
    /\ entry' = [j \in Jobs |-> "none"]
    /\ request' = [r \in Requests |-> Free]
    /\ firing' = [j \in Jobs |-> "idle"]
    /\ next' = [j \in Jobs |-> "none"]
    /\ aborts' = aborts + 1
    /\ raced' = {}
    /\ UNCHANGED <<row, used, late, apart, requests>>

---------------------------------------------------------------------------
Begin(r, new) ==
    /\ up
    /\ request[r] = Free
    /\ requests < MaxRequests
    /\ requests' = requests + 1
    /\ request' = [request EXCEPT ![r] = new]
    /\ LET others == {s \in Requests \ {r} : request[s] # Free /\ request[s].job = new.job} IN
       IF others = {}
       THEN UNCHANGED history
       ELSE raced' = raced \cup {r} \cup others /\ apart' = apart \cup {new.job}

Continue(r, pc) == request' = [request EXCEPT ![r].pc = pc] /\ UNCHANGED raced
Answer(r) == request' = [request EXCEPT ![r] = Free] /\ raced' = raced \ {r}

\* A request that is alone leaves the entry as the row asks for it.
Settles(r) == apart' = IF r \in raced THEN apart ELSE apart \ {request[r].job}
At(r, pc) == request[r] # Free /\ request[r].pc = pc

\* POST /jobs: the row is committed as active.
CreateJob(r, j, s) ==
    /\ j \notin used
    /\ LET new == [status |-> "active", schedule |-> s, next_run_at |-> "none"]
       IN /\ Begin(r, [pc |-> "refresh", job |-> j, row |-> new, next |-> "none",
                       updates |-> [status |-> "active", schedule |-> s]])
          /\ row' = [row EXCEPT ![j] = new]
    /\ used' = used \cup {j}
    /\ UNCHANGED <<up, entry, firing, next, late, aborts>>

\* PATCH /jobs/{id}: the row is loaded ...
LoadForUpdate(r, j, u) ==
    /\ Exists(j)
    /\ Begin(r, [pc |-> "write", job |-> j, row |-> row[j], updates |-> u,
                 next |-> "none"])
    /\ UNCHANGED <<row, used, up, entry, firing, next, late, aborts>>

\* ... and the columns that differ from what was loaded are written.  Without
\* the row the flush raises StaleDataError, or the refresh fails.
WriteUpdate(r) ==
    /\ At(r, "write")
    /\ LET j == request[r].job
           u == request[r].updates
           was == request[r].row
       IN IF Exists(j)
          THEN /\ row' = [row EXCEPT
                    ![j].status = IF u.status # was.status THEN u.status ELSE @,
                    ![j].schedule = IF u.schedule # was.schedule THEN u.schedule ELSE @]
               /\ Continue(r, "refresh")
          ELSE Answer(r) /\ UNCHANGED row
    /\ late' = [j \in Jobs |-> IF Exists(j) /\ row'[j].status # row[j].status
                              THEN 0 ELSE late[j]]
    /\ UNCHANGED <<used, up, entry, firing, next, apart, requests, aborts>>

\* session.refresh(job): what schedule_job will be given.
Refresh(r) ==
    /\ At(r, "refresh")
    /\ IF Exists(request[r].job)
       THEN /\ request' = [request EXCEPT ![r].pc = "schedule",
                                          ![r].row = row[request[r].job]]
            /\ UNCHANGED raced
       ELSE Answer(r)
    /\ UNCHANGED <<row, used, up, entry, firing, next, late, apart, requests, aborts>>

\* schedule_job(job); the request fails with a huge interval, and is over when
\* there is no next run to store.
CallScheduleJob(r) ==
    /\ At(r, "schedule")
    /\ LET j == request[r].job
           to == ScheduleJob(entry[j], request[r].row)
       IN /\ entry' = [entry EXCEPT ![j] = to]
          /\ IF Wanted(request[r].row) # "none"
             THEN request' = [request EXCEPT ![r].pc = "next", ![r].next = to] /\ UNCHANGED raced
             ELSE Answer(r)
    /\ Settles(r)
    /\ UNCHANGED <<row, used, up, firing, next, late, requests, aborts>>

\* job.next_run_at is committed; without the row the commit fails.
StoreNextRun(r) ==
    /\ At(r, "next")
    /\ row' = IF Exists(request[r].job)
              THEN [row EXCEPT ![request[r].job].next_run_at = request[r].next]
              ELSE row
    /\ Answer(r)
    /\ UNCHANGED <<used, up, entry, firing, next, late, apart, requests, aborts>>

\* DELETE /jobs/{id}: the row is loaded, deleted and committed, then
\* unschedule_job is called.
LoadForDelete(r, j) ==
    /\ Exists(j)
    /\ Begin(r, [pc |-> "delete", job |-> j, row |-> row[j], next |-> "none",
                 updates |-> [status |-> row[j].status, schedule |-> row[j].schedule]])
    /\ UNCHANGED <<row, used, up, entry, firing, next, late, aborts>>

DeleteRow(r) ==
    /\ At(r, "delete")
    /\ row' = [row EXCEPT ![request[r].job] = NoRow]
    /\ late' = [late EXCEPT ![request[r].job] = 0]
    /\ Continue(r, "unschedule")
    /\ UNCHANGED <<used, up, entry, firing, next, apart, requests, aborts>>

UnscheduleJob(r) ==
    /\ At(r, "unschedule")
    /\ entry' = [entry EXCEPT ![request[r].job] = "none"]
    /\ Settles(r)
    /\ Answer(r)
    /\ UNCHANGED <<row, used, up, firing, next, late, requests, aborts>>

---------------------------------------------------------------------------
\* APScheduler fires an entry; max_instances = 1 lets one run at a time.
Fire(j) ==
    /\ up
    /\ entry[j] # "none"
    /\ firing[j] = "idle"
    /\ firing' = [firing EXCEPT ![j] = "read"]
    /\ UNCHANGED <<row, used, up, entry, request, next, late, history, requests, aborts>>

\* Mutant of ReadJob: a paused job is run.
ReadJobUnchecked(j) ==
    /\ firing[j] = "read"
    /\ firing' = [firing EXCEPT ![j] =
          IF Exists(j) THEN "enqueue" ELSE "idle"]
    /\ UNCHANGED <<row, used, up, entry, request, next, late, history, requests, aborts>>

\* _run_scheduled_job skips a job that is gone or not active.
ReadJob(j) ==
    /\ firing[j] = "read"
    /\ firing' = [firing EXCEPT ![j] =
          IF Exists(j) /\ row[j].status = "active" THEN "enqueue" ELSE "idle"]
    /\ UNCHANGED <<row, used, up, entry, request, next, late, history, requests, aborts>>

\* enqueue_job_execution; the foreign key refuses the execution of a deleted job.  When
\* the broker does not take the task (`delay` raises), or the inline run fails, the row is
\* committed and the firing is over.
Enqueue(j) ==
    /\ firing[j] = "enqueue"
    /\ IF Exists(j)
       THEN /\ \E after \in {"next", "idle"} : firing' = [firing EXCEPT ![j] = after]
            /\ late' = [late EXCEPT ![j] = IF row[j].status = "active" THEN 0 ELSE @ + 1]
       ELSE firing' = [firing EXCEPT ![j] = "idle"] /\ UNCHANGED late
    /\ UNCHANGED <<row, used, up, entry, request, next, history, requests, aborts>>

\* The entry's next run time is taken and the row loaded again ...
ReadNextRun(j) ==
    /\ firing[j] = "next"
    /\ firing' = [firing EXCEPT ![j] =
          IF entry[j] # "none" /\ Exists(j) THEN "store" ELSE "idle"]
    /\ next' = [next EXCEPT ![j] = IF firing'[j] = "store" THEN entry[j] ELSE "none"]
    /\ UNCHANGED <<row, used, up, entry, request, late, history, requests, aborts>>

\* ... and next_run_at is committed.
CommitNextRun(j) ==
    /\ firing[j] = "store"
    /\ row' = IF Exists(j) THEN [row EXCEPT ![j].next_run_at = next[j]] ELSE row
    /\ firing' = [firing EXCEPT ![j] = "idle"]
    /\ next' = [next EXCEPT ![j] = "none"]
    /\ UNCHANGED <<used, up, entry, request, late, history, requests, aborts>>

---------------------------------------------------------------------------
RequestStep(r) ==
    \/ WriteUpdate(r)
    \/ Refresh(r)
    \/ CallScheduleJob(r)
    \/ StoreNextRun(r)
    \/ DeleteRow(r)
    \/ UnscheduleJob(r)

FiringStep(j) ==
    \/ ReadJob(j)
    \/ Enqueue(j)
    \/ ReadNextRun(j)
    \/ CommitNextRun(j)

Next ==
    \/ Start \/ Crash
    \/ \E r \in Requests :
          \/ \E j \in Jobs, s \in Schedules : CreateJob(r, j, s)
          \/ \E j \in Jobs, u \in [status : {"active", "paused"}, schedule : Schedules] :
                LoadForUpdate(r, j, u)
          \/ \E j \in Jobs : LoadForDelete(r, j)
          \/ RequestStep(r)
    \/ \E j \in Jobs : Fire(j) \/ FiringStep(j)

Spec == Init /\ [][Next]_vars

\* Fairness: the container is restarted, requests and firings go on, and
\* APScheduler fires the entries it has.
Fairness ==
    /\ WF_vars(Start)
    /\ \A r \in Requests : WF_vars(RequestStep(r))
    /\ \A j \in Jobs : WF_vars(Fire(j)) /\ WF_vars(FiringStep(j))

FairSpec == Spec /\ Fairness

---------------------------------------------------------------------------
TypeOK ==
    /\ row \in [Jobs -> Row \cup {NoRow}]
    /\ used \subseteq Jobs
    /\ up \in BOOLEAN
    /\ entry \in [Jobs -> ValidSchedules \cup {"none"}]
    /\ request \in [Requests -> Request \cup {Free}]
    /\ firing \in [Jobs -> {"idle", "read", "enqueue", "next", "store"}]
    /\ next \in [Jobs -> ValidSchedules \cup {"none"}]
    /\ late \in [Jobs -> Nat]
    /\ raced \subseteq Requests /\ apart \subseteq Jobs
    /\ requests \in 0 .. MaxRequests
    /\ aborts \in 0 .. MaxAborts

AtRest(j) == up /\ \A r \in Requests : request[r] # Free => request[r].job # j

\* services/scheduler.py:62, api/jobs.py:156: when no request for a job is under way, its
\* entry is what its row asks for: active jobs have theirs, paused and deleted ones none.
\* Only requests for the job that overlap, or a start that did not reach it, can undo this,
\* and only up to the next start that reaches it or the next request that is alone.
EntryMatchesRow ==
    \A j \in Jobs \ apart :
        AtRest(j) /\ (Exists(j) => row[j].schedule \notin {"bad", "huge"}) =>
            entry[j] = Wanted(row[j])

\* services/scheduler.py:45: whatever entries are left over, after a job is paused the
\* scheduler creates at most one more execution of it, that of a firing which had read the
\* row.
PauseHolds == \A j \in Jobs : late[j] <= 1

\* services/scheduler.py:132: a job that stays active with a valid schedule, and not apart
\* from its entry, is run again and again, through the crashes and restarts of the API.
KeepsRunning ==
    \A j \in Jobs :
        <>[](Wanted(row[j]) # "none" /\ j \notin apart) => []<>(firing[j] = "enqueue")

===========================================================================
