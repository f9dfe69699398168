-------------------------- MODULE SchedulerProofs --------------------------
(***************************************************************************)
(* Proofs about Scheduler, for every set of jobs, slots and schedules and  *)
(* every bound.                                                            *)
(***************************************************************************)
EXTENDS Scheduler, TLAPS

Statuses == {"active", "paused"}
Runs == ValidSchedules \cup {"none"}   \* values of entries and of next_run_at

\* A paused job may have had one execution created since, unless a firing has seen
\* it active and is about to create one; an active job has had none.
PauseInv ==
    \A j \in Jobs :
        /\ late[j] <= 1
        /\ Exists(j) => j \in used
        /\ Exists(j) /\ row[j].status = "active" => late[j] = 0
        /\ ~Exists(j) => late[j] = 0
        /\ firing[j] = "enqueue" => late[j] = 0

---------------------------------------------------------------------------
LEMMA InitType == Init => TypeOK /\ PauseInv
<1>. SUFFICES ASSUME Init PROVE TypeOK /\ PauseInv
  OBVIOUS
<1>1. 0 \in 0 .. MaxRequests /\ 0 \in 0 .. MaxAborts
  BY BoundAssumption
<1>2. TypeOK
  BY <1>1 DEF Init, TypeOK, Free
<1>3. PauseInv
  <2>1. ASSUME NEW j \in Jobs
        PROVE  late[j] = 0 /\ late[j] <= 1 /\ ~Exists(j)
    BY DEF Init, Exists
  <2>. QED  BY <2>1, Zenon DEF PauseInv
<1>. QED  BY <1>2, <1>3

LEMMA NoRowApart == NoRow \notin Row
BY DEF NoRow, Row

LEMMA RequestNotFree == ASSUME NEW q \in Request PROVE q # Free
BY DEF Request, Free

LEMMA RowFields ==
    ASSUME TypeOK, NEW j \in Jobs, Exists(j)
    PROVE  row[j] \in Row /\ row[j].status \in Statuses /\ row[j].schedule \in Schedules
BY DEF TypeOK, Exists, Row, Statuses

\* Every entry schedule_job leaves is "none", a valid schedule, or the one before.
LEMMA ScheduleJobType ==
    ASSUME NEW old \in Runs, NEW r PROVE ScheduleJob(old, r) \in Runs
BY DEF ScheduleJob, Runs

LEMMA InSlot ==
    ASSUME TypeOK, NEW r \in Requests, request[r] # Free
    PROVE  /\ request[r] \in Request
           /\ request[r].job \in Jobs
           /\ request[r].next \in Runs
           /\ request[r].updates.status \in Statuses
           /\ request[r].updates.schedule \in Schedules
<1>1. request[r] \in Request
  BY DEF TypeOK
<1>. QED  BY <1>1 DEF Request, Runs, Statuses

\* The slot of a request after an answer, ...
LEMMA SlotAnswered ==
    ASSUME TypeOK, NEW r \in Requests, Answer(r)
    PROVE  request' \in [Requests -> Request \cup {Free}]
BY DEF Answer, TypeOK

\* ... after going on as it is, ...
LEMMA SlotContinued ==
    ASSUME TypeOK, NEW r \in Requests, request[r] # Free,
           NEW pc \in {"refresh", "unschedule"}, Continue(r, pc)
    PROVE  request' \in [Requests -> Request \cup {Free}]
<1>. DEFINE t == [request[r] EXCEPT !.pc = pc]
<1>1. t \in Request
  BY InSlot DEF Request
<1>2. request' = [request EXCEPT ![r] = t]
  BY DEF Continue
<1>. HIDE DEF t
<1>. QED  BY <1>1, <1>2 DEF TypeOK

\* ... with the row read back, ...
LEMMA SlotRefreshed ==
    ASSUME TypeOK, NEW r \in Requests, request[r] # Free, NEW was \in Row,
           request' = [request EXCEPT ![r].pc = "schedule", ![r].row = was]
    PROVE  request' \in [Requests -> Request \cup {Free}]
<1>. DEFINE t == [request[r] EXCEPT !.pc = "schedule", !.row = was]
<1>1. t \in Request
  BY InSlot DEF Request
<1>2. request' = [request EXCEPT ![r] = t]
  BY DEF TypeOK
<1>. HIDE DEF t
<1>. QED  BY <1>1, <1>2 DEF TypeOK

\* ... and with the run to be stored.
LEMMA SlotScheduled ==
    ASSUME TypeOK, NEW r \in Requests, request[r] # Free, NEW to \in Runs,
           request' = [request EXCEPT ![r].pc = "next", ![r].next = to]
    PROVE  request' \in [Requests -> Request \cup {Free}]
<1>. DEFINE t == [request[r] EXCEPT !.pc = "next", !.next = to]
<1>1. t \in Request
  BY InSlot DEF Request, Runs
<1>2. request' = [request EXCEPT ![r] = t]
  BY DEF TypeOK
<1>. HIDE DEF t
<1>. QED  BY <1>1, <1>2 DEF TypeOK

\* A new request.
LEMMA BeginType ==
    ASSUME TypeOK, NEW r \in Requests, NEW new \in Request, Begin(r, new)
    PROVE  /\ request' \in [Requests -> Request \cup {Free}]
           /\ requests' \in 0 .. MaxRequests
           /\ raced' \subseteq Requests /\ apart' \subseteq Jobs
<1>1. new.job \in Jobs
  BY DEF Request
<1>. QED  BY <1>1, BoundAssumption DEF Begin, TypeOK, history

\* No request makes others race but by its beginning.
LEMMA HistoryShrinks ==
    ASSUME NEW r \in Requests, RequestStep(r)
    PROVE  /\ raced' = raced \/ (raced' = raced \ {r} /\ Answer(r))
           /\ apart' \subseteq apart
BY DEF RequestStep, WriteUpdate, Refresh, CallScheduleJob, StoreNextRun, DeleteRow,
       UnscheduleJob, Continue, Answer, Settles

\* Storing a next run time changes nothing else of a row.
LEMMA NextRunStored ==
    ASSUME TypeOK, NEW j \in Jobs, NEW n \in Runs,
           row' = IF Exists(j) THEN [row EXCEPT ![j].next_run_at = n] ELSE row
    PROVE  /\ row' \in [Jobs -> Row \cup {NoRow}]
           /\ \A i \in Jobs : Exists(i)' = Exists(i)
           /\ \A i \in Jobs : Exists(i) => /\ row'[i].status = row[i].status
                                           /\ row'[i].schedule = row[i].schedule
<1>1. CASE ~Exists(j)
  BY <1>1 DEF TypeOK, Exists
<1>2. CASE Exists(j)
  <2>. DEFINE t == [row[j] EXCEPT !.next_run_at = n]
  <2>1. row[j] \in Row
    BY <1>2, RowFields
  <2>2. t \in Row /\ t.status = row[j].status /\ t.schedule = row[j].schedule
    BY <2>1 DEF Row, Runs
  <2>3. row' = [row EXCEPT ![j] = t]
    BY <1>2
  <2>. HIDE DEF t
  <2>. QED  BY <1>2, <2>2, <2>3, NoRowApart DEF TypeOK, Exists
<1>. QED  BY <1>1, <1>2

---------------------------------------------------------------------------
LEMMA TypeStep == TypeOK /\ [Next]_vars => TypeOK'
<1>. SUFFICES ASSUME TypeOK, [Next]_vars PROVE TypeOK'
  OBVIOUS
<1>. USE DEF Statuses, Runs
<1>0. ASSUME NEW r \in Requests, RequestStep(r)
      PROVE  raced' \subseteq Requests /\ apart' \subseteq Jobs
  BY <1>0, HistoryShrinks DEF TypeOK
<1>1. CASE Start
  <2>1. entry' \in [Jobs -> Runs]
    BY <1>1, ScheduleJobType DEF Start
  <2>2. apart' \subseteq Jobs
    BY <1>1 DEF Start
  <2>. QED  BY <1>1, <2>1, <2>2 DEF Start, TypeOK
<1>2. CASE Crash
  <2>1. aborts' \in 0 .. MaxAborts
    BY <1>2, BoundAssumption DEF Crash, TypeOK
  <2>. QED  BY <1>2, <2>1 DEF Crash, TypeOK
<1>3. ASSUME NEW r \in Requests, NEW j \in Jobs, NEW s \in Schedules, CreateJob(r, j, s)
      PROVE  TypeOK'
  <2>. DEFINE new == [status |-> "active", schedule |-> s, next_run_at |-> "none"]
              q == [pc |-> "refresh", job |-> j, row |-> new, next |-> "none",
                    updates |-> [status |-> "active", schedule |-> s]]
  <2>1. new \in Row
    BY DEF Row
  <2>2. q \in Request
    BY <2>1 DEF Request
  <2>3. Begin(r, q) /\ row' = [row EXCEPT ![j] = new]
    BY <1>3 DEF CreateJob
  <2>. HIDE DEF new, q
  <2>. QED  BY <1>3, <2>1, <2>2, <2>3, BeginType DEF CreateJob, TypeOK
<1>4. ASSUME NEW r \in Requests, NEW j \in Jobs,
             NEW u \in [status : Statuses, schedule : Schedules], LoadForUpdate(r, j, u)
      PROVE  TypeOK'
  <2>. DEFINE q == [pc |-> "write", job |-> j, row |-> row[j], updates |-> u,
                    next |-> "none"]
  <2>1. q \in Request
    BY DEF Request, TypeOK
  <2>2. Begin(r, q)
    BY <1>4 DEF LoadForUpdate
  <2>. HIDE DEF q
  <2>. QED  BY <1>4, <2>1, <2>2, BeginType DEF LoadForUpdate, TypeOK
<1>5. ASSUME NEW r \in Requests, NEW j \in Jobs, LoadForDelete(r, j)
      PROVE  TypeOK'
  <2>. DEFINE q == [pc |-> "delete", job |-> j, row |-> row[j], next |-> "none",
                    updates |-> [status |-> row[j].status, schedule |-> row[j].schedule]]
  <2>1. row[j] \in Row /\ row[j].status \in Statuses /\ row[j].schedule \in Schedules
    BY <1>5, RowFields DEF LoadForDelete
  <2>2. q \in Request
    BY <2>1 DEF Request
  <2>3. Begin(r, q)
    BY <1>5 DEF LoadForDelete
  <2>. HIDE DEF q
  <2>. QED  BY <1>5, <2>2, <2>3, BeginType DEF LoadForDelete, TypeOK
<1>6. ASSUME NEW r \in Requests, WriteUpdate(r) PROVE TypeOK'
  <2>. DEFINE j == request[r].job
              u == request[r].updates
              was == request[r].row
              t == [row[j] EXCEPT
                     !.status = IF u.status # was.status THEN u.status ELSE @,
                     !.schedule = IF u.schedule # was.schedule THEN u.schedule ELSE @]
  <2>1. request[r] # Free /\ j \in Jobs /\ u.status \in Statuses /\ u.schedule \in Schedules
    BY <1>6, InSlot DEF WriteUpdate, At
  <2>2. Exists(j) => t \in Row
    BY <2>1, RowFields DEF Row
  <2>3. \/ Exists(j) /\ row' = [row EXCEPT ![j] = t] /\ Continue(r, "refresh")
        \/ row' = row /\ Answer(r)
    BY <1>6, <2>1 DEF WriteUpdate, TypeOK
  <2>4. request' \in [Requests -> Request \cup {Free}]
    BY <2>1, <2>3, SlotAnswered, SlotContinued
  <2>5. late' \in [Jobs -> Nat]
    BY <1>6 DEF WriteUpdate, TypeOK
  <2>. HIDE DEF t, j
  <2>6. row' \in [Jobs -> Row \cup {NoRow}]
    BY <2>1, <2>2, <2>3 DEF TypeOK
  <2>. QED  BY <1>0, <1>6, <2>4, <2>5, <2>6 DEF RequestStep, WriteUpdate, TypeOK
<1>7. ASSUME NEW r \in Requests, Refresh(r) PROVE TypeOK'
  <2>1. request[r] # Free /\ request[r].job \in Jobs
    BY <1>7, InSlot DEF Refresh, At
  <2>2. request' \in [Requests -> Request \cup {Free}]
    <3>1. CASE Exists(request[r].job)
      <4>. DEFINE was == row[request[r].job]
      <4>1. was \in Row
        BY <2>1, <3>1, RowFields
      <4>2. request' = [request EXCEPT ![r].pc = "schedule", ![r].row = was]
        BY <1>7, <3>1 DEF Refresh
      <4>. HIDE DEF was
      <4>. QED  BY <2>1, <4>1, <4>2, SlotRefreshed
    <3>2. CASE ~Exists(request[r].job)
      BY <1>7, <3>2, SlotAnswered DEF Refresh
    <3>. QED  BY <3>1, <3>2
  <2>. QED  BY <1>0, <1>7, <2>2 DEF RequestStep, Refresh, TypeOK
<1>8. ASSUME NEW r \in Requests, CallScheduleJob(r) PROVE TypeOK'
  <2>. DEFINE to == ScheduleJob(entry[request[r].job], request[r].row)
  <2>1. request[r] # Free /\ request[r].job \in Jobs
    BY <1>8, InSlot DEF CallScheduleJob, At
  <2>2. to \in Runs
    BY <2>1, ScheduleJobType DEF TypeOK
  <2>3. /\ entry' = [entry EXCEPT ![request[r].job] = to]
        /\ \/ request' = [request EXCEPT ![r].pc = "next", ![r].next = to]
           \/ Answer(r)
    BY <1>8 DEF CallScheduleJob
  <2>. HIDE DEF to
  <2>4. request' \in [Requests -> Request \cup {Free}]
    BY <2>1, <2>2, <2>3, SlotAnswered, SlotScheduled
  <2>. QED  BY <1>0, <1>8, <2>1, <2>2, <2>3, <2>4 DEF RequestStep, CallScheduleJob, TypeOK
<1>9. ASSUME NEW r \in Requests, StoreNextRun(r) PROVE TypeOK'
  <2>1. request[r] # Free /\ request[r].job \in Jobs /\ request[r].next \in Runs
    BY <1>9, InSlot DEF StoreNextRun, At
  <2>2. row' \in [Jobs -> Row \cup {NoRow}]
    BY <1>9, <2>1, NextRunStored DEF StoreNextRun
  <2>3. request' \in [Requests -> Request \cup {Free}]
    BY <1>9, SlotAnswered DEF StoreNextRun
  <2>. QED  BY <1>0, <1>9, <2>2, <2>3 DEF RequestStep, StoreNextRun, TypeOK
<1>10. ASSUME NEW r \in Requests, DeleteRow(r) PROVE TypeOK'
  <2>1. request[r] # Free
    BY <1>10 DEF DeleteRow, At
  <2>2. request' \in [Requests -> Request \cup {Free}]
    BY <1>10, <2>1, SlotContinued DEF DeleteRow
  <2>. QED  BY <1>0, <1>10, <2>2 DEF RequestStep, DeleteRow, TypeOK
<1>11. ASSUME NEW r \in Requests, UnscheduleJob(r) PROVE TypeOK'
  <2>1. request' \in [Requests -> Request \cup {Free}]
    BY <1>11, SlotAnswered DEF UnscheduleJob
  <2>. QED  BY <1>0, <1>11, <2>1 DEF RequestStep, UnscheduleJob, TypeOK
<1>12. ASSUME NEW j \in Jobs, Fire(j) \/ ReadJob(j) \/ Enqueue(j) PROVE TypeOK'
  BY <1>12 DEF Fire, ReadJob, Enqueue, TypeOK, history
<1>13. ASSUME NEW j \in Jobs, ReadNextRun(j) PROVE TypeOK'
  BY <1>13 DEF ReadNextRun, TypeOK, history
<1>14. ASSUME NEW j \in Jobs, CommitNextRun(j) PROVE TypeOK'
  <2>1. row' \in [Jobs -> Row \cup {NoRow}]
    BY <1>14, NextRunStored DEF CommitNextRun, TypeOK
  <2>. QED  BY <1>14, <2>1 DEF CommitNextRun, TypeOK, history
<1>15. CASE UNCHANGED vars
  BY <1>15 DEF vars, TypeOK, history
<1>. QED
  BY <1>1, <1>2, <1>3, <1>4, <1>5, <1>6, <1>7, <1>8, <1>9, <1>10, <1>11, <1>12, <1>13,
     <1>14, <1>15
  DEF Next, RequestStep, FiringStep

\* The types are right whatever requests, firings and crashes interleave.
THEOREM SchedulerTyped == Spec => []TypeOK
BY InitType, TypeStep, PTL DEF Spec

---------------------------------------------------------------------------
\* A step that leaves the rows' statuses, what is created of them and the firings
\* about to create alone.
LEMMA PauseKept ==
    ASSUME PauseInv, late' = late, used' = used,
           \A j \in Jobs : /\ Exists(j)' = Exists(j)
                           /\ Exists(j) => row'[j].status = row[j].status
                           /\ firing'[j] = "enqueue" => firing[j] = "enqueue" \/ late[j] = 0
    PROVE  PauseInv'
BY DEF PauseInv

\* An update leaves every job that exists in existence, and no other.
LEMMA WriteKeepsJobs ==
    ASSUME TypeOK, NEW r \in Requests, WriteUpdate(r)
    PROVE  \A i \in Jobs : Exists(i)' = Exists(i)
<1>. DEFINE j == request[r].job
            u == request[r].updates
            was == request[r].row
            t == [row[j] EXCEPT
                   !.status = IF u.status # was.status THEN u.status ELSE @,
                   !.schedule = IF u.schedule # was.schedule THEN u.schedule ELSE @]
<1>1. j \in Jobs /\ u.status \in Statuses /\ u.schedule \in Schedules
  BY InSlot DEF WriteUpdate, At
<1>2. CASE Exists(j)
  <2>1. t \in Row
    BY <1>1, <1>2, RowFields DEF Row, Statuses
  <2>2. row' = [row EXCEPT ![j] = t]
    BY <1>1, <1>2 DEF WriteUpdate, TypeOK
  <2>. HIDE DEF t, j
  <2>. QED  BY <1>1, <1>2, <2>1, <2>2, NoRowApart DEF Exists, TypeOK
<1>3. CASE ~Exists(j)
  BY <1>3 DEF WriteUpdate, Exists
<1>. QED  BY <1>2, <1>3

LEMMA PauseStep == TypeOK /\ PauseInv /\ [Next]_vars => PauseInv'
<1>. SUFFICES ASSUME TypeOK, PauseInv, [Next]_vars PROVE PauseInv'
  OBVIOUS
<1>1. CASE Start \/ Crash \/ UNCHANGED vars
  BY <1>1, PauseKept DEF Start, Crash, vars, Exists
<1>2. ASSUME NEW r \in Requests, NEW j \in Jobs, NEW s \in Schedules, CreateJob(r, j, s)
      PROVE  PauseInv'
  <2>. DEFINE new == [status |-> "active", schedule |-> s, next_run_at |-> "none"]
  <2>1. /\ j \notin used /\ used' = used \cup {j}
        /\ row' = [row EXCEPT ![j] = new]
        /\ UNCHANGED <<firing, late>>
    BY <1>2 DEF CreateJob
  <2>2. late[j] = 0 /\ firing'[j] = firing[j]
    BY <2>1 DEF PauseInv
  <2>3. new \in Row
    BY DEF Row
  <2>. HIDE DEF new
  <2>4. Exists(j)' /\ \A i \in Jobs \ {j} : row'[i] = row[i]
    BY <2>1, <2>3, NoRowApart DEF Exists, TypeOK
  <2>. QED  BY <2>1, <2>2, <2>4 DEF PauseInv, Exists
<1>3. ASSUME NEW r \in Requests, NEW j \in Jobs,
             \/ \E u \in [status : {"active", "paused"}, schedule : Schedules] :
                   LoadForUpdate(r, j, u)
             \/ LoadForDelete(r, j)
      PROVE  PauseInv'
  BY <1>3, PauseKept DEF LoadForUpdate, LoadForDelete, Exists
<1>4. ASSUME NEW r \in Requests, WriteUpdate(r) PROVE PauseInv'
  <2>2. \A i \in Jobs : Exists(i)' = Exists(i)
    BY <1>4, WriteKeepsJobs
  <2>3. \A i \in Jobs : late'[i] = IF Exists(i) /\ row'[i].status # row[i].status
                                   THEN 0 ELSE late[i]
    BY <1>4 DEF WriteUpdate
  <2>4. UNCHANGED <<used, firing>>
    BY <1>4 DEF WriteUpdate
  <2>. QED  BY <2>2, <2>3, <2>4 DEF PauseInv
<1>5. ASSUME NEW r \in Requests, Refresh(r) \/ CallScheduleJob(r) \/ UnscheduleJob(r)
      PROVE  PauseInv'
  BY <1>5, PauseKept DEF Refresh, CallScheduleJob, UnscheduleJob, Exists
<1>6. ASSUME NEW r \in Requests, StoreNextRun(r) PROVE PauseInv'
  <2>1. request[r].job \in Jobs /\ request[r].next \in Runs
    BY <1>6, InSlot DEF StoreNextRun, At
  <2>2. /\ \A i \in Jobs : Exists(i)' = Exists(i)
        /\ \A i \in Jobs : Exists(i) => row'[i].status = row[i].status
    BY <1>6, <2>1, NextRunStored DEF StoreNextRun
  <2>. QED  BY <1>6, <2>2, PauseKept DEF StoreNextRun
<1>7. ASSUME NEW r \in Requests, DeleteRow(r) PROVE PauseInv'
  <2>1. request[r].job \in Jobs
    BY <1>7, InSlot DEF DeleteRow, At
  <2>. QED  BY <1>7, <2>1 DEF DeleteRow, PauseInv, Exists, TypeOK
<1>8. ASSUME NEW j \in Jobs, Fire(j) \/ ReadNextRun(j) PROVE PauseInv'
  BY <1>8, PauseKept DEF Fire, ReadNextRun, Exists, TypeOK
<1>9. ASSUME NEW j \in Jobs, ReadJob(j) PROVE PauseInv'
  <2>1. firing'[j] = "enqueue" => late[j] = 0
    BY <1>9 DEF ReadJob, PauseInv, TypeOK
  <2>. QED  BY <1>9, <2>1, PauseKept DEF ReadJob, Exists, TypeOK
<1>10. ASSUME NEW j \in Jobs, Enqueue(j) PROVE PauseInv'
  <2>1. late[j] = 0
    BY <1>10 DEF Enqueue, PauseInv
  <2>2. firing'[j] # "enqueue"
    BY <1>10 DEF Enqueue, TypeOK
  <2>3. \A i \in Jobs \ {j} : firing'[i] = firing[i] /\ late'[i] = late[i]
    BY <1>10 DEF Enqueue, TypeOK
  <2>4. late'[j] = IF Exists(j) /\ row[j].status # "active" THEN 1 ELSE 0
    BY <1>10, <2>1 DEF Enqueue, TypeOK
  <2>5. UNCHANGED <<row, used>>
    BY <1>10 DEF Enqueue
  <2>. QED  BY <2>2, <2>3, <2>4, <2>5 DEF PauseInv, Exists
<1>11. ASSUME NEW j \in Jobs, CommitNextRun(j) PROVE PauseInv'
  <2>1. /\ \A i \in Jobs : Exists(i)' = Exists(i)
        /\ \A i \in Jobs : Exists(i) => row'[i].status = row[i].status
    BY <1>11, NextRunStored DEF CommitNextRun, TypeOK, Runs
  <2>2. \A i \in Jobs : firing'[i] = "enqueue" => firing[i] = "enqueue"
    BY <1>11 DEF CommitNextRun, TypeOK
  <2>. QED  BY <1>11, <2>1, <2>2, PauseKept DEF CommitNextRun
<1>. QED
  BY <1>1, <1>2, <1>3, <1>4, <1>5, <1>6, <1>7, <1>8, <1>9, <1>10, <1>11
  DEF Next, RequestStep, FiringStep

\* However requests, firings, crashes and restarts interleave, at most one more
\* execution of a job is created after it was paused.
THEOREM PausedJobsStop == Spec => []PauseHolds
<1>1. TypeOK /\ PauseInv /\ [Next]_vars => (TypeOK /\ PauseInv)'
  BY TypeStep, PauseStep
<1>2. PauseInv => PauseHolds
  BY DEF PauseInv, PauseHolds
<1>. QED  BY InitType, <1>1, <1>2, PTL DEF Spec

---------------------------------------------------------------------------
\* The entry of a job and its row agree, unless the schedule is an invalid one.
Matches(j) ==
    (Exists(j) => row[j].schedule \notin {"bad", "huge"}) => entry[j] = Wanted(row[j])

Agrees(j) == j \notin apart => Matches(j)

\* A request that is alone and has not written yet, or has scheduled what it wrote, leaves
\* them in agreement; one that is about to schedule has the row as it is.
Alone(r) ==
    LET q == request[r] IN
    /\ \A s \in Requests \ {r} : request[s] # Free => request[s].job # q.job
    /\ q.pc \in {"write", "delete", "next"} => Agrees(q.job)
    /\ q.pc \in {"refresh", "schedule"} => Exists(q.job)
    /\ q.pc = "schedule" => /\ q.row.status = row[q.job].status
                           /\ q.row.schedule = row[q.job].schedule
    /\ q.pc = "unschedule" => ~Exists(q.job)

Between(r) ==
    IF request[r] = Free
    THEN r \notin raced
    ELSE up /\ IF r \in raced THEN request[r].job \in apart ELSE Alone(r)

EntryInv ==
    /\ PauseInv
    /\ \A j \in Jobs : AtRest(j) => Agrees(j)
    /\ \A r \in Requests : Between(r)

\* schedule_job makes an entry what the row it is given wants.
LEMMA ScheduleJobMeets ==
    ASSUME NEW old, NEW r \in Row, r.schedule \notin {"bad", "huge"}
    PROVE  ScheduleJob(old, r) = Wanted(r)
<1>1. r.schedule \in ValidSchedules \/ r.schedule = "manual"
  BY ScheduleAssumption DEF Row, Schedules
<1>2. r # NoRow /\ "manual" \notin ValidSchedules
  BY NoRowApart, ScheduleAssumption
<1>. QED  BY <1>1, <1>2 DEF ScheduleJob, Wanted

LEMMA WantedSame ==
    ASSUME NEW r \in Row, NEW s \in Row, r.status = s.status, r.schedule = s.schedule
    PROVE  Wanted(r) = Wanted(s)
BY NoRowApart DEF Wanted

\* A step of the request in one slot, which serves one job: other jobs keep their rows and
\* entries, and other requests for this job have raced with it.
LEMMA OthersKept ==
    ASSUME TypeOK, EntryInv, NEW r \in Requests, NEW j \in Jobs,
           up, up', request[r] # Free => request[r].job = j,
           \A i \in Jobs \ {j} : /\ row'[i] = row[i] /\ entry'[i] = entry[i]
                                 /\ i \in apart' <=> i \in apart,
           \A s \in Requests \ {r} :
              /\ request'[s] = request[s]
              /\ s \in raced' <=> \/ s \in raced
                                  \/ request[s] # Free /\ request[s].job = j
              /\ request[s] # Free /\ request[s].job = j => j \in apart',
           PauseInv', Between(r)',
           request'[r] = Free => Agrees(j)',
           request'[r] # Free => request'[r].job = j
    PROVE  EntryInv'
<1>1. ASSUME NEW i \in Jobs \ {j} PROVE Agrees(i)' <=> Agrees(i)
  BY DEF Agrees, Matches, Exists
<1>2. ASSUME NEW i \in Jobs, AtRest(i)' PROVE Agrees(i)'
  <2>1. CASE i = j
    BY <1>2, <2>1 DEF AtRest
  <2>2. CASE i # j
    <3>1. AtRest(i)
      BY <1>2, <2>2 DEF AtRest
    <3>. QED  BY <1>1, <2>2, <3>1 DEF EntryInv
  <2>. QED  BY <2>1, <2>2
<1>3. ASSUME NEW s \in Requests \ {r} PROVE Between(s)'
  <2>1. Between(s)
    BY DEF EntryInv
  <2>2. CASE request[s] = Free
    BY <2>1, <2>2 DEF Between
  <2>3. CASE request[s] # Free /\ request[s].job = j
    BY <2>3 DEF Between
  <2>4. CASE request[s] # Free /\ request[s].job # j
    <3>1. request[s].job \in Jobs \ {j} /\ (s \in raced' <=> s \in raced)
      BY <2>4, InSlot
    <3>2. CASE s \in raced
      BY <2>1, <2>4, <3>1, <3>2 DEF Between
    <3>3. CASE s \notin raced
      <4>1. Alone(s)
        BY <2>1, <2>4, <3>3 DEF Between
      <4>2. \A t \in Requests \ {s} : request'[t] # Free => request'[t].job # request[s].job
        BY <2>4, <4>1 DEF Alone
      <4>3. Alone(s)'
        BY <1>1, <3>1, <4>1, <4>2 DEF Alone, Exists
      <4>. QED  BY <3>1, <3>3, <2>4, <4>3 DEF Between
    <3>. QED  BY <3>2, <3>3
  <2>. QED  BY <2>2, <2>3, <2>4
<1>. QED  BY <1>2, <1>3 DEF EntryInv

\* A request begins: alone, or it races with all others for its job.
LEMMA BeginIsKnown ==
    ASSUME TypeOK, TypeOK', EntryInv, PauseInv', NEW r \in Requests, NEW new \in Request,
           Begin(r, new), up' = up, \A i \in Jobs \ {new.job} : row'[i] = row[i], entry' = entry,
           \/ new.pc = "refresh" /\ Exists(new.job)'
           \/ new.pc \in {"write", "delete"} /\ row' = row
    PROVE  EntryInv'
<1>1. PICK j \in Jobs : j = new.job
  BY DEF Request
<1>2. /\ up /\ up' /\ request[r] = Free /\ request'[r] = new /\ new # Free
      /\ \A s \in Requests \ {r} : request'[s] = request[s]
  BY RequestNotFree DEF Begin, TypeOK
<1>3. r \notin raced /\ \A s \in Requests : request[s] = Free => s \notin raced
  BY <1>2 DEF EntryInv, Between
<1>. DEFINE others == {s \in Requests \ {r} : request[s] # Free /\ request[s].job = j}
<1>4. CASE others = {}
  <2>1. raced' = raced /\ apart' = apart
    BY <1>1, <1>4 DEF Begin, history
  <2>2. \A s \in Requests \ {r} : request[s] # Free => request[s].job # j
    BY <1>4
  <2>3. AtRest(j)
    BY <1>2, <2>2 DEF AtRest
  <2>4. new.pc \in {"write", "delete"} /\ row' = row => Agrees(j)'
    BY <2>1, <2>3 DEF EntryInv, Agrees, Matches, Exists
  <2>5. Alone(r)'
    BY <1>1, <1>2, <2>2, <2>4 DEF Alone
  <2>6. Between(r)'
    BY <1>2, <1>3, <2>1, <2>5 DEF Between
  <2>. QED  BY <1>1, <1>2, <2>1, <2>2, <2>6, OthersKept
<1>5. CASE others # {}
  <2>1. raced' = raced \cup {r} \cup others /\ apart' = apart \cup {j}
    BY <1>1, <1>5 DEF Begin
  <2>2. Between(r)'
    BY <1>1, <1>2, <2>1 DEF Between
  <2>. QED  BY <1>1, <1>2, <2>1, <2>2, OthersKept
<1>. QED  BY <1>4, <1>5

\* A step that changes at most the next run time of a row.
LEMMA OnlyNextRuns ==
    ASSUME TypeOK, TypeOK', EntryInv, PauseInv', entry' = entry, up' = up, request' = request,
           raced' = raced, apart' = apart,
           \A j \in Jobs : /\ Exists(j)' = Exists(j)
                           /\ Exists(j) => /\ row'[j].status = row[j].status
                                           /\ row'[j].schedule = row[j].schedule
    PROVE  EntryInv'
<1>1. ASSUME NEW j \in Jobs PROVE Agrees(j)' = Agrees(j)
  <2>1. CASE Exists(j)
    <3>1. row[j] \in Row /\ row'[j] \in Row
      BY <2>1 DEF TypeOK, Exists
    <3>2. Wanted(row'[j]) = Wanted(row[j])
      BY <2>1, <3>1, WantedSame
    <3>. QED  BY <2>1, <3>2 DEF Agrees, Matches
  <2>2. CASE ~Exists(j)
    BY <2>2 DEF Agrees, Matches, Exists
  <2>. QED  BY <2>1, <2>2
<1>2. \A j \in Jobs : AtRest(j)' = AtRest(j)
  BY DEF AtRest
<1>3. ASSUME NEW r \in Requests PROVE Between(r)'
  <2>1. request[r] # Free => request[r].job \in Jobs
    BY InSlot
  <2>2. request[r] # Free /\ Alone(r) => Alone(r)'
    BY <1>1, <2>1 DEF Alone
  <2>. QED  BY <2>2 DEF EntryInv, Between
<1>. QED  BY <1>1, <1>2, <1>3 DEF EntryInv

\* A step of a request leaves up, and the other slots, jobs and their marks, as they are.
LEMMA StepIsLocal ==
    ASSUME TypeOK, NEW r \in Requests, NEW j \in Jobs, request[r].job = j, RequestStep(r)
    PROVE  /\ up' = up
           /\ \A i \in Jobs \ {j} : /\ row'[i] = row[i] /\ entry'[i] = entry[i]
                                    /\ i \in apart' <=> i \in apart
           /\ \A s \in Requests \ {r} : request'[s] = request[s] /\ (s \in raced' <=> s \in raced)
           /\ request'[r] = Free => r \notin raced'
           /\ request'[r] # Free => raced' = raced
           /\ r \in raced => apart' = apart
<1>. USE DEF RequestStep, WriteUpdate, Refresh, CallScheduleJob, StoreNextRun, DeleteRow,
             UnscheduleJob
<1>1. up' = up /\ (apart' = apart \/ (r \notin raced /\ apart' = apart \ {j}))
  BY DEF Settles
<1>2. row' = row \/ \E t : row' = [row EXCEPT ![j] = t]
  BY DEF TypeOK
<1>3. entry' = entry \/ \E t : entry' = [entry EXCEPT ![j] = t]
  BY DEF TypeOK
<1>4. \E t : request' = [request EXCEPT ![r] = t]
  <2>1. \/ Answer(r)
        \/ \E pc : Continue(r, pc)
        \/ \E was : request' = [request EXCEPT ![r].pc = "schedule", ![r].row = was]
        \/ \E to : request' = [request EXCEPT ![r].pc = "next", ![r].next = to]
    OBVIOUS
  <2>2. CASE Answer(r)
    BY <2>2 DEF Answer
  <2>3. ASSUME NEW pc, Continue(r, pc) PROVE \E t : request' = [request EXCEPT ![r] = t]
    <3>1. request' = [request EXCEPT ![r] = [request[r] EXCEPT !.pc = pc]]
      BY <2>3 DEF Continue
    <3>. QED  BY <3>1
  <2>4. ASSUME NEW was, request' = [request EXCEPT ![r].pc = "schedule", ![r].row = was]
        PROVE  \E t : request' = [request EXCEPT ![r] = t]
    <3>1. request' = [request EXCEPT ![r] = [request[r] EXCEPT !.pc = "schedule", !.row = was]]
      BY <2>4 DEF TypeOK
    <3>. QED  BY <3>1
  <2>5. ASSUME NEW to, request' = [request EXCEPT ![r].pc = "next", ![r].next = to]
        PROVE  \E t : request' = [request EXCEPT ![r] = t]
    <3>1. request' = [request EXCEPT ![r] = [request[r] EXCEPT !.pc = "next", !.next = to]]
      BY <2>5 DEF TypeOK
    <3>. QED  BY <3>1
  <2>. QED  BY <2>1, <2>2, <2>3, <2>4, <2>5
<1>5. \A i \in Jobs \ {j} : row'[i] = row[i] /\ entry'[i] = entry[i]
  BY <1>2, <1>3 DEF TypeOK
<1>6. \A s \in Requests \ {r} : request'[s] = request[s]
  BY <1>4 DEF TypeOK
<1>7. raced' = raced \/ (raced' = raced \ {r} /\ Answer(r))
  BY HistoryShrinks
<1>8. Answer(r) => request'[r] = Free /\ raced' = raced \ {r}
  BY DEF Answer, TypeOK
<1>9. ~Answer(r) => request'[r] # Free
  <2>1. SUFFICES ASSUME ~Answer(r) PROVE request'[r] # Free
    OBVIOUS
  <2>2. request[r] \in Request /\ DOMAIN request[r] = {"pc", "job", "updates", "row", "next"}
    BY InSlot DEF At, Request
  <2>3. \/ \E pc : Continue(r, pc)
        \/ \E was : request' = [request EXCEPT ![r].pc = "schedule", ![r].row = was]
        \/ \E to : request' = [request EXCEPT ![r].pc = "next", ![r].next = to]
    BY <2>1
  <2>4. DOMAIN request'[r] = DOMAIN request[r]
    BY <2>3 DEF Continue, TypeOK
  <2>. QED  BY <2>2, <2>4 DEF Free
<1>. QED  BY <1>1, <1>5, <1>6, <1>7, <1>8, <1>9

\* What a request that is alone does: it stays alone, and leaves its job in agreement.
LEMMA AloneStep ==
    ASSUME TypeOK, TypeOK', NEW r \in Requests, NEW j \in Jobs, request[r] # Free,
           request[r].job = j, r \notin raced, Alone(r), RequestStep(r)
    PROVE  /\ request'[r] = Free => Agrees(j)'
           /\ request'[r] # Free => request'[r].job = j /\ Alone(r)'
<1>. DEFINE q == request[r]
<1>1. q \in Request /\ q.job = j /\ q.next \in Runs
  BY InSlot
<1>2. \A s \in Requests \ {r} : request'[s] = request[s]
  BY StepIsLocal
<1>3. \A s \in Requests \ {r} : request'[s] # Free => request'[s].job # j
  BY <1>1, <1>2 DEF Alone
<1>4. CASE WriteUpdate(r)
  <2>1. CASE Exists(j)
    <3>1. request'[r] = [q EXCEPT !.pc = "refresh"]
      BY <1>4, <2>1 DEF WriteUpdate, Continue, TypeOK
    <3>2. request'[r].pc = "refresh" /\ request'[r].job = j /\ request'[r] # Free
      BY <1>1, <3>1, RequestNotFree DEF Request
    <3>3. Exists(j)'
      BY <1>4, <2>1, WriteKeepsJobs
    <3>. QED  BY <1>3, <3>2, <3>3 DEF Alone
  <2>2. CASE ~Exists(j)
    <3>1. Agrees(j) /\ UNCHANGED <<row, entry, apart>> /\ request'[r] = Free
      BY <1>1, <1>4, <2>2 DEF WriteUpdate, At, Alone, Answer, TypeOK
    <3>. QED  BY <3>1 DEF Agrees, Matches, Exists
  <2>. QED  BY <2>1, <2>2
<1>5. CASE Refresh(r)
  <2>1. Exists(j) /\ row' = row
    BY <1>1, <1>5 DEF Refresh, At, Alone
  <2>2. request'[r] = [q EXCEPT !.pc = "schedule", !.row = row[j]]
    BY <1>5, <2>1 DEF Refresh, TypeOK
  <2>3. /\ request'[r].pc = "schedule" /\ request'[r].job = j
        /\ request'[r].row = row[j] /\ request'[r] # Free
    BY <1>1, <2>1, <2>2, RowFields, RequestNotFree DEF Request
  <2>. QED  BY <1>3, <2>1, <2>3 DEF Alone, Exists
<1>6. CASE CallScheduleJob(r)
  <2>1. /\ Exists(j) /\ q.row.status = row[j].status
        /\ q.row.schedule = row[j].schedule /\ row' = row
        /\ entry'[j] = ScheduleJob(entry[j], q.row)
    BY <1>1, <1>6 DEF CallScheduleJob, At, Alone, TypeOK
  <2>2. row[j] \in Row
    BY <2>1, RowFields
  <2>3. ScheduleJob(entry[j], q.row) = ScheduleJob(entry[j], row[j])
    BY <2>1 DEF ScheduleJob
  <2>4. Agrees(j)'
    BY <2>1, <2>2, <2>3, ScheduleJobMeets DEF Agrees, Matches, Exists
  <2>5. CASE Answer(r)
    BY <2>4, <2>5 DEF Answer, TypeOK
  <2>6. CASE ~Answer(r)
    <3>. DEFINE to == ScheduleJob(entry[j], q.row)
    <3>1. request'[r] = [q EXCEPT !.pc = "next", !.next = to]
      <4>1. request' = [request EXCEPT ![r].pc = "next",
                                       ![r].next = ScheduleJob(entry[q.job], q.row)]
        BY <1>6, <2>6 DEF CallScheduleJob
      <4>. QED  BY <1>1, <4>1 DEF TypeOK
    <3>2. to \in Runs
      BY ScheduleJobType DEF TypeOK, Runs
    <3>. HIDE DEF to
    <3>3. request'[r].pc = "next" /\ request'[r].job = j /\ request'[r] # Free
      BY <1>1, <3>1, <3>2, RequestNotFree DEF Request, Runs
    <3>. QED  BY <1>3, <2>4, <3>3 DEF Alone
  <2>. QED  BY <2>5, <2>6
<1>7. CASE StoreNextRun(r)
  <2>1. Agrees(j) /\ entry' = entry /\ apart' = apart /\ request'[r] = Free
    BY <1>1, <1>7 DEF StoreNextRun, At, Alone, Answer, TypeOK
  <2>2. /\ Exists(j)' = Exists(j)
        /\ Exists(j) => /\ row'[j].status = row[j].status
                       /\ row'[j].schedule = row[j].schedule
    BY <1>1, <1>7, NextRunStored DEF StoreNextRun
  <2>3. Exists(j) => Wanted(row'[j]) = Wanted(row[j])
    BY <1>1, <2>2, WantedSame DEF TypeOK, Exists
  <2>4. ~Exists(j) => row'[j] = row[j]
    BY <2>2 DEF Exists
  <2>. QED  BY <2>1, <2>2, <2>3, <2>4 DEF Agrees, Matches
<1>8. CASE DeleteRow(r)
  <2>1. request'[r] = [q EXCEPT !.pc = "unschedule"] /\ row'[j] = NoRow
    BY <1>1, <1>8 DEF DeleteRow, Continue, TypeOK
  <2>2. request'[r].pc = "unschedule" /\ request'[r].job = j /\ request'[r] # Free
    BY <1>1, <2>1, RequestNotFree DEF Request
  <2>. QED  BY <1>3, <2>1, <2>2 DEF Alone, Exists
<1>9. CASE UnscheduleJob(r)
  <2>1. row[j] = NoRow /\ row' = row /\ entry'[j] = "none" /\ request'[r] = Free
    BY <1>1, <1>9 DEF UnscheduleJob, At, Alone, Exists, Answer, TypeOK
  <2>. QED  BY <2>1 DEF Agrees, Matches, Wanted, Exists
<1>. QED  BY <1>4, <1>5, <1>6, <1>7, <1>8, <1>9 DEF RequestStep

\* Whether it is alone or not, a request goes on with its job.
LEMMA JobStays ==
    ASSUME TypeOK, NEW r \in Requests, request[r] # Free, RequestStep(r)
    PROVE  request'[r] # Free => request'[r].job = request[r].job
<1>1. request[r] \in Request /\ "job" \in DOMAIN request[r]
  BY InSlot DEF Request
<1>2. \/ Answer(r)
      \/ \E pc : Continue(r, pc)
      \/ \E was : request' = [request EXCEPT ![r].pc = "schedule", ![r].row = was]
      \/ \E to : request' = [request EXCEPT ![r].pc = "next", ![r].next = to]
  BY DEF RequestStep, WriteUpdate, Refresh, CallScheduleJob, StoreNextRun, DeleteRow,
         UnscheduleJob
<1>. QED  BY <1>1, <1>2 DEF Answer, Continue, TypeOK

LEMMA EntryStep == TypeOK /\ EntryInv /\ [Next]_vars => EntryInv'
<1>. SUFFICES ASSUME TypeOK, EntryInv, [Next]_vars PROVE EntryInv'
  OBVIOUS
<1>0. TypeOK' /\ PauseInv'
  BY TypeStep, PauseStep DEF EntryInv
<1>1. CASE Start
  <2>1. \A r \in Requests : request'[r] = Free /\ r \notin raced'
    BY <1>1 DEF Start, EntryInv, Between
  <2>2. ASSUME NEW j \in Jobs PROVE Agrees(j)'
    <3>1. SUFFICES ASSUME j \notin apart', Exists(j) => row[j].schedule \notin {"bad", "huge"}
                   PROVE  entry'[j] = Wanted(row[j])
      BY <1>1 DEF Start, Agrees, Matches, Exists
    <3>2. entry'[j] = IF Exists(j) /\ row[j].status = "active"
                      THEN ScheduleJob("none", row[j]) ELSE "none"
      BY <1>1, <3>1 DEF Start
    <3>3. CASE Exists(j)
      <4>1. row[j] \in Row
        BY <3>3, RowFields
      <4>. QED  BY <3>1, <3>2, <3>3, <4>1, ScheduleJobMeets DEF Wanted
    <3>4. CASE ~Exists(j)
      BY <3>2, <3>4 DEF Exists, Wanted
    <3>. QED  BY <3>3, <3>4
  <2>. QED  BY <1>0, <2>1, <2>2 DEF EntryInv, Between
<1>2. CASE Crash
  BY <1>0, <1>2 DEF Crash, EntryInv, Between, AtRest
<1>3. CASE UNCHANGED vars
  BY <1>0, <1>3, OnlyNextRuns DEF vars, Exists
<1>4. ASSUME NEW j \in Jobs, Fire(j) \/ ReadJob(j) \/ Enqueue(j) \/ ReadNextRun(j)
      PROVE  EntryInv'
  BY <1>0, <1>4, OnlyNextRuns DEF Fire, ReadJob, Enqueue, ReadNextRun, Exists, history
<1>5. ASSUME NEW j \in Jobs, CommitNextRun(j) PROVE EntryInv'
  <2>1. next[j] \in Runs /\ UNCHANGED <<entry, up, request, raced, apart>>
    BY <1>5 DEF CommitNextRun, TypeOK, Runs, history
  <2>2. \A i \in Jobs : /\ Exists(i)' = Exists(i)
                        /\ Exists(i) => /\ row'[i].status = row[i].status
                                        /\ row'[i].schedule = row[i].schedule
    BY <1>5, <2>1, NextRunStored DEF CommitNextRun
  <2>. QED  BY <1>0, <2>1, <2>2, OnlyNextRuns
<1>6. ASSUME NEW r \in Requests, NEW j \in Jobs, NEW s \in Schedules, CreateJob(r, j, s)
      PROVE  EntryInv'
  <2>. DEFINE new == [status |-> "active", schedule |-> s, next_run_at |-> "none"]
              q == [pc |-> "refresh", job |-> j, row |-> new, next |-> "none",
                    updates |-> [status |-> "active", schedule |-> s]]
  <2>1. new \in Row
    BY DEF Row
  <2>2. q \in Request /\ q.job = j /\ q.pc = "refresh"
    BY <2>1 DEF Request
  <2>3. /\ Begin(r, q) /\ up' = up /\ entry' = entry
        /\ row' = [row EXCEPT ![j] = new]
    BY <1>6 DEF CreateJob
  <2>. HIDE DEF new, q
  <2>4. Exists(j)' /\ \A i \in Jobs \ {j} : row'[i] = row[i]
    BY <2>1, <2>3, NoRowApart DEF Exists, TypeOK
  <2>. QED  BY <1>0, <2>2, <2>3, <2>4, BeginIsKnown DEF Exists
<1>7. ASSUME NEW r \in Requests, NEW j \in Jobs,
             NEW u \in [status : {"active", "paused"}, schedule : Schedules],
             LoadForUpdate(r, j, u)
      PROVE  EntryInv'
  <2>. DEFINE q == [pc |-> "write", job |-> j, row |-> row[j], updates |-> u,
                    next |-> "none"]
  <2>1. q \in Request /\ q.job = j /\ q.pc = "write"
    BY DEF Request, TypeOK
  <2>2. Begin(r, q) /\ UNCHANGED <<up, row, entry>>
    BY <1>7 DEF LoadForUpdate
  <2>. HIDE DEF q
  <2>. QED  BY <1>0, <2>1, <2>2, BeginIsKnown
<1>8. ASSUME NEW r \in Requests, NEW j \in Jobs, LoadForDelete(r, j) PROVE EntryInv'
  <2>. DEFINE q == [pc |-> "delete", job |-> j, row |-> row[j], next |-> "none",
                    updates |-> [status |-> row[j].status, schedule |-> row[j].schedule]]
  <2>1. row[j] \in Row /\ row[j].status \in Statuses /\ row[j].schedule \in Schedules
    BY <1>8, RowFields DEF LoadForDelete
  <2>2. q \in Request /\ q.job = j /\ q.pc = "delete"
    BY <2>1 DEF Request, Statuses
  <2>3. Begin(r, q) /\ UNCHANGED <<up, row, entry>>
    BY <1>8 DEF LoadForDelete
  <2>. HIDE DEF q
  <2>. QED  BY <1>0, <2>2, <2>3, BeginIsKnown
<1>9. ASSUME NEW r \in Requests, RequestStep(r) PROVE EntryInv'
  <2>1. request[r] # Free /\ request[r].job \in Jobs
    BY <1>9, InSlot DEF RequestStep, WriteUpdate, Refresh, CallScheduleJob, StoreNextRun,
                       DeleteRow, UnscheduleJob, At
  <2>2. PICK j \in Jobs : j = request[r].job
    BY <2>1
  <2>3. Between(r) /\ up
    BY <2>1 DEF EntryInv, Between
  <2>4. /\ up' = up
        /\ \A i \in Jobs \ {j} : /\ row'[i] = row[i] /\ entry'[i] = entry[i]
                                 /\ i \in apart' <=> i \in apart
        /\ \A s \in Requests \ {r} : request'[s] = request[s] /\ (s \in raced' <=> s \in raced)
        /\ request'[r] = Free => r \notin raced'
        /\ request'[r] # Free => raced' = raced
        /\ r \in raced => apart' = apart
    BY <1>9, <2>2, StepIsLocal
  <2>5. CASE r \in raced
    <3>1. j \in apart'
      BY <2>1, <2>2, <2>3, <2>4, <2>5 DEF Between
    <3>2. ASSUME NEW s \in Requests \ {r}, request[s] # Free, request[s].job = j
          PROVE  s \in raced
      BY <2>1, <2>2, <3>2 DEF EntryInv, Between, Alone
    <3>3. request'[r] # Free => request'[r].job = j
      BY <1>9, <2>1, <2>2, JobStays
    <3>4. Between(r)' /\ Agrees(j)'
      BY <2>3, <2>4, <2>5, <3>1, <3>3 DEF Between, Agrees
    <3>. QED  BY <1>0, <2>2, <2>3, <2>4, <3>1, <3>2, <3>3, <3>4, OthersKept
  <2>6. CASE r \notin raced
    <3>1. Alone(r)
      BY <2>1, <2>3, <2>6 DEF Between
    <3>2. /\ request'[r] = Free => Agrees(j)'
          /\ request'[r] # Free => request'[r].job = j /\ Alone(r)'
      BY <1>0, <1>9, <2>1, <2>2, <2>6, <3>1, AloneStep
    <3>3. Between(r)'
      BY <2>3, <2>4, <2>6, <3>2 DEF Between
    <3>4. \A s \in Requests \ {r} : request[s] # Free => request[s].job # j
      BY <2>2, <3>1 DEF Alone
    <3>. QED  BY <1>0, <2>2, <2>3, <2>4, <3>2, <3>3, <3>4, OthersKept
  <2>. QED  BY <2>5, <2>6
<1>. QED
  BY <1>1, <1>2, <1>3, <1>4, <1>5, <1>6, <1>7, <1>8, <1>9 DEF Next, FiringStep

\* services/scheduler.py:62, api/jobs.py:156: only requests for the same job that overlap,
\* or a start that an overflow cut short, make an entry differ from its row, and only up to
\* the next complete start or the next request that is alone; for any number of jobs and
\* requests, through firings, crashes and restarts.
THEOREM EntriesFollowRows == Spec => []EntryMatchesRow
<1>1. Init => TypeOK /\ EntryInv
  <2>. SUFFICES ASSUME Init PROVE TypeOK /\ EntryInv
    OBVIOUS
  <2>1. TypeOK /\ PauseInv
    BY InitType
  <2>2. ~up /\ raced = {} /\ \A r \in Requests : request[r] = Free
    BY DEF Init
  <2>. QED  BY <2>1, <2>2 DEF EntryInv, Between, AtRest
<1>2. TypeOK /\ EntryInv /\ [Next]_vars => (TypeOK /\ EntryInv)'
  BY TypeStep, EntryStep
<1>3. EntryInv => EntryMatchesRow
  BY DEF EntryInv, EntryMatchesRow, Agrees, Matches
<1>. QED  BY <1>1, <1>2, <1>3, PTL DEF Spec
===========================================================================
