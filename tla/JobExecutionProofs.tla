------------------------ MODULE JobExecutionProofs ------------------------
(***************************************************************************)
(* Proofs about the life of an execution: its types, who has it, what it   *)
(* leaves behind, and the life cycle that readers of the table see, for   *)
(* every set of jobs, executions and workers, every assignment of          *)
(* executions to jobs, both modes and every bound.                         *)
(***************************************************************************)
EXTENDS JobExecution, TLAPS

\* What the program counter of a task says about the rest of it.
PointOK(t) ==
    /\ t.pc # "idle" => t.exec \in Executions
    /\ t.pc \notin {"idle", "load_job", "load_execution"} => t.job \in JobConfig
    /\ t.pc \in {"commit", "completed", "dispatch", "refresh", "retrying", "announce",
                 "retry", "alerting", "final"} => t.status \in Completed
    /\ t.pc \in {"retrying", "announce", "retry"} => MustRetry(t)

PointInv == \A w \in Workers : PointOK(task[w])

\* An execution that has no row yet is in nobody's hands (in Celery mode the row
\* is committed before anything else happens to it).
NoneUnheld ==
    Mode = "celery" => \A e \in Executions : Status(e) = "none" => ~Held(e)

HolderInv == SingleHolder /\ NoneUnheld

IInv == TypeOK /\ PointInv /\ HolderInv

---------------------------------------------------------------------------
\* A step that sends, takes and submits nothing, and that gives no worker a new
\* execution, keeps the holders apart.
LEMMA HoldersKept ==
    ASSUME HolderInv,
           UNCHANGED <<submitting, broker>>,
           \A w \in Workers : task'[w].pc # "idle" =>
               task[w].pc # "idle" /\ task'[w].exec = task[w].exec,
           \A e \in Executions : execution'[e].status = "none" => Status(e) = "none"
    PROVE  HolderInv'
<1>1. SingleHolder'
  BY DEF HolderInv, SingleHolder, Busy, On
<1>2. NoneUnheld'
  BY DEF HolderInv, NoneUnheld, Held, Busy, On, Status
<1>. QED  BY <1>1, <1>2 DEF HolderInv

LEMMA IdleTask == Idle \in Task /\ PointOK(Idle) /\ Idle.pc = "idle"
BY BoundAssumption DEF Idle, Task, Points, PointOK

\* One worker moves from one record to the next.
LEMMA TaskStep ==
    ASSUME TypeOK, PointInv,
           NEW w \in Workers, NEW t \in Task, PointOK(t),
           task' = [task EXCEPT ![w] = t]
    PROVE  /\ task' \in [Workers -> Task]
           /\ PointInv'
           /\ task'[w] = t
           /\ \A v \in Workers \ {w} : task'[v] = task[v]
<1>1. /\ task' \in [Workers -> Task]
      /\ task'[w] = t
      /\ \A v \in Workers \ {w} : task'[v] = task[v]
  BY DEF TypeOK
<1>2. ASSUME NEW v \in Workers PROVE PointOK(task'[v])
  BY <1>1 DEF PointInv
<1>3. PointInv'
  BY <1>2 DEF PointInv, PointOK, MustRetry
<1>. QED  BY <1>1, <1>3

\* One worker moves on with the execution it has, or ends its task; the queue
\* is left alone and no row goes back to not being there.
LEMMA WorkerMoves ==
    ASSUME IInv, NEW w \in Workers, NEW t \in Task, PointOK(t),
           task' = [task EXCEPT ![w] = t],
           t.pc = "idle" \/ (task[w].pc # "idle" /\ t.exec = task[w].exec),
           UNCHANGED <<submitting, broker>>,
           \A e \in Executions : execution'[e].status = "none" => Status(e) = "none"
    PROVE  /\ task' \in [Workers -> Task]
           /\ PointInv' /\ HolderInv'
<1>1. /\ task' \in [Workers -> Task] /\ PointInv'
      /\ task'[w] = t
      /\ \A v \in Workers \ {w} : task'[v] = task[v]
  BY TaskStep DEF IInv
<1>2. \A v \in Workers : task'[v].pc # "idle" =>
          task[v].pc # "idle" /\ task'[v].exec = task[v].exec
  BY <1>1
<1>. QED  BY <1>1, <1>2, HoldersKept DEF IInv

\* The same for the two usual ways of moving.
LEMMA GotoMoves ==
    ASSUME IInv, NEW w \in Workers, Busy(w), NEW pc \in Points, Goto(w, pc),
           PointOK([task[w] EXCEPT !.pc = pc]),
           UNCHANGED <<submitting, broker>>,
           \A e \in Executions : execution'[e].status = "none" => Status(e) = "none"
    PROVE  /\ task' \in [Workers -> Task]
           /\ PointInv' /\ HolderInv'
<1>. DEFINE t == [task[w] EXCEPT !.pc = pc]
<1>1. task[w] \in Task
  BY DEF IInv, TypeOK
<1>2. t \in Task /\ t.exec = task[w].exec
  BY <1>1 DEF Task
<1>3. task' = [task EXCEPT ![w] = t]
  BY DEF Goto
<1>4. task[w].pc # "idle"
  BY DEF Busy
<1>. HIDE DEF t
<1>. QED  BY <1>2, <1>3, <1>4, WorkerMoves DEF t

LEMMA ReleaseMoves ==
    ASSUME IInv, NEW w \in Workers, Release(w),
           UNCHANGED <<submitting, broker>>,
           \A e \in Executions : execution'[e].status = "none" => Status(e) = "none"
    PROVE  /\ task' \in [Workers -> Task]
           /\ PointInv' /\ HolderInv'
BY IdleTask, WorkerMoves DEF Release

---------------------------------------------------------------------------
LEMMA InitInv == Init => IInv
<1>. SUFFICES ASSUME Init PROVE IInv
  OBVIOUS
<1>1. TypeOK
  BY IdleTask, BoundAssumption DEF Init, TypeOK, Statuses, Completed, Failed, Message
<1>2. PointInv
  BY IdleTask DEF Init, PointInv
<1>3. HolderInv
  BY IdleTask DEF Init, HolderInv, SingleHolder, NoneUnheld, Held, Busy
<1>. QED  BY <1>1, <1>2, <1>3 DEF IInv

\* What holds of a busy worker.
LEMMA WorkerFacts ==
    ASSUME IInv, NEW w \in Workers
    PROVE  /\ task[w] \in Task
           /\ PointOK(task[w])
           /\ Busy(w) => On(w) \in Executions
BY DEF IInv, TypeOK, PointInv, PointOK, Busy, On

LEMMA PublishTyped ==
    ASSUME TypeOK, NEW e \in Executions, NEW s \in Statuses, Publish(e, s)
    PROVE  /\ event' \in [Executions -> Statuses]
           /\ missed' \subseteq Executions
           /\ faults' \in 0 .. MaxFaults
<1>1. event \in [Executions -> Statuses] /\ missed \subseteq Executions
      /\ faults \in 0 .. MaxFaults /\ MaxFaults \in Nat
  BY BoundAssumption DEF TypeOK
<1>2. faults < MaxFaults => faults + 1 \in 0 .. MaxFaults
  BY <1>1
<1>3. event' \in [Executions -> Statuses]
  BY <1>1 DEF Publish
<1>. QED  BY <1>1, <1>2, <1>3 DEF Publish

---------------------------------------------------------------------------
\* The handlers: a row is created, submitted, or its submission fails.
LEMMA HandlerSteps ==
    ASSUME IInv, NEW e \in Executions,
           CreateQueued(e) \/ Delay(e) \/ DelayFails(e)
    PROVE  IInv'
<1>1. CASE CreateQueued(e)
  <2>1. TypeOK'
    BY <1>1 DEF CreateQueued, IInv, TypeOK, Statuses, history
  <2>2. PointInv'
    BY <1>1 DEF CreateQueued, IInv, PointInv, PointOK, MustRetry
  <2>3. ~Held(e)
    BY <1>1 DEF CreateQueued, IInv, HolderInv, NoneUnheld
  <2>4. SingleHolder'
    BY <1>1, <2>3 DEF CreateQueued, IInv, HolderInv, SingleHolder, Held, Busy, On
  <2>5. NoneUnheld'
    BY <1>1 DEF CreateQueued, IInv, TypeOK, HolderInv, NoneUnheld, Held, Busy, On, Status
  <2>. QED  BY <2>1, <2>2, <2>4, <2>5 DEF IInv, HolderInv
<1>2. CASE Delay(e)
  <2>1. [exec |-> e, retries |-> 0] \in Message
    BY BoundAssumption DEF Message
  <2>2. TypeOK'
    BY <1>2, <2>1 DEF Delay, IInv, TypeOK, rows, history
  <2>3. PointInv'
    BY <1>2 DEF Delay, IInv, PointInv, PointOK, MustRetry
  <2>4. SingleHolder'
    BY <1>2 DEF Delay, IInv, HolderInv, SingleHolder, Busy, On
  <2>5. NoneUnheld'
    BY <1>2 DEF Delay, IInv, HolderInv, NoneUnheld, Held, Busy, On, Status, rows
  <2>. QED  BY <2>2, <2>3, <2>4, <2>5 DEF IInv, HolderInv
<1>3. CASE DelayFails(e)
  <2>1. TypeOK'
    BY <1>3, BoundAssumption DEF DelayFails, IInv, TypeOK, rows
  <2>2. PointInv'
    BY <1>3 DEF DelayFails, IInv, PointInv, PointOK, MustRetry
  <2>3. SingleHolder' /\ NoneUnheld'
    BY <1>3 DEF DelayFails, IInv, HolderInv, SingleHolder, NoneUnheld, Held, Busy, On,
                Status, rows
  <2>. QED  BY <2>1, <2>2, <2>3 DEF IInv, HolderInv
<1>. QED  BY <1>1, <1>2, <1>3

\* The two ways a process gets an execution.
LEMMA TakeSteps ==
    ASSUME IInv, NEW w \in Workers,
           \/ \E e \in Executions : ReadJobInline(w, e)
           \/ \E m \in broker : Receive(w, m)
    PROVE  IInv'
<1>1. ASSUME NEW e \in Executions, ReadJobInline(w, e) PROVE IInv'
  <2>. DEFINE t == [Idle EXCEPT !.pc = "create", !.exec = e, !.job = job[JobOf[e]]]
  <2>1. job[JobOf[e]] \in JobConfig
    BY <1>1, JobOfAssumption DEF ReadJobInline, IInv, TypeOK
  <2>2. t \in Task /\ PointOK(t) /\ t.exec = e
    <3>. DEFINE c == job[JobOf[e]]
    <3>1. c \in JobConfig
      BY <2>1
    <3>. HIDE DEF c
    <3>2. [Idle EXCEPT !.pc = "create", !.exec = e, !.job = c] \in Task
      BY <3>1, IdleTask DEF Task, Points
    <3>3. PointOK([Idle EXCEPT !.pc = "create", !.exec = e, !.job = c])
      BY <3>1 DEF Idle, PointOK
    <3>4. [Idle EXCEPT !.pc = "create", !.exec = e, !.job = c].exec = e
      BY DEF Idle
    <3>. QED  BY <3>2, <3>3, <3>4 DEF c
  <2>3. task' = [task EXCEPT ![w] = t]
    BY <1>1 DEF ReadJobInline
  <2>. HIDE DEF t
  <2>4. /\ task' \in [Workers -> Task] /\ PointInv'
        /\ task'[w] = t
        /\ \A v \in Workers \ {w} : task'[v] = task[v]
    BY <2>2, <2>3, TaskStep DEF IInv
  <2>5. TypeOK'
    BY <1>1, <2>4 DEF ReadJobInline, IInv, TypeOK, rows, history
  <2>6. SingleHolder'
    <3>1. /\ UNCHANGED <<submitting, broker>>
          /\ e \notin submitting
          /\ \A m \in broker : m.exec # e
          /\ \A v \in Workers \ {w} : task[v].pc # "idle" => task[v].exec # e
      BY <1>1 DEF ReadJobInline, Held, Busy, On
    <3>2. SingleHolder
      BY DEF IInv, HolderInv
    <3>. QED  BY <2>2, <2>4, <3>1, <3>2 DEF SingleHolder, Busy, On
  <2>7. NoneUnheld'
    BY <1>1 DEF ReadJobInline, NoneUnheld
  <2>. QED  BY <2>4, <2>5, <2>6, <2>7 DEF IInv, HolderInv
<1>2. ASSUME NEW m \in broker, Receive(w, m) PROVE IInv'
  <2>. DEFINE t == [Idle EXCEPT !.pc = "load_job", !.exec = m.exec, !.retries = m.retries]
  <2>1. m.exec \in Executions /\ m.retries \in 0 .. MaxRetryCount
    BY DEF IInv, TypeOK, Message
  <2>2. t \in Task /\ PointOK(t) /\ t.exec = m.exec /\ t.pc = "load_job"
    BY <2>1 DEF Idle, Task, Points, PointOK
  <2>3. task' = [task EXCEPT ![w] = t]
    BY <1>2 DEF Receive
  <2>. HIDE DEF t
  <2>4. /\ task' \in [Workers -> Task] /\ PointInv'
        /\ task'[w] = t
        /\ \A v \in Workers \ {w} : task'[v] = task[v]
    BY <2>2, <2>3, TaskStep DEF IInv
  <2>5. TypeOK'
    BY <1>2, <2>4 DEF Receive, IInv, TypeOK, rows, history
  <2>6. SingleHolder'
    <3>1. /\ submitting' = submitting
          /\ broker' = broker \ {m}
          /\ SingleHolder
      BY <1>2 DEF Receive, IInv, HolderInv
    <3>2. /\ m.exec \notin submitting
          /\ \A n \in broker' : n.exec # m.exec
          /\ \A v \in Workers : task[v].pc # "idle" => task[v].exec # m.exec
      BY <3>1 DEF SingleHolder, Busy, On
    <3>. QED  BY <2>2, <2>4, <3>1, <3>2 DEF SingleHolder, Busy, On
  <2>7. NoneUnheld'
    <3>1. UNCHANGED <<submitting, execution>> /\ broker' \subseteq broker
      BY <1>2 DEF Receive, rows
    <3>2. \A e \in Executions : Held(e)' => Held(e)
      BY <2>2, <2>4, <3>1 DEF Held, Busy, On
    <3>. QED  BY <3>1, <3>2 DEF IInv, HolderInv, NoneUnheld, Status
  <2>. QED  BY <2>4, <2>5, <2>6, <2>7 DEF IInv, HolderInv
<1>. QED  BY <1>1, <1>2

---------------------------------------------------------------------------
\* The steps of an attempt, up to the decision what to do with its outcome.
LEMMA AttemptSteps ==
    ASSUME IInv, NEW w \in Workers,
           \/ CreateInline(w)
           \/ LoadJob(w)
           \/ LoadExecution(w)
           \/ StartAttempt(w)
           \/ HttpOutcome(w)
           \/ CommitAttempt(w)
           \/ PublishCompleted(w)
           \/ Refresh(w)
    PROVE  IInv'
<1>. USE DEF IInv
<1>0. /\ task[w] \in Task /\ PointOK(task[w])
      /\ Busy(w) => On(w) \in Executions
  BY WorkerFacts
<1>1. CASE CreateInline(w)
  <2>1. Busy(w) /\ PointOK([task[w] EXCEPT !.pc = "start"])
    BY <1>0, <1>1 DEF CreateInline, Busy, PointOK, Task
  <2>2. \A e \in Executions : execution'[e].status = "none" => Status(e) = "none"
    BY <1>0, <1>1 DEF CreateInline, TypeOK, Status
  <2>3. task' \in [Workers -> Task] /\ PointInv' /\ HolderInv'
    BY <1>1, <2>1, <2>2, GotoMoves DEF CreateInline, Points
  <2>4. task[w].job \in JobConfig
    BY <1>0, <1>1 DEF CreateInline, PointOK
  <2>5. TypeOK'
    BY <1>0, <1>1, <2>3, <2>4 DEF CreateInline, TypeOK, Statuses
  <2>. QED  BY <2>3, <2>5
<1>2. CASE LoadJob(w)
  <2>. DEFINE t == [task[w] EXCEPT !.job = job[JobOf[On(w)]], !.pc = "load_execution"]
  <2>1. On(w) \in Executions
    BY <1>0, <1>2 DEF LoadJob, Busy
  <2>2. job[JobOf[On(w)]] \in JobConfig \cup {None}
    BY <2>1, JobOfAssumption DEF TypeOK
  <2>3. t \in Task /\ PointOK(t) /\ t.exec = task[w].exec
    BY <1>0, <2>1, <2>2 DEF Task, PointOK, Points, On
  <2>4. task' = [task EXCEPT ![w] = t]
    BY <1>2 DEF LoadJob
  <2>5. task[w].pc # "idle"
    BY <1>2 DEF LoadJob
  <2>6. UNCHANGED <<submitting, broker, execution>>
    BY <1>2 DEF LoadJob, rows
  <2>. HIDE DEF t
  <2>7. task' \in [Workers -> Task] /\ PointInv' /\ HolderInv'
    BY <2>3, <2>4, <2>5, <2>6, WorkerMoves DEF Status
  <2>8. TypeOK'
    BY <1>2, <2>7 DEF LoadJob, TypeOK, rows, history
  <2>. QED  BY <2>7, <2>8
<1>3. CASE LoadExecution(w)
  <2>1. On(w) \in Executions /\ Busy(w)
    BY <1>0, <1>3 DEF LoadExecution, Busy
  <2>2. UNCHANGED <<submitting, broker>>
    BY <1>3 DEF LoadExecution
  <2>3. CASE Release(w) /\ UNCHANGED <<execution, loaded>>
    <3>1. task' \in [Workers -> Task] /\ PointInv' /\ HolderInv'
      BY <2>2, <2>3, ReleaseMoves DEF Status
    <3>2. TypeOK'
      BY <1>3, <2>3, <3>1 DEF LoadExecution, TypeOK
    <3>. QED  BY <3>1, <3>2
  <2>4. CASE /\ Release(w) /\ UNCHANGED loaded
             /\ execution' = [execution EXCEPT ![On(w)].status = "failure"]
    <3>1. \A e \in Executions : execution'[e].status = "none" => Status(e) = "none"
      BY <2>1, <2>4 DEF TypeOK, Status
    <3>2. task' \in [Workers -> Task] /\ PointInv' /\ HolderInv'
      BY <2>2, <2>4, <3>1, ReleaseMoves
    <3>3. TypeOK'
      BY <1>3, <2>1, <2>4, <3>2 DEF LoadExecution, TypeOK, Statuses, Completed, Failed
    <3>. QED  BY <3>2, <3>3
  <2>5. CASE /\ task[w].job # None /\ Goto(w, "start")
             /\ loaded' = [loaded EXCEPT ![On(w)] = task[w].job]
             /\ UNCHANGED execution
    <3>1. task[w].job \in JobConfig
      BY <1>0, <2>5 DEF Task
    <3>2. PointOK([task[w] EXCEPT !.pc = "start"])
      BY <1>0, <2>1, <3>1 DEF PointOK, Task, On
    <3>3. task' \in [Workers -> Task] /\ PointInv' /\ HolderInv'
      BY <2>1, <2>2, <2>5, <3>2, GotoMoves DEF Points, Status
    <3>4. TypeOK'
      BY <1>3, <2>1, <2>5, <3>1, <3>3 DEF LoadExecution, TypeOK
    <3>. QED  BY <3>3, <3>4
  <2>. QED  BY <1>3, <2>3, <2>4, <2>5 DEF LoadExecution
<1>4. CASE StartAttempt(w)
  <2>1. Busy(w) /\ PointOK([task[w] EXCEPT !.pc = "http"])
    BY <1>0, <1>4 DEF StartAttempt, Busy, PointOK, Task
  <2>2. task' \in [Workers -> Task] /\ PointInv' /\ HolderInv'
    BY <1>4, <2>1, GotoMoves DEF StartAttempt, Points, Status, rows
  <2>3. TypeOK'
    BY <1>0, <1>4, <2>1, <2>2, PublishTyped DEF StartAttempt, TypeOK, Statuses, rows
  <2>. QED  BY <2>2, <2>3
<1>5. CASE HttpOutcome(w)
  <2>1. PICK s \in Completed :
            task' = [task EXCEPT ![w].status = s, ![w].pc = "commit"]
    BY <1>5 DEF HttpOutcome
  <2>. DEFINE t == [task[w] EXCEPT !.status = s, !.pc = "commit"]
  <2>2. t \in Task /\ PointOK(t) /\ t.exec = task[w].exec
    BY <1>0, <1>5 DEF HttpOutcome, Task, PointOK, Points
  <2>3. task' = [task EXCEPT ![w] = t] /\ task[w].pc # "idle"
    BY <1>5, <2>1 DEF HttpOutcome
  <2>. HIDE DEF t
  <2>4. task' \in [Workers -> Task] /\ PointInv' /\ HolderInv'
    BY <1>5, <2>2, <2>3, WorkerMoves DEF HttpOutcome, Status, rows
  <2>5. TypeOK'
    BY <1>5, <2>4 DEF HttpOutcome, TypeOK, rows, history
  <2>. QED  BY <2>4, <2>5
<1>6. CASE CommitAttempt(w)
  <2>1. PICK alerts \in SUBSET Sources :
            /\ Raise(On(w), alerts)
            /\ task' = [task EXCEPT ![w].pc = "completed", ![w].alerts = alerts]
    BY <1>6 DEF CommitAttempt, AlertSets, FailureAlert, Sources
  <2>2. On(w) \in Executions /\ task[w].status \in Completed
    BY <1>0, <1>6 DEF CommitAttempt, Busy, PointOK
  <2>. DEFINE t == [task[w] EXCEPT !.pc = "completed", !.alerts = alerts]
  <2>3. t \in Task /\ PointOK(t) /\ t.exec = task[w].exec
    BY <1>0, <1>6 DEF CommitAttempt, Task, PointOK, Points
  <2>4. task' = [task EXCEPT ![w] = t] /\ task[w].pc # "idle"
    BY <1>6, <2>1 DEF CommitAttempt
  <2>5. \A e \in Executions : execution'[e].status = "none" => Status(e) = "none"
    BY <1>6, <2>2 DEF CommitAttempt, TypeOK, Status, Completed, Failed
  <2>. HIDE DEF t
  <2>6. task' \in [Workers -> Task] /\ PointInv' /\ HolderInv'
    BY <1>6, <2>3, <2>4, <2>5, WorkerMoves DEF CommitAttempt
  <2>7. created' \in [Executions -> [Sources -> Nat]]
    BY <2>1, <2>2 DEF Raise, TypeOK
  <2>8. execution' \in [Executions -> [status : Statuses, retry_attempt : 0 .. MaxRetryCount]]
    BY <1>0, <1>6, <2>2 DEF CommitAttempt, TypeOK, Statuses, Task
  <2>9. TypeOK'
    BY <1>6, <2>6, <2>7, <2>8 DEF CommitAttempt, TypeOK, history
  <2>. QED  BY <2>6, <2>9
<1>7. CASE PublishCompleted(w)
  <2>1. Busy(w) /\ On(w) \in Executions /\ task[w].status \in Completed
    BY <1>0, <1>7 DEF PublishCompleted, Busy, PointOK
  <2>2. UNCHANGED <<submitting, broker, execution>>
    BY <1>7 DEF PublishCompleted, rows
  <2>3. ASSUME NEW pc \in {"dispatch", "refresh"}, Goto(w, pc) PROVE IInv'
    <3>1. PointOK([task[w] EXCEPT !.pc = pc])
      BY <1>0, <1>7, <2>1, <2>3 DEF PublishCompleted, PointOK, Task, MustRetry
    <3>2. task' \in [Workers -> Task] /\ PointInv' /\ HolderInv'
      BY <2>1, <2>2, <2>3, <3>1, GotoMoves DEF Points, Status
    <3>3. TypeOK'
      BY <1>7, <2>1, <3>2, PublishTyped DEF PublishCompleted, TypeOK, Statuses, rows
    <3>. QED  BY <3>2, <3>3
  <2>. QED  BY <1>7, <2>3 DEF PublishCompleted
<1>8. CASE Refresh(w)
  <2>1. Busy(w) /\ On(w) \in Executions /\ task[w].status \in Completed
    BY <1>0, <1>8 DEF Refresh, Busy, PointOK
  <2>2. UNCHANGED <<submitting, broker, execution>>
    BY <1>8 DEF Refresh, rows
  <2>3. CASE Release(w)
    BY <2>2, <2>3, ReleaseMoves, <1>8, <2>1
    DEF Status, Refresh, TypeOK, Statuses, rows, history
  <2>4. ASSUME NEW pc \in {"retrying", "alerting"}, Goto(w, pc),
               pc = "retrying" => MustRetry(task[w])
        PROVE  IInv'
    <3>1. PointOK([task[w] EXCEPT !.pc = pc])
      BY <1>0, <1>8, <2>1, <2>4 DEF Refresh, PointOK, Task, MustRetry
    <3>2. task' \in [Workers -> Task] /\ PointInv' /\ HolderInv'
      BY <2>1, <2>2, <2>4, <3>1, GotoMoves DEF Points, Status
    <3>3. TypeOK'
      BY <1>8, <2>1, <3>2 DEF Refresh, TypeOK, Statuses, rows, history
    <3>. QED  BY <3>2, <3>3
  <2>. QED  BY <1>8, <2>3, <2>4 DEF Refresh
<1>. QED  BY <1>1, <1>2, <1>3, <1>4, <1>5, <1>6, <1>7, <1>8

---------------------------------------------------------------------------
\* What follows the decision: the retry, the alerts, the end of the task.
LEMMA OutcomeSteps ==
    ASSUME IInv, NEW w \in Workers,
           \/ CommitRetrying(w)
           \/ AnnounceRetrying(w)
           \/ CreateAlerts(w)
           \/ \E s \in Sources : Dispatch(w, s)
           \/ PublishFinal(w)
           \/ DatabaseRejects(w)
           \/ Abort(w)
           \/ DeadlockEndsTask(w)
    PROVE  IInv'
<1>. USE DEF IInv
<1>0. /\ task[w] \in Task /\ PointOK(task[w])
      /\ Busy(w) => On(w) \in Executions
  BY WorkerFacts
<1>1. CASE CommitRetrying(w)
  <2>1. Busy(w) /\ PointOK([task[w] EXCEPT !.pc = "announce"])
    BY <1>0, <1>1 DEF CommitRetrying, Busy, PointOK, MustRetry, Task
  <2>2. \A e \in Executions : execution'[e].status = "none" => Status(e) = "none"
    BY <1>0, <1>1, <2>1 DEF CommitRetrying, TypeOK, Status
  <2>3. task' \in [Workers -> Task] /\ PointInv' /\ HolderInv'
    BY <1>1, <2>1, <2>2, GotoMoves DEF CommitRetrying, Points
  <2>4. TypeOK'
    BY <1>0, <1>1, <2>1, <2>3 DEF CommitRetrying, TypeOK, Statuses, history
  <2>. QED  BY <2>3, <2>4
<1>2. CASE AnnounceRetrying(w)
  <2>1. Busy(w) /\ PointOK([task[w] EXCEPT !.pc = "retry"])
    BY <1>0, <1>2 DEF AnnounceRetrying, Busy, PointOK, MustRetry, Task
  <2>2. task' \in [Workers -> Task] /\ PointInv' /\ HolderInv'
    BY <1>2, <2>1, GotoMoves DEF AnnounceRetrying, Points, Status, rows
  <2>3. TypeOK'
    BY <1>0, <1>2, <2>1, <2>2, PublishTyped
       DEF AnnounceRetrying, TypeOK, Statuses, rows
  <2>. QED  BY <2>2, <2>3
<1>3. CASE CreateAlerts(w)
  <2>1. PICK alerts \in SUBSET Sources :
            /\ Raise(On(w), alerts)
            /\ task' = [task EXCEPT ![w].alerts = alerts,
                                    ![w].pc = IF alerts = {} THEN "final" ELSE "dispatch"]
    BY <1>3 DEF CreateAlerts, AlertSets, FailureAlert, Sources
  <2>. DEFINE t == [task[w] EXCEPT !.alerts = alerts,
                                   !.pc = IF alerts = {} THEN "final" ELSE "dispatch"]
  <2>2. t \in Task /\ PointOK(t) /\ t.exec = task[w].exec
    BY <1>0, <1>3 DEF CreateAlerts, Task, PointOK, Points
  <2>3. task' = [task EXCEPT ![w] = t] /\ task[w].pc # "idle"
    BY <1>3, <2>1 DEF CreateAlerts
  <2>. HIDE DEF t
  <2>4. task' \in [Workers -> Task] /\ PointInv' /\ HolderInv'
    BY <1>3, <2>2, <2>3, WorkerMoves DEF CreateAlerts, Status
  <2>5. created' \in [Executions -> [Sources -> Nat]]
    <3>1. On(w) \in Executions
      BY <1>0, <1>3 DEF CreateAlerts, Busy
    <3>. QED  BY <2>1, <3>1 DEF Raise, TypeOK
  <2>6. TypeOK'
    BY <1>3, <2>4, <2>5 DEF CreateAlerts, TypeOK, history
  <2>. QED  BY <2>4, <2>6
<1>4. ASSUME NEW s \in Sources, Dispatch(w, s) PROVE IInv'
  <2>1. Busy(w) /\ On(w) \in Executions /\ task[w].pc = "dispatch"
    BY <1>0, <1>4 DEF Dispatch, Busy
  <2>2. UNCHANGED <<submitting, broker, execution>>
    BY <1>4 DEF Dispatch, rows
  <2>3. task' \in [Workers -> Task] /\ PointInv' /\ HolderInv'
    <3>1. PICK left, pc :
             /\ left = task[w].alerts \ {s} /\ pc \in {"dispatch", "refresh", "final"}
             /\ task' = [task EXCEPT ![w].alerts = left, ![w].pc = pc]
      BY <1>4, <2>1 DEF Dispatch, AfterDispatch
    <3>. DEFINE t == [task[w] EXCEPT !.alerts = left, !.pc = pc]
    <3>2. t \in Task /\ PointOK(t) /\ t.exec = task[w].exec
      BY <1>0, <2>1, <3>1 DEF Task, PointOK, Points
    <3>3. task' = [task EXCEPT ![w] = t] /\ task[w].pc # "idle"
      BY <2>1, <3>1
    <3>. HIDE DEF t
    <3>. QED  BY <2>2, <3>2, <3>3, WorkerMoves DEF Status
  <2>4. dispatched' \in [Executions -> [Sources -> Nat]]
    <3>1. dispatched' = [dispatched EXCEPT ![On(w)][s] = @ + 1]
      BY <1>4 DEF Dispatch
    <3>. QED  BY <2>1, <3>1 DEF TypeOK
  <2>5. TypeOK'
    BY <1>4, <2>3, <2>4 DEF Dispatch, TypeOK, rows, history
  <2>. QED  BY <2>3, <2>5
<1>5. CASE PublishFinal(w)
  <2>1. On(w) \in Executions /\ task[w].status \in Completed
    BY <1>0, <1>5 DEF PublishFinal, Busy, PointOK
  <2>2. task' \in [Workers -> Task] /\ PointInv' /\ HolderInv'
    BY <1>5, ReleaseMoves DEF PublishFinal, Status, rows
  <2>3. TypeOK'
    BY <1>5, <2>1, <2>2, PublishTyped DEF PublishFinal, TypeOK, Statuses, rows
  <2>. QED  BY <2>2, <2>3
<1>6. CASE DatabaseRejects(w)
  <2>1. task' \in [Workers -> Task] /\ PointInv' /\ HolderInv'
    BY <1>6, ReleaseMoves DEF DatabaseRejects, Status, rows
  <2>2. TypeOK'
    BY <1>6, <2>1 DEF DatabaseRejects, TypeOK, rows, history
  <2>. QED  BY <2>1, <2>2
<1>7. CASE Abort(w)
  <2>1. task' \in [Workers -> Task] /\ PointInv' /\ HolderInv'
    BY <1>7, ReleaseMoves DEF Abort, Status, rows
  <2>2. TypeOK'
    BY <1>0, <1>7, <2>1, BoundAssumption DEF Abort, TypeOK, rows
  <2>. QED  BY <2>1, <2>2
<1>8. CASE DeadlockEndsTask(w)
  <2>1. task' \in [Workers -> Task] /\ PointInv' /\ HolderInv'
    BY <1>8, ReleaseMoves DEF DeadlockEndsTask, Status, rows
  <2>2. TypeOK'
    BY <1>0, <1>8, <2>1 DEF DeadlockEndsTask, Deadlocked, Busy, TypeOK, rows
  <2>. QED  BY <2>1, <2>2
<1>. QED  BY <1>1, <1>2, <1>3, <1>4, <1>5, <1>6, <1>7, <1>8

\* The retry hands the execution from the worker to its new message.
LEMMA RetryStep ==
    ASSUME IInv, NEW w \in Workers, Retry(w)
    PROVE  IInv'
<1>. USE DEF IInv
<1>. DEFINE m == [exec |-> On(w), retries |-> task[w].retries + 1]
<1>0. /\ task[w] \in Task /\ PointOK(task[w])
      /\ Busy(w) /\ On(w) \in Executions
  BY WorkerFacts DEF Retry, Busy
<1>1. m \in Message
  <2>1. task[w].job \in JobConfig /\ task[w].retries < task[w].job.retry_count
    BY <1>0 DEF Retry, PointOK, MustRetry
  <2>2. task[w].retries \in Nat /\ task[w].retries + 1 \in 0 .. MaxRetryCount
    BY <1>0, <2>1, BoundAssumption DEF Task, JobConfig
  <2>. QED  BY <1>0, <2>2 DEF Message
<1>2. /\ task' \in [Workers -> Task] /\ PointInv'
      /\ task'[w] = Idle
      /\ \A v \in Workers \ {w} : task'[v] = task[v]
  BY IdleTask, TaskStep DEF Retry, Release
<1>3. broker' = broker \cup {m} /\ UNCHANGED <<submitting, execution>>
  BY DEF Retry, rows
<1>4. TypeOK'
  BY <1>1, <1>2, <1>3 DEF Retry, TypeOK, rows, history
<1>5. m.exec = task[w].exec /\ task[w].pc # "idle"
  BY <1>0 DEF On, Busy
<1>. HIDE DEF m
<1>6. SingleHolder'
  <2>1. /\ SingleHolder
        /\ task'[w].pc = "idle"
    BY <1>2, IdleTask DEF HolderInv
  <2>2. /\ m.exec \notin submitting
        /\ \A n \in broker : n.exec # m.exec
        /\ \A v \in Workers \ {w} : task[v].pc # "idle" => task[v].exec # m.exec
    BY <1>5, <2>1 DEF SingleHolder, Busy, On
  <2>. QED  BY <1>2, <1>3, <2>1, <2>2 DEF SingleHolder, Busy, On
<1>7. NoneUnheld'
  <2>1. \A e \in Executions : Held(e)' => Held(e)
    BY <1>2, <1>3, <1>5, IdleTask DEF Held, Busy, On
  <2>. QED  BY <1>3, <2>1 DEF HolderInv, NoneUnheld, Status
<1>. QED  BY <1>2, <1>4, <1>6, <1>7 DEF HolderInv

\* A step of the API on the rows of jobs and their executions.
RowsStep ==
    /\ UNCHANGED <<task, submitting, broker, created, dispatched, event, missed, lost,
                   loaded, faults>>
    /\ job' \in [Jobs -> JobConfig \cup {None}]
    /\ deleting' \subseteq Jobs
    /\ execution' \in [Executions -> [status : Statuses, retry_attempt : 0 .. MaxRetryCount]]
    /\ \A e \in Executions : execution'[e].status = "none" => Status(e) = "none"

\* PATCH and DELETE of a job, and the deadlock that ends a DELETE.
LEMMA JobSteps ==
    ASSUME IInv,
           \/ \E j \in Jobs : UpdateJob(j) \/ DeleteWaits(j) \/ DeleteJob(j)
           \/ \E w \in Workers : DeadlockEndsDelete(w)
    PROVE  IInv'
<1>. USE DEF IInv
<1>1. RowsStep
  <2>1. ASSUME NEW j \in Jobs, UpdateJob(j) PROVE RowsStep
    BY <2>1 DEF RowsStep, UpdateJob, TypeOK, Status, history
  <2>2. ASSUME NEW j \in Jobs, DeleteWaits(j) PROVE RowsStep
    BY <2>2 DEF RowsStep, DeleteWaits, TypeOK, Status, rows, history
  <2>3. ASSUME NEW j \in Jobs, DeleteJob(j) PROVE RowsStep
    <3>1. execution' = [e \in Executions |->
                          IF JobOf[e] = j /\ Exists(e)
                          THEN [execution[e] EXCEPT !.status = "deleted"]
                          ELSE execution[e]]
      BY <2>3 DEF DeleteJob
    <3>2. ASSUME NEW e \in Executions
          PROVE  /\ [execution[e] EXCEPT !.status = "deleted"]
                      \in [status : Statuses, retry_attempt : 0 .. MaxRetryCount]
                 /\ [execution[e] EXCEPT !.status = "deleted"].status # "none"
      BY DEF TypeOK, Statuses
    <3>3. execution' \in [Executions ->
                            [status : Statuses, retry_attempt : 0 .. MaxRetryCount]]
      BY <3>1, <3>2 DEF TypeOK
    <3>4. \A e \in Executions : execution'[e].status = "none" => Status(e) = "none"
      BY <3>1, <3>2 DEF Status
    <3>5. /\ job' \in [Jobs -> JobConfig \cup {None}]
          /\ deleting' \subseteq Jobs
      BY <2>3 DEF DeleteJob, TypeOK
    <3>. QED  BY <2>3, <3>3, <3>4, <3>5 DEF RowsStep, DeleteJob, history
  <2>4. ASSUME NEW w \in Workers, DeadlockEndsDelete(w) PROVE RowsStep
    BY <2>4 DEF RowsStep, DeadlockEndsDelete, TypeOK, Status, rows, history
  <2>. QED  BY <2>1, <2>2, <2>3, <2>4
<1>2. TypeOK'
  BY <1>1 DEF RowsStep, TypeOK
<1>3. PointInv'
  BY <1>1 DEF RowsStep, PointInv, PointOK, MustRetry
<1>4. HolderInv'
  BY <1>1, HoldersKept DEF RowsStep
<1>. QED  BY <1>2, <1>3, <1>4

---------------------------------------------------------------------------
LEMMA NextInv == IInv /\ [Next]_vars => IInv'
<1>. SUFFICES ASSUME IInv, [Next]_vars PROVE IInv'
  OBVIOUS
<1>1. ASSUME NEW w \in Workers, WorkerStep(w) PROVE IInv'
  BY <1>1, AttemptSteps, OutcomeSteps, RetryStep DEF WorkerStep
<1>2. CASE UNCHANGED vars
  <2>1. TypeOK'
    BY <1>2 DEF vars, IInv, TypeOK
  <2>2. PointInv'
    BY <1>2 DEF vars, IInv, PointInv, PointOK, MustRetry
  <2>3. HolderInv'
    BY <1>2, HoldersKept DEF vars, IInv, Status
  <2>. QED  BY <2>1, <2>2, <2>3 DEF IInv
<1>3. CASE Next
  BY <1>1, <1>3, HandlerSteps, TakeSteps, OutcomeSteps, JobSteps DEF Next
<1>. QED  BY <1>2, <1>3

LEMMA InductiveInvariant == Spec => []IInv
BY InitInv, NextInv, PTL DEF Spec

\* Every variable of the execution life cycle keeps its type.
THEOREM TypeCorrect == Spec => []TypeOK
BY InductiveInvariant, PTL DEF IInv

\* The handler, the queue and the workers exclude one another on every execution:
\* whatever the interleaving of submissions, retries, crashes, deadlocks and
\* deletions, no two attempts of one execution ever run at the same time.
THEOREM AttemptsExcludeOneAnother == Spec => []SingleHolder
BY InductiveInvariant, PTL DEF IInv, HolderInv

---------------------------------------------------------------------------
(* What an execution leaves behind: its row, alerts and events           *)

\* No alert of the execution has been raised.
Quiet(e) == \A s \in Sources : created[e][s] = 0 /\ dispatched[e][s] = 0

\* The execution waits for the attempt with this number.
Waiting(e, number) ==
    /\ Quiet(e)
    /\ Status(e) \in {"queued", "retrying", "deleted"}
    /\ Status(e) = "queued" => number = 0
    /\ Status(e) = "retrying" => number = execution[e].retry_attempt + 1

\* Alerts as the outcome in t asks for them; those in t.alerts are still to be dispatched.
Alerted(e, t) ==
    /\ created[e]["job_execution"] = IF FailureAlert(t) = {} THEN 0 ELSE 1
    /\ \A s \in Sources :
          /\ created[e][s] \in {0, 1}
          /\ s \in t.alerts => created[e][s] = 1 /\ dispatched[e][s] = 0
          /\ s \notin t.alerts => dispatched[e][s] = created[e][s]

\* The last event of the execution said so, unless Redis refused it.
Announced(e, status) == event[e] = status \/ e \in missed

\* What holds of an execution while a task t has it.
Working(e, t) ==
    /\ t.pc = "create" => Status(e) = "none" /\ Quiet(e) /\ t.retries = 0
    /\ t.pc \in {"load_job", "load_execution", "start", "http", "commit"} =>
          Waiting(e, t.retries)
    /\ t.pc = "load_execution" /\ t.job = None => Status(e) = "deleted"
    /\ t.pc \in {"http", "commit"} => Status(e) # "deleted"
    /\ t.pc \notin {"create", "load_job", "load_execution"} => loaded[e] = t.job
    /\ t.pc \in {"completed", "dispatch", "refresh", "retrying", "alerting", "final"} =>
          Status(e) \in {t.status, "deleted"}
    /\ t.pc \in {"announce", "retry"} => Status(e) \in {"retrying", "deleted"}
    /\ t.pc \in {"completed", "dispatch", "refresh", "retrying", "announce", "retry",
                 "alerting", "final"} => execution[e].retry_attempt = t.retries
    /\ t.pc \in {"retrying", "announce", "retry", "alerting"} => Quiet(e)
    /\ t.pc \in {"completed", "refresh"} =>
          IF Mode = "inline" THEN Alerted(e, t) ELSE Quiet(e) /\ t.alerts = {}
    /\ t.pc \in {"dispatch", "final"} => Alerted(e, t)
    /\ t.pc \in {"refresh", "final"} => t.alerts = {}
    /\ t.pc \in {"alerting", "dispatch", "final"} => Mode = "inline" \/ ~MustRetry(t)
    /\ t.pc \in {"dispatch", "refresh", "retrying", "alerting", "final"} =>
          Announced(e, t.status)

\* What holds of an execution with which nobody goes on.
Sound(e) ==
    /\ \A s \in Sources : dispatched[e][s] <= created[e][s] /\ created[e][s] <= 1
    /\ created[e]["job_execution"] > 0 => Status(e) \in Failed \cup {"deleted"}
    /\ Status(e) = "none" => Quiet(e)

Finished(e) ==
    /\ Status(e) \notin {"queued", "retrying"}
    /\ \A s \in Sources : dispatched[e][s] = created[e][s]
    /\ Status(e) \in Completed =>
          /\ Announced(e, Status(e))
          /\ created[e]["job_execution"] =
                IF Status(e) \in Failed /\ loaded[e].alert_on_failure THEN 1 ELSE 0
          /\ Mode = "celery" /\ Status(e) \in Failed =>
                execution[e].retry_attempt >= loaded[e].retry_count

\* The attempt before the one with this number was allowed to ask for it.
Allowed(e, number) == number > 0 => number <= loaded[e].retry_count

ExecutionOK(e) ==
    /\ e \in submitting => Waiting(e, 0)
    /\ \A m \in broker : m.exec = e => Waiting(e, m.retries) /\ Allowed(e, m.retries)
    /\ \A w \in Workers : Busy(w) /\ On(w) = e => Working(e, task[w])
    /\ ~Held(e) => Sound(e) /\ (e \notin lost => Finished(e))

\* The foreign key: a row has its job.
RowsHaveJobs == \A e \in Executions : Exists(e) => job[JobOf[e]] # None

OutcomeInv == IInv /\ RowsHaveJobs /\ \A e \in Executions : ExecutionOK(e)

LEMMA OutcomeInit == Init => OutcomeInv
<1>. SUFFICES ASSUME Init PROVE OutcomeInv
  OBVIOUS
<1>1. RowsHaveJobs
  BY DEF Init, RowsHaveJobs, Exists, Status
<1>2. ASSUME NEW e \in Executions PROVE ExecutionOK(e)
  <2>1. Sound(e) /\ Finished(e)
    BY DEF Init, Sound, Finished, Quiet, Sources, Status, Completed, Failed
  <2>2. \A w \in Workers : ~Busy(w)
    BY IdleTask DEF Init, Busy
  <2>. QED  BY <2>1, <2>2 DEF Init, ExecutionOK
<1>. QED  BY <1>1, <1>2, InitInv DEF OutcomeInv

---------------------------------------------------------------------------
\* What is known of the execution of a worker that has one.
LEMMA Holding ==
    ASSUME OutcomeInv, NEW w \in Workers, Busy(w)
    PROVE  /\ On(w) \in Executions
           /\ task[w] \in Task /\ PointOK(task[w])
           /\ Working(On(w), task[w])
<1>1. On(w) \in Executions /\ task[w] \in Task /\ PointOK(task[w])
  BY WorkerFacts DEF OutcomeInv
<1>. QED  BY <1>1 DEF OutcomeInv, ExecutionOK

\* The step changes nothing that is known of execution x.
LeavesAlone(x) ==
    /\ execution'[x] = execution[x]
    /\ created'[x] = created[x] /\ dispatched'[x] = dispatched[x]
    /\ event'[x] = event[x] /\ loaded'[x] = loaded[x]
    /\ x \in lost' <=> x \in lost
    /\ x \in missed' <=> x \in missed

\* An execution that is left alone and stays in the same hands.
LEMMA OthersKept ==
    ASSUME NEW x \in Executions, ExecutionOK(x), LeavesAlone(x),
           x \in submitting' <=> x \in submitting,
           \A m \in broker \cup broker' : m.exec = x => (m \in broker <=> m \in broker'),
           \A v \in Workers :
              \/ task'[v] = task[v]
              \/ ~(task[v].pc # "idle" /\ task[v].exec = x)
                 /\ ~(task'[v].pc # "idle" /\ task'[v].exec = x)
    PROVE  ExecutionOK(x)'
<1>1. \A number : /\ Waiting(x, number) => Waiting(x, number)'
                  /\ Allowed(x, number) => Allowed(x, number)'
  BY DEF LeavesAlone, Waiting, Allowed, Quiet, Status
<1>2. \A t : Working(x, t) => Working(x, t)'
  BY DEF LeavesAlone, Working, Waiting, Alerted, Announced, Quiet, Status
<1>3. ~Held(x)' => ~Held(x)
  BY DEF Held, Busy, On
<1>4. (Sound(x) => Sound(x)') /\ (Finished(x) => Finished(x)')
  BY DEF LeavesAlone, Sound, Finished, Announced, Quiet, Status
<1>5. x \in submitting' => Waiting(x, 0)'
  BY <1>1 DEF ExecutionOK
<1>6. \A m \in broker' : m.exec = x => Waiting(x, m.retries)' /\ Allowed(x, m.retries)'
  BY <1>1 DEF ExecutionOK
<1>7. ASSUME NEW w \in Workers, Busy(w)', On(w)' = x PROVE Working(x, task[w])'
  <2>1. task'[w] = task[w] /\ Working(x, task[w])
    BY <1>7 DEF ExecutionOK, Busy, On
  <2>2. Working(x, task'[w])
    BY <2>1
  <2>3. PICK t : t = task'[w]
    OBVIOUS
  <2>4. Working(x, t)'
    BY <1>2, <2>2, <2>3
  <2>. QED  BY <2>3, <2>4 DEF Working, Alerted, FailureAlert, MustRetry
<1>8. ~Held(x)' => Sound(x)' /\ (x \notin lost' => Finished(x)')
  BY <1>3, <1>4 DEF ExecutionOK, LeavesAlone
<1>. QED  BY <1>5, <1>6, <1>7, <1>8 DEF ExecutionOK

\* An execution that is in the hands of one worker.
LEMMA HeldByWorker ==
    ASSUME SingleHolder', NEW w \in Workers, NEW e \in Executions, NEW t,
           task'[w] = t, t.pc # "idle", t.exec = e, Working(e, t)'
    PROVE  ExecutionOK(e)'
<1>1. /\ e \notin submitting'
      /\ \A m \in broker' : m.exec # e
      /\ \A v \in Workers \ {w} : ~(Busy(v)' /\ On(v)' = e)
      /\ Held(e)'
  BY DEF SingleHolder, Busy, On, Held
<1>2. Working(e, task[w])'
  BY DEF Working, Alerted, FailureAlert, MustRetry
<1>. QED  BY <1>1, <1>2 DEF ExecutionOK

\* A worker goes on with its execution, or lets go of it; nothing else moves.
LEMMA WorkerActs ==
    ASSUME OutcomeInv, IInv', NEW w \in Workers, Busy(w), NEW t, NEW e, e = On(w),
           task' = [task EXCEPT ![w] = t],
           UNCHANGED <<submitting, broker>>,
           \A x \in Executions \ {e} : LeavesAlone(x),
           t.pc # "idle" => t.exec = e /\ Working(e, t)',
           t.pc = "idle" => Sound(e)' /\ (e \notin lost' => Finished(e)')
    PROVE  \A x \in Executions : ExecutionOK(x)'
<1>1. e \in Executions /\ task[w].exec = e /\ task[w].pc # "idle"
  BY Holding DEF On, Busy
<1>2. task'[w] = t /\ \A v \in Workers \ {w} : task'[v] = task[v]
  BY DEF OutcomeInv, IInv, TypeOK
<1>3. ASSUME NEW x \in Executions \ {e} PROVE ExecutionOK(x)'
  <2>1. ExecutionOK(x) /\ LeavesAlone(x)
    BY <1>3 DEF OutcomeInv
  <2>. QED  BY <1>1, <1>2, <1>3, <2>1, OthersKept
<1>4. CASE t.pc # "idle"
  <2>1. ExecutionOK(e)'
    BY <1>1, <1>2, <1>4, HeldByWorker DEF IInv, HolderInv
  <2>. QED  BY <1>3, <2>1
<1>5. CASE t.pc = "idle"
  <2>1. /\ e \notin submitting
        /\ \A m \in broker : m.exec # e
        /\ \A v \in Workers \ {w} : ~(task[v].pc # "idle" /\ task[v].exec = e)
    BY <1>1 DEF OutcomeInv, IInv, HolderInv, SingleHolder, Busy, On
  <2>2. /\ e \notin submitting'
        /\ \A m \in broker' : m.exec # e
        /\ \A v \in Workers : ~(Busy(v)' /\ On(v)' = e)
    BY <1>2, <1>5, <2>1 DEF Busy, On
  <2>3. ExecutionOK(e)'
    BY <1>5, <2>2 DEF ExecutionOK
  <2>. QED  BY <1>3, <2>3
<1>. QED  BY <1>4, <1>5

\* Whatever a worker has reached, what it leaves is sound.
LEMMA WorkingIsSound ==
    ASSUME TypeOK, NEW e \in Executions, NEW t \in Task, t.pc # "idle", PointOK(t),
           Working(e, t)
    PROVE  Sound(e)
<1>1. ASSUME Quiet(e) PROVE Sound(e)
  BY <1>1 DEF Sound, Quiet, Sources
<1>2. ASSUME Alerted(e, t), Status(e) \in {t.status, "deleted"}, t.status \in Completed
      PROVE  Sound(e)
  BY <1>2 DEF Sound, Alerted, FailureAlert, Sources, Completed, Failed
<1>3. \/ t.pc \in {"create", "load_job", "load_execution", "start", "http", "commit",
                   "retrying", "announce", "retry", "alerting"}
      \/ t.pc \in {"completed", "refresh"} /\ Mode = "celery"
      => Quiet(e)
  BY DEF Working, Waiting
<1>4. \/ t.pc \in {"dispatch", "final"}
      \/ t.pc \in {"completed", "refresh"} /\ Mode = "inline"
      => Alerted(e, t) /\ Status(e) \in {t.status, "deleted"} /\ t.status \in Completed
  BY DEF Working, PointOK
<1>. QED  BY <1>1, <1>2, <1>3, <1>4, ModeAssumption DEF Task, Points

---------------------------------------------------------------------------
\* What the publishing of an event leaves behind.
LEMMA OthersUnannounced ==
    ASSUME TypeOK, NEW e \in Executions, NEW s, Publish(e, s)
    PROVE  /\ \A x \in Executions \ {e} : /\ event'[x] = event[x]
                                          /\ x \in missed' <=> x \in missed
           /\ Announced(e, s)'
BY DEF TypeOK, Publish, Announced

\* The steps up to the start of an attempt.
LEMMA LoadOutcome ==
    ASSUME OutcomeInv, IInv', NEW w \in Workers,
           CreateInline(w) \/ LoadJob(w) \/ LoadExecution(w) \/ StartAttempt(w)
    PROVE  \A x \in Executions : ExecutionOK(x)'
<1>0. Busy(w)
  BY DEF CreateInline, LoadJob, LoadExecution, StartAttempt, Busy
<1>1. PICK e, q : e \in Executions /\ e = On(w) /\ q = task[w] /\ q.exec = e
  BY <1>0, Holding DEF On
<1>. e \in Executions
  BY <1>1
<1>2. q \in Task /\ PointOK(q) /\ Working(e, q)
  BY <1>0, <1>1, Holding
<1>3. CASE CreateInline(w)
  <2>0. PICK t : t = [q EXCEPT !.pc = "start"]
    OBVIOUS
  <2>1. task' = [task EXCEPT ![w] = t] /\ q.pc = "create"
    BY <1>1, <1>3, <2>0 DEF CreateInline, Goto
  <2>2. t.pc = "start" /\ t.exec = e /\ t.retries = q.retries /\ t.job = q.job
    BY <1>1, <1>2, <2>0 DEF Task
  <2>3. Quiet(e)' /\ execution'[e].status = "queued" /\ loaded'[e] = t.job /\ q.retries = 0
    BY <1>1, <1>2, <1>3, <2>1, <2>2
       DEF CreateInline, Working, Quiet, OutcomeInv, IInv, TypeOK
  <2>4. Working(e, t)'
    BY <2>2, <2>3 DEF Working, Waiting, Status
  <2>5. \A x \in Executions \ {e} : LeavesAlone(x)
    BY <1>1, <1>3 DEF CreateInline, LeavesAlone, OutcomeInv, IInv, TypeOK
  <2>. QED  BY <1>0, <1>1, <1>3, <2>1, <2>2, <2>4, <2>5, WorkerActs DEF CreateInline
<1>4. CASE LoadJob(w)
  <2>0. PICK t : t = [q EXCEPT !.job = job[JobOf[e]], !.pc = "load_execution"]
    OBVIOUS
  <2>1. task' = [task EXCEPT ![w] = t] /\ q.pc = "load_job"
    BY <1>1, <1>4, <2>0 DEF LoadJob
  <2>2. /\ t.pc = "load_execution" /\ t.exec = e /\ t.retries = q.retries
        /\ t.job = job[JobOf[e]]
    BY <1>1, <1>2, <2>0 DEF Task
  <2>3. Waiting(e, t.retries) /\ (t.job = None => Status(e) = "deleted")
    BY <1>2, <2>1, <2>2 DEF Working, Waiting, OutcomeInv, RowsHaveJobs, Exists
  <2>4. \A x \in Executions : LeavesAlone(x)
    BY <1>4 DEF LoadJob, LeavesAlone, rows, history
  <2>5. Working(e, t)'
    BY <2>2, <2>3, <2>4 DEF Working, Waiting, Quiet, Status, LeavesAlone
  <2>. QED  BY <1>0, <1>1, <1>4, <2>1, <2>2, <2>4, <2>5, WorkerActs DEF LoadJob
<1>5. CASE LoadExecution(w)
  <2>1. q.pc = "load_execution" /\ Waiting(e, q.retries)
        /\ (q.job = None => Status(e) = "deleted")
    BY <1>1, <1>2, <1>5 DEF LoadExecution, Working
  <2>2. CASE ~Exists(e) /\ Release(w) /\ UNCHANGED <<execution, loaded>>
    <3>1. \A x \in Executions : LeavesAlone(x)
      BY <1>5, <2>2 DEF LoadExecution, LeavesAlone
    <3>2. Status(e) = "deleted" /\ Quiet(e)
      BY <2>1, <2>2 DEF Waiting, Exists
    <3>3. Sound(e)' /\ Finished(e)'
      BY <3>1, <3>2 DEF LeavesAlone, Sound, Finished, Quiet, Sources, Status, Completed, Failed
    <3>. QED  BY <1>0, <1>1, <1>5, <2>2, <3>1, <3>3, IdleTask, WorkerActs
              DEF LoadExecution, Release
  <2>3. CASE /\ Exists(e) /\ Goto(w, "start")
             /\ loaded' = [loaded EXCEPT ![e] = q.job] /\ UNCHANGED execution
    <3>0. PICK t : t = [q EXCEPT !.pc = "start"]
      OBVIOUS
    <3>1. task' = [task EXCEPT ![w] = t]
      BY <1>1, <2>3, <3>0 DEF Goto
    <3>2. t.pc = "start" /\ t.exec = e /\ t.retries = q.retries /\ t.job = q.job
      BY <1>1, <1>2, <3>0 DEF Task
    <3>3. \A x \in Executions \ {e} : LeavesAlone(x)
      BY <1>5, <2>3 DEF LoadExecution, LeavesAlone, OutcomeInv, IInv, TypeOK
    <3>4. Waiting(e, t.retries)' /\ loaded'[e] = t.job
      BY <1>5, <2>1, <2>3, <3>2
         DEF LoadExecution, Waiting, Quiet, Status, OutcomeInv, IInv, TypeOK
    <3>5. Working(e, t)'
      BY <3>2, <3>4 DEF Working
    <3>. QED  BY <1>0, <1>1, <1>5, <3>1, <3>2, <3>3, <3>5, WorkerActs DEF LoadExecution
  <2>. QED  BY <1>1, <1>5, <2>1, <2>2, <2>3 DEF LoadExecution, Exists
<1>6. CASE StartAttempt(w)
  <2>0. PICK t : t = [q EXCEPT !.pc = "http"]
    OBVIOUS
  <2>1. task' = [task EXCEPT ![w] = t] /\ q.pc = "start" /\ Exists(e)
    BY <1>1, <1>6, <2>0 DEF StartAttempt, Goto
  <2>2. t.pc = "http" /\ t.exec = e /\ t.retries = q.retries /\ t.job = q.job
    BY <1>1, <1>2, <2>0 DEF Task
  <2>3. /\ UNCHANGED <<execution, created, dispatched, loaded, lost>>
        /\ Publish(e, "running")
    BY <1>1, <1>6 DEF StartAttempt, rows
  <2>4. Waiting(e, t.retries) /\ Status(e) # "deleted" /\ loaded[e] = t.job
    BY <1>2, <2>1, <2>2 DEF Working, Exists
  <2>5. Working(e, t)'
    BY <2>2, <2>3, <2>4 DEF Working, Waiting, Quiet, Status
  <2>6. \A x \in Executions \ {e} : LeavesAlone(x)
    BY <2>3, OthersUnannounced DEF LeavesAlone, OutcomeInv, IInv
  <2>. QED  BY <1>0, <1>1, <1>6, <2>1, <2>2, <2>5, <2>6, WorkerActs DEF StartAttempt
<1>. QED  BY <1>3, <1>4, <1>5, <1>6

---------------------------------------------------------------------------
LEMMA FailureIsAlerted ==
    ASSUME NEW t, NEW alerts \in AlertSets(t)
    PROVE  /\ alerts \subseteq Sources
           /\ "job_execution" \in alerts <=> FailureAlert(t) # {}
<1>1. PICK rule \in SUBSET {"alert_rule"} : alerts = FailureAlert(t) \cup rule
  BY DEF AlertSets
<1>2. FailureAlert(t) \subseteq {"job_execution"}
  BY DEF FailureAlert
<1>. QED  BY <1>1, <1>2 DEF Sources

\* An execution for which the alerts in t have just been raised.
LEMMA RaisedIsAlerted ==
    ASSUME TypeOK, NEW e \in Executions, Quiet(e), NEW t, t.alerts \in AlertSets(t),
           Raise(e, t.alerts), UNCHANGED dispatched
    PROVE  Alerted(e, t)'
<1>1. \A s \in Sources : /\ created'[e][s] = IF s \in t.alerts THEN 1 ELSE 0
                         /\ dispatched'[e][s] = 0
  BY DEF Raise, Quiet, TypeOK
<1>2. "job_execution" \in t.alerts <=> FailureAlert(t) # {}
  BY FailureIsAlerted
<1>. QED  BY <1>1, <1>2 DEF Alerted, FailureAlert, Sources

\* The outcome of an attempt, its commit and the decision what follows.
LEMMA AttemptOutcome ==
    ASSUME OutcomeInv, IInv', NEW w \in Workers,
           HttpOutcome(w) \/ CommitAttempt(w) \/ PublishCompleted(w) \/ Refresh(w)
    PROVE  \A x \in Executions : ExecutionOK(x)'
<1>0. Busy(w)
  BY DEF HttpOutcome, CommitAttempt, PublishCompleted, Refresh, Busy
<1>1. PICK e, q : e \in Executions /\ e = On(w) /\ q = task[w] /\ q.exec = e
  BY <1>0, Holding DEF On
<1>. e \in Executions
  BY <1>1
<1>2. q \in Task /\ PointOK(q) /\ Working(e, q)
  BY <1>0, <1>1, Holding
<1>3. TypeOK
  BY DEF OutcomeInv, IInv
<1>4. CASE HttpOutcome(w)
  <2>1. PICK s \in Completed :
            task' = [task EXCEPT ![w].status = s, ![w].pc = "commit"]
    BY <1>4 DEF HttpOutcome
  <2>2. PICK t : t = [q EXCEPT !.status = s, !.pc = "commit"]
    OBVIOUS
  <2>3. task' = [task EXCEPT ![w] = t] /\ q.pc = "http"
    BY <1>1, <1>4, <2>1, <2>2 DEF HttpOutcome
  <2>4. t.pc = "commit" /\ t.exec = e /\ t.retries = q.retries /\ t.job = q.job
    BY <1>1, <1>2, <2>2 DEF Task
  <2>5. UNCHANGED <<execution, created, dispatched, event, missed, loaded, lost>>
    BY <1>4 DEF HttpOutcome, rows, history
  <2>6. Working(e, t)'
    BY <1>2, <2>3, <2>4, <2>5 DEF Working, Waiting, Quiet, Status
  <2>7. \A x \in Executions \ {e} : LeavesAlone(x)
    BY <2>5 DEF LeavesAlone
  <2>. QED  BY <1>0, <1>1, <1>4, <2>3, <2>4, <2>6, <2>7, WorkerActs DEF HttpOutcome
<1>5. CASE CommitAttempt(w)
  <2>1. PICK alerts \in IF Mode = "inline" THEN AlertSets(q) ELSE {{}} :
            /\ Raise(e, alerts)
            /\ task' = [task EXCEPT ![w].pc = "completed", ![w].alerts = alerts]
    BY <1>1, <1>5 DEF CommitAttempt
  <2>2. PICK t : t = [q EXCEPT !.pc = "completed", !.alerts = alerts]
    OBVIOUS
  <2>3. task' = [task EXCEPT ![w] = t] /\ q.pc = "commit"
    BY <1>1, <1>5, <2>1, <2>2 DEF CommitAttempt
  <2>4. /\ t.pc = "completed" /\ t.exec = e /\ t.retries = q.retries /\ t.job = q.job
        /\ t.status = q.status /\ t.alerts = alerts
    BY <1>1, <1>2, <2>2 DEF Task
  <2>5. /\ execution' = [execution EXCEPT ![e] =
                           [status |-> q.status, retry_attempt |-> q.retries]]
        /\ UNCHANGED <<dispatched, event, missed, loaded, lost>>
    BY <1>1, <1>5 DEF CommitAttempt, history
  <2>6. Quiet(e) /\ loaded[e] = t.job
    BY <1>2, <2>3, <2>4 DEF Working, Waiting
  <2>7. IF Mode = "inline" THEN Alerted(e, t)' ELSE Quiet(e)' /\ t.alerts = {}
    <3>1. CASE Mode = "inline"
      <4>1. t.alerts \in AlertSets(t) /\ Raise(e, t.alerts)
        BY <2>1, <2>4, <3>1 DEF AlertSets, FailureAlert
      <4>. QED  BY <1>3, <2>5, <2>6, <3>1, <4>1, RaisedIsAlerted
    <3>2. CASE Mode # "inline"
      BY <1>3, <2>1, <2>4, <2>5, <2>6, <3>2 DEF Raise, Quiet, TypeOK
    <3>. QED  BY <3>1, <3>2
  <2>8. Status(e)' = t.status /\ execution'[e].retry_attempt = t.retries
    BY <1>3, <2>4, <2>5 DEF Status, TypeOK
  <2>9. Working(e, t)'
    BY <2>4, <2>5, <2>6, <2>7, <2>8 DEF Working
  <2>10. \A x \in Executions \ {e} : LeavesAlone(x)
    BY <1>3, <2>1, <2>5 DEF LeavesAlone, Raise, TypeOK
  <2>. QED  BY <1>0, <1>1, <1>5, <2>3, <2>4, <2>9, <2>10, WorkerActs DEF CommitAttempt
<1>6. CASE PublishCompleted(w)
  <2>1. /\ q.pc = "completed"
        /\ Publish(e, q.status)
        /\ UNCHANGED <<execution, created, dispatched, loaded, lost>>
    BY <1>1, <1>6 DEF PublishCompleted, rows
  <2>2. \A x \in Executions \ {e} : LeavesAlone(x)
    BY <1>3, <2>1, OthersUnannounced DEF LeavesAlone
  <2>3. Announced(e, q.status)'
    BY <1>3, <2>1, OthersUnannounced
  <2>4. PICK pc \in {"dispatch", "refresh"} :
           Goto(w, pc) /\ (pc = "refresh" <=> q.alerts = {})
    BY <1>1, <1>6 DEF PublishCompleted
  <2>5. PICK t : t = [q EXCEPT !.pc = pc]
    OBVIOUS
  <2>6. task' = [task EXCEPT ![w] = t]
    BY <1>1, <2>4, <2>5 DEF Goto
  <2>7. /\ t.pc = pc /\ t.exec = e /\ t.retries = q.retries /\ t.job = q.job
        /\ t.status = q.status /\ t.alerts = q.alerts
    BY <1>1, <1>2, <2>5 DEF Task
  <2>8. /\ loaded[e] = t.job /\ Status(e) \in {t.status, "deleted"}
        /\ execution[e].retry_attempt = t.retries
        /\ IF Mode = "inline" THEN Alerted(e, t) ELSE Quiet(e) /\ t.alerts = {}
    BY <1>2, <2>1, <2>7 DEF Working, Alerted, FailureAlert
  <2>9. Working(e, t)'
    BY <2>1, <2>3, <2>4, <2>7, <2>8 DEF Working, Alerted, Quiet, Status, MustRetry
  <2>. QED  BY <1>0, <1>1, <1>6, <2>2, <2>6, <2>7, <2>9, WorkerActs DEF PublishCompleted
<1>7. CASE Refresh(w)
  <2>1. /\ q.pc = "refresh"
        /\ UNCHANGED <<execution, created, dispatched, event, missed, loaded, lost>>
    BY <1>1, <1>7 DEF Refresh, rows, history
  <2>2. \A x \in Executions \ {e} : LeavesAlone(x)
    BY <2>1 DEF LeavesAlone
  <2>3. Announced(e, q.status) /\ q.alerts = {}
    BY <1>2, <2>1 DEF Working
  <2>4. CASE Release(w) /\ Mode = "inline"
    <3>1. Alerted(e, q) /\ Status(e) \in {q.status, "deleted"} /\ loaded[e] = q.job
          /\ q.status \in Completed
      BY <1>2, <2>1, <2>4 DEF Working, PointOK
    <3>2. Sound(e)
      BY <1>2, <1>3, <2>1, WorkingIsSound
    <3>3. Sound(e)' /\ Finished(e)'
      BY <2>1, <2>3, <2>4, <3>1, <3>2
         DEF Sound, Finished, Announced, Alerted, FailureAlert, Quiet, Status, Completed, Failed
    <3>. QED  BY <1>0, <1>1, <1>7, <2>2, <2>4, <3>3, IdleTask, WorkerActs
              DEF Refresh, Release
  <2>5. ASSUME NEW pc \in {"retrying", "alerting"}, Goto(w, pc),
               Mode # "inline", pc = "retrying" <=> MustRetry(q)
        PROVE  \A x \in Executions : ExecutionOK(x)'
    <3>1. PICK t : t = [q EXCEPT !.pc = pc]
      OBVIOUS
    <3>2. task' = [task EXCEPT ![w] = t]
      BY <1>1, <2>5, <3>1 DEF Goto
    <3>3. /\ t.pc = pc /\ t.exec = e /\ t.retries = q.retries /\ t.job = q.job
          /\ t.status = q.status /\ t.alerts = q.alerts
      BY <1>1, <1>2, <3>1 DEF Task
    <3>4. /\ loaded[e] = t.job /\ Status(e) \in {t.status, "deleted"}
          /\ execution[e].retry_attempt = t.retries
          /\ Quiet(e)
      BY <1>2, <2>1, <2>5, <3>3 DEF Working
    <3>5. MustRetry(t) <=> MustRetry(q)
      BY <3>3 DEF MustRetry
    <3>6. Working(e, t)'
      BY <2>1, <2>3, <2>5, <3>3, <3>4, <3>5
         DEF Working, Announced, Quiet, Status, MustRetry
    <3>. QED  BY <1>0, <1>1, <1>7, <2>2, <3>2, <3>3, <3>6, WorkerActs DEF Refresh
  <2>. QED  BY <1>1, <1>7, <2>4, <2>5 DEF Refresh
<1>. QED  BY <1>4, <1>5, <1>6, <1>7

\* What follows the outcome: the retry is announced, or the alerts are raised and
\* dispatched and the final status is published.
LEMMA AftermathOutcome ==
    ASSUME OutcomeInv, IInv', NEW w \in Workers,
           \/ CommitRetrying(w) \/ AnnounceRetrying(w) \/ CreateAlerts(w)
           \/ \E s \in Sources : Dispatch(w, s)
           \/ PublishFinal(w)
    PROVE  \A x \in Executions : ExecutionOK(x)'
<1>0. Busy(w)
  BY DEF CommitRetrying, AnnounceRetrying, CreateAlerts, Dispatch, PublishFinal, Busy
<1>1. PICK e, q : e \in Executions /\ e = On(w) /\ q = task[w] /\ q.exec = e
  BY <1>0, Holding DEF On
<1>. e \in Executions
  BY <1>1
<1>2. q \in Task /\ PointOK(q) /\ Working(e, q)
  BY <1>0, <1>1, Holding
<1>3. TypeOK
  BY DEF OutcomeInv, IInv
<1>4. CASE CommitRetrying(w)
  <2>1. PICK t : t = [q EXCEPT !.pc = "announce"]
    OBVIOUS
  <2>2. /\ task' = [task EXCEPT ![w] = t] /\ q.pc = "retrying"
        /\ execution' = [execution EXCEPT ![e].status = "retrying"]
        /\ UNCHANGED <<created, dispatched, event, missed, loaded, lost>>
    BY <1>1, <1>4, <2>1 DEF CommitRetrying, Goto, history
  <2>3. t.pc = "announce" /\ t.exec = e /\ t.retries = q.retries /\ t.job = q.job
    BY <1>1, <1>2, <2>1 DEF Task
  <2>4. Quiet(e)' /\ loaded'[e] = t.job
    BY <1>2, <2>2, <2>3 DEF Working, Quiet
  <2>5. Status(e)' = "retrying" /\ execution'[e].retry_attempt = t.retries
    BY <1>2, <1>3, <2>2, <2>3 DEF Working, Status, TypeOK
  <2>6. Working(e, t)'
    BY <2>3, <2>4, <2>5 DEF Working
  <2>7. \A x \in Executions \ {e} : LeavesAlone(x)
    BY <1>3, <2>2 DEF LeavesAlone, TypeOK
  <2>. QED  BY <1>0, <1>1, <1>4, <2>2, <2>3, <2>6, <2>7, WorkerActs DEF CommitRetrying
<1>5. CASE AnnounceRetrying(w)
  <2>1. PICK t : t = [q EXCEPT !.pc = "retry"]
    OBVIOUS
  <2>2. /\ task' = [task EXCEPT ![w] = t] /\ q.pc = "announce"
        /\ Publish(e, "retrying")
        /\ UNCHANGED <<execution, created, dispatched, loaded, lost>>
    BY <1>1, <1>5, <2>1 DEF AnnounceRetrying, Goto, rows
  <2>3. t.pc = "retry" /\ t.exec = e /\ t.retries = q.retries /\ t.job = q.job
    BY <1>1, <1>2, <2>1 DEF Task
  <2>4. Working(e, t)'
    BY <1>2, <2>2, <2>3 DEF Working, Quiet, Status
  <2>5. \A x \in Executions \ {e} : LeavesAlone(x)
    BY <1>3, <2>2, OthersUnannounced DEF LeavesAlone
  <2>. QED  BY <1>0, <1>1, <1>5, <2>2, <2>3, <2>4, <2>5, WorkerActs DEF AnnounceRetrying
<1>6. CASE CreateAlerts(w)
  <2>1. PICK alerts \in AlertSets(q), pc \in {"dispatch", "final"} :
            /\ Raise(e, alerts)
            /\ task' = [task EXCEPT ![w].alerts = alerts, ![w].pc = pc]
            /\ pc = "final" => alerts = {}
    BY <1>1, <1>6 DEF CreateAlerts
  <2>2. PICK t : t = [q EXCEPT !.alerts = alerts, !.pc = pc]
    OBVIOUS
  <2>3. /\ task' = [task EXCEPT ![w] = t] /\ q.pc = "alerting"
        /\ UNCHANGED <<execution, dispatched, event, missed, loaded, lost>>
    BY <1>1, <1>6, <2>1, <2>2 DEF CreateAlerts, history
  <2>4. /\ t.pc = pc /\ t.exec = e /\ t.retries = q.retries /\ t.job = q.job
        /\ t.status = q.status /\ t.alerts = alerts
    BY <1>1, <1>2, <2>2 DEF Task
  <2>5. Alerted(e, t)'
    <3>1. t.alerts \in AlertSets(t) /\ Raise(e, t.alerts) /\ Quiet(e)
      BY <1>2, <2>1, <2>3, <2>4 DEF AlertSets, FailureAlert, Working
    <3>. QED  BY <1>3, <2>3, <3>1, RaisedIsAlerted
  <2>6. /\ Status(e)' \in {t.status, "deleted"} /\ loaded'[e] = t.job
        /\ execution'[e].retry_attempt = t.retries /\ Announced(e, t.status)'
        /\ Mode = "inline" \/ ~MustRetry(t)
    BY <1>2, <2>3, <2>4 DEF Working, Announced, Status, MustRetry
  <2>7. Working(e, t)'
    BY <2>1, <2>4, <2>5, <2>6 DEF Working, MustRetry
  <2>8. \A x \in Executions \ {e} : LeavesAlone(x)
    BY <1>3, <2>1, <2>3 DEF LeavesAlone, Raise, TypeOK
  <2>. QED  BY <1>0, <1>1, <1>6, <2>1, <2>3, <2>4, <2>7, <2>8, WorkerActs DEF CreateAlerts
<1>7. ASSUME NEW s \in Sources, Dispatch(w, s)
      PROVE  \A x \in Executions : ExecutionOK(x)'
  <2>1. /\ q.pc = "dispatch" /\ s \in q.alerts
        /\ dispatched' = [dispatched EXCEPT ![e][s] = @ + 1]
        /\ UNCHANGED <<execution, created, event, missed, loaded, lost>>
    BY <1>1, <1>7 DEF Dispatch, rows, history
  <2>2. /\ Alerted(e, q) /\ Status(e) \in {q.status, "deleted"} /\ loaded[e] = q.job
        /\ execution[e].retry_attempt = q.retries /\ Announced(e, q.status)
        /\ Mode = "inline" \/ ~MustRetry(q)
        /\ q.status \in Completed
    BY <1>2, <2>1 DEF Working, PointOK
  <2>3. /\ dispatched'[e][s] = 1 /\ created[e][s] = 1
        /\ \A r \in Sources \ {s} : dispatched'[e][r] = dispatched[e][r]
    BY <1>3, <2>1, <2>2 DEF Alerted, TypeOK
  <2>4. \A x \in Executions \ {e} : LeavesAlone(x)
    BY <1>3, <2>1 DEF LeavesAlone, TypeOK
  <2>5. PICK left, pc :
           /\ left = q.alerts \ {s} /\ pc = IF q.alerts = {s} THEN AfterDispatch ELSE "dispatch"
           /\ task' = [task EXCEPT ![w].alerts = left, ![w].pc = pc]
    BY <1>1, <1>7, <2>1 DEF Dispatch
  <2>6. PICK t : t = [q EXCEPT !.alerts = left, !.pc = pc]
    OBVIOUS
  <2>7. task' = [task EXCEPT ![w] = t]
    BY <1>1, <2>5, <2>6
  <2>8. /\ t.pc = pc /\ t.exec = e /\ t.retries = q.retries /\ t.job = q.job
        /\ t.status = q.status /\ t.alerts = left
    BY <1>1, <1>2, <2>6 DEF Task
  <2>9. Alerted(e, t)'
    BY <2>1, <2>2, <2>3, <2>5, <2>8 DEF Alerted, FailureAlert
  <2>10. /\ pc \in {"dispatch", "refresh", "final"}
         /\ pc \in {"refresh", "final"} => left = {}
         /\ pc = "refresh" => Mode = "inline"
    BY <2>5 DEF AfterDispatch
  <2>11. Working(e, t)'
    BY <2>1, <2>2, <2>8, <2>9, <2>10 DEF Working, Announced, Status, MustRetry
  <2>. QED  BY <1>0, <1>1, <1>7, <2>4, <2>7, <2>8, <2>10, <2>11, WorkerActs DEF Dispatch
<1>8. CASE PublishFinal(w)
  <2>1. /\ q.pc = "final"
        /\ Publish(e, q.status)
        /\ UNCHANGED <<execution, created, dispatched, loaded, lost>>
    BY <1>1, <1>8 DEF PublishFinal, rows
  <2>2. \A x \in Executions \ {e} : LeavesAlone(x)
    BY <1>3, <2>1, OthersUnannounced DEF LeavesAlone
  <2>3. /\ Alerted(e, q) /\ Status(e) \in {q.status, "deleted"} /\ loaded[e] = q.job
        /\ execution[e].retry_attempt = q.retries /\ q.alerts = {}
        /\ Mode = "inline" \/ ~MustRetry(q)
        /\ q.status \in Completed /\ q.job \in JobConfig
    BY <1>2, <2>1 DEF Working, PointOK
  <2>4. Sound(e)
    BY <1>2, <1>3, <2>1, WorkingIsSound
  <2>5. Announced(e, q.status)'
    BY <1>3, <2>1, OthersUnannounced
  <2>6. \A s \in Sources : dispatched[e][s] = created[e][s]
    BY <2>3 DEF Alerted
  <2>7. Mode = "celery" /\ q.status \in Failed =>
           execution[e].retry_attempt >= loaded[e].retry_count
    BY <1>2, <2>3, BoundAssumption DEF MustRetry, Task, JobConfig
  <2>8. created[e]["job_execution"] =
           IF q.status \in Failed /\ loaded[e].alert_on_failure THEN 1 ELSE 0
    BY <2>3 DEF Alerted, FailureAlert
  <2>9. Sound(e)' /\ Finished(e)'
    BY <2>1, <2>3, <2>4, <2>5, <2>6, <2>7, <2>8
       DEF Sound, Finished, Announced, Quiet, Status, Completed, Failed
  <2>. QED  BY <1>0, <1>1, <1>8, <2>2, <2>9, IdleTask, WorkerActs DEF PublishFinal, Release
<1>. QED  BY <1>4, <1>5, <1>6, <1>7, <1>8

\* The database turns a task away, or it dies: in the latter case the execution counts
\* as lost, and what it leaves is sound at every point.
LEMMA EndOutcome ==
    ASSUME OutcomeInv, IInv', NEW w \in Workers,
           DatabaseRejects(w) \/ Abort(w) \/ DeadlockEndsTask(w)
    PROVE  \A x \in Executions : ExecutionOK(x)'
<1>0. Busy(w) /\ task' = [task EXCEPT ![w] = Idle] /\ UNCHANGED <<submitting, broker>>
  BY DEF DatabaseRejects, Abort, DeadlockEndsTask, Deadlocked, Busy, Release
<1>1. PICK e, q : e \in Executions /\ e = On(w) /\ q = task[w] /\ q.exec = e
  BY <1>0, Holding DEF On
<1>. e \in Executions
  BY <1>1
<1>2. q \in Task /\ PointOK(q) /\ Working(e, q) /\ q.pc # "idle"
  BY <1>0, <1>1, Holding DEF Busy
<1>3. UNCHANGED <<execution, created, dispatched, event, missed, loaded>>
  BY DEF DatabaseRejects, Abort, DeadlockEndsTask, rows, history
<1>4. Sound(e)'
  <2>1. Sound(e)
    BY <1>2, WorkingIsSound DEF OutcomeInv, IInv
  <2>. QED  BY <1>3, <2>1 DEF Sound, Quiet, Status
<1>5. \A x \in Executions \ {e} : LeavesAlone(x)
  <2>1. lost' = lost \/ lost' = lost \cup {e}
    BY <1>1 DEF DatabaseRejects, Abort, DeadlockEndsTask, history
  <2>. QED  BY <1>3, <2>1 DEF LeavesAlone
<1>6. e \notin lost' => Finished(e)'
  <2>1. CASE DatabaseRejects(w)
    <3>1. \/ q.pc = "create"
          \/ q.pc \in {"start", "refresh", "retrying"} /\ ~Exists(e)
      BY <1>1, <2>1 DEF DatabaseRejects
    <3>2. /\ Quiet(e) \/ \A s \in Sources : dispatched[e][s] = created[e][s]
          /\ Status(e) \notin Completed \cup {"queued", "retrying"}
      BY <1>2, <3>1 DEF Working, Waiting, Alerted, Exists, PointOK, Completed, Failed
    <3>. QED  BY <1>3, <3>2 DEF Finished, Quiet, Status
  <2>2. CASE Abort(w) \/ DeadlockEndsTask(w)
    BY <1>1, <2>2 DEF Abort, DeadlockEndsTask
  <2>. QED  BY <2>1, <2>2
<1>. QED  BY <1>0, <1>1, <1>4, <1>5, <1>6, IdleTask, WorkerActs

---------------------------------------------------------------------------
\* The retry leaves the execution to its message.
LEMMA RetryOutcome ==
    ASSUME OutcomeInv, IInv', NEW w \in Workers, Retry(w)
    PROVE  \A x \in Executions : ExecutionOK(x)'
<1>0. Busy(w) /\ task' = [task EXCEPT ![w] = Idle] /\ submitting' = submitting
  BY DEF Retry, Busy, Release
<1>1. PICK e, q : e \in Executions /\ e = On(w) /\ q = task[w] /\ q.exec = e
  BY <1>0, Holding DEF On
<1>. e \in Executions
  BY <1>1
<1>2. q \in Task /\ PointOK(q) /\ Working(e, q) /\ q.pc = "retry"
  BY <1>0, <1>1, Holding DEF Retry
<1>3. UNCHANGED <<execution, created, dispatched, event, missed, loaded, lost>>
  BY DEF Retry, rows, history
<1>4. PICK m : m = [exec |-> e, retries |-> q.retries + 1]
  OBVIOUS
<1>5. broker' = broker \cup {m} /\ m.exec = e /\ m.retries = q.retries + 1
  BY <1>1, <1>4 DEF Retry
<1>6. task'[w].pc = "idle" /\ \A v \in Workers \ {w} : task'[v] = task[v]
  BY <1>0, IdleTask DEF OutcomeInv, IInv, TypeOK
<1>7. ASSUME NEW x \in Executions \ {e} PROVE ExecutionOK(x)'
  <2>1. ExecutionOK(x) /\ LeavesAlone(x)
    BY <1>3 DEF OutcomeInv, LeavesAlone
  <2>. QED  BY <1>0, <1>1, <1>5, <1>6, <2>1, OthersKept
<1>8. ExecutionOK(e)'
  <2>1. Waiting(e, m.retries)' /\ Allowed(e, m.retries)'
    <3>1. /\ Waiting(e, m.retries)'
          /\ loaded'[e] = q.job /\ MustRetry(q) /\ q.job \in JobConfig
      BY <1>2, <1>3, <1>5 DEF Working, PointOK, Waiting, Quiet, Status
    <3>2. m.retries <= q.job.retry_count
      BY <1>2, <1>5, <3>1, BoundAssumption DEF MustRetry, Task, JobConfig
    <3>. QED  BY <3>1, <3>2 DEF Allowed
  <2>2. /\ \A n \in broker' : n.exec = e => n = m
        /\ e \notin submitting'
        /\ \A v \in Workers : ~(Busy(v)' /\ On(v)' = e)
    BY <1>5 DEF IInv, HolderInv, SingleHolder
  <2>3. Held(e)'
    BY <1>5 DEF Held
  <2>. QED  BY <2>1, <2>2, <2>3 DEF ExecutionOK
<1>. QED  BY <1>7, <1>8

\* A row is created and submitted, or its submission fails.
LEMMA HandlerOutcome ==
    ASSUME OutcomeInv, IInv', NEW e \in Executions,
           CreateQueued(e) \/ Delay(e) \/ DelayFails(e)
    PROVE  \A x \in Executions : ExecutionOK(x)'
<1>1. UNCHANGED <<task, created, dispatched, event, missed, loaded>>
  BY DEF CreateQueued, Delay, DelayFails, rows, history
<1>2. ASSUME NEW x \in Executions \ {e} PROVE ExecutionOK(x)'
  <2>1. ExecutionOK(x)
    BY DEF OutcomeInv
  <2>2. LeavesAlone(x)
    BY <1>1, <1>2 DEF CreateQueued, Delay, DelayFails, LeavesAlone, rows, history,
                      OutcomeInv, IInv, TypeOK
  <2>3. /\ x \in submitting' <=> x \in submitting
        /\ \A m \in broker \cup broker' : m.exec = x => (m \in broker <=> m \in broker')
    BY <1>2 DEF CreateQueued, Delay, DelayFails
  <2>. QED  BY <1>1, <2>1, <2>2, <2>3, OthersKept
<1>3. CASE CreateQueued(e)
  <2>1. ~Held(e) /\ Quiet(e)
    BY <1>3 DEF CreateQueued, OutcomeInv, IInv, HolderInv, NoneUnheld, ExecutionOK, Sound
  <2>2. Waiting(e, 0)'
    BY <1>1, <1>3, <2>1 DEF CreateQueued, Waiting, Quiet, Status, OutcomeInv, IInv, TypeOK
  <2>3. /\ e \in submitting' /\ broker' = broker
        /\ \A m \in broker : m.exec # e
        /\ \A v \in Workers : ~(Busy(v) /\ On(v) = e)
    BY <1>3, <2>1 DEF CreateQueued, Held
  <2>4. ExecutionOK(e)'
    BY <1>1, <2>2, <2>3 DEF ExecutionOK, Held, Busy, On
  <2>. QED  BY <1>2, <2>4
<1>4. CASE Delay(e) \/ DelayFails(e)
  <2>1. /\ e \in submitting /\ submitting' = submitting \ {e}
        /\ execution' = execution /\ Waiting(e, 0)
    BY <1>4 DEF Delay, DelayFails, rows, OutcomeInv, ExecutionOK
  <2>2. /\ \A m \in broker : m.exec # e
        /\ \A v \in Workers : ~(Busy(v)' /\ On(v)' = e)
    BY <1>1, <2>1 DEF OutcomeInv, IInv, HolderInv, SingleHolder, Busy, On
  <2>3. Waiting(e, 0)' /\ Sound(e)'
    BY <1>1, <2>1 DEF Waiting, Sound, Quiet, Status, Sources
  <2>4. CASE Delay(e)
    <3>1. PICK m : m = [exec |-> e, retries |-> 0]
      OBVIOUS
    <3>2. broker' = broker \cup {m} /\ m.exec = e /\ m.retries = 0
      BY <2>4, <3>1 DEF Delay
    <3>3. Held(e)'
      BY <3>2 DEF Held
    <3>4. /\ \A n \in broker' : n.exec = e => n = m
          /\ Allowed(e, m.retries)'
      BY <2>2, <3>2 DEF Allowed
    <3>5. ExecutionOK(e)'
      BY <2>1, <2>2, <2>3, <3>2, <3>3, <3>4 DEF ExecutionOK
    <3>. QED  BY <1>2, <3>5
  <2>5. CASE DelayFails(e)
    <3>1. broker' = broker /\ e \in lost'
      BY <2>5 DEF DelayFails
    <3>2. ExecutionOK(e)'
      BY <2>1, <2>2, <2>3, <3>1 DEF ExecutionOK
    <3>. QED  BY <1>2, <3>2
  <2>. QED  BY <1>4, <2>4, <2>5
<1>. QED  BY <1>3, <1>4

\* A process takes an execution: from a request, or with a message.
LEMMA TakeOutcome ==
    ASSUME OutcomeInv, IInv', NEW w \in Workers,
           \/ \E e \in Executions : ReadJobInline(w, e)
           \/ \E m \in broker : Receive(w, m)
    PROVE  \A x \in Executions : ExecutionOK(x)'
<1>0. /\ ~Busy(w) /\ submitting' = submitting
      /\ UNCHANGED <<execution, created, dispatched, event, missed, loaded, lost>>
  BY DEF ReadJobInline, Receive, rows, history
<1>1. PICK e, t :
         /\ e \in Executions /\ task' = [task EXCEPT ![w] = t]
         /\ t.exec = e /\ t.pc # "idle"
         /\ \A m \in broker \cup broker' : m.exec # e => (m \in broker <=> m \in broker')
         /\ Working(e, t)'
  <2>1. ASSUME NEW e \in Executions, ReadJobInline(w, e)
        PROVE  \E t : /\ task' = [task EXCEPT ![w] = t]
                      /\ t.exec = e /\ t.pc # "idle" /\ broker' = broker
                      /\ Working(e, t)'
    <3>1. PICK c : c = job[JobOf[e]]
      OBVIOUS
    <3>2. PICK t : t = [Idle EXCEPT !.pc = "create", !.exec = e, !.job = c]
      OBVIOUS
    <3>3. t.exec = e /\ t.pc = "create" /\ t.retries = 0
      BY <3>2 DEF Idle
    <3>4. Status(e) = "none" /\ Quiet(e)
      BY <2>1 DEF ReadJobInline, OutcomeInv, ExecutionOK, Sound
    <3>5. Working(e, t)'
      BY <1>0, <3>3, <3>4 DEF Working, Quiet, Status
    <3>. QED  BY <2>1, <3>1, <3>2, <3>3, <3>5 DEF ReadJobInline
  <2>2. ASSUME NEW m \in broker, Receive(w, m)
        PROVE  \E t : /\ task' = [task EXCEPT ![w] = t]
                      /\ t.exec = m.exec /\ t.pc # "idle" /\ broker' = broker \ {m}
                      /\ Working(m.exec, t)'
    <3>1. PICK e, r : e \in Executions /\ e = m.exec /\ r = m.retries
      BY DEF OutcomeInv, IInv, TypeOK, Message
    <3>. e \in Executions
      BY <3>1
    <3>2. PICK t : t = [Idle EXCEPT !.pc = "load_job", !.exec = e, !.retries = r]
      OBVIOUS
    <3>3. t.exec = e /\ t.pc = "load_job" /\ t.retries = r
      BY <3>2 DEF Idle
    <3>4. Waiting(e, r)
      BY <3>1 DEF OutcomeInv, ExecutionOK
    <3>5. Working(e, t)'
      BY <1>0, <3>3, <3>4 DEF Working, Waiting, Quiet, Status
    <3>. QED  BY <2>2, <3>1, <3>2, <3>3, <3>5 DEF Receive
  <2>3. \A m \in broker : m.exec \in Executions
    BY DEF OutcomeInv, IInv, TypeOK, Message
  <2>4. CASE \E e \in Executions : ReadJobInline(w, e)
    BY <2>1, <2>4
  <2>5. CASE \E m \in broker : Receive(w, m)
    BY <2>2, <2>3, <2>5
  <2>. QED  BY <2>4, <2>5
<1>2. task'[w] = t /\ \A v \in Workers \ {w} : task'[v] = task[v]
  BY <1>1 DEF OutcomeInv, IInv, TypeOK
<1>3. ASSUME NEW x \in Executions \ {e} PROVE ExecutionOK(x)'
  <2>1. ExecutionOK(x) /\ LeavesAlone(x)
    BY <1>0 DEF OutcomeInv, LeavesAlone
  <2>. QED  BY <1>0, <1>1, <1>2, <1>3, <2>1, OthersKept DEF Busy
<1>4. ExecutionOK(e)'
  BY <1>1, <1>2, HeldByWorker DEF IInv, HolderInv
<1>. QED  BY <1>3, <1>4

\* PATCH and DELETE of a job, and the deadlock that ends a DELETE.  A deleted row is
\* sound, finished and no longer anybody's, wherever its execution stands.
LEMMA JobOutcome ==
    ASSUME OutcomeInv, IInv',
           \/ \E j \in Jobs : UpdateJob(j) \/ DeleteWaits(j) \/ DeleteJob(j)
           \/ \E w \in Workers : DeadlockEndsDelete(w)
    PROVE  \A x \in Executions : ExecutionOK(x)'
<1>1. UNCHANGED <<submitting, broker, task, created, dispatched, event, missed, loaded, lost>>
  BY DEF UpdateJob, DeleteWaits, DeleteJob, DeadlockEndsDelete, rows, history
<1>2. ASSUME NEW x \in Executions,
             \/ execution'[x] = execution[x]
             \/ /\ execution'[x] = [execution[x] EXCEPT !.status = "deleted"]
                /\ Exists(x) /\ ~RowLocked(x)
      PROVE  ExecutionOK(x)'
  <2>1. ExecutionOK(x)
    BY DEF OutcomeInv
  <2>2. CASE execution'[x] = execution[x]
    BY <1>1, <2>1, <2>2, OthersKept DEF LeavesAlone
  <2>3. CASE /\ execution'[x] = [execution[x] EXCEPT !.status = "deleted"]
             /\ Exists(x) /\ ~RowLocked(x)
    <3>1. /\ Status(x)' = "deleted"
          /\ execution'[x].retry_attempt = execution[x].retry_attempt
      BY <2>3 DEF Status, OutcomeInv, IInv, TypeOK
    <3>2. Quiet(x) => Quiet(x)'
      BY <1>1 DEF Quiet
    <3>3. \A number : /\ Waiting(x, number) => Waiting(x, number)'
                      /\ Allowed(x, number) => Allowed(x, number)'
      BY <1>1, <3>1, <3>2 DEF Waiting, Allowed
    <3>4. \A t : Alerted(x, t) => Alerted(x, t)'
      BY <1>1 DEF Alerted
    <3>5. \A t : t.pc \notin {"http", "commit"} /\ Working(x, t) => Working(x, t)'
      BY <1>1, <2>3, <3>1, <3>2, <3>3, <3>4 DEF Working, Announced, Exists
    <3>6. ASSUME NEW w \in Workers, Busy(w), On(w) = x PROVE Working(x, task[w])'
      <4>1. PICK t : t = task[w]
        OBVIOUS
      <4>2. t.pc \notin {"http", "commit"} /\ Working(x, t)
        BY <2>1, <2>3, <3>6, <4>1 DEF RowLocked, HoldsRow, ExecutionOK
      <4>3. Working(x, t)' /\ t = task'[w]
        BY <1>1, <3>5, <4>1, <4>2
      <4>. QED  BY <4>3 DEF Working, Alerted, FailureAlert, MustRetry
    <3>7. (Sound(x) => Sound(x)') /\ (Sound(x) /\ Finished(x) => Finished(x)')
      BY <1>1, <3>1 DEF Sound, Finished, Announced, Completed, Failed
    <3>. QED  BY <1>1, <2>1, <3>3, <3>6, <3>7 DEF ExecutionOK, Held, Busy, On
  <2>. QED  BY <1>2, <2>2, <2>3
<1>3. CASE UNCHANGED execution
  BY <1>2, <1>3
<1>4. ASSUME NEW j \in Jobs, DeleteJob(j) PROVE \A x \in Executions : ExecutionOK(x)'
  <2>1. ASSUME NEW x \in Executions, JobOf[x] = j, Exists(x) PROVE ~RowLocked(x)
    BY <1>4, <2>1 DEF DeleteJob, LockedExecutions
  <2>2. ASSUME NEW x \in Executions
        PROVE  execution'[x] = IF JobOf[x] = j /\ Exists(x)
                               THEN [execution[x] EXCEPT !.status = "deleted"]
                               ELSE execution[x]
    BY <1>4 DEF DeleteJob
  <2>. QED  BY <1>2, <2>1, <2>2
<1>. QED  BY <1>3, <1>4 DEF UpdateJob, DeleteWaits, DeadlockEndsDelete, rows

\* Rows and jobs: a row is written for an existing job, and goes with it.
LEMMA RowsKeepJobs == OutcomeInv /\ [Next]_vars => RowsHaveJobs'
<1>. SUFFICES ASSUME OutcomeInv, [Next]_vars PROVE RowsHaveJobs'
  OBVIOUS
<1>0. TypeOK /\ RowsHaveJobs
  BY DEF OutcomeInv, IInv
<1>1. ASSUME UNCHANGED job,
             \A x \in Executions : execution'[x].status \notin {"none", "deleted"} =>
                Exists(x) \/ job[JobOf[x]] # None
      PROVE  RowsHaveJobs'
  BY <1>0, <1>1 DEF RowsHaveJobs, Exists, Status
<1>2. CASE UNCHANGED <<job, execution>>
  BY <1>1, <1>2 DEF Exists, Status
<1>3. ASSUME NEW e \in Executions, CreateQueued(e) PROVE RowsHaveJobs'
  BY <1>0, <1>1, <1>3 DEF CreateQueued, Exists, Status, TypeOK
<1>4. ASSUME NEW w \in Workers, CreateInline(w) PROVE RowsHaveJobs'
  <2>1. PICK e \in Executions : e = On(w)
    BY <1>4, WorkerFacts DEF CreateInline, Busy, OutcomeInv
  <2>. QED  BY <1>0, <1>1, <1>4, <2>1 DEF CreateInline, Exists, Status, TypeOK
<1>5. ASSUME NEW w \in Workers, CommitAttempt(w) \/ CommitRetrying(w) \/ LoadExecution(w)
      PROVE  RowsHaveJobs'
  <2>1. PICK e \in Executions : e = On(w)
    BY <1>5, WorkerFacts DEF CommitAttempt, CommitRetrying, LoadExecution, Busy, OutcomeInv
  <2>2. CommitAttempt(w) => Exists(e)
    BY <2>1, Holding DEF CommitAttempt, Busy, Working, Waiting, Exists
  <2>3. UNCHANGED job /\ \A x \in Executions : execution'[x].status \notin {"none", "deleted"} => Exists(x)
    BY <1>0, <1>5, <2>1, <2>2 DEF CommitAttempt, CommitRetrying, LoadExecution, Exists, Status, TypeOK
  <2>. QED  BY <1>1, <2>3
<1>6. ASSUME NEW j \in Jobs, UpdateJob(j) PROVE RowsHaveJobs'
  BY <1>0, <1>6, NoneAssumption, JobOfAssumption
     DEF UpdateJob, RowsHaveJobs, Exists, Status, JobConfig, TypeOK
<1>7. ASSUME NEW j \in Jobs, DeleteJob(j) PROVE RowsHaveJobs'
  <2>1. ASSUME NEW x \in Executions, execution'[x].status \notin {"none", "deleted"}
        PROVE  JobOf[x] # j /\ Exists(x)
    BY <1>0, <1>7, <2>1 DEF DeleteJob, Exists, Status, TypeOK
  <2>2. \A i \in Jobs \ {j} : job'[i] = job[i]
    BY <1>0, <1>7 DEF DeleteJob, TypeOK
  <2>. QED  BY <1>0, <2>1, <2>2, JobOfAssumption DEF RowsHaveJobs, Exists, Status
<1>8. CASE UNCHANGED vars
  BY <1>2, <1>8 DEF vars
<1>9. ASSUME NEW w \in Workers, WorkerStep(w) PROVE RowsHaveJobs'
  BY <1>2, <1>4, <1>5, <1>9
     DEF WorkerStep, LoadJob, StartAttempt, HttpOutcome, PublishCompleted, Refresh,
         AnnounceRetrying, Retry, CreateAlerts, Dispatch, PublishFinal, DatabaseRejects, rows
<1>10. CASE Next
  BY <1>2, <1>3, <1>6, <1>7, <1>9, <1>10
     DEF Next, Delay, DelayFails, ReadJobInline, Receive, Abort, DeadlockEndsDelete,
         DeadlockEndsTask, DeleteWaits, rows
<1>. QED  BY <1>8, <1>10

---------------------------------------------------------------------------
LEMMA OutcomeStep == OutcomeInv /\ [Next]_vars => OutcomeInv'
<1>. SUFFICES ASSUME OutcomeInv, [Next]_vars PROVE OutcomeInv'
  OBVIOUS
<1>1. IInv'
  BY NextInv DEF OutcomeInv
<1>2. RowsHaveJobs'
  BY RowsKeepJobs
<1>3. \A x \in Executions : ExecutionOK(x)'
  <2>1. ASSUME NEW w \in Workers, WorkerStep(w)
        PROVE  \A x \in Executions : ExecutionOK(x)'
    BY <1>1, <2>1, LoadOutcome, AttemptOutcome, AftermathOutcome, EndOutcome, RetryOutcome
       DEF WorkerStep
  <2>2. CASE UNCHANGED vars
    BY <2>2, OthersKept DEF vars, LeavesAlone, OutcomeInv
  <2>3. CASE Next
    BY <1>1, <2>1, <2>3, HandlerOutcome, TakeOutcome, EndOutcome, JobOutcome DEF Next
  <2>. QED  BY <2>2, <2>3
<1>. QED  BY <1>1, <1>2, <1>3 DEF OutcomeInv

LEMMA OutcomeInductive == Spec => []OutcomeInv
BY OutcomeInit, OutcomeStep, PTL DEF Spec

\* Who holds an execution, and what is known of it then.
LEMMA HeldCases ==
    ASSUME OutcomeInv, NEW e \in Executions
    PROVE  \/ ~Held(e) /\ Sound(e) /\ (e \notin lost => Finished(e))
           \/ /\ Held(e)
              /\ \/ Waiting(e, 0)
                 \/ \E m \in broker : m.exec = e /\ Waiting(e, m.retries)
                 \/ \E w \in Workers : Busy(w) /\ On(w) = e /\ Working(e, task[w])
BY DEF OutcomeInv, ExecutionOK, Held

\* Nowhere on its way has an execution more alerts, or dispatches, than it may.
LEMMA AlwaysSound ==
    ASSUME OutcomeInv, NEW e \in Executions
    PROVE  Sound(e)
<1>1. ASSUME NEW number, Waiting(e, number) PROVE Sound(e)
  BY <1>1 DEF Waiting, Sound, Quiet, Sources
<1>2. ASSUME NEW w \in Workers, Busy(w), On(w) = e PROVE Sound(e)
  BY <1>2, Holding, WorkingIsSound DEF OutcomeInv, IInv, Busy
<1>. QED  BY <1>1, <1>2, HeldCases

\* job_queue.py, tasks.py: a row that shows "queued" or "retrying" has somebody who takes
\* it further, unless a handler or task of it died.
THEOREM NobodyIsForgotten == Spec => []NoOrphan
<1>1. OutcomeInv => NoOrphan
  BY HeldCases DEF NoOrphan, Finished
<1>. QED  BY <1>1, OutcomeInductive, PTL

\* tasks.py: no worker gives up on a failed execution before the retries of the job it
\* loaded are used up, and none asks for a retry beyond them.
THEOREM RetriesAreUsed == Spec => []RetriesExhausted
<1>1. OutcomeInv => RetriesExhausted
  <2>. SUFFICES ASSUME OutcomeInv PROVE RetriesExhausted
    OBVIOUS
  <2>1. \A e \in Executions :
           Mode = "celery" /\ Status(e) \in Failed /\ ~Held(e) /\ e \notin lost
              => execution[e].retry_attempt >= loaded[e].retry_count
    BY HeldCases DEF Finished, Completed
  <2>2. \A m \in broker : m.exec \in Executions
    BY DEF OutcomeInv, IInv, TypeOK, Message
  <2>3. \A m \in broker : m.retries > 0 => m.retries <= loaded[m.exec].retry_count
    BY <2>2 DEF OutcomeInv, ExecutionOK, Allowed
  <2>. QED  BY <2>1, <2>3 DEF RetriesExhausted
<1>. QED  BY <1>1, OutcomeInductive, PTL

\* tasks.py, http_runner.py: the alert of a failure is raised when no attempt is left.
THEOREM AlertsComeLast == Spec => []AlertOnlyWhenFinal
<1>1. ASSUME OutcomeInv, NEW e \in Executions, created[e]["job_execution"] > 0
      PROVE  /\ Status(e) \in Failed \cup {"deleted"}
             /\ e \notin submitting
             /\ \A m \in broker : m.exec # e
             /\ \A w \in Workers : Busy(w) /\ On(w) = e =>
                   task[w].pc \in {"completed", "dispatch", "refresh", "final"}
  <2>1. ~Quiet(e) /\ Sound(e)
    BY <1>1, AlwaysSound DEF Quiet, Sources
  <2>2. e \notin submitting /\ \A m \in broker : m.exec # e
    BY <1>1, <2>1 DEF OutcomeInv, ExecutionOK, Waiting
  <2>3. ASSUME NEW w \in Workers, Busy(w), On(w) = e
        PROVE  task[w].pc \in {"completed", "dispatch", "refresh", "final"}
    <3>1. Working(e, task[w]) /\ task[w] \in Task
      BY <1>1, <2>3, Holding
    <3>. QED  BY <2>1, <2>3, <3>1 DEF Working, Waiting, Task, Points, Busy
  <2>. QED  BY <1>1, <2>1, <2>2, <2>3 DEF Sound
<1>2. OutcomeInv => AlertOnlyWhenFinal
  BY <1>1 DEF AlertOnlyWhenFinal
<1>. QED  BY <1>2, OutcomeInductive, PTL

\* http_runner.py 71: one alert per final failure that the job wants to hear of.
THEOREM FailuresAreAlerted == Spec => []OneAlertPerFailure
<1>1. OutcomeInv => OneAlertPerFailure
  BY HeldCases DEF OneAlertPerFailure, Finished
<1>. QED  BY <1>1, OutcomeInductive, PTL

\* tasks.py, http_runner.py: every alert is dispatched once, never twice, also across
\* crashes.
THEOREM AlertsAreDispatched == Spec => []DispatchedOnce
<1>1. OutcomeInv => DispatchedOnce
  BY AlwaysSound, HeldCases DEF DispatchedOnce, Sound, Finished
<1>. QED  BY <1>1, OutcomeInductive, PTL

\* event_publisher.py and its callers: when an execution has come to rest, the last event
\* of it said what the row says, unless Redis refused that event.
THEOREM EventsEndWithTheRow == Spec => []LastEventIsStatus
<1>1. OutcomeInv => LastEventIsStatus
  BY HeldCases DEF LastEventIsStatus, Finished, Announced
<1>. QED  BY <1>1, OutcomeInductive, PTL

\* Callers of publish_event: no event but "running" is ahead of the database.
NotAhead ==
    \A e \in Executions :
        event'[e] # event[e] /\ event'[e] # "running" => Status(e) \in {event'[e], "deleted"}

\* An event that announces a completion follows the commit of it: the row says at least as
\* much, or is deleted.
THEOREM EventsFollowCommits == Spec => CompletedNotAhead
<1>1. OutcomeInv /\ [Next]_vars => NotAhead
  <2>. SUFFICES ASSUME OutcomeInv, [Next]_vars PROVE NotAhead
    OBVIOUS
  <2>1. CASE UNCHANGED event
    BY <2>1 DEF NotAhead
  <2>2. ASSUME NEW w \in Workers,
               StartAttempt(w) \/ PublishCompleted(w) \/ AnnounceRetrying(w) \/ PublishFinal(w)
        PROVE  NotAhead
    <3>1. Busy(w)
      BY <2>2 DEF StartAttempt, PublishCompleted, AnnounceRetrying, PublishFinal, Busy
    <3>2. PICK e, q : e \in Executions /\ e = On(w) /\ q = task[w] /\ Working(e, q)
      BY <3>1, Holding
    <3>. e \in Executions
      BY <3>2
    <3>3. PICK s : Publish(e, s) /\ (s # "running" => Status(e) \in {s, "deleted"})
      BY <2>2, <3>2 DEF StartAttempt, PublishCompleted, AnnounceRetrying, PublishFinal, Working
    <3>. QED  BY <3>3 DEF NotAhead, Publish, OutcomeInv, IInv, TypeOK
  <2>3. ASSUME NEW w \in Workers, WorkerStep(w) PROVE NotAhead
    BY <2>1, <2>2, <2>3
       DEF WorkerStep, CreateInline, LoadJob, LoadExecution, HttpOutcome, CommitAttempt,
           CommitRetrying, Refresh, Retry, CreateAlerts, Dispatch, DatabaseRejects
  <2>. QED  BY <2>1, <2>3
            DEF Next, vars, CreateQueued, Delay, DelayFails, ReadJobInline, Receive, Abort,
                DeadlockEndsDelete, DeadlockEndsTask, UpdateJob, DeleteWaits, DeleteJob
<1>. QED  BY <1>1, OutcomeInductive, PTL DEF Spec, CompletedNotAhead, NotAhead

---------------------------------------------------------------------------
\* The life cycle of module ExecutionLifecycle: every step is a step of it or leaves its
\* variables alone.
LEMMA OutsideLifecycle ==
    ASSUME \A x \in Executions : /\ execution'[x].status = execution[x].status
                                 /\ execution'[x].retry_attempt = execution[x].retry_attempt
                                 /\ created'[x] = created[x]
    PROVE  UNCHANGED Lifecycle!vars
BY DEF Lifecycle!vars, Status

\* The steps that create a row.
LEMMA LifecycleCreate ==
    ASSUME OutcomeInv, NEW e \in Executions, Status(e) = "none", UNCHANGED created,
           execution' = [execution EXCEPT ![e].status = "queued"]
    PROVE  Lifecycle!Next
<1>1. TypeOK
  BY DEF OutcomeInv, IInv
<1>2. Lifecycle!Create(e)
  BY <1>1 DEF Lifecycle!Create, Status, TypeOK
<1>. QED  BY <1>2 DEF Lifecycle!Next

LEMMA LifecycleAttempt ==
    ASSUME OutcomeInv, NEW w \in Workers, CommitAttempt(w)
    PROVE  Lifecycle!Next
<1>1. PICK e, q : e \in Executions /\ e = On(w) /\ q = task[w] /\ Working(e, q) /\ PointOK(q)
  BY Holding DEF CommitAttempt, Busy
<1>. e \in Executions
  BY <1>1
<1>2. TypeOK /\ q.pc = "commit" /\ q.status \in Completed /\ Quiet(e) /\ Waiting(e, q.retries)
      /\ Status(e) \in {"queued", "retrying"}
  BY <1>1 DEF OutcomeInv, IInv, CommitAttempt, PointOK, Working, Waiting
<1>3. execution' = [execution EXCEPT ![e] = [status |-> q.status, retry_attempt |-> q.retries]]
  BY <1>1 DEF CommitAttempt
<1>4. q.retries = IF Status(e) = "queued" THEN 0 ELSE execution[e].retry_attempt + 1
  BY <1>2 DEF Waiting
<1>5. PICK alerts \in AlertSets(q) \cup {{}} : Raise(e, alerts)
  BY <1>1 DEF CommitAttempt
<1>6. /\ \A x \in Executions \ {e} : created'[x]["job_execution"] = created[x]["job_execution"]
      /\ created[e]["job_execution"] = 0
      /\ \/ created'[e]["job_execution"] = 0
         \/ created'[e]["job_execution"] = 1 /\ q.status \in Failed
  <2>1. "job_execution" \in alerts => q.status \in Failed
    BY <1>5, FailureIsAlerted DEF FailureAlert
  <2>2. "job_execution" \in Sources
    BY DEF Sources
  <2>. QED  BY <1>2, <1>5, <2>1, <2>2 DEF Raise, Quiet, TypeOK
<1>7. Lifecycle!Attempt(e)
  BY <1>2, <1>3, <1>4, <1>6
     DEF Lifecycle!Attempt, Lifecycle!Completed, Lifecycle!Failed, Completed, Failed, Status, TypeOK
<1>. QED  BY <1>7 DEF Lifecycle!Next

LEMMA LifecycleRetry ==
    ASSUME OutcomeInv, NEW w \in Workers, CommitRetrying(w)
    PROVE  Lifecycle!Next
<1>1. PICK e, q :
         e \in Executions /\ e = On(w) /\ q = task[w] /\ Working(e, q) /\ PointOK(q) /\ q \in Task
  BY Holding DEF CommitRetrying, Busy
<1>. e \in Executions
  BY <1>1
<1>2. /\ TypeOK /\ q.pc = "retrying" /\ Quiet(e) /\ Status(e) \in Failed
      /\ execution[e].retry_attempt = q.retries /\ q.retries < MaxRetryCount
  <2>1. q.pc = "retrying" /\ MustRetry(q) /\ q.job \in JobConfig /\ Exists(e)
    BY <1>1 DEF CommitRetrying, PointOK
  <2>2. q.retries < MaxRetryCount
    BY <1>1, <2>1, BoundAssumption DEF MustRetry, JobConfig, Task
  <2>. QED  BY <1>1, <2>1, <2>2 DEF OutcomeInv, IInv, Working, MustRetry, Exists
<1>3. execution' = [execution EXCEPT ![e].status = "retrying"] /\ UNCHANGED created
  BY <1>1 DEF CommitRetrying
<1>4. created[e]["job_execution"] = 0
  BY <1>2 DEF Quiet, Sources
<1>5. Lifecycle!Retry(e)
  BY <1>2, <1>3, <1>4 DEF Lifecycle!Retry, Lifecycle!Failed, Failed, Status, TypeOK
<1>. QED  BY <1>5 DEF Lifecycle!Next

LEMMA LifecycleAlert ==
    ASSUME OutcomeInv, NEW w \in Workers, CreateAlerts(w)
    PROVE  Lifecycle!Next \/ UNCHANGED Lifecycle!vars
<1>1. PICK e, q : e \in Executions /\ e = On(w) /\ q = task[w] /\ Working(e, q)
  BY Holding DEF CreateAlerts, Busy
<1>. e \in Executions
  BY <1>1
<1>2. TypeOK /\ Quiet(e) /\ Status(e) \in {q.status, "deleted"}
  BY <1>1 DEF OutcomeInv, IInv, CreateAlerts, Working
<1>3. PICK alerts \in AlertSets(q) : Raise(e, alerts) /\ execution' = execution
  BY <1>1 DEF CreateAlerts
<1>4. /\ \A x \in Executions \ {e} : created'[x]["job_execution"] = created[x]["job_execution"]
      /\ created[e]["job_execution"] = 0
      /\ \/ created'[e]["job_execution"] = 0
         \/ created'[e]["job_execution"] = 1 /\ q.status \in Failed
  <2>1. "job_execution" \in alerts => q.status \in Failed
    BY <1>3, FailureIsAlerted DEF FailureAlert
  <2>2. "job_execution" \in Sources
    BY DEF Sources
  <2>. QED  BY <1>2, <1>3, <2>1, <2>2 DEF Raise, Quiet, TypeOK
<1>5. CASE created'[e]["job_execution"] = 0
  BY <1>3, <1>4, <1>5 DEF Lifecycle!vars, Status
<1>6. CASE created'[e]["job_execution"] = 1 /\ q.status \in Failed
  <2>1. Lifecycle!RaiseAlert(e)
    BY <1>2, <1>3, <1>4, <1>6 DEF Lifecycle!RaiseAlert, Lifecycle!Failed, Failed, Status
  <2>. QED  BY <2>1 DEF Lifecycle!Next
<1>. QED  BY <1>4, <1>5, <1>6

LEMMA LifecycleDelete ==
    ASSUME OutcomeInv, NEW j \in Jobs, DeleteJob(j)
    PROVE  Lifecycle!Next
<1>1. TypeOK
  BY DEF OutcomeInv, IInv
<1>2. PICK D \in SUBSET {e \in Executions : Status(e) # "none"} :
         D = {e \in Executions : JobOf[e] = j /\ Exists(e)}
  BY DEF Exists
<1>3. \A e \in Executions :
         /\ execution'[e].status = IF e \in D THEN "deleted" ELSE execution[e].status
         /\ execution'[e].retry_attempt = execution[e].retry_attempt
  BY <1>1, <1>2 DEF DeleteJob, TypeOK
<1>4. UNCHANGED created
  BY DEF DeleteJob
<1>5. Lifecycle!Delete
  BY <1>2, <1>3, <1>4 DEF Lifecycle!Delete, Status
<1>. QED  BY <1>5 DEF Lifecycle!Next

LEMMA LifecycleStep == OutcomeInv /\ [Next]_vars => [Lifecycle!Next]_(Lifecycle!vars)
<1>. SUFFICES ASSUME OutcomeInv, [Next]_vars
              PROVE  Lifecycle!Next \/ UNCHANGED Lifecycle!vars
  OBVIOUS
<1>1. CASE UNCHANGED <<execution, created>>
  BY <1>1, OutsideLifecycle
<1>2. ASSUME NEW w \in Workers, CreateInline(w) PROVE Lifecycle!Next
  <2>1. PICK e \in Executions : e = On(w) /\ Status(e) = "none"
    BY <1>2, Holding DEF CreateInline, Busy, Working
  <2>. QED  BY <1>2, <2>1, LifecycleCreate DEF CreateInline
\* "Job not found" does not come about: whoever finds the row finds its job.
<1>3. ASSUME NEW w \in Workers, LoadExecution(w) PROVE UNCHANGED <<execution, created>>
  BY <1>3, Holding DEF LoadExecution, Busy, Working, Exists
<1>4. ASSUME NEW w \in Workers, WorkerStep(w)
      PROVE  Lifecycle!Next \/ UNCHANGED Lifecycle!vars
  BY <1>1, <1>2, <1>3, <1>4, LifecycleAttempt, LifecycleRetry, LifecycleAlert
     DEF WorkerStep, LoadJob, StartAttempt, HttpOutcome, PublishCompleted, Refresh,
         AnnounceRetrying, Retry, Dispatch, PublishFinal, DatabaseRejects, rows
<1>5. ASSUME NEW e \in Executions, CreateQueued(e) PROVE Lifecycle!Next
  BY <1>5, LifecycleCreate DEF CreateQueued
<1>. QED  BY <1>1, <1>4, <1>5, LifecycleDelete
          DEF Next, vars, Delay, DelayFails, ReadJobInline, Receive, Abort, DeadlockEndsDelete,
              DeadlockEndsTask, UpdateJob, DeleteWaits, rows

\* job_queue.py, tasks.py, http_runner.py implement the life cycle that a reader of the
\* executions table relies on: the order of statuses, the numbers of attempts, and one
\* failure alert, when no attempt is left.
THEOREM LifecycleImplemented == Spec => ImplementsLifecycle
<1>1. Init => Lifecycle!Init
  BY DEF Init, Lifecycle!Init, Status, Sources
<1>. QED  BY <1>1, LifecycleStep, OutcomeInductive, PTL
          DEF Spec, ImplementsLifecycle, Lifecycle!Spec
=============================================================================
