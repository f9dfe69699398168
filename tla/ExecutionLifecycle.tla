------------------------ MODULE ExecutionLifecycle ------------------------
(***************************************************************************)
(* What the execution of jobs promises to whoever reads the executions     *)
(* table: the order of the statuses of one execution, the numbering of its *)
(* attempts, and at most one failure alert, raised when no attempt is left.*)
(* Module JobExecution implements it.                                      *)
(***************************************************************************)
EXTENDS Integers

CONSTANTS Executions, MaxRetryCount

VARIABLES status, attempt, alerts
vars == <<status, attempt, alerts>>

Failed == {"failure", "timeout"}
Completed == Failed \cup {"success"}

Init ==
    /\ status = [e \in Executions |-> "none"]
    /\ attempt = [e \in Executions |-> 0]
    /\ alerts = [e \in Executions |-> 0]

Create(e) ==
    /\ status[e] = "none"
    /\ status' = [status EXCEPT ![e] = "queued"]
    /\ UNCHANGED <<attempt, alerts>>

\* The next attempt is over.  A failure may be final at once, and alerted.
Attempt(e) ==
    /\ status[e] \in {"queued", "retrying"}
    /\ \E s \in Completed :
          /\ status' = [status EXCEPT ![e] = s]
          /\ alerts' \in {alerts} \cup
                {[alerts EXCEPT ![e] = 1] : x \in {s} \cap Failed}
    /\ attempt' = [attempt EXCEPT ![e] = IF status[e] = "queued" THEN 0 ELSE @ + 1]

Retry(e) ==
    /\ status[e] \in Failed
    /\ alerts[e] = 0
    /\ attempt[e] < MaxRetryCount
    /\ status' = [status EXCEPT ![e] = "retrying"]
    /\ UNCHANGED <<attempt, alerts>>

\* The alert outlives the row, and may even be raised after it is gone.
RaiseAlert(e) ==
    /\ status[e] \in Failed \cup {"deleted"}
    /\ alerts[e] = 0
    /\ alerts' = [alerts EXCEPT ![e] = 1]
    /\ UNCHANGED <<status, attempt>>

\* Deleting a job deletes its executions.
Delete ==
    /\ \E S \in SUBSET {e \in Executions : status[e] # "none"} :
          status' = [e \in Executions |-> IF e \in S THEN "deleted" ELSE status[e]]
    /\ UNCHANGED <<attempt, alerts>>

Next ==
    \/ \E e \in Executions : Create(e) \/ Attempt(e) \/ Retry(e) \/ RaiseAlert(e)
    \/ Delete

Spec == Init /\ [][Next]_vars
===========================================================================
