-------------------------- MODULE SummariesProofs --------------------------
(***************************************************************************)
(* Proofs about the history of executions and what is read from it: for    *)
(* any number of executions, attempts and rules, of days and of readers'   *)
(* statements between them.                                                *)
(***************************************************************************)
EXTENDS Summaries, FiniteSetTheorems, WellFoundedInduction, TLAPS

---------------------------------------------------------------------------
(* The newest of a set of rows                                             *)

LEMMA NatMin ==
    ASSUME NEW T \in SUBSET Nat, T # {}
    PROVE  \E x \in T : \A y \in T : x <= y
<1>1. PICK x \in T : \A y \in T : ~(<<y, x>> \in OpToRel(<, Nat))
  BY NatLessThanWellFounded, WFMin
<1>2. ASSUME NEW y \in T PROVE x <= y
  <2>1. ~(<<y, x>> \in OpToRel(<, Nat))
    BY <1>1
  <2>. QED  BY <2>1 DEF OpToRel
<1>. QED  BY <1>2

\* Finitely many rows, no two of which began at the same time.
Ranked(rows) ==
    /\ IsFiniteSet(DOMAIN rows)
    /\ \A e \in DOMAIN rows : rows[e].started_at \in Nat
    /\ \A e, f \in DOMAIN rows : rows[e].started_at = rows[f].started_at => e = f

Newer(rows, e) == {f \in DOMAIN rows : rows[f].started_at > rows[e].started_at}

LEMMA NewerCounted ==
    ASSUME NEW rows, Ranked(rows), NEW e \in DOMAIN rows
    PROVE  IsFiniteSet(Newer(rows, e)) /\ Cardinality(Newer(rows, e)) \in Nat
<1>1. Newer(rows, e) \in SUBSET DOMAIN rows
  BY DEF Newer
<1>2. IsFiniteSet(Newer(rows, e))
  BY <1>1, FS_Subset DEF Ranked
<1>. QED  BY <1>2, FS_CardinalityType

LEMMA NewestIs ==
    \A rows, n : Newest(rows, n) = {e \in DOMAIN rows : Cardinality(Newer(rows, e)) < n}
  BY DEF Newest, Newer

\* Whatever is newer than one of the newest is one of them.
LEMMA NewestClosed ==
    ASSUME NEW rows, Ranked(rows), NEW n \in Nat, NEW e \in Newest(rows, n),
           NEW f \in DOMAIN rows, rows[f].started_at >= rows[e].started_at
    PROVE  f \in Newest(rows, n)
<1>1. e \in DOMAIN rows /\ Cardinality(Newer(rows, e)) < n
  BY NewestIs
<1>2. Newer(rows, f) \in SUBSET Newer(rows, e)
  BY <1>1 DEF Newer, Ranked
<1>3. Cardinality(Newer(rows, f)) <= Cardinality(Newer(rows, e))
  BY <1>1, <1>2, NewerCounted, FS_Subset
<1>. QED  BY <1>1, <1>3, NewerCounted, NewestIs

\* The n newest are at most n.
LEMMA NewestBounded ==
    ASSUME NEW rows, Ranked(rows), NEW n \in Nat
    PROVE  /\ IsFiniteSet(Newest(rows, n)) /\ Cardinality(Newest(rows, n)) \in Nat
           /\ Cardinality(Newest(rows, n)) <= n
<1>. DEFINE N == Newest(rows, n)
<1>1. N \in SUBSET DOMAIN rows
  BY NewestIs
<1>2. IsFiniteSet(N) /\ Cardinality(N) \in Nat
  BY <1>1, FS_Subset, FS_CardinalityType DEF Ranked
<1>3. CASE N = {}
  BY <1>3, <1>2, FS_EmptySet
<1>4. CASE N # {}
  <2>. DEFINE T == {rows[e].started_at : e \in N}
  <2>1. T \in SUBSET Nat /\ T # {}
    BY <1>1, <1>4 DEF Ranked
  <2>2. PICK e \in N : \A f \in N : rows[e].started_at <= rows[f].started_at
    <3>1. PICK t \in T : \A u \in T : t <= u
      BY <2>1, NatMin
    <3>. QED  BY <3>1
  <2>3. e \in DOMAIN rows /\ Cardinality(Newer(rows, e)) < n
    BY NewestIs
  <2>4. N \ {e} \in SUBSET Newer(rows, e)
    BY <1>1, <2>2, <2>3 DEF Ranked, Newer
  <2>5. Cardinality(N \ {e}) <= Cardinality(Newer(rows, e))
    BY <2>3, <2>4, NewerCounted, FS_Subset
  <2>6. Cardinality(N \ {e}) = Cardinality(N) - 1
    BY <1>2, FS_RemoveElement
  <2>. QED  BY <1>2, <2>3, <2>5, <2>6, NewerCounted
<1>. QED  BY <1>2, <1>3, <1>4

\* Those of the newest that no success is newer than.
Consecutive(rows) ==
    {e \in Newest(rows, Limit) :
       \A f \in Newest(rows, Limit) :
          rows[f].started_at >= rows[e].started_at => rows[f].status \in Failed}

\* When the rows from some time on have all failed, as many are counted as there are, up
\* to the limit of the query.
LEMMA FailuresCounted ==
    ASSUME NEW rows, Ranked(rows), NEW U \in SUBSET DOMAIN rows,
           \A e \in U : rows[e].status \in Failed,
           \A e \in U, f \in DOMAIN rows : rows[f].started_at >= rows[e].started_at => f \in U,
           NEW n \in Nat, n <= Limit, n <= Cardinality(U)
    PROVE  n <= Cardinality(Consecutive(rows))
<1>. DEFINE C == Consecutive(rows)
<1>1. C \in SUBSET DOMAIN rows /\ IsFiniteSet(DOMAIN rows)
  BY NewestIs DEF Consecutive, Ranked
<1>2. IsFiniteSet(C) /\ Cardinality(C) \in Nat /\ IsFiniteSet(U) /\ Cardinality(U) \in Nat
  BY <1>1, FS_Subset, FS_CardinalityType
<1>3. SUFFICES ASSUME Cardinality(C) < n PROVE FALSE
  BY <1>2
<1>4. U \ C # {}
  <2>1. SUFFICES ASSUME U \in SUBSET C PROVE FALSE
    OBVIOUS
  <2>2. Cardinality(U) <= Cardinality(C)
    BY <1>2, <2>1, FS_Subset
  <2>. QED  BY <1>2, <1>3, <2>2
<1>. DEFINE T == {Cardinality(Newer(rows, e)) : e \in U \ C}
<1>5. T \in SUBSET Nat /\ T # {}
  BY <1>4, NewerCounted
<1>6. PICK y \in U \ C : \A e \in U \ C : Cardinality(Newer(rows, y)) <= Cardinality(Newer(rows, e))
  <2>1. PICK t \in T : \A u \in T : t <= u
    BY <1>5, NatMin
  <2>. QED  BY <2>1
<1>7. ASSUME NEW z \in Newer(rows, y) PROVE z \in C
  <2>1. z \in DOMAIN rows /\ rows[z].started_at > rows[y].started_at /\ z \in U
    <3>1. z \in DOMAIN rows /\ rows[z].started_at > rows[y].started_at
      BY <1>7 DEF Newer
    <3>. QED  BY <3>1, <1>6 DEF Ranked
  <2>2. Newer(rows, z) \in SUBSET (Newer(rows, y) \ {z})
    BY <2>1, <1>6 DEF Newer, Ranked
  <2>3. /\ IsFiniteSet(Newer(rows, y) \ {z})
        /\ Cardinality(Newer(rows, y) \ {z}) = Cardinality(Newer(rows, y)) - 1
    BY <1>6, <1>7, NewerCounted, FS_RemoveElement
  <2>4. Cardinality(Newer(rows, z)) <= Cardinality(Newer(rows, y)) - 1
    BY <2>2, <2>3, FS_Subset
  <2>5. Cardinality(Newer(rows, z)) \in Nat /\ Cardinality(Newer(rows, y)) \in Nat
    BY <1>6, <2>1, NewerCounted
  <2>. QED  BY <1>6, <2>1, <2>4, <2>5
<1>8. Cardinality(Newer(rows, y)) < Limit
  <2>1. Newer(rows, y) \in SUBSET C
    BY <1>7
  <2>2. Cardinality(Newer(rows, y)) <= Cardinality(C)
    BY <1>2, <2>1, FS_Subset
  <2>. QED  BY <1>2, <1>3, <1>6, <2>2, NewerCounted, RuleAssumption
<1>9. y \in Newest(rows, Limit)
  BY <1>6, <1>8, NewestIs
<1>10. \A f \in Newest(rows, Limit) :
          rows[f].started_at >= rows[y].started_at => rows[f].status \in Failed
  BY <1>6, NewestIs
<1>. QED  BY <1>6, <1>9, <1>10 DEF Consecutive

\* _count_consecutive_failures is about the rows that the session sees as completed.
LEMMA CountIs ==
    \A seen : _count_consecutive_failures(seen) = Cardinality(Consecutive(CompletedRows(seen)))
  BY DEF _count_consecutive_failures, Consecutive

LEMMA CountBounded ==
    ASSUME NEW seen, Ranked(CompletedRows(seen))
    PROVE  /\ _count_consecutive_failures(seen) \in Nat
           /\ _count_consecutive_failures(seen) <= Limit
<1>. DEFINE rows == CompletedRows(seen)
            N == Newest(rows, Limit)
<1>1. IsFiniteSet(N) /\ Cardinality(N) \in Nat /\ Cardinality(N) <= Limit
  BY NewestBounded, RuleAssumption
<1>2. Consecutive(rows) \in SUBSET N
  BY DEF Consecutive
<1>3. /\ IsFiniteSet(Consecutive(rows)) /\ Cardinality(Consecutive(rows)) \in Nat
      /\ Cardinality(Consecutive(rows)) <= Cardinality(N)
  BY <1>1, <1>2, FS_Subset, FS_CardinalityType
<1>. QED  BY <1>1, <1>3, CountIs, RuleAssumption

---------------------------------------------------------------------------
(* The history                                                             *)

Fields == {"pc", "began", "started_at", "attempt", "rules", "met", "response", "place"}
Points == {"queued", "request", "committed", "evaluated", "ended", "lost"}
Execution == [job : Jobs, status : {"queued", "retrying"} \cup Completed, started_at : Nat]

AttemptOK(q) ==
    /\ DOMAIN q = Fields
    /\ q.pc \in Points /\ q.began \in Nat /\ q.started_at \in Nat /\ q.attempt \in Nat
    /\ q.place \in Nat

HistoryTypeOK ==
    /\ mode \in {"inline", "celery"} /\ now \in Nat /\ commits \in Nat
    /\ job \in [Jobs -> [created_at : Nat] \cup {None}]
    /\ execution \in [RunIds -> Execution \cup {None}]
    /\ run = [e \in RunIds |-> run[e]]
    /\ \A e \in RunIds : run[e] # Idle => AttemptOK(run[e])
    /\ IsFiniteSet({e \in RunIds : run[e] # Idle})

\* Whether the row shows an outcome, and whether an attempt has a beginning of its own.
Done(e) == execution[e] # None /\ execution[e].status \in Completed
Begun(e) == /\ run[e] # Idle /\ execution[e] # None
            /\ run[e].pc \in {"request", "committed", "evaluated"} \/ Done(e)

\* What the row shows at each point of the attempt.
AttemptFits(e) ==
    LET q == run[e]
        x == execution[e]
    IN  /\ q.began <= now /\ q.place <= commits
        /\ mode = "inline" => q.began <= q.started_at
        /\ Begun(e) => q.started_at < now
        /\ q.pc \in {"queued", "request"} => x # None
        /\ mode = "inline" /\ q.pc = "evaluated" => x # None
        /\ q.pc \in {"queued", "request"} =>
              x.status = IF q.attempt = 0 THEN "queued" ELSE "retrying"
        /\ q.pc = "committed" => mode = "celery"
        /\ q.pc \in {"committed", "evaluated"} =>
              /\ q.response.status \in Completed
              /\ mode = "celery" /\ x # None => x.status = q.response.status
        /\ q.pc = "ended" /\ x # None => Done(e)
        /\ Done(e) => x.started_at = q.started_at /\ (mode = "inline" => q.pc = "ended")

RowOK(e) == IF run[e] = Idle THEN execution[e] = None ELSE AttemptFits(e)

Distinct ==
    \A e, f \in RunIds :
       Begun(e) /\ Begun(f) /\ run[e].started_at = run[f].started_at => e = f

AlertsOK ==
    \A a \in alerts :
       /\ a.execution \in RunIds /\ run[a.execution] # Idle
       /\ run[a.execution].pc = "ended" /\ a.created_at = run[a.execution].began

\* The rule r has raised its alert for e, or is about to.
RaisedBy(r, e) ==
    \/ run[e].pc = "evaluated" /\ r \in run[e].met
    \/ \E a \in alerts : a.rule = r /\ a.execution = e

\* Inline attempts hold the row of their job from the evaluation of its rules on.
Holds(e) == /\ run[e] # Idle /\ run[e].pc = "evaluated"
            /\ execution[e] # None /\ execution[e].job = Ruled
Exclusive == mode = "inline" => \A e, f \in RunIds : Holds(e) /\ Holds(f) => e = f

\* The executions whose rules were evaluated.
Judged(e) == /\ run[e] # Idle /\ run[e].pc \in {"evaluated", "ended"}
             /\ execution[e] # None /\ execution[e].job = Ruled
StatusOf(e) == IF run[e].pc = "evaluated" THEN run[e].response.status ELSE execution[e].status
Succeeded(e) == execution[e] # None /\ execution[e].job = Ruled /\ execution[e].status = "success"

\* The failure of f was committed before the outcome of e is, or was.
Counted(e, f) ==
    /\ Done(f) /\ execution[f].job = Ruled /\ execution[f].status \in Failed
    /\ (mode = "inline" /\ run[e].pc = "evaluated") \/ run[f].place < run[e].place

\* Failures of which e is committed last, with no success among them, for a rule `row`.
Streak(row, e, S) ==
    /\ StatusOf(e) \in Failed
    /\ \A f \in S \ {e} : Counted(e, f)
    /\ \A f \in RunIds : Succeeded(f) => \A g \in S : execution[f].started_at < run[g].started_at
    /\ row # None /\ row.is_enabled /\ row.condition_type = "consecutive_failures_gte"
    /\ row.condition_value \in 1 .. Limit
    /\ IsFiniteSet(S) /\ row.condition_value <= Cardinality(S)

StreaksNoticed ==
    \A r \in RuleIds, e \in RunIds, S \in SUBSET RunIds :
       e \in S /\ Judged(e) /\ Streak(run[e].rules[r], e, S) => RaisedBy(r, e)

HistoryInv ==
    /\ HistoryTypeOK /\ Distinct /\ AlertsOK /\ Exclusive /\ StreaksNoticed
    /\ \A e \in RunIds : RowOK(e)

---------------------------------------------------------------------------
(* Summaries                                                               *)

SummaryFields == {"pc", "now", "start", "end", "jobs", "failures", "successes", "daily", "rows",
                  "alerts"}

\* A failure that was counted is one still, or has been retried since.
FailedOnce(e) ==
    /\ e \in RunIds /\ run[e] # Idle
    /\ \/ run[e].attempt > 0
       \/ /\ run[e].pc \notin {"queued", "request"}
          /\ mode = "inline" => run[e].pc = "ended"
          /\ execution[e] # None => execution[e].status \in Failed

\* An outcome that a report lists in inline mode stays, and so do its alerts.
Listed(row) ==
    /\ row.id \in RunIds /\ row.job \in Jobs
    /\ mode = "inline" /\ row.status \in Completed =>
          /\ run[row.id] # Idle /\ run[row.id].pc = "ended"
          /\ run[row.id].began <= summary.end

SummaryInv ==
    summary # None =>
       /\ DOMAIN summary = SummaryFields
       /\ summary.now \in Nat /\ summary.now <= now
       /\ summary.pc \in {"failures_24h", "successes_24h", "daily_stats", "answered",
                          "report_executions", "report_alerts", "generated"}
       /\ \A j \in Jobs : \/ j \in summary.jobs
                          \/ job[j] = None \/ job[j].created_at >= summary.now
       /\ summary.pc = "successes_24h" => \A e \in summary.failures : FailedOnce(e)
       /\ summary.pc \in {"daily_stats", "answered"} =>
             \A e \in summary.failures \cap summary.successes :
                e \in RunIds /\ run[e] # Idle /\ run[e].attempt > 0
       /\ summary.pc \in {"report_executions", "report_alerts", "generated"} =>
             summary.start \in Int /\ summary.end \in Int
       /\ summary.pc \in {"report_alerts", "generated"} => \A row \in summary.rows : Listed(row)
       /\ summary.pc = "generated" =>
             \A row \in summary.rows : \A a \in alerts :
                /\ mode = "inline" /\ row.status \in Completed
                /\ a.execution = row.id /\ a.created_at >= summary.start
                => a \in summary.alerts

---------------------------------------------------------------------------
(* What is known of an attempt                                             *)

LEMMA AttemptIsThere == \A q : AttemptOK(q) => q # Idle
<1>. SUFFICES ASSUME NEW q, AttemptOK(q) PROVE q # Idle
  OBVIOUS
<1>1. "pc" \in DOMAIN q /\ DOMAIN Idle = {}
  BY DEF AttemptOK, Fields, Idle
<1>. QED  BY <1>1

LEMMA ExecutionIsThere == \A x \in Execution : x # None
<1>. SUFFICES ASSUME NEW x \in Execution PROVE x # None
  OBVIOUS
<1>1. "job" \in DOMAIN x /\ DOMAIN None = {}
  BY DEF Execution, None
<1>. QED  BY <1>1

LEMMA AttemptKnown ==
    ASSUME HistoryInv, NEW e \in RunIds
    PROVE  /\ mode \in {"inline", "celery"} /\ now \in Nat /\ commits \in Nat
           /\ RowOK(e)
           /\ run[e] # Idle => AttemptOK(run[e]) /\ AttemptFits(e)
           /\ run[e] = Idle => execution[e] = None
           /\ execution[e] # None => execution[e] \in Execution
           /\ execution \in [RunIds -> Execution \cup {None}]
           /\ run = [f \in RunIds |-> run[f]]
<1>1. RowOK(e)
  BY DEF HistoryInv
<1>2. HistoryTypeOK
  BY DEF HistoryInv
<1>. QED  BY <1>1, <1>2 DEF RowOK, HistoryTypeOK

\* Nobody has an alert before its attempt has ended.
LEMMA AlertsComeAtTheEnd ==
    ASSUME HistoryInv, NEW e \in RunIds, run[e] = Idle \/ run[e].pc # "ended"
    PROVE  \A a \in alerts : a.execution # e
  BY DEF HistoryInv, AlertsOK

\* What the summaries rely on.
Moves ==
    /\ mode' = mode /\ now' \in Nat /\ now <= now'
    /\ \A e \in RunIds :
          run[e] # Idle => /\ run'[e] # Idle /\ run'[e].attempt >= run[e].attempt
                           /\ run[e].pc = "ended" => /\ run'[e].pc = "ended"
                                                     /\ run'[e].began = run[e].began
    /\ \A e \in RunIds : FailedOnce(e) => FailedOnce(e)'
    /\ \A a \in alerts' :
          a \in alerts \/ (/\ a.execution \in RunIds /\ run[a.execution] # Idle
                           /\ run[a.execution].pc = "evaluated")
    /\ \A j \in Jobs : job'[j] \in {job[j], None} \/ job'[j].created_at = now

\* One attempt moves, with its row.
LEMMA AttemptMoves ==
    ASSUME HistoryInv, NEW e \in RunIds, NEW q, NEW x,
           AttemptOK(q), x \in Execution \cup {None},
           run' = [run EXCEPT ![e] = q], execution' = [execution EXCEPT ![e] = x],
           mode' = mode, job' = job, now' = now \/ now' = now + 1,
           commits' = commits \/ commits' = commits + 1,
           AttemptFits(e)',
           Begun(e)' => \/ q.started_at = now
                        \/ Begun(e) /\ run[e].started_at = q.started_at,
           run[e] # Idle => run[e].pc # "ended" /\ run[e].attempt <= q.attempt,
           \A a \in alerts' :
              \/ a \in alerts
              \/ /\ a.execution = e /\ q.pc = "ended" /\ a.created_at = q.began
                 /\ run[e] # Idle /\ run[e].pc = "evaluated",
           FailedOnce(e) => FailedOnce(e)'
    PROVE  /\ HistoryTypeOK' /\ Distinct' /\ AlertsOK' /\ \A f \in RunIds : RowOK(f)'
           /\ Moves
           /\ run'[e] = q /\ execution'[e] = x
           /\ \A f \in RunIds \ {e} : run'[f] = run[f] /\ execution'[f] = execution[f]
<1>1. /\ run'[e] = q /\ execution'[e] = x /\ q # Idle
      /\ \A f \in RunIds \ {e} : run'[f] = run[f] /\ execution'[f] = execution[f]
      /\ run' = [f \in RunIds |-> run'[f]] /\ now \in Nat /\ now' \in Nat /\ now <= now'
      /\ commits \in Nat /\ commits' \in Nat /\ commits <= commits'
  <2>1. q # Idle
    BY AttemptIsThere
  <2>2. /\ now \in Nat /\ execution \in [RunIds -> Execution \cup {None}]
        /\ run = [f \in RunIds |-> run[f]]
    BY AttemptKnown
  <2>3. execution'[e] = x /\ \A f \in RunIds \ {e} : execution'[f] = execution[f]
    BY <2>2
  <2>4. /\ run'[e] = q /\ \A f \in RunIds \ {e} : run'[f] = run[f]
        /\ run' = [f \in RunIds |-> run'[f]]
    BY <2>2
  <2>5. now' \in Nat /\ now <= now'
    BY <2>2
  <2>6. commits \in Nat /\ commits' \in Nat /\ commits <= commits'
    BY DEF HistoryInv, HistoryTypeOK
  <2>. QED  BY <2>1, <2>2, <2>3, <2>4, <2>5, <2>6
<1>2. HistoryTypeOK'
  <2>1. HistoryTypeOK
    BY DEF HistoryInv
  <2>2. execution' \in [RunIds -> Execution \cup {None}]
    BY <2>1 DEF HistoryTypeOK
  <2>3. \A f \in RunIds : run'[f] # Idle => AttemptOK(run'[f])
    BY <1>1, <2>1 DEF HistoryTypeOK
  <2>4. IsFiniteSet({f \in RunIds : run'[f] # Idle})
    <3>1. PICK T : T = {f \in RunIds : run[f] # Idle}
      OBVIOUS
    <3>2. IsFiniteSet(T)
      BY <2>1, <3>1 DEF HistoryTypeOK
    <3>3. {f \in RunIds : run'[f] # Idle} = T \cup {e}
      BY <1>1, <3>1
    <3>4. IsFiniteSet(T \cup {e})
      BY <3>2, FS_AddElement
    <3>. QED  BY <3>3, <3>4
  <2>5. AttemptOK(q)' <=> AttemptOK(q)
    BY DEF AttemptOK
  <2>. QED  BY <1>1, <2>1, <2>2, <2>3, <2>4
            DEF HistoryTypeOK, AttemptOK, Execution, Completed, Failed
<1>3. ASSUME NEW f \in RunIds PROVE RowOK(f)'
  <2>1. CASE f = e
    BY <1>1, <2>1 DEF RowOK
  <2>2. CASE f # e
    <3>1. run'[f] = run[f] /\ execution'[f] = execution[f]
      BY <1>1, <2>2
    <3>2. RowOK(f) /\ (run[f] # Idle => AttemptOK(run[f]))
      BY AttemptKnown
    <3>. QED  BY <1>1, <3>1, <3>2 DEF RowOK, AttemptFits, Begun, Done, AttemptOK
  <2>. QED  BY <2>1, <2>2
<1>4. ASSUME NEW f \in RunIds, f # e, Begun(f)'
      PROVE  Begun(f) /\ run'[f].started_at = run[f].started_at /\ run[f].started_at < now
  <2>1. run'[f] = run[f] /\ execution'[f] = execution[f]
    BY <1>1, <1>4
  <2>2. Begun(f)
    BY <1>4, <2>1 DEF Begun, Done
  <2>3. run[f].started_at < now
    BY <2>2, AttemptKnown DEF Begun, AttemptFits
  <2>. QED  BY <2>1, <2>2, <2>3
<1>5. Distinct'
  <2>1. ASSUME NEW f \in RunIds, f # e, Begun(f)', Begun(e)',
               run'[f].started_at = run'[e].started_at
        PROVE  FALSE
    <3>1. Begun(f) /\ run'[f].started_at = run[f].started_at /\ run[f].started_at < now
      BY <1>4, <2>1
    <3>2. CASE q.started_at = now
      BY <1>1, <2>1, <3>1, <3>2
    <3>3. CASE Begun(e) /\ run[e].started_at = q.started_at
      BY <1>1, <2>1, <3>1, <3>3 DEF HistoryInv, Distinct
    <3>. QED  BY <2>1, <3>2, <3>3
  <2>2. ASSUME NEW f \in RunIds, NEW g \in RunIds, f # e, g # e, Begun(f)', Begun(g)',
               run'[f].started_at = run'[g].started_at
        PROVE  f = g
    BY <1>4, <2>2 DEF HistoryInv, Distinct
  <2>. QED  BY <2>1, <2>2 DEF Distinct
<1>6. AlertsOK'
  <2>1. ASSUME NEW a \in alerts', a \in alerts
        PROVE  /\ a.execution \in RunIds /\ run'[a.execution] # Idle
               /\ run'[a.execution].pc = "ended" /\ a.created_at = run'[a.execution].began
    <3>1. /\ a.execution \in RunIds /\ run[a.execution] # Idle
          /\ run[a.execution].pc = "ended" /\ a.created_at = run[a.execution].began
      BY <2>1 DEF HistoryInv, AlertsOK
    <3>2. a.execution # e
      BY <3>1
    <3>. QED  BY <1>1, <3>1, <3>2
  <2>2. ASSUME NEW a \in alerts', a \notin alerts
        PROVE  /\ a.execution \in RunIds /\ run'[a.execution] # Idle
               /\ run'[a.execution].pc = "ended" /\ a.created_at = run'[a.execution].began
    BY <1>1, <2>2
  <2>. QED  BY <2>1, <2>2 DEF AlertsOK
<1>7. Moves
  <2>1. ASSUME NEW f \in RunIds PROVE FailedOnce(f) => FailedOnce(f)'
    BY <1>1, <2>1 DEF FailedOnce
  <2>2. ASSUME NEW f \in RunIds, run[f] # Idle
        PROVE  /\ run'[f] # Idle /\ run'[f].attempt >= run[f].attempt
               /\ run[f].pc = "ended" => /\ run'[f].pc = "ended"
                                         /\ run'[f].began = run[f].began
    <3>1. AttemptOK(run[f])
      BY <2>2, AttemptKnown
    <3>2. CASE f = e
      BY <1>1, <2>2, <3>1, <3>2 DEF AttemptOK
    <3>3. CASE f # e
      BY <1>1, <2>2, <3>1, <3>3 DEF AttemptOK
    <3>. QED  BY <3>2, <3>3
  <2>. QED  BY <1>1, <2>1, <2>2 DEF Moves
<1>. QED  BY <1>1, <1>2, <1>3, <1>5, <1>6, <1>7

---------------------------------------------------------------------------
(* Streaks                                                                 *)

\* A step after which nobody is judged who was not before.
LEMMA StreaksKept ==
    ASSUME StreaksNoticed,
           \A f \in RunIds :
              Judged(f)' => /\ Judged(f) /\ StatusOf(f)' = StatusOf(f)
                            /\ run'[f].rules = run[f].rules
                            /\ run'[f].started_at = run[f].started_at
                            /\ \A r \in RuleIds : RaisedBy(r, f) => RaisedBy(r, f)',
           \A e, f \in RunIds :
              e # f /\ Judged(e)' /\ Counted(e, f)' =>
                 Counted(e, f) /\ run'[f].started_at = run[f].started_at,
           \A f \in RunIds :
              Succeeded(f) => \/ Succeeded(f)' /\ execution'[f].started_at = execution[f].started_at
                              \/ \A g \in RunIds : ~Judged(g)'
    PROVE  StreaksNoticed'
<1>. SUFFICES ASSUME NEW r \in RuleIds, NEW e \in RunIds, NEW S \in SUBSET RunIds,
                     e \in S, Judged(e)', Streak(run[e].rules[r], e, S)'
              PROVE  RaisedBy(r, e)'
  BY DEF StreaksNoticed
<1>1. PICK row : row = run[e].rules[r]
  OBVIOUS
<1>2. /\ Judged(e) /\ StatusOf(e)' = StatusOf(e) /\ run'[e].rules = run[e].rules
      /\ run'[e].started_at = run[e].started_at
      /\ RaisedBy(r, e) => RaisedBy(r, e)'
  OBVIOUS
<1>3. run'[e].rules[r] = row
  BY <1>1, <1>2
<1>4. /\ StatusOf(e)' \in Failed /\ \A f \in S \ {e} : Counted(e, f)'
      /\ \A f \in RunIds : Succeeded(f)' =>
            \A g \in S : execution'[f].started_at < run'[g].started_at
      /\ row # None /\ row.is_enabled /\ row.condition_type = "consecutive_failures_gte"
      /\ row.condition_value \in 1 .. Limit
      /\ IsFiniteSet(S) /\ row.condition_value <= Cardinality(S)
  BY <1>3 DEF Streak, Failed
<1>5. \A f \in S \ {e} : Counted(e, f) /\ run'[f].started_at = run[f].started_at
  BY <1>4
<1>6. \A f \in RunIds : Succeeded(f) => \A g \in S : execution[f].started_at < run[g].started_at
  BY <1>2, <1>4, <1>5
<1>7. Streak(row, e, S)
  BY <1>2, <1>4, <1>5, <1>6 DEF Streak
<1>8. RaisedBy(r, e)
  BY <1>1, <1>2, <1>7 DEF StreaksNoticed
<1>. QED  BY <1>2, <1>8

\* An attempt moves to where nothing is judged.
LEMMA NothingIsJudged ==
    ASSUME HistoryInv, NEW e \in RunIds, run[e] = Idle \/ run[e].pc # "ended",
           alerts' = alerts, mode' = mode,
           \A f \in RunIds \ {e} : run'[f] = run[f] /\ execution'[f] = execution[f],
           \/ run'[e].pc \in {"queued", "request", "committed", "lost"}
           \/ /\ execution'[e] = None
              /\ run'[e].pc = "ended" \/ (run'[e].pc = "evaluated" /\ run'[e].met = {}),
           Done(e)' => \/ mode = "celery" /\ run'[e].place \in Nat /\ run'[e].place > commits
                       \/ /\ execution'[e] = execution[e] /\ run'[e].place = run[e].place
                          /\ run'[e].started_at = run[e].started_at,
           Succeeded(e) => execution'[e] = execution[e]
    PROVE  Exclusive' /\ StreaksNoticed'
<1>1. ~Judged(e)' /\ ~Holds(e)'
  BY DEF Judged, Holds
<1>2. \A f \in RunIds \ {e}, r \in RuleIds : RaisedBy(r, f)' <=> RaisedBy(r, f)
  BY DEF RaisedBy
<1>3. Exclusive /\ StreaksNoticed
  BY DEF HistoryInv
<1>4. Exclusive'
  <2>1. \A f \in RunIds : Holds(f)' => Holds(f)
    BY <1>1 DEF Holds
  <2>. QED  BY <1>3, <2>1 DEF Exclusive
<1>5. \A f \in RunIds :
         Judged(f)' => /\ Judged(f) /\ StatusOf(f)' = StatusOf(f)
                       /\ run'[f].rules = run[f].rules
                       /\ run'[f].started_at = run[f].started_at
                       /\ \A r \in RuleIds : RaisedBy(r, f) => RaisedBy(r, f)'
  BY <1>1, <1>2 DEF Judged, StatusOf
<1>6. \A f \in RunIds :
         Succeeded(f) => Succeeded(f)' /\ execution'[f].started_at = execution[f].started_at
  BY DEF Succeeded
<1>7. ASSUME NEW g \in RunIds, NEW f \in RunIds, g # f, Judged(g)', Counted(g, f)'
      PROVE  Counted(g, f) /\ run'[f].started_at = run[f].started_at
  <2>1. g # e /\ run'[g] = run[g] /\ Judged(g)
    BY <1>1, <1>5, <1>7
  <2>2. CASE f # e
    BY <1>7, <2>1, <2>2 DEF Counted, Done
  <2>3. CASE f = e
    <3>1. Done(e)' /\ ((mode = "inline" /\ run[g].pc = "evaluated") \/ run'[e].place < run[g].place)
      BY <1>7, <2>1, <2>3 DEF Counted
    <3>2. CASE mode = "celery" /\ run'[e].place \in Nat /\ run'[e].place > commits
      <4>1. run[g].place <= commits /\ run[g].place \in Nat /\ commits \in Nat
        BY <2>1, AttemptKnown DEF Judged, AttemptFits, AttemptOK, HistoryInv, HistoryTypeOK
      <4>2. run'[e].place < run[g].place
        BY <3>1, <3>2
      <4>3. \A i \in Nat : i > commits /\ i < run[g].place => FALSE
        BY <4>1
      <4>. QED  BY <3>2, <4>2, <4>3
    <3>3. CASE /\ execution'[e] = execution[e] /\ run'[e].place = run[e].place
               /\ run'[e].started_at = run[e].started_at
      BY <1>7, <2>1, <2>3, <3>1, <3>3 DEF Counted, Done
    <3>. QED  BY <3>1, <3>2, <3>3
  <2>. QED  BY <2>2, <2>3
<1>. QED  BY <1>3, <1>4, <1>5, <1>6, <1>7, StreaksKept

\* A step of the history leaves the invariant behind.
HistoryOK == HistoryInv' /\ Moves

\* A move to where nothing is judged.
LEMMA AttemptGoesOn ==
    ASSUME HistoryInv, NEW e \in RunIds, NEW q, NEW x,
           AttemptOK(q), x \in Execution \cup {None},
           run' = [run EXCEPT ![e] = q], execution' = [execution EXCEPT ![e] = x],
           mode' = mode, job' = job, alerts' = alerts, now' = now \/ now' = now + 1,
           commits' = commits \/ commits' = commits + 1,
           AttemptFits(e)',
           Begun(e)' => \/ q.started_at = now
                        \/ Begun(e) /\ run[e].started_at = q.started_at,
           run[e] # Idle => run[e].pc # "ended" /\ run[e].attempt <= q.attempt,
           \/ q.pc \in {"queued", "request", "committed", "lost"}
           \/ x = None /\ (q.pc = "ended" \/ (q.pc = "evaluated" /\ q.met = {})),
           Done(e)' => \/ mode = "celery" /\ q.place > commits
                       \/ /\ x = execution[e] /\ q.place = run[e].place
                          /\ q.started_at = run[e].started_at,
           Succeeded(e) => x = execution[e],
           FailedOnce(e) => FailedOnce(e)'
    PROVE  HistoryOK
<1>1. q.place \in Nat /\ \A a \in alerts' : a \in alerts
  BY DEF AttemptOK
<1>2. /\ HistoryTypeOK' /\ Distinct' /\ AlertsOK' /\ \A f \in RunIds : RowOK(f)'
      /\ Moves
      /\ run'[e] = q /\ execution'[e] = x
      /\ \A f \in RunIds \ {e} : run'[f] = run[f] /\ execution'[f] = execution[f]
  BY <1>1, AttemptMoves
<1>3. Exclusive' /\ StreaksNoticed'
  BY <1>1, <1>2, NothingIsJudged
<1>. QED  BY <1>2, <1>3 DEF HistoryOK, HistoryInv

LEMMA QueueStep ==
    ASSUME HistoryInv, NEW e \in RunIds, NEW j \in Jobs, Queue(e, j)
    PROVE  HistoryOK
<1>1. PICK q, x :
         /\ q = [pc |-> "queued", began |-> now, started_at |-> now, attempt |-> 0,
                 rules |-> <<>>, met |-> {}, response |-> <<>>, place |-> 0]
         /\ x = [job |-> j, status |-> "queued", started_at |-> now]
  OBVIOUS
<1>2. /\ run[e] = Idle /\ now \in Nat /\ execution[e] = None
      /\ run' = [run EXCEPT ![e] = q] /\ execution' = [execution EXCEPT ![e] = x]
      /\ mode' = mode /\ job' = job /\ now' = now /\ alerts' = alerts
      /\ commits' = commits /\ commits \in Nat
  BY <1>1, AttemptKnown DEF Queue
<1>3. /\ DOMAIN q = Fields /\ q.pc = "queued" /\ q.began = now /\ q.started_at = now
      /\ q.attempt = 0 /\ q.place = 0
  BY <1>1 DEF Fields
<1>4. AttemptOK(q)
  BY <1>2, <1>3 DEF AttemptOK, Points
<1>5. x \in Execution /\ x.status = "queued"
  BY <1>1, <1>2 DEF Execution
<1>6. run'[e] = q /\ execution'[e] = x /\ x # None
  BY <1>2, <1>5, AttemptKnown, ExecutionIsThere
<1>7. ~Begun(e)' /\ ~Done(e)'
  BY <1>3, <1>5, <1>6 DEF Begun, Done, Completed, Failed
<1>8. AttemptFits(e)'
  BY <1>2, <1>3, <1>5, <1>6, <1>7 DEF AttemptFits
<1>9. ~FailedOnce(e) /\ ~Succeeded(e)
  BY <1>2 DEF FailedOnce, Succeeded
<1>. QED  BY <1>2, <1>3, <1>4, <1>5, <1>7, <1>8, <1>9, AttemptGoesOn

LEMMA StartAttemptStep ==
    ASSUME HistoryInv, NEW e \in RunIds, StartAttempt(e)
    PROVE  HistoryOK
<1>1. PICK q, x : q = [run[e] EXCEPT !.pc = "request", !.started_at = now] /\ x = execution[e]
  OBVIOUS
<1>2. /\ run[e] # Idle /\ run[e].pc = "queued" /\ now' = now + 1
      /\ mode' = mode /\ job' = job /\ execution' = execution /\ alerts' = alerts
      /\ commits' = commits
  BY DEF StartAttempt
<1>3. /\ AttemptOK(run[e]) /\ AttemptFits(e) /\ now \in Nat
      /\ execution = [f \in RunIds |-> execution[f]]
  BY <1>2, AttemptKnown
<1>4. /\ DOMAIN q = Fields /\ q.pc = "request" /\ q.began = run[e].began /\ q.started_at = now
      /\ q.attempt = run[e].attempt /\ q.place = run[e].place
  BY <1>1, <1>3 DEF AttemptOK, Fields
<1>5. AttemptOK(q)
  BY <1>3, <1>4 DEF AttemptOK, Points
<1>6. /\ run' = [run EXCEPT ![e] = q] /\ run'[e] = q
      /\ execution' = [execution EXCEPT ![e] = x] /\ execution'[e] = x
  BY <1>1, <1>2, <1>3, AttemptKnown DEF StartAttempt
<1>7. /\ x \in Execution /\ x # None
      /\ x.status = IF q.attempt = 0 THEN "queued" ELSE "retrying"
  BY <1>1, <1>2, <1>3, <1>4, AttemptKnown DEF AttemptFits
<1>8. ~Done(e)'
  BY <1>6, <1>7 DEF Done, Completed, Failed
<1>9. AttemptFits(e)'
  BY <1>2, <1>3, <1>4, <1>5, <1>6, <1>7, <1>8 DEF AttemptFits, AttemptOK
<1>10. FailedOnce(e) => FailedOnce(e)'
  <2>1. q # Idle
    BY <1>5, AttemptIsThere
  <2>. QED  BY <1>2, <1>4, <1>6, <2>1 DEF FailedOnce
<1>11. run[e].pc # "ended" /\ run[e].attempt <= q.attempt
  BY <1>2, <1>3, <1>4 DEF AttemptOK
<1>12. q.pc \in {"queued", "request", "committed", "lost"} /\ x = execution[e]
  BY <1>1, <1>4
<1>. QED
  BY <1>2, <1>4, <1>5, <1>6, <1>7, <1>8, <1>9, <1>10, <1>11, <1>12, AttemptGoesOn

LEMMA AnswerCeleryStep ==
    ASSUME HistoryInv, NEW e \in RunIds, NEW response \in Responses, AnswerCelery(e, response)
    PROVE  HistoryOK
<1>1. PICK q, x :
         /\ q = [run[e] EXCEPT !.pc = "committed", !.response = response, !.began = now,
                               !.place = commits + 1]
         /\ x = Outcome(e, response)
  OBVIOUS
<1>2. /\ run[e] # Idle /\ run[e].pc = "request" /\ mode = "celery"
      /\ mode' = mode /\ job' = job /\ now' = now /\ alerts' = alerts
      /\ commits' = commits + 1
  BY DEF AnswerCelery
<1>3. /\ AttemptOK(run[e]) /\ AttemptFits(e) /\ now \in Nat /\ execution[e] \in Execution
      /\ execution[e] # None /\ response.status \in Completed /\ commits \in Nat
  BY <1>2, AttemptKnown, HistoryAssumption DEF AttemptFits
<1>4. /\ DOMAIN q = Fields /\ q.pc = "committed" /\ q.began = now
      /\ q.started_at = run[e].started_at /\ q.attempt = run[e].attempt /\ q.response = response
      /\ q.place = commits + 1
  BY <1>1, <1>3 DEF AttemptOK, Fields
<1>5. AttemptOK(q)
  BY <1>3, <1>4 DEF AttemptOK, Points
<1>6. /\ run' = [run EXCEPT ![e] = q] /\ run'[e] = q
      /\ execution' = [execution EXCEPT ![e] = x] /\ execution'[e] = x
  BY <1>1, <1>2, <1>3, AttemptKnown DEF AnswerCelery
<1>7. x \in Execution /\ x.status = response.status /\ x.started_at = q.started_at
  BY <1>1, <1>3, <1>4, <1>5 DEF Outcome, Execution, AttemptOK
<1>8. x # None /\ q # Idle
  BY <1>5, <1>7, ExecutionIsThere, AttemptIsThere
<1>9. Begun(e) /\ run[e].started_at < now
  BY <1>2, <1>3 DEF Begun, AttemptFits
<1>10. Done(e)'
  BY <1>3, <1>6, <1>7, <1>8 DEF Done
<1>11. AttemptFits(e)'
  BY <1>2, <1>3, <1>4, <1>6, <1>7, <1>8, <1>9, <1>10 DEF AttemptFits
<1>12. FailedOnce(e) => FailedOnce(e)'
  <2>1. FailedOnce(e) => run[e].attempt > 0
    BY <1>2 DEF FailedOnce
  <2>. QED  BY <2>1, <1>4, <1>6, <1>8 DEF FailedOnce
<1>13. ~Succeeded(e) /\ run[e].pc # "ended" /\ run[e].attempt <= q.attempt
  BY <1>2, <1>3, <1>4 DEF Succeeded, AttemptFits, AttemptOK
<1>14. q.pc \in {"queued", "request", "committed", "lost"} /\ q.place > commits
  BY <1>3, <1>4
<1>. QED
  BY <1>2, <1>4, <1>5, <1>6, <1>7, <1>9, <1>11, <1>12, <1>13, <1>14, AttemptGoesOn

LEMMA RetryStep ==
    ASSUME HistoryInv, NEW e \in RunIds, Retry(e)
    PROVE  HistoryOK
<1>1. PICK q, x :
         /\ q = [run[e] EXCEPT !.pc = "queued", !.attempt = run[e].attempt + 1]
         /\ x = [execution[e] EXCEPT !.status = "retrying"]
  OBVIOUS
<1>2. /\ run[e] # Idle /\ run[e].pc = "committed" /\ run[e].response.status \in Failed
      /\ mode' = mode /\ job' = job /\ now' = now /\ alerts' = alerts
      /\ commits' = commits /\ execution[e] # None
  BY DEF Retry, MustRetry, Rows
<1>3. /\ AttemptOK(run[e]) /\ AttemptFits(e) /\ now \in Nat /\ execution[e] \in Execution
  BY <1>2, AttemptKnown
<1>4. /\ DOMAIN q = Fields /\ q.pc = "queued" /\ q.began = run[e].began
      /\ q.started_at = run[e].started_at /\ q.attempt = run[e].attempt + 1
      /\ q.place = run[e].place
  BY <1>1, <1>3 DEF AttemptOK, Fields
<1>5. AttemptOK(q) /\ q.attempt > 0
  BY <1>3, <1>4 DEF AttemptOK, Points
<1>6. /\ run' = [run EXCEPT ![e] = q] /\ run'[e] = q
      /\ execution' = [execution EXCEPT ![e] = x] /\ execution'[e] = x
  BY <1>1, <1>2, <1>3, AttemptKnown DEF Retry
<1>7. x \in Execution /\ x.status = "retrying"
  BY <1>1, <1>3 DEF Execution
<1>8. x # None /\ q # Idle
  BY <1>5, <1>7, ExecutionIsThere, AttemptIsThere
<1>9. ~Done(e)' /\ ~Begun(e)'
  BY <1>4, <1>6, <1>7 DEF Done, Begun, Completed, Failed
<1>10. AttemptFits(e)'
  BY <1>2, <1>3, <1>4, <1>5, <1>6, <1>7, <1>8, <1>9 DEF AttemptFits
<1>11. FailedOnce(e)'
  BY <1>5, <1>6, <1>8 DEF FailedOnce
<1>12. ~Succeeded(e) /\ run[e].pc # "ended" /\ run[e].attempt <= q.attempt
  BY <1>2, <1>3, <1>4 DEF Succeeded, AttemptFits, AttemptOK, Failed
<1>13. q.pc \in {"queued", "request", "committed", "lost"}
  BY <1>4
<1>. QED
  BY <1>2, <1>4, <1>5, <1>6, <1>7, <1>9, <1>10, <1>11, <1>12, <1>13, AttemptGoesOn

LEMMA DieStep ==
    ASSUME HistoryInv, NEW e \in RunIds, Die(e)
    PROVE  HistoryOK
<1>1. PICK q, x : q = [run[e] EXCEPT !.pc = "lost"] /\ x = execution[e]
  OBVIOUS
<1>2. /\ run[e] # Idle /\ run[e].pc \notin {"ended", "lost"}
      /\ mode' = mode /\ job' = job /\ now' = now /\ alerts' = alerts /\ execution' = execution
      /\ commits' = commits
  BY DEF Die, Rests
<1>3. /\ AttemptOK(run[e]) /\ AttemptFits(e) /\ now \in Nat
      /\ execution[e] \in Execution \cup {None} /\ execution = [f \in RunIds |-> execution[f]]
  BY <1>2, AttemptKnown
<1>4. /\ DOMAIN q = Fields /\ q.pc = "lost" /\ q.began = run[e].began
      /\ q.started_at = run[e].started_at /\ q.attempt = run[e].attempt /\ q.place = run[e].place
  BY <1>1, <1>3 DEF AttemptOK, Fields
<1>5. AttemptOK(q) /\ q # Idle
  <2>1. AttemptOK(q)
    BY <1>3, <1>4 DEF AttemptOK, Points
  <2>. QED  BY <2>1, AttemptIsThere
<1>6. /\ run' = [run EXCEPT ![e] = q] /\ run'[e] = q
      /\ execution' = [execution EXCEPT ![e] = x] /\ execution'[e] = x
  BY <1>1, <1>2, <1>3, AttemptKnown DEF Die
<1>7. Done(e)' <=> Done(e)
  BY <1>1, <1>6 DEF Done
<1>8. (Begun(e)' => Begun(e)) /\ (mode = "inline" => ~Done(e))
  BY <1>1, <1>2, <1>3, <1>4, <1>6, <1>7 DEF Begun, AttemptFits
<1>9. AttemptFits(e)'
  BY <1>1, <1>2, <1>3, <1>4, <1>6, <1>7, <1>8 DEF AttemptFits
<1>10. FailedOnce(e) => FailedOnce(e)'
  BY <1>1, <1>2, <1>4, <1>5, <1>6 DEF FailedOnce
<1>11. run[e].pc # "ended" /\ run[e].attempt <= q.attempt
  BY <1>2, <1>3, <1>4 DEF AttemptOK
<1>12. /\ q.pc \in {"queued", "request", "committed", "lost"} /\ x = execution[e]
       /\ x \in Execution \cup {None}
  BY <1>1, <1>3, <1>4
<1>. QED
  BY <1>2, <1>4, <1>5, <1>6, <1>8, <1>9, <1>10, <1>11, <1>12, AttemptGoesOn

LEMMA FindNoRowStep ==
    ASSUME HistoryInv, NEW e \in RunIds, FindNoRow(e)
    PROVE  HistoryOK
<1>1. PICK q, x : q = [run[e] EXCEPT !.pc = "ended"] /\ x = execution[e]
  OBVIOUS
<1>2. /\ run[e] # Idle /\ run[e].pc = "committed" /\ x = None
      /\ mode' = mode /\ job' = job /\ now' = now /\ alerts' = alerts /\ execution' = execution
      /\ commits' = commits
  BY <1>1 DEF FindNoRow, Rows
<1>3. /\ AttemptOK(run[e]) /\ AttemptFits(e) /\ now \in Nat
      /\ execution = [f \in RunIds |-> execution[f]]
  BY <1>2, AttemptKnown
<1>4. /\ DOMAIN q = Fields /\ q.pc = "ended" /\ q.began = run[e].began
      /\ q.started_at = run[e].started_at /\ q.attempt = run[e].attempt /\ q.place = run[e].place
  BY <1>1, <1>3 DEF AttemptOK, Fields
<1>5. AttemptOK(q) /\ q # Idle
  <2>1. AttemptOK(q)
    BY <1>3, <1>4 DEF AttemptOK, Points
  <2>. QED  BY <2>1, AttemptIsThere
<1>6. /\ run' = [run EXCEPT ![e] = q] /\ run'[e] = q
      /\ execution' = [execution EXCEPT ![e] = x] /\ execution'[e] = x
  BY <1>1, <1>2, <1>3, AttemptKnown DEF FindNoRow
<1>7. ~Done(e)' /\ ~Begun(e)'
  BY <1>2, <1>6 DEF Done, Begun
<1>8. AttemptFits(e)'
  BY <1>1, <1>2, <1>3, <1>4, <1>6, <1>7 DEF AttemptFits
<1>9. FailedOnce(e) => FailedOnce(e)'
  BY <1>1, <1>2, <1>4, <1>5, <1>6 DEF FailedOnce
<1>10. /\ run[e].pc # "ended" /\ run[e].attempt <= q.attempt
       /\ x \in Execution \cup {None} /\ x = execution[e]
  BY <1>1, <1>2, <1>3, <1>4 DEF AttemptOK
<1>. QED  BY <1>2, <1>4, <1>5, <1>6, <1>7, <1>8, <1>9, <1>10, AttemptGoesOn

---------------------------------------------------------------------------
(* The rules are evaluated                                                 *)

\* What a session sees has one beginning for each row.
LEMMA SeenRanked ==
    ASSUME HistoryInv, NEW e \in RunIds, Begun(e), NEW seen, DOMAIN seen = RunIds,
           \A f \in RunIds \ {e} : seen[f] = execution[f],
           seen[e].started_at = run[e].started_at
    PROVE  /\ Ranked(CompletedRows(seen))
           /\ DOMAIN CompletedRows(seen) \in SUBSET RunIds
<1>. DEFINE rows == CompletedRows(seen)
<1>1. /\ DOMAIN rows = {f \in RunIds : seen[f] # None /\ seen[f].job = Ruled
                                       /\ seen[f].status \in Completed}
      /\ \A f \in DOMAIN rows : rows[f] = seen[f]
  BY DEF CompletedRows
<1>2. ASSUME NEW f \in DOMAIN rows
      PROVE  Begun(f) /\ rows[f].started_at = run[f].started_at
  <2>1. CASE f = e
    BY <1>1, <2>1
  <2>2. CASE f # e
    <3>1. f \in RunIds /\ Done(f) /\ rows[f] = execution[f]
      BY <1>1, <2>2 DEF Done
    <3>2. run[f] # Idle /\ AttemptFits(f)
      BY <3>1, AttemptKnown DEF Done
    <3>. QED  BY <3>1, <3>2 DEF AttemptFits, Begun, Done
  <2>. QED  BY <2>1, <2>2
<1>3. \A f \in DOMAIN rows : run[f] # Idle /\ run[f].started_at \in Nat
  BY <1>1, <1>2, AttemptKnown DEF Begun, AttemptOK
<1>4. IsFiniteSet(DOMAIN rows)
  <2>1. PICK T : T = {f \in RunIds : run[f] # Idle}
    OBVIOUS
  <2>2. IsFiniteSet(T) /\ DOMAIN rows \in SUBSET T
    BY <1>1, <1>3, <2>1 DEF HistoryInv, HistoryTypeOK
  <2>. QED  BY <2>2, FS_Subset
<1>5. \A f, g \in DOMAIN rows : rows[f].started_at = rows[g].started_at => f = g
  BY <1>1, <1>2 DEF HistoryInv, Distinct
<1>. QED  BY <1>1, <1>2, <1>3, <1>4, <1>5 DEF Ranked

\* A streak of failures that is in sight is counted in full.
LEMMA StreakCounted ==
    ASSUME NEW seen, Ranked(CompletedRows(seen)), DOMAIN CompletedRows(seen) \in SUBSET DOMAIN seen,
           NEW S \in SUBSET DOMAIN CompletedRows(seen), IsFiniteSet(S),
           NEW n \in 1 .. Limit, n <= Cardinality(S),
           \A f \in S : seen[f].status \in Failed,
           \A f \in DOMAIN seen, g \in S :
              seen[f] # None /\ seen[f].job = Ruled /\ seen[f].status = "success" =>
                 seen[f].started_at < seen[g].started_at
    PROVE  n <= _count_consecutive_failures(seen)
<1>. DEFINE rows == CompletedRows(seen)
            U == {f \in DOMAIN rows : \E g \in S : rows[f].started_at >= rows[g].started_at}
<1>1. \A f \in DOMAIN rows : /\ f \in DOMAIN seen /\ rows[f] = seen[f]
                             /\ seen[f] # None /\ seen[f].job = Ruled
                             /\ seen[f].status \in Completed
                             /\ rows[f].started_at \in Nat
  BY DEF CompletedRows, Ranked
<1>2. S \in SUBSET U
  BY <1>1
<1>3. IsFiniteSet(U) /\ U \in SUBSET DOMAIN rows
  BY FS_Subset DEF Ranked
<1>4. n <= Cardinality(U)
  <2>1. Cardinality(S) <= Cardinality(U)
    BY <1>2, <1>3, FS_Subset
  <2>2. Cardinality(S) \in Nat /\ Cardinality(U) \in Nat
    BY <1>3, FS_CardinalityType
  <2>. QED  BY <2>1, <2>2
<1>5. ASSUME NEW f \in U PROVE rows[f].status \in Failed
  <2>1. PICK g \in S : rows[f].started_at >= rows[g].started_at
    OBVIOUS
  <2>2. seen[f].status # "success"
    BY <1>1, <2>1
  <2>. QED  BY <1>1, <2>2 DEF Completed
<1>6. \A f \in U, g \in DOMAIN rows : rows[g].started_at >= rows[f].started_at => g \in U
  BY <1>1
<1>7. n \in Nat /\ n <= Limit
  BY RuleAssumption
<1>8. PICK V : V = U
  OBVIOUS
<1>9. n <= Cardinality(Consecutive(rows))
  <2>1. /\ V \in SUBSET DOMAIN rows /\ n <= Cardinality(V)
        /\ \A f \in V : rows[f].status \in Failed
        /\ \A f \in V, g \in DOMAIN rows : rows[g].started_at >= rows[f].started_at => g \in V
    BY <1>3, <1>4, <1>5, <1>6, <1>8
  <2>. HIDE DEF U, rows
  <2>2. Ranked(rows)
    BY DEF rows
  <2>. QED  BY <1>7, <2>1, <2>2, FailuresCounted
<1>. QED  BY <1>9, CountIs

\* The rules are evaluated against `seen`, the committed rows and the outcome of e.
LEMMA EvaluationStep ==
    ASSUME HistoryInv, NEW e \in RunIds, Begun(e), run[e].pc \in {"request", "committed"},
           NEW response, response.status \in Completed,
           mode = "celery" => run[e].pc = "committed" /\ run[e].response = response,
           mode = "inline" => \A f \in RunIds : ~Holds(f) \/ execution[e].job # Ruled,
           NEW seen, DOMAIN seen = RunIds, \A f \in RunIds \ {e} : seen[f] = execution[f],
           seen[e] # None, seen[e].job = execution[e].job, seen[e].status = response.status,
           seen[e].started_at = run[e].started_at,
           run' = [run EXCEPT ![e] = Evaluated(e, response, seen)],
           UNCHANGED <<mode, now, job, execution, alerts, commits>>
    PROVE  HistoryOK
<1>1. PICK q, x : q = Evaluated(e, response, seen) /\ x = execution[e]
  OBVIOUS
<1>2. /\ run[e] # Idle /\ AttemptOK(run[e]) /\ AttemptFits(e) /\ now \in Nat
      /\ x \in Execution /\ x # None /\ mode \in {"inline", "celery"}
      /\ execution = [f \in RunIds |-> execution[f]]
  BY <1>1, AttemptKnown DEF Begun
<1>3. PICK met :
         met = IF e \in Rows /\ execution[e].job = Ruled
               THEN RulesMet(response, _count_consecutive_failures(seen)) ELSE {}
  OBVIOUS
<1>4. /\ DOMAIN q = Fields /\ q.pc = "evaluated" /\ q.began = run[e].began
      /\ q.started_at = run[e].started_at /\ q.attempt = run[e].attempt /\ q.response = response
      /\ q.rules = rule /\ q.met = met /\ q.place = run[e].place
  BY <1>1, <1>2, <1>3 DEF AttemptOK, Fields, Evaluated
<1>5. AttemptOK(q) /\ q # Idle
  <2>1. AttemptOK(q)
    BY <1>2, <1>4 DEF AttemptOK, Points
  <2>. QED  BY <2>1, AttemptIsThere
<1>6. /\ run' = [run EXCEPT ![e] = q] /\ run'[e] = q
      /\ execution' = [execution EXCEPT ![e] = x] /\ execution'[e] = x
      /\ mode' = mode /\ job' = job /\ now' = now /\ alerts' = alerts /\ commits' = commits
  BY <1>1, <1>2, AttemptKnown
<1>7. /\ mode = "inline" => run[e].pc = "request" /\ ~Done(e)
      /\ mode = "celery" => x.status = response.status /\ Done(e)
  BY <1>1, <1>2 DEF AttemptFits, Done
<1>8. Done(e)' <=> Done(e)
  BY DEF Done
<1>9. AttemptFits(e)'
  BY <1>1, <1>2, <1>4, <1>5, <1>6, <1>7, <1>8 DEF AttemptFits, Begun
<1>10. FailedOnce(e) => FailedOnce(e)'
  BY <1>1, <1>2, <1>4, <1>5, <1>6, <1>7 DEF FailedOnce
<1>11. run[e].pc # "ended" /\ run[e].attempt <= q.attempt
  BY <1>2, <1>4 DEF AttemptOK
<1>12. \A a \in alerts' : a \in alerts
  BY <1>6
<1>13. /\ HistoryTypeOK' /\ Distinct' /\ AlertsOK' /\ \A f \in RunIds : RowOK(f)'
       /\ Moves
       /\ \A f \in RunIds \ {e} : run'[f] = run[f] /\ execution'[f] = execution[f]
  BY <1>2, <1>4, <1>5, <1>6, <1>9, <1>10, <1>11, <1>12, AttemptMoves
<1>14. \A r \in RuleIds : /\ RaisedBy(r, e)' <=> r \in met
                          /\ \A f \in RunIds \ {e} : RaisedBy(r, f)' <=> RaisedBy(r, f)
  <2>1. \A a \in alerts : a.execution # e
    BY <1>11, AlertsComeAtTheEnd
  <2>. QED  BY <1>4, <1>6, <1>13, <2>1 DEF RaisedBy
<1>15. /\ Ranked(CompletedRows(seen)) /\ DOMAIN CompletedRows(seen) \in SUBSET RunIds
       /\ _count_consecutive_failures(seen) \in Nat
       /\ _count_consecutive_failures(seen) <= Limit
  BY SeenRanked, CountBounded
<1>16. PICK failures \in Nat : failures = _count_consecutive_failures(seen) /\ failures <= Limit
  BY <1>15
<1>17. Exclusive'
  <2>1. \A f \in RunIds \ {e} : Holds(f)' <=> Holds(f)
    BY <1>6, <1>13 DEF Holds
  <2>2. Holds(e)' => execution[e].job = Ruled
    BY <1>6 DEF Holds
  <2>3. Exclusive
    BY DEF HistoryInv
  <2>. QED  BY <1>6, <2>1, <2>2, <2>3 DEF Exclusive
<1>18. \A f \in RunIds : Succeeded(f)' <=> Succeeded(f)
  BY DEF Succeeded
<1>19. ASSUME NEW g \in RunIds, NEW f \in RunIds, g # f, Counted(g, f)'
       PROVE  /\ run'[f].started_at = run[f].started_at /\ f \in RunIds /\ Done(f)
              /\ execution[f].job = Ruled /\ execution[f].status \in Failed
              /\ g # e => Counted(g, f)
  <2>1. run'[f].started_at = run[f].started_at /\ run'[f].place = run[f].place
    BY <1>4, <1>6, <1>13
  <2>2. g # e => run'[g] = run[g]
    BY <1>13
  <2>. QED  BY <1>6, <1>19, <2>1, <2>2 DEF Counted, Done, Failed, Completed
<1>20. ASSUME NEW r \in RuleIds, NEW g \in RunIds, NEW S \in SUBSET RunIds,
              g \in S, Judged(g)', Streak(run[g].rules[r], g, S)'
       PROVE  RaisedBy(r, g)'
  <2>1. PICK row : row = run'[g].rules[r]
    OBVIOUS
  <2>2. /\ StatusOf(g)' \in Failed /\ \A f \in S \ {g} : Counted(g, f)'
        /\ \A f \in RunIds : Succeeded(f) => \A h \in S : execution[f].started_at < run'[h].started_at
        /\ row # None /\ row.is_enabled /\ row.condition_type = "consecutive_failures_gte"
        /\ row.condition_value \in 1 .. Limit
        /\ IsFiniteSet(S) /\ row.condition_value <= Cardinality(S)
    BY <1>6, <1>18, <1>20, <2>1 DEF Streak, Failed
  <2>3. CASE g # e
    <3>1. run'[g] = run[g]
      BY <1>13, <2>3
    <3>2. Judged(g) /\ StatusOf(g)' = StatusOf(g)
      BY <1>6, <1>20, <3>1 DEF Judged, StatusOf
    <3>3. row = run[g].rules[r]
      BY <2>1, <3>1
    <3>4. \A f \in S \ {g} : Counted(g, f) /\ run'[f].started_at = run[f].started_at
      BY <1>19, <2>2, <2>3
    <3>5. Streak(row, g, S)
      BY <2>2, <3>1, <3>2, <3>4 DEF Streak
    <3>6. RaisedBy(r, g)
      BY <1>20, <3>2, <3>3, <3>5 DEF HistoryInv, StreaksNoticed
    <3>. QED  BY <1>14, <2>3, <3>6
  <2>4. CASE g = e
    <3>1. row = rule[r] /\ execution[e].job = Ruled
      BY <1>4, <1>6, <1>20, <2>1, <2>4 DEF Judged
    <3>2. ASSUME NEW f \in S
          PROVE  /\ f \in DOMAIN CompletedRows(seen) /\ seen[f].status \in Failed
                 /\ seen[f].started_at = run'[f].started_at
      <4>1. CASE f = e
        <5>1. seen[e].status \in Failed
          BY <1>4, <1>6, <2>2, <2>4, <4>1 DEF StatusOf
        <5>. QED  BY <1>4, <1>6, <3>1, <4>1, <5>1 DEF CompletedRows, Completed
      <4>2. CASE f # e
        <5>1. /\ f \in RunIds \ {e} /\ run'[f].started_at = run[f].started_at /\ Done(f)
              /\ execution[f].job = Ruled /\ execution[f].status \in Failed
              /\ seen[f] = execution[f]
          BY <1>19, <2>2, <2>4, <4>2
        <5>2. execution[f] # None /\ execution[f].started_at = run[f].started_at
          BY <5>1, AttemptKnown DEF AttemptFits, Done
        <5>. QED  BY <5>1, <5>2 DEF CompletedRows, Completed
      <4>. QED  BY <4>1, <4>2
    <3>3. ASSUME NEW f \in DOMAIN seen, NEW h \in S,
                 seen[f] # None, seen[f].job = Ruled, seen[f].status = "success"
          PROVE  seen[f].started_at < seen[h].started_at
      <4>1. f # e
        BY <2>4, <3>2, <3>3, <1>20 DEF Failed
      <4>2. f \in RunIds /\ seen[f] = execution[f] /\ Succeeded(f)
        BY <3>3, <4>1 DEF Succeeded
      <4>. QED  BY <2>2, <3>2, <4>2
    <3>4. row.condition_value <= failures
      <4>1. S \in SUBSET DOMAIN CompletedRows(seen)
        BY <3>2
      <4>. QED  BY <1>15, <1>16, <2>2, <3>2, <3>3, <4>1, StreakCounted
    <3>5. IsMet(row, response, failures)
      BY <1>16, <2>2, <3>4 DEF IsMet
    <3>6. r \in met
      <4>1. e \in Rows /\ execution[e].job = Ruled
        BY <1>1, <1>2, <3>1 DEF Rows
      <4>2. met = RulesMet(response, failures)
        BY <1>3, <1>16, <4>1
      <4>3. r \in RuleRows /\ rule[r].is_enabled /\ IsMet(rule[r], response, failures)
        BY <2>2, <3>1, <3>5 DEF RuleRows
      <4>. QED  BY <4>2, <4>3 DEF RulesMet
    <3>. QED  BY <1>14, <2>4, <3>6
  <2>. QED  BY <2>3, <2>4
<1>21. StreaksNoticed'
  BY <1>20 DEF StreaksNoticed
<1>. QED  BY <1>13, <1>17, <1>21 DEF HistoryOK, HistoryInv

LEMMA AnswerInlineStep ==
    ASSUME HistoryInv, NEW e \in RunIds, NEW response \in Responses, AnswerInline(e, response)
    PROVE  HistoryOK
<1>1. PICK seen : seen = [execution EXCEPT ![e] = Outcome(e, response)]
  OBVIOUS
<1>2. /\ run[e] # Idle /\ run[e].pc = "request" /\ mode = "inline"
      /\ run' = [run EXCEPT ![e] = Evaluated(e, response, seen)]
      /\ UNCHANGED <<mode, now, job, execution, alerts, commits>>
      /\ \A f \in Rows : execution[f].job = execution[e].job => run[f].pc # "evaluated"
  BY <1>1 DEF AnswerInline
<1>3. /\ AttemptFits(e) /\ AttemptOK(run[e]) /\ execution[e] \in Execution
      /\ execution[e] # None /\ response.status \in Completed
      /\ execution \in [RunIds -> Execution \cup {None}]
  BY <1>2, AttemptKnown, HistoryAssumption DEF AttemptFits
<1>4. Begun(e)
  BY <1>2, <1>3 DEF Begun
<1>5. PICK x : x = Outcome(e, response)
  OBVIOUS
<1>6. /\ x \in Execution /\ x # None /\ x.job = execution[e].job
      /\ x.status = response.status /\ x.started_at = run[e].started_at
  <2>1. /\ x \in Execution /\ x.job = execution[e].job
        /\ x.status = response.status /\ x.started_at = run[e].started_at
    BY <1>3, <1>5 DEF Outcome, Execution, AttemptOK
  <2>. QED  BY <2>1, ExecutionIsThere
<1>7. DOMAIN seen = RunIds /\ seen[e] = x /\ \A f \in RunIds \ {e} : seen[f] = execution[f]
  BY <1>1, <1>3, <1>5
<1>8. /\ run[e].pc \in {"request", "committed"} /\ mode # "celery"
      /\ \A f \in RunIds : ~Holds(f) \/ execution[e].job # Ruled
  BY <1>2 DEF Holds, Rows
<1>. QED  BY <1>2, <1>3, <1>4, <1>6, <1>7, <1>8, EvaluationStep

LEMMA EvaluateCeleryStep ==
    ASSUME HistoryInv, NEW e \in RunIds, EvaluateCelery(e)
    PROVE  HistoryOK
<1>1. PICK seen, response : seen = execution /\ response = run[e].response
  OBVIOUS
<1>2. /\ run[e] # Idle /\ run[e].pc = "committed"
      /\ run' = [run EXCEPT ![e] = Evaluated(e, response, seen)]
      /\ UNCHANGED <<mode, now, job, execution, alerts, commits>>
  BY <1>1 DEF EvaluateCelery
<1>3. /\ AttemptFits(e) /\ AttemptOK(run[e]) /\ mode = "celery"
      /\ execution \in [RunIds -> Execution \cup {None}]
  BY <1>2, AttemptKnown DEF AttemptFits
<1>4. CASE execution[e] # None
  <2>1. /\ Begun(e) /\ execution[e].status = response.status /\ response.status \in Completed
        /\ execution[e].started_at = run[e].started_at
    BY <1>1, <1>2, <1>3, <1>4 DEF Begun, AttemptFits, Done
  <2>2. DOMAIN seen = RunIds /\ \A f \in RunIds : seen[f] = execution[f]
    BY <1>1, <1>3
  <2>3. run[e].pc \in {"request", "committed"} /\ mode # "inline"
    BY <1>2, <1>3
  <2>. QED  BY <1>1, <1>2, <1>3, <1>4, <2>1, <2>2, <2>3, EvaluationStep
<1>5. CASE execution[e] = None
  <2>1. PICK q, x : q = Evaluated(e, response, seen) /\ x = execution[e]
    OBVIOUS
  <2>2. /\ DOMAIN q = Fields /\ q.pc = "evaluated" /\ q.began = run[e].began
        /\ q.started_at = run[e].started_at /\ q.attempt = run[e].attempt
        /\ q.response = response /\ q.met = {} /\ q.place = run[e].place
    BY <1>3, <1>5, <2>1 DEF AttemptOK, Fields, Evaluated, Rows
  <2>3. AttemptOK(q) /\ q # Idle
    <3>1. AttemptOK(q)
      BY <1>3, <2>2 DEF AttemptOK, Points
    <3>. QED  BY <3>1, AttemptIsThere
  <2>4. /\ run' = [run EXCEPT ![e] = q] /\ run'[e] = q
        /\ execution' = [execution EXCEPT ![e] = x] /\ execution'[e] = x
    BY <1>2, <1>3, <2>1, AttemptKnown
  <2>5. ~Done(e)' /\ ~Begun(e)'
    BY <1>2, <1>5 DEF Done, Begun
  <2>6. AttemptFits(e)'
    BY <1>1, <1>2, <1>3, <1>5, <2>1, <2>2, <2>4, <2>5 DEF AttemptFits
  <2>7. FailedOnce(e) => FailedOnce(e)'
    BY <1>2, <1>3, <1>5, <2>1, <2>2, <2>3, <2>4 DEF FailedOnce
  <2>8. /\ run[e].pc # "ended" /\ run[e].attempt <= q.attempt
        /\ x \in Execution \cup {None} /\ x = execution[e] /\ x = None
    BY <1>2, <1>3, <1>5, <2>1, <2>2 DEF AttemptOK
  <2>. QED  BY <1>2, <2>2, <2>3, <2>4, <2>5, <2>6, <2>7, <2>8, AttemptGoesOn
<1>. QED  BY <1>4, <1>5

LEMMA CommitAlertsStep ==
    ASSUME HistoryInv, NEW e \in RunIds, CommitAlerts(e)
    PROVE  HistoryOK
<1>1. PICK q, x, n, place :
         /\ n = IF mode = "inline" THEN commits + 1 ELSE commits
         /\ place = IF mode = "inline" THEN commits + 1 ELSE run[e].place
         /\ q = [run[e] EXCEPT !.pc = "ended", !.response = <<>>, !.met = {}, !.place = place]
         /\ x = IF mode = "inline" THEN Outcome(e, run[e].response) ELSE execution[e]
  OBVIOUS
<1>2. /\ run[e] # Idle /\ run[e].pc = "evaluated"
      /\ mode' = mode /\ job' = job /\ now' = now /\ commits' = n
      /\ alerts' = alerts \cup {[rule |-> r, execution |-> e, created_at |-> run[e].began] :
                                   r \in run[e].met}
  BY <1>1 DEF CommitAlerts
<1>3. /\ AttemptOK(run[e]) /\ AttemptFits(e) /\ now \in Nat /\ commits \in Nat
      /\ execution[e] \in Execution \cup {None} /\ run[e].response.status \in Completed
      /\ mode = "inline" => execution[e] # None
      /\ mode \in {"inline", "celery"} /\ execution \in [RunIds -> Execution \cup {None}]
  BY <1>2, AttemptKnown DEF AttemptFits
<1>4. /\ DOMAIN q = Fields /\ q.pc = "ended" /\ q.began = run[e].began
      /\ q.started_at = run[e].started_at /\ q.attempt = run[e].attempt
      /\ q.rules = run[e].rules /\ q.place = place /\ place \in Nat /\ place <= n
      /\ n = commits \/ n = commits + 1
  BY <1>1, <1>3 DEF AttemptOK, AttemptFits, Fields
<1>5. AttemptOK(q) /\ q # Idle
  <2>1. AttemptOK(q)
    BY <1>3, <1>4 DEF AttemptOK, Points
  <2>. QED  BY <2>1, AttemptIsThere
<1>6. /\ run' = [run EXCEPT ![e] = q] /\ run'[e] = q
      /\ execution' = [execution EXCEPT ![e] = x] /\ execution'[e] = x
  <2>1. run' = [run EXCEPT ![e] = q] /\ run'[e] = q
    BY <1>1, AttemptKnown DEF CommitAlerts
  <2>2. execution' = IF mode = "inline"
                     THEN [execution EXCEPT ![e] = Outcome(e, run[e].response)] ELSE execution
    BY DEF CommitAlerts
  <2>. QED  BY <1>1, <1>3, <2>1, <2>2
<1>7. /\ x \in Execution \cup {None} /\ (x = None <=> execution[e] = None)
      /\ x # None => /\ x.job = execution[e].job /\ x.status = run[e].response.status
                     /\ x.started_at = run[e].started_at
  <2>1. CASE mode = "inline"
    <3>1. /\ x \in Execution /\ x.job = execution[e].job
          /\ x.status = run[e].response.status /\ x.started_at = run[e].started_at
      BY <1>1, <1>3, <2>1 DEF Outcome, Execution, AttemptOK
    <3>. QED  BY <1>3, <2>1, <3>1, ExecutionIsThere
  <2>2. CASE mode = "celery"
    BY <1>1, <1>2, <1>3, <2>2 DEF AttemptFits, Done
  <2>. QED  BY <1>3, <2>1, <2>2
<1>8. /\ execution[e] # None => Begun(e) /\ run[e].started_at < now /\ Done(e)'
      /\ execution[e] = None => ~Begun(e)' /\ ~Done(e)'
  BY <1>2, <1>3, <1>6, <1>7 DEF Begun, AttemptFits, Done
<1>9. AttemptFits(e)'
  BY <1>2, <1>3, <1>4, <1>6, <1>7, <1>8 DEF AttemptFits
<1>10. FailedOnce(e) => FailedOnce(e)'
  BY <1>1, <1>2, <1>3, <1>4, <1>5, <1>6 DEF FailedOnce
<1>11. run[e].pc # "ended" /\ run[e].attempt <= q.attempt
  BY <1>2, <1>3, <1>4 DEF AttemptOK
<1>12. \A a \in alerts' :
          \/ a \in alerts
          \/ /\ a.execution = e /\ q.pc = "ended" /\ a.created_at = q.began
             /\ run[e] # Idle /\ run[e].pc = "evaluated"
  BY <1>2, <1>4
<1>13. /\ HistoryTypeOK' /\ Distinct' /\ AlertsOK' /\ \A f \in RunIds : RowOK(f)'
       /\ Moves
       /\ \A f \in RunIds \ {e} : run'[f] = run[f] /\ execution'[f] = execution[f]
  BY <1>2, <1>4, <1>5, <1>6, <1>7, <1>8, <1>9, <1>10, <1>11, <1>12, AttemptMoves
<1>14. \A r \in RuleIds, f \in RunIds : RaisedBy(r, f)' <=> RaisedBy(r, f)
  <2>1. \A a \in alerts : a.execution # e
    BY <1>11, AlertsComeAtTheEnd
  <2>2. \A r : (\E a \in alerts' : a.rule = r /\ a.execution = e) <=> r \in run[e].met
    <3>1. ASSUME NEW r, r \in run[e].met
          PROVE  \E a \in alerts' : a.rule = r /\ a.execution = e
      <4>1. PICK a : a = [rule |-> r, execution |-> e, created_at |-> run[e].began]
        OBVIOUS
      <4>2. a \in alerts' /\ a.rule = r /\ a.execution = e
        BY <1>2, <3>1, <4>1
      <4>. QED  BY <4>2
    <3>2. ASSUME NEW a \in alerts', a.execution = e PROVE a.rule \in run[e].met
      BY <1>2, <2>1, <3>2
    <3>. QED  BY <3>1, <3>2
  <2>3. \A r : RaisedBy(r, e)' <=> RaisedBy(r, e)
    BY <1>2, <1>4, <1>6, <2>1, <2>2 DEF RaisedBy
  <2>4. ASSUME NEW r, NEW f \in RunIds \ {e} PROVE RaisedBy(r, f)' <=> RaisedBy(r, f)
    <3>1. \A a : a.execution = f => (a \in alerts' <=> a \in alerts)
      BY <1>2
    <3>. QED  BY <1>13, <3>1 DEF RaisedBy
  <2>. QED  BY <2>3, <2>4
<1>15. ~Holds(e)' /\ \A f \in RunIds \ {e} : Holds(f)' <=> Holds(f)
  BY <1>4, <1>6, <1>13 DEF Holds
<1>16. Exclusive'
  <2>1. Exclusive
    BY DEF HistoryInv
  <2>. QED  BY <1>2, <1>15, <2>1 DEF Exclusive
<1>17. StreaksNoticed'
  <2>1. ASSUME NEW f \in RunIds, Judged(f)'
        PROVE  /\ Judged(f) /\ StatusOf(f)' = StatusOf(f)
               /\ run'[f].rules = run[f].rules
               /\ run'[f].started_at = run[f].started_at
    <3>1. CASE f = e
      BY <1>2, <1>3, <1>4, <1>6, <1>7, <2>1, <3>1 DEF Judged, StatusOf
    <3>2. CASE f # e
      BY <1>13, <2>1, <3>2 DEF Judged, StatusOf
    <3>. QED  BY <3>1, <3>2
  <2>2. ASSUME NEW f \in RunIds, Succeeded(f)
        PROVE  Succeeded(f)' /\ execution'[f].started_at = execution[f].started_at
    <3>1. CASE f = e
      <4>1. Done(e)
        BY <2>2, <3>1 DEF Succeeded, Done, Completed
      <4>2. mode = "celery"
        BY <1>2, <1>3, <4>1 DEF AttemptFits
      <4>3. x = execution[e]
        BY <1>1, <4>2
      <4>. QED  BY <1>6, <2>2, <3>1, <4>3 DEF Succeeded
    <3>2. CASE f # e
      BY <1>13, <2>2, <3>2 DEF Succeeded
    <3>. QED  BY <3>1, <3>2
  <2>3. ASSUME NEW g \in RunIds, NEW f \in RunIds, g # f, Judged(g)', Counted(g, f)'
        PROVE  Counted(g, f) /\ run'[f].started_at = run[f].started_at
    <3>1. Judged(g)
      BY <2>1, <2>3
    <3>2. CASE mode = "celery"
      <4>1. place = run[e].place /\ x = execution[e] /\ mode # "inline" /\ mode' # "inline"
        BY <1>1, <1>2, <3>2
      <4>2. \A h \in RunIds : /\ run'[h].place = run[h].place
                              /\ run'[h].started_at = run[h].started_at
                              /\ execution'[h] = execution[h]
        BY <1>4, <1>6, <1>13, <4>1
      <4>. QED  BY <2>3, <4>1, <4>2 DEF Counted, Done, Failed, Completed
    <3>3. CASE mode = "inline" /\ f = e
      <4>1. execution'[e].job = Ruled /\ Done(e)' /\ place = commits + 1
        BY <1>1, <2>3, <3>3 DEF Counted
      <4>2. Holds(e)
        BY <1>2, <1>3, <1>6, <1>7, <3>3, <4>1 DEF Holds, Done
      <4>3. ~Holds(g)
        BY <2>3, <3>3, <4>2 DEF HistoryInv, Exclusive
      <4>4. run[g].pc = "ended" /\ run'[g] = run[g]
        BY <1>13, <2>3, <3>1, <3>3, <4>3 DEF Judged, Holds
      <4>5. run[g].place \in Nat /\ run[g].place <= commits
        BY <3>1, AttemptKnown DEF Judged, AttemptFits, AttemptOK
      <4>6. run'[e].place < run[g].place
        BY <2>3, <3>3, <4>4 DEF Counted
      <4>. QED  BY <1>3, <1>4, <1>6, <4>1, <4>5, <4>6
    <3>4. CASE mode = "inline" /\ f # e /\ g = e
      <4>1. execution'[f] = execution[f] /\ run'[f] = run[f]
        BY <1>13, <3>4
      <4>. QED  BY <1>2, <2>3, <3>4, <4>1 DEF Counted, Done, Failed, Completed
    <3>5. CASE mode = "inline" /\ f # e /\ g # e
      <4>1. execution'[f] = execution[f] /\ run'[f] = run[f] /\ run'[g] = run[g]
        BY <1>13, <3>5
      <4>. QED  BY <1>2, <2>3, <3>5, <4>1 DEF Counted, Done, Failed, Completed
    <3>. QED  BY <1>3, <3>2, <3>3, <3>4, <3>5
  <2>4. StreaksNoticed
    BY DEF HistoryInv
  <2>. QED  BY <1>14, <2>1, <2>2, <2>3, <2>4, StreaksKept
<1>. QED  BY <1>13, <1>16, <1>17 DEF HistoryOK, HistoryInv

---------------------------------------------------------------------------
(* Jobs come and go                                                        *)

LEMMA HistoryRests ==
    ASSUME HistoryInv, UNCHANGED historyVars
    PROVE  HistoryOK
<1>1. /\ mode' = mode /\ now' = now /\ job' = job /\ execution' = execution /\ run' = run
      /\ alerts' = alerts /\ commits' = commits
  BY DEF historyVars
<1>2. HistoryTypeOK' /\ Distinct' /\ AlertsOK'
  BY <1>1 DEF HistoryInv, HistoryTypeOK, AttemptOK, Execution, Completed, Failed,
              Distinct, Begun, Done, AlertsOK
<1>3. Exclusive'
  BY <1>1 DEF HistoryInv, Exclusive, Holds
<1>4. \A e \in RunIds : RowOK(e)'
  <2>1. \A e \in RunIds : RowOK(e)' <=> RowOK(e)
    BY <1>1 DEF RowOK, AttemptFits, Begun, Done
  <2>. QED  BY <2>1 DEF HistoryInv
<1>5. \A e \in RunIds : /\ Judged(e)' <=> Judged(e)
                        /\ StatusOf(e)' = StatusOf(e)
                        /\ \A r \in RuleIds : RaisedBy(r, e) => RaisedBy(r, e)'
                        /\ Succeeded(e) => Succeeded(e)'
                        /\ FailedOnce(e) => FailedOnce(e)'
                        /\ \A f \in RunIds : Counted(e, f)' => Counted(e, f)
  BY <1>1 DEF Judged, StatusOf, RaisedBy, Succeeded, FailedOnce, Counted, Done, Failed, Completed
<1>6. StreaksNoticed'
  BY <1>1, <1>5, StreaksKept DEF HistoryInv
<1>7. \A e \in RunIds : run[e] # Idle => run[e].attempt \in Nat
  BY AttemptKnown DEF AttemptOK
<1>8. now \in Nat
  BY DEF HistoryInv, HistoryTypeOK
<1>9. Moves
  BY <1>1, <1>5, <1>7, <1>8 DEF Moves
<1>. QED  BY <1>2, <1>3, <1>4, <1>6, <1>9 DEF HistoryOK, HistoryInv

LEMMA CreateJobStep ==
    ASSUME HistoryInv, NEW j \in Jobs, CreateJob(j)
    PROVE  HistoryOK
<1>1. /\ mode' = mode /\ now' = now /\ execution' = execution /\ run' = run /\ alerts' = alerts
      /\ job' = [job EXCEPT ![j] = [created_at |-> now]] /\ commits' = commits
  BY DEF CreateJob
<1>2. HistoryTypeOK
  BY DEF HistoryInv
<1>3. job' \in [Jobs -> [created_at : Nat] \cup {None}]
  BY <1>1, <1>2 DEF HistoryTypeOK
<1>4. HistoryTypeOK' /\ Distinct' /\ AlertsOK'
  BY <1>1, <1>3 DEF HistoryInv, HistoryTypeOK, AttemptOK, Execution, Completed, Failed,
              Distinct, Begun, Done, AlertsOK
<1>5. Exclusive'
  BY <1>1 DEF HistoryInv, Exclusive, Holds
<1>6. \A e \in RunIds : RowOK(e)'
  <2>1. \A e \in RunIds : RowOK(e)' <=> RowOK(e)
    BY <1>1 DEF RowOK, AttemptFits, Begun, Done
  <2>. QED  BY <2>1 DEF HistoryInv
<1>7. \A e \in RunIds : /\ Judged(e)' <=> Judged(e)
                        /\ StatusOf(e)' = StatusOf(e)
                        /\ \A r \in RuleIds : RaisedBy(r, e) => RaisedBy(r, e)'
                        /\ Succeeded(e) => Succeeded(e)'
                        /\ FailedOnce(e) => FailedOnce(e)'
                        /\ \A f \in RunIds : Counted(e, f)' => Counted(e, f)
  BY <1>1 DEF Judged, StatusOf, RaisedBy, Succeeded, FailedOnce, Counted, Done, Failed, Completed
<1>8. StreaksNoticed'
  BY <1>1, <1>7, StreaksKept DEF HistoryInv
<1>9. \A i \in Jobs : job'[i] \in {job[i], None} \/ job'[i].created_at = now
  BY <1>1, <1>2 DEF HistoryTypeOK
<1>10. \A e \in RunIds : run[e] # Idle => run[e].attempt \in Nat
  BY AttemptKnown DEF AttemptOK
<1>11. Moves
  BY <1>1, <1>2, <1>7, <1>9, <1>10 DEF Moves, HistoryTypeOK
<1>. QED  BY <1>4, <1>5, <1>6, <1>8, <1>11 DEF HistoryOK, HistoryInv

LEMMA DeleteJobStep ==
    ASSUME HistoryInv, NEW j \in Jobs, DeleteJob(j)
    PROVE  HistoryOK
<1>1. PICK gone : gone = {e \in Rows : execution[e].job = j}
  OBVIOUS
<1>2. /\ \A e \in gone : ~Locks(e)
      /\ execution' = [e \in RunIds |-> IF e \in gone THEN None ELSE execution[e]]
      /\ run' = [e \in RunIds |-> IF e \in gone /\ run[e].pc = "queued"
                                 THEN [run[e] EXCEPT !.pc = "ended"] ELSE run[e]]
      /\ job' = [job EXCEPT ![j] = None]
      /\ mode' = mode /\ now' = now /\ alerts' = alerts /\ commits' = commits
  BY <1>1 DEF DeleteJob
<1>3. HistoryTypeOK
  BY DEF HistoryInv
<1>4. ASSUME NEW e \in RunIds, e \notin gone
      PROVE  run'[e] = run[e] /\ execution'[e] = execution[e]
  BY <1>2, <1>4
<1>5. ASSUME NEW e \in gone
      PROVE  /\ e \in RunIds /\ run[e] # Idle /\ AttemptOK(run[e]) /\ AttemptFits(e)
             /\ execution[e] # None /\ execution[e].job = j /\ execution'[e] = None
             /\ AttemptOK(run'[e]) /\ run'[e] # Idle
             /\ run'[e].pc = IF run[e].pc = "queued" THEN "ended" ELSE run[e].pc
             /\ run[e].pc # "request" /\ ~(mode = "inline" /\ run[e].pc = "evaluated")
             /\ run'[e].began = run[e].began /\ run'[e].place = run[e].place
             /\ run'[e].started_at = run[e].started_at /\ run'[e].attempt = run[e].attempt
             /\ run'[e].rules = run[e].rules /\ run'[e].met = run[e].met
             /\ run'[e].response = run[e].response
  <2>1. e \in RunIds /\ execution[e] # None /\ execution[e].job = j
    BY <1>1 DEF Rows
  <2>2. run[e] # Idle /\ AttemptOK(run[e]) /\ AttemptFits(e)
    BY <2>1, AttemptKnown
  <2>3. /\ execution'[e] = None
        /\ run'[e] = IF run[e].pc = "queued" THEN [run[e] EXCEPT !.pc = "ended"] ELSE run[e]
    BY <1>2, <2>1
  <2>4. /\ DOMAIN run'[e] = Fields
        /\ run'[e].pc = IF run[e].pc = "queued" THEN "ended" ELSE run[e].pc
        /\ run'[e].began = run[e].began /\ run'[e].place = run[e].place
        /\ run'[e].started_at = run[e].started_at /\ run'[e].attempt = run[e].attempt
        /\ run'[e].rules = run[e].rules /\ run'[e].met = run[e].met
        /\ run'[e].response = run[e].response
    BY <2>2, <2>3 DEF AttemptOK, Fields
  <2>5. AttemptOK(run'[e])
    BY <2>2, <2>4 DEF AttemptOK, Points
  <2>6. run[e].pc # "request" /\ ~(mode = "inline" /\ run[e].pc = "evaluated")
    BY <1>2 DEF Locks
  <2>. QED  BY <2>1, <2>2, <2>3, <2>4, <2>5, <2>6, AttemptIsThere
<1>6. HistoryTypeOK'
  <2>1. \A e \in RunIds : run'[e] # Idle => AttemptOK(run'[e])
    BY <1>3, <1>4, <1>5 DEF HistoryTypeOK
  <2>2. \A e \in RunIds : run'[e] # Idle <=> run[e] # Idle
    BY <1>4, <1>5
  <2>3. {e \in RunIds : run'[e] # Idle} = {e \in RunIds : run[e] # Idle}
    BY <2>2
  <2>4. execution' \in [RunIds -> Execution \cup {None}]
    BY <1>2, <1>3 DEF HistoryTypeOK
  <2>5. job' \in [Jobs -> [created_at : Nat] \cup {None}]
    BY <1>2, <1>3 DEF HistoryTypeOK
  <2>6. run' = [e \in RunIds |-> run'[e]]
    BY <1>2
  <2>. QED  BY <1>2, <1>3, <2>1, <2>3, <2>4, <2>5, <2>6
            DEF HistoryTypeOK, AttemptOK, Execution, Completed, Failed
<1>7. ASSUME NEW e \in RunIds PROVE RowOK(e)'
  <2>1. CASE e \in gone
    <3>1. ~Begun(e)' /\ ~Done(e)'
      BY <1>5, <2>1 DEF Begun, Done
    <3>2. /\ AttemptFits(e) /\ mode' = mode /\ now' = now /\ commits' = commits
          /\ run'[e].began = run[e].began /\ run'[e].place = run[e].place
          /\ run'[e].started_at = run[e].started_at /\ run'[e].response = run[e].response
          /\ run'[e].pc = IF run[e].pc = "queued" THEN "ended" ELSE run[e].pc
          /\ run[e].pc # "request" /\ ~(mode = "inline" /\ run[e].pc = "evaluated")
          /\ execution'[e] = None
      BY <1>2, <1>5, <2>1
    <3>3. AttemptFits(e)'
      BY <3>1, <3>2 DEF AttemptFits
    <3>. QED  BY <1>5, <2>1, <3>3 DEF RowOK
  <2>2. CASE e \notin gone
    <3>1. RowOK(e)
      BY AttemptKnown
    <3>. QED  BY <1>2, <1>4, <2>2, <3>1 DEF RowOK, AttemptFits, Begun, Done
  <2>. QED  BY <2>1, <2>2
<1>8. Distinct'
  <2>1. \A e \in RunIds : Begun(e)' => Begun(e) /\ run'[e].started_at = run[e].started_at
    BY <1>4, <1>5 DEF Begun, Done
  <2>. QED  BY <2>1 DEF HistoryInv, Distinct
<1>9. AlertsOK'
  <2>1. \A e \in RunIds : run[e] # Idle /\ run[e].pc = "ended" =>
           run'[e] # Idle /\ run'[e].pc = "ended" /\ run'[e].began = run[e].began
    BY <1>4, <1>5
  <2>. QED  BY <1>2, <2>1 DEF HistoryInv, AlertsOK
<1>10. \A e \in RunIds, r \in RuleIds : RaisedBy(r, e)' => RaisedBy(r, e)
  BY <1>2, <1>4, <1>5 DEF RaisedBy
<1>11. Exclusive'
  <2>1. \A e \in RunIds : Holds(e)' => Holds(e)
    BY <1>4, <1>5 DEF Holds
  <2>. QED  BY <1>2, <2>1 DEF HistoryInv, Exclusive
<1>12. StreaksNoticed'
  <2>1. ASSUME NEW e \in RunIds, Judged(e)'
        PROVE  /\ e \notin gone /\ Judged(e) /\ StatusOf(e)' = StatusOf(e)
               /\ run'[e].rules = run[e].rules
               /\ run'[e].started_at = run[e].started_at
               /\ \A r \in RuleIds : RaisedBy(r, e) => RaisedBy(r, e)'
    <3>1. e \notin gone
      BY <1>5, <2>1 DEF Judged
    <3>2. run'[e] = run[e] /\ execution'[e] = execution[e]
      BY <1>4, <3>1
    <3>. QED  BY <1>2, <2>1, <3>1, <3>2 DEF Judged, StatusOf, RaisedBy
  <2>2. ASSUME NEW e \in RunIds, Succeeded(e)
        PROVE  \/ Succeeded(e)' /\ execution'[e].started_at = execution[e].started_at
               \/ \A f \in RunIds : ~Judged(f)'
    <3>1. CASE e \in gone
      <4>1. j = Ruled
        BY <1>5, <2>2, <3>1 DEF Succeeded
      <4>2. ASSUME NEW f \in RunIds, Judged(f)' PROVE FALSE
        <5>1. f \notin gone /\ execution[f] # None /\ execution[f].job = Ruled
          BY <2>1, <4>2 DEF Judged
        <5>. QED  BY <1>1, <4>1, <5>1 DEF Rows
      <4>. QED  BY <4>2
    <3>2. CASE e \notin gone
      BY <1>4, <2>2, <3>2 DEF Succeeded
    <3>. QED  BY <3>1, <3>2
  <2>3. ASSUME NEW e \in RunIds, NEW f \in RunIds, Judged(e)', Counted(e, f)'
        PROVE  Counted(e, f) /\ run'[f].started_at = run[f].started_at
    <3>1. e \notin gone /\ f \notin gone
      BY <1>5, <2>3 DEF Judged, Counted, Done
    <3>2. /\ run'[e] = run[e] /\ run'[f] = run[f] /\ execution'[f] = execution[f]
      BY <1>4, <3>1
    <3>. QED  BY <1>2, <2>3, <3>2 DEF Counted, Done, Failed, Completed
  <2>4. StreaksNoticed
    BY DEF HistoryInv
  <2>. QED  BY <2>1, <2>2, <2>3, <2>4, StreaksKept
<1>13. Moves
  <2>1. \A e \in RunIds : FailedOnce(e) => FailedOnce(e)'
    BY <1>2, <1>4, <1>5 DEF FailedOnce
  <2>2. \A e \in RunIds : run[e] # Idle => run[e].attempt \in Nat
    BY AttemptKnown DEF AttemptOK
  <2>3. \A e \in RunIds :
           run[e] # Idle => /\ run'[e] # Idle /\ run'[e].attempt >= run[e].attempt
                            /\ run[e].pc = "ended" => /\ run'[e].pc = "ended"
                                                      /\ run'[e].began = run[e].began
    BY <1>4, <1>5, <2>2
  <2>4. \A i \in Jobs : job'[i] \in {job[i], None} \/ job'[i].created_at = now
    BY <1>2, <1>3 DEF HistoryTypeOK
  <2>5. now \in Nat /\ \A a \in alerts' : a \in alerts
    BY <1>2, <1>3 DEF HistoryTypeOK
  <2>. QED  BY <1>2, <2>1, <2>3, <2>4, <2>5 DEF Moves
<1>. QED  BY <1>6, <1>7, <1>8, <1>9, <1>11, <1>12, <1>13 DEF HistoryOK, HistoryInv

LEMMA HistorySteps ==
    ASSUME HistoryInv, HistoryStep
    PROVE  HistoryOK
<1>1. ASSUME NEW e \in RunIds, NEW j \in Jobs, Queue(e, j) PROVE HistoryOK
  BY <1>1, QueueStep
<1>2. ASSUME NEW e \in RunIds, NEW response \in Responses, AnswerInline(e, response)
      PROVE  HistoryOK
  BY <1>2, AnswerInlineStep
<1>3. ASSUME NEW e \in RunIds, NEW response \in Responses, AnswerCelery(e, response)
      PROVE  HistoryOK
  BY <1>3, AnswerCeleryStep
<1>4. ASSUME NEW e \in RunIds,
             \/ StartAttempt(e) \/ Retry(e) \/ FindNoRow(e) \/ EvaluateCelery(e)
             \/ CommitAlerts(e) \/ Die(e)
      PROVE  HistoryOK
  BY <1>4, StartAttemptStep, RetryStep, FindNoRowStep, EvaluateCeleryStep, CommitAlertsStep, DieStep
<1>5. ASSUME AttemptStep PROVE HistoryOK
  BY <1>1, <1>2, <1>3, <1>4, <1>5, Zenon DEF AttemptStep
<1>6. ASSUME NEW j \in Jobs, CreateJob(j) \/ DeleteJob(j) PROVE HistoryOK
  BY <1>6, CreateJobStep, DeleteJobStep
<1>7. ASSUME UNCHANGED historyVars PROVE HistoryOK
  BY <1>7, HistoryRests
<1>. QED  BY <1>5, <1>6, <1>7, Zenon DEF HistoryStep

---------------------------------------------------------------------------
(* Summaries                                                               *)

LEMMA SummaryRests ==
    ASSUME HistoryInv, HistoryInv', SummaryInv, Moves, UNCHANGED summary
    PROVE  SummaryInv'
<1>. SUFFICES ASSUME summary # None PROVE SummaryInv'
  BY DEF SummaryInv
<1>1. PICK s : s = summary /\ s = summary'
  OBVIOUS
<1>2. /\ DOMAIN s = SummaryFields /\ s.now \in Nat /\ s.now <= now
      /\ s.pc \in {"failures_24h", "successes_24h", "daily_stats", "answered",
                   "report_executions", "report_alerts", "generated"}
      /\ s.pc \in {"report_executions", "report_alerts", "generated"} =>
            s.start \in Int /\ s.end \in Int
  BY <1>1 DEF SummaryInv
<1>3. now <= now' /\ now' \in Nat /\ mode' = mode
  BY DEF Moves
<1>4. ASSUME NEW j \in Jobs
      PROVE  j \in s.jobs \/ job'[j] = None \/ job'[j].created_at >= s.now
  <2>1. j \in s.jobs \/ job[j] = None \/ job[j].created_at >= s.now
    BY <1>1 DEF SummaryInv
  <2>2. job'[j] \in {job[j], None} \/ job'[j].created_at = now
    BY DEF Moves
  <2>. QED  BY <1>2, <2>1, <2>2
<1>5. s.pc = "successes_24h" => \A e \in s.failures : FailedOnce(e)'
  BY <1>1 DEF SummaryInv, Moves, FailedOnce
<1>6. ASSUME s.pc \in {"daily_stats", "answered"}, NEW e \in s.failures \cap s.successes
      PROVE  e \in RunIds /\ run'[e] # Idle /\ run'[e].attempt > 0
  <2>1. e \in RunIds /\ run[e] # Idle /\ run[e].attempt > 0
    BY <1>1, <1>6 DEF SummaryInv
  <2>2. run'[e] # Idle /\ run'[e].attempt >= run[e].attempt
    BY <2>1 DEF Moves
  <2>3. run[e].attempt \in Nat /\ run'[e].attempt \in Nat
    <3>1. HistoryTypeOK /\ HistoryTypeOK'
      BY DEF HistoryInv
    <3>. QED  BY <2>1, <2>2, <3>1 DEF HistoryTypeOK, AttemptOK
  <2>4. run'[e].attempt >= run[e].attempt /\ run[e].attempt > 0 => run'[e].attempt > 0
    BY <2>3
  <2>. QED  BY <2>1, <2>2, <2>4
<1>7. ASSUME NEW row \in s.rows, s.pc \in {"report_alerts", "generated"}
      PROVE  Listed(row) /\ Listed(row)'
  <2>1. Listed(row)
    BY <1>1, <1>7 DEF SummaryInv
  <2>. QED  BY <1>1, <1>3, <2>1 DEF Listed, Moves
<1>8. ASSUME NEW row \in s.rows, NEW a \in alerts', s.pc = "generated",
             mode' = "inline", row.status \in Completed,
             a.execution = row.id, a.created_at >= s.start
      PROVE  a \in s.alerts
  <2>1. run[row.id].pc = "ended"
    BY <1>3, <1>7, <1>8 DEF Listed
  <2>2. a \in alerts
    BY <1>8, <2>1 DEF Moves
  <2>. QED  BY <1>1, <1>3, <1>8, <2>2 DEF SummaryInv
<1>9. summary'.pc \in {"report_alerts", "generated"} =>
         \A row \in summary'.rows : Listed(row)'
  BY <1>1, <1>7
<1>10. summary'.pc = "generated" =>
          \A row \in summary'.rows : \A a \in alerts' :
             /\ mode' = "inline" /\ row.status \in Completed
             /\ a.execution = row.id /\ a.created_at >= summary'.start
             => a \in summary'.alerts
  BY <1>1, <1>8
<1>11. summary'.pc = "successes_24h" => \A e \in summary'.failures : FailedOnce(e)'
  BY <1>1, <1>5
<1>12. /\ DOMAIN summary' = SummaryFields /\ summary'.now \in Nat /\ summary'.now <= now'
       /\ summary'.pc \in {"failures_24h", "successes_24h", "daily_stats", "answered",
                            "report_executions", "report_alerts", "generated"}
       /\ summary'.pc \in {"report_executions", "report_alerts", "generated"} =>
             summary'.start \in Int /\ summary'.end \in Int
  BY <1>1, <1>2, <1>3 DEF HistoryInv, HistoryTypeOK
<1>. QED  BY <1>1, <1>4, <1>6, <1>9, <1>10, <1>11, <1>12 DEF SummaryInv

\* The statements read, and change nothing else.
LEMMA SummaryReads ==
    ASSUME HistoryInv, SummaryInv, summary # None,
           UNCHANGED historyVars,
           NEW s, summary' = s, DOMAIN s = SummaryFields,
           s.now = summary.now /\ s.start = summary.start /\ s.end = summary.end,
           s.jobs = summary.jobs,
           s.pc = "successes_24h" => \A e \in s.failures : FailedOnce(e),
           s.pc \in {"daily_stats", "answered"} =>
              \A e \in s.failures \cap s.successes :
                 e \in RunIds /\ run[e] # Idle /\ run[e].attempt > 0,
           \/ s.pc \in {"successes_24h", "daily_stats", "answered"}
           \/ /\ s.pc \in {"report_alerts", "generated"}
              /\ summary.pc \in {"report_executions", "report_alerts"}
              /\ \A row \in s.rows : Listed(row),
           s.pc = "generated" =>
              \A row \in s.rows : \A a \in alerts :
                 /\ mode = "inline" /\ row.status \in Completed
                 /\ a.execution = row.id /\ a.created_at >= summary.start
                 => a \in s.alerts
    PROVE  SummaryInv'
<1>1. /\ mode' = mode /\ now' = now /\ job' = job /\ execution' = execution /\ run' = run
      /\ alerts' = alerts
  BY DEF historyVars
<1>2. /\ s.now \in Nat /\ s.now <= now'
      /\ s.pc \in {"failures_24h", "successes_24h", "daily_stats", "answered",
                   "report_executions", "report_alerts", "generated"}
      /\ s.pc \in {"report_executions", "report_alerts", "generated"} =>
            s.start \in Int /\ s.end \in Int
      /\ \A j \in Jobs : j \in s.jobs \/ job'[j] = None \/ job'[j].created_at >= s.now
  BY <1>1 DEF SummaryInv
<1>3. s.pc = "successes_24h" => \A e \in s.failures : FailedOnce(e)'
  BY <1>1 DEF FailedOnce
<1>4. s.pc \in {"report_alerts", "generated"} => \A row \in s.rows : Listed(row)'
  BY <1>1 DEF Listed
<1>. QED  BY <1>1, <1>2, <1>3, <1>4 DEF SummaryInv

LEMMA SummaryStarts ==
    ASSUME HistoryInv, NEW pc, NEW start, NEW end, Starts(pc, start, end),
           \/ pc = "failures_24h"
           \/ pc = "report_executions" /\ start \in Int /\ end \in Int
    PROVE  SummaryInv'
<1>1. PICK s : s = [pc |-> pc, now |-> now, start |-> start, end |-> end, jobs |-> JobRows,
                    failures |-> {}, successes |-> {}, daily |-> <<>>,
                    rows |-> {}, alerts |-> {}]
  OBVIOUS
<1>2. summary' = s /\ now' = now /\ job' = job /\ now \in Nat
  BY <1>1 DEF Starts, historyVars, HistoryInv, HistoryTypeOK
<1>3. /\ DOMAIN s = SummaryFields /\ s.pc = pc /\ s.now = now /\ s.start = start /\ s.end = end
      /\ s.jobs = JobRows
  BY <1>1 DEF SummaryFields
<1>4. \A j \in Jobs : j \in s.jobs \/ job'[j] = None
  BY <1>2, <1>3 DEF JobRows
<1>. QED  BY <1>2, <1>3, <1>4 DEF SummaryInv

LEMMA SummarySteps ==
    ASSUME HistoryInv, SummaryInv, Summarise
    PROVE  SummaryInv'
<1>1. CASE BeginStats
  BY <1>1, SummaryStarts DEF BeginStats
<1>2. ASSUME NEW period \in Periods, BeginReport(period) PROVE SummaryInv'
  <2>1. period.start \in Int /\ period.end \in Int
    BY SummaryAssumption
  <2>. QED  BY <1>2, <2>1, SummaryStarts DEF BeginReport
<1>3. CASE CountFailures
  <2>1. PICK failures : failures = InStatus(StartedSince(summary.start), Failed)
    OBVIOUS
  <2>2. PICK s : s = [summary EXCEPT !.pc = "successes_24h", !.failures = failures]
    OBVIOUS
  <2>3. summary # None /\ UNCHANGED historyVars /\ summary' = s
    BY <1>3, <2>1, <2>2 DEF CountFailures, Reads
  <2>4. DOMAIN summary = SummaryFields
    BY <2>3 DEF SummaryInv
  <2>5. /\ DOMAIN s = SummaryFields /\ s.pc = "successes_24h" /\ s.failures = failures
        /\ s.now = summary.now /\ s.start = summary.start /\ s.end = summary.end
        /\ s.jobs = summary.jobs
    BY <2>2, <2>4 DEF SummaryFields
  <2>6. ASSUME NEW e \in failures PROVE FailedOnce(e)
    <3>1. e \in RunIds /\ execution[e] # None /\ execution[e].status \in Failed
      BY <2>1 DEF InStatus, StartedSince, Rows
    <3>2. run[e] # Idle /\ AttemptFits(e) /\ Done(e)
      BY <3>1, AttemptKnown DEF Done, Completed
    <3>3. run[e].pc \notin {"queued", "request"} /\ (mode = "inline" => run[e].pc = "ended")
      BY <3>1, <3>2 DEF AttemptFits, Failed
    <3>. QED  BY <3>1, <3>2, <3>3 DEF FailedOnce
  <2>. QED  BY <2>3, <2>5, <2>6, SummaryReads
<1>4. CASE CountSuccesses
  <2>1. PICK successes : successes = InStatus(StartedSince(summary.start), {"success"})
    OBVIOUS
  <2>2. PICK s : s = [summary EXCEPT !.pc = "daily_stats", !.successes = successes]
    OBVIOUS
  <2>3. /\ summary # None /\ summary.pc = "successes_24h" /\ UNCHANGED historyVars
        /\ summary' = s
    BY <1>4, <2>1, <2>2 DEF CountSuccesses, Reads
  <2>4. DOMAIN summary = SummaryFields /\ \A e \in summary.failures : FailedOnce(e)
    BY <2>3 DEF SummaryInv
  <2>5. /\ DOMAIN s = SummaryFields /\ s.pc = "daily_stats" /\ s.failures = summary.failures
        /\ s.successes = successes
        /\ s.now = summary.now /\ s.start = summary.start /\ s.end = summary.end
        /\ s.jobs = summary.jobs
    BY <2>2, <2>4 DEF SummaryFields
  <2>6. ASSUME NEW e \in s.failures \cap s.successes
        PROVE  e \in RunIds /\ run[e] # Idle /\ run[e].attempt > 0
    <3>1. e \in RunIds /\ execution[e] # None /\ execution[e].status = "success"
      BY <2>1, <2>5 DEF InStatus, StartedSince, Rows
    <3>2. FailedOnce(e)
      BY <2>4, <2>5
    <3>. QED  BY <3>1, <3>2 DEF FailedOnce, Failed
  <2>. QED  BY <2>3, <2>5, <2>6, SummaryReads
<1>5. CASE CountDays
  <2>1. PICK daily : summary' = [summary EXCEPT !.pc = "answered", !.daily = daily]
    BY <1>5 DEF CountDays, Reads
  <2>2. PICK s : s = [summary EXCEPT !.pc = "answered", !.daily = daily]
    OBVIOUS
  <2>3. summary # None /\ summary.pc = "daily_stats" /\ UNCHANGED historyVars /\ summary' = s
    BY <1>5, <2>1, <2>2 DEF CountDays, Reads
  <2>4. /\ DOMAIN summary = SummaryFields
        /\ \A e \in summary.failures \cap summary.successes :
              e \in RunIds /\ run[e] # Idle /\ run[e].attempt > 0
    BY <2>3 DEF SummaryInv
  <2>5. /\ DOMAIN s = SummaryFields /\ s.pc = "answered" /\ s.failures = summary.failures
        /\ s.successes = summary.successes
        /\ s.now = summary.now /\ s.start = summary.start /\ s.end = summary.end
        /\ s.jobs = summary.jobs
    BY <2>2, <2>4 DEF SummaryFields
  <2>. QED  BY <2>3, <2>4, <2>5, SummaryReads
<1>6. CASE ReadExecutions
  <2>1. PICK rows :
           rows = {[id |-> e, job |-> execution[e].job, status |-> execution[e].status] :
                      e \in {f \in Rows : InPeriod(execution[f].started_at)}}
    OBVIOUS
  <2>2. PICK s : s = [summary EXCEPT !.pc = "report_alerts", !.rows = rows]
    OBVIOUS
  <2>3. /\ summary # None /\ summary.pc = "report_executions" /\ UNCHANGED historyVars
        /\ summary' = s
    BY <1>6, <2>1, <2>2 DEF ReadExecutions, Reads
  <2>4. DOMAIN summary = SummaryFields /\ summary.start \in Int /\ summary.end \in Int
    BY <2>3 DEF SummaryInv
  <2>5. /\ DOMAIN s = SummaryFields /\ s.pc = "report_alerts" /\ s.rows = rows
        /\ s.now = summary.now /\ s.start = summary.start /\ s.end = summary.end
        /\ s.jobs = summary.jobs
    BY <2>2, <2>4 DEF SummaryFields
  <2>6. ASSUME NEW row \in rows PROVE Listed(row)
    <3>1. PICK e \in Rows :
             /\ InPeriod(execution[e].started_at)
             /\ row = [id |-> e, job |-> execution[e].job, status |-> execution[e].status]
      BY <2>1
    <3>2. /\ e \in RunIds /\ execution[e] # None /\ execution[e] \in Execution
          /\ run[e] # Idle /\ AttemptOK(run[e]) /\ AttemptFits(e)
      BY AttemptKnown DEF Rows
    <3>3. row.id = e /\ row.job = execution[e].job /\ row.status = execution[e].status
      BY <3>1
    <3>4. row.job \in Jobs
      BY <3>2, <3>3 DEF Execution
    <3>5. ASSUME mode = "inline", row.status \in Completed
          PROVE  run[e].pc = "ended" /\ run[e].began <= summary.end
      <4>1. Done(e)
        BY <3>2, <3>3, <3>5 DEF Done
      <4>2. /\ run[e].pc = "ended" /\ run[e].began <= run[e].started_at
            /\ execution[e].started_at = run[e].started_at
        BY <3>2, <3>5, <4>1 DEF AttemptFits
      <4>. QED  BY <2>4, <3>1, <3>2, <4>2 DEF InPeriod, AttemptOK
    <3>. QED  BY <3>2, <3>3, <3>4, <3>5 DEF Listed
  <2>. QED  BY <2>3, <2>5, <2>6, SummaryReads
<1>7. CASE ReadAlerts
  <2>1. PICK read : read = {a \in alerts : InPeriod(a.created_at)}
    OBVIOUS
  <2>2. PICK s : s = [summary EXCEPT !.pc = "generated", !.alerts = read]
    OBVIOUS
  <2>3. /\ summary # None /\ summary.pc = "report_alerts" /\ UNCHANGED historyVars
        /\ summary' = s
    BY <1>7, <2>1, <2>2 DEF ReadAlerts, Reads
  <2>4. /\ DOMAIN summary = SummaryFields /\ summary.start \in Int /\ summary.end \in Int
        /\ \A row \in summary.rows : Listed(row)
    BY <2>3 DEF SummaryInv
  <2>5. /\ DOMAIN s = SummaryFields /\ s.pc = "generated" /\ s.rows = summary.rows
        /\ s.alerts = read
        /\ s.now = summary.now /\ s.start = summary.start /\ s.end = summary.end
        /\ s.jobs = summary.jobs
    BY <2>2, <2>4 DEF SummaryFields
  <2>6. ASSUME NEW row \in s.rows, NEW a \in alerts, mode = "inline", row.status \in Completed,
               a.execution = row.id, a.created_at >= summary.start
        PROVE  a \in s.alerts
    <3>1. run[row.id].began <= summary.end /\ row.id \in RunIds /\ run[row.id] # Idle
      BY <2>4, <2>5, <2>6 DEF Listed
    <3>2. a.created_at = run[row.id].began
      BY <2>6 DEF HistoryInv, AlertsOK
    <3>3. run[row.id].began \in Nat
      BY <3>1, AttemptKnown DEF AttemptOK
    <3>4. InPeriod(a.created_at)
      BY <2>4, <2>6, <3>1, <3>2, <3>3 DEF InPeriod
    <3>. QED  BY <2>1, <2>5, <3>4
  <2>. QED  BY <2>3, <2>4, <2>5, <2>6, SummaryReads
<1>. QED  BY <1>1, <1>2, <1>3, <1>4, <1>5, <1>6, <1>7 DEF Summarise

---------------------------------------------------------------------------
(* The invariant                                                           *)

SummariesInv == HistoryInv /\ SummaryInv

LEMMA SummariesInit == Init => SummariesInv
<1>. SUFFICES ASSUME Init PROVE SummariesInv
  OBVIOUS
<1>1. /\ mode \in {"inline", "celery"} /\ now = 0 /\ alerts = {} /\ summary = None
      /\ job \in [Jobs -> {None, [created_at |-> 0]}]
      /\ execution = [e \in RunIds |-> None] /\ run = [e \in RunIds |-> Idle] /\ commits = 0
  BY DEF Init, InitHistory
<1>2. \A e \in RunIds : run[e] = Idle /\ execution[e] = None
  BY <1>1
<1>3. HistoryTypeOK
  <2>1. {e \in RunIds : run[e] # Idle} = {}
    BY <1>2
  <2>2. [created_at |-> 0] \in [created_at : Nat]
    OBVIOUS
  <2>3. job \in [Jobs -> [created_at : Nat] \cup {None}]
    BY <1>1, <2>2
  <2>. QED  BY <1>1, <1>2, <2>1, <2>3, FS_EmptySet DEF HistoryTypeOK
<1>4. Distinct /\ AlertsOK /\ Exclusive /\ \A e \in RunIds : RowOK(e)
  BY <1>1, <1>2 DEF Distinct, Begun, AlertsOK, Exclusive, Holds, RowOK
<1>5. StreaksNoticed
  BY <1>2 DEF StreaksNoticed, Judged
<1>6. SummaryInv
  BY <1>1 DEF SummaryInv
<1>. QED  BY <1>3, <1>4, <1>5, <1>6 DEF SummariesInv, HistoryInv

LEMMA SummariesNext ==
    ASSUME SummariesInv, [Next]_vars
    PROVE  SummariesInv'
<1>1. HistoryInv /\ SummaryInv
  BY DEF SummariesInv
<1>2. CASE HistoryStep /\ UNCHANGED summary
  <2>1. HistoryInv' /\ Moves
    BY <1>1, <1>2, HistorySteps DEF HistoryOK
  <2>. QED  BY <1>1, <1>2, <2>1, SummaryRests DEF SummariesInv
<1>3. CASE Summarise
  <2>1. UNCHANGED historyVars
    BY <1>3 DEF Summarise, BeginStats, CountFailures, CountSuccesses, CountDays, BeginReport,
                ReadExecutions, ReadAlerts, Starts, Reads
  <2>. QED  BY <1>1, <1>3, <2>1, HistoryRests, SummarySteps DEF SummariesInv, HistoryOK
<1>4. CASE UNCHANGED vars
  <2>1. UNCHANGED historyVars /\ UNCHANGED summary
    BY <1>4 DEF vars
  <2>2. HistoryInv' /\ Moves
    BY <1>1, <2>1, HistoryRests DEF HistoryOK
  <2>. QED  BY <1>1, <2>1, <2>2, SummaryRests DEF SummariesInv
<1>. QED  BY <1>2, <1>3, <1>4 DEF Next

LEMMA SummariesStay == Spec => []SummariesInv
<1>. QED  BY SummariesInit, SummariesNext, PTL DEF Spec

---------------------------------------------------------------------------
(* What the rules and the summaries promise                                *)

LEMMA RowsRanked ==
    ASSUME HistoryInv, NEW o \in DOMAIN CompletedRows(execution)
    PROVE  Ranked(CompletedRows(execution))
<1>1. o \in RunIds /\ Done(o) /\ execution \in [RunIds -> Execution \cup {None}]
  BY AttemptKnown DEF CompletedRows, Done, HistoryInv, HistoryTypeOK
<1>2. Begun(o) /\ execution[o].started_at = run[o].started_at
  BY <1>1, AttemptKnown DEF Begun, Done, AttemptFits
<1>3. PICK seen : seen = execution
  OBVIOUS
<1>4. DOMAIN seen = RunIds /\ \A f \in RunIds : seen[f] = execution[f]
  BY <1>1, <1>3
<1>. QED  BY <1>1, <1>2, <1>3, <1>4, SeenRanked

\* What StreakIsNoticed says of the rule r, with its parts named.
NoticedFor(r, rows, n, S) ==
    /\ rule[r].is_enabled
    /\ rule[r].condition_type = "consecutive_failures_gte"
    /\ n \in 1 .. Limit
    /\ Cardinality(S) = n
    /\ \A e \in S : rows[e].status \in Failed
    => \A e \in S :
          /\ \A f \in S \ {e} : run[f].place < run[e].place
          /\ run[e].pc = "ended" /\ run[e].rules[r] = rule[r]
          => \E a \in alerts : a.rule = r /\ a.execution = e

LEMMA StreakFound == SummariesInv => StreakIsNoticed
<1>. SUFFICES ASSUME HistoryInv, NEW r \in RuleRows
              PROVE  NoticedFor(r, CompletedRows(execution), rule[r].condition_value,
                                Newest(CompletedRows(execution), rule[r].condition_value))
  BY DEF SummariesInv, StreakIsNoticed, NoticedFor
<1>. SUFFICES ASSUME NEW rows, rows = CompletedRows(execution),
                     NEW n, n = rule[r].condition_value,
                     NEW S, S = Newest(rows, n),
                     rule[r].is_enabled,
                     rule[r].condition_type = "consecutive_failures_gte", n \in 1 .. Limit,
                     Cardinality(S) = n, \A f \in S : rows[f].status \in Failed,
                     NEW e \in S, \A f \in S \ {e} : run[f].place < run[e].place,
                     run[e].pc = "ended", run[e].rules[r] = rule[r]
              PROVE  \E a \in alerts : a.rule = r /\ a.execution = e
  BY DEF NoticedFor
<1>1. r \in RuleIds /\ rule[r] # None
  BY DEF RuleRows
<1>2. S \in SUBSET DOMAIN rows /\ Ranked(rows)
  BY NewestIs, RowsRanked
<1>3. IsFiniteSet(S) /\ n \in Nat
  BY <1>2, FS_Subset, RuleAssumption DEF Ranked
<1>4. ASSUME NEW f \in DOMAIN rows
      PROVE  /\ f \in RunIds /\ rows[f] = execution[f] /\ execution[f] # None
             /\ execution[f].job = Ruled /\ run[f] # Idle /\ Done(f)
             /\ execution[f].started_at = run[f].started_at
  <2>1. /\ f \in RunIds /\ rows[f] = execution[f] /\ execution[f] # None
        /\ execution[f].job = Ruled /\ Done(f)
    BY DEF CompletedRows, Done, HistoryInv, HistoryTypeOK
  <2>. QED  BY <2>1, AttemptKnown DEF AttemptFits
<1>5. e \in RunIds /\ S \in SUBSET RunIds /\ Judged(e) /\ StatusOf(e) \in Failed
  BY <1>2, <1>4 DEF Judged, StatusOf
<1>6. \A f \in S \ {e} : Counted(e, f)
  BY <1>2, <1>4 DEF Counted
<1>7. ASSUME NEW f \in RunIds, Succeeded(f), NEW g \in S
      PROVE  execution[f].started_at < run[g].started_at
  <2>1. f \in DOMAIN rows
    BY <1>7 DEF Succeeded, CompletedRows, Completed, HistoryInv, HistoryTypeOK
  <2>2. rows[f].status = "success" /\ f \notin S
    BY <1>4, <1>7, <2>1 DEF Succeeded, Failed
  <2>3. ~(rows[f].started_at >= rows[g].started_at)
    BY <1>2, <1>3, <2>1, <2>2, NewestClosed
  <2>4. rows[f].started_at \in Nat /\ rows[g].started_at \in Nat
    BY <1>2, <2>1 DEF Ranked
  <2>. QED  BY <1>2, <1>4, <2>1, <2>3, <2>4
<1>8. n <= Cardinality(S)
  BY <1>3
<1>9. Streak(rule[r], e, S)
  BY <1>1, <1>3, <1>5, <1>6, <1>7, <1>8 DEF Streak
<1>10. RaisedBy(r, e)
  BY <1>1, <1>5, <1>9 DEF HistoryInv, StreaksNoticed
<1>. QED  BY <1>10 DEF RaisedBy

LEMMA SumsFit == SummariesInv => SummaryAddsUp
<1>. SUFFICES ASSUME HistoryInv, SummaryInv, summary # None PROVE SummaryAddsUp
  BY DEF SummariesInv, SummaryAddsUp
<1>1. ASSUME summary.pc = "answered", NEW e \in summary.failures \cap summary.successes
      PROVE  run[e].attempt > 0
  BY <1>1 DEF SummaryInv
<1>2. ASSUME summary.pc = "generated", NEW row \in summary.rows
      PROVE  /\ \/ row.job \in summary.jobs
                \/ job[row.job] = None \/ job[row.job].created_at >= summary.now
             /\ \A a \in alerts :
                   /\ mode = "inline" /\ row.status \in Completed
                   /\ a.execution = row.id /\ a.created_at >= summary.start
                   => a \in summary.alerts
  BY <1>2 DEF SummaryInv, Listed
<1>. QED  BY <1>1, <1>2 DEF SummaryAddsUp

\* services/http_runner.py:71, 147: when as many newest executions as an enabled rule's
\* threshold have all failed, the one whose outcome was committed last has raised the
\* rule's alert, if it lived to commit it and the query looks at as many; for any number
\* of executions that overlap.
THEOREM StreaksRaiseAlerts == Spec => []StreakIsNoticed
<1>. QED  BY SummariesStay, StreakFound, PTL

\* api/stats.py:39-70, api/reports.py:58-89: only a retried execution is counted twice, and
\* a report knows the jobs and, in inline mode, the alerts of the executions it lists.
THEOREM SummariesAddUp == Spec => []SummaryAddsUp
<1>. QED  BY SummariesStay, SumsFit, PTL

---------------------------------------------------------------------------
(* Days                                                                    *)

\* Whatever began on a day of the list began in the window that is selected.
LEMMA DaysFit ==
    ASSUME NEW today \in Nat, NEW time \in Nat, DayOf(time) \in ListedDays(today)
    PROVE  time >= today - Days * Day
<1>1. PICK i \in 0 .. Days - 1 : DayOf(time) = DayOf(today) - i
  BY DEF ListedDays
<1>2. Day \in Nat /\ Day > 0 /\ Days \in Nat /\ i \in Nat /\ i + 1 <= Days
  BY SummaryAssumption
<1>3. PICK d, t : d = DayOf(time) /\ t = DayOf(today)
  OBVIOUS
<1>4. /\ d \in Int /\ Day * d <= time
      /\ t \in Int /\ today < Day * t + Day
  BY <1>2, <1>3, SMTT(30) DEF DayOf
<1>5. PICK m \in Nat : Days = i + 1 + m
  <2>1. Days - (i + 1) \in Nat /\ Days = i + 1 + (Days - (i + 1))
    BY <1>2
  <2>. QED  BY <2>1
<1>6. Days * Day = i * Day + Day + m * Day
  BY <1>2, <1>5, SMTT(30)
<1>7. Day * d = Day * t - i * Day
  BY <1>1, <1>2, <1>3, <1>4, SMTT(30)
<1>8. PICK a, b, c, w : a = Day * d /\ b = Day * t /\ c = i * Day /\ w = m * Day
  OBVIOUS
<1>9. a \in Int /\ b \in Int /\ c \in Int /\ w \in Nat
  BY <1>2, <1>4, <1>8, SMTT(30)
<1>10. a <= time /\ today < b + Day /\ a = b - c /\ Days * Day = c + Day + w
  BY <1>4, <1>6, <1>7, <1>8
<1>. QED  BY <1>2, <1>9, <1>10

LEMMA DaysCounted ==
    ASSUME SummariesInv, [Next]_vars, summary # None, NEW day \in ListedDays(summary.now),
           summary.pc = "daily_stats", summary'.pc = "answered"
    PROVE  LET began == {e \in Rows : DayOf(execution[e].started_at) = day}
           IN  /\ summary'.daily[day].success = InStatus(began, {"success"})
               /\ summary'.daily[day].failure = InStatus(began, Failed)
<1>. DEFINE began == {e \in Rows : DayOf(execution[e].started_at) = day}
            rows == StartedSince(summary.now - Days * Day)
            on(d, statuses) == InStatus({e \in rows : DayOf(execution[e].started_at) = d}, statuses)
<1>1. CountDays
  <2>1. summary' # summary
    OBVIOUS
  <2>2. ~(HistoryStep /\ UNCHANGED summary) /\ ~(UNCHANGED vars)
    BY <2>1 DEF vars
  <2>3. ASSUME NEW pc, NEW start, NEW end, Starts(pc, start, end) PROVE FALSE
    BY <2>3 DEF Starts
  <2>4. ASSUME NEW pc, NEW changed, Reads(pc, changed), pc # "daily_stats" PROVE FALSE
    BY <2>4 DEF Reads
  <2>5. Summarise
    BY <2>2 DEF Next
  <2>6. /\ ~BeginStats /\ ~(\E period \in Periods : BeginReport(period))
    BY <2>3 DEF BeginStats, BeginReport
  <2>7. ~CountFailures /\ ~CountSuccesses /\ ~ReadExecutions /\ ~ReadAlerts
    BY DEF CountFailures, CountSuccesses, ReadExecutions, ReadAlerts, Reads
  <2>. QED  BY <2>5, <2>6, <2>7 DEF Summarise
<1>2. PICK daily :
         /\ daily = [d \in ListedDays(summary.now) |->
                       [success |-> on(d, {"success"}), failure |-> on(d, Failed)]]
         /\ summary' = [summary EXCEPT !.pc = "answered", !.daily = daily]
  BY <1>1 DEF CountDays, Reads
<1>3. DOMAIN summary = SummaryFields /\ summary.now \in Nat
  BY DEF SummariesInv, SummaryInv
<1>4. summary'.daily = daily
  BY <1>2, <1>3 DEF SummaryFields
<1>5. daily[day].success = on(day, {"success"}) /\ daily[day].failure = on(day, Failed)
  BY <1>2
<1>6. {e \in rows : DayOf(execution[e].started_at) = day} = began
  <2>1. ASSUME NEW e \in began PROVE e \in rows
    <3>1. e \in Rows /\ DayOf(execution[e].started_at) = day
      OBVIOUS
    <3>2. execution[e].started_at \in Nat
      <4>1. HistoryInv
        BY DEF SummariesInv
      <4>2. execution[e] \in Execution
        BY <3>1, <4>1, AttemptKnown DEF Rows
      <4>. QED  BY <4>2 DEF Execution
    <3>3. execution[e].started_at >= summary.now - Days * Day
      BY <1>3, <3>1, <3>2, DaysFit
    <3>. QED  BY <3>1, <3>3 DEF StartedSince
  <2>. QED  BY <2>1 DEF StartedSince
<1>. QED  BY <1>4, <1>5, <1>6

\* api/stats.py:79-109: the window of whole days back from now cuts none of the listed
\* days short, whatever the length of a day and however many are listed.
THEOREM DaysAreWhole == Spec => DaysAreComplete
<1>. DEFINE Whole == summary # None =>
               \A day \in ListedDays(summary.now) :
                  summary.pc = "daily_stats" /\ summary'.pc = "answered" =>
                     LET began == {e \in Rows : DayOf(execution[e].started_at) = day} IN
                     /\ summary'.daily[day].success = InStatus(began, {"success"})
                     /\ summary'.daily[day].failure = InStatus(began, Failed)
<1>1. SummariesInv /\ [Next]_vars => [Whole]_summary
  BY DaysCounted
<1>. QED  BY <1>1, SummariesStay, PTL DEF Spec, DaysAreComplete
=============================================================================
