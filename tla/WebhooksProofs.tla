-------------------------- MODULE WebhooksProofs --------------------------
(***************************************************************************)
(* Proofs about the rate limiter and the webhooks behind it.               *)
(***************************************************************************)
EXTENDS Webhooks, FiniteSetTheorems, TLAPS

---------------------------------------------------------------------------
(* The rate limiter                                                        *)

\* No entry lies in the future, what is logged was let through, and whatever was let
\* through within the last window is still logged.
LogIsComplete ==
    \A k \in Keys :
        /\ IsFiniteSet(allowed[k])
        /\ counters[k] \subseteq allowed[k]
        /\ \A h \in allowed[k] :
              /\ h.at <= clock
              /\ h.at >= clock - Window => h \in counters[k]

LimiterInv == LimiterTypeOK /\ LogIsComplete /\ WindowBound

LEMMA LimiterInitInv == LimiterInit => LimiterInv
<1>1. \A k \in Keys, t \in 0 .. MaxTime :
         LimiterInit => During(k, t, Window - MaxSkew) = {}
  BY DEF LimiterInit, During
<1> QED
  BY <1>1, FS_EmptySet, LimiterAssumption
     DEF LimiterInit, LimiterInv, LimiterTypeOK, LogIsComplete, WindowBound

\* Adding a call to a key whose pruned log is short keeps every window within the limit.
LEMMA AllowKeepsBound ==
  ASSUME LimiterInv, NEW k \in Keys, NEW skew \in 0 .. MaxSkew, Allow(k, skew)
  PROVE  LimiterInv'
<1> DEFINE hit == [id |-> served, at |-> clock]
           kept == _prune(counters[k], clock + skew)
<1>1. /\ clock \in Nat /\ served \in Nat /\ skew \in Nat /\ skew <= MaxSkew
      /\ clock' = clock + skew /\ served' = served + 1
      /\ counters' = [counters EXCEPT ![k] = kept \cup {hit}]
      /\ allowed' = [allowed EXCEPT ![k] = @ \cup {hit}]
      /\ Cardinality(kept) < Limit
      /\ counters \in [Keys -> SUBSET Hit] /\ allowed \in [Keys -> SUBSET Hit]
      /\ Limit \in Nat /\ Window \in Nat /\ MaxSkew \in Nat /\ MaxTime \in Nat
      /\ MaxSkew <= Window
  BY LimiterAssumption DEF LimiterInv, LimiterTypeOK, Allow, Later
<1>2. hit \in Hit /\ kept \subseteq counters[k]
  BY <1>1 DEF Hit, _prune
<1>3. LimiterTypeOK'
  BY <1>1, <1>2 DEF LimiterTypeOK
<1>4. \A j \in Keys : /\ allowed'[j] = IF j = k THEN allowed[k] \cup {hit} ELSE allowed[j]
                      /\ counters'[j] = IF j = k THEN kept \cup {hit} ELSE counters[j]
  BY <1>1
<1>5. IsFiniteSet(allowed[k] \cup {hit})
  BY FS_AddElement DEF LimiterInv, LogIsComplete
<1>6. ASSUME NEW h \in allowed[k], h.at >= clock + skew - Window
      PROVE  h \in kept
  <2>1. h \in Hit /\ h.at \in Nat
    BY <1>1 DEF Hit
  <2>2. h.at >= clock - Window
    BY <1>1, <1>6, <2>1
  <2>3. h \in counters[k]
    BY <2>2 DEF LimiterInv, LogIsComplete
  <2> QED
    BY <1>1, <2>1, <2>3, <1>6 DEF _prune
<1>7. LogIsComplete'
  <2> SUFFICES ASSUME NEW j \in Keys
               PROVE  /\ IsFiniteSet(allowed'[j])
                      /\ counters'[j] \subseteq allowed'[j]
                      /\ \A h \in allowed'[j] :
                            /\ h.at <= clock'
                            /\ h.at >= clock' - Window => h \in counters'[j]
    BY DEF LogIsComplete
  <2>1. IsFiniteSet(allowed'[j]) /\ counters'[j] \subseteq allowed'[j]
    BY <1>2, <1>4, <1>5 DEF LimiterInv, LogIsComplete
  <2>2. ASSUME NEW h \in allowed'[j]
        PROVE  h.at <= clock' /\ (h.at >= clock' - Window => h \in counters'[j])
    <3>1. CASE j = k /\ h = hit
      BY <3>1, <1>1, <1>4
    <3>2. CASE h \in allowed[j]
      <4>1. h.at \in Nat /\ h.at <= clock
        BY <3>2, <1>1 DEF Hit, LimiterInv, LogIsComplete
      <4>2. h.at >= clock' - Window => h \in counters'[j]
        <5>1. CASE j = k
          BY <5>1, <3>2, <1>1, <1>4, <1>6
        <5>2. CASE j # k
          BY <5>2, <4>1, <3>2, <1>1, <1>4 DEF LimiterInv, LogIsComplete
        <5> QED
          BY <5>1, <5>2
      <4> QED
        BY <4>1, <4>2, <1>1
    <3> QED
      BY <3>1, <3>2, <1>4
  <2> QED
    BY <2>1, <2>2
<1>8. WindowBound'
  <2> SUFFICES ASSUME NEW j \in Keys, NEW t \in 0 .. MaxTime
               PROVE  Cardinality(During(j, t, Window - MaxSkew)') <= Limit
    BY DEF WindowBound
  <2> DEFINE before == During(j, t, Window - MaxSkew)
             after == {h \in allowed'[j] : t <= h.at /\ h.at <= t + (Window - MaxSkew)}
  <2>1. During(j, t, Window - MaxSkew)' = after
    BY DEF During
  <2>2. Cardinality(before) <= Limit
    BY DEF LimiterInv, WindowBound
  <2>3. CASE after = before
    BY <2>1, <2>2, <2>3
  <2>4. CASE after # before
    <3>1. j = k /\ after = before \cup {hit} /\ t <= clock /\ clock <= t + (Window - MaxSkew)
      BY <2>4, <1>1, <1>4 DEF During
    <3>2. before \subseteq kept
      <4> SUFFICES ASSUME NEW h \in before
                   PROVE  h \in kept
        OBVIOUS
      <4>1. h \in allowed[k] /\ t <= h.at /\ h.at \in Nat
        BY <3>1, <1>1 DEF During, Hit
      <4> QED
        BY <1>1, <1>6, <3>1, <4>1
    <3>3. IsFiniteSet(kept)
      BY <1>2, FS_Subset DEF LimiterInv, LogIsComplete
    <3>4. IsFiniteSet(before) /\ Cardinality(before) <= Cardinality(kept)
      BY <3>2, <3>3, FS_Subset
    <3>5. /\ Cardinality(before) \in Nat /\ Cardinality(kept) \in Nat
      BY <3>3, <3>4, FS_CardinalityType
    <3> HIDE DEF after, before, kept, hit
    <3>6. /\ IsFiniteSet(before \cup {hit})
          /\ Cardinality(before \cup {hit}) <= Cardinality(before) + 1
      BY <3>4, <3>5, FS_AddElement
    <3>7. Cardinality(before \cup {hit}) \in Nat
      BY <3>6, FS_CardinalityType
    <3>8. Cardinality(before \cup {hit}) <= Limit
      BY <1>1, <3>4, <3>5, <3>6, <3>7
    <3>9. Cardinality(after) <= Limit
      BY <3>1, <3>8
    <3> QED
      BY <2>1, <3>9
  <2> QED
    BY <2>3, <2>4
<1> QED
  BY <1>3, <1>7, <1>8 DEF LimiterInv

\* A window only depends on the history.
LEMMA SameWindows ==
  ASSUME WindowBound, allowed' = allowed
  PROVE  WindowBound'
BY DEF WindowBound, During

LEMMA LimiterStep == LimiterInv /\ [LimiterNext]_limiterVars => LimiterInv'
<1> SUFFICES ASSUME LimiterInv, [LimiterNext]_limiterVars
             PROVE  LimiterInv'
  OBVIOUS
<1>1. /\ clock \in Nat /\ served \in Nat
      /\ counters \in [Keys -> SUBSET Hit] /\ allowed \in [Keys -> SUBSET Hit]
      /\ Window \in Nat
  BY LimiterAssumption DEF LimiterInv, LimiterTypeOK
<1>2. ASSUME NEW k \in Keys, NEW skew \in 0 .. MaxSkew, Refuse(k, skew)
      PROVE  LimiterInv'
  <2> DEFINE kept == _prune(counters[k], clock + skew)
  <2>1. /\ skew \in Nat /\ clock' = clock + skew /\ served' = served /\ allowed' = allowed
        /\ counters' = [counters EXCEPT ![k] = kept]
        /\ kept \subseteq counters[k]
    BY <1>2, LimiterAssumption DEF Refuse, Later, _prune
  <2>2. LimiterTypeOK'
    BY <1>1, <2>1 DEF LimiterTypeOK
  <2>3. ASSUME NEW j \in Keys, NEW h \in allowed[j]
        PROVE  h.at <= clock' /\ (h.at >= clock' - Window => h \in counters'[j])
    <3>1. h.at \in Nat /\ h.at <= clock /\ (h.at >= clock - Window => h \in counters[j])
      BY <1>1 DEF Hit, LimiterInv, LogIsComplete
    <3> QED
      BY <1>1, <2>1, <3>1 DEF _prune
  <2>4. LogIsComplete'
    BY <1>1, <2>1, <2>3 DEF LimiterInv, LogIsComplete
  <2> QED
    BY <2>1, <2>2, <2>4, SameWindows DEF LimiterInv
<1>3. CASE Tick
  <2>1. LogIsComplete'
    <3>1. ASSUME NEW j \in Keys, NEW h \in allowed[j]
          PROVE  h.at <= clock' /\ (h.at >= clock' - Window => h \in counters'[j])
      <4>1. h.at \in Nat /\ h.at <= clock /\ (h.at >= clock - Window => h \in counters[j])
        BY <1>1 DEF Hit, LimiterInv, LogIsComplete
      <4> QED
        BY <1>1, <1>3, <4>1 DEF Tick
    <3> QED
      BY <1>3, <3>1 DEF Tick, LimiterInv, LogIsComplete
  <2> QED
    BY <1>1, <1>3, <2>1, SameWindows DEF Tick, LimiterInv, LimiterTypeOK
<1>4. CASE Forget
  <2>1. \A j \in Keys : allowed'[j] = {} /\ counters'[j] = {}
    BY <1>4 DEF Forget
  <2>2. LogIsComplete'
    BY <2>1, FS_EmptySet DEF LogIsComplete
  <2>3. \A j \in Keys, t \in 0 .. MaxTime : During(j, t, Window - MaxSkew)' = {}
    BY <2>1 DEF During
  <2>4. WindowBound'
    BY <2>3, FS_EmptySet, LimiterAssumption DEF WindowBound
  <2> QED
    BY <1>1, <1>4, <2>2, <2>4 DEF Forget, LimiterInv, LimiterTypeOK
<1>5. CASE UNCHANGED limiterVars
  <2>1. clock' = clock /\ counters' = counters /\ allowed' = allowed /\ served' = served
    BY <1>5 DEF limiterVars
  <2> QED
    BY <2>1 DEF LimiterInv, LimiterTypeOK, LogIsComplete, WindowBound, During
<1> QED
  BY <1>2, <1>3, <1>4, <1>5, AllowKeepsBound DEF LimiterNext

\* services/rate_limiter.py on its own: whatever the limit, the window and the number of
\* keys, no window ever holds more than Limit calls of a key.
THEOREM LimiterBound == LimiterSpec => []WindowBound
<1>1. LimiterInv => WindowBound
  BY DEF LimiterInv
<1> QED
  BY <1>1, LimiterInitInv, LimiterStep, PTL DEF LimiterSpec

---------------------------------------------------------------------------
(* The webhooks                                                            *)

LEMMA StepIsLimiterStep == [Next]_vars => [LimiterNext]_limiterVars
<1> SUFFICES ASSUME [Next]_vars
             PROVE  [LimiterNext]_limiterVars
  OBVIOUS
<1>1. ASSUME NEW d \in Deliveries, NEW k \in Keys, NEW token, Arrive(d, k, token)
      PROVE  LimiterNext
  BY <1>1 DEF Arrive, LimiterNext
<1>2. CASE Restart
  BY <1>2 DEF Restart, LimiterNext
<1>3. CASE ClockTick
  BY <1>3 DEF ClockTick, LimiterNext
<1>4. ASSUME NEW d \in Deliveries,
             CreateAlert(d) \/ Dispatch(d) \/ Store(d) \/ Acknowledge(d)
         \/ Disconnect(d) \/ ReprocessEvent(d)
      PROVE  UNCHANGED limiterVars
  BY <1>4 DEF CreateAlert, Dispatch, Store, Acknowledge, Disconnect, ReprocessEvent
<1>5. ASSUME NEW c \in Changes, NEW w \in Hooks,
             \/ \E token \in Tokens \cup {NoToken} : BeginCreate(c, w, token)
             \/ \E updates \in Payloads : BeginUpdate(c, w, updates)
             \/ BeginDelete(c, w)
      PROVE  UNCHANGED limiterVars
  BY <1>5 DEF BeginCreate, BeginUpdate, BeginDelete
<1>6. ASSUME NEW c \in Changes,
             CreateWebhook(c) \/ UpdateWebhook(c) \/ DeleteWebhook(c)
      PROVE  UNCHANGED limiterVars
  BY <1>6 DEF CreateWebhook, UpdateWebhook, DeleteWebhook
<1>7. CASE UNCHANGED vars
  BY <1>7 DEF vars
<1> QED
  BY <1>1, <1>2, <1>3, <1>4, <1>5, <1>6, <1>7 DEF Next

\* The receiver uses the limiter as it is meant to be used: every step of the webhooks
\* is a step of the limiter, or leaves it alone.
THEOREM UsesLimiter == Spec => LimiterSpec
<1>1. Init => LimiterInit
  BY DEF Init
<1> QED
  BY <1>1, StepIsLimiterStep, PTL DEF Spec, LimiterSpec

\* webhook_rate_limit: the receiver lets at most Limit calls of an address through in
\* any window, whatever happens to the webhooks, the requests and the process.
THEOREM ReceiverIsLimited == Spec => []WindowBound
BY UsesLimiter, LimiterBound

---------------------------------------------------------------------------
(* The receiver's answers are true                                       *)

RowsTyped ==
    /\ row \in [Hooks -> Row \cup {NoRow}]
    /\ used \subseteq Hooks
    /\ events \in [Deliveries -> Event \cup {NoRow}]
    /\ alerts \subseteq Deliveries
    /\ delivery \in [Deliveries -> Delivery \cup {NotMade}]
    /\ change \in [Changes -> Change \cup {NotMade}]

\* A call that is about to insert the row of w.
Creates(c, w) == ChangeAt(c, "create") /\ change[c].hook = w

\* An id is given away once: whoever is about to insert its row is alone, and nobody
\* has met it before.
IdsAreNew ==
    /\ \A w \in Hooks : Exists(w) => w \in used
    /\ \A c \in Changes, w \in Hooks : Creates(c, w) =>
          /\ w \in used /\ ~Exists(w)
          /\ change[c].updates.token # {}
          /\ \A b \in Changes : Creates(b, w) => b = c
          /\ \A d \in Deliveries : Made(delivery[d]) => delivery[d].hook # w

\* What a delivery has left behind at each point of its handler.
Traces ==
    \A d \in Deliveries :
        /\ ~Made(delivery[d]) => events[d] = NoRow /\ d \notin alerts
        /\ Made(delivery[d]) =>
              /\ delivery[d].pc # "ended" =>
                    delivery[d].answer = "none" /\ delivery[d].hook \in Hooks
              /\ delivery[d].pc \in {"body", "refresh"} => d \notin alerts
              /\ delivery[d].pc \in {"alert", "dispatch", "body"} => events[d] = NoRow
              /\ delivery[d].pc = "dispatch" => d \in alerts
              /\ delivery[d].answer = "200" => delivery[d].hook \in Hooks
              /\ delivery[d].hook \in Hooks => delivery[d].hook \in used
              /\ events[d] # NoRow => events[d].hook = delivery[d].hook

AnswerInv == RowsTyped /\ IdsAreNew /\ Traces /\ AnswerIsTrue

LEMMA AnswerInit == Init => AnswerInv
<1> SUFFICES ASSUME Init PROVE AnswerInv
  OBVIOUS
<1>1. RowsTyped
  BY DEF Init, RowsTyped
<1>2. IdsAreNew
  BY DEF Init, IdsAreNew, Creates, ChangeAt, Made, Exists
<1>3. Traces
  BY DEF Init, Traces, Made
<1>4. AnswerIsTrue
  BY DEF Init, AnswerIsTrue, Made
<1> QED
  BY <1>1, <1>2, <1>3, <1>4 DEF AnswerInv

LEMMA ArriveStep ==
  ASSUME AnswerInv, NEW d \in Deliveries, NEW k \in Keys, NEW token \in Tokens \cup {NoToken},
         Arrive(d, k, token)
  PROVE  AnswerInv'
<1>1. UNCHANGED <<tables, change>>
  BY DEF Arrive
<1>2. PICK w \in Live \cup {NoRow}, pc \in {"alert", "body", "ended"},
           answer \in {"none", "404", "429"} :
         /\ NewDelivery(d, token, w, pc, answer)
         /\ pc # "ended" => w \in Live /\ answer = "none"
         /\ w # NoRow => w \in Live
  BY DEF Arrive, Receive
<1>3. delivery[d] = NotMade /\ delivery' = [delivery EXCEPT ![d] =
          [pc |-> pc, token |-> token, hook |-> w,
           loaded |-> IF w = NoRow THEN NoRow ELSE row[w],
           after |-> EndedChanges, answer |-> answer]]
  BY <1>2 DEF NewDelivery
<1>4. RowsTyped'
  BY <1>1, <1>2, <1>3 DEF AnswerInv, RowsTyped, tables, Delivery, EndedChanges, Live, Exists
<1>5. /\ Made(delivery'[d]) /\ \A e \in Deliveries \ {d} : delivery'[e] = delivery[e]
      /\ delivery'[d].pc = pc /\ delivery'[d].hook = w /\ delivery'[d].answer = answer
  BY <1>3 DEF AnswerInv, RowsTyped, Made, NotMade
<1>6. events[d] = NoRow /\ d \notin alerts
  BY <1>3 DEF AnswerInv, Traces, Made
<1>7. IdsAreNew'
  <2>1. \A c \in Changes, v \in Hooks : Creates(c, v) => v # w
    BY <1>2, HookAssumption DEF AnswerInv, IdsAreNew, Live
  <2> QED
    BY <2>1, <1>1, <1>5 DEF AnswerInv, IdsAreNew, Creates, ChangeAt, Exists, tables
<1>8. Traces'
  <2>1. w \in Hooks => w \in used
    BY <1>2, HookAssumption DEF AnswerInv, IdsAreNew, Live
  <2> QED
    BY <2>1, <1>1, <1>2, <1>5, <1>6 DEF AnswerInv, Traces, tables, Live
<1>9. AnswerIsTrue'
  BY <1>1, <1>2, <1>5, <1>6 DEF AnswerInv, AnswerIsTrue, tables, Exists
<1> QED
  BY <1>4, <1>7, <1>8, <1>9 DEF AnswerInv

\* An answer ends the delivery and changes no other.
LEMMA AnswerEnds ==
  ASSUME RowsTyped, NEW d \in Deliveries, Made(delivery[d]),
         NEW code \in {"none", "200", "403", "500"}, Answer(d, code)
  PROVE  /\ delivery' \in [Deliveries -> Delivery \cup {NotMade}]
         /\ \A e \in Deliveries : /\ Made(delivery'[e]) <=> Made(delivery[e])
                                  /\ e # d => delivery'[e] = delivery[e]
         /\ delivery'[d].pc = "ended" /\ delivery'[d].answer = code
         /\ delivery'[d].hook = delivery[d].hook
<1>1. delivery[d] \in Delivery
  BY DEF RowsTyped, Made
<1>2. delivery' = [delivery EXCEPT ![d] = [delivery[d] EXCEPT !.pc = "ended", !.answer = code]]
  BY DEF Answer
<1> DEFINE q == [delivery[d] EXCEPT !.pc = "ended", !.answer = code]
<1>3. q \in Delivery
  BY <1>1 DEF Delivery
<1>4. q.pc = "ended" /\ q.answer = code /\ q.hook = delivery[d].hook
  BY <1>1 DEF Delivery
<1> HIDE DEF q
<1>5. q # NotMade
  BY <1>3, <1>4 DEF Delivery, NotMade
<1> QED
  BY <1>2, <1>3, <1>4, <1>5 DEF RowsTyped, Made, q

\* A delivery whose event has been committed goes on to read it.
LEMMA GoesOn ==
  ASSUME RowsTyped, NEW d \in Deliveries, Made(delivery[d]),
         delivery' = [delivery EXCEPT ![d].pc = "refresh"]
  PROVE  /\ delivery' \in [Deliveries -> Delivery \cup {NotMade}]
         /\ \A e \in Deliveries : /\ Made(delivery'[e]) <=> Made(delivery[e])
                                  /\ e # d => delivery'[e] = delivery[e]
         /\ delivery'[d].pc = "refresh" /\ delivery'[d].answer = delivery[d].answer
         /\ delivery'[d].hook = delivery[d].hook /\ delivery'[d].token = delivery[d].token
         /\ delivery'[d].loaded = delivery[d].loaded /\ delivery'[d].after = delivery[d].after
<1>1. delivery[d] \in Delivery
  BY DEF RowsTyped, Made
<1> DEFINE q == [delivery[d] EXCEPT !.pc = "refresh"]
<1>2. delivery' = [delivery EXCEPT ![d] = q]
  OBVIOUS
<1>3. q \in Delivery
  BY <1>1 DEF Delivery
<1>4. /\ q.pc = "refresh" /\ q.answer = delivery[d].answer /\ q.hook = delivery[d].hook
      /\ q.token = delivery[d].token /\ q.loaded = delivery[d].loaded
      /\ q.after = delivery[d].after
  BY <1>1 DEF Delivery
<1> HIDE DEF q
<1>5. q # NotMade
  BY <1>3, <1>4 DEF Delivery, NotMade
<1> QED
  BY <1>2, <1>3, <1>4, <1>5 DEF RowsTyped, Made

\* The other steps of a delivery: rows keep their existence, ids are as before.
LEMMA DeliveryStep ==
  ASSUME AnswerInv, NEW d \in Deliveries,
         CreateAlert(d) \/ Dispatch(d) \/ Store(d) \/ Acknowledge(d)
         \/ Disconnect(d) \/ ReprocessEvent(d)
  PROVE  AnswerInv'
<1>1. CASE CreateAlert(d)
  <2>1. /\ Made(delivery[d]) /\ delivery[d].pc = "alert" /\ delivery[d].answer = "none"
        /\ delivery' = [delivery EXCEPT ![d].pc = "dispatch"]
        /\ alerts' = alerts \cup {d} /\ UNCHANGED <<row, used, events, change>>
    BY <1>1 DEF CreateAlert, At, AnswerInv, Traces
  <2>2. RowsTyped'
    BY <2>1 DEF AnswerInv, RowsTyped, Delivery, Made
  <2>3. /\ \A e \in Deliveries : /\ Made(delivery'[e]) <=> Made(delivery[e])
                                 /\ e # d => delivery'[e] = delivery[e]
        /\ delivery'[d].pc = "dispatch" /\ delivery'[d].hook = delivery[d].hook
        /\ delivery'[d].answer = "none"
    BY <2>1 DEF AnswerInv, RowsTyped, Made, NotMade, Delivery
  <2>4. IdsAreNew'
    BY <2>1, <2>3 DEF AnswerInv, IdsAreNew, Creates, ChangeAt, Exists
  <2>5. Traces'
    BY <2>1, <2>3 DEF AnswerInv, Traces
  <2>6. AnswerIsTrue'
    BY <2>1, <2>3 DEF AnswerInv, Traces, AnswerIsTrue, Exists
  <2> QED
    BY <2>2, <2>4, <2>5, <2>6 DEF AnswerInv
<1>2. CASE Dispatch(d)
  <2>1. PICK code \in {"403", "500"} : Answer(d, code)
    BY <1>2 DEF Dispatch
  <2>2. /\ Made(delivery[d]) /\ delivery[d].pc = "dispatch"
        /\ UNCHANGED <<row, used, events, alerts, change>>
    BY <1>2 DEF Dispatch, At, tables
  <2>3. RowsTyped'
    BY <2>1, <2>2, AnswerEnds DEF AnswerInv, RowsTyped
  <2>4. IdsAreNew'
    BY <2>1, <2>2, AnswerEnds DEF AnswerInv, IdsAreNew, Creates, ChangeAt, Exists
  <2>5. Traces'
    BY <2>1, <2>2, AnswerEnds DEF AnswerInv, Traces
  <2>6. AnswerIsTrue'
    BY <2>1, <2>2, AnswerEnds DEF AnswerInv, Traces, AnswerIsTrue, Exists
  <2> QED
    BY <2>3, <2>4, <2>5, <2>6 DEF AnswerInv
<1>3. CASE Disconnect(d)
  <2>1. PICK code \in {"none"} : Answer(d, code)
    BY <1>3 DEF Disconnect
  <2>2. /\ Made(delivery[d]) /\ delivery[d].pc = "body"
        /\ UNCHANGED <<row, used, events, alerts, change>>
    BY <1>3 DEF Disconnect, At, tables
  <2>3. RowsTyped'
    BY <2>1, <2>2, AnswerEnds DEF AnswerInv, RowsTyped
  <2>4. IdsAreNew'
    BY <2>1, <2>2, AnswerEnds DEF AnswerInv, IdsAreNew, Creates, ChangeAt, Exists
  <2>5. Traces'
    BY <2>1, <2>2, AnswerEnds DEF AnswerInv, Traces
  <2>6. AnswerIsTrue'
    BY <2>1, <2>2, AnswerEnds DEF AnswerInv, Traces, AnswerIsTrue, Exists
  <2> QED
    BY <2>3, <2>4, <2>5, <2>6 DEF AnswerInv
<1>4. CASE Store(d)
  <2> DEFINE w == delivery[d].hook
  <2>1. /\ Made(delivery[d]) /\ delivery[d].pc = "body" /\ w \in Hooks /\ d \notin alerts
        /\ delivery[d].answer = "none" /\ events[d] = NoRow
        /\ UNCHANGED <<used, alerts, change>>
    BY <1>4 DEF Store, At, AnswerInv, Traces, AnswerIsTrue
  <2>2. CASE Exists(w)
    <3>1. /\ events' = [events EXCEPT ![d] = [hook |-> w, status |-> "received"]]
          /\ row' = [row EXCEPT ![w].received = TRUE]
          /\ delivery' = [delivery EXCEPT ![d].pc = "refresh"]
      BY <1>4, <2>2 DEF Store
    <3>2. row' \in [Hooks -> Row \cup {NoRow}]
      BY <2>1, <2>2, <3>1 DEF AnswerInv, RowsTyped, Row, Exists
    <3>3. /\ events' \in [Deliveries -> Event \cup {NoRow}]
          /\ events'[d] # NoRow /\ events'[d].hook = w
          /\ \A e \in Deliveries \ {d} : events'[e] = events[e]
      BY <2>1, <3>1 DEF AnswerInv, RowsTyped, Event, NoRow
    <3>4. /\ \A v \in Hooks : (row'[v] # NoRow) <=> (row[v] # NoRow)
          /\ \A v \in Hooks : row[v].received => row'[v].received
          /\ row'[w].received
      <4> DEFINE r == [row[w] EXCEPT !.received = TRUE]
      <4>1. r \in Row
        BY <2>1, <2>2 DEF AnswerInv, RowsTyped, Row, Exists
      <4>2. r.received = TRUE
        BY <2>1, <2>2 DEF AnswerInv, RowsTyped, Row, Exists
      <4>3. r # NoRow
        BY <4>1 DEF Row, NoRow
      <4>4. row' = [row EXCEPT ![w] = r]
        BY <3>1
      <4> HIDE DEF r
      <4> QED
        BY <4>2, <4>3, <4>4, <2>1, <2>2 DEF AnswerInv, RowsTyped, Exists
    <3>5. row'[w] # NoRow
      BY <2>1, <2>2, <3>4 DEF Exists, w
    <3> HIDE DEF w
    <3>0. /\ delivery' \in [Deliveries -> Delivery \cup {NotMade}]
          /\ \A e \in Deliveries : /\ Made(delivery'[e]) <=> Made(delivery[e])
                                   /\ e # d => delivery'[e] = delivery[e]
          /\ delivery'[d].pc = "refresh" /\ delivery'[d].answer = "none"
          /\ delivery'[d].hook = delivery[d].hook
      BY <2>1, <3>1, GoesOn DEF AnswerInv
    <3>6. RowsTyped'
      BY <2>1, <3>0, <3>2, <3>3 DEF AnswerInv, RowsTyped
    <3>7. IdsAreNew'
      <4>1. \A e \in Deliveries : Made(delivery'[e]) =>
               Made(delivery[e]) /\ delivery'[e].hook = delivery[e].hook
        BY <3>0
      <4> QED
        <5>1. \A c \in Changes, v \in Hooks : Creates(c, v)' <=> Creates(c, v)
          BY <2>1 DEF Creates, ChangeAt
        <5>2. \A v \in Hooks : Exists(v)' <=> Exists(v)
          BY <3>4 DEF Exists
        <5> QED
          BY <4>1, <5>1, <5>2, <2>1 DEF AnswerInv, IdsAreNew
    <3>8. Traces'
      BY <2>1, <3>0, <3>3 DEF AnswerInv, Traces, w
    <3>9. AnswerIsTrue'
      <4> SUFFICES ASSUME NEW e \in Deliveries, Made(delivery[e])
                   PROVE  /\ events'[e] # NoRow => row'[events'[e].hook] # NoRow /\ row'[events'[e].hook].received
                          /\ delivery'[e].answer = "200" /\ row'[delivery'[e].hook] # NoRow => events'[e] # NoRow
                          /\ delivery'[e].answer = "403" => e \in alerts'
                          /\ delivery'[e].answer \in {"403", "404", "429"} \/ e \in alerts' => events'[e] = NoRow
                          /\ delivery'[e].answer \in {"200", "404", "429"} => e \notin alerts'
        BY <3>0 DEF AnswerIsTrue, Exists
      <4>1. CASE e = d
        BY <4>1, <2>1, <3>0, <3>3, <3>4, <3>5 DEF Exists, w
      <4>2. CASE e # d
        <5>1. events'[e] # NoRow => events'[e].hook \in Hooks
          BY <3>3 DEF Event
        <5>2. events'[e] = events[e] /\ delivery'[e] = delivery[e] /\ alerts' = alerts
          BY <4>2, <2>1, <3>0, <3>3
        <5>3. delivery[e].answer = "200" => delivery[e].hook \in Hooks
          BY DEF AnswerInv, Traces
        <5> QED
          <6>1. /\ events[e] # NoRow => row[events[e].hook] # NoRow /\ row[events[e].hook].received
                /\ delivery[e].answer = "200" /\ row[delivery[e].hook] # NoRow => events[e] # NoRow
                /\ delivery[e].answer = "403" => e \in alerts
                /\ delivery[e].answer \in {"403", "404", "429"} \/ e \in alerts => events[e] = NoRow
                /\ delivery[e].answer \in {"200", "404", "429"} => e \notin alerts
            BY DEF AnswerInv, AnswerIsTrue, Exists
          <6> QED
            <7>1. events[e] # NoRow =>
                     row'[events[e].hook] # NoRow /\ row'[events[e].hook].received
              BY <6>1, <5>1, <5>2, <3>4, Zenon
            <7>2. delivery[e].answer = "200" /\ row'[delivery[e].hook] # NoRow => events[e] # NoRow
              BY <6>1, <5>3, <3>4
            <7> QED
              BY <7>1, <7>2, <6>1, <5>2, Zenon
      <4> QED
        BY <4>1, <4>2
    <3> QED
      BY <3>6, <3>7, <3>8, <3>9 DEF AnswerInv
  <2>3. CASE ~Exists(w)
    <3>1. Answer(d, "500") /\ UNCHANGED <<events, row>>
      BY <1>4, <2>3 DEF Store
    <3>2. RowsTyped'
      BY <2>1, <3>1, AnswerEnds DEF AnswerInv, RowsTyped
    <3>3. IdsAreNew'
      BY <2>1, <3>1, AnswerEnds DEF AnswerInv, IdsAreNew, Creates, ChangeAt, Exists
    <3>4. Traces'
      BY <2>1, <3>1, AnswerEnds DEF AnswerInv, Traces
    <3>5. AnswerIsTrue'
      BY <2>1, <3>1, AnswerEnds DEF AnswerInv, AnswerIsTrue, Exists
    <3> QED
      BY <3>2, <3>3, <3>4, <3>5 DEF AnswerInv
  <2> QED
    BY <2>2, <2>3
<1>5. CASE Acknowledge(d)
  <2>1. PICK code \in {"200", "500"} : /\ code = "200" => events[d] # NoRow
                                      /\ Answer(d, code)
    BY <1>5 DEF Acknowledge
  <2>2. /\ Made(delivery[d]) /\ delivery[d].pc = "refresh"
        /\ delivery[d].hook \in Hooks /\ d \notin alerts
        /\ UNCHANGED <<row, used, events, alerts, change>>
    BY <1>5 DEF Acknowledge, At, tables, AnswerInv, Traces
  <2>3. RowsTyped'
    BY <2>1, <2>2, AnswerEnds DEF AnswerInv, RowsTyped
  <2>4. IdsAreNew'
    BY <2>1, <2>2, AnswerEnds DEF AnswerInv, IdsAreNew, Creates, ChangeAt, Exists
  <2>5. Traces'
    BY <2>1, <2>2, AnswerEnds DEF AnswerInv, Traces
  <2>6. AnswerIsTrue'
    BY <2>1, <2>2, AnswerEnds DEF AnswerInv, Traces, AnswerIsTrue, Exists
  <2> QED
    BY <2>3, <2>4, <2>5, <2>6 DEF AnswerInv
<1>6. CASE ReprocessEvent(d)
  <2>1. /\ events[d] # NoRow /\ events' = [events EXCEPT ![d].status = "reprocessed"]
        /\ UNCHANGED <<row, used, alerts, delivery, change>>
    BY <1>6 DEF ReprocessEvent
  <2>2. /\ events' \in [Deliveries -> Event \cup {NoRow}]
        /\ \A e \in Deliveries : /\ events'[e] = NoRow <=> events[e] = NoRow
                                 /\ events[e] # NoRow => events'[e].hook = events[e].hook
    BY <2>1 DEF AnswerInv, RowsTyped, Event, NoRow
  <2>3. RowsTyped'
    BY <2>1, <2>2 DEF AnswerInv, RowsTyped
  <2>4. IdsAreNew'
    BY <2>1 DEF AnswerInv, IdsAreNew, Creates, ChangeAt, Exists
  <2>5. Traces'
    BY <2>1, <2>2 DEF AnswerInv, Traces
  <2>6. AnswerIsTrue'
    BY <2>1, <2>2 DEF AnswerInv, AnswerIsTrue, Exists
  <2> QED
    BY <2>3, <2>4, <2>5, <2>6 DEF AnswerInv
<1> QED
  BY <1>1, <1>2, <1>3, <1>4, <1>5, <1>6

\* The calls of operators, when they begin.
LEMMA BeginStep ==
  ASSUME AnswerInv, NEW c \in Changes, NEW w \in Hooks,
         \/ \E token \in Tokens \cup {NoToken} : BeginCreate(c, w, token)
         \/ \E updates \in Payloads : BeginUpdate(c, w, updates)
         \/ BeginDelete(c, w)
  PROVE  AnswerInv'
<1>1. PICK op \in {"create", "update", "delete"}, updates \in Updates :
         /\ Begin(c, op, w, updates)
         /\ op = "create" => w \notin used /\ w \in used' /\ updates.token # {}
         /\ used \subseteq used' /\ used' \subseteq Hooks
  <2>1. CASE \E token \in Tokens \cup {NoToken} : BeginCreate(c, w, token)
    <3>1. PICK token \in Tokens \cup {NoToken} : BeginCreate(c, w, token)
      BY <2>1
    <3>2. Creation(token) \in Updates /\ Creation(token).token # {}
      BY DEF Creation, Updates, Optional, Statuses
    <3> QED
      BY <3>1, <3>2 DEF BeginCreate, AnswerInv, RowsTyped
  <2>2. CASE \E updates \in Payloads : BeginUpdate(c, w, updates)
    BY <2>2, PayloadAssumption DEF BeginUpdate, AnswerInv, RowsTyped, tables
  <2>3. CASE BeginDelete(c, w)
    <3>1. [f \in Columns |-> {}] \in Updates
      BY DEF Columns, Updates, Optional
    <3> QED
      BY <2>3, <3>1 DEF BeginDelete, AnswerInv, RowsTyped, tables
  <2> QED
    BY <2>1, <2>2, <2>3
<1>2. UNCHANGED <<row, events, alerts, delivery>>
  BY DEF BeginCreate, BeginUpdate, BeginDelete, tables
<1>3. /\ change[c] = NotMade
      /\ change' = [change EXCEPT ![c] =
            [op |-> op, hook |-> w, updates |-> updates, pc |-> "write", loaded |-> row[w],
             after |-> EndedChanges, done |-> FALSE]]
  BY <1>1 DEF Begin
<1>4. RowsTyped'
  BY <1>1, <1>2, <1>3 DEF AnswerInv, RowsTyped, Change, EndedChanges
<1>5. IdsAreNew'
  <2>1. \A b \in Changes, v \in Hooks :
           Creates(b, v)' <=> IF b = c THEN op = "create" /\ v = w ELSE Creates(b, v)
    BY <1>3 DEF AnswerInv, RowsTyped, Creates, ChangeAt, Made, NotMade
  <2>2. op = "create" => /\ \A b \in Changes : ~Creates(b, w)
                         /\ ~Exists(w)
                         /\ \A d \in Deliveries : Made(delivery[d]) => delivery[d].hook # w
    BY <1>1 DEF AnswerInv, IdsAreNew, Traces
  <2>3. change'[c].updates = updates /\ \A b \in Changes \ {c} : change'[b] = change[b]
    BY <1>3 DEF AnswerInv, RowsTyped
  <2> QED
    BY <1>1, <1>2, <2>1, <2>2, <2>3 DEF AnswerInv, IdsAreNew, Exists
<1>6. Traces'
  BY <1>1, <1>2 DEF AnswerInv, Traces
<1>7. AnswerIsTrue'
  BY <1>2 DEF AnswerInv, AnswerIsTrue, Exists
<1> QED
  BY <1>4, <1>5, <1>6, <1>7 DEF AnswerInv

\* A call that ends creates nothing any more.
LEMMA CallEnds ==
  ASSUME RowsTyped, NEW c \in Changes, Made(change[c]), NEW done \in BOOLEAN, End(c, done)
  PROVE  /\ change' \in [Changes -> Change \cup {NotMade}]
         /\ \A b \in Changes \ {c} : change'[b] = change[b]
         /\ change'[c].pc = "ended"
<1>1. change[c] \in Change
  BY DEF RowsTyped, Made
<1> DEFINE q == [change[c] EXCEPT !.pc = "ended", !.done = done]
<1>2. q \in Change /\ q.pc = "ended"
  BY <1>1 DEF Change
<1>3. change' = [change EXCEPT ![c] = q]
  BY DEF End
<1> HIDE DEF q
<1> QED
  BY <1>2, <1>3 DEF RowsTyped

\* With its end a call leaves what IdsAreNew says of the others.
LEMMA IdsKept ==
  ASSUME AnswerInv, NEW c \in Changes, Made(change[c]), NEW done \in BOOLEAN, End(c, done),
         UNCHANGED <<used, delivery>>,
         \A w \in Hooks : row'[w] # NoRow => row[w] # NoRow \/ Creates(c, w)
  PROVE  IdsAreNew'
<1>1. \A b \in Changes, w \in Hooks : Creates(b, w)' => Creates(b, w) /\ b # c /\ change'[b] = change[b]
  BY CallEnds DEF AnswerInv, Creates, ChangeAt
<1>2. \A w \in Hooks : Exists(w)' => Exists(w) \/ Creates(c, w)
  BY DEF Exists
<1> QED
  BY <1>1, <1>2 DEF AnswerInv, IdsAreNew

LEMMA CreateStep ==
  ASSUME AnswerInv, NEW c \in Changes, CreateWebhook(c)
  PROVE  AnswerInv'
<1> DEFINE w == change[c].hook
           token == CHOOSE t \in change[c].updates.token : TRUE
           new == [status |-> "active", token |-> token, received |-> FALSE]
<1>1. /\ ChangeAt(c, "create") /\ End(c, Live = {})
      /\ row' = IF Live = {} THEN [row EXCEPT ![w] = new] ELSE row
      /\ UNCHANGED <<used, events, alerts, delivery>>
  BY DEF CreateWebhook
<1>2. Made(change[c]) /\ w \in Hooks /\ Creates(c, w) /\ change[c].updates \in Updates
  BY <1>1 DEF AnswerInv, RowsTyped, Change, ChangeAt, Creates, Made
<1>3. new \in Row /\ new # NoRow
  <2>1. change[c].updates.token # {} /\ change[c].updates.token \in Optional(Tokens \cup {NoToken})
    BY <1>2 DEF AnswerInv, IdsAreNew, Updates
  <2>2. token \in Tokens \cup {NoToken}
    BY <2>1 DEF Optional
  <2> HIDE DEF token
  <2> QED
    BY <2>2 DEF Row, NoRow, Statuses
<1> HIDE DEF new, w
<1>4. RowsTyped'
  BY <1>1, <1>2, <1>3, CallEnds DEF AnswerInv, RowsTyped
<1>5. \A v \in Hooks : row'[v] # row[v] => v = w /\ Creates(c, v)
  BY <1>1, <1>2, <1>3 DEF AnswerInv, RowsTyped
<1>6. IdsAreNew'
  BY <1>1, <1>2, <1>5, IdsKept
<1>7. \A d \in Deliveries : Made(delivery[d]) /\ delivery[d].hook \in Hooks =>
         row'[delivery[d].hook] = row[delivery[d].hook]
  BY <1>2, <1>5 DEF AnswerInv, IdsAreNew
<1>8. Traces'
  BY <1>1 DEF AnswerInv, Traces
<1>9. AnswerIsTrue'
  <2>1. \A d \in Deliveries : events[d] # NoRow =>
           events[d].hook = delivery[d].hook /\ events[d].hook \in Hooks
    BY DEF AnswerInv, RowsTyped, Traces, Event
  <2>2. \A d \in Deliveries : Made(delivery[d]) /\ delivery[d].answer = "200" => delivery[d].hook \in Hooks
    BY DEF AnswerInv, Traces
  <2> QED
    BY <1>1, <1>7, <2>1, <2>2 DEF AnswerInv, AnswerIsTrue, Exists
<1> QED
  BY <1>4, <1>6, <1>8, <1>9 DEF AnswerInv

\* A PATCH changes settings, and neither the existence of a row nor its time of receipt.
LEMMA UpdateStep ==
  ASSUME AnswerInv, NEW c \in Changes, UpdateWebhook(c)
  PROVE  AnswerInv'
<1> DEFINE q == change[c]
           w == q.hook
           new == Written(row[w], q.loaded, q.updates)
<1>1. /\ ChangeAt(c, "update") /\ End(c, Exists(w))
      /\ row' = IF Exists(w) THEN [row EXCEPT ![w] = new] ELSE row
      /\ UNCHANGED <<used, events, alerts, delivery>>
  BY DEF UpdateWebhook
<1>2. Made(q) /\ q \in Change /\ w \in Hooks /\ q.updates \in Updates
  BY <1>1 DEF AnswerInv, RowsTyped, Change, ChangeAt, Made
<1>3. Exists(w) => new \in Row /\ new # NoRow /\ new.received = row[w].received
  <2> SUFFICES ASSUME Exists(w)
               PROVE  new \in Row /\ new # NoRow /\ new.received = row[w].received
    OBVIOUS
  <2>1. row[w] \in Row
    BY <1>2 DEF AnswerInv, RowsTyped, Exists
  <2>2. /\ q.updates.status \in Optional(Statuses)
        /\ q.updates.token \in Optional(Tokens \cup {NoToken})
    BY <1>2 DEF Updates
  <2> DEFINE column(f) == IF f \notin Columns \/ q.updates[f] \subseteq {q.loaded[f]}
                          THEN row[w][f]
                          ELSE CHOOSE x \in q.updates[f] : TRUE
  <2>3. new = [f \in {"status", "token", "received"} |-> column(f)]
    BY <2>1 DEF Written, Row
  <2>4. /\ column("status") \in Statuses
        /\ column("token") \in Tokens \cup {NoToken}
        /\ column("received") = row[w].received
    BY <2>1, <2>2 DEF Row, Optional, Columns
  <2> HIDE DEF column
  <2>5. new.received = row[w].received
    BY <2>3, <2>4
  <2>6. new = [status |-> column("status"), token |-> column("token"), received |-> column("received")]
    BY <2>3
  <2>7. new \in Row
    BY <2>1, <2>4, <2>6 DEF Row
  <2> QED
    BY <2>5, <2>7 DEF Row, NoRow
<1> HIDE DEF new
<1>4. RowsTyped'
  BY <1>1, <1>2, <1>3, CallEnds DEF AnswerInv, RowsTyped, Exists
<1>5. /\ \A v \in Hooks : (row'[v] # NoRow) <=> (row[v] # NoRow)
      /\ \A v \in Hooks : row[v] # NoRow => row'[v].received = row[v].received
  BY <1>1, <1>2, <1>3 DEF AnswerInv, RowsTyped, Exists
<1>6. IdsAreNew'
  <2>1. Exists(w) \in BOOLEAN
    BY DEF Exists
  <2> QED
    BY <1>1, <1>2, <1>5, <2>1, IdsKept
<1>7. Traces'
  BY <1>1 DEF AnswerInv, Traces
<1>8. AnswerIsTrue'
  <2>1. \A d \in Deliveries : events[d] # NoRow => events[d].hook \in Hooks
    BY DEF AnswerInv, RowsTyped, Event
  <2>2. \A d \in Deliveries : Made(delivery[d]) /\ delivery[d].answer = "200" => delivery[d].hook \in Hooks
    BY DEF AnswerInv, Traces
  <2> QED
    BY <1>1, <1>5, <2>1, <2>2 DEF AnswerInv, AnswerIsTrue, Exists
<1> QED
  BY <1>4, <1>6, <1>7, <1>8 DEF AnswerInv

LEMMA DeleteStep ==
  ASSUME AnswerInv, NEW c \in Changes, DeleteWebhook(c)
  PROVE  AnswerInv'
<1> DEFINE w == change[c].hook
<1>1. /\ ChangeAt(c, "delete") /\ End(c, TRUE)
      /\ row' = [row EXCEPT ![w] = NoRow]
      /\ events' = [d \in Deliveries |->
                       IF events[d] # NoRow /\ events[d].hook = w THEN NoRow ELSE events[d]]
      /\ UNCHANGED <<used, alerts, delivery>>
  BY DEF DeleteWebhook
<1>2. Made(change[c]) /\ w \in Hooks
  BY <1>1 DEF AnswerInv, RowsTyped, Change, ChangeAt, Made
<1> HIDE DEF w
<1>3. RowsTyped'
  BY <1>1, <1>2, CallEnds DEF AnswerInv, RowsTyped
<1>4. row'[w] = NoRow /\ \A v \in Hooks \ {w} : row'[v] = row[v]
  BY <1>1, <1>2 DEF AnswerInv, RowsTyped
<1>5. IdsAreNew'
  BY <1>1, <1>2, <1>4, IdsKept
<1>6. Traces'
  BY <1>1 DEF AnswerInv, Traces
<1>7. AnswerIsTrue'
  <2>1. \A d \in Deliveries : events[d] # NoRow => events[d].hook \in Hooks
    BY DEF AnswerInv, RowsTyped, Event
  <2>2. \A d \in Deliveries : Made(delivery[d]) /\ delivery[d].answer = "200" => delivery[d].hook \in Hooks
    BY DEF AnswerInv, Traces
  <2>3. \A d \in Deliveries : events'[d] # NoRow => events'[d] = events[d] /\ events[d].hook # w
    BY <1>1
  <2>4. \A d \in Deliveries : events[d] # NoRow /\ events'[d] = NoRow =>
           Made(delivery[d]) /\ delivery[d].hook = w
    BY <1>1 DEF AnswerInv, Traces
  <2> QED
    BY <1>1, <1>4, <2>1, <2>2, <2>3, <2>4 DEF AnswerInv, AnswerIsTrue, Exists
<1> QED
  BY <1>3, <1>5, <1>6, <1>7 DEF AnswerInv

LEMMA RestartStep ==
  ASSUME AnswerInv, Restart
  PROVE  AnswerInv'
<1>1. /\ UNCHANGED <<row, used, events, alerts>>
      /\ delivery' = [d \in Deliveries |->
            IF Made(delivery[d]) THEN [delivery[d] EXCEPT !.pc = "ended"] ELSE NotMade]
      /\ change' = [c \in Changes |->
            IF Made(change[c]) THEN [change[c] EXCEPT !.pc = "ended"] ELSE NotMade]
  BY DEF Restart, tables
<1>2. \A d \in Deliveries :
         /\ Made(delivery[d]) => /\ delivery'[d] \in Delivery
                                 /\ delivery'[d].pc = "ended"
                                 /\ delivery'[d].answer = delivery[d].answer
                                 /\ delivery'[d].hook = delivery[d].hook
         /\ Made(delivery'[d]) => Made(delivery[d])
  <2> SUFFICES ASSUME NEW d \in Deliveries, Made(delivery[d])
               PROVE  /\ delivery'[d] \in Delivery
                      /\ delivery'[d].pc = "ended"
                      /\ delivery'[d].answer = delivery[d].answer
                      /\ delivery'[d].hook = delivery[d].hook
    BY <1>1 DEF Made
  <2>1. delivery[d] \in Delivery
    BY DEF AnswerInv, RowsTyped, Made
  <2>2. delivery'[d] = [delivery[d] EXCEPT !.pc = "ended"]
    BY <1>1
  <2> QED
    BY <2>1, <2>2 DEF Delivery
<1>3. \A d \in Deliveries : Made(delivery[d]) => Made(delivery'[d])
  <2>1. \A x \in Delivery : x # NotMade
    BY DEF Delivery, NotMade
  <2> QED
    BY <1>2, <2>1 DEF Made
<1>4. \A c \in Changes : Made(change[c]) => change'[c] \in Change /\ change'[c].pc = "ended"
  <2> SUFFICES ASSUME NEW c \in Changes, Made(change[c])
               PROVE  change'[c] \in Change /\ change'[c].pc = "ended"
    OBVIOUS
  <2>1. change[c] \in Change
    BY DEF AnswerInv, RowsTyped, Made
  <2>2. change'[c] = [change[c] EXCEPT !.pc = "ended"]
    BY <1>1
  <2> QED
    BY <2>1, <2>2 DEF Change
<1>5. delivery' \in [Deliveries -> Delivery \cup {NotMade}]
  BY <1>1, <1>2
<1>6. change' \in [Changes -> Change \cup {NotMade}]
  BY <1>1, <1>4
<1>7. RowsTyped'
  BY <1>1, <1>5, <1>6 DEF AnswerInv, RowsTyped
<1>8. IdsAreNew'
  <2>1. \A c \in Changes, w \in Hooks : ~Creates(c, w)'
    BY <1>1, <1>4 DEF Creates, ChangeAt, Made
  <2> QED
    BY <1>1, <2>1 DEF AnswerInv, IdsAreNew, Exists
<1>9. Traces'
  <2> SUFFICES ASSUME NEW d \in Deliveries
               PROVE  /\ ~Made(delivery'[d]) => events[d] = NoRow /\ d \notin alerts
                      /\ Made(delivery'[d]) =>
                           /\ delivery'[d].pc = "ended"
                           /\ delivery'[d].answer = "200" => delivery'[d].hook \in Hooks
                           /\ delivery'[d].hook \in Hooks => delivery'[d].hook \in used
                           /\ events[d] # NoRow => events[d].hook = delivery'[d].hook
    BY <1>1 DEF Traces
  <2>1. ~Made(delivery'[d]) => events[d] = NoRow /\ d \notin alerts
    BY <1>3 DEF AnswerInv, Traces
  <2>2. CASE Made(delivery'[d])
    BY <1>2, <2>2 DEF AnswerInv, Traces
  <2> QED
    BY <2>1, <2>2
<1>10. AnswerIsTrue'
  BY <1>1, <1>2 DEF AnswerInv, AnswerIsTrue, Exists
<1> QED
  BY <1>7, <1>8, <1>9, <1>10 DEF AnswerInv

LEMMA AnswerStep == AnswerInv /\ [Next]_vars => AnswerInv'
<1> SUFFICES ASSUME AnswerInv, [Next]_vars
             PROVE  AnswerInv'
  OBVIOUS
<1>1. CASE UNCHANGED <<tables, delivery, change>>
  BY <1>1 DEF AnswerInv, RowsTyped, IdsAreNew, Creates, ChangeAt, Traces, AnswerIsTrue,
              Exists, tables
<1>2. ASSUME NEW c \in Changes, CreateWebhook(c) \/ UpdateWebhook(c) \/ DeleteWebhook(c)
      PROVE  AnswerInv'
  BY <1>2, CreateStep, UpdateStep, DeleteStep
<1>3. ASSUME NEW d \in Deliveries,
             \/ \E k \in Keys, token \in Tokens \cup {NoToken} : Arrive(d, k, token)
             \/ CreateAlert(d) \/ Dispatch(d) \/ Store(d) \/ Acknowledge(d)
             \/ Disconnect(d) \/ ReprocessEvent(d)
      PROVE  AnswerInv'
  BY <1>3, ArriveStep, DeliveryStep
<1> QED
  BY <1>1, <1>2, <1>3, BeginStep, RestartStep DEF Next, ClockTick, vars

\* webhook_receiver.py: whatever the number of webhooks, deliveries and overlapping
\* changes, an answer says what the delivery has left behind.
THEOREM AnswersAreTrue == Spec => []AnswerIsTrue
<1>1. AnswerInv => AnswerIsTrue
  BY DEF AnswerInv
<1> QED
  BY <1>1, AnswerInit, AnswerStep, PTL DEF Spec

\* The types of Webhooks, of which the limiter's are proved with its bound.
THEOREM WebhooksTyped == Spec => []TypeOK
<1>1. AnswerInv /\ LimiterInv => TypeOK
  BY DEF AnswerInv, RowsTyped, LimiterInv, TypeOK
<1> QED
  BY <1>1, AnswerInit, AnswerStep, LimiterInitInv, LimiterStep, UsesLimiter, PTL
     DEF Spec, LimiterSpec

---------------------------------------------------------------------------
(* Acknowledged settings hold                                            *)

\* Call b accounts for the value of a column as someone sees it who knows that the calls
\* in `ended` are over.
Accounts(b, w, f, value, ended) ==
    /\ Sets(b, w, f) /\ change[b].updates[f] = {value}
    /\ \A e \in ended : Sets(e, w, f) => b \notin change[e].after

\* Calls take effect when they end; what each of them came after was over, so that these
\* sets are nested.
Order ==
    /\ \A b \in Changes : Made(change[b]) =>
          /\ change[b].after \subseteq EndedChanges
          /\ change[b].done => change[b].pc = "ended"
          /\ change[b].op = "create" => change[b].updates.status = {"active"}
          /\ change[b].op = "update" => change[b].loaded \in Row
    /\ \A b, c \in Changes : Made(change[b]) /\ Made(change[c]) =>
          change[b].after \subseteq change[c].after \/ change[c].after \subseteq change[b].after

\* While a PATCH waits, a column is as it was loaded, or somebody who overlaps it has
\* set it since.
CopiesExplained ==
    \A c \in Changes, w \in Hooks, f \in Columns :
        ChangeAt(c, "update") /\ change[c].hook = w /\ Exists(w) =>
            \/ row[w][f] = change[c].loaded[f]
            \/ \E b \in Changes : /\ Accounts(b, w, f, row[w][f], EndedChanges)
                                  /\ b \notin change[c].after

RowsCurrent ==
    \A w \in Hooks, f \in Columns : Exists(w) => Current(w, f, row[w][f], EndedChanges)

\* A delivery that is accepted, or is going to be.
Accepted(d) ==
    Made(delivery[d]) /\ (delivery[d].pc \in {"body", "refresh"} \/ delivery[d].answer = "200")

DeliveriesCurrent ==
    \A d \in Deliveries : Accepted(d) =>
        /\ delivery[d].hook \in Hooks
        /\ delivery[d].after \subseteq EndedChanges
        /\ delivery[d].loaded.token \in {NoToken, delivery[d].token}
        /\ \A f \in Columns :
              Current(delivery[d].hook, f, delivery[d].loaded[f], delivery[d].after)

SettingsInv == AnswerInv /\ Order /\ CopiesExplained /\ RowsCurrent /\ DeliveriesCurrent

LEMMA SettingsInit == Init => SettingsInv
<1> SUFFICES ASSUME Init PROVE SettingsInv
  OBVIOUS
<1>1. Order
  BY DEF Init, Order, Made
<1>2. CopiesExplained /\ RowsCurrent
  BY DEF Init, CopiesExplained, RowsCurrent, ChangeAt, Made, Exists
<1>3. DeliveriesCurrent
  BY DEF Init, DeliveriesCurrent, Accepted, Made
<1> QED
  BY <1>1, <1>2, <1>3, AnswerInit DEF SettingsInv

---------------------------------------------------------------------------
\* How calls go on in every step: what they were made for stays, and an end is final.
Onward ==
    \A b \in Changes : Made(change[b]) =>
        /\ Made(change'[b])
        /\ change'[b].op = change[b].op /\ change'[b].hook = change[b].hook
        /\ change'[b].updates = change[b].updates /\ change'[b].after = change[b].after
        /\ change'[b].loaded = change[b].loaded
        /\ change[b].pc = "ended" => change'[b].pc = "ended" /\ change'[b].done = change[b].done

LEMMA OnwardSets ==
  ASSUME Order, Onward, NEW b \in Changes, NEW w, NEW f, Sets(b, w, f)
  PROVE  Sets(b, w, f)' /\ change'[b].updates = change[b].updates
BY DEF Order, Onward, Sets

LEMMA OnwardAccounts ==
  ASSUME Order, Onward, NEW ended, ended \subseteq EndedChanges,
         NEW b \in Changes, NEW w, NEW f, NEW value, Accounts(b, w, f, value, ended)
  PROVE  /\ Sets(b, w, f)' /\ change'[b].updates[f] = {value}
         /\ \A e \in ended : Sets(e, w, f)' => b \notin change'[e].after
<1>1. Sets(b, w, f)' /\ change'[b].updates[f] = {value}
  BY OnwardSets DEF Accounts
<1>2. ASSUME NEW e \in ended, Sets(e, w, f)'
      PROVE  b \notin change'[e].after
  <2>1. e \in Changes /\ Made(change[e]) /\ change[e].pc = "ended"
    BY DEF EndedChanges
  <2>2. Sets(e, w, f) /\ change'[e].after = change[e].after
    BY <1>2, <2>1 DEF Onward, Sets
  <2> QED
    BY <2>2 DEF Accounts
<1> QED
  BY <1>1, <1>2

\* A step in which no call takes effect.
LEMMA QuietStep ==
  ASSUME SettingsInv, Onward, EndedChanges \subseteq EndedChanges',
         \A b \in Changes, w \in Hooks, f \in Columns : Sets(b, w, f)' => Sets(b, w, f),
         \A w \in Hooks : row'[w] # NoRow =>
            row[w] # NoRow /\ \A f \in Columns : row'[w][f] = row[w][f],
         \A c \in Changes : ChangeAt(c, "update")' =>
            ChangeAt(c, "update") \/ change'[c].loaded = row[change'[c].hook]
  PROVE  RowsCurrent' /\ CopiesExplained'
<1>1. ASSUME NEW b \in Changes, NEW w \in Hooks, NEW f \in Columns, NEW value,
             Accounts(b, w, f, value, EndedChanges)
      PROVE  Accounts(b, w, f, value, EndedChanges)'
  <2>1. /\ Sets(b, w, f)' /\ change'[b].updates[f] = {value}
        /\ \A e \in EndedChanges : Sets(e, w, f)' => b \notin change'[e].after
    BY <1>1, OnwardAccounts DEF SettingsInv
  <2>2. ASSUME NEW e \in Changes, Sets(e, w, f)'
        PROVE  e \in EndedChanges
    <3>1. Sets(e, w, f)
      BY <2>2
    <3> QED
      BY <3>1 DEF SettingsInv, Order, Sets, EndedChanges
  <2>3. EndedChanges' \subseteq Changes
    BY DEF EndedChanges
  <2> QED
    BY <2>1, <2>2, <2>3 DEF Accounts
<1>2. ASSUME NEW b \in Changes, NEW w \in Hooks, NEW f \in Columns, row'[w] # NoRow,
             Accounts(b, w, f, row[w][f], EndedChanges)
      PROVE  /\ Sets(b, w, f)' /\ change'[b].updates[f] = {row'[w][f]}
             /\ \A e \in EndedChanges' : Sets(e, w, f)' => b \notin change'[e].after
  <2>1. \A value : value = row[w][f] => Accounts(b, w, f, value, EndedChanges)'
    BY <1>1, <1>2
  <2>2. PICK value : value = row[w][f] /\ value = row'[w][f]
    BY <1>2
  <2> QED
    BY <2>1, <2>2 DEF Accounts
<1>3. RowsCurrent'
  <2> SUFFICES ASSUME NEW w \in Hooks, NEW f \in Columns, row'[w] # NoRow
               PROVE  \E b \in Changes :
                         /\ Sets(b, w, f)' /\ change'[b].updates[f] = {row'[w][f]}
                         /\ \A e \in EndedChanges' : Sets(e, w, f)' => b \notin change'[e].after
    BY DEF RowsCurrent, Current, Exists
  <2>1. PICK b \in Changes : Accounts(b, w, f, row[w][f], EndedChanges)
    BY DEF SettingsInv, RowsCurrent, Current, Accounts, Exists
  <2> QED
    BY <1>2, <2>1
<1>4. CopiesExplained'
  <2> SUFFICES ASSUME NEW c \in Changes, NEW w \in Hooks, NEW f \in Columns,
                      ChangeAt(c, "update")', change'[c].hook = w, row'[w] # NoRow
               PROVE  \/ row'[w][f] = change'[c].loaded[f]
                      \/ \E b \in Changes :
                            /\ Sets(b, w, f)' /\ change'[b].updates[f] = {row'[w][f]}
                            /\ \A e \in EndedChanges' : Sets(e, w, f)' => b \notin change'[e].after
                            /\ b \notin change'[c].after
    BY DEF CopiesExplained, Accounts, Exists
  <2>1. CASE ChangeAt(c, "update")
    <3>1. /\ Made(change[c]) /\ change[c].hook = w
          /\ change'[c].loaded = change[c].loaded /\ change'[c].after = change[c].after
      BY <2>1 DEF Onward, ChangeAt
    <3>2. \/ row[w][f] = change[c].loaded[f]
          \/ \E b \in Changes : /\ Accounts(b, w, f, row[w][f], EndedChanges)
                                /\ b \notin change[c].after
      BY <2>1, <3>1 DEF SettingsInv, CopiesExplained, Exists
    <3> QED
      BY <1>2, <3>1, <3>2
  <2>2. CASE change'[c].loaded = row[change'[c].hook]
    BY <2>2
  <2> QED
    BY <2>1, <2>2
<1> QED
  BY <1>3, <1>4

\* What was current stays current for someone who learns nothing new.
LEMMA CurrentKept ==
  ASSUME Order, Onward, NEW ended, ended \subseteq EndedChanges,
         NEW w, NEW f, NEW value, Current(w, f, value, ended)
  PROVE  Current(w, f, value, ended)'
<1>1. PICK b \in Changes : Accounts(b, w, f, value, ended)
  BY DEF Current, Accounts
<1> QED
  BY <1>1, OnwardAccounts DEF Current

\* A step that neither makes nor judges a delivery.
LEMMA DeliveriesKept ==
  ASSUME SettingsInv, Onward, EndedChanges \subseteq EndedChanges',
         \A d \in Deliveries : Accepted(d)' =>
            /\ Accepted(d)
            /\ delivery'[d].hook = delivery[d].hook /\ delivery'[d].token = delivery[d].token
            /\ delivery'[d].loaded = delivery[d].loaded /\ delivery'[d].after = delivery[d].after
  PROVE  DeliveriesCurrent'
<1> SUFFICES ASSUME NEW d \in Deliveries, Accepted(d)'
             PROVE  /\ delivery'[d].hook \in Hooks
                    /\ delivery'[d].after \subseteq EndedChanges'
                    /\ delivery'[d].loaded.token \in {NoToken, delivery'[d].token}
                    /\ \A f \in Columns :
                          Current(delivery[d].hook, f, delivery[d].loaded[f], delivery[d].after)'
  BY DEF DeliveriesCurrent
<1>1. /\ delivery[d].hook \in Hooks /\ delivery[d].after \subseteq EndedChanges
      /\ delivery[d].loaded.token \in {NoToken, delivery[d].token}
      /\ \A f \in Columns :
            Current(delivery[d].hook, f, delivery[d].loaded[f], delivery[d].after)
  BY DEF SettingsInv, DeliveriesCurrent
<1>2. ASSUME NEW f \in Columns
      PROVE  Current(delivery[d].hook, f, delivery[d].loaded[f], delivery[d].after)'
  <2>1. \A w, value, ended :
           /\ w = delivery[d].hook /\ value = delivery[d].loaded[f] /\ ended = delivery[d].after
           => Current(w, f, value, ended)'
    BY <1>1, CurrentKept DEF SettingsInv
  <2>2. /\ delivery'[d].hook = delivery[d].hook
        /\ delivery'[d].loaded[f] = delivery[d].loaded[f]
        /\ delivery'[d].after = delivery[d].after
    OBVIOUS
  <2> QED
    BY <2>1, <2>2 DEF Current
<1> QED
  BY <1>1, <1>2

LEMMA OrderKept ==
  ASSUME Order, Onward, EndedChanges \subseteq EndedChanges',
         \A b \in Changes : Made(change'[b]) =>
            Made(change[b]) /\ (change'[b].done => change'[b].pc = "ended")
  PROVE  Order'
BY DEF Order, Onward

---------------------------------------------------------------------------
\* An end: the call is over from now on, and has taken effect if `done`.
LEMMA EndGoesOn ==
  ASSUME AnswerInv, Order, NEW c \in Changes, Made(change[c]), change[c].pc = "write",
         NEW done \in BOOLEAN, End(c, done)
  PROVE  /\ Onward
         /\ EndedChanges' = EndedChanges \cup {c} /\ c \notin EndedChanges
         /\ \A b \in Changes : /\ Made(change'[b]) <=> Made(change[b])
                               /\ b # c => change'[b] = change[b]
         /\ change'[c].pc = "ended" /\ change'[c].done = done
         /\ Order'
<1>1. change[c] \in Change
  BY DEF AnswerInv, RowsTyped, Made
<1> DEFINE q == [change[c] EXCEPT !.pc = "ended", !.done = done]
<1>2. /\ q.pc = "ended" /\ q.done = done /\ q.op = change[c].op /\ q.hook = change[c].hook
      /\ q.updates = change[c].updates /\ q.after = change[c].after /\ q.loaded = change[c].loaded
  BY <1>1 DEF Change
<1>3. q \in Change
  BY <1>1 DEF Change
<1>4. change' = [change EXCEPT ![c] = q]
  BY DEF End
<1> HIDE DEF q
<1>5. q # NotMade
  <2>1. "op" \in DOMAIN q
    BY <1>3 DEF Change
  <2>2. DOMAIN NotMade = {}
    BY DEF NotMade
  <2> QED
    BY <2>1, <2>2
<1>6. change'[c] = q /\ \A b \in Changes \ {c} : change'[b] = change[b]
  BY <1>4 DEF AnswerInv, RowsTyped
<1>7. Onward
  BY <1>2, <1>5, <1>6 DEF Onward, Made
<1>8. \A b \in Changes : Made(change'[b]) <=> Made(change[b])
  BY <1>5, <1>6 DEF Made
<1>9. EndedChanges' = EndedChanges \cup {c} /\ c \notin EndedChanges
  BY <1>2, <1>5, <1>6 DEF EndedChanges, Made
<1>10. Order'
  BY <1>2, <1>6, <1>7, <1>8, <1>9, OrderKept DEF Order
<1> QED
  BY <1>2, <1>6, <1>7, <1>8, <1>9, <1>10

\* A call that ends without effect.
LEMMA VainEnd ==
  ASSUME SettingsInv, NEW c \in Changes, Made(change[c]), change[c].pc = "write",
         End(c, FALSE), UNCHANGED <<row, delivery>>
  PROVE  Order' /\ CopiesExplained' /\ RowsCurrent' /\ DeliveriesCurrent'
<1>1. /\ Onward /\ EndedChanges \subseteq EndedChanges' /\ Order'
      /\ \A b \in Changes \ {c} : change'[b] = change[b]
      /\ change'[c].pc = "ended" /\ change'[c].done = FALSE
  BY EndGoesOn DEF SettingsInv
<1>2. DeliveriesCurrent'
  BY <1>1, DeliveriesKept DEF Accepted
<1>3. \A b \in Changes, w \in Hooks, f \in Columns : Sets(b, w, f)' => Sets(b, w, f)
  BY <1>1 DEF Sets
<1>4. \A b \in Changes : ChangeAt(b, "update")' => ChangeAt(b, "update")
  BY <1>1 DEF ChangeAt
<1> QED
  BY <1>1, <1>2, <1>3, <1>4, QuietStep

\* The step writes the columns that call c carries; a value that c has loaded already is
\* left alone, whatever has become of it.
SetsOrKeeps(c, w) ==
    \A f \in Columns : row'[w] # NoRow =>
        \/ change[c].updates[f] = {row'[w][f]}
        \/ /\ change[c].op = "update" /\ row[w] # NoRow /\ row'[w][f] = row[w][f]
           /\ change[c].updates[f] \subseteq {change[c].loaded[f]}

\* A call that takes effect: whoever it sets a column for finds the column explained by
\* the call itself; for all others the call does not matter.
LEMMA EffectiveEnd ==
  ASSUME SettingsInv, NEW c \in Changes, Made(change[c]), change[c].pc = "write",
         End(c, TRUE), UNCHANGED delivery,
         NEW w \in Hooks, w = change[c].hook,
         \A v \in Hooks \ {w} : row'[v] = row[v],
         SetsOrKeeps(c, w)
  PROVE  Order' /\ CopiesExplained' /\ RowsCurrent' /\ DeliveriesCurrent'
<1>1. /\ Onward /\ EndedChanges' = EndedChanges \cup {c} /\ c \notin EndedChanges /\ Order'
      /\ \A b \in Changes \ {c} : change'[b] = change[b]
      /\ change'[c].pc = "ended" /\ change'[c].done = TRUE
      /\ Made(change'[c]) /\ change'[c].hook = w
      /\ change'[c].updates = change[c].updates /\ change'[c].op = change[c].op
      /\ change'[c].after = change[c].after
  BY EndGoesOn DEF SettingsInv, Onward
<1>2. DeliveriesCurrent'
  BY <1>1, DeliveriesKept DEF Accepted
\* Nobody began after the call.
<1>3. \A b \in Changes : Made(change[b]) => c \notin change'[b].after
  BY <1>1 DEF SettingsInv, Order, Onward
<1>4. \A b \in Changes, v \in Hooks, f \in Columns :
         \/ Sets(b, v, f)' <=> Sets(b, v, f)
         \/ b = c /\ v = w /\ (Sets(b, v, f)' <=> change[c].op = "delete" \/ change[c].updates[f] # {})
  BY <1>1 DEF Sets, SettingsInv, Order
\* What has explained a column does so still, for a column that the call did not set and
\* for explanations the call does not come after.
<1>5. ASSUME NEW b \in Changes, NEW v \in Hooks, NEW f \in Columns, NEW value,
             Accounts(b, v, f, value, EndedChanges),
             Sets(c, v, f)' => b \notin change[c].after
      PROVE  Accounts(b, v, f, value, EndedChanges)'
  <2>1. /\ Sets(b, v, f)' /\ change'[b].updates[f] = {value}
        /\ \A e \in EndedChanges : Sets(e, v, f)' => b \notin change'[e].after
    BY <1>5, OnwardAccounts, <1>1 DEF SettingsInv
  <2> QED
    BY <1>1, <1>5, <2>1 DEF Accounts
\* The call explains what it has set.
<1>6. ASSUME NEW f \in Columns, NEW value, change[c].updates[f] = {value}
      PROVE  Accounts(c, w, f, value, EndedChanges)'
  <2>1. Sets(c, w, f)' /\ change'[c].updates[f] = {value}
    BY <1>1, <1>6 DEF Sets
  <2>2. \A e \in EndedChanges' : c \notin change'[e].after
    BY <1>1, <1>3 DEF EndedChanges
  <2> QED
    BY <2>1, <2>2 DEF Accounts
\* Hence each column of a row has an explanation, which does not come before c or, for
\* a column the call did not set, is the one it had.
<1>7. ASSUME NEW v \in Hooks, NEW f \in Columns, row'[v] # NoRow, NEW value, value = row'[v][f]
      PROVE  \/ v = w /\ Accounts(c, w, f, value, EndedChanges)'
             \/ /\ row[v] # NoRow /\ value = row[v][f]
                /\ ~Sets(c, v, f)'
             \/ /\ row[v] # NoRow /\ value = row[v][f]
                /\ \E b \in Changes : /\ Accounts(b, v, f, value, EndedChanges)'
                                      /\ b \notin change[c].after
                                      /\ Accounts(b, v, f, value, EndedChanges)
  <2>1. CASE v # w
    BY <1>4, <1>7, <2>1 DEF SettingsInv, Order, Sets
  <2>2. CASE v = w /\ change[c].updates[f] = {value}
    BY <1>6, <2>2
  <2>3. CASE v = w /\ change[c].updates[f] # {value}
    <3>1. /\ change[c].op = "update" /\ row[w] # NoRow /\ value = row[w][f]
          /\ change[c].updates[f] \subseteq {change[c].loaded[f]}
      BY <1>7, <2>3 DEF SetsOrKeeps
    <3>2. CASE change[c].updates[f] = {}
      BY <1>4, <2>3, <3>1, <3>2 DEF SettingsInv, Order, Sets
    <3>3. CASE change[c].updates[f] # {}
      <4>1. value # change[c].loaded[f]
        BY <2>3, <3>1, <3>3
      <4>2. PICK b \in Changes : /\ Accounts(b, w, f, value, EndedChanges)
                                 /\ b \notin change[c].after
        BY <3>1, <4>1 DEF SettingsInv, CopiesExplained, ChangeAt, Exists
      <4> QED
        BY <1>5, <2>3, <3>1, <4>2
    <3> QED
      BY <3>2, <3>3
  <2> QED
    BY <2>1, <2>2, <2>3
<1>8. RowsCurrent'
  <2> SUFFICES ASSUME NEW v \in Hooks, NEW f \in Columns, row'[v] # NoRow,
                      NEW value, value = row'[v][f]
               PROVE  \E b \in Changes : Accounts(b, v, f, value, EndedChanges)'
    BY DEF RowsCurrent, Current, Accounts, Exists
  <2>1. CASE row[v] # NoRow /\ value = row[v][f] /\ ~Sets(c, v, f)'
    <3>1. PICK b \in Changes : Accounts(b, v, f, value, EndedChanges)
      BY <2>1 DEF SettingsInv, RowsCurrent, Current, Accounts, Exists
    <3> QED
      BY <1>5, <2>1, <3>1
  <2> QED
    BY <1>7, <2>1
<1>9. CopiesExplained'
  <2> SUFFICES ASSUME NEW d \in Changes, NEW v \in Hooks, NEW f \in Columns,
                      ChangeAt(d, "update")', change'[d].hook = v, row'[v] # NoRow,
                      NEW value, value = row'[v][f]
               PROVE  \/ value = change'[d].loaded[f]
                      \/ \E b \in Changes : /\ Accounts(b, v, f, value, EndedChanges)'
                                            /\ b \notin change'[d].after
    BY DEF CopiesExplained, Accounts, Exists
  <2>1. d # c /\ change'[d] = change[d] /\ ChangeAt(d, "update") /\ Made(change[d])
    BY <1>1 DEF ChangeAt
  <2>2. row[v] # NoRow /\ value = row[v][f] =>
          \/ value = change[d].loaded[f]
          \/ \E b \in Changes : /\ Accounts(b, v, f, value, EndedChanges)
                                /\ b \notin change[d].after
    BY <2>1 DEF SettingsInv, CopiesExplained, Exists
  <2>3. CASE v = w /\ Accounts(c, w, f, value, EndedChanges)'
    BY <1>3, <2>1, <2>3
  <2>4. CASE row[v] # NoRow /\ value = row[v][f] /\ ~Sets(c, v, f)'
    BY <1>5, <2>1, <2>2, <2>4
  <2>5. ASSUME row[v] # NoRow, value = row[v][f],
               NEW b \in Changes, Accounts(b, v, f, value, EndedChanges)', b \notin change[c].after,
               NEW a \in Changes, Accounts(a, v, f, value, EndedChanges), a \notin change[d].after
        PROVE  \E x \in Changes : /\ Accounts(x, v, f, value, EndedChanges)'
                                  /\ x \notin change'[d].after
    <3>1. CASE a \in change[c].after
      <4>1. change[d].after \subseteq change[c].after
        BY <2>1, <2>5, <3>1 DEF SettingsInv, Order
      <4> QED
        BY <2>1, <2>5, <4>1
    <3>2. CASE a \notin change[c].after
      BY <1>5, <2>1, <2>5, <3>2
    <3> QED
      BY <3>1, <3>2
  <2> QED
    BY <1>7, <2>1, <2>2, <2>3, <2>4, <2>5
<1> QED
  BY <1>1, <1>2, <1>8, <1>9

---------------------------------------------------------------------------
\* The operators' calls.
LEMMA BeginSettles ==
  ASSUME SettingsInv, NEW c \in Changes, NEW w \in Hooks,
         \/ \E token \in Tokens \cup {NoToken} : BeginCreate(c, w, token)
         \/ \E updates \in Payloads : BeginUpdate(c, w, updates)
         \/ BeginDelete(c, w)
  PROVE  Order' /\ CopiesExplained' /\ RowsCurrent' /\ DeliveriesCurrent'
<1>1. PICK op, updates :
         /\ Begin(c, op, w, updates)
         /\ op = "create" => updates.status = {"active"}
         /\ op = "update" => Exists(w)
  <2>1. CASE \E token \in Tokens \cup {NoToken} : BeginCreate(c, w, token)
    <3>1. PICK token \in Tokens \cup {NoToken} : BeginCreate(c, w, token)
      BY <2>1
    <3> QED
      BY <3>1 DEF BeginCreate, Creation
  <2>2. CASE \E updates \in Payloads : BeginUpdate(c, w, updates)
    BY <2>2 DEF BeginUpdate
  <2>3. CASE BeginDelete(c, w)
    BY <2>3 DEF BeginDelete
  <2> QED
    BY <2>1, <2>2, <2>3
<1>2. UNCHANGED <<row, delivery>>
  BY DEF BeginCreate, BeginUpdate, BeginDelete, tables
<1>3. change[c] = NotMade /\ change' = [change EXCEPT ![c] =
            [op |-> op, hook |-> w, updates |-> updates, pc |-> "write", loaded |-> row[w],
             after |-> EndedChanges, done |-> FALSE]]
  BY <1>1 DEF Begin
<1>4. /\ change'[c].op = op /\ change'[c].hook = w /\ change'[c].updates = updates
      /\ change'[c].pc = "write" /\ change'[c].loaded = row[w]
      /\ change'[c].after = EndedChanges /\ change'[c].done = FALSE
      /\ \A b \in Changes \ {c} : change'[b] = change[b]
  BY <1>3 DEF SettingsInv, AnswerInv, RowsTyped
<1>5. Onward
  BY <1>3, <1>4 DEF Onward, Made
<1>6. EndedChanges' = EndedChanges
  BY <1>3, <1>4 DEF EndedChanges, Made
<1>7. \A b \in Changes, v \in Hooks, f \in Columns : Sets(b, v, f)' => Sets(b, v, f)
  BY <1>4 DEF Sets
<1>8. \A b \in Changes : ChangeAt(b, "update")' =>
         ChangeAt(b, "update") \/ change'[b].loaded = row[change'[b].hook]
  BY <1>4 DEF ChangeAt
<1>9. Order'
  <2>1. op = "update" => row[w] \in Row
    BY <1>1 DEF SettingsInv, AnswerInv, RowsTyped, Exists
  <2>2. \A b \in Changes \ {c} : Made(change'[b]) => Made(change[b])
    BY <1>4 DEF Made
  <2> QED
    BY <1>1, <1>4, <1>6, <2>1, <2>2 DEF SettingsInv, Order
<1>10. DeliveriesCurrent'
  BY <1>2, <1>5, <1>6, DeliveriesKept DEF Accepted
<1> QED
  BY <1>2, <1>5, <1>6, <1>7, <1>8, <1>9, <1>10, QuietStep

LEMMA EndSettles ==
  ASSUME SettingsInv, NEW c \in Changes, CreateWebhook(c) \/ UpdateWebhook(c) \/ DeleteWebhook(c)
  PROVE  Order' /\ CopiesExplained' /\ RowsCurrent' /\ DeliveriesCurrent'
<1> DEFINE w == change[c].hook
<1>1. Made(change[c]) /\ change[c].pc = "write" /\ UNCHANGED delivery
  BY DEF CreateWebhook, UpdateWebhook, DeleteWebhook, ChangeAt
<1>2. change[c] \in Change /\ w \in Hooks /\ change[c].updates \in Updates
  BY <1>1 DEF SettingsInv, AnswerInv, RowsTyped, Change, Made
<1>3. CASE End(c, FALSE) /\ row' = row
  BY <1>1, <1>3, VainEnd
<1>4. CASE CreateWebhook(c) /\ Live = {}
  <2> DEFINE new == [status |-> "active", token |-> CHOOSE t \in change[c].updates.token : TRUE,
                     received |-> FALSE]
  <2>1. End(c, TRUE) /\ row' = [row EXCEPT ![w] = new]
    BY <1>4 DEF CreateWebhook
  <2>2. change[c].updates.status = {"active"}
    BY <1>1, <1>4 DEF CreateWebhook, ChangeAt, SettingsInv, Order
  <2>3. change[c].updates.token = {new.token}
    <3>1. /\ change[c].updates.token # {}
          /\ change[c].updates.token \in Optional(Tokens \cup {NoToken})
      BY <1>2, <1>4 DEF CreateWebhook, Creates, SettingsInv, AnswerInv, IdsAreNew, Updates
    <3>2. PICK t : change[c].updates.token = {t}
      BY <3>1 DEF Optional
    <3> QED
      BY <3>2
  <2>4. new.status = "active"
    OBVIOUS
  <2> HIDE DEF new
  <2>5. row'[w] = new /\ \A v \in Hooks \ {w} : row'[v] = row[v]
    BY <1>2, <2>1 DEF SettingsInv, AnswerInv, RowsTyped
  <2>6. \A f \in Columns : change[c].updates[f] = {row'[w][f]}
    BY <2>2, <2>3, <2>4, <2>5 DEF Columns
  <2> QED
    <3>1. SetsOrKeeps(c, w)
      BY <2>6 DEF SetsOrKeeps
    <3> QED
      BY <1>1, <1>2, <2>1, <2>5, <3>1, EffectiveEnd
<1>5. CASE UpdateWebhook(c) /\ Exists(w)
  <2> DEFINE new == Written(row[w], change[c].loaded, change[c].updates)
  <2>1. End(c, TRUE) /\ row' = [row EXCEPT ![w] = new]
    BY <1>5 DEF UpdateWebhook
  <2>2. row[w] \in Row /\ change[c].op = "update"
    BY <1>2, <1>5 DEF SettingsInv, AnswerInv, RowsTyped, Exists, UpdateWebhook, ChangeAt
  <2>3. ASSUME NEW f \in Columns
        PROVE  \/ change[c].updates[f] = {new[f]}
               \/ new[f] = row[w][f] /\ change[c].updates[f] \subseteq {change[c].loaded[f]}
    <3>1. new[f] = IF change[c].updates[f] \subseteq {change[c].loaded[f]}
                   THEN row[w][f]
                   ELSE CHOOSE x \in change[c].updates[f] : TRUE
      BY <2>2 DEF Written, Row, Columns
    <3>2. change[c].updates[f] = {} \/ \E x : change[c].updates[f] = {x}
      BY <1>2 DEF Updates, Optional, Columns
    <3> QED
      BY <3>1, <3>2
  <2> HIDE DEF new
  <2>4. row'[w] = new /\ \A v \in Hooks \ {w} : row'[v] = row[v]
    BY <1>2, <2>1 DEF SettingsInv, AnswerInv, RowsTyped
  <2> QED
    <3>1. SetsOrKeeps(c, w)
      BY <1>5, <2>2, <2>3, <2>4 DEF Exists, SetsOrKeeps
    <3> QED
      BY <1>1, <1>2, <2>1, <2>4, <3>1, EffectiveEnd
<1>6. CASE DeleteWebhook(c)
  <2>1. End(c, TRUE) /\ row' = [row EXCEPT ![w] = NoRow]
    BY <1>6 DEF DeleteWebhook
  <2>2. row'[w] = NoRow /\ \A v \in Hooks \ {w} : row'[v] = row[v]
    BY <1>2, <2>1 DEF SettingsInv, AnswerInv, RowsTyped
  <2> QED
    <3>1. SetsOrKeeps(c, w)
      BY <2>2 DEF SetsOrKeeps
    <3> QED
      BY <1>1, <1>2, <2>1, <2>2, <3>1, EffectiveEnd
<1> QED
  <2>1. CASE CreateWebhook(c) /\ Live # {}
    <3>1. (Live = {}) = FALSE
      BY <2>1
    <3>2. End(c, FALSE) /\ row' = row
      BY <2>1, <3>1 DEF CreateWebhook
    <3> QED
      BY <1>3, <3>2
  <2>2. CASE UpdateWebhook(c) /\ ~Exists(w)
    <3>1. Exists(w) = FALSE
      BY <2>2 DEF Exists
    <3>2. End(c, FALSE) /\ row' = row
      BY <2>2, <3>1 DEF UpdateWebhook
    <3> QED
      BY <1>3, <3>2
  <2> QED
    BY <1>4, <1>5, <1>6, <2>1, <2>2

---------------------------------------------------------------------------
\* Deliveries and restarts.
LEMMA StandingStill ==
  ASSUME SettingsInv, UNCHANGED <<row, change>>
  PROVE  /\ Order' /\ CopiesExplained' /\ RowsCurrent'
         /\ Onward /\ EndedChanges' = EndedChanges
<1>1. Onward
  BY DEF Onward
<1>2. EndedChanges' = EndedChanges
  BY DEF EndedChanges
<1>3. Order'
  BY <1>2 DEF SettingsInv, Order
<1>4. \A b \in Changes, w \in Hooks, f \in Columns : Sets(b, w, f)' => Sets(b, w, f)
  BY DEF Sets
<1>5. \A c \in Changes : ChangeAt(c, "update")' => ChangeAt(c, "update")
  BY DEF ChangeAt
<1> QED
  BY <1>1, <1>2, <1>3, <1>4, <1>5, QuietStep

LEMMA ArriveSettles ==
  ASSUME SettingsInv, NEW d \in Deliveries, NEW k \in Keys, NEW token \in Tokens \cup {NoToken},
         Arrive(d, k, token)
  PROVE  Order' /\ CopiesExplained' /\ RowsCurrent' /\ DeliveriesCurrent'
<1>1. UNCHANGED <<row, change>>
  BY DEF Arrive, tables
<1>2. PICK w \in Live \cup {NoRow}, pc \in {"alert", "body", "ended"},
           answer \in {"none", "404", "429"} :
         /\ NewDelivery(d, token, w, pc, answer)
         /\ pc = "body" => w \in Live /\ Accepts(row[w], token)
  BY DEF Arrive, Receive
<1>3. /\ delivery'[d] = [pc |-> pc, token |-> token, hook |-> w,
                         loaded |-> IF w = NoRow THEN NoRow ELSE row[w],
                         after |-> EndedChanges, answer |-> answer]
      /\ \A e \in Deliveries \ {d} : delivery'[e] = delivery[e]
  BY <1>2 DEF NewDelivery, SettingsInv, AnswerInv, RowsTyped
<1>4. Order' /\ CopiesExplained' /\ RowsCurrent'
  BY <1>1, StandingStill
<1>5. ASSUME NEW e \in Deliveries, Accepted(e)'
      PROVE  /\ delivery'[e].hook \in Hooks
             /\ delivery'[e].after \subseteq EndedChanges
             /\ delivery'[e].loaded.token \in {NoToken, delivery'[e].token}
             /\ \A f \in Columns :
                   Current(delivery'[e].hook, f, delivery'[e].loaded[f], delivery'[e].after)
  <2>1. CASE e # d
    BY <1>3, <1>5, <2>1 DEF SettingsInv, DeliveriesCurrent, Accepted
  <2>2. CASE e = d
    <3>1. pc = "body"
      BY <1>3, <1>5, <2>2 DEF Accepted
    <3>2. w \in Hooks /\ Exists(w) /\ w # NoRow /\ row[w].token \in {NoToken, token}
      BY <1>2, <3>1, HookAssumption DEF Live, Accepts
    <3>3. \A f \in Columns : Current(w, f, row[w][f], EndedChanges)
      BY <3>2 DEF SettingsInv, RowsCurrent
    <3> QED
      BY <1>3, <2>2, <3>2, <3>3
  <2> QED
    BY <2>1, <2>2
<1>6. DeliveriesCurrent'
  BY <1>1, <1>5 DEF DeliveriesCurrent, Current, Sets, EndedChanges
<1> QED
  BY <1>4, <1>6

LEMMA DeliverySettles ==
  ASSUME SettingsInv, NEW d \in Deliveries,
         CreateAlert(d) \/ Dispatch(d) \/ Store(d) \/ Acknowledge(d)
         \/ Disconnect(d) \/ ReprocessEvent(d)
  PROVE  Order' /\ CopiesExplained' /\ RowsCurrent' /\ DeliveriesCurrent'
<1>1. change' = change
  BY DEF CreateAlert, Dispatch, Store, Acknowledge, Disconnect, ReprocessEvent, tables
<1>2. Onward /\ EndedChanges' = EndedChanges
  BY <1>1 DEF Onward, EndedChanges
<1>3. Order'
  BY <1>1, <1>2 DEF SettingsInv, Order
<1>4. \A w \in Hooks : row'[w] # NoRow =>
         row[w] # NoRow /\ \A f \in Columns : row'[w][f] = row[w][f]
  <2>1. CASE row' = row
    BY <2>1
  <2>2. CASE Store(d) /\ Exists(delivery[d].hook)
    <3>1. /\ row' = [row EXCEPT ![delivery[d].hook].received = TRUE]
          /\ row[delivery[d].hook] # NoRow
      BY <2>2 DEF Store, Exists
    <3>2. \A w \in Hooks : row[w] \in Row \cup {NoRow}
      BY DEF SettingsInv, AnswerInv, RowsTyped
    <3>3. \A w \in Hooks : row'[w] = IF w = delivery[d].hook
                                    THEN [row[w] EXCEPT !.received = TRUE] ELSE row[w]
      BY <3>1 DEF SettingsInv, AnswerInv, RowsTyped
    <3> QED
      BY <3>1, <3>2, <3>3 DEF Row, Columns
  <2> QED
    BY <2>1, <2>2 DEF CreateAlert, Dispatch, Store, Acknowledge, Disconnect, ReprocessEvent, tables
<1>5. CopiesExplained' /\ RowsCurrent'
  <2>1. \A b \in Changes, w \in Hooks, f \in Columns : Sets(b, w, f)' => Sets(b, w, f)
    BY <1>1 DEF Sets
  <2>2. \A c \in Changes : ChangeAt(c, "update")' => ChangeAt(c, "update")
    BY <1>1 DEF ChangeAt
  <2> QED
    BY <1>2, <1>4, <2>1, <2>2, QuietStep
<1>6. \A e \in Deliveries : Accepted(e)' =>
         /\ Accepted(e)
         /\ delivery'[e].hook = delivery[e].hook /\ delivery'[e].token = delivery[e].token
         /\ delivery'[e].loaded = delivery[e].loaded /\ delivery'[e].after = delivery[e].after
  <2>1. CASE CreateAlert(d)
    <3>1. Made(delivery[d]) /\ delivery' = [delivery EXCEPT ![d].pc = "dispatch"]
      BY <2>1 DEF CreateAlert, At
    <3>2. delivery[d] \in Delivery
      BY <3>1 DEF SettingsInv, AnswerInv, RowsTyped, Made
    <3>3. /\ delivery'[d] = [delivery[d] EXCEPT !.pc = "dispatch"]
          /\ \A e \in Deliveries \ {d} : delivery'[e] = delivery[e]
      BY <3>1 DEF SettingsInv, AnswerInv, RowsTyped
    <3>4. /\ delivery'[d].pc = "dispatch" /\ delivery'[d].answer = delivery[d].answer
          /\ delivery'[d].hook = delivery[d].hook /\ delivery'[d].token = delivery[d].token
          /\ delivery'[d].loaded = delivery[d].loaded /\ delivery'[d].after = delivery[d].after
      BY <3>2, <3>3 DEF Delivery
    <3> QED
      BY <3>1, <3>3, <3>4 DEF Accepted
  <2>2. ASSUME NEW code \in {"none", "200", "403", "500"}, At(d, "body") \/ At(d, "refresh") \/ At(d, "dispatch"),
               Answer(d, code), code = "200" => At(d, "refresh")
        PROVE  \A e \in Deliveries : Accepted(e)' =>
                  /\ Accepted(e)
                  /\ delivery'[e].hook = delivery[e].hook /\ delivery'[e].token = delivery[e].token
                  /\ delivery'[e].loaded = delivery[e].loaded /\ delivery'[e].after = delivery[e].after
    <3>1. Made(delivery[d])
      BY <2>2 DEF At
    <3>2. delivery[d] \in Delivery
      BY <3>1 DEF SettingsInv, AnswerInv, RowsTyped, Made
    <3> DEFINE q == [delivery[d] EXCEPT !.pc = "ended", !.answer = code]
    <3>3. delivery' = [delivery EXCEPT ![d] = q]
      BY <2>2 DEF Answer
    <3>4. /\ q.pc = "ended" /\ q.answer = code /\ q.hook = delivery[d].hook
          /\ q.token = delivery[d].token /\ q.loaded = delivery[d].loaded
          /\ q.after = delivery[d].after
      BY <3>2 DEF Delivery
    <3> HIDE DEF q
    <3>5. delivery'[d] = q /\ \A e \in Deliveries \ {d} : delivery'[e] = delivery[e]
      BY <3>3 DEF SettingsInv, AnswerInv, RowsTyped
    <3> QED
      BY <2>2, <3>1, <3>4, <3>5 DEF Accepted, At
  <2>3. CASE ReprocessEvent(d)
    BY <2>3 DEF ReprocessEvent, Accepted
  <2>4. CASE Dispatch(d)
    BY <2>2, <2>4 DEF Dispatch
  <2>5. CASE Acknowledge(d) \/ Disconnect(d)
    BY <2>2, <2>5 DEF Acknowledge, Disconnect
  <2>6. CASE Store(d) /\ Exists(delivery[d].hook)
    <3>1. /\ At(d, "body") /\ Made(delivery[d])
          /\ delivery' = [delivery EXCEPT ![d].pc = "refresh"]
      BY <2>6 DEF Store, At
    <3> QED
      BY <3>1, GoesOn DEF Accepted, At, SettingsInv, AnswerInv
  <2>7. CASE Store(d) /\ ~Exists(delivery[d].hook)
    BY <2>2, <2>7 DEF Store
  <2> QED
    BY <2>1, <2>3, <2>4, <2>5, <2>6, <2>7
<1>7. DeliveriesCurrent'
  BY <1>2, <1>6, DeliveriesKept
<1> QED
  BY <1>3, <1>5, <1>7

LEMMA RestartSettles ==
  ASSUME SettingsInv, Restart
  PROVE  Order' /\ CopiesExplained' /\ RowsCurrent' /\ DeliveriesCurrent'
<1>1. /\ row' = row
      /\ delivery' = [d \in Deliveries |->
            IF Made(delivery[d]) THEN [delivery[d] EXCEPT !.pc = "ended"] ELSE NotMade]
      /\ change' = [c \in Changes |->
            IF Made(change[c]) THEN [change[c] EXCEPT !.pc = "ended"] ELSE NotMade]
  BY DEF Restart, tables
<1>2. ASSUME NEW b \in Changes, Made(change[b])
      PROVE  /\ Made(change'[b]) /\ change'[b].pc = "ended"
             /\ change'[b].op = change[b].op /\ change'[b].hook = change[b].hook
             /\ change'[b].updates = change[b].updates /\ change'[b].after = change[b].after
             /\ change'[b].loaded = change[b].loaded /\ change'[b].done = change[b].done
  <2>1. change[b] \in Change
    BY <1>2 DEF SettingsInv, AnswerInv, RowsTyped, Made
  <2>2. change'[b] = [change[b] EXCEPT !.pc = "ended"]
    BY <1>1, <1>2
  <2>3. /\ change'[b].pc = "ended"
        /\ change'[b].op = change[b].op /\ change'[b].hook = change[b].hook
        /\ change'[b].updates = change[b].updates /\ change'[b].after = change[b].after
        /\ change'[b].loaded = change[b].loaded /\ change'[b].done = change[b].done
    BY <2>1, <2>2 DEF Change
  <2>4. Made(change'[b])
    <3>1. "op" \in DOMAIN change'[b]
      BY <2>1, <2>2 DEF Change
    <3>2. DOMAIN NotMade = {}
      BY DEF NotMade
    <3> QED
      BY <3>1, <3>2 DEF Made
  <2> QED
    BY <2>3, <2>4
<1>3. \A b \in Changes : Made(change'[b]) => Made(change[b])
  BY <1>1 DEF Made
<1>4. Onward
  BY <1>2 DEF Onward
<1>5. EndedChanges \subseteq EndedChanges'
  BY <1>2 DEF EndedChanges
<1>6. Order'
  BY <1>2, <1>3, <1>4, <1>5, OrderKept DEF SettingsInv
<1>7. CopiesExplained' /\ RowsCurrent'
  <2>1. \A b \in Changes, w \in Hooks, f \in Columns : Sets(b, w, f)' => Sets(b, w, f)
    BY <1>2, <1>3 DEF Sets
  <2>2. \A b \in Changes : ~ChangeAt(b, "update")'
    BY <1>2, <1>3 DEF ChangeAt
  <2> QED
    BY <1>1, <1>4, <1>5, <2>1, <2>2, QuietStep
<1>8. \A d \in Deliveries : Accepted(d)' =>
         /\ Accepted(d)
         /\ delivery'[d].hook = delivery[d].hook /\ delivery'[d].token = delivery[d].token
         /\ delivery'[d].loaded = delivery[d].loaded /\ delivery'[d].after = delivery[d].after
  <2> SUFFICES ASSUME NEW d \in Deliveries, Accepted(d)'
               PROVE  /\ Accepted(d)
                      /\ delivery'[d].hook = delivery[d].hook
                      /\ delivery'[d].token = delivery[d].token
                      /\ delivery'[d].loaded = delivery[d].loaded
                      /\ delivery'[d].after = delivery[d].after
    OBVIOUS
  <2>1. Made(delivery[d]) /\ delivery'[d] = [delivery[d] EXCEPT !.pc = "ended"]
    BY <1>1 DEF Accepted, Made
  <2>2. delivery[d] \in Delivery
    BY <2>1 DEF SettingsInv, AnswerInv, RowsTyped, Made
  <2>3. /\ delivery'[d].pc = "ended" /\ delivery'[d].answer = delivery[d].answer
        /\ delivery'[d].hook = delivery[d].hook /\ delivery'[d].token = delivery[d].token
        /\ delivery'[d].loaded = delivery[d].loaded /\ delivery'[d].after = delivery[d].after
    BY <2>1, <2>2 DEF Delivery
  <2> QED
    BY <2>1, <2>3 DEF Accepted
<1>9. DeliveriesCurrent'
  BY <1>4, <1>5, <1>8, DeliveriesKept
<1> QED
  BY <1>6, <1>7, <1>9

---------------------------------------------------------------------------
LEMMA SettingsStep == SettingsInv /\ [Next]_vars => SettingsInv'
<1> SUFFICES ASSUME SettingsInv, [Next]_vars
             PROVE  SettingsInv'
  OBVIOUS
<1>1. AnswerInv'
  BY AnswerStep DEF SettingsInv
<1>2. CASE UNCHANGED <<tables, delivery, change>>
  <2>1. /\ Order' /\ CopiesExplained' /\ RowsCurrent'
        /\ Onward /\ EndedChanges' = EndedChanges
    BY <1>2, StandingStill DEF tables
  <2>2. DeliveriesCurrent'
    BY <1>2, <2>1, DeliveriesKept DEF Accepted
  <2> QED
    BY <1>1, <2>1, <2>2 DEF SettingsInv
<1>3. ASSUME NEW c \in Changes, CreateWebhook(c) \/ UpdateWebhook(c) \/ DeleteWebhook(c)
      PROVE  SettingsInv'
  BY <1>1, <1>3, EndSettles DEF SettingsInv
<1>4. ASSUME NEW d \in Deliveries,
             \/ \E k \in Keys, token \in Tokens \cup {NoToken} : Arrive(d, k, token)
             \/ CreateAlert(d) \/ Dispatch(d) \/ Store(d) \/ Acknowledge(d)
             \/ Disconnect(d) \/ ReprocessEvent(d)
      PROVE  SettingsInv'
  <2>1. Order' /\ CopiesExplained' /\ RowsCurrent' /\ DeliveriesCurrent'
    BY <1>4, ArriveSettles, DeliverySettles
  <2> QED
    BY <1>1, <2>1 DEF SettingsInv
<1>5. ASSUME NEW c \in Changes, NEW w \in Hooks,
             \/ \E token \in Tokens \cup {NoToken} : BeginCreate(c, w, token)
             \/ \E updates \in Payloads : BeginUpdate(c, w, updates)
             \/ BeginDelete(c, w)
      PROVE  SettingsInv'
  BY <1>1, <1>5, BeginSettles DEF SettingsInv
<1>6. CASE Restart
  BY <1>1, <1>6, RestartSettles DEF SettingsInv
<1> QED
  BY <1>2, <1>3, <1>4, <1>5, <1>6 DEF Next, ClockTick, vars

\* api/webhooks.py, webhook_receiver.py: whatever the number of webhooks, tokens and
\* overlapping calls, an acknowledged setting holds until a call that overlaps or follows
\* it sets the column again, in the stored row and in the judgement of deliveries.
THEOREM AcknowledgedSettingsHold == Spec => []SettingsHold
<1>1. SettingsInv => SettingsHold
  BY DEF SettingsInv, RowsCurrent, DeliveriesCurrent, Accepted, SettingsHold
<1> QED
  BY <1>1, SettingsInit, SettingsStep, PTL DEF Spec
=============================================================================
