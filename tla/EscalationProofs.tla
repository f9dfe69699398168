-------------------------- MODULE EscalationProofs --------------------------
(***************************************************************************)
(* What the table of escalation events tells, for any number of alerts,    *)
(* policies, channels and steps, and any changes and crashes.              *)
(***************************************************************************)
EXTENDS Escalation, TLAPS

\* A session has a mark of e, flushed or not.
Marked(session, e) == \E m \in Flushed(session) : m.event = e

\* How often an event was sent whose mark or row has this status.
Times(status) == IF status = "dispatched" THEN 1 ELSE 0

\* The dispatch of alert a, whatever becomes of the rows.
DispatchShape(a) ==
    LET d == dispatch[a] IN
    /\ d.pc = "none" <=> alert[a] = "none"
    /\ d.pc \notin {"steps", "send", "record"} =>
          d.policies = {} /\ d.steps = {} /\ d.new = {} /\ d.flushed = {}
    /\ d.pc \in {"send", "record"} => d.event \in Events /\ AlertOf(d.event) = a /\ d.new = {}
    /\ d.pc \notin {"send", "record"} => d.event = None
    /\ \A m \in Flushed(d) : AlertOf(m.event) = a
    /\ \A s \in d.steps : StepOf[s].policy \notin d.policies

\* The step of e is still to come in the dispatch of its alert.
ToCome(e) ==
    LET d == dispatch[AlertOf(e)] IN
    \/ d.pc \in {"none", "begin", "direct"}
    \/ e[2] \in d.steps
    \/ PolicyOf(e) \in d.policies

\* Until the dispatch commits it, an event has no row, and the dispatch knows whether it
\* was sent.
DispatchOK(e) ==
    LET d == dispatch[AlertOf(e)] IN
    /\ ToCome(e) => /\ event[e] = "none" /\ sent[e] = 0
                    /\ d.event # e /\ ~Marked(d, e)
    /\ d.event = e => /\ event[e] = "none" /\ ~Marked(d, e)
                      /\ sent[e] = IF d.pc = "record" THEN 1 ELSE 0
    /\ \A m \in Flushed(d) : m.event = e =>
          /\ event[e] = "none"
          /\ m.status \in {"pending", "dispatched"}
          /\ sent[e] = Times(m.status)

PassShape ==
    /\ pass.pc = "idle" => pass = NoPass
    /\ pass.pc \in {"send", "record"} => pass.event \in Events /\ pass.new = {}
    /\ pass.pc \notin {"send", "record"} => pass.event = None

\* An event is pending, or deleted, while a pass has it; it is sent when the pass says so,
\* unless an earlier pass died over it.
PassOK(e) ==
    /\ e \in pass.events =>
          /\ event[e] \in {"pending", "deleted"}
          /\ pass.event # e /\ ~Marked(pass, e)
          /\ e \notin unmarked => sent[e] = 0
    /\ pass.event = e =>
          /\ event[e] \in {"pending", "deleted"}
          /\ ~Marked(pass, e)
          /\ e \notin unmarked => sent[e] = IF pass.pc = "record" THEN 1 ELSE 0
    /\ \A m \in Flushed(pass) : m.event = e =>
          /\ event[e] \in {"pending", "deleted"}
          /\ m \in pass.flushed => event[e] = "pending"
          /\ m.status \in {"cancelled", "dispatched"}
          /\ e \notin unmarked => sent[e] = Times(m.status)

\* The property for one event.
AtRest(e) ==
    event[e] # "deleted" /\ e \notin unmarked /\ ~InFlight(e) => sent[e] = Times(event[e])

\* Whoever the pass takes to be open was open when it began.
PassQuiet ==
    /\ \A r \in requests : alert[r.alert] # "none"
    /\ \A e \in pass.events : alert[AlertOf(e)] \in Closed \/ AlertOf(e) \in openBefore
    /\ pass.cached # None => pass.view \in Closed \/ pass.cached \in openBefore

EscalationInv ==
    /\ TypeOK
    /\ PassShape /\ PassQuiet /\ ClosedStaysQuiet
    /\ \A a \in Alerts : DispatchShape(a)
    /\ \A e \in Events : DispatchOK(e) /\ PassOK(e) /\ AtRest(e)

\* The dispatches, passes and rows as fields of records of the right types.
LEMMA EventParts ==
    ASSUME NEW e \in Events
    PROVE  /\ AlertOf(e) \in Alerts /\ e[2] \in Steps /\ e = <<AlertOf(e), e[2]>>
           /\ PolicyOf(e) \in Policies /\ PolicyOf(e) = StepOf[e[2]].policy
           /\ ChannelOf(e) \in Channels
           /\ e # None
  BY StepOfAssumption, NoneAssumption
     DEF Events, AlertOf, PolicyOf, ChannelOf, StepRow

LEMMA StepParts ==
    ASSUME NEW a \in Alerts, NEW s \in Steps
    PROVE  /\ <<a, s>> \in Events /\ AlertOf(<<a, s>>) = a /\ <<a, s>>[2] = s
           /\ PolicyOf(<<a, s>>) = StepOf[s].policy
           /\ StepOf[s].policy \in Policies /\ StepOf[s].channel \in Channels
           /\ StepOf[s].delay \in Nat
  BY StepOfAssumption DEF Events, AlertOf, PolicyOf, StepRow

LEMMA DispatchParts ==
    ASSUME TypeOK, NEW a \in Alerts
    PROVE  /\ dispatch[a] \in Dispatch
           /\ dispatch[a].policies \subseteq Policies /\ dispatch[a].steps \subseteq Steps
           /\ dispatch[a].channels \subseteq Channels
           /\ dispatch[a].event \in Events \cup {None}
           /\ dispatch[a].start \in Nat
           /\ dispatch[a].new \subseteq Mark /\ dispatch[a].flushed \subseteq Mark
           /\ Flushed(dispatch[a]) \subseteq Mark
<1>1. dispatch[a] \in Dispatch
  BY DEF TypeOK
<1>. QED  BY <1>1, BoundAssumption DEF Dispatch, Flushed

LEMMA PassParts ==
    ASSUME TypeOK
    PROVE  /\ pass \in Pass
           /\ pass.events \subseteq Events /\ pass.event \in Events \cup {None}
           /\ pass.new \subseteq Mark /\ pass.flushed \subseteq Mark
           /\ Flushed(pass) \subseteq Mark
<1>1. pass \in Pass
  BY DEF TypeOK
<1>. QED  BY <1>1 DEF Pass, Flushed

LEMMA MarkParts ==
    ASSUME NEW m \in Mark
    PROVE  m.event \in Events /\ m.status \in {"pending", "dispatched", "cancelled"}
  BY DEF Mark

\* What a commit does to one event.
LEMMA Committed ==
    ASSUME event \in [Events -> {"none", "pending", "dispatched", "cancelled", "deleted"}],
           NEW marks \in SUBSET Mark, CommitMarks(marks)
    PROVE  /\ event' \in [Events -> {"none", "pending", "dispatched", "cancelled", "deleted"}]
           /\ \A e \in Events :
                 \/ (\A m \in marks : m.event # e) /\ event'[e] = event[e]
                 \/ \E m \in marks : m.event = e /\ event'[e] = m.status
<1>1. ASSUME NEW e \in Events
      PROVE  /\ event'[e] \in {"none", "pending", "dispatched", "cancelled", "deleted"}
             /\ \/ (\A m \in marks : m.event # e) /\ event'[e] = event[e]
                \/ \E m \in marks : m.event = e /\ event'[e] = m.status
  <2>1. CASE \A m \in marks : m.event # e
    BY <1>1, <2>1 DEF CommitMarks
  <2>2. CASE \E m \in marks : m.event = e
    <3>1. PICK m : m = CHOOSE n \in marks : n.event = e
      OBVIOUS
    <3>2. m \in marks /\ m.event = e
      BY <2>2, <3>1
    <3>3. event'[e] = m.status
      BY <1>1, <2>2, <3>1 DEF CommitMarks
    <3>. QED  BY <3>2, <3>3, MarkParts
  <2>. QED  BY <2>1, <2>2
<1>2. event' = [e \in Events |-> event'[e]]
  BY DEF CommitMarks
<1>. QED  BY <1>1, <1>2

---------------------------------------------------------------------------
\* What a step leaves as it is.
LEMMA DispatchKept ==
    ASSUME NEW e \in Events, DispatchOK(e),
           dispatch'[AlertOf(e)] = dispatch[AlertOf(e)],
           (event'[e] = event[e] /\ sent'[e] = sent[e]) \/ event[e] # "none"
    PROVE  DispatchOK(e)'
<1>1. PICK d : d = dispatch[AlertOf(e)] /\ d = dispatch'[AlertOf(e)]
  OBVIOUS
<1>2. ToCome(e)' <=> ToCome(e)
  BY DEF ToCome, PolicyOf, AlertOf
<1>. QED  BY <1>2 DEF DispatchOK, Marked, Flushed, AlertOf

LEMMA PassKept ==
    ASSUME NEW e \in Events, PassOK(e), pass' = pass, unmarked \subseteq unmarked',
           \/ event'[e] = event[e] /\ sent'[e] = sent[e]
           \/ event[e] = "none"
           \/ event'[e] = "deleted" /\ sent'[e] = sent[e] /\ \A m \in pass.flushed : m.event # e
    PROVE  PassOK(e)'
  BY DEF PassOK, Marked, Flushed

LEMMA RestKept ==
    ASSUME NEW e \in Events, AtRest(e), InFlight(e) => InFlight(e)',
           unmarked \subseteq unmarked',
           event'[e] = event[e] \/ event'[e] = "deleted", sent'[e] = sent[e]
    PROVE  AtRest(e)'
  BY DEF AtRest

LEMMA QuietKept ==
    ASSUME TypeOK, PassQuiet, ClosedStaysQuiet, pass' = pass, openBefore' = openBefore,
           \A r \in requests' : alert[r.alert] # "none", requests' \subseteq Request,
           \A a \in Alerts : /\ alert[a] \in Closed => alert'[a] \in Closed
                             /\ alert[a] # "none" => alert'[a] # "none"
    PROVE  PassQuiet' /\ ClosedStaysQuiet'
<1>1. \A r \in requests' : r.alert \in Alerts
  BY DEF Request
<1>2. \A e \in pass.events : AlertOf(e) \in Alerts
  BY PassParts, EventParts
<1>3. PassQuiet'
  BY <1>1, <1>2 DEF PassQuiet, AlertOf
<1>4. ClosedStaysQuiet'
  BY DEF ClosedStaysQuiet, AlertOf
<1>. QED  BY <1>3, <1>4

\* A step of the dispatch of a, up to what it does to a's own events.
LEMMA DispatchMoves ==
    ASSUME EscalationInv, TypeOK', NEW a \in Alerts,
           pass' = pass, openBefore' = openBefore, requests' = requests,
           unmarked \subseteq unmarked',
           \A b \in Alerts \ {a} : dispatch'[b] = dispatch[b] /\ alert'[b] = alert[b],
           alert'[a] = alert[a] \/ (alert[a] = "none" /\ alert'[a] = "open"),
           DispatchShape(a)',
           \A e \in Events :
              \/ event'[e] = event[e] /\ sent'[e] = sent[e]
              \/ AlertOf(e) = a /\ event[e] = "none",
           \A e \in Events : AlertOf(e) = a => DispatchOK(e)' /\ AtRest(e)'
    PROVE  EscalationInv'
<1>1. PassQuiet' /\ ClosedStaysQuiet'
  <2>1. \A r \in requests' : alert[r.alert] # "none"
    BY DEF EscalationInv, PassQuiet
  <2>2. requests' \subseteq Request
    BY DEF TypeOK
  <2>3. \A b \in Alerts : /\ alert[b] \in Closed => alert'[b] \in Closed
                          /\ alert[b] # "none" => alert'[b] # "none"
    BY DEF Closed
  <2>. QED  BY <2>1, <2>2, <2>3, QuietKept DEF EscalationInv
<1>2. PassShape'
  BY DEF EscalationInv, PassShape
<1>3. \A b \in Alerts : DispatchShape(b)'
  <2>. SUFFICES ASSUME NEW b \in Alerts \ {a} PROVE DispatchShape(b)'
    OBVIOUS
  <2>. QED  BY DEF EscalationInv, DispatchShape, Flushed, AlertOf
<1>4. ASSUME NEW e \in Events, AlertOf(e) # a PROVE DispatchOK(e)' /\ AtRest(e)'
  <2>1. dispatch'[AlertOf(e)] = dispatch[AlertOf(e)]
    BY <1>4, EventParts
  <2>2. DispatchOK(e)'
    BY <1>4, <2>1, DispatchKept DEF EscalationInv
  <2>3. InFlight(e) => InFlight(e)'
    BY <2>1 DEF InFlight, Flushed, AlertOf
  <2>. QED  BY <1>4, <2>2, <2>3, RestKept DEF EscalationInv
<1>5. \A e \in Events : PassOK(e)'
  BY PassKept DEF EscalationInv
<1>. QED  BY <1>1, <1>2, <1>3, <1>4, <1>5 DEF EscalationInv

\* A step of the pass, up to what it does to the pass and its events.
LEMMA PassMoves ==
    ASSUME EscalationInv, TypeOK', dispatch' = dispatch, alert' = alert,
           PassShape', PassQuiet', ClosedStaysQuiet',
           \A e \in Events :
              \/ event'[e] = event[e] /\ sent'[e] = sent[e]
              \/ event[e] # "none",
           \A e \in Events : PassOK(e)' /\ AtRest(e)'
    PROVE  EscalationInv'
<1>1. \A a \in Alerts : DispatchShape(a)'
  BY DEF EscalationInv, DispatchShape, Flushed, AlertOf
<1>2. \A e \in Events : DispatchOK(e)'
  BY DispatchKept DEF EscalationInv
<1>. QED  BY <1>1, <1>2 DEF EscalationInv

LEMMA EscalationInit == Init => EscalationInv
<1>. SUFFICES ASSUME Init PROVE EscalationInv
  OBVIOUS
<1>1. NoDispatch \in Dispatch /\ NoPass \in Pass
  BY BoundAssumption DEF NoDispatch, NoPass, Dispatch, Pass
<1>2. TypeOK
  BY <1>1, BoundAssumption DEF Init, TypeOK
<1>3. PassShape /\ PassQuiet /\ ClosedStaysQuiet
  BY DEF Init, PassShape, PassQuiet, ClosedStaysQuiet, NoPass
<1>4. \A a \in Alerts : DispatchShape(a)
  BY DEF Init, DispatchShape, NoDispatch, Flushed
<1>5. ASSUME NEW e \in Events PROVE DispatchOK(e) /\ PassOK(e) /\ AtRest(e)
  <2>1. dispatch[AlertOf(e)] = NoDispatch /\ e # None
    BY <1>5, EventParts DEF Init
  <2>2. event[e] = "none" /\ sent[e] = 0 /\ pass = NoPass
    BY <1>5 DEF Init
  <2>3. DispatchOK(e)
    BY <2>1, <2>2 DEF DispatchOK, NoDispatch, Marked, Flushed
  <2>4. PassOK(e)
    BY <2>1, <2>2 DEF PassOK, NoPass, Flushed
  <2>5. AtRest(e)
    BY <2>2 DEF AtRest, Times
  <2>. QED  BY <2>3, <2>4, <2>5
<1>. QED  BY <1>2, <1>3, <1>4, <1>5 DEF EscalationInv

---------------------------------------------------------------------------
(* The dispatch of an alert                                                *)

LEMMA DispatchTyped ==
    ASSUME TypeOK, NEW a \in Alerts, NEW d \in Dispatch,
           dispatch' = [dispatch EXCEPT ![a] = d]
    PROVE  dispatch' \in [Alerts -> Dispatch] /\ dispatch'[a] = d
  BY DEF TypeOK

\* What is known of the dispatch of a, and of the event it has.
LEMMA DispatchKnown ==
    ASSUME EscalationInv, NEW a \in Alerts
    PROVE  /\ TypeOK /\ DispatchShape(a)
           /\ \A e \in Events : AlertOf(e) = a => DispatchOK(e) /\ AtRest(e)
  BY DEF EscalationInv

LEMMA RaiseAlertStep ==
    ASSUME EscalationInv, NEW a \in Alerts, RaiseAlert(a)
    PROVE  EscalationInv'
<1>1. PICK d : d = [dispatch[a] EXCEPT !.pc = "begin"]
  OBVIOUS
<1>2. /\ d \in Dispatch
      /\ d.pc = "begin" /\ d.policies = {} /\ d.steps = {} /\ d.event = None
      /\ d.new = {} /\ d.flushed = {}
  BY <1>1, DispatchParts, DispatchKnown DEF RaiseAlert, Dispatch, DispatchShape
<1>3. dispatch' = [dispatch EXCEPT ![a] = d]
  BY <1>1, DispatchKnown DEF RaiseAlert, TypeOK
<1>4. dispatch' \in [Alerts -> Dispatch] /\ dispatch'[a] = d
  BY <1>2, <1>3, DispatchTyped, DispatchKnown
<1>5. TypeOK'
  BY <1>4, DispatchKnown DEF TypeOK, RaiseAlert, config, rows, ghosts
<1>6. alert[a] = "none" /\ alert'[a] = "open"
  BY DispatchKnown DEF TypeOK, RaiseAlert
<1>7. DispatchShape(a)'
  BY <1>2, <1>4, <1>6 DEF DispatchShape, Flushed
<1>8. ASSUME NEW e \in Events, AlertOf(e) = a PROVE DispatchOK(e)' /\ AtRest(e)'
  <2>1. event[e] = "none" /\ sent[e] = 0 /\ e # None
    BY <1>6, <1>8, DispatchKnown, EventParts DEF DispatchOK, ToCome, DispatchShape
  <2>2. event'[e] = "none" /\ sent'[e] = 0 /\ dispatch'[AlertOf(e)] = d
    BY <1>4, <1>8, <2>1 DEF RaiseAlert, rows
  <2>. QED  BY <1>2, <2>1, <2>2 DEF DispatchOK, AtRest, Marked, Flushed, Times, AlertOf
<1>9. \A b \in Alerts \ {a} : dispatch'[b] = dispatch[b] /\ alert'[b] = alert[b]
  BY <1>3, DispatchKnown DEF TypeOK, RaiseAlert
<1>. QED  BY <1>5, <1>6, <1>7, <1>8, <1>9, DispatchMoves DEF RaiseAlert, rows, ghosts

\* Dispatch a becomes d and no row changes; nothing new is to come, and what was in flight
\* still is.
LEMMA DispatchGoesOn ==
    ASSUME EscalationInv, NEW a \in Alerts, NEW d \in Dispatch,
           dispatch' = [dispatch EXCEPT ![a] = d],
           UNCHANGED <<alertVars, config, rows, pass, now, sent, ghosts, aborts>>,
           DispatchShape(a)',
           \A e \in Events : AlertOf(e) = a => DispatchOK(e)',
           \A e \in Events : AlertOf(e) = a =>
              \/ event[e] = "none" /\ sent[e] = 0
              \/ (dispatch[a].event = e => d.event = e) /\ (Marked(dispatch[a], e) => Marked(d, e))
    PROVE  EscalationInv'
<1>1. dispatch' \in [Alerts -> Dispatch] /\ dispatch'[a] = d
  BY DispatchTyped, DispatchKnown
<1>2. TypeOK'
  BY <1>1, DispatchKnown DEF TypeOK, alertVars, config, rows, ghosts
<1>3. ASSUME NEW e \in Events, AlertOf(e) = a PROVE AtRest(e)'
  <2>1. event'[e] = event[e] /\ sent'[e] = sent[e] /\ unmarked' = unmarked
    BY DEF rows, ghosts
  <2>2. CASE event[e] = "none" /\ sent[e] = 0
    BY <2>1, <2>2 DEF AtRest, Times
  <2>3. CASE (dispatch[a].event = e => d.event = e) /\ (Marked(dispatch[a], e) => Marked(d, e))
    <3>1. InFlight(e) => InFlight(e)'
      BY <1>1, <1>3, <2>3 DEF InFlight, Marked, Flushed, AlertOf
    <3>. QED  BY <1>3, <2>1, <3>1, RestKept, DispatchKnown
  <2>. QED  BY <1>3, <2>2, <2>3
<1>4. \A b \in Alerts \ {a} : dispatch'[b] = dispatch[b]
  BY DispatchKnown DEF TypeOK
<1>. QED  BY <1>2, <1>3, <1>4, DispatchMoves DEF alertVars, rows, ghosts

LEMMA BeginDispatchStep ==
    ASSUME EscalationInv, NEW a \in Alerts, BeginDispatch(a)
    PROVE  EscalationInv'
<1>1. PICK d : d = IF ActivePolicies # {}
                   THEN [dispatch[a] EXCEPT !.pc = "steps", !.policies = ActivePolicies,
                                            !.start = now]
                   ELSE [dispatch[a] EXCEPT !.pc = "direct", !.channels = ActiveChannels]
  OBVIOUS
<1>2. dispatch[a].pc = "begin" /\ dispatch' = [dispatch EXCEPT ![a] = d]
  BY <1>1, DispatchKnown DEF BeginDispatch, TypeOK
<1>3. /\ d \in Dispatch
      /\ d.pc \in {"steps", "direct"} /\ d.steps = {} /\ d.event = None
      /\ d.pc = "direct" => d.policies = {}
      /\ d.new = {} /\ d.flushed = {}
  <2>1. now \in 0 .. MaxTime /\ ActivePolicies \subseteq Policies /\ ActiveChannels \subseteq Channels
    BY DispatchKnown DEF TypeOK, ActivePolicies, ActiveChannels
  <2>2. /\ dispatch[a].policies = {} /\ dispatch[a].steps = {} /\ dispatch[a].event = None
        /\ dispatch[a].new = {} /\ dispatch[a].flushed = {}
    BY <1>2, DispatchKnown DEF DispatchShape
  <2>3. dispatch[a] \in Dispatch
    BY DispatchParts, DispatchKnown
  <2>. QED  BY <1>1, <1>2, <2>1, <2>2, <2>3 DEF Dispatch
<1>4. dispatch'[a] = d
  BY <1>2, DispatchKnown DEF TypeOK
<1>5. DispatchShape(a)'
  <2>1. alert'[a] = alert[a]
    BY DEF BeginDispatch, alertVars
  <2>. QED  BY <1>2, <1>3, <1>4, <2>1, DispatchKnown DEF DispatchShape, Flushed
<1>6. ASSUME NEW e \in Events, AlertOf(e) = a
      PROVE  DispatchOK(e)' /\ event[e] = "none" /\ sent[e] = 0
  <2>1. event[e] = "none" /\ sent[e] = 0 /\ e # None
    BY <1>2, <1>6, DispatchKnown, EventParts DEF DispatchOK, ToCome
  <2>2. event'[e] = "none" /\ sent'[e] = 0 /\ dispatch'[AlertOf(e)] = d
    BY <1>4, <1>6, <2>1 DEF BeginDispatch, rows
  <2>. QED  BY <1>3, <2>1, <2>2 DEF DispatchOK, Marked, Flushed, AlertOf
<1>. QED  BY <1>2, <1>3, <1>5, <1>6, DispatchGoesOn DEF BeginDispatch

LEMMA NextPolicyStep ==
    ASSUME EscalationInv, NEW a \in Alerts, NEW p \in Policies, NextPolicy(a, p)
    PROVE  EscalationInv'
<1>1. PICK d : d = [dispatch[a] EXCEPT !.policies = @ \ {p},
                                       !.steps = {s \in step : StepOf[s].policy = p},
                                       !.flushed = Flushed(dispatch[a]), !.new = {}]
  OBVIOUS
<1>2. /\ dispatch[a].pc = "steps" /\ p \in dispatch[a].policies
      /\ dispatch' = [dispatch EXCEPT ![a] = d]
  BY <1>1, DispatchKnown DEF NextPolicy, TypeOK
<1>3. /\ d \in Dispatch
      /\ d.pc = "steps" /\ d.policies = dispatch[a].policies \ {p}
      /\ d.steps = {s \in step : StepOf[s].policy = p} /\ d.event = dispatch[a].event
      /\ Flushed(d) = Flushed(dispatch[a])
  <2>1. step \subseteq Steps /\ dispatch[a] \in Dispatch /\ Flushed(dispatch[a]) \subseteq Mark
    BY DispatchParts, DispatchKnown DEF TypeOK
  <2>2. d.flushed = Flushed(dispatch[a]) /\ d.new = {}
    BY <1>1, <2>1 DEF Dispatch
  <2>. QED  BY <1>1, <1>2, <2>1, <2>2 DEF Dispatch, Flushed
<1>4. dispatch'[a] = d
  BY <1>2, DispatchKnown DEF TypeOK
<1>5. DispatchShape(a)'
  <2>1. alert'[a] = alert[a]
    BY DEF NextPolicy, alertVars
  <2>. QED  BY <1>2, <1>3, <1>4, <2>1, DispatchKnown DEF DispatchShape, AlertOf
<1>6. ASSUME NEW e \in Events, AlertOf(e) = a PROVE DispatchOK(e)'
  <2>1. dispatch[AlertOf(e)] = dispatch[a] /\ dispatch'[AlertOf(e)] = d
    BY <1>4, <1>6
  <2>2. event'[e] = event[e] /\ sent'[e] = sent[e]
    BY DEF NextPolicy, rows
  <2>3. ToCome(e)' => ToCome(e)
    BY <1>2, <1>3, <2>1 DEF ToCome, PolicyOf, AlertOf
  <2>4. DispatchOK(e)
    BY <1>6, DispatchKnown
  <2>. QED  BY <1>2, <1>3, <2>1, <2>2, <2>3, <2>4 DEF DispatchOK, Marked, AlertOf
<1>7. \A e : Marked(dispatch[a], e) => Marked(d, e)
  BY <1>3 DEF Marked
<1>. QED  BY <1>2, <1>3, <1>5, <1>6, <1>7, DispatchGoesOn DEF NextPolicy

LEMMA TakeStepStep ==
    ASSUME EscalationInv, NEW a \in Alerts, NEW s \in Steps, TakeStep(a, s)
    PROVE  EscalationInv'
<1>1. PICK b, e0 : /\ b = [dispatch[a] EXCEPT !.steps = @ \ {s}, !.new = {},
                                              !.flushed = Flushed(dispatch[a])]
                   /\ e0 = <<a, s>>
  OBVIOUS
<1>2. PICK d : /\ dispatch' = [dispatch EXCEPT ![a] = d]
               /\ \/ d = b
                  \/ d = [b EXCEPT !.pc = "send", !.event = e0]
                  \/ d = [b EXCEPT !.new = {[event |-> e0, status |-> "pending"]}]
  BY <1>1 DEF TakeStep
<1>3. dispatch[a].pc = "steps" /\ s \in dispatch[a].steps
  BY DEF TakeStep, IsNext
<1>4. /\ dispatch[a] \in Dispatch /\ Flushed(dispatch[a]) \subseteq Mark
      /\ e0 \in Events /\ AlertOf(e0) = a /\ e0[2] = s /\ PolicyOf(e0) = StepOf[s].policy
      /\ e0 # None
  BY <1>1, DispatchParts, DispatchKnown, StepParts, EventParts
<1>5. /\ b \in Dispatch /\ b.pc = "steps" /\ b.event = None /\ b.new = {}
      /\ b.steps = dispatch[a].steps \ {s} /\ b.policies = dispatch[a].policies
      /\ b.flushed = Flushed(dispatch[a])
  <2>1. dispatch[a].event = None
    BY <1>3, DispatchKnown DEF DispatchShape
  <2>. QED  BY <1>1, <1>3, <1>4, <2>1 DEF Dispatch
<1>6. /\ d \in Dispatch
      /\ d.steps = dispatch[a].steps \ {s} /\ d.policies = dispatch[a].policies
      /\ d.flushed = Flushed(dispatch[a])
      /\ \/ d.pc = "steps" /\ d.event = None /\ d.new = {}
         \/ d.pc = "send" /\ d.event = e0 /\ d.new = {}
         \/ d.pc = "steps" /\ d.event = None /\ d.new = {[event |-> e0, status |-> "pending"]}
  <2>1. [event |-> e0, status |-> "pending"] \in Mark
    BY <1>4 DEF Mark
  <2>2. CASE d = b
    BY <1>5, <2>2
  <2>3. CASE d = [b EXCEPT !.pc = "send", !.event = e0]
    BY <1>4, <1>5, <2>3 DEF Dispatch
  <2>4. CASE d = [b EXCEPT !.new = {[event |-> e0, status |-> "pending"]}]
    BY <1>5, <2>1, <2>4 DEF Dispatch
  <2>. QED  BY <1>2, <2>2, <2>3, <2>4
<1>7. dispatch'[a] = d
  BY <1>2, DispatchKnown DEF TypeOK
<1>8. \A m \in Flushed(d) :
         m \in Flushed(dispatch[a]) \/ (m.event = e0 /\ m.status = "pending" /\ d.pc = "steps")
  BY <1>6 DEF Flushed
<1>9. DispatchShape(a)'
  <2>1. alert'[a] = alert[a]
    BY DEF TakeStep, alertVars
  <2>2. \A m \in Flushed(d) : AlertOf(m.event) = a
    BY <1>4, <1>8, DispatchKnown DEF DispatchShape
  <2>3. \A t \in d.steps : StepOf[t].policy \notin d.policies
    BY <1>6, DispatchKnown DEF DispatchShape
  <2>4. dispatch[a].pc = "none" <=> alert[a] = "none"
    BY DispatchKnown DEF DispatchShape
  <2>. QED  BY <1>3, <1>4, <1>6, <1>7, <2>1, <2>2, <2>3, <2>4 DEF DispatchShape, AlertOf
<1>10. StepOf[s].policy \notin d.policies
  BY <1>3, <1>6, DispatchKnown DEF DispatchShape
<1>11. ASSUME NEW e \in Events, AlertOf(e) = a PROVE DispatchOK(e)'
  <2>1. dispatch[AlertOf(e)] = dispatch[a] /\ dispatch'[AlertOf(e)] = d
    BY <1>7, <1>11
  <2>2. event'[e] = event[e] /\ sent'[e] = sent[e]
    BY DEF TakeStep, rows
  <2>3. e # None /\ e = <<a, e[2]>> /\ PolicyOf(e) = StepOf[e[2]].policy
    BY <1>11, EventParts
  <2>4. DispatchOK(e)
    BY <1>11, DispatchKnown
  <2>5. CASE e # e0
    <3>1. ToCome(e)' => ToCome(e)
      BY <1>6, <2>1, <1>3 DEF ToCome, PolicyOf, AlertOf
    <3>2. \A m \in Flushed(d) : m.event = e => m \in Flushed(dispatch[a])
      BY <1>8, <2>5
    <3>. QED  BY <1>6, <2>1, <2>2, <2>3, <2>4, <2>5, <3>1, <3>2 DEF DispatchOK, Marked, AlertOf
  <2>6. CASE e = e0
    <3>1. /\ event[e] = "none" /\ sent[e] = 0 /\ ~Marked(dispatch[a], e)
      BY <1>3, <1>4, <2>1, <2>4, <2>6 DEF DispatchOK, ToCome
    <3>2. ~ToCome(e)'
      BY <1>4, <1>6, <1>10, <2>1, <2>6 DEF ToCome, PolicyOf, AlertOf
    <3>3. \A m \in Flushed(d) : m.event = e => m.status = "pending" /\ d.pc = "steps"
      BY <1>8, <3>1 DEF Marked
    <3>4. d.event = e => d.pc = "send" /\ ~Marked(d, e)
      BY <1>6, <2>3, <3>3 DEF Marked
    <3>. QED  BY <2>1, <2>2, <3>1, <3>2, <3>3, <3>4 DEF DispatchOK, Times, AlertOf
  <2>. QED  BY <2>5, <2>6
<1>12. ASSUME NEW e \in Events, AlertOf(e) = a
       PROVE  /\ dispatch[a].event = e => d.event = e
              /\ Marked(dispatch[a], e) => Marked(d, e)
  <2>1. dispatch[a].event = None /\ e # None
    BY <1>3, DispatchKnown, EventParts DEF DispatchShape
  <2>. QED  BY <1>6, <2>1 DEF Marked, Flushed
<1>. QED  BY <1>2, <1>6, <1>9, <1>11, <1>12, DispatchGoesOn DEF TakeStep

LEMMA SendStepStep ==
    ASSUME EscalationInv, NEW a \in Alerts, SendStep(a)
    PROVE  EscalationInv'
<1>1. PICK d, e0 : d = [dispatch[a] EXCEPT !.pc = "record"] /\ e0 = dispatch[a].event
  OBVIOUS
<1>2. /\ dispatch[a].pc = "send" /\ dispatch[a] \in Dispatch
      /\ e0 \in Events /\ AlertOf(e0) = a
  BY <1>1, DispatchParts, DispatchKnown DEF SendStep, DispatchShape
<1>3. dispatch' = [dispatch EXCEPT ![a] = d]
  BY <1>1, DispatchKnown DEF SendStep, TypeOK
<1>4. /\ d \in Dispatch /\ d.pc = "record" /\ d.event = e0
      /\ d.policies = dispatch[a].policies /\ d.steps = dispatch[a].steps
      /\ d.new = dispatch[a].new /\ Flushed(d) = Flushed(dispatch[a])
  BY <1>1, <1>2 DEF Dispatch, Flushed
<1>5. dispatch' \in [Alerts -> Dispatch] /\ dispatch'[a] = d
  BY <1>3, <1>4, DispatchTyped, DispatchKnown
<1>6. sent' = [sent EXCEPT ![e0] = sent[e0] + 1] /\ sent \in [Events -> Nat]
  BY <1>1, DispatchKnown DEF SendStep, TypeOK
<1>7. TypeOK'
  <2>1. sent' \in [Events -> Nat]
    BY <1>2, <1>6
  <2>. QED  BY <1>5, <2>1, DispatchKnown DEF TypeOK, SendStep, alertVars, config, rows, ghosts
<1>8. DispatchShape(a)'
  <2>1. alert'[a] = alert[a]
    BY DEF SendStep, alertVars
  <2>. QED  BY <1>2, <1>4, <1>5, <2>1, DispatchKnown DEF DispatchShape, AlertOf
<1>9. ASSUME NEW e \in Events
      PROVE  /\ event'[e] = event[e] /\ unmarked' = unmarked
             /\ e # e0 => sent'[e] = sent[e]
             /\ e = e0 => /\ event[e] = "none" /\ sent'[e] = 1 /\ ~ToCome(e)
                          /\ ~Marked(dispatch[a], e)
  <2>1. CASE e = e0
    <3>1. DispatchOK(e) /\ dispatch[AlertOf(e)] = dispatch[a]
      BY <1>2, <2>1, DispatchKnown
    <3>2. event[e] = "none" /\ sent[e] = 0 /\ ~ToCome(e) /\ ~Marked(dispatch[a], e)
      BY <1>1, <1>2, <2>1, <3>1 DEF DispatchOK
    <3>. QED  BY <1>6, <2>1, <3>2 DEF SendStep, rows, ghosts
  <2>2. CASE e # e0
    BY <1>6, <2>2 DEF SendStep, rows, ghosts
  <2>. QED  BY <2>1, <2>2
<1>10. ASSUME NEW e \in Events, AlertOf(e) = a PROVE DispatchOK(e)' /\ AtRest(e)'
  <2>1. dispatch[AlertOf(e)] = dispatch[a] /\ dispatch'[AlertOf(e)] = d
    BY <1>5, <1>10
  <2>2. ToCome(e)' <=> ToCome(e)
    BY <1>2, <1>4, <2>1 DEF ToCome, PolicyOf, AlertOf
  <2>3. DispatchOK(e) /\ AtRest(e)
    BY <1>10, DispatchKnown
  <2>4. CASE e # e0
    <3>1. DispatchOK(e)'
      BY <1>4, <1>9, <2>1, <2>2, <2>3, <2>4 DEF DispatchOK, Marked, AlertOf
    <3>2. InFlight(e) => InFlight(e)'
      BY <1>1, <1>4, <2>1, <2>4 DEF InFlight, SendStep, Flushed, AlertOf
    <3>. QED  BY <1>9, <2>3, <2>4, <3>1, <3>2, RestKept
  <2>5. CASE e = e0
    <3>1. DispatchOK(e)'
      BY <1>4, <1>9, <2>1, <2>2, <2>5 DEF DispatchOK, Marked, AlertOf
    <3>2. InFlight(e)'
      BY <1>4, <2>1, <2>5 DEF InFlight, AlertOf
    <3>. QED  BY <3>1, <3>2 DEF AtRest
  <2>. QED  BY <2>4, <2>5
<1>11. \A b \in Alerts \ {a} : dispatch'[b] = dispatch[b]
  BY <1>3, DispatchKnown DEF TypeOK
<1>. QED  BY <1>2, <1>7, <1>8, <1>9, <1>10, <1>11, DispatchMoves DEF SendStep, alertVars, ghosts

\* The commit of all marks of a dispatch, after which it has no more than the one of e0,
\* which it has just sent.
LEMMA RecordStepStep ==
    ASSUME EscalationInv, NEW a \in Alerts, RecordStep(a)
    PROVE  EscalationInv'
<1>1. PICK d, e0 : /\ d = [dispatch[a] EXCEPT !.pc = "steps", !.event = None, !.flushed = {},
                             !.new = {[event |-> dispatch[a].event, status |-> "dispatched"]}]
                   /\ e0 = dispatch[a].event
  OBVIOUS
<1>2. /\ dispatch[a].pc = "record" /\ dispatch[a] \in Dispatch /\ dispatch[a].new = {}
      /\ e0 \in Events /\ AlertOf(e0) = a
      /\ Flushed(dispatch[a]) = dispatch[a].flushed /\ dispatch[a].flushed \subseteq Mark
  BY <1>1, DispatchParts, DispatchKnown DEF RecordStep, DispatchShape, Flushed
<1>3. dispatch' = [dispatch EXCEPT ![a] = d]
  BY <1>1, DispatchKnown DEF RecordStep, TypeOK
<1>4. /\ d \in Dispatch /\ d.pc = "steps" /\ d.event = None
      /\ d.policies = dispatch[a].policies /\ d.steps = dispatch[a].steps
      /\ Flushed(d) = {[event |-> e0, status |-> "dispatched"]}
  <2>1. [event |-> e0, status |-> "dispatched"] \in Mark
    BY <1>2 DEF Mark
  <2>2. d.new = {[event |-> e0, status |-> "dispatched"]} /\ d.flushed = {}
    BY <1>1, <1>2 DEF Dispatch
  <2>. QED  BY <1>1, <1>2, <2>1, <2>2 DEF Dispatch, Flushed
<1>5. dispatch' \in [Alerts -> Dispatch] /\ dispatch'[a] = d
  BY <1>3, <1>4, DispatchTyped, DispatchKnown
<1>6. /\ event' \in [Events -> {"none", "pending", "dispatched", "cancelled", "deleted"}]
      /\ \A e \in Events :
            \/ (\A m \in Flushed(dispatch[a]) : m.event # e) /\ event'[e] = event[e]
            \/ \E m \in Flushed(dispatch[a]) : m.event = e /\ event'[e] = m.status
  BY <1>2, Committed, DispatchKnown DEF RecordStep, TypeOK
<1>7. TypeOK'
  <2>1. due' \in [Events -> Nat]
    <3>1. \A e \in Events : dispatch[a].start + StepOf[e[2]].delay \in Nat
      BY DispatchParts, DispatchKnown, EventParts, StepParts
    <3>2. Schedule(a) /\ due \in [Events -> Nat]
      BY DispatchKnown DEF RecordStep, TypeOK
    <3>. QED  BY <3>1, <3>2 DEF Schedule
  <2>. QED  BY <1>5, <1>6, <2>1, DispatchKnown DEF TypeOK, RecordStep, alertVars, config, ghosts
<1>8. DispatchShape(a)'
  <2>1. alert'[a] = alert[a]
    BY DEF RecordStep, alertVars
  <2>2. \A m \in Flushed(d) : AlertOf(m.event) = a
    BY <1>2, <1>4
  <2>. QED  BY <1>2, <1>4, <1>5, <2>1, <2>2, DispatchKnown DEF DispatchShape, AlertOf
<1>9. ASSUME NEW e \in Events, AlertOf(e) = a PROVE DispatchOK(e)' /\ AtRest(e)'
  <2>1. /\ dispatch[AlertOf(e)] = dispatch[a] /\ dispatch'[AlertOf(e)] = d
        /\ sent'[e] = sent[e] /\ unmarked' = unmarked /\ e # None
    BY <1>5, <1>9, EventParts DEF RecordStep, ghosts
  <2>2. ToCome(e)' <=> ToCome(e)
    BY <1>2, <1>4, <2>1 DEF ToCome, PolicyOf, AlertOf
  <2>3. DispatchOK(e) /\ AtRest(e)
    BY <1>9, DispatchKnown
  <2>4. CASE e = e0
    <3>1. event[e] = "none" /\ sent[e] = 1 /\ ~Marked(dispatch[a], e) /\ ~ToCome(e)
      BY <1>1, <1>2, <2>1, <2>3, <2>4 DEF DispatchOK
    <3>2. event'[e] = "none"
      BY <1>6, <3>1 DEF Marked
    <3>3. \A m \in Flushed(d) : m.status = "dispatched"
      BY <1>4
    <3>4. DispatchOK(e)'
      BY <1>4, <2>1, <2>2, <3>1, <3>2, <3>3 DEF DispatchOK, Times, AlertOf
    <3>5. Marked(d, e)
      <4>1. PICK m : m = [event |-> e0, status |-> "dispatched"]
        OBVIOUS
      <4>. QED  BY <1>4, <2>4, <4>1 DEF Marked
    <3>6. InFlight(e)'
      BY <2>1, <3>5 DEF InFlight, Marked, Flushed, AlertOf
    <3>. QED  BY <3>4, <3>6 DEF AtRest
  <2>5. CASE e # e0 /\ \E m \in Flushed(dispatch[a]) : m.event = e /\ event'[e] = m.status
    <3>1. PICK m \in Flushed(dispatch[a]) : m.event = e /\ event'[e] = m.status
      BY <2>5
    <3>2. sent[e] = Times(m.status) /\ ~ToCome(e)
      BY <2>1, <2>3, <3>1 DEF DispatchOK, Marked
    <3>3. DispatchOK(e)'
      BY <1>4, <2>1, <2>2, <2>5, <3>2 DEF DispatchOK, AlertOf
    <3>. QED  BY <2>1, <3>1, <3>2, <3>3 DEF AtRest
  <2>6. CASE e # e0 /\ ~Marked(dispatch[a], e) /\ event'[e] = event[e]
    <3>1. ~Marked(d, e)
      BY <1>4, <2>6 DEF Marked
    <3>2. DispatchOK(e)'
      BY <1>4, <2>1, <2>2, <2>3, <2>6, <3>1 DEF DispatchOK, Marked, AlertOf
    <3>3. InFlight(e) => InFlight(e)'
      BY <1>1, <2>1, <2>6 DEF InFlight, Marked, RecordStep, Flushed, AlertOf
    <3>. QED  BY <2>1, <2>3, <2>6, <3>2, <3>3, RestKept
  <2>. QED  BY <1>6, <2>4, <2>5, <2>6 DEF Marked
<1>10. ASSUME NEW e \in Events
       PROVE  \/ event'[e] = event[e] /\ sent'[e] = sent[e]
              \/ AlertOf(e) = a /\ event[e] = "none"
  <2>1. sent' = sent
    BY DEF RecordStep
  <2>2. CASE \E m \in Flushed(dispatch[a]) : m.event = e
    <3>1. AlertOf(e) = a
      BY <2>2, DispatchKnown DEF DispatchShape
    <3>. QED  BY <2>2, <3>1, DispatchKnown DEF DispatchOK
  <2>. QED  BY <1>6, <2>1, <2>2
<1>11. \A b \in Alerts \ {a} : dispatch'[b] = dispatch[b]
  BY <1>3, DispatchKnown DEF TypeOK
<1>. QED  BY <1>7, <1>8, <1>9, <1>10, <1>11, DispatchMoves DEF RecordStep, alertVars, ghosts

\* A dispatch that is over has nothing any more.
LEMMA Over ==
    /\ [NoDispatch EXCEPT !.pc = "over"] \in Dispatch
    /\ [NoDispatch EXCEPT !.pc = "over"].pc = "over"
    /\ [NoDispatch EXCEPT !.pc = "over"].policies = {}
    /\ [NoDispatch EXCEPT !.pc = "over"].steps = {}
    /\ [NoDispatch EXCEPT !.pc = "over"].event = None
    /\ [NoDispatch EXCEPT !.pc = "over"].new = {}
    /\ [NoDispatch EXCEPT !.pc = "over"].flushed = {}
  BY BoundAssumption DEF NoDispatch, Dispatch

LEMMA OverIsFine ==
    ASSUME NEW a \in Alerts, NEW d, d = [NoDispatch EXCEPT !.pc = "over"],
           dispatch'[a] = d, alert'[a] # "none"
    PROVE  /\ DispatchShape(a)'
           /\ \A e \in Events : AlertOf(e) = a => DispatchOK(e)'
<1>1. /\ d.pc = "over" /\ d.policies = {} /\ d.steps = {} /\ d.event = None
      /\ d.new = {} /\ d.flushed = {}
  BY Over
<1>2. DispatchShape(a)'
  BY <1>1 DEF DispatchShape, Flushed
<1>3. ASSUME NEW e \in Events, AlertOf(e) = a PROVE DispatchOK(e)'
  <2>1. e # None /\ dispatch'[AlertOf(e)] = d
    BY <1>3, EventParts
  <2>. QED  BY <1>1, <2>1 DEF DispatchOK, ToCome, Marked, Flushed, AlertOf, PolicyOf
<1>. QED  BY <1>2, <1>3

LEMMA EndDispatchStep ==
    ASSUME EscalationInv, NEW a \in Alerts, EndDispatch(a)
    PROVE  EscalationInv'
<1>1. PICK d : d = [NoDispatch EXCEPT !.pc = "over"]
  OBVIOUS
<1>2. dispatch' = [dispatch EXCEPT ![a] = d] /\ d \in Dispatch
  BY <1>1, Over DEF EndDispatch
<1>3. /\ dispatch[a].pc = "steps" /\ dispatch[a].event = None /\ alert[a] # "none"
      /\ Flushed(dispatch[a]) \subseteq Mark
  BY DispatchParts, DispatchKnown DEF EndDispatch, DispatchShape
<1>4. dispatch' \in [Alerts -> Dispatch] /\ dispatch'[a] = d
  BY <1>2, DispatchTyped, DispatchKnown
<1>5. /\ event' \in [Events -> {"none", "pending", "dispatched", "cancelled", "deleted"}]
      /\ \A e \in Events :
            \/ (\A m \in Flushed(dispatch[a]) : m.event # e) /\ event'[e] = event[e]
            \/ \E m \in Flushed(dispatch[a]) : m.event = e /\ event'[e] = m.status
  BY <1>3, Committed, DispatchKnown DEF EndDispatch, TypeOK
<1>6. TypeOK'
  <2>1. due' \in [Events -> Nat]
    <3>1. \A e \in Events : dispatch[a].start + StepOf[e[2]].delay \in Nat
      BY DispatchParts, DispatchKnown, EventParts, StepParts
    <3>2. Schedule(a) /\ due \in [Events -> Nat]
      BY DispatchKnown DEF EndDispatch, TypeOK
    <3>. QED  BY <3>1, <3>2 DEF Schedule
  <2>. QED  BY <1>4, <1>5, <2>1, DispatchKnown DEF TypeOK, EndDispatch, alertVars, config, ghosts
<1>7. DispatchShape(a)' /\ \A e \in Events : AlertOf(e) = a => DispatchOK(e)'
  BY <1>1, <1>3, <1>4, OverIsFine DEF EndDispatch, alertVars
<1>8. ASSUME NEW e \in Events, AlertOf(e) = a PROVE AtRest(e)'
  <2>1. /\ dispatch[AlertOf(e)] = dispatch[a] /\ e # None
        /\ sent'[e] = sent[e] /\ unmarked' = unmarked
    BY <1>8, EventParts DEF EndDispatch, ghosts
  <2>2. CASE \E m \in Flushed(dispatch[a]) : m.event = e /\ event'[e] = m.status
    BY <1>8, <2>1, <2>2, DispatchKnown DEF DispatchOK, AtRest
  <2>3. CASE ~Marked(dispatch[a], e) /\ event'[e] = event[e]
    <3>1. InFlight(e) => InFlight(e)'
      BY <1>3, <2>1, <2>3 DEF InFlight, Marked, EndDispatch, Flushed
    <3>. QED  BY <1>8, <2>1, <2>3, <3>1, RestKept, DispatchKnown
  <2>. QED  BY <1>5, <2>2, <2>3 DEF Marked
<1>9. ASSUME NEW e \in Events
      PROVE  \/ event'[e] = event[e] /\ sent'[e] = sent[e]
             \/ AlertOf(e) = a /\ event[e] = "none"
  <2>1. sent' = sent
    BY DEF EndDispatch
  <2>2. CASE \E m \in Flushed(dispatch[a]) : m.event = e
    <3>1. AlertOf(e) = a
      BY <2>2, DispatchKnown DEF DispatchShape
    <3>. QED  BY <2>2, <3>1, DispatchKnown DEF DispatchOK
  <2>. QED  BY <1>5, <2>1, <2>2
<1>10. \A b \in Alerts \ {a} : dispatch'[b] = dispatch[b]
  BY <1>2, DispatchKnown DEF TypeOK
<1>. QED  BY <1>6, <1>7, <1>8, <1>9, <1>10, DispatchMoves DEF EndDispatch, alertVars, ghosts

LEMMA DirectSteps ==
    ASSUME EscalationInv, NEW a \in Alerts,
           EndDirect(a) \/ \E c \in Channels : SendDirect(a, c)
    PROVE  EscalationInv'
<1>1. dispatch[a].pc = "direct" /\ dispatch[a] \in Dispatch /\ alert[a] # "none"
  BY DispatchParts, DispatchKnown DEF EndDirect, SendDirect, DispatchShape
<1>2. ASSUME NEW e \in Events, AlertOf(e) = a PROVE event[e] = "none" /\ sent[e] = 0
  BY <1>1, <1>2, DispatchKnown DEF DispatchOK, ToCome
<1>3. CASE EndDirect(a)
  <2>1. PICK d : d = [NoDispatch EXCEPT !.pc = "over"]
    OBVIOUS
  <2>2. d \in Dispatch /\ dispatch' = [dispatch EXCEPT ![a] = d] /\ dispatch'[a] = d
    BY <1>3, <2>1, Over, DispatchKnown DEF EndDirect, TypeOK
  <2>3. DispatchShape(a)' /\ \A e \in Events : AlertOf(e) = a => DispatchOK(e)'
    BY <1>1, <1>3, <2>1, <2>2, OverIsFine DEF EndDirect, alertVars
  <2>. QED  BY <1>2, <1>3, <2>2, <2>3, DispatchGoesOn DEF EndDirect
<1>4. ASSUME NEW c \in Channels, SendDirect(a, c) PROVE EscalationInv'
  <2>1. PICK d : d = [dispatch[a] EXCEPT !.channels = @ \ {c}]
    OBVIOUS
  <2>2. dispatch' = [dispatch EXCEPT ![a] = d] /\ dispatch'[a] = d
    BY <1>4, <2>1, DispatchKnown DEF SendDirect, TypeOK
  <2>3. /\ d \in Dispatch /\ d.pc = "direct" /\ d.event = dispatch[a].event
        /\ d.policies = dispatch[a].policies /\ d.steps = dispatch[a].steps
        /\ d.new = dispatch[a].new /\ d.flushed = dispatch[a].flushed
    BY <1>1, <2>1, DispatchParts, DispatchKnown DEF Dispatch
  <2>4. DispatchShape(a)'
    <3>1. alert'[a] = alert[a]
      BY <1>4 DEF SendDirect, alertVars
    <3>. QED  BY <1>1, <2>2, <2>3, <3>1, DispatchKnown DEF DispatchShape, Flushed
  <2>5. ASSUME NEW e \in Events, AlertOf(e) = a PROVE DispatchOK(e)'
    <3>1. /\ dispatch[AlertOf(e)] = dispatch[a] /\ dispatch'[AlertOf(e)] = d
          /\ event'[e] = event[e] /\ sent'[e] = sent[e] /\ DispatchOK(e)
      BY <1>4, <2>2, <2>5, DispatchKnown DEF SendDirect, rows
    <3>. QED  BY <1>1, <2>3, <3>1 DEF DispatchOK, ToCome, Marked, Flushed, AlertOf, PolicyOf
  <2>. QED  BY <1>2, <1>4, <2>2, <2>3, <2>4, <2>5, DispatchGoesOn DEF SendDirect
<1>. QED  BY <1>3, <1>4

LEMMA SentKnown ==
    ASSUME NEW session, NEW e
    PROVE  e \in SentUnmarked(session) <=>
              \/ \E m \in Flushed(session) : m.event = e /\ m.status = "dispatched"
              \/ e = session.event /\ session.pc = "record"
  BY DEF SentUnmarked

\* The dispatch dies or is rejected.
LEMMA EndsStep ==
    ASSUME EscalationInv, NEW a \in Alerts, DispatchRejected(a) \/ DispatchDies(a)
    PROVE  EscalationInv'
<1>1. PICK d : d = [NoDispatch EXCEPT !.pc = "over"]
  OBVIOUS
<1>2. /\ dispatch' = [dispatch EXCEPT ![a] = d] /\ d \in Dispatch
      /\ unmarked' = unmarked \cup SentUnmarked(dispatch[a])
      /\ UNCHANGED <<alertVars, config, rows, pass, now, sent, openBefore, raised>>
      /\ aborts' \in 0 .. MaxAborts
  <2>1. aborts \in 0 .. MaxAborts
    BY DispatchKnown DEF TypeOK
  <2>2. Ends(a) /\ raised' = raised /\ aborts' \in 0 .. MaxAborts
    BY <2>1, BoundAssumption DEF DispatchRejected, DispatchDies
  <2>. QED  BY <1>1, <2>2, Over DEF Ends
<1>3. dispatch' \in [Alerts -> Dispatch] /\ dispatch'[a] = d
  BY <1>2, DispatchTyped, DispatchKnown
<1>4. TypeOK'
  <2>1. SentUnmarked(dispatch[a]) \subseteq Events
    <3>. SUFFICES ASSUME NEW e \in SentUnmarked(dispatch[a]) PROVE e \in Events
      OBVIOUS
    <3>1. CASE e = dispatch[a].event /\ dispatch[a].pc = "record"
      BY <3>1, DispatchKnown DEF DispatchShape
    <3>2. CASE \E m \in Flushed(dispatch[a]) : m.event = e
      BY <3>2, DispatchParts, DispatchKnown, MarkParts
    <3>. QED  BY <3>1, <3>2, SentKnown
  <2>2. unmarked' \subseteq Events
    BY <1>2, <2>1, DispatchKnown DEF TypeOK
  <2>. QED  BY <1>2, <1>3, <2>2, DispatchKnown DEF TypeOK, alertVars, config, rows
<1>5. alert[a] # "none" /\ alert' = alert
  BY <1>2, DispatchKnown DEF DispatchRejected, DispatchDies, DispatchShape, alertVars
<1>6. DispatchShape(a)' /\ \A e \in Events : AlertOf(e) = a => DispatchOK(e)'
  BY <1>1, <1>3, <1>5, OverIsFine
<1>7. ASSUME NEW e \in Events, AlertOf(e) = a PROVE AtRest(e)'
  <2>1. /\ dispatch[AlertOf(e)] = dispatch[a] /\ DispatchOK(e) /\ AtRest(e)
        /\ event'[e] = event[e] /\ sent'[e] = sent[e] /\ unmarked \subseteq unmarked'
    BY <1>2, <1>7, DispatchKnown DEF rows
  <2>2. CASE dispatch[a].event = e
    BY <1>2, <2>1, <2>2, SentKnown DEF DispatchOK, AtRest, Times
  <2>3. CASE \E m \in Flushed(dispatch[a]) : m.event = e
    BY <1>2, <2>1, <2>3, SentKnown DEF DispatchOK, AtRest, Times
  <2>4. CASE dispatch[a].event # e /\ \A m \in Flushed(dispatch[a]) : m.event # e
    <3>1. InFlight(e) => InFlight(e)'
      BY <1>2, <2>1, <2>4 DEF InFlight, Flushed
    <3>. QED  BY <2>1, <3>1, RestKept
  <2>. QED  BY <2>2, <2>3, <2>4
<1>8. \A b \in Alerts \ {a} : dispatch'[b] = dispatch[b]
  BY <1>2, DispatchKnown DEF TypeOK
<1>. QED  BY <1>2, <1>4, <1>5, <1>6, <1>7, <1>8, DispatchMoves DEF alertVars, rows

---------------------------------------------------------------------------
(* The pass of the escalation checker                                      *)

\* What is known of the pass, of an event, and of the alert of an event with a row.
LEMMA PassKnown ==
    ASSUME EscalationInv
    PROVE  /\ TypeOK /\ PassShape /\ PassQuiet /\ ClosedStaysQuiet
           /\ \A e \in Events :
                 /\ PassOK(e) /\ AtRest(e)
                 /\ event[e] # "none" =>
                       /\ alert[AlertOf(e)] # "none"
                       /\ dispatch[AlertOf(e)].event # e
                       /\ \A m \in Flushed(dispatch[AlertOf(e)]) : m.event # e
<1>1. ASSUME NEW e \in Events, event[e] # "none"
      PROVE  /\ alert[AlertOf(e)] # "none"
             /\ dispatch[AlertOf(e)].event # e
             /\ \A m \in Flushed(dispatch[AlertOf(e)]) : m.event # e
  <2>1. DispatchOK(e) /\ DispatchShape(AlertOf(e))
    BY EventParts DEF EscalationInv
  <2>. QED  BY <1>1, <2>1 DEF DispatchOK, DispatchShape, ToCome
<1>. QED  BY <1>1 DEF EscalationInv

\* An event that the pass does not have, and the pass afterwards does not have, is kept.
LEMMA UnseenKept ==
    ASSUME NEW e \in Events, AtRest(e), dispatch' = dispatch, unmarked \subseteq unmarked',
           event'[e] = event[e], sent'[e] = sent[e],
           pass.event # e /\ ~Marked(pass, e)
    PROVE  AtRest(e)'
<1>1. InFlight(e) => InFlight(e)'
  BY DEF InFlight, Marked, Flushed, AlertOf
<1>. QED  BY <1>1, RestKept

LEMMA BeginPassStep ==
    ASSUME EscalationInv, BeginPass
    PROVE  EscalationInv'
<1>1. /\ pass = NoPass /\ pass' = [NoPass EXCEPT !.pc = "take", !.events = DueEvents]
      /\ UNCHANGED <<alertVars, config, rows, dispatch, now, sent, unmarked, raised, aborts>>
  BY PassKnown DEF BeginPass, PassShape
<1>2. DueEvents \subseteq Events
  BY DEF DueEvents
<1>3. /\ pass' \in Pass
      /\ pass'.pc = "take" /\ pass'.events = DueEvents /\ pass'.event = None
      /\ pass'.cached = None /\ pass'.new = {} /\ pass'.flushed = {}
  BY <1>1, <1>2 DEF NoPass, Pass
<1>4. pass.event = None /\ pass.new = {} /\ pass.flushed = {}
  BY <1>1 DEF NoPass
<1>5. TypeOK'
  <2>1. openBefore' \subseteq Alerts
    BY DEF BeginPass
  <2>. QED  BY <1>1, <1>3, <2>1, PassKnown DEF TypeOK, alertVars, config, rows
<1>6. PassShape' /\ ClosedStaysQuiet'
  BY <1>3 DEF PassShape, ClosedStaysQuiet
<1>7. PassQuiet'
  <2>1. \A r \in requests' : alert'[r.alert] # "none"
    BY <1>1, PassKnown DEF PassQuiet, alertVars
  <2>2. ASSUME NEW e \in DueEvents
        PROVE  alert'[AlertOf(e)] \in Closed \/ AlertOf(e) \in openBefore'
    <3>1. e \in Events /\ event[e] = "pending" /\ AlertOf(e) \in Alerts
      BY <2>2, EventParts DEF DueEvents
    <3>2. alert[AlertOf(e)] \in Closed \cup {"open"} /\ alert' = alert
      BY <1>1, <3>1, PassKnown DEF TypeOK, alertVars
    <3>. QED  BY <3>1, <3>2 DEF BeginPass
  <2>. QED  BY <1>3, <2>1, <2>2 DEF PassQuiet, AlertOf
<1>8. ASSUME NEW e \in Events PROVE PassOK(e)' /\ AtRest(e)'
  <2>1. /\ event'[e] = event[e] /\ sent'[e] = sent[e] /\ unmarked' = unmarked
        /\ AtRest(e) /\ e # None
    BY <1>1, PassKnown, EventParts DEF rows
  <2>2. AtRest(e)'
    BY <1>1, <1>4, <2>1, UnseenKept DEF Marked, Flushed
  <2>3. CASE e \in DueEvents
    <3>1. event[e] = "pending" /\ ~InFlight(e)
      BY <1>4, <2>1, <2>3, PassKnown DEF DueEvents, InFlight, Flushed
    <3>2. e \notin unmarked => sent[e] = 0
      BY <2>1, <3>1 DEF AtRest, Times
    <3>. QED  BY <1>3, <2>1, <2>2, <3>1, <3>2 DEF PassOK, Marked, Flushed
  <2>4. CASE e \notin DueEvents
    BY <1>3, <2>1, <2>2, <2>4 DEF PassOK, Flushed
  <2>. QED  BY <2>3, <2>4
<1>. QED  BY <1>1, <1>5, <1>6, <1>7, <1>8, PassMoves DEF alertVars, rows

LEMMA TakeEventStep ==
    ASSUME EscalationInv, NEW e0 \in Events, TakeEvent(e0)
    PROVE  EscalationInv'
<1>1. PICK seen, p : /\ seen = Seen(AlertOf(e0))
                     /\ p = [pass EXCEPT !.events = @ \ {e0}, !.cached = AlertOf(e0), !.view = seen,
                                         !.flushed = Flushed(pass), !.new = {}]
  OBVIOUS
<1>2. /\ \/ pass' = [p EXCEPT !.new = {[event |-> e0, status |-> "cancelled"]}]
         \/ seen \notin Closed /\ pass' = [p EXCEPT !.pc = "send", !.event = e0]
      /\ pass.pc = "take" /\ e0 \in pass.events /\ Updatable
      /\ UNCHANGED <<alertVars, config, rows, dispatch, now, sent, ghosts, aborts>>
  BY <1>1 DEF TakeEvent
<1>3. /\ pass \in Pass /\ Flushed(pass) \subseteq Mark /\ pass.event = None
      /\ e0 # None /\ AlertOf(e0) \in Alerts
      /\ [event |-> e0, status |-> "cancelled"] \in Mark
  BY <1>2, PassParts, PassKnown, EventParts DEF PassShape, Mark
<1>4. /\ seen \in Closed \cup {"none", "open"}
      /\ seen \in Closed \/ AlertOf(e0) \in openBefore
  <2>1. alert[AlertOf(e0)] \in Closed \cup {"none", "open"}
    BY <1>3, PassKnown DEF TypeOK
  <2>2. pass.view \in Closed \cup {"none", "open"}
    BY <1>3 DEF Pass
  <2>3. alert[AlertOf(e0)] \in Closed \/ AlertOf(e0) \in openBefore
    BY <1>2, PassKnown DEF PassQuiet
  <2>4. pass.cached = AlertOf(e0) => pass.view \in Closed \/ AlertOf(e0) \in openBefore
    BY <1>3, PassKnown, NoneAssumption DEF PassQuiet
  <2>. QED  BY <1>1, <2>1, <2>2, <2>3, <2>4 DEF Seen
<1>5. /\ p \in Pass /\ p.pc = "take" /\ p.events = pass.events \ {e0} /\ p.event = None
      /\ p.cached = AlertOf(e0) /\ p.view = seen
      /\ p.flushed = Flushed(pass) /\ p.new = {}
  BY <1>1, <1>2, <1>3, <1>4 DEF Pass
<1>6. /\ pass' \in Pass /\ pass'.events = pass.events \ {e0}
      /\ pass'.cached = AlertOf(e0) /\ pass'.view = seen /\ pass'.flushed = Flushed(pass)
      /\ \/ /\ pass'.pc = "take" /\ pass'.event = None
            /\ pass'.new = {[event |-> e0, status |-> "cancelled"]}
         \/ /\ pass'.pc = "send" /\ pass'.event = e0 /\ pass'.new = {}
            /\ seen \notin Closed
  <2>1. CASE pass' = [p EXCEPT !.new = {[event |-> e0, status |-> "cancelled"]}]
    BY <1>3, <1>5, <2>1 DEF Pass
  <2>2. CASE seen \notin Closed /\ pass' = [p EXCEPT !.pc = "send", !.event = e0]
    BY <1>3, <1>5, <2>2 DEF Pass
  <2>. QED  BY <1>2, <2>1, <2>2
<1>7. TypeOK'
  BY <1>2, <1>6, PassKnown DEF TypeOK, alertVars, config, rows, ghosts
<1>8. PassShape' /\ ClosedStaysQuiet'
  BY <1>2, <1>4, <1>6 DEF PassShape, ClosedStaysQuiet, ghosts, AlertOf
<1>9. PassQuiet'
  <2>1. alert' = alert /\ requests' = requests /\ openBefore' = openBefore
    BY <1>2 DEF alertVars, ghosts
  <2>. QED  BY <1>4, <1>6, <2>1, PassKnown DEF PassQuiet, AlertOf
<1>10. ASSUME NEW e \in Events PROVE PassOK(e)' /\ AtRest(e)'
  <2>1. /\ event'[e] = event[e] /\ sent'[e] = sent[e] /\ unmarked' = unmarked
        /\ PassOK(e) /\ AtRest(e) /\ e # None
    BY <1>2, PassKnown, EventParts DEF rows, ghosts
  <2>2. Updatable
    BY <1>2
  <2>3. CASE e = e0
    <3>1. /\ event[e] \in {"pending", "deleted"} /\ (e \notin unmarked => sent[e] = 0)
          /\ \A m \in Flushed(pass) : m.event # e
      BY <1>2, <2>1, <2>3 DEF PassOK, Marked
    <3>2. AtRest(e)'
      BY <2>1, <3>1 DEF AtRest, Times
    <3>3. e \notin pass'.events /\ \A m \in pass'.flushed : m.event # e
      BY <1>6, <2>3, <3>1
    <3>4. CASE pass'.event = e /\ pass'.new = {} /\ pass'.pc = "send"
      BY <2>1, <3>1, <3>2, <3>3, <3>4 DEF PassOK, Marked, Flushed
    <3>5. CASE pass'.event = None /\ pass'.new = {[event |-> e0, status |-> "cancelled"]}
      <4>1. \A m \in Flushed(pass)' : m.event = e => m.status = "cancelled" /\ m \notin pass'.flushed
        BY <3>3, <3>5 DEF Flushed
      <4>. QED  BY <2>1, <3>1, <3>2, <3>3, <3>5, <4>1 DEF PassOK, Times
    <3>. QED  BY <1>6, <2>3, <3>4, <3>5
  <2>4. CASE e # e0
    <3>1. \A m \in Flushed(pass)' : m.event = e => m \in Flushed(pass)
      BY <1>6, <2>4 DEF Flushed
    <3>2. \A m \in Flushed(pass) : m.event = e => event[e] = "pending"
      BY <2>1, <2>2 DEF PassOK, Updatable, Flushed
    <3>3. PassOK(e)'
      <4>1. pass'.event # e /\ pass'.events \subseteq pass.events
        BY <1>6, <2>1, <2>4
      <4>2. e \in pass'.events => ~Marked(pass, e) /\ ~Marked(pass, e)'
        BY <2>1, <3>1, <4>1 DEF PassOK, Marked
      <4>3. e \in pass'.events =>
               event[e] \in {"pending", "deleted"} /\ (e \notin unmarked => sent[e] = 0)
        BY <2>1, <4>1 DEF PassOK
      <4>. QED  BY <2>1, <3>1, <3>2, <4>1, <4>2, <4>3 DEF PassOK
    <3>4. InFlight(e) => InFlight(e)'
      <4>1. Flushed(pass) \subseteq Flushed(pass)'
        BY <1>6 DEF Flushed
      <4>. QED  BY <1>2, <1>3, <2>1, <4>1 DEF InFlight, AlertOf, Flushed
    <3>. QED  BY <2>1, <3>3, <3>4, RestKept
  <2>. QED  BY <2>3, <2>4
<1>. QED  BY <1>2, <1>7, <1>8, <1>9, <1>10, PassMoves DEF alertVars, rows

\* The event being sent, and the pass that sends it.
LEMMA Sending ==
    ASSUME EscalationInv, pass.pc \in {"send", "record"}
    PROVE  /\ pass \in Pass /\ pass.new = {} /\ Flushed(pass) = pass.flushed
           /\ pass.event \in Events /\ pass.flushed \subseteq Mark
           /\ ~Marked(pass, pass.event) /\ pass.event \notin pass.events
           /\ event[pass.event] \in {"pending", "deleted"}
<1>1. pass.event \in Events /\ pass.new = {}
  BY PassKnown DEF PassShape
<1>2. PassOK(pass.event)
  BY <1>1, PassKnown
<1>. QED  BY <1>1, <1>2, PassParts, PassKnown DEF PassOK, Flushed

LEMMA SendEventStep ==
    ASSUME EscalationInv, SendEvent
    PROVE  EscalationInv'
<1>1. PICK e0 : e0 = pass.event
  OBVIOUS
<1>2. /\ pass.pc = "send" /\ pass' = [pass EXCEPT !.pc = "record"]
      /\ sent' = [sent EXCEPT ![e0] = @ + 1] /\ sent \in [Events -> Nat]
      /\ UNCHANGED <<alertVars, config, rows, dispatch, now, ghosts, aborts>>
  BY <1>1, PassKnown DEF SendEvent, TypeOK
<1>3. /\ pass \in Pass /\ pass.new = {} /\ e0 \in Events
      /\ event[e0] \in {"pending", "deleted"}
  BY <1>1, <1>2, Sending
<1>4. /\ pass' \in Pass /\ pass'.pc = "record" /\ pass'.event = e0
      /\ pass'.events = pass.events /\ pass'.new = {} /\ pass'.flushed = pass.flushed
      /\ pass'.cached = pass.cached /\ pass'.view = pass.view
  BY <1>1, <1>2, <1>3 DEF Pass
<1>5. TypeOK'
  <2>1. sent' \in [Events -> Nat]
    BY <1>2, <1>3
  <2>. QED  BY <1>2, <1>4, <2>1, PassKnown DEF TypeOK, alertVars, config, rows, ghosts
<1>6. PassShape' /\ ClosedStaysQuiet' /\ PassQuiet'
  <2>1. PassShape'
    BY <1>3, <1>4 DEF PassShape
  <2>2. ClosedStaysQuiet'
    BY <1>1, <1>2, <1>4, PassKnown DEF ClosedStaysQuiet, ghosts, AlertOf
  <2>3. PassQuiet'
    BY <1>2, <1>4, PassKnown DEF PassQuiet, alertVars, ghosts, AlertOf
  <2>. QED  BY <2>1, <2>2, <2>3
<1>7. ASSUME NEW e \in Events PROVE PassOK(e)' /\ AtRest(e)'
  <2>1. /\ event'[e] = event[e] /\ unmarked' = unmarked /\ PassOK(e) /\ AtRest(e)
        /\ e # e0 => sent'[e] = sent[e]
        /\ e = e0 => sent'[e] = sent[e] + 1
    BY <1>2, PassKnown DEF rows, ghosts
  <2>2. PassOK(e)'
    BY <1>1, <1>2, <1>3, <1>4, <2>1 DEF PassOK, Marked, Flushed
  <2>3. CASE e = e0
    <3>1. InFlight(e)'
      BY <1>4, <2>3 DEF InFlight
    <3>. QED  BY <2>2, <3>1 DEF AtRest
  <2>4. CASE e # e0
    <3>1. InFlight(e) => InFlight(e)'
      BY <1>1, <1>2, <1>3, <1>4, <2>4 DEF InFlight, AlertOf, Flushed
    <3>. QED  BY <2>1, <2>2, <2>4, <3>1, RestKept
  <2>. QED  BY <2>3, <2>4
<1>8. \A e \in Events : \/ event'[e] = event[e] /\ sent'[e] = sent[e]
                        \/ event[e] # "none"
  BY <1>2, <1>3 DEF rows
<1>. QED  BY <1>2, <1>5, <1>6, <1>7, <1>8, PassMoves DEF alertVars

LEMMA SendRaisesStep ==
    ASSUME EscalationInv, SendRaises
    PROVE  EscalationInv'
<1>1. PICK e0, m0 : e0 = pass.event /\ m0 = [event |-> e0, status |-> "cancelled"]
  OBVIOUS
<1>2. /\ pass.pc = "send" /\ raised' = raised \cup {e0}
      /\ pass' = [pass EXCEPT !.pc = "take", !.event = None, !.new = {m0}]
      /\ UNCHANGED <<alertVars, config, rows, dispatch, now, sent, openBefore, unmarked, aborts>>
  BY <1>1 DEF SendRaises
<1>3. /\ pass \in Pass /\ Flushed(pass) = pass.flushed /\ e0 \in Events
      /\ ~Marked(pass, e0) /\ e0 \notin pass.events
      /\ event[e0] \in {"pending", "deleted"}
      /\ m0 \in Mark /\ m0.event = e0 /\ m0.status = "cancelled"
  BY <1>1, <1>2, Sending DEF Mark
<1>4. /\ pass' \in Pass /\ pass'.pc = "take" /\ pass'.event = None
      /\ pass'.events = pass.events /\ pass'.new = {m0} /\ pass'.flushed = pass.flushed
      /\ pass'.cached = pass.cached /\ pass'.view = pass.view
  BY <1>2, <1>3 DEF Pass
<1>5. TypeOK'
  <2>1. raised' \subseteq Events
    BY <1>2, <1>3, PassKnown DEF TypeOK
  <2>. QED  BY <1>2, <1>4, <2>1, PassKnown DEF TypeOK, alertVars, config, rows
<1>6. PassShape' /\ ClosedStaysQuiet'
  BY <1>4 DEF PassShape, ClosedStaysQuiet
<1>7. PassQuiet'
  BY <1>2, <1>4, PassKnown DEF PassQuiet, alertVars, AlertOf
<1>8. ASSUME NEW e \in Events PROVE PassOK(e)' /\ AtRest(e)'
  <2>1. /\ event'[e] = event[e] /\ sent'[e] = sent[e] /\ unmarked' = unmarked
        /\ PassOK(e) /\ AtRest(e) /\ e # None
    BY <1>2, PassKnown, EventParts DEF rows
  <2>2. \A m \in Flushed(pass)' : m = m0 \/ m \in pass.flushed
    BY <1>4 DEF Flushed
  <2>3. CASE e = e0
    <3>1. e \notin unmarked => sent[e] = 0
      BY <1>1, <1>2, <2>1, <2>3 DEF PassOK
    <3>2. \A m \in Flushed(pass)' : m.event = e => m = m0
      BY <1>3, <2>2, <2>3 DEF Marked
    <3>3. PassOK(e)'
      <4>1. e \notin pass'.events /\ pass'.event # e
        BY <1>3, <1>4, <2>1, <2>3
      <4>2. \A m \in pass'.flushed : m.event # e
        BY <1>3, <1>4, <2>3 DEF Marked
      <4>. QED  BY <1>3, <2>1, <2>3, <3>1, <3>2, <4>1, <4>2 DEF PassOK, Times
    <3>. QED  BY <1>3, <2>1, <2>3, <3>1, <3>3 DEF AtRest, Times
  <2>4. CASE e # e0
    <3>1. \A m \in Flushed(pass)' : m.event = e => m \in pass.flushed
      BY <1>3, <2>2, <2>4
    <3>2. PassOK(e)'
      BY <1>3, <1>4, <2>1, <3>1 DEF PassOK, Marked
    <3>3. InFlight(e) => InFlight(e)'
      BY <1>1, <1>2, <1>3, <1>4, <2>4 DEF InFlight, AlertOf, Flushed
    <3>. QED  BY <2>1, <3>2, <3>3, RestKept
  <2>. QED  BY <2>3, <2>4
<1>. QED  BY <1>2, <1>5, <1>6, <1>7, <1>8, PassMoves DEF alertVars, rows

LEMMA RecordEventStep ==
    ASSUME EscalationInv, RecordEvent
    PROVE  EscalationInv'
<1>1. PICK e0, m0 : e0 = pass.event /\ m0 = [event |-> e0, status |-> "dispatched"]
  OBVIOUS
<1>2. /\ pass.pc = "record" /\ CommitMarks(pass.flushed)
      /\ pass' = [pass EXCEPT !.pc = "take", !.event = None, !.flushed = {}, !.new = {m0}]
      /\ UNCHANGED <<alertVars, config, due, dispatch, now, sent, ghosts, aborts>>
  BY <1>1 DEF RecordEvent
<1>3. /\ pass \in Pass /\ Flushed(pass) = pass.flushed /\ e0 \in Events
      /\ pass.flushed \subseteq Mark
      /\ ~Marked(pass, e0) /\ e0 \notin pass.events
      /\ event[e0] \in {"pending", "deleted"}
      /\ m0 \in Mark /\ m0.event = e0 /\ m0.status = "dispatched"
  BY <1>1, <1>2, Sending DEF Mark
<1>4. /\ pass' \in Pass /\ pass'.pc = "take" /\ pass'.event = None
      /\ pass'.events = pass.events /\ pass'.new = {m0} /\ pass'.flushed = {}
      /\ Flushed(pass)' = {m0}
      /\ pass'.cached = pass.cached /\ pass'.view = pass.view
  BY <1>2, <1>3 DEF Pass, Flushed
<1>5. /\ event' \in [Events -> {"none", "pending", "dispatched", "cancelled", "deleted"}]
      /\ \A e \in Events :
            \/ (\A m \in pass.flushed : m.event # e) /\ event'[e] = event[e]
            \/ \E m \in pass.flushed : m.event = e /\ event'[e] = m.status
  BY <1>2, <1>3, Committed, PassKnown DEF TypeOK
<1>6. TypeOK'
  BY <1>2, <1>4, <1>5, PassKnown DEF TypeOK, alertVars, config, ghosts
<1>7. PassShape' /\ ClosedStaysQuiet'
  BY <1>4 DEF PassShape, ClosedStaysQuiet
<1>8. PassQuiet'
  BY <1>2, <1>4, PassKnown DEF PassQuiet, alertVars, ghosts, AlertOf
<1>9. ASSUME NEW e \in Events PROVE PassOK(e)' /\ AtRest(e)'
  <2>1. /\ sent'[e] = sent[e] /\ unmarked' = unmarked
        /\ PassOK(e) /\ AtRest(e) /\ e # None
    BY <1>2, PassKnown, EventParts DEF ghosts
  <2>2. CASE e = e0
    <3>1. event'[e] = event[e] /\ (e \notin unmarked => sent[e] = 1)
      BY <1>1, <1>2, <1>3, <1>5, <2>1, <2>2 DEF PassOK, Marked
    <3>2. PassOK(e)'
      BY <1>3, <1>4, <2>1, <2>2, <3>1 DEF PassOK, Times
    <3>3. InFlight(e)'
      BY <1>3, <1>4, <2>2 DEF InFlight, Flushed
    <3>. QED  BY <3>2, <3>3 DEF AtRest
  <2>3. CASE e # e0 /\ \E m \in pass.flushed : m.event = e /\ event'[e] = m.status
    <3>1. PICK m \in pass.flushed : m.event = e /\ event'[e] = m.status
      BY <2>3
    <3>2. /\ e \notin unmarked => sent[e] = Times(m.status)
          /\ e \notin pass.events
      BY <1>3, <2>1, <3>1 DEF PassOK, Marked
    <3>3. PassOK(e)'
      BY <1>3, <1>4, <2>1, <2>3, <3>2 DEF PassOK
    <3>. QED  BY <2>1, <3>1, <3>2, <3>3 DEF AtRest
  <2>4. CASE e # e0 /\ (\A m \in pass.flushed : m.event # e) /\ event'[e] = event[e]
    <3>1. PassOK(e)'
      BY <1>3, <1>4, <2>1, <2>4 DEF PassOK, Marked
    <3>2. AtRest(e)'
      BY <1>1, <1>2, <1>3, <2>1, <2>4, UnseenKept DEF Marked
    <3>. QED  BY <3>1, <3>2
  <2>. QED  BY <1>5, <2>2, <2>3, <2>4
<1>10. ASSUME NEW e \in Events
       PROVE  (event'[e] = event[e] /\ sent'[e] = sent[e]) \/ event[e] # "none"
  <2>1. CASE \E m \in pass.flushed : m.event = e
    BY <1>3, <2>1, PassKnown DEF PassOK
  <2>. QED  BY <1>2, <1>5, <2>1
<1>. QED  BY <1>2, <1>6, <1>7, <1>8, <1>9, <1>10, PassMoves DEF alertVars

\* After a pass nothing is left of it.
LEMMA NoPassIsFine ==
    ASSUME TypeOK, PassQuiet, pass' = NoPass, alert' = alert, requests' = requests
    PROVE  /\ pass' \in Pass
           /\ PassShape' /\ PassQuiet' /\ ClosedStaysQuiet'
           /\ \A e \in Events : PassOK(e)'
<1>1. /\ pass' \in Pass /\ pass'.pc = "idle" /\ pass'.events = {} /\ pass'.event = None
      /\ pass'.cached = None /\ pass'.new = {} /\ pass'.flushed = {}
  BY DEF NoPass, Pass
<1>2. PassShape' /\ PassQuiet' /\ ClosedStaysQuiet'
  BY <1>1 DEF PassShape, PassQuiet, ClosedStaysQuiet
<1>. QED  BY <1>1, <1>2, EventParts DEF PassOK, Flushed

LEMMA EndPassStep ==
    ASSUME EscalationInv, EndPass
    PROVE  EscalationInv'
<1>1. /\ pass.pc = "take" /\ pass.event = None /\ CommitMarks(Flushed(pass)) /\ pass' = NoPass
      /\ openBefore' = {} /\ Flushed(pass) \subseteq Mark
      /\ UNCHANGED <<alertVars, config, due, dispatch, now, sent, unmarked, raised, aborts>>
  BY PassParts, PassKnown DEF EndPass, PassShape
<1>2. /\ event' \in [Events -> {"none", "pending", "dispatched", "cancelled", "deleted"}]
      /\ \A e \in Events :
            \/ (\A m \in Flushed(pass) : m.event # e) /\ event'[e] = event[e]
            \/ \E m \in Flushed(pass) : m.event = e /\ event'[e] = m.status
  BY <1>1, Committed, PassKnown DEF TypeOK
<1>3. /\ pass' \in Pass /\ PassShape' /\ PassQuiet' /\ ClosedStaysQuiet'
      /\ \A e \in Events : PassOK(e)'
  BY <1>1, NoPassIsFine, PassKnown DEF alertVars
<1>4. TypeOK'
  BY <1>1, <1>2, <1>3, PassKnown DEF TypeOK, alertVars, config
<1>5. ASSUME NEW e \in Events PROVE AtRest(e)'
  <2>1. /\ sent'[e] = sent[e] /\ unmarked' = unmarked
        /\ PassOK(e) /\ AtRest(e) /\ e # None
    BY <1>1, PassKnown, EventParts
  <2>2. CASE \E m \in Flushed(pass) : m.event = e /\ event'[e] = m.status
    BY <2>1, <2>2 DEF PassOK, AtRest
  <2>3. CASE ~Marked(pass, e) /\ event'[e] = event[e]
    BY <1>1, <2>1, <2>3, UnseenKept
  <2>. QED  BY <1>2, <2>2, <2>3 DEF Marked
<1>6. ASSUME NEW e \in Events
      PROVE  (event'[e] = event[e] /\ sent'[e] = sent[e]) \/ event[e] # "none"
  <2>1. CASE \E m \in Flushed(pass) : m.event = e
    BY <2>1, PassKnown DEF PassOK
  <2>. QED  BY <1>1, <1>2, <2>1
<1>. QED  BY <1>1, <1>3, <1>4, <1>5, <1>6, PassMoves DEF alertVars

\* The pass dies or is rejected.
LEMMA PassEndsStep ==
    ASSUME EscalationInv, PassRejected \/ PassDies
    PROVE  EscalationInv'
<1>1. /\ pass' = NoPass /\ openBefore' = {}
      /\ unmarked' = unmarked \cup SentUnmarked(pass)
      /\ UNCHANGED <<alertVars, config, rows, dispatch, now, sent, raised>>
      /\ aborts' \in 0 .. MaxAborts
  <2>1. aborts \in 0 .. MaxAborts
    BY PassKnown DEF TypeOK
  <2>2. PassEnds /\ aborts' \in 0 .. MaxAborts
    BY <2>1, BoundAssumption DEF PassRejected, PassDies
  <2>. QED  BY <2>2 DEF PassEnds
<1>2. /\ pass' \in Pass /\ PassShape' /\ PassQuiet' /\ ClosedStaysQuiet'
      /\ \A e \in Events : PassOK(e)'
  BY <1>1, NoPassIsFine, PassKnown DEF alertVars
<1>3. TypeOK'
  <2>1. SentUnmarked(pass) \subseteq Events
    <3>. SUFFICES ASSUME NEW e \in SentUnmarked(pass) PROVE e \in Events
      OBVIOUS
    <3>1. CASE e = pass.event /\ pass.pc = "record"
      BY <3>1, PassKnown DEF PassShape
    <3>2. CASE \E m \in Flushed(pass) : m.event = e
      BY <3>2, PassParts, PassKnown, MarkParts
    <3>. QED  BY <3>1, <3>2, SentKnown
  <2>2. unmarked' \subseteq Events /\ openBefore' \subseteq Alerts
    BY <1>1, <2>1, PassKnown DEF TypeOK
  <2>. QED  BY <1>1, <1>2, <2>2, PassKnown DEF TypeOK, alertVars, config, rows
<1>4. ASSUME NEW e \in Events PROVE AtRest(e)'
  <2>1. /\ event'[e] = event[e] /\ sent'[e] = sent[e] /\ unmarked \subseteq unmarked'
        /\ PassOK(e) /\ AtRest(e)
    BY <1>1, PassKnown DEF rows
  <2>2. CASE pass.event = e
    BY <1>1, <2>1, <2>2, SentKnown DEF PassOK, AtRest, Times
  <2>3. CASE \E m \in Flushed(pass) : m.event = e
    BY <1>1, <2>1, <2>3, SentKnown DEF PassOK, AtRest, Times
  <2>4. CASE pass.event # e /\ ~Marked(pass, e)
    BY <1>1, <2>1, <2>4, UnseenKept
  <2>. QED  BY <2>2, <2>3, <2>4 DEF Marked
<1>. QED  BY <1>1, <1>2, <1>3, <1>4, PassMoves DEF alertVars, rows

---------------------------------------------------------------------------
(* Operators, administrators and the clock                                 *)

\* A step of nobody who sends: alerts are closed, rows are deleted that no pass has locked.
LEMMA OutsideMoves ==
    ASSUME EscalationInv, TypeOK',
           pass' = pass, dispatch' = dispatch, openBefore' = openBefore,
           unmarked' = unmarked, sent' = sent,
           \A a \in Alerts : \/ alert'[a] = alert[a]
                             \/ alert[a] # "none" /\ alert'[a] \in Closed,
           \A r \in requests' : alert[r.alert] # "none",
           \A e \in Events : \/ event'[e] = event[e]
                             \/ /\ event[e] # "none" /\ event'[e] = "deleted"
                                /\ \A m \in pass.flushed : m.event # e
    PROVE  EscalationInv'
<1>1. PassShape'
  BY DEF EscalationInv, PassShape
<1>2. PassQuiet' /\ ClosedStaysQuiet'
  <2>1. requests' \subseteq Request
    BY DEF TypeOK
  <2>2. \A a \in Alerts : /\ alert[a] \in Closed => alert'[a] \in Closed
                          /\ alert[a] # "none" => alert'[a] # "none"
    BY DEF Closed
  <2>. QED  BY <2>1, <2>2, QuietKept DEF EscalationInv
<1>3. \A a \in Alerts : DispatchShape(a)'
  <2>. SUFFICES ASSUME NEW a \in Alerts PROVE DispatchShape(a)'
    OBVIOUS
  <2>1. alert'[a] = "none" <=> alert[a] = "none"
    BY DEF Closed
  <2>. QED  BY <2>1 DEF EscalationInv, DispatchShape, Flushed, AlertOf
<1>4. ASSUME NEW e \in Events PROVE DispatchOK(e)' /\ PassOK(e)' /\ AtRest(e)'
  <2>1. DispatchOK(e) /\ PassOK(e) /\ AtRest(e)
    BY DEF EscalationInv
  <2>2. InFlight(e) => InFlight(e)'
    BY DEF InFlight, Flushed, AlertOf
  <2>. QED  BY <2>1, <2>2, DispatchKept, PassKept, RestKept
<1>. QED  BY <1>1, <1>2, <1>3, <1>4 DEF EscalationInv

LEMMA AlertRequests ==
    ASSUME EscalationInv,
           \/ \E a \in Alerts, s \in Closed : ReadAlert(a, s)
           \/ \E r \in requests : CommitAlert(r)
    PROVE  EscalationInv'
<1>1. TypeOK /\ \A r \in requests : alert[r.alert] # "none" /\ r \in Request
  BY PassKnown DEF TypeOK, PassQuiet
<1>2. ASSUME NEW a \in Alerts, NEW s \in Closed, ReadAlert(a, s) PROVE EscalationInv'
  <2>1. PICK r0 : r0 = [alert |-> a, status |-> s]
    OBVIOUS
  <2>2. r0 \in Request /\ r0.alert = a /\ requests' = requests \cup {r0} /\ alert[a] # "none"
    BY <1>2, <2>1 DEF ReadAlert, Request
  <2>3. TypeOK'
    BY <1>1, <1>2, <2>2 DEF TypeOK, ReadAlert, config, rows, ghosts
  <2>4. \A r \in requests' : alert[r.alert] # "none"
    BY <1>1, <2>2
  <2>. QED  BY <1>2, <2>3, <2>4, OutsideMoves DEF ReadAlert, rows, ghosts
<1>3. ASSUME NEW r0 \in requests, CommitAlert(r0) PROVE EscalationInv'
  <2>1. /\ r0.alert \in Alerts /\ r0.status \in Closed /\ alert[r0.alert] # "none"
        /\ alert' = [alert EXCEPT ![r0.alert] = r0.status]
        /\ requests' = requests \ {r0}
    BY <1>1, <1>3 DEF CommitAlert, Request
  <2>2. TypeOK'
    BY <1>1, <1>3, <2>1 DEF TypeOK, CommitAlert, config, rows, ghosts
  <2>3. \A a \in Alerts : \/ alert'[a] = alert[a]
                          \/ alert[a] # "none" /\ alert'[a] \in Closed
    BY <1>1, <2>1 DEF TypeOK
  <2>4. \A r \in requests' : alert[r.alert] # "none"
    BY <1>1, <2>1
  <2>. QED  BY <1>3, <2>2, <2>3, <2>4, OutsideMoves DEF CommitAlert, rows, ghosts
<1>. QED  BY <1>2, <1>3

\* A change deletes event rows or leaves them alone.
LEMMA ConfigChanged ==
    ASSUME TypeOK, ChangeConfig
    PROVE  /\ policy' \in [Policies -> {"active", "inactive", "deleted"}]
           /\ channel' \in [Channels -> {"active", "paused", "deleted"}]
           /\ step' \subseteq Steps
           /\ event' \in [Events -> {"none", "pending", "dispatched", "cancelled", "deleted"}]
           /\ \A e \in Events : \/ event'[e] = event[e]
                                \/ /\ event[e] # "none" /\ event'[e] = "deleted"
                                   /\ \A m \in pass.flushed : m.event # e
<1>1. /\ policy \in [Policies -> {"active", "inactive", "deleted"}]
      /\ channel \in [Channels -> {"active", "paused", "deleted"}]
      /\ step \subseteq Steps
      /\ event \in [Events -> {"none", "pending", "dispatched", "cancelled", "deleted"}]
  BY DEF TypeOK
<1>2. ASSUME NEW gone \in SUBSET Steps, Cascade(gone)
      PROVE  /\ step' \subseteq Steps
             /\ event' \in [Events -> {"none", "pending", "dispatched", "cancelled", "deleted"}]
             /\ \A e \in Events : \/ event'[e] = event[e]
                                  \/ /\ event[e] # "none" /\ event'[e] = "deleted"
                                     /\ \A m \in pass.flushed : m.event # e
  BY <1>1, <1>2 DEF Cascade, Locked
<1>3. CASE \E p \in Policies : TogglePolicy(p) \/ DeletePolicy(p)
  <2>1. PICK p \in Policies : TogglePolicy(p) \/ DeletePolicy(p)
    BY <1>3
  <2>2. CASE TogglePolicy(p)
    BY <1>1, <2>2 DEF TogglePolicy
  <2>3. CASE DeletePolicy(p)
    <3>1. PICK gone \in SUBSET Steps : Cascade(gone)
      BY <2>3 DEF DeletePolicy
    <3>2. /\ policy' \in [Policies -> {"active", "inactive", "deleted"}]
          /\ channel' = channel
      BY <1>1, <2>3 DEF DeletePolicy
    <3>. QED  BY <1>1, <1>2, <3>1, <3>2
  <2>. QED  BY <2>1, <2>2, <2>3
<1>4. CASE \E c \in Channels : ToggleChannel(c) \/ DeleteChannel(c)
  <2>1. PICK c \in Channels : ToggleChannel(c) \/ DeleteChannel(c)
    BY <1>4
  <2>2. CASE ToggleChannel(c)
    BY <1>1, <2>2 DEF ToggleChannel
  <2>3. CASE DeleteChannel(c)
    <3>1. PICK gone \in SUBSET Steps : Cascade(gone)
      BY <2>3 DEF DeleteChannel
    <3>2. /\ channel' \in [Channels -> {"active", "paused", "deleted"}]
          /\ policy' = policy
      BY <1>1, <2>3 DEF DeleteChannel
    <3>. QED  BY <1>1, <1>2, <3>1, <3>2
  <2>. QED  BY <2>1, <2>2, <2>3
<1>5. CASE \E s \in Steps : AddStep(s) \/ DeleteStep(s)
  BY <1>1, <1>5 DEF AddStep, DeleteStep
<1>. QED  BY <1>3, <1>4, <1>5 DEF ChangeConfig

LEMMA ChangeConfigStep ==
    ASSUME EscalationInv, ChangeConfig
    PROVE  EscalationInv'
<1>1. /\ TypeOK /\ changes' \in 0 .. MaxChanges
      /\ UNCHANGED <<alertVars, due, dispatch, pass, now, sent, ghosts, aborts>>
  BY PassKnown, BoundAssumption DEF ChangeConfig, TypeOK
<1>2. TypeOK'
  BY <1>1, ConfigChanged DEF TypeOK, alertVars, ghosts
<1>3. /\ \A r \in requests' : alert[r.alert] # "none"
      /\ alert' = alert
  BY <1>1, PassKnown DEF PassQuiet, alertVars
<1>. QED  BY <1>1, <1>2, <1>3, ConfigChanged, OutsideMoves DEF ghosts

LEMMA TickStep ==
    ASSUME EscalationInv, Tick \/ UNCHANGED vars
    PROVE  EscalationInv'
<1>1. /\ TypeOK /\ now' \in 0 .. MaxTime
      /\ UNCHANGED <<alertVars, config, rows, dispatch, pass, sent, ghosts, aborts>>
  BY PassKnown, BoundAssumption
     DEF Tick, TypeOK, vars, alertVars, config, rows, ghosts
<1>2. TypeOK'
  BY <1>1 DEF TypeOK, alertVars, config, rows, ghosts
<1>3. /\ \A r \in requests' : alert[r.alert] # "none"
      /\ alert' = alert
  BY <1>1, PassKnown DEF PassQuiet, alertVars
<1>. QED  BY <1>1, <1>2, <1>3, OutsideMoves DEF rows, ghosts

---------------------------------------------------------------------------
LEMMA EscalationStep == EscalationInv /\ [Next]_vars => EscalationInv'
<1>. SUFFICES ASSUME EscalationInv, [Next]_vars PROVE EscalationInv'
  OBVIOUS
<1>1. ASSUME NEW a \in Alerts, DispatchStep(a) PROVE EscalationInv'
  BY <1>1, BeginDispatchStep, NextPolicyStep, TakeStepStep, SendStepStep, RecordStepStep,
     EndDispatchStep, DirectSteps, EndsStep DEF DispatchStep
<1>2. ASSUME PassStep PROVE EscalationInv'
  BY <1>2, TakeEventStep, SendEventStep, SendRaisesStep, RecordEventStep, EndPassStep,
     PassEndsStep DEF PassStep
<1>. QED  BY <1>1, <1>2, RaiseAlertStep, EndsStep, BeginPassStep, PassEndsStep, AlertRequests,
             ChangeConfigStep, TickStep DEF Next

LEMMA EscalationInductive == Spec => []EscalationInv
  BY EscalationInit, EscalationStep, PTL DEF Spec

\* The types of alerts, policies, events, dispatches and passes.
THEOREM EscalationTyped == Spec => []TypeOK
<1>1. EscalationInv => TypeOK
  BY DEF EscalationInv
<1>. QED  BY <1>1, EscalationInductive, PTL

\* services/escalation.py: an event at rest says "dispatched" if and only if it was sent, and
\* then it was sent once, whatever dispatches, passes, changes and deletions overlap.
THEOREM TableTellsWhatHappened == Spec => []MarkedAsSent
<1>1. EscalationInv => MarkedAsSent
  BY DEF EscalationInv, AtRest, MarkedAsSent, Times
<1>. QED  BY <1>1, EscalationInductive, PTL

\* process_pending_escalation_events: no pass sends for an alert that was closed when the
\* pass began, although it may judge by an alert it loaded earlier.
THEOREM ClosedAlertsStayQuiet == Spec => []ClosedStaysQuiet
<1>1. EscalationInv => ClosedStaysQuiet
  BY DEF EscalationInv
<1>. QED  BY <1>1, EscalationInductive, PTL

\* What a session commits of an event is the first final status it gets.
MarksStay ==
    \A e \in Events :
       event[e] \in {"dispatched", "cancelled"} => event'[e] \in {event[e], "deleted"}

\* models/escalation.py 63: an event that was dispatched or cancelled stays so until its
\* policy or channel is deleted.
THEOREM MarksStayForEver == Spec => MarksAreFinal
<1>1. EscalationInv /\ [Next]_vars => MarksStay
  <2>. SUFFICES ASSUME EscalationInv, [Next]_vars, NEW e \in Events,
                       event[e] \in {"dispatched", "cancelled"}
                PROVE  event'[e] \in {event[e], "deleted"}
    BY DEF MarksStay
  <2>1. /\ TypeOK /\ \A m \in Flushed(pass) : m.event # e
        /\ \A a \in Alerts : \A m \in Flushed(dispatch[a]) : m.event # e
    <3>1. \A m \in Flushed(pass) : m.event # e
      BY PassKnown DEF PassOK
    <3>2. ASSUME NEW a \in Alerts, NEW m \in Flushed(dispatch[a]), m.event = e PROVE FALSE
      <4>1. AlertOf(e) = a
        BY <3>2, DispatchKnown DEF DispatchShape
      <4>. QED  BY <3>2, <4>1, DispatchKnown DEF DispatchOK
    <3>. QED  BY <3>1, <3>2, PassKnown
  <2>2. ASSUME NEW marks \in SUBSET Mark, CommitMarks(marks), \A m \in marks : m.event # e
        PROVE  event'[e] = event[e]
    BY <2>1, <2>2, Committed DEF TypeOK
  <2>3. ASSUME NEW a \in Alerts, RecordStep(a) \/ EndDispatch(a) PROVE event'[e] = event[e]
    <3>1. PICK marks \in SUBSET Mark : CommitMarks(marks) /\ \A m \in marks : m.event # e
      BY <2>1, <2>3, DispatchParts DEF RecordStep, EndDispatch, Flushed
    <3>. QED  BY <2>2, <3>1
  <2>4. ASSUME RecordEvent \/ EndPass PROVE event'[e] = event[e]
    <3>1. PICK marks \in SUBSET Mark : CommitMarks(marks) /\ \A m \in marks : m.event # e
      BY <2>1, <2>4, PassParts DEF RecordEvent, EndPass, Flushed
    <3>. QED  BY <2>2, <3>1
  <2>5. ASSUME ChangeConfig PROVE event'[e] \in {event[e], "deleted"}
    BY <2>1, <2>5, ConfigChanged
  <2>6. ASSUME NEW a \in Alerts, DispatchStep(a) PROVE event'[e] = event[e]
    BY <2>3, <2>6 DEF DispatchStep, BeginDispatch, NextPolicy, TakeStep, SendStep, SendDirect,
                      EndDirect, DispatchRejected, Ends, rows
  <2>7. ASSUME PassStep PROVE event'[e] = event[e]
    BY <2>4, <2>7 DEF PassStep, TakeEvent, SendEvent, SendRaises, PassRejected, PassEnds, rows
  <2>8. CASE UNCHANGED vars
    BY <2>8 DEF vars
  <2>. QED  BY <2>5, <2>6, <2>7, <2>8 DEF Next, RaiseAlert, DispatchDies, Ends, BeginPass, PassDies,
               PassEnds, ReadAlert, CommitAlert, Tick, rows
<1>. QED  BY <1>1, EscalationInductive, PTL DEF Spec, MarksAreFinal, MarksStay
=============================================================================
