---------------------------- MODULE Escalation ----------------------------
(***************************************************************************)
(* Alerts, their notification and their escalation.  The process that      *)
(* raised an alert dispatches it (services/notifications.py,               *)
(* dispatch_alert_notifications; services/escalation.py,                   *)
(* dispatch_via_escalation_policies): steps without delay are sent at      *)
(* once, the others become pending escalation events.  Every minute a pass *)
(* of the API's scheduler (process_pending_escalation_events) sends or     *)
(* cancels the events that are due.  Operators acknowledge and resolve     *)
(* alerts (api/alerts.py) and administrators change policies and channels  *)
(* (api/escalation_policies.py, api/notifications.py) all the while.       *)
(*                                                                         *)
(* `alert`, `policy`, `channel`, `step` and `event` are committed rows; a  *)
(* session holds new and changed event rows first unflushed (`new`), then  *)
(* flushed and locked (`flushed`), until its next commit, and              *)
(* send_channel_notification commits the caller's session.  The alerts     *)
(* are those with severity "error", the only ones that are sent, and they  *)
(* share a workspace with the policies and channels.                       *)
(***************************************************************************)
EXTENDS Integers, FiniteSets

CONSTANTS
    Alerts,      \* ids of alerts, each raised at most once
    Policies,    \* ids of escalation policies
    Channels,    \* ids of notification channels
    Steps,       \* ids of escalation steps
    StepOf,      \* the policy, channel, step_order and delay_minutes of a step
    MaxTime,     \* bound on the clock, in minutes
    MaxChanges,  \* bound on changes to policies, steps and channels
    MaxAborts,   \* bound on crashes
    None         \* no alert, no event

StepRow == [policy : Policies, channel : Channels, order : Nat, delay : Nat]

ASSUME StepOfAssumption == StepOf \in [Steps -> StepRow]
ASSUME BoundAssumption == MaxTime \in Nat /\ MaxChanges \in Nat /\ MaxAborts \in Nat
ASSUME NoneAssumption == None \notin Alerts \cup (Alerts \X Steps) \cup Channels

Events == Alerts \X Steps                    \* at most one event row per pair
AlertOf(e) == e[1]
PolicyOf(e) == StepOf[e[2]].policy
ChannelOf(e) == StepOf[e[2]].channel

Closed == {"acknowledged", "resolved"}
Mark == [event : Events, status : {"pending", "dispatched", "cancelled"}]

\* The dispatch of an alert: where it is, the policies and steps it still has
\* to visit (or the channels, without policies), the step it sends, its rows.
Dispatch == [pc : {"none", "begin", "steps", "send", "record", "direct", "over"},
             policies : SUBSET Policies, steps : SUBSET Steps,
             channels : SUBSET Channels, event : Events \cup {None},
             start : 0 .. MaxTime, new : SUBSET Mark, flushed : SUBSET Mark]

\* A pass over the events that are due; the alert it loaded last stays in the
\* session with the status it had then.
Pass == [pc : {"idle", "take", "send", "record"},
         events : SUBSET Events, event : Events \cup {None},
         cached : Alerts \cup {None}, view : Closed \cup {"none", "open"},
         new : SUBSET Mark, flushed : SUBSET Mark]

Request == [alert : Alerts, status : Closed]

VARIABLES
    alert,      \* status of each alert; "none" until it is raised
    policy,     \* "active", "inactive" or "deleted"
    channel,    \* "active", "paused" or "deleted"
    step,       \* steps whose row exists
    event,      \* status of each escalation event
    due,        \* scheduled_at of each event
    dispatch,   \* the dispatch of each alert
    pass,       \* the pass of the escalation checker
    requests,   \* PATCH requests that have passed their 409 check
    now,        \* minutes
    sent,       \* history: notifications sent for an event
    openBefore, \* history: the alerts open when the pass began
    unmarked,   \* history: events sent by a dispatch or pass that then died
    raised,     \* history: events whose send raised an exception
    changes,
    aborts

alertVars == <<alert, requests>>
config == <<policy, channel, step, changes>>
rows == <<event, due>>
ghosts == <<openBefore, unmarked, raised>>
vars == <<alert, policy, channel, step, event, due, dispatch, pass, requests, now,
          sent, openBefore, unmarked, raised, changes, aborts>>

NoDispatch == [pc |-> "none", policies |-> {}, steps |-> {}, channels |-> {},
               event |-> None, start |-> 0, new |-> {}, flushed |-> {}]
NoPass == [pc |-> "idle", events |-> {}, event |-> None, cached |-> None,
           view |-> "none", new |-> {}, flushed |-> {}]

Init ==
    /\ alert = [a \in Alerts |-> "none"]
    /\ policy \in [Policies -> {"active", "inactive"}]
    /\ channel \in [Channels -> {"active", "paused"}]
    /\ step \in SUBSET Steps
    /\ event = [e \in Events |-> "none"]
    /\ due = [e \in Events |-> 0]
    /\ dispatch = [a \in Alerts |-> NoDispatch]
    /\ pass = NoPass
    /\ requests = {}
    /\ now = 0
    /\ sent = [e \in Events |-> 0]
    /\ openBefore = {}
    /\ unmarked = {}
    /\ raised = {}
    /\ changes = 0
    /\ aborts = 0

---------------------------------------------------------------------------
\* A session's flush: what it has changed goes to the database.  An event can
\* be inserted while its policy and channel exist, updated while it exists.
Insertable(e) == policy[PolicyOf(e)] # "deleted" /\ channel[ChannelOf(e)] # "deleted"
Flushed(session) == session.flushed \cup session.new

\* The commit of what has been flushed.
CommitMarks(marks) ==
    event' = [e \in Events |->
                IF \E m \in marks : m.event = e
                THEN (CHOOSE m \in marks : m.event = e).status
                ELSE event[e]]

\* What a process that dies has sent and not yet marked as sent.
SentUnmarked(session) ==
    {m.event : m \in {m \in Flushed(session) : m.status = "dispatched"}}
    \cup {e \in {session.event} : session.pc = "record"}

---------------------------------------------------------------------------
\* An alert is committed, and its process goes on to dispatch it.
RaiseAlert(a) ==
    /\ alert[a] = "none"
    /\ alert' = [alert EXCEPT ![a] = "open"]
    /\ dispatch' = [dispatch EXCEPT ![a].pc = "begin"]
    /\ UNCHANGED <<config, rows, pass, requests, now, sent, ghosts, aborts>>

ActivePolicies == {p \in Policies : policy[p] = "active"}
ActiveChannels == {c \in Channels : channel[c] = "active"}

\* The active policies are read once; without any, the active channels are.
BeginDispatch(a) ==
    /\ dispatch[a].pc = "begin"
    /\ dispatch' = [dispatch EXCEPT ![a] =
          IF ActivePolicies # {}
          THEN [@ EXCEPT !.pc = "steps", !.policies = ActivePolicies, !.start = now]
          ELSE [@ EXCEPT !.pc = "direct", !.channels = ActiveChannels]]
    /\ UNCHANGED <<alertVars, config, rows, pass, now, sent, ghosts, aborts>>

CanFlush(a) == \A m \in dispatch[a].new : Insertable(m.event)

\* The steps of the next policy (the order of the policies is left open).
NextPolicy(a, p) ==
    /\ dispatch[a].pc = "steps"
    /\ dispatch[a].steps = {}
    /\ p \in dispatch[a].policies
    /\ CanFlush(a)
    /\ dispatch' = [dispatch EXCEPT ![a] =
          [@ EXCEPT !.policies = dispatch[a].policies \ {p},
                    !.steps = {s \in step : StepOf[s].policy = p},
                    !.flushed = Flushed(dispatch[a]), !.new = {}]]
    /\ UNCHANGED <<alertVars, config, rows, pass, now, sent, ghosts, aborts>>

IsNext(a, s) ==
    /\ s \in dispatch[a].steps
    /\ \A t \in dispatch[a].steps : StepOf[s].order <= StepOf[t].order

\* The next step, in step_order: skipped without an active channel, sent
\* without delay, scheduled otherwise.
TakeStep(a, s) ==
    /\ dispatch[a].pc = "steps"
    /\ IsNext(a, s)
    /\ CanFlush(a)
    /\ LET d == [dispatch[a] EXCEPT !.steps = @ \ {s}, !.new = {},
                                    !.flushed = Flushed(dispatch[a])]
           e == <<a, s>>
       IN \/ /\ channel[StepOf[s].channel] # "active"
             /\ dispatch' = [dispatch EXCEPT ![a] = d]
          \/ /\ channel[StepOf[s].channel] = "active"
             /\ StepOf[s].delay = 0
             /\ dispatch' = [dispatch EXCEPT ![a] =
                               [d EXCEPT !.pc = "send", !.event = e]]
          \/ /\ channel[StepOf[s].channel] = "active"
             /\ StepOf[s].delay > 0
             /\ dispatch' = [dispatch EXCEPT ![a] =
                    [d EXCEPT !.new = {[event |-> e, status |-> "pending"]}]]
    /\ UNCHANGED <<alertVars, config, rows, pass, now, sent, ghosts, aborts>>

\* Up to _MAX_ATTEMPTS = 2 attempts to send; the outcome is only recorded.
SendStep(a) ==
    /\ dispatch[a].pc = "send"
    /\ sent' = [sent EXCEPT ![dispatch[a].event] = @ + 1]
    /\ dispatch' = [dispatch EXCEPT ![a].pc = "record"]
    /\ UNCHANGED <<alertVars, config, rows, pass, now, ghosts, aborts>>

Schedule(a) ==
    due' = [e \in Events |->
              IF \E m \in Flushed(dispatch[a]) : m.event = e
              THEN dispatch[a].start + StepOf[e[2]].delay
              ELSE due[e]]

\* send_channel_notification commits the delivery, and all that the session has
\* flushed with it; only then does the event of the step just sent follow.
RecordStep(a) ==
    /\ dispatch[a].pc = "record"
    /\ channel[ChannelOf(dispatch[a].event)] # "deleted"
    /\ CommitMarks(dispatch[a].flushed)
    /\ Schedule(a)
    /\ dispatch' = [dispatch EXCEPT ![a] =
          [@ EXCEPT !.pc = "steps", !.event = None, !.flushed = {},
                    !.new = {[event |-> dispatch[a].event, status |-> "dispatched"]}]]
    /\ UNCHANGED <<alertVars, config, pass, now, sent, ghosts, aborts>>

\* Mutant of EndDispatch: the last commit is missing.
EndDispatchUncommitted(a) ==
    /\ dispatch[a].pc = "steps"
    /\ dispatch[a].policies = {} /\ dispatch[a].steps = {}
    /\ CanFlush(a)
    /\ CommitMarks({})
    /\ Schedule(a)
    /\ dispatch' = [dispatch EXCEPT ![a] = [NoDispatch EXCEPT !.pc = "over"]]
    /\ UNCHANGED <<alertVars, config, pass, now, sent, ghosts, aborts>>

EndDispatch(a) ==
    /\ dispatch[a].pc = "steps"
    /\ dispatch[a].policies = {} /\ dispatch[a].steps = {}
    /\ CanFlush(a)
    /\ CommitMarks(Flushed(dispatch[a]))
    /\ Schedule(a)
    /\ dispatch' = [dispatch EXCEPT ![a] = [NoDispatch EXCEPT !.pc = "over"]]
    /\ UNCHANGED <<alertVars, config, pass, now, sent, ghosts, aborts>>

\* Without policies: every channel that was active, one delivery each.
SendDirect(a, c) ==
    /\ dispatch[a].pc = "direct"
    /\ c \in dispatch[a].channels
    /\ channel[c] # "deleted"
    /\ dispatch' = [dispatch EXCEPT ![a].channels = @ \ {c}]
    /\ UNCHANGED <<alertVars, config, rows, pass, now, sent, ghosts, aborts>>

EndDirect(a) ==
    /\ dispatch[a].pc = "direct"
    /\ dispatch[a].channels = {}
    /\ dispatch' = [dispatch EXCEPT ![a] = [NoDispatch EXCEPT !.pc = "over"]]
    /\ UNCHANGED <<alertVars, config, rows, pass, now, sent, ghosts, aborts>>

Ends(a) ==
    /\ unmarked' = unmarked \cup SentUnmarked(dispatch[a])
    /\ dispatch' = [dispatch EXCEPT ![a] = [NoDispatch EXCEPT !.pc = "over"]]
    /\ UNCHANGED <<alertVars, config, rows, pass, now, sent, openBefore>>

\* A row that a flush or a delivery refers to is gone: IntegrityError, which
\* nobody catches here.
DispatchRejected(a) ==
    /\ \/ dispatch[a].pc = "steps" /\ ~CanFlush(a)
       \/ /\ dispatch[a].pc = "record"
          /\ channel[ChannelOf(dispatch[a].event)] = "deleted"
       \/ dispatch[a].pc = "direct" /\ \E c \in dispatch[a].channels : channel[c] = "deleted"
    /\ Ends(a)
    /\ UNCHANGED <<raised, aborts>>

\* The dispatching process dies, or the send raises (a malformed template, a
\* configuration that cannot be decrypted).
DispatchDies(a) ==
    /\ dispatch[a].pc \notin {"none", "over"}
    /\ aborts < MaxAborts
    /\ aborts' = aborts + 1
    /\ Ends(a)
    /\ UNCHANGED raised

---------------------------------------------------------------------------
\* Mutant of DueEvents: the pending filter is gone.
DueEventsAgain == {e \in Events : event[e] \in {"pending", "cancelled"} /\ due[e] <= now}

DueEvents == {e \in Events : event[e] = "pending" /\ due[e] <= now}

\* The checker's job: one pass at a time, over the events due when it begins.
BeginPass ==
    /\ pass.pc = "idle"
    /\ DueEvents # {}
    /\ pass' = [NoPass EXCEPT !.pc = "take", !.events = DueEvents]
    /\ openBefore' = {a \in Alerts : alert[a] = "open"}
    /\ UNCHANGED <<alertVars, config, rows, dispatch, now, sent, unmarked, raised, aborts>>

Updatable == \A m \in pass.new : event[m.event] # "deleted"

\* Mutant of Seen: the alert is loaded once per pass.
SeenLast(a) == IF pass.cached # None THEN pass.view ELSE alert[a]

\* The status of an alert as the session sees it: the SELECT gives back the
\* object loaded for the event before, unchanged (expire_on_commit=False), as
\* long as the local variable keeps it alive.
Seen(a) == IF pass.cached = a THEN pass.view ELSE alert[a]

\* Mutant of TakeEvent: an event that is not sent is left as it is.
TakeEventSkipping(e) ==
    /\ pass.pc = "take"
    /\ e \in pass.events
    /\ \A f \in pass.events : due[e] <= due[f]
    /\ Updatable
    /\ LET seen == Seen(AlertOf(e))
           p == [pass EXCEPT !.events = @ \ {e}, !.cached = AlertOf(e), !.view = seen,
                             !.flushed = Flushed(pass), !.new = {}]
       IN \/ /\ seen \in Closed \/ channel[ChannelOf(e)] # "active"
             /\ pass' = [p EXCEPT !.new = {}]
          \/ /\ seen \notin Closed
             /\ channel[ChannelOf(e)] = "active"
             /\ pass' = [p EXCEPT !.pc = "send", !.event = e]
    /\ UNCHANGED <<alertVars, config, rows, dispatch, now, sent, ghosts, aborts>>

\* The next event by scheduled_at, provided its alert is seen open and its
\* channel is active; cancelled otherwise.
TakeEvent(e) ==
    /\ pass.pc = "take"
    /\ e \in pass.events
    /\ \A f \in pass.events : due[e] <= due[f]
    /\ Updatable
    /\ LET seen == Seen(AlertOf(e))
           p == [pass EXCEPT !.events = @ \ {e}, !.cached = AlertOf(e), !.view = seen,
                             !.flushed = Flushed(pass), !.new = {}]
       IN \/ /\ seen \in Closed \/ channel[ChannelOf(e)] # "active"
             /\ pass' = [p EXCEPT !.new = {[event |-> e, status |-> "cancelled"]}]
          \/ /\ seen \notin Closed
             /\ channel[ChannelOf(e)] = "active"
             /\ pass' = [p EXCEPT !.pc = "send", !.event = e]
    /\ UNCHANGED <<alertVars, config, rows, dispatch, now, sent, ghosts, aborts>>

SendEvent ==
    /\ pass.pc = "send"
    /\ sent' = [sent EXCEPT ![pass.event] = @ + 1]
    /\ pass' = [pass EXCEPT !.pc = "record"]
    /\ UNCHANGED <<alertVars, config, rows, dispatch, now, ghosts, aborts>>

\* Mutant of SendRaises: the status is set whether or not the send raises.
SendRaisesAsDispatched ==
    /\ pass.pc = "send"
    /\ raised' = raised \cup {pass.event}
    /\ pass' = [pass EXCEPT !.pc = "take", !.event = None,
                            !.new = {[event |-> pass.event, status |-> "dispatched"]}]
    /\ UNCHANGED <<alertVars, config, rows, dispatch, now, sent, openBefore, unmarked,
                   aborts>>

\* The send raises before anything is sent: the event is given up.
SendRaises ==
    /\ pass.pc = "send"
    /\ raised' = raised \cup {pass.event}
    /\ pass' = [pass EXCEPT !.pc = "take", !.event = None,
                            !.new = {[event |-> pass.event, status |-> "cancelled"]}]
    /\ UNCHANGED <<alertVars, config, rows, dispatch, now, sent, openBefore, unmarked,
                   aborts>>

\* Mutant of RecordEvent: a status the readers do not know.
RecordEventAsSent ==
    /\ pass.pc = "record"
    /\ channel[ChannelOf(pass.event)] # "deleted"
    /\ CommitMarks(pass.flushed)
    /\ pass' = [pass EXCEPT !.pc = "take", !.event = None, !.flushed = {},
                            !.new = {[event |-> pass.event, status |-> "sent"]}]
    /\ UNCHANGED <<alertVars, config, due, dispatch, now, sent, ghosts, aborts>>

\* Mutant of RecordEvent: the status is not set after the send.
RecordEventUnmarked ==
    /\ pass.pc = "record"
    /\ channel[ChannelOf(pass.event)] # "deleted"
    /\ CommitMarks(pass.flushed)
    /\ pass' = [pass EXCEPT !.pc = "take", !.event = None, !.flushed = {},
                            !.new = {}]
    /\ UNCHANGED <<alertVars, config, due, dispatch, now, sent, ghosts, aborts>>

\* The delivery is committed, with the events flushed so far; this event's own
\* status follows with a later commit.
RecordEvent ==
    /\ pass.pc = "record"
    /\ channel[ChannelOf(pass.event)] # "deleted"
    /\ CommitMarks(pass.flushed)
    /\ pass' = [pass EXCEPT !.pc = "take", !.event = None, !.flushed = {},
                            !.new = {[event |-> pass.event, status |-> "dispatched"]}]
    /\ UNCHANGED <<alertVars, config, due, dispatch, now, sent, ghosts, aborts>>

EndPass ==
    /\ pass.pc = "take"
    /\ pass.events = {}
    /\ Updatable
    /\ CommitMarks(Flushed(pass))
    /\ pass' = NoPass
    /\ openBefore' = {}
    /\ UNCHANGED <<alertVars, config, due, dispatch, now, sent, unmarked, raised, aborts>>

PassEnds ==
    /\ unmarked' = unmarked \cup SentUnmarked(pass)
    /\ pass' = NoPass
    /\ openBefore' = {}
    /\ UNCHANGED <<alertVars, config, rows, dispatch, now, sent, raised>>

\* An event or channel row of the session is gone: the flush raises
\* (StaleDataError, IntegrityError) and what was not committed is rolled back.
PassRejected ==
    /\ \/ pass.pc = "take" /\ ~Updatable
       \/ pass.pc = "record" /\ channel[ChannelOf(pass.event)] = "deleted"
    /\ PassEnds
    /\ UNCHANGED aborts

\* The API process dies, or the database ends the session (a deadlock with a
\* DELETE); the restarted process has a checker again.
PassDies ==
    /\ pass.pc # "idle"
    /\ aborts < MaxAborts
    /\ aborts' = aborts + 1
    /\ PassEnds

---------------------------------------------------------------------------
\* PATCH /alerts/{id}/acknowledge and /resolve: the alert is read, and a
\* resolved one refused with 409 ...
ReadAlert(a, s) ==
    /\ alert[a] \notin {"none", "resolved"}
    /\ requests' = requests \cup {[alert |-> a, status |-> s]}
    /\ UNCHANGED <<alert, config, rows, dispatch, pass, now, sent, ghosts, aborts>>

\* ... and its status is written and committed.
CommitAlert(r) ==
    /\ r \in requests
    /\ requests' = requests \ {r}
    /\ alert' = [alert EXCEPT ![r.alert] = r.status]
    /\ UNCHANGED <<config, rows, dispatch, pass, now, sent, ghosts, aborts>>

\* PATCH /escalation-policies/{id}
TogglePolicy(p) ==
    /\ policy[p] # "deleted"
    /\ policy' = [policy EXCEPT ![p] = IF @ = "active" THEN "inactive" ELSE "active"]
    /\ UNCHANGED <<channel, step, event>>

\* PATCH /notifications/{id}/activate, /deactivate and the status field
ToggleChannel(c) ==
    /\ channel[c] # "deleted"
    /\ channel' = [channel EXCEPT ![c] = IF @ = "active" THEN "paused" ELSE "active"]
    /\ UNCHANGED <<policy, step, event>>

\* POST /escalation-policies/{id}/steps
AddStep(s) ==
    /\ s \notin step
    /\ policy[StepOf[s].policy] # "deleted" /\ channel[StepOf[s].channel] # "deleted"
    /\ \A a \in Alerts : event[<<a, s>>] = "none"        \* a new row, a new id
    /\ \A a \in Alerts : s \notin dispatch[a].steps
    /\ step' = step \cup {s}
    /\ UNCHANGED <<policy, channel, event>>

\* DELETE /escalation-policies/{id}/steps/{step_id}
DeleteStep(s) ==
    /\ s \in step
    /\ step' = step \ {s}
    /\ UNCHANGED <<policy, channel, event>>

\* A deletion cascades to the events and steps, and waits for the event rows
\* that a session has flushed and not committed.
Locked == pass.flushed \cup UNION {dispatch[a].flushed : a \in Alerts}

Cascade(gone) ==
    /\ \A m \in Locked : m.event[2] \notin gone
    /\ event' = [e \in Events |-> IF e[2] \in gone /\ event[e] # "none" THEN "deleted"
                                                                       ELSE event[e]]
    /\ step' = step \ gone

\* DELETE /escalation-policies/{id}
DeletePolicy(p) ==
    /\ policy[p] # "deleted"
    /\ policy' = [policy EXCEPT ![p] = "deleted"]
    /\ Cascade({s \in Steps : StepOf[s].policy = p})
    /\ UNCHANGED channel

\* DELETE /notifications/{id}
DeleteChannel(c) ==
    /\ channel[c] # "deleted"
    /\ channel' = [channel EXCEPT ![c] = "deleted"]
    /\ Cascade({s \in Steps : StepOf[s].channel = c})
    /\ UNCHANGED policy

ChangeConfig ==
    /\ changes < MaxChanges
    /\ changes' = changes + 1
    /\ \/ \E p \in Policies : TogglePolicy(p) \/ DeletePolicy(p)
       \/ \E c \in Channels : ToggleChannel(c) \/ DeleteChannel(c)
       \/ \E s \in Steps : AddStep(s) \/ DeleteStep(s)
    /\ UNCHANGED <<alertVars, due, dispatch, pass, now, sent, ghosts, aborts>>

Tick ==
    /\ now < MaxTime
    /\ now' = now + 1
    /\ UNCHANGED <<alertVars, config, rows, dispatch, pass, sent, ghosts, aborts>>

---------------------------------------------------------------------------
DispatchStep(a) ==
    \/ BeginDispatch(a)
    \/ \E p \in Policies : NextPolicy(a, p)
    \/ \E s \in Steps : TakeStep(a, s)
    \/ SendStep(a)
    \/ RecordStep(a)
    \/ EndDispatch(a)
    \/ \E c \in Channels : SendDirect(a, c)
    \/ EndDirect(a)
    \/ DispatchRejected(a)

PassStep ==
    \/ \E e \in Events : TakeEvent(e)
    \/ SendEvent
    \/ SendRaises
    \/ RecordEvent
    \/ EndPass
    \/ PassRejected

Next ==
    \/ \E a \in Alerts : RaiseAlert(a) \/ DispatchStep(a) \/ DispatchDies(a)
    \/ BeginPass \/ PassStep \/ PassDies
    \/ \E a \in Alerts, s \in Closed : ReadAlert(a, s)
    \/ \E r \in requests : CommitAlert(r)
    \/ ChangeConfig
    \/ Tick

Spec == Init /\ [][Next]_vars

\* Fairness: a dispatch goes on (sends are bounded by their timeouts), time
\* passes, and the interval trigger starts and runs pass after pass.
Fairness ==
    /\ \A a \in Alerts : WF_vars(DispatchStep(a))
    /\ WF_vars(BeginPass) /\ WF_vars(PassStep)
    /\ WF_vars(Tick)

FairSpec == Spec /\ Fairness

---------------------------------------------------------------------------
TypeOK ==
    /\ alert \in [Alerts -> Closed \cup {"none", "open"}]
    /\ policy \in [Policies -> {"active", "inactive", "deleted"}]
    /\ channel \in [Channels -> {"active", "paused", "deleted"}]
    /\ step \subseteq Steps
    /\ event \in [Events -> {"none", "pending", "dispatched", "cancelled", "deleted"}]
    /\ due \in [Events -> Nat]
    /\ dispatch \in [Alerts -> Dispatch]
    /\ pass \in Pass
    /\ requests \subseteq Request
    /\ now \in 0 .. MaxTime
    /\ sent \in [Events -> Nat]
    /\ openBefore \subseteq Alerts
    /\ unmarked \subseteq Events
    /\ raised \subseteq Events
    /\ changes \in 0 .. MaxChanges
    /\ aborts \in 0 .. MaxAborts

\* A session that has something of an event still to commit.
InFlight(e) ==
    \/ dispatch[AlertOf(e)].event = e \/ pass.event = e
    \/ \E m \in Flushed(dispatch[AlertOf(e)]) \cup Flushed(pass) : m.event = e

\* The table tells what happened: an event at rest was sent once if it says
\* "dispatched" and never if it says "pending" or "cancelled", unless the
\* process that sent it ended before it could commit that.
MarkedAsSent ==
    \A e \in Events :
        event[e] # "deleted" /\ e \notin unmarked /\ ~InFlight(e) =>
            sent[e] = IF event[e] = "dispatched" THEN 1 ELSE 0

\* An alert that was acknowledged or resolved before a pass began gets no
\* notification from that pass.
ClosedStaysQuiet ==
    pass.pc \in {"send", "record"} => AlertOf(pass.event) \in openBefore

\* models/escalation.py:63 "pending -> dispatched or cancelled": neither is ever
\* taken back, whatever sessions overlap.
MarksAreFinal ==
    [][\A e \in Events :
          event[e] \in {"dispatched", "cancelled"} => event'[e] \in {event[e], "deleted"}]_vars

\* An event that falls due does not stay pending: some pass sends or cancels it,
\* or it is deleted.
DueEventsSettle ==
    \A e \in Events :
        event[e] = "pending" /\ due[e] <= MaxTime ~> event[e] # "pending"

\* Every step with an active channel that an active policy had when its alert
\* was dispatched is sent in the end, unless the alert is acknowledged or
\* resolved, its send raises, a process dies or an administrator makes changes.
StepsAreSent ==
    \A a \in Alerts, s \in Steps :
        /\ dispatch[a].pc = "steps"
        /\ StepOf[s].policy \in dispatch[a].policies
        /\ s \in step
        /\ channel[StepOf[s].channel] = "active"
        /\ dispatch[a].start + StepOf[s].delay <= MaxTime
        ~> \/ sent[<<a, s>>] > 0
           \/ alert[a] \in Closed
           \/ <<a, s>> \in raised
           \/ aborts > 0 \/ changes > 0

===========================================================================
