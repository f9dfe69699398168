------------------------------ MODULE Routing ------------------------------
(***************************************************************************)
(* The way of a failed job's alert to the channels, while administrators   *)
(* change workspaces, channels and templates: dispatch_alert_notifications *)
(* of services/notifications.py without escalation policies, which are in  *)
(* module Escalation.                                                      *)
(***************************************************************************)
EXTENDS Workspaces, Channels

CONSTANTS
    Alerts  \* each raised at most once

Dispatch == [pc : {"new", "sending", "ended", "raised", "lost"},
             scope : Scope,             \* the alert's workspace_id, in the session
             rows : [ChannelIds -> Channel \cup {None}],  \* the channels it selected
             sent : SUBSET Delivery,    \* the deliveries it has committed
             calm : BOOLEAN]            \* history: no channel or template changed since it was raised
NotRaised == <<>>

VARIABLES
    dispatch

vars == <<callVars, workspaceVars, channelVars, dispatch>>

Init ==
    /\ up = FALSE
    /\ InitCalls
    /\ InitWorkspaces
    /\ channel = [c \in ChannelIds |-> None]
    /\ template = [t \in TemplateIds |-> None]
    /\ tested = {}
    /\ dispatch = [a \in Alerts |-> NotRaised]

Running(a) == dispatch[a] # NotRaised /\ dispatch[a].pc \in {"new", "sending"}

\* create_failure_alert: the alert takes its job's workspace.
RaiseAlert(a, j) ==
    /\ up
    /\ dispatch[a] = NotRaised
    /\ job[j] # NoJob
    /\ dispatch' = [dispatch EXCEPT ![a] =
          [pc |-> "new", scope |-> job[j], rows |-> [c \in ChannelIds |-> None],
           sent |-> {}, calm |-> TRUE]]
    /\ UNCHANGED <<callVars, workspaceVars, channelVars>>

\* Mutant of InScope: a channel without workspace serves all of them.
InScopeOrGlobal(row, scope) == row.status = "active"

\* The active channels of the alert's workspace; without one, those without one.
InScope(row, scope) == row.status = "active" /\ row.workspace = scope

SelectChannels(a) ==
    /\ Running(a) /\ dispatch[a].pc = "new"
    /\ dispatch' = [dispatch EXCEPT
          ![a].pc = "sending",
          ![a].rows = [c \in ChannelIds |->
              IF c \in ChannelRows /\ InScope(channel[c], dispatch[a].scope)
              THEN channel[c] ELSE None]]
    /\ UNCHANGED <<callVars, workspaceVars, channelVars>>

Sent(a) == {d.channel : d \in dispatch[a].sent}
Selected(a) == {c \in ChannelIds : dispatch[a].rows[c] # None}

\* One channel after the other.  A delivery refers to its channel: it cannot be stored
\* when that is gone, and an error ends the whole dispatch.
SendNext(a) ==
    /\ Running(a) /\ dispatch[a].pc = "sending"
    /\ \E c \in Selected(a) \ Sent(a) :
          IF SendRaises(dispatch[a].rows[c], "error") \/ c \notin ChannelRows
          THEN dispatch' = [dispatch EXCEPT ![a].pc = "raised"]
          ELSE \E d \in Deliveries(c, dispatch[a].rows[c]) :
                  dispatch' = [dispatch EXCEPT ![a].sent = @ \cup {d}]
    /\ UNCHANGED <<callVars, workspaceVars, channelVars>>

EndDispatch(a) ==
    /\ Running(a) /\ dispatch[a].pc = "sending"
    /\ Selected(a) \subseteq Sent(a)
    /\ dispatch' = [dispatch EXCEPT ![a].pc = "ended"]
    /\ UNCHANGED <<callVars, workspaceVars, channelVars>>

\* The calls run beside the dispatches.
Configure ==
    /\ ChannelCall
    /\ dispatch' = [a \in Alerts |->
          IF dispatch[a] # NotRaised /\ <<channel, template>>' # <<channel, template>>
          THEN [dispatch[a] EXCEPT !.calm = FALSE]
          ELSE dispatch[a]]
    /\ UNCHANGED workspaceVars

Administer == WorkspaceCall /\ UNCHANGED <<channelVars, dispatch>>

StartApi == Start /\ UNCHANGED <<channelVars, dispatch>>

\* In inline mode the dispatches end with the process, too.
StopApi ==
    /\ StopCalls
    /\ dispatch' = [a \in Alerts |->
          IF Running(a) THEN [dispatch[a] EXCEPT !.pc = "lost"] ELSE dispatch[a]]
    /\ UNCHANGED <<workspaceVars, channelVars>>

Next ==
    \/ StartApi \/ StopApi \/ Administer \/ Configure
    \/ \E a \in Alerts :
          \/ \E j \in Jobs : RaiseAlert(a, j)
          \/ SelectChannels(a) \/ SendNext(a) \/ EndDispatch(a)

Spec == Init /\ [][Next]_vars

---------------------------------------------------------------------------
TypeOK ==
    /\ WorkspacesTypeOK
    /\ ChannelsTypeOK
    /\ dispatch \in [Alerts -> Dispatch \cup {NotRaised}]

\* The channels meant to hear of an alert.
Audience(scope) ==
    {c \in ChannelRows : channel[c].status = "active" /\ channel[c].workspace = scope}

\* CHANGELOG.md:16, services/notifications.py:285: when no channel or template changed
\* since an alert was raised, its dispatch sends it through every active channel of the
\* alert's workspace, once, and through no other.  It breaks off only for one of those
\* that has a null configuration, or for a malformed template.
EveryChannelHears ==
    \A a \in Alerts :
       dispatch[a] # NotRaised /\ dispatch[a].calm =>
          /\ Sent(a) \subseteq Audience(dispatch[a].scope)
          /\ \A d, e \in dispatch[a].sent : d.channel = e.channel => d = e
          /\ dispatch[a].pc = "ended" => Audience(dispatch[a].scope) \subseteq Sent(a)
          /\ dispatch[a].pc = "raised" =>
                \/ _resolve_template("error") = "malformed"
                \/ \E c \in Audience(dispatch[a].scope) : channel[c].config = "null"
===========================================================================
