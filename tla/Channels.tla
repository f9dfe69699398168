----------------------------- MODULE Channels -----------------------------
(***************************************************************************)
(* Notification channels, templates and the sending of one notification:   *)
(* api/notifications.py, api/notification_templates.py and                 *)
(* services/notifications.py.  A configuration is abstracted to the type   *)
(* it was validated for; encryption, masking and wording are left out.     *)
(***************************************************************************)
EXTENDS Calls

CONSTANTS
    ChannelIds,
    Types,        \* channel types, whose configurations have no key in common
    TemplateIds,  \* numbers in the order of creation
    Patches,      \* bodies of PATCH /notification-channels/{id}
    Texts         \* templates as POST or PATCH leave them

\* What config_encrypted holds: a configuration for a type, or "null".
Configs == Types \cup {"null"}
Statuses == {"active", "paused"}
Channel == [type : Types, config : Configs, status : Statuses, workspace : {None}]

\* Whether a configuration has what the senders of a type need.
_validate_channel_config(type, config) == config = type

\* A configuration that is an object comes with its type and was validated for it; null is
\* let through as it is.
Patch == {p \in [type : Optional(Types), config : Optional(Configs), status : Optional(Statuses)] :
            \/ p.config \in {{}, {"null"}}
            \/ \E t \in p.type, c \in p.config : _validate_channel_config(t, c)}

\* str.format of a template's text: fine, a KeyError that falls back on the built-in
\* text, or an error nobody catches.
Formats == {"fine", "unknown_variable", "malformed"}
Severities == {"error", "info"}
Template == [severity_filter : Severities \cup {"every"}, is_default : BOOLEAN, text : Formats]

ASSUME ChannelAssumption ==
    /\ "null" \notin Types
    /\ TemplateIds \subseteq Nat
    /\ Patches \subseteq Patch
    /\ Texts \subseteq Template

VARIABLES
    channel,   \* committed rows, or None
    template,  \* committed rows, or None
    tested     \* deliveries of tests

channelVars == <<channel, template, tested>>
ChannelRows == {c \in ChannelIds : channel[c] # None}
TemplateRows == {t \in TemplateIds : template[t] # None}

---------------------------------------------------------------------------
\* Sending

\* The newest of a set of templates.
Newest(T) == CHOOSE t \in T : \A s \in T : s <= t

\* _resolve_template: the newest for the severity, else the default or else the newest
\* of those for every severity, else the built-in one.
_resolve_template(severity) ==
    LET exact == {t \in TemplateRows : template[t].severity_filter = severity}
        general == {t \in TemplateRows : template[t].severity_filter = "every"}
        default == {t \in general : template[t].is_default}
    IN  CASE exact # {} -> template[Newest(exact)].text
          [] exact = {} /\ default # {} -> template[Newest(default)].text
          [] exact = {} /\ default = {} /\ general # {} -> template[Newest(general)].text
          [] OTHER -> "fine"

\* Whether send_channel_notification raises for the channel row it holds: a malformed
\* text, or a configuration that is not an object, whose error _mask_error cannot mask.
SendRaises(row, severity) == _resolve_template(severity) = "malformed" \/ row.config = "null"

\* The delivery after two attempts.  A configuration of another type lacks the keys that
\* the sender needs.
Delivery == [channel : ChannelIds, status : {"success", "failed"}]
Deliveries(c, row) ==
    {d \in Delivery : d.channel = c /\ (d.status = "success" => row.config = row.type)}

---------------------------------------------------------------------------
\* POST and PATCH /notification-channels.  No endpoint sets a channel's workspace_id.
CreateChannel(k, c, type, status) ==
    /\ channel[c] = None /\ Fresh(c)
    /\ Do(k, "create_channel", c)
    /\ channel' = [channel EXCEPT ![c] =
          [type |-> type, config |-> type, status |-> status, workspace |-> None]]
    /\ UNCHANGED <<template, tested>>

\* Mutant of RefusesType: a new type is accepted without its configuration.
AcceptsType(row, patch) == FALSE

\* 422: a new type needs a configuration, or a null.
RefusesType(row, patch) == ~(patch.type \subseteq {row.type}) /\ patch.config = {}

BeginUpdateChannel(k, c, patch) ==
    /\ c \in ChannelRows
    /\ ~RefusesType(channel[c], patch)
    /\ Begin(k, "update_channel", c, patch, channel[c])
    /\ UNCHANGED channelVars

\* A configuration is always written, as every encryption of it differs.
UpdateChannel(k) ==
    /\ At(k, "update_channel")
    /\ LET q == call[k]
           was == q.loaded
           row == channel[q.on]
       IN  channel' = IF row = None THEN channel ELSE [channel EXCEPT ![q.on] =
              [row EXCEPT !.type = Written(row.type, was.type, q.arg.type),
                          !.status = Written(row.status, was.status, q.arg.status),
                          !.config = IF q.arg.config = {} THEN row.config
                                     ELSE CHOOSE x \in q.arg.config : TRUE]]
    /\ Finish(k)
    /\ UNCHANGED <<template, tested>>

\* PATCH .../activate and .../deactivate.
BeginSetStatus(k, c, status) ==
    /\ c \in ChannelRows
    /\ Begin(k, "set_status", c, [status |-> {status}], channel[c])
    /\ UNCHANGED channelVars

SetStatus(k) ==
    /\ At(k, "set_status")
    /\ LET q == call[k]
           row == channel[q.on]
       IN  channel' = IF row = None THEN channel ELSE [channel EXCEPT ![q.on].status =
                         Written(row.status, q.loaded.status, q.arg.status)]
    /\ Finish(k)
    /\ UNCHANGED <<template, tested>>

\* POST .../test.
BeginTest(k, c) ==
    /\ c \in ChannelRows
    /\ Begin(k, "test_channel", c, None, channel[c])
    /\ UNCHANGED channelVars

TestChannel(k) ==
    /\ At(k, "test_channel")
    /\ LET q == call[k]
           sent == q.on \in ChannelRows /\ ~SendRaises(q.loaded, "info")
       IN  IF sent THEN \E d \in Deliveries(q.on, q.loaded) : tested' = tested \cup {d}
                   ELSE UNCHANGED tested
    /\ Finish(k)
    /\ UNCHANGED <<channel, template>>

BeginDeleteChannel(k, c) ==
    /\ c \in ChannelRows
    /\ Begin(k, "delete_channel", c, None, channel[c])
    /\ UNCHANGED channelVars

\* Deliveries stay, without their channel.
DeleteChannel(k) ==
    /\ At(k, "delete_channel")
    /\ channel' = [channel EXCEPT ![call[k].on] = None]
    /\ tested' = {d \in tested : d.channel # call[k].on}
    /\ Finish(k)
    /\ UNCHANGED template

---------------------------------------------------------------------------
\* POST, PATCH and DELETE /notification-templates.  Their columns may be written in any
\* combination, so what a handler loaded before does not matter.
CreateTemplate(k, t, row) ==
    /\ \A s \in TemplateIds : template[s] # None => s < t
    /\ Do(k, "create_template", <<t>>)
    /\ template' = [template EXCEPT ![t] = row]
    /\ UNCHANGED <<channel, tested>>

UpdateTemplate(k, t, row) ==
    /\ t \in TemplateRows
    /\ Do(k, "update_template", <<t>>)
    /\ template' = [template EXCEPT ![t] = row]
    /\ UNCHANGED <<channel, tested>>

DeleteTemplate(k, t) ==
    /\ t \in TemplateRows
    /\ Do(k, "delete_template", <<t>>)
    /\ template' = [template EXCEPT ![t] = None]
    /\ UNCHANGED <<channel, tested>>

ChannelCall ==
    \E k \in CallIds :
       \/ \E c \in ChannelIds, type \in Types, status \in Statuses : CreateChannel(k, c, type, status)
       \/ \E c \in ChannelIds, patch \in Patches : BeginUpdateChannel(k, c, patch)
       \/ \E c \in ChannelIds, status \in Statuses : BeginSetStatus(k, c, status)
       \/ \E c \in ChannelIds : BeginTest(k, c) \/ BeginDeleteChannel(k, c)
       \/ UpdateChannel(k) \/ SetStatus(k) \/ TestChannel(k) \/ DeleteChannel(k)
       \/ \E t \in TemplateIds, row \in Texts : CreateTemplate(k, t, row) \/ UpdateTemplate(k, t, row)
       \/ \E t \in TemplateIds : DeleteTemplate(k, t)

ChannelsTypeOK ==
    /\ channel \in [ChannelIds -> Channel \cup {None}]
    /\ template \in [TemplateIds -> Template \cup {None}]
    /\ tested \subseteq Delivery

\* api/notifications.py:123: a stored configuration is for the stored type, so that its
\* sender finds the keys it needs.  Only a null configuration, and two overlapping PATCH
\* requests, of which one changes the type the other was validated for, break it.
ConfigFitsType ==
    \A c \in ChannelRows :
       channel[c].config \in {channel[c].type, "null"} \/ c \in raced
===========================================================================
