----------------------------- MODULE MCRouting -----------------------------
(***************************************************************************)
(* Small instances of Routing.                                             *)
(***************************************************************************)
EXTENDS Routing, TLC

CONSTANTS slack, pagerduty

\* Another type alone; either type with its configuration; a null configuration.
Body(type, config, status) == [type |-> type, config |-> config, status |-> status]
MCPatches == {Body({slack}, {}, {"active"}), Body({slack}, {slack}, {}),
              Body({pagerduty}, {pagerduty}, {}), Body({}, {"null"}, {"paused"})}

\* A malformed text for errors; the default for all; another one for all.
Text(severity, default, text) ==
    [severity_filter |-> severity, is_default |-> default, text |-> text]
MCTexts == {Text("error", FALSE, "malformed"), Text("every", TRUE, "fine"),
            Text("every", FALSE, "malformed")}

\* The API is started on a database in use: with or without channels, and with
\* workspaces of which none is the default yet.
ConfiguredInit ==
    /\ up = FALSE
    /\ InitCalls
    /\ InitWorkspaces
    /\ channel \in [ChannelIds ->
          {None, [type |-> slack, config |-> slack, status |-> "active", workspace |-> None]}]
    /\ template = [t \in TemplateIds |-> None]
    /\ tested = {}
    /\ dispatch = [a \in Alerts |-> NotRaised]

ConfiguredSpec == ConfiguredInit /\ [][Next]_vars

Symmetry == Permutations(CallIds) \cup Permutations(WorkspaceIds) \cup Permutations(ChannelIds)
===========================================================================
