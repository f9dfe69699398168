---------------------------- MODULE Workspaces ----------------------------
(***************************************************************************)
(* Workspaces, their members and the jobs in them: api/workspaces.py,      *)
(* services/workspace.py and get_active_workspace.  Names, slugs and the   *)
(* role of a membership are left out.                                      *)
(***************************************************************************)
EXTENDS Calls, FiniteSets

CONSTANTS
    WorkspaceIds,
    Users,  \* accounts that are not administrators, who may enter any workspace
    Jobs

Scope == WorkspaceIds \cup {None}
NoJob == <<"none">>

VARIABLES
    workspace,  \* committed rows: None, or whether it is the default
    members,    \* rows of workspace_memberships
    job         \* per job NoJob, or its workspace_id

workspaceVars == <<workspace, members, job>>

Membership == [id : CallIds, workspace : WorkspaceIds, user : Users]
Row == [is_default : BOOLEAN]
Rows == {w \in WorkspaceIds : workspace[w] # None}
Defaults == {w \in Rows : workspace[w].is_default}
MembershipsOf(w, u) == {m \in members : m.workspace = w /\ m.user = u}

InitWorkspaces ==
    /\ workspace \in [WorkspaceIds -> {None, [is_default |-> FALSE]}]
    /\ members = {}
    /\ job = [j \in Jobs |-> NoJob]

\* The API starts: get_or_create_default_workspace, unless the database does not answer.
Start ==
    /\ ~up
    /\ up' = TRUE
    /\ \/ UNCHANGED workspace
       \/ /\ Defaults = {}
          /\ \E w \in IF Rows # {} THEN Rows ELSE WorkspaceIds :
                workspace' = [workspace EXCEPT ![w] = [is_default |-> TRUE]]
    /\ UNCHANGED <<members, job, call, raced>>

CreateWorkspace(k, w) ==
    /\ w \notin Rows /\ Fresh(w)
    /\ Do(k, "create_workspace", w)
    /\ workspace' = [workspace EXCEPT ![w] = [is_default |-> FALSE]]
    /\ UNCHANGED <<members, job>>

\* 404, and 400 for the default workspace.
BeginDeleteWorkspace(k, w) ==
    /\ w \in Rows \ Defaults
    /\ Begin(k, "delete_workspace", w, None, workspace[w])
    /\ UNCHANGED workspaceVars

\* Mutant of DeleteWorkspace: the memberships stay.
DeleteAlone(k) ==
    /\ At(k, "delete_workspace")
    /\ LET w == call[k].on IN
       /\ workspace' = [workspace EXCEPT ![w] = None]
       /\ members' = members
       /\ job' = [j \in Jobs |-> IF job[j] = w THEN None ELSE job[j]]
    /\ Finish(k)

\* Memberships go with their workspace; jobs stay without one.
DeleteWorkspace(k) ==
    /\ At(k, "delete_workspace")
    /\ LET w == call[k].on IN
       /\ workspace' = [workspace EXCEPT ![w] = None]
       /\ members' = {m \in members : m.workspace # w}
       /\ job' = [j \in Jobs |-> IF job[j] = w THEN None ELSE job[j]]
    /\ Finish(k)

\* 404, and 409 for a member.
BeginAddMember(k, w, u) ==
    /\ w \in Rows
    /\ MembershipsOf(w, u) = {}
    /\ Begin(k, "add_member", <<w, u>>, None, None)
    /\ UNCHANGED workspaceVars

\* No constraint keeps a second membership out.
AddMember(k) ==
    /\ At(k, "add_member")
    /\ LET w == call[k].on[1]
           u == call[k].on[2]
       IN  members' = IF w \in Rows
                      THEN members \cup {[id |-> k, workspace |-> w, user |-> u]}
                      ELSE members
    /\ Finish(k)
    /\ UNCHANGED <<workspace, job>>

\* scalar_one_or_none raises for two memberships: they cannot be removed.
BeginRemoveMember(k, w, u) ==
    /\ \E m \in members : /\ MembershipsOf(w, u) = {m}
                          /\ Begin(k, "remove_member", <<w, u>>, None, m)
    /\ UNCHANGED workspaceVars

RemoveMember(k) ==
    /\ At(k, "remove_member")
    /\ members' = members \ {call[k].loaded}
    /\ Finish(k)
    /\ UNCHANGED <<workspace, job>>

\* get_active_workspace: no header, or a workspace that exists and has the caller as a
\* member, once.
MayEnter(u, scope) ==
    scope = None \/ (scope \in Rows /\ Cardinality(MembershipsOf(scope, u)) = 1)

\* POST /jobs takes the workspace of the header.
BeginCreateJob(k, u, j, scope) ==
    /\ job[j] = NoJob /\ Fresh(j)
    /\ MayEnter(u, scope)
    /\ Begin(k, "create_job", j, scope, None)
    /\ UNCHANGED workspaceVars

CreateJob(k) ==
    /\ At(k, "create_job")
    /\ LET q == call[k]
           kept == q.arg \in Rows \cup {None}
       IN  job' = IF kept THEN [job EXCEPT ![q.on] = q.arg] ELSE job
    /\ Finish(k)
    /\ UNCHANGED <<workspace, members>>

WorkspaceCall ==
    \E k \in CallIds :
       \/ \E w \in WorkspaceIds : CreateWorkspace(k, w) \/ BeginDeleteWorkspace(k, w)
       \/ \E w \in WorkspaceIds, u \in Users : BeginAddMember(k, w, u) \/ BeginRemoveMember(k, w, u)
       \/ \E u \in Users, j \in Jobs, scope \in Scope : BeginCreateJob(k, u, j, scope)
       \/ DeleteWorkspace(k) \/ AddMember(k) \/ RemoveMember(k) \/ CreateJob(k)

WorkspacesTypeOK ==
    /\ workspace \in [WorkspaceIds -> Row \cup {None}]
    /\ members \subseteq Membership
    /\ job \in [Jobs -> Scope \cup {NoJob}]

\* services/workspace.py, api/workspaces.py:83: what workspaces hold together.  At most one
\* is the default, members and jobs belong to workspaces that exist, and a user is a member
\* once.  Two additions of one user that overlap each find no membership and leave two,
\* which lock the user out; nothing else does.
MembershipsHold ==
    /\ Cardinality(Defaults) <= 1
    /\ \A m \in members : m.workspace \in Rows
    /\ \A j \in Jobs : job[j] \in Rows \cup {None, NoJob}
    /\ \A w \in WorkspaceIds, u \in Users :
          Cardinality(MembershipsOf(w, u)) > 1 => <<w, u>> \in raced
===========================================================================
