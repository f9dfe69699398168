--------------------------- MODULE RoutingProofs ---------------------------
(***************************************************************************)
(* Proofs about workspaces, channels and the way of an alert to them, for  *)
(* any number of rows and of calls that overlap.                           *)
(***************************************************************************)
EXTENDS Routing, FiniteSetTheorems, TLAPS

---------------------------------------------------------------------------
(* Calls                                                                   *)

\* A call that is made has these fields.
CallShape(k) ==
    LET q == call[k] IN
    q # Unused =>
       /\ q = [op |-> q.op, on |-> q.on, arg |-> q.arg, loaded |-> q.loaded, pc |-> q.pc]
       /\ q.pc \in {"write", "ended"}

\* What the handler under way has read.
LoadedOK(q) ==
    /\ q.op = "delete_workspace" => q.on \in WorkspaceIds
    /\ q.op = "add_member" => q.on \in WorkspaceIds \X Users
    /\ q.op = "create_job" => q.on \in Jobs
    /\ q.op \in {"update_channel", "set_status", "test_channel", "delete_channel"} =>
          q.on \in ChannelIds /\ q.loaded \in Channel
    /\ q.op = "update_channel" => q.arg \in Patches /\ ~RefusesType(q.loaded, q.arg)
    /\ q.op = "set_status" => \E s \in Statuses : q.arg = [status |-> {s}]

Writing(k) == call[k] # Unused /\ call[k].pc = "write"

CallsInv ==
    /\ call = [k \in CallIds |-> call[k]]
    /\ \A k \in CallIds : CallShape(k) /\ (Writing(k) => LoadedOK(call[k]))

---------------------------------------------------------------------------
(* Workspaces, channels and dispatches                                     *)

\* An addition under way finds no membership when it writes, unless it was raced.
AdditionOK(k) ==
    At(k, "add_member") /\ MembershipsOf(call[k].on[1], call[k].on[2]) # {} =>
       call[k].on \in raced

WorkspacesInv ==
    /\ \A v, w \in Defaults : v = w
    /\ \A m \in members : m.workspace \in Rows
    /\ \A j \in Jobs : job[j] \in Rows \cup {None, NoJob}
    /\ \A w \in WorkspaceIds, u \in Users :
          <<w, u>> \notin raced => \A m, n \in MembershipsOf(w, u) : m = n
    /\ \A k \in CallIds : AdditionOK(k)

\* The type of a channel is the one an update under way has read, unless it was raced.
UpdateOK(k) ==
    At(k, "update_channel") /\ call[k].on \in ChannelRows /\ call[k].on \notin raced =>
       channel[call[k].on].type = call[k].loaded.type

ChannelsInv ==
    /\ ConfigFitsType
    /\ \A k \in CallIds : UpdateOK(k)

\* What a dispatch has selected, as long as nothing changes.
HearsOK(a) ==
    dispatch[a] # NotRaised =>
       LET d == dispatch[a] IN
       /\ Sent(a) \subseteq Selected(a)
       /\ \A x, y \in d.sent : x.channel = y.channel => x = y
       /\ d.pc = "new" => d.sent = {} /\ \A c \in ChannelIds : d.rows[c] = None
       /\ d.calm => \A c \in ChannelIds : d.rows[c] # None =>
             c \in ChannelRows /\ InScope(channel[c], d.scope)
       /\ d.pc = "ended" => Selected(a) \subseteq Sent(a)
       /\ d.calm /\ d.pc \in {"sending", "ended", "raised"} =>
             \A c \in ChannelIds :
                d.rows[c] = IF c \in ChannelRows /\ InScope(channel[c], d.scope)
                            THEN channel[c] ELSE None
       /\ d.calm /\ d.pc = "raised" =>
             \/ _resolve_template("error") = "malformed"
             \/ \E c \in ChannelRows : InScope(channel[c], d.scope) /\ channel[c].config = "null"

RoutingInv ==
    /\ TypeOK /\ CallsInv /\ WorkspacesInv /\ ChannelsInv
    /\ \A a \in Alerts : HearsOK(a)

---------------------------------------------------------------------------
\* A call is no empty tuple.
LEMMA CallIsMade ==
    ASSUME NEW op, NEW on, NEW arg, NEW loaded, NEW pc
    PROVE  [op |-> op, on |-> on, arg |-> arg, loaded |-> loaded, pc |-> pc] # Unused
<1>1. PICK q : q = [op |-> op, on |-> on, arg |-> arg, loaded |-> loaded, pc |-> pc]
  OBVIOUS
<1>2. "op" \in DOMAIN q
  BY <1>1
<1>3. DOMAIN Unused = {}
  BY DEF Unused
<1>. QED  BY <1>1, <1>2, <1>3

\* The handler of call k has read what it decides on.
LEMMA CallBegins ==
    ASSUME CallsInv, NEW k \in CallIds, NEW op, NEW on, NEW arg, NEW row,
           Begin(k, op, on, arg, row),
           LoadedOK([op |-> op, on |-> on, arg |-> arg, loaded |-> row, pc |-> "write"])
    PROVE  /\ CallsInv'
           /\ \A j \in CallIds \ {k} : call'[j] = call[j]
           /\ call'[k].op = op /\ call'[k].on = on /\ call'[k].arg = arg
           /\ call'[k].loaded = row /\ call'[k].pc = "write"
           /\ raced' = raced
<1>1. PICK q : q = [op |-> op, on |-> on, arg |-> arg, loaded |-> row, pc |-> "write"]
  OBVIOUS
<1>2. /\ call[k] = Unused /\ call' = [call EXCEPT ![k] = q] /\ raced' = raced
      /\ call = [j \in CallIds |-> call[j]]
  BY <1>1 DEF Begin, CallsInv
<1>3. /\ call' = [j \in CallIds |-> call'[j]] /\ call'[k] = q
      /\ \A j \in CallIds \ {k} : call'[j] = call[j]
  BY <1>2
<1>4. /\ q # Unused /\ LoadedOK(q)
      /\ q.op = op /\ q.on = on /\ q.arg = arg /\ q.loaded = row /\ q.pc = "write"
  BY <1>1, CallIsMade
<1>5. CallShape(k)' /\ LoadedOK(call[k])'
  <2>1. LoadedOK(call'[k])
    BY <1>3, <1>4
  <2>. QED  BY <1>1, <1>2, <1>3, <1>4, <2>1 DEF CallShape, LoadedOK, RefusesType
<1>6. \A j \in CallIds \ {k} : CallShape(j)' /\ (Writing(j)' => LoadedOK(call[j])')
  BY <1>2, <1>3 DEF CallsInv, CallShape, Writing, LoadedOK, RefusesType
<1>. QED  BY <1>2, <1>3, <1>4, <1>5, <1>6 DEF CallsInv

\* What call k has read when it writes.
LEMMA CallKnown ==
    ASSUME CallsInv, NEW k \in CallIds, NEW op, At(k, op)
    PROVE  /\ call[k] # Unused /\ call[k].op = op /\ call[k].pc = "write"
           /\ LoadedOK(call[k])
  BY DEF CallsInv, At, Writing, CallShape

\* Call k ends.
LEMMA CallEnds ==
    ASSUME CallsInv, NEW k \in CallIds, NEW op, At(k, op), Finish(k)
    PROVE  /\ CallsInv'
           /\ \A j \in CallIds \ {k} : call'[j] = call[j]
           /\ call'[k].pc = "ended"
           /\ raced \subseteq raced'
           /\ \A j \in CallIds \ {k} : At(j, op) /\ call[j].on = call[k].on => call[k].on \in raced'
<1>1. PICK q : q = [call[k] EXCEPT !.pc = "ended"]
  OBVIOUS
<1>2. /\ call' = [call EXCEPT ![k] = q] /\ call = [j \in CallIds |-> call[j]]
  BY <1>1 DEF Finish, CallsInv
<1>3. /\ call' = [j \in CallIds |-> call'[j]] /\ call'[k] = q
      /\ \A j \in CallIds \ {k} : call'[j] = call[j]
  BY <1>2
<1>4. /\ CallShape(k) /\ call[k] # Unused /\ call[k].op = op /\ call[k].pc = "write"
  BY CallKnown DEF CallsInv
<1>5. /\ q = [op |-> op, on |-> call[k].on, arg |-> call[k].arg, loaded |-> call[k].loaded,
              pc |-> "ended"]
      /\ q # Unused
  <2>1. q = [op |-> op, on |-> call[k].on, arg |-> call[k].arg, loaded |-> call[k].loaded,
              pc |-> "ended"]
    BY <1>1, <1>4 DEF CallShape
  <2>. QED  BY <2>1, CallIsMade
<1>6. q.op = op /\ q.pc = "ended"
  BY <1>5
<1>7. CallShape(k)' /\ ~Writing(k)'
  BY <1>2, <1>3, <1>4, <1>5, <1>6 DEF CallShape, Writing
<1>8. \A j \in CallIds \ {k} : CallShape(j)' /\ (Writing(j)' => LoadedOK(call[j])')
  BY <1>2, <1>3 DEF CallsInv, CallShape, Writing, LoadedOK, RefusesType
<1>9. /\ raced \subseteq raced'
      /\ \A j \in CallIds \ {k} : At(j, op) /\ call[j].on = call[k].on => call[k].on \in raced'
  BY <1>4 DEF Finish, At
<1>. QED  BY <1>3, <1>6, <1>7, <1>8, <1>9 DEF CallsInv

\* A call that reads nothing it decides on.
LEMMA CallIsDone ==
    ASSUME CallsInv, NEW k \in CallIds, NEW op, NEW on, Do(k, op, on)
    PROVE  /\ CallsInv'
           /\ \A j \in CallIds \ {k} : call'[j] = call[j]
           /\ call'[k].pc = "ended"
           /\ raced' = raced
<1>1. PICK q : q = [op |-> op, on |-> on, arg |-> None, loaded |-> None, pc |-> "ended"]
  OBVIOUS
<1>2. /\ call[k] = Unused /\ call' = [call EXCEPT ![k] = q] /\ raced' = raced
      /\ call = [j \in CallIds |-> call[j]]
  BY <1>1 DEF Do, CallsInv
<1>3. /\ call' = [j \in CallIds |-> call'[j]] /\ call'[k] = q
      /\ \A j \in CallIds \ {k} : call'[j] = call[j]
  BY <1>2
<1>4. q # Unused /\ q.op = op /\ q.pc = "ended"
  BY <1>1, CallIsMade
<1>5. CallShape(k)' /\ ~Writing(k)'
  <2>1. q = [op |-> q.op, on |-> q.on, arg |-> q.arg, loaded |-> q.loaded, pc |-> q.pc]
    BY <1>1
  <2>. QED  BY <1>3, <1>4, <2>1 DEF CallShape, Writing
<1>6. \A j \in CallIds \ {k} : CallShape(j)' /\ (Writing(j)' => LoadedOK(call[j])')
  BY <1>2, <1>3 DEF CallsInv, CallShape, Writing, LoadedOK, RefusesType
<1>. QED  BY <1>2, <1>3, <1>4, <1>5, <1>6 DEF CallsInv

\* The process stops.
LEMMA CallsStop ==
    ASSUME CallsInv, StopCalls
    PROVE  CallsInv' /\ raced' = raced /\ \A k \in CallIds : ~Writing(k)'
<1>1. /\ call' = [k \in CallIds |-> IF call[k] = Unused THEN Unused ELSE [call[k] EXCEPT !.pc = "ended"]]
      /\ raced' = raced
  BY DEF StopCalls
<1>2. ASSUME NEW k \in CallIds PROVE CallShape(k)' /\ ~Writing(k)'
  <2>1. CASE call[k] = Unused
    BY <1>1, <2>1 DEF CallsInv, CallShape, Writing
  <2>2. CASE call[k] # Unused
    <3>1. PICK q : q = [call[k] EXCEPT !.pc = "ended"]
      OBVIOUS
    <3>2. call'[k] = q /\ CallShape(k)
      BY <1>1, <2>2, <3>1 DEF CallsInv
    <3>3. q = [op |-> call[k].op, on |-> call[k].on, arg |-> call[k].arg,
               loaded |-> call[k].loaded, pc |-> "ended"]
      BY <2>2, <3>1, <3>2 DEF CallShape
    <3>4. q # Unused
      BY <3>3, CallIsMade
    <3>. QED  BY <1>1, <2>2, <3>2, <3>3, <3>4 DEF CallShape, Writing
  <2>. QED  BY <2>1, <2>2
<1>3. call' = [k \in CallIds |-> call'[k]]
  BY <1>1
<1>. QED  BY <1>1, <1>2, <1>3 DEF CallsInv

\* No handler begins op, and those under way go on.
KeepsAt(op) == \A j \in CallIds : At(j, op)' => At(j, op) /\ call'[j] = call[j]

LEMMA OthersKeptAt ==
    ASSUME NEW k \in CallIds, NEW op, NEW other, op # other,
           \A j \in CallIds \ {k} : call'[j] = call[j],
           call'[k].pc = "ended" \/ call'[k].op = op
    PROVE  KeepsAt(other)
  BY DEF KeepsAt, At

LEMMA EndedKeptAt ==
    ASSUME NEW k \in CallIds, NEW op,
           \A j \in CallIds \ {k} : call'[j] = call[j], call'[k].pc = "ended"
    PROVE  KeepsAt(op)
  BY DEF KeepsAt, At

---------------------------------------------------------------------------
(* Workspaces                                                              *)

LEMMA RowIsThere == \A b : [is_default |-> b] # None
<1>. SUFFICES ASSUME NEW b PROVE [is_default |-> b] # None
  OBVIOUS
<1>1. PICK r : r = [is_default |-> b]
  OBVIOUS
<1>2. "is_default" \in DOMAIN r /\ DOMAIN None = {}
  BY <1>1 DEF None
<1>. QED  BY <1>1, <1>2

LEMMA WorkspacesKept ==
    ASSUME WorkspacesInv, UNCHANGED workspaceVars, raced \subseteq raced', KeepsAt("add_member")
    PROVE  WorkspacesInv'
<1>1. workspace' = workspace /\ members' = members /\ job' = job
  BY DEF workspaceVars
<1>2. Rows' = Rows /\ Defaults' = Defaults
  BY <1>1 DEF Rows, Defaults
<1>3. \A w, u : MembershipsOf(w, u)' = MembershipsOf(w, u)
  BY <1>1 DEF MembershipsOf
<1>4. ASSUME NEW k \in CallIds PROVE AdditionOK(k)'
  <2>1. AdditionOK(k)
    BY DEF WorkspacesInv
  <2>. QED  BY <1>1, <2>1 DEF AdditionOK, KeepsAt, MembershipsOf
<1>5. \A w \in WorkspaceIds, u \in Users :
         <<w, u>> \notin raced' => \A m, n \in MembershipsOf(w, u)' : m = n
  BY <1>3 DEF WorkspacesInv
<1>. QED  BY <1>1, <1>2, <1>4, <1>5 DEF WorkspacesInv

\* What is known of the workspaces when a call concerns them.
LEMMA WorkspacesKnown ==
    ASSUME RoutingInv
    PROVE  /\ CallsInv /\ WorkspacesInv /\ WorkspacesTypeOK
           /\ workspace \in [WorkspaceIds -> Row \cup {None}]
           /\ members \subseteq Membership
           /\ job \in [Jobs -> Scope \cup {NoJob}]
  BY DEF RoutingInv, TypeOK, WorkspacesTypeOK

\* A step that makes rows and no memberships.
LEMMA RowsGrow ==
    ASSUME WorkspacesInv, members' = members, job' = job, Rows \subseteq Rows',
           \A v, w \in Defaults' : v = w,
           raced \subseteq raced', KeepsAt("add_member")
    PROVE  WorkspacesInv'
<1>1. \A w, u : MembershipsOf(w, u)' = MembershipsOf(w, u)
  BY DEF MembershipsOf
<1>2. ASSUME NEW k \in CallIds PROVE AdditionOK(k)'
  <2>1. AdditionOK(k)
    BY DEF WorkspacesInv
  <2>. QED  BY <2>1 DEF AdditionOK, KeepsAt, MembershipsOf
<1>3. \A w \in WorkspaceIds, u \in Users :
         <<w, u>> \notin raced' => \A m, n \in MembershipsOf(w, u)' : m = n
  BY <1>1 DEF WorkspacesInv
<1>4. /\ \A m \in members' : m.workspace \in Rows'
      /\ \A j \in Jobs : job'[j] \in Rows' \cup {None, NoJob}
  BY DEF WorkspacesInv
<1>. QED  BY <1>2, <1>3, <1>4 DEF WorkspacesInv

LEMMA StartStep ==
    ASSUME RoutingInv, Start
    PROVE  CallsInv' /\ WorkspacesInv' /\ WorkspacesTypeOK'
<1>1. /\ members' = members /\ job' = job /\ call' = call /\ raced' = raced
      /\ \/ workspace' = workspace
         \/ /\ Defaults = {}
            /\ \E w \in WorkspaceIds : workspace' = [workspace EXCEPT ![w] = [is_default |-> TRUE]]
  BY DEF Start, Rows
<1>2. CallsInv'
  BY <1>1, WorkspacesKnown DEF CallsInv, CallShape, Writing, LoadedOK, RefusesType
<1>3. KeepsAt("add_member")
  BY <1>1 DEF KeepsAt, At
<1>4. CASE workspace' = workspace
  BY <1>1, <1>2, <1>3, <1>4, WorkspacesKept, WorkspacesKnown DEF WorkspacesTypeOK, workspaceVars
<1>5. ASSUME NEW w \in WorkspaceIds, Defaults = {},
             workspace' = [workspace EXCEPT ![w] = [is_default |-> TRUE]]
      PROVE  WorkspacesInv' /\ WorkspacesTypeOK'
  <2>1. PICK r : r = [is_default |-> TRUE]
    OBVIOUS
  <2>2. r \in Row /\ r # None
    BY <2>1, RowIsThere DEF Row
  <2>3. workspace' = [workspace EXCEPT ![w] = r]
    BY <1>5, <2>1
  <2>4. WorkspacesTypeOK'
    BY <1>1, <2>2, <2>3, WorkspacesKnown DEF WorkspacesTypeOK
  <2>5. Rows \subseteq Rows' /\ \A v \in Defaults' : v = w
    BY <1>5, <2>2, <2>3, WorkspacesKnown DEF Rows, Defaults
  <2>. QED  BY <1>1, <1>3, <2>4, <2>5, RowsGrow, WorkspacesKnown
<1>. QED  BY <1>1, <1>2, <1>4, <1>5

\* What a call about workspaces leaves behind.
WorkspaceCallOK ==
    /\ CallsInv' /\ WorkspacesInv' /\ WorkspacesTypeOK'
    /\ raced \subseteq raced' /\ KeepsAt("update_channel")

LEMMA CreateWorkspaceStep ==
    ASSUME RoutingInv, NEW k \in CallIds, NEW w \in WorkspaceIds, CreateWorkspace(k, w)
    PROVE  WorkspaceCallOK
<1>1. Do(k, "create_workspace", w)
  BY DEF CreateWorkspace, Do
<1>2. /\ CallsInv' /\ raced' = raced /\ KeepsAt("add_member") /\ KeepsAt("update_channel")
  BY <1>1, CallIsDone, EndedKeptAt, WorkspacesKnown
<1>3. PICK r : r = [is_default |-> FALSE]
  OBVIOUS
<1>4. r \in Row /\ r # None /\ ~r.is_default
  BY <1>3, RowIsThere DEF Row
<1>5. /\ workspace' = [workspace EXCEPT ![w] = r] /\ members' = members /\ job' = job
  BY <1>3 DEF CreateWorkspace
<1>6. WorkspacesTypeOK'
  BY <1>4, <1>5, WorkspacesKnown DEF WorkspacesTypeOK
<1>7. Rows \subseteq Rows' /\ Defaults' \subseteq Defaults
  BY <1>4, <1>5, WorkspacesKnown DEF Rows, Defaults
<1>8. \A v, x \in Defaults' : v = x
  BY <1>7, WorkspacesKnown DEF WorkspacesInv
<1>. QED  BY <1>2, <1>5, <1>6, <1>7, <1>8, RowsGrow, WorkspacesKnown DEF WorkspaceCallOK

\* A handler that begins changes no row; it is no addition that finds a membership.
LEMMA WorkspaceCallBegins ==
    ASSUME RoutingInv, NEW k \in CallIds,
           \/ \E w \in WorkspaceIds : BeginDeleteWorkspace(k, w)
           \/ \E w \in WorkspaceIds, u \in Users : BeginRemoveMember(k, w, u)
           \/ \E u \in Users, j \in Jobs, scope \in Scope : BeginCreateJob(k, u, j, scope)
    PROVE  WorkspaceCallOK
<1>1. UNCHANGED workspaceVars
  BY DEF BeginDeleteWorkspace, BeginRemoveMember, BeginCreateJob
<1>2. PICK op, on, arg, row :
         /\ Begin(k, op, on, arg, row)
         /\ \/ op = "delete_workspace" /\ on \in WorkspaceIds
            \/ op = "remove_member"
            \/ op = "create_job" /\ on \in Jobs
  BY DEF BeginDeleteWorkspace, BeginRemoveMember, BeginCreateJob
<1>3. LoadedOK([op |-> op, on |-> on, arg |-> arg, loaded |-> row, pc |-> "write"])
  <2>1. PICK q : q = [op |-> op, on |-> on, arg |-> arg, loaded |-> row, pc |-> "write"]
    OBVIOUS
  <2>2. q.op = op /\ q.on = on
    BY <2>1
  <2>3. LoadedOK(q)
    BY <1>2, <2>2 DEF LoadedOK
  <2>. QED  BY <2>1, <2>3
<1>4. /\ CallsInv' /\ raced' = raced /\ KeepsAt("add_member") /\ KeepsAt("update_channel")
  <2>1. /\ CallsInv' /\ raced' = raced /\ call'[k].op = op
        /\ \A j \in CallIds \ {k} : call'[j] = call[j]
    BY <1>2, <1>3, CallBegins, WorkspacesKnown
  <2>2. op # "add_member" /\ op # "update_channel"
    BY <1>2
  <2>. QED  BY <2>1, <2>2, OthersKeptAt
<1>5. WorkspacesTypeOK'
  BY <1>1, WorkspacesKnown DEF WorkspacesTypeOK, workspaceVars
<1>. QED  BY <1>1, <1>4, <1>5, WorkspacesKept, WorkspacesKnown DEF WorkspaceCallOK

LEMMA BeginAddMemberStep ==
    ASSUME RoutingInv, NEW k \in CallIds, NEW w \in WorkspaceIds, NEW u \in Users,
           BeginAddMember(k, w, u)
    PROVE  WorkspaceCallOK
<1>1. PICK on, q : /\ on = <<w, u>>
                   /\ q = [op |-> "add_member", on |-> on, arg |-> None, loaded |-> None,
                           pc |-> "write"]
  OBVIOUS
<1>2. /\ UNCHANGED workspaceVars /\ MembershipsOf(w, u) = {}
      /\ Begin(k, "add_member", on, None, None)
  BY <1>1 DEF BeginAddMember
<1>3. on \in WorkspaceIds \X Users /\ on[1] = w /\ on[2] = u
  BY <1>1
<1>4. LoadedOK(q)
  BY <1>1, <1>3 DEF LoadedOK
<1>5. /\ CallsInv' /\ raced' = raced /\ call'[k].op = "add_member" /\ call'[k].on = on
      /\ \A j \in CallIds \ {k} : call'[j] = call[j]
  BY <1>1, <1>2, <1>4, CallBegins, WorkspacesKnown
<1>6. KeepsAt("update_channel")
  BY <1>5, OthersKeptAt
<1>7. workspace' = workspace /\ members' = members /\ job' = job
  BY <1>2 DEF workspaceVars
<1>8. ASSUME NEW j \in CallIds PROVE AdditionOK(j)'
  <2>1. CASE j = k
    BY <1>2, <1>3, <1>5, <1>7, <2>1 DEF AdditionOK, MembershipsOf
  <2>2. CASE j # k
    <3>1. AdditionOK(j) /\ call'[j] = call[j]
      BY <1>5, <2>2, WorkspacesKnown DEF WorkspacesInv
    <3>. QED  BY <1>5, <1>7, <3>1 DEF AdditionOK, MembershipsOf, At
  <2>. QED  BY <2>1, <2>2
<1>9. WorkspacesInv'
  <2>1. Rows' = Rows /\ Defaults' = Defaults
    BY <1>7 DEF Rows, Defaults
  <2>2. \A v, x : MembershipsOf(v, x)' = MembershipsOf(v, x)
    BY <1>7 DEF MembershipsOf
  <2>. QED  BY <1>5, <1>7, <1>8, <2>1, <2>2, WorkspacesKnown DEF WorkspacesInv
<1>10. WorkspacesTypeOK'
  BY <1>7, WorkspacesKnown DEF WorkspacesTypeOK
<1>. QED  BY <1>5, <1>6, <1>9, <1>10 DEF WorkspaceCallOK

LEMMA DeleteWorkspaceStep ==
    ASSUME RoutingInv, NEW k \in CallIds, DeleteWorkspace(k)
    PROVE  WorkspaceCallOK
<1>1. At(k, "delete_workspace") /\ Finish(k)
  BY DEF DeleteWorkspace, Finish
<1>2. PICK w : w = call[k].on
  OBVIOUS
<1>3. w \in WorkspaceIds
  BY <1>1, <1>2, CallKnown, WorkspacesKnown DEF LoadedOK
<1>4. /\ CallsInv' /\ raced \subseteq raced' /\ KeepsAt("update_channel") /\ KeepsAt("add_member")
  BY <1>1, CallEnds, EndedKeptAt, WorkspacesKnown
<1>5. /\ workspace' = [workspace EXCEPT ![w] = None]
      /\ members' = {m \in members : m.workspace # w}
      /\ job' = [j \in Jobs |-> IF job[j] = w THEN None ELSE job[j]]
  BY <1>2 DEF DeleteWorkspace
<1>6. WorkspacesTypeOK'
  BY <1>5, WorkspacesKnown DEF WorkspacesTypeOK, Scope
<1>7. Rows' = Rows \ {w} /\ Defaults' \subseteq Defaults
  BY <1>3, <1>5, WorkspacesKnown DEF Rows, Defaults
<1>8. \A v, u : MembershipsOf(v, u)' \subseteq MembershipsOf(v, u)
  BY <1>5 DEF MembershipsOf
<1>9. ASSUME NEW j \in CallIds PROVE AdditionOK(j)'
  <2>1. AdditionOK(j)
    BY WorkspacesKnown DEF WorkspacesInv
  <2>2. At(j, "add_member")' => call'[j] = call[j] /\ At(j, "add_member")
    BY <1>4 DEF KeepsAt
  <2>. QED  BY <1>4, <1>5, <2>1, <2>2 DEF AdditionOK, MembershipsOf
<1>10. WorkspacesInv'
  <2>1. \A v, x \in Defaults' : v = x
    BY <1>7, WorkspacesKnown DEF WorkspacesInv
  <2>2. \A m \in members' : m.workspace \in Rows'
    BY <1>5, <1>7, WorkspacesKnown DEF WorkspacesInv
  <2>3. \A j \in Jobs : job'[j] \in Rows' \cup {None, NoJob}
    BY <1>5, <1>7, WorkspacesKnown DEF WorkspacesInv
  <2>4. \A v \in WorkspaceIds, u \in Users :
           <<v, u>> \notin raced' => \A m, n \in MembershipsOf(v, u)' : m = n
    BY <1>4, <1>8, WorkspacesKnown DEF WorkspacesInv
  <2>. QED  BY <1>9, <2>1, <2>2, <2>3, <2>4 DEF WorkspacesInv
<1>. QED  BY <1>4, <1>6, <1>10 DEF WorkspaceCallOK

\* The second of two additions is under way when the first is written, which says so.
LEMMA AddMemberStep ==
    ASSUME RoutingInv, NEW k \in CallIds, AddMember(k)
    PROVE  WorkspaceCallOK
<1>1. PICK w, u, on, m0 : /\ w = call[k].on[1] /\ u = call[k].on[2] /\ on = call[k].on
                          /\ m0 = [id |-> k, workspace |-> w, user |-> u]
  OBVIOUS
<1>2. At(k, "add_member") /\ Finish(k)
  BY <1>1 DEF AddMember, Finish
<1>3. /\ w \in WorkspaceIds /\ u \in Users /\ on = <<w, u>>
  BY <1>1, <1>2, CallKnown, WorkspacesKnown DEF LoadedOK
<1>4. (w \in Rows) \in BOOLEAN
  OBVIOUS
<1>5. /\ CallsInv' /\ raced \subseteq raced' /\ call'[k].pc = "ended"
      /\ \A j \in CallIds \ {k} : call'[j] = call[j]
      /\ \A j \in CallIds \ {k} : At(j, "add_member") /\ call[j].on = on => on \in raced'
  BY <1>1, <1>2, <1>4, CallEnds, WorkspacesKnown
<1>6. /\ members' = IF w \in Rows THEN members \cup {m0} ELSE members
      /\ workspace' = workspace /\ job' = job
  BY <1>1 DEF AddMember
<1>7. m0 \in Membership /\ m0.workspace = w /\ m0.user = u
  BY <1>1, <1>3 DEF Membership
<1>8. WorkspacesTypeOK'
  BY <1>6, <1>7, WorkspacesKnown DEF WorkspacesTypeOK
<1>9. Rows' = Rows /\ Defaults' = Defaults
  BY <1>6 DEF Rows, Defaults
<1>10. ASSUME NEW v \in WorkspaceIds, NEW x \in Users
       PROVE  \/ MembershipsOf(v, x)' = MembershipsOf(v, x)
              \/ v = w /\ x = u /\ MembershipsOf(v, x)' = MembershipsOf(v, x) \cup {m0}
  BY <1>6, <1>7 DEF MembershipsOf
<1>11. MembershipsOf(w, u) # {} => on \in raced
  BY <1>1, <1>2, WorkspacesKnown DEF WorkspacesInv, AdditionOK
<1>12. ASSUME NEW j \in CallIds PROVE AdditionOK(j)'
  <2>1. PICK v, x, at : v = call[j].on[1] /\ x = call[j].on[2] /\ at = call[j].on
    OBVIOUS
  <2>2. ASSUME At(j, "add_member")'
        PROVE  j # k /\ call'[j] = call[j] /\ At(j, "add_member")
    BY <1>5, <2>2 DEF At
  <2>3. At(j, "add_member") => v \in WorkspaceIds /\ x \in Users /\ at = <<v, x>>
    BY <2>1, CallKnown, WorkspacesKnown DEF LoadedOK
  <2>4. At(j, "add_member") /\ MembershipsOf(v, x) # {} => at \in raced
    BY <2>1, WorkspacesKnown DEF WorkspacesInv, AdditionOK
  <2>5. ASSUME At(j, "add_member")', at \notin raced'
        PROVE  MembershipsOf(v, x)' = {}
    <3>1. MembershipsOf(v, x) = {}
      BY <1>5, <2>2, <2>4, <2>5
    <3>2. ~(v = w /\ x = u)
      BY <1>3, <1>5, <2>1, <2>2, <2>3, <2>5
    <3>. QED  BY <1>10, <2>2, <2>3, <2>5, <3>1, <3>2
  <2>6. At(j, "add_member")' => call'[j].on[1] = v /\ call'[j].on[2] = x /\ call'[j].on = at
    BY <2>1, <2>2
  <2>. QED  BY <2>5, <2>6 DEF AdditionOK, MembershipsOf
<1>13. ASSUME NEW v \in WorkspaceIds, NEW x \in Users, <<v, x>> \notin raced'
       PROVE  \A m, n \in MembershipsOf(v, x)' : m = n
  <2>1. \A m, n \in MembershipsOf(v, x) : m = n
    BY <1>5, <1>13, WorkspacesKnown DEF WorkspacesInv
  <2>2. v = w /\ x = u => MembershipsOf(v, x) = {}
    BY <1>3, <1>5, <1>11, <1>13
  <2>. QED  BY <1>10, <2>1, <2>2
<1>14. WorkspacesInv'
  <2>1. \A m \in members' : m.workspace \in Rows'
    BY <1>6, <1>7, <1>9, WorkspacesKnown DEF WorkspacesInv
  <2>. QED  BY <1>6, <1>9, <1>12, <1>13, <2>1, WorkspacesKnown DEF WorkspacesInv
<1>. QED  BY <1>5, <1>8, <1>14, EndedKeptAt DEF WorkspaceCallOK

LEMMA RemoveMemberStep ==
    ASSUME RoutingInv, NEW k \in CallIds, RemoveMember(k)
    PROVE  WorkspaceCallOK
<1>1. At(k, "remove_member") /\ Finish(k)
  BY DEF RemoveMember, Finish
<1>2. /\ CallsInv' /\ raced \subseteq raced' /\ KeepsAt("update_channel") /\ KeepsAt("add_member")
  BY <1>1, CallEnds, EndedKeptAt, WorkspacesKnown
<1>3. members' \subseteq members /\ workspace' = workspace /\ job' = job
  BY DEF RemoveMember
<1>4. Rows' = Rows /\ Defaults' = Defaults
  BY <1>3 DEF Rows, Defaults
<1>5. \A w, u : MembershipsOf(w, u)' \subseteq MembershipsOf(w, u)
  BY <1>3 DEF MembershipsOf
<1>6. ASSUME NEW j \in CallIds PROVE AdditionOK(j)'
  <2>1. AdditionOK(j)
    BY WorkspacesKnown DEF WorkspacesInv
  <2>2. At(j, "add_member")' => call'[j] = call[j] /\ At(j, "add_member")
    BY <1>2 DEF KeepsAt
  <2>. QED  BY <1>2, <1>3, <2>1, <2>2 DEF AdditionOK, MembershipsOf
<1>7. \A w \in WorkspaceIds, u \in Users :
         <<w, u>> \notin raced' => \A m, n \in MembershipsOf(w, u)' : m = n
  BY <1>2, <1>5, WorkspacesKnown DEF WorkspacesInv
<1>8. WorkspacesTypeOK' /\ WorkspacesInv'
  <2>1. WorkspacesTypeOK'
    BY <1>3, WorkspacesKnown DEF WorkspacesTypeOK
  <2>2. \A m \in members' : m.workspace \in Rows'
    BY <1>3, <1>4, WorkspacesKnown DEF WorkspacesInv
  <2>. QED  BY <1>3, <1>4, <1>6, <1>7, <2>1, <2>2, WorkspacesKnown DEF WorkspacesInv
<1>. QED  BY <1>2, <1>8 DEF WorkspaceCallOK

LEMMA CreateJobStep ==
    ASSUME RoutingInv, NEW k \in CallIds, CreateJob(k)
    PROVE  WorkspaceCallOK
<1>1. PICK q, kept : q = call[k] /\ kept = (call[k].arg \in Rows \cup {None})
  OBVIOUS
<1>2. At(k, "create_job") /\ Finish(k)
  BY DEF CreateJob
<1>3. q.on \in Jobs
  BY <1>1, <1>2, CallKnown, WorkspacesKnown DEF LoadedOK
<1>4. /\ CallsInv' /\ raced \subseteq raced' /\ KeepsAt("update_channel") /\ KeepsAt("add_member")
  BY <1>2, CallEnds, EndedKeptAt, WorkspacesKnown
<1>5. /\ job' = IF kept THEN [job EXCEPT ![q.on] = q.arg] ELSE job
      /\ workspace' = workspace /\ members' = members
  BY <1>1 DEF CreateJob
<1>6. Rows' = Rows /\ Defaults' = Defaults /\ Rows \subseteq WorkspaceIds
  BY <1>5 DEF Rows, Defaults
<1>7. \A w, u : MembershipsOf(w, u)' = MembershipsOf(w, u)
  BY <1>5 DEF MembershipsOf
<1>8. /\ job' \in [Jobs -> Scope \cup {NoJob}]
      /\ \A j \in Jobs : job'[j] \in Rows \cup {None, NoJob}
  <2>1. kept => q.arg \in Rows \cup {None} /\ q.arg \in Scope
    BY <1>1, <1>6 DEF Scope
  <2>2. \A j \in Jobs : job[j] \in Rows \cup {None, NoJob}
    BY WorkspacesKnown DEF WorkspacesInv
  <2>. QED  BY <1>3, <1>5, <2>1, <2>2, WorkspacesKnown
<1>9. ASSUME NEW j \in CallIds PROVE AdditionOK(j)'
  <2>1. AdditionOK(j)
    BY WorkspacesKnown DEF WorkspacesInv
  <2>2. At(j, "add_member")' => call'[j] = call[j] /\ At(j, "add_member")
    BY <1>4 DEF KeepsAt
  <2>. QED  BY <1>4, <1>5, <2>1, <2>2 DEF AdditionOK, MembershipsOf
<1>10. \A w \in WorkspaceIds, u \in Users :
         <<w, u>> \notin raced' => \A m, n \in MembershipsOf(w, u)' : m = n
  BY <1>4, <1>7, WorkspacesKnown DEF WorkspacesInv
<1>11. WorkspacesTypeOK' /\ WorkspacesInv'
  BY <1>5, <1>6, <1>8, <1>9, <1>10, WorkspacesKnown DEF WorkspacesTypeOK, WorkspacesInv
<1>. QED  BY <1>4, <1>11 DEF WorkspaceCallOK

LEMMA WorkspaceCallStep ==
    ASSUME RoutingInv, WorkspaceCall
    PROVE  WorkspaceCallOK
<1>. PICK k \in CallIds :
       \/ \E w \in WorkspaceIds : CreateWorkspace(k, w) \/ BeginDeleteWorkspace(k, w)
       \/ \E w \in WorkspaceIds, u \in Users : BeginAddMember(k, w, u) \/ BeginRemoveMember(k, w, u)
       \/ \E u \in Users, j \in Jobs, scope \in Scope : BeginCreateJob(k, u, j, scope)
       \/ DeleteWorkspace(k) \/ AddMember(k) \/ RemoveMember(k) \/ CreateJob(k)
  BY DEF WorkspaceCall
<1>. QED  BY CreateWorkspaceStep, WorkspaceCallBegins, BeginAddMemberStep, DeleteWorkspaceStep,
             AddMemberStep, RemoveMemberStep, CreateJobStep

---------------------------------------------------------------------------
(* Channels                                                                *)

LEMMA ChannelIsThere == \A r \in Channel : r # None
<1>. SUFFICES ASSUME NEW r \in Channel PROVE r # None
  OBVIOUS
<1>1. "type" \in DOMAIN r /\ DOMAIN None = {}
  BY DEF Channel, None
<1>. QED  BY <1>1

\* The value a field of a body has, when it is there.
LEMMA OptionalField ==
    ASSUME NEW S, NEW field \in Optional(S), field # {}
    PROVE  \E x \in S : field = {x} /\ (CHOOSE y \in field : TRUE) = x
<1>1. PICK x \in S : field = {x}
  BY DEF Optional
<1>2. (CHOOSE y \in field : TRUE) \in field
  BY <1>1
<1>. QED  BY <1>1, <1>2

LEMMA WrittenField ==
    ASSUME NEW S, NEW now \in S, NEW was, NEW field \in Optional(S)
    PROVE  Written(now, was, field) \in S
<1>1. CASE field = {}
  BY <1>1 DEF Written
<1>2. CASE field # {}
  BY <1>2, OptionalField DEF Written
<1>. QED  BY <1>1, <1>2

LEMMA ChannelsKnown ==
    ASSUME RoutingInv
    PROVE  /\ CallsInv /\ ChannelsInv /\ ChannelsTypeOK
           /\ channel \in [ChannelIds -> Channel \cup {None}]
           /\ template \in [TemplateIds -> Template \cup {None}]
           /\ tested \subseteq Delivery
  BY DEF RoutingInv, TypeOK, ChannelsTypeOK

LEMMA ChannelsKept ==
    ASSUME ChannelsInv, channel' = channel, raced \subseteq raced', KeepsAt("update_channel")
    PROVE  ChannelsInv'
<1>1. ChannelRows' = ChannelRows
  BY DEF ChannelRows
<1>2. ConfigFitsType'
  BY <1>1 DEF ChannelsInv, ConfigFitsType
<1>3. ASSUME NEW k \in CallIds PROVE UpdateOK(k)'
  <2>1. UpdateOK(k)
    BY DEF ChannelsInv
  <2>. QED  BY <1>1, <2>1 DEF UpdateOK, KeepsAt
<1>. QED  BY <1>2, <1>3 DEF ChannelsInv

\* One row changes: it fits its type, and the updates under way on it know its type.
LEMMA ChannelsChange ==
    ASSUME ChannelsInv, channel \in [ChannelIds -> Channel \cup {None}],
           NEW c \in ChannelIds, NEW r, channel' = [channel EXCEPT ![c] = r],
           raced \subseteq raced', KeepsAt("update_channel"),
           r # None => r.config \in {r.type, "null"} \/ c \in raced',
           \A j \in CallIds :
              At(j, "update_channel")' /\ call[j].on = c =>
                 c \in raced' \/ r = None \/ (channel[c] # None /\ r.type = channel[c].type)
    PROVE  ChannelsInv'
<1>1. ChannelRows' \subseteq ChannelRows \cup {c} /\ (c \in ChannelRows' <=> r # None)
  BY DEF ChannelRows
<1>2. \A d \in ChannelIds \ {c} : channel'[d] = channel[d]
  OBVIOUS
<1>3. ConfigFitsType'
  BY <1>1, <1>2 DEF ChannelsInv, ConfigFitsType, ChannelRows
<1>4. ASSUME NEW k \in CallIds PROVE UpdateOK(k)'
  <2>1. UpdateOK(k) /\ (At(k, "update_channel")' => At(k, "update_channel") /\ call'[k] = call[k])
    BY DEF ChannelsInv, KeepsAt
  <2>2. CASE call[k].on = c
    BY <1>1, <2>1, <2>2 DEF UpdateOK, ChannelRows
  <2>3. CASE call[k].on # c
    BY <1>1, <1>2, <2>1, <2>3 DEF UpdateOK, ChannelRows
  <2>. QED  BY <2>2, <2>3
<1>. QED  BY <1>3, <1>4 DEF ChannelsInv

\* What a call about channels leaves behind.
ChannelCallOK ==
    /\ CallsInv' /\ ChannelsInv' /\ ChannelsTypeOK'
    /\ raced \subseteq raced' /\ KeepsAt("add_member")

LEMMA CreateChannelStep ==
    ASSUME RoutingInv, NEW k \in CallIds, NEW c \in ChannelIds, NEW type \in Types,
           NEW status \in Statuses, CreateChannel(k, c, type, status)
    PROVE  ChannelCallOK
<1>1. Do(k, "create_channel", c) /\ Fresh(c)
  BY DEF CreateChannel, Do
<1>2. /\ CallsInv' /\ raced' = raced /\ KeepsAt("add_member") /\ KeepsAt("update_channel")
  BY <1>1, CallIsDone, EndedKeptAt, ChannelsKnown
<1>3. PICK r : r = [type |-> type, config |-> type, status |-> status, workspace |-> None]
  OBVIOUS
<1>4. r \in Channel /\ r.config = r.type
  BY <1>3 DEF Channel, Configs
<1>5. channel' = [channel EXCEPT ![c] = r] /\ template' = template /\ tested' = tested
  BY <1>3 DEF CreateChannel
<1>6. ChannelsTypeOK'
  BY <1>4, <1>5, ChannelsKnown DEF ChannelsTypeOK
<1>7. ASSUME NEW j \in CallIds, At(j, "update_channel")' PROVE call[j].on # c
  BY <1>1, <1>2, <1>7 DEF KeepsAt, At, Fresh
<1>8. ChannelsInv'
  BY <1>2, <1>4, <1>5, <1>7, ChannelsChange, ChannelsKnown
<1>. QED  BY <1>2, <1>6, <1>8 DEF ChannelCallOK

LEMMA BeginUpdateChannelStep ==
    ASSUME RoutingInv, NEW k \in CallIds, NEW c \in ChannelIds, NEW patch \in Patches,
           BeginUpdateChannel(k, c, patch)
    PROVE  ChannelCallOK
<1>1. PICK row, q : /\ row = channel[c]
                    /\ q = [op |-> "update_channel", on |-> c, arg |-> patch, loaded |-> row,
                            pc |-> "write"]
  OBVIOUS
<1>2. /\ channel' = channel /\ template' = template /\ tested' = tested
      /\ c \in ChannelRows /\ ~RefusesType(row, patch)
      /\ Begin(k, "update_channel", c, patch, row)
  BY <1>1 DEF BeginUpdateChannel, channelVars
<1>3. row \in Channel
  BY <1>1, <1>2, ChannelsKnown DEF ChannelRows
<1>4. LoadedOK(q)
  <2>1. q.op = "update_channel" /\ q.on = c /\ q.arg = patch /\ q.loaded = row
    BY <1>1
  <2>2. ~RefusesType(q.loaded, q.arg)
    BY <1>2, <2>1 DEF RefusesType
  <2>. QED  BY <1>3, <2>1, <2>2 DEF LoadedOK
<1>5. /\ CallsInv' /\ raced' = raced /\ call'[k].op = "update_channel"
      /\ call'[k].on = c /\ call'[k].loaded = row
      /\ \A j \in CallIds \ {k} : call'[j] = call[j]
  BY <1>1, <1>2, <1>4, CallBegins, ChannelsKnown
<1>6. KeepsAt("add_member")
  BY <1>5, OthersKeptAt
<1>7. ASSUME NEW j \in CallIds PROVE UpdateOK(j)'
  <2>1. CASE j = k
    BY <1>1, <1>2, <1>5, <2>1 DEF UpdateOK
  <2>2. CASE j # k
    <3>1. UpdateOK(j) /\ call'[j] = call[j]
      BY <1>5, <2>2, ChannelsKnown DEF ChannelsInv
    <3>. QED  BY <1>2, <1>5, <3>1 DEF UpdateOK, ChannelRows, At
  <2>. QED  BY <2>1, <2>2
<1>8. ChannelsInv'
  <2>1. ChannelRows' = ChannelRows
    BY <1>2 DEF ChannelRows
  <2>2. ConfigFitsType'
    BY <1>2, <1>5, <2>1, ChannelsKnown DEF ChannelsInv, ConfigFitsType
  <2>. QED  BY <1>7, <2>2 DEF ChannelsInv
<1>9. ChannelsTypeOK'
  BY <1>2, ChannelsKnown DEF ChannelsTypeOK
<1>. QED  BY <1>5, <1>6, <1>8, <1>9 DEF ChannelCallOK

\* A handler that begins changes no row.
LEMMA ChannelCallBegins ==
    ASSUME RoutingInv, NEW k \in CallIds, NEW c \in ChannelIds,
           \/ \E status \in Statuses : BeginSetStatus(k, c, status)
           \/ BeginTest(k, c) \/ BeginDeleteChannel(k, c)
    PROVE  ChannelCallOK
<1>1. PICK row : row = channel[c]
  OBVIOUS
<1>2. PICK op, arg :
         /\ Begin(k, op, c, arg, row)
         /\ \/ op = "set_status" /\ \E s \in Statuses : arg = [status |-> {s}]
            \/ op \in {"test_channel", "delete_channel"}
  BY <1>1 DEF BeginSetStatus, BeginTest, BeginDeleteChannel
<1>3. /\ channel' = channel /\ template' = template /\ tested' = tested
      /\ c \in ChannelRows
  BY DEF BeginSetStatus, BeginTest, BeginDeleteChannel, channelVars
<1>4. row \in Channel
  BY <1>1, <1>3, ChannelsKnown DEF ChannelRows
<1>5. LoadedOK([op |-> op, on |-> c, arg |-> arg, loaded |-> row, pc |-> "write"])
  <2>1. PICK q : q = [op |-> op, on |-> c, arg |-> arg, loaded |-> row, pc |-> "write"]
    OBVIOUS
  <2>2. q.op = op /\ q.on = c /\ q.arg = arg /\ q.loaded = row
    BY <2>1
  <2>3. LoadedOK(q)
    BY <1>2, <1>4, <2>2 DEF LoadedOK
  <2>. QED  BY <2>1, <2>3
<1>6. /\ CallsInv' /\ raced' = raced /\ call'[k].op = op
      /\ \A j \in CallIds \ {k} : call'[j] = call[j]
  BY <1>2, <1>5, CallBegins, ChannelsKnown
<1>7. op # "add_member" /\ op # "update_channel"
  BY <1>2
<1>8. KeepsAt("add_member") /\ KeepsAt("update_channel")
  BY <1>6, <1>7, OthersKeptAt
<1>9. ChannelsTypeOK'
  BY <1>3, ChannelsKnown DEF ChannelsTypeOK
<1>. QED  BY <1>3, <1>6, <1>8, <1>9, ChannelsKept, ChannelsKnown DEF ChannelCallOK

Patched(row, t, s, c) == [row EXCEPT !.type = t, !.status = s, !.config = c]

LEMMA RowPatched ==
    ASSUME NEW row \in Channel, NEW t \in Types, NEW s \in Statuses, NEW c \in Configs
    PROVE  /\ Patched(row, t, s, c) \in Channel
           /\ Patched(row, t, s, c).type = t /\ Patched(row, t, s, c).config = c
<1>1. PICK r : r = [row EXCEPT !.type = t, !.status = s, !.config = c]
  OBVIOUS
<1>2. r \in Channel
  BY <1>1 DEF Channel
<1>3. "type" \in DOMAIN row /\ "config" \in DOMAIN row
  BY DEF Channel
<1>4. r.type = t /\ r.config = c
  BY <1>1, <1>3
<1>5. r = Patched(row, t, s, c)
  BY <1>1 DEF Patched
<1>. QED  BY <1>2, <1>4, <1>5

\* A patch that changes the type comes with a configuration for it, or a null one.
LEMMA PatchFits ==
    ASSUME NEW was \in Channel, NEW row \in Channel, NEW arg \in Patches,
           ~RefusesType(was, arg),
           NEW t, t = Written(row.type, was.type, arg.type),
           NEW s, s = Written(row.status, was.status, arg.status),
           NEW c, c = IF arg.config = {} THEN row.config ELSE CHOOSE x \in arg.config : TRUE
    PROVE  /\ t \in Types /\ s \in Statuses /\ c \in Configs
           /\ row.type = was.type /\ row.config \in {row.type, "null"} => c \in {t, "null"}
<1>1. /\ arg.type \in Optional(Types) /\ arg.config \in Optional(Configs)
      /\ arg.status \in Optional(Statuses)
      /\ \/ arg.config \in {{}, {"null"}}
         \/ \E ty \in arg.type, co \in arg.config : co = ty
  BY ChannelAssumption DEF Patch, _validate_channel_config
<1>2. row.type \in Types /\ row.config \in Configs /\ row.status \in Statuses
  BY DEF Channel
<1>3. t \in Types /\ s \in Statuses /\ c \in Configs
  BY <1>1, <1>2, WrittenField, OptionalField
<1>4. CASE arg.config = {}
  <2>1. arg.type \subseteq {was.type}
    BY <1>4 DEF RefusesType
  <2>2. t = row.type /\ c = row.config
    BY <1>4, <2>1 DEF Written
  <2>. QED  BY <1>3, <2>2
<1>5. CASE arg.config # {}
  <2>1. PICK x \in Configs : arg.config = {x} /\ c = x
    BY <1>1, <1>5, OptionalField
  <2>2. CASE x = "null"
    BY <1>3, <2>1, <2>2
  <2>3. CASE x # "null"
    <3>1. arg.type # {} /\ x \in arg.type
      BY <1>1, <2>1, <2>3
    <3>2. arg.type = {x} /\ (CHOOSE y \in arg.type : TRUE) = x
      BY <1>1, <3>1, OptionalField
    <3>3. row.type = was.type => t = x
      BY <3>2 DEF Written
    <3>. QED  BY <1>3, <2>1, <3>3
  <2>. QED  BY <2>2, <2>3
<1>. QED  BY <1>3, <1>4, <1>5

\* A call that changes no channel.
LEMMA UpdateIsLost ==
    ASSUME RoutingInv, channel' = channel, template' = template, tested' = tested,
           raced \subseteq raced', KeepsAt("update_channel")
    PROVE  ChannelsInv' /\ ChannelsTypeOK'
  BY ChannelsKept, ChannelsKnown DEF ChannelsTypeOK

\* The patch fits the type that the handler has read, which is the stored one unless
\* another patch came between, which the first of the two to be written says.
LEMMA UpdateChannelStep ==
    ASSUME RoutingInv, NEW k \in CallIds, UpdateChannel(k)
    PROVE  ChannelCallOK
<1>1. PICK ch, was, row, arg :
         /\ ch = call[k].on /\ was = call[k].loaded /\ row = channel[call[k].on]
         /\ arg = call[k].arg
  OBVIOUS
<1>2. At(k, "update_channel") /\ Finish(k)
  BY DEF UpdateChannel
<1>3. /\ ch \in ChannelIds /\ was \in Channel /\ arg \in Patches /\ ~RefusesType(was, arg)
  <2>1. LoadedOK(call[k]) /\ call[k].op = "update_channel"
    BY <1>2, CallKnown, ChannelsKnown
  <2>. QED  BY <1>1, <2>1 DEF LoadedOK, RefusesType
<1>4. /\ CallsInv' /\ raced \subseteq raced' /\ KeepsAt("add_member") /\ KeepsAt("update_channel")
      /\ \A j \in CallIds \ {k} : At(j, "update_channel") /\ call[j].on = ch => ch \in raced'
      /\ ~At(k, "update_channel")'
  <2>1. /\ CallsInv' /\ raced \subseteq raced' /\ call'[k].pc = "ended"
        /\ \A j \in CallIds \ {k} : call'[j] = call[j]
        /\ \A j \in CallIds \ {k} : At(j, "update_channel") /\ call[j].on = call[k].on =>
              call[k].on \in raced'
    BY <1>2, CallEnds, ChannelsKnown
  <2>2. ~At(k, "update_channel")'
    BY <2>1 DEF At
  <2>. QED  BY <1>1, <2>1, <2>2, EndedKeptAt
<1>5. template' = template /\ tested' = tested
  BY DEF UpdateChannel
<1>6. CASE row = None
  <2>1. channel' = channel
    BY <1>1, <1>6 DEF UpdateChannel
  <2>. QED  BY <1>4, <1>5, <2>1, UpdateIsLost DEF ChannelCallOK
<1>7. CASE row # None
  <2>1. row \in Channel
    BY <1>1, <1>3, <1>7, ChannelsKnown
  <2>2. PICK t, s, c :
           /\ t = Written(row.type, was.type, arg.type)
           /\ s = Written(row.status, was.status, arg.status)
           /\ c = IF arg.config = {} THEN row.config ELSE CHOOSE x \in arg.config : TRUE
    OBVIOUS
  <2>3. /\ t \in Types /\ s \in Statuses /\ c \in Configs
        /\ row.type = was.type /\ row.config \in {row.type, "null"} => c \in {t, "null"}
    BY <1>3, <2>1, <2>2, PatchFits
  <2>4. PICK r \in Channel : r = Patched(row, t, s, c) /\ r.type = t /\ r.config = c
    BY <2>1, <2>3, RowPatched
  <2>5. channel' = [channel EXCEPT ![ch] = r]
    BY <1>1, <1>7, <2>2, <2>4, Zenon DEF UpdateChannel, Patched
  <2>6. ch \in raced' \/ (row.type = was.type /\ row.config \in {row.type, "null"})
    <3>1. UpdateOK(k) /\ ConfigFitsType
      BY ChannelsKnown DEF ChannelsInv
    <3>2. ch \in ChannelRows
      BY <1>1, <1>3, <1>7 DEF ChannelRows
    <3>. QED  BY <1>1, <1>2, <1>4, <3>1, <3>2 DEF UpdateOK, ConfigFitsType
  <2>7. ASSUME NEW j \in CallIds, At(j, "update_channel")', call[j].on = ch
        PROVE  ch \in raced'
    BY <1>4, <2>7 DEF KeepsAt
  <2>8. ChannelsInv'
    <3>1. r.config \in {r.type, "null"} \/ ch \in raced'
      BY <2>3, <2>4, <2>6
    <3>. QED  BY <1>3, <1>4, <2>5, <2>7, <3>1, ChannelsChange, ChannelsKnown
  <2>9. ChannelsTypeOK'
    BY <1>5, <2>4, <2>5, ChannelsKnown DEF ChannelsTypeOK
  <2>. QED  BY <1>4, <2>8, <2>9 DEF ChannelCallOK
<1>. QED  BY <1>6, <1>7

LEMMA SetStatusStep ==
    ASSUME RoutingInv, NEW k \in CallIds, SetStatus(k)
    PROVE  ChannelCallOK
<1>1. PICK ch, row, s :
         /\ ch = call[k].on /\ row = channel[call[k].on]
         /\ s = Written(channel[call[k].on].status, call[k].loaded.status, call[k].arg.status)
  OBVIOUS
<1>2. At(k, "set_status") /\ Finish(k)
  BY DEF SetStatus
<1>3. /\ ch \in ChannelIds /\ \E x \in Statuses : call[k].arg.status = {x}
  <2>1. LoadedOK(call[k]) /\ call[k].op = "set_status"
    BY <1>2, CallKnown, ChannelsKnown
  <2>2. PICK x \in Statuses : call[k].arg = [status |-> {x}]
    BY <2>1 DEF LoadedOK
  <2>3. call[k].arg.status = {x}
    BY <2>2
  <2>. QED  BY <1>1, <2>1, <2>3 DEF LoadedOK
<1>4. /\ CallsInv' /\ raced \subseteq raced' /\ KeepsAt("add_member") /\ KeepsAt("update_channel")
  BY <1>2, CallEnds, EndedKeptAt, ChannelsKnown
<1>5. template' = template /\ tested' = tested
  BY DEF SetStatus
<1>6. CASE row = None
  <2>1. channel' = channel
    BY <1>1, <1>6 DEF SetStatus
  <2>. QED  BY <1>4, <1>5, <2>1, UpdateIsLost DEF ChannelCallOK
<1>7. CASE row # None
  <2>1. row \in Channel
    BY <1>1, <1>3, <1>7, ChannelsKnown
  <2>2. s \in Statuses
    <3>1. call[k].arg.status \in Optional(Statuses)
      BY <1>3 DEF Optional
    <3>2. row.status \in Statuses
      BY <2>1 DEF Channel
    <3>. QED  BY <1>1, <3>1, <3>2, WrittenField
  <2>3. PICK r : r = [row EXCEPT !.status = s]
    OBVIOUS
  <2>4. r \in Channel /\ r.type = row.type /\ r.config = row.config
    BY <2>1, <2>2, <2>3 DEF Channel
  <2>5. channel' = [channel EXCEPT ![ch] = r]
    <3>1. channel' = [channel EXCEPT ![ch].status = s]
      BY <1>1, <1>7 DEF SetStatus
    <3>. QED  BY <1>1, <2>3, <3>1
  <2>6. r.config \in {r.type, "null"} \/ ch \in raced'
    <3>1. ConfigFitsType /\ ch \in ChannelRows
      BY <1>1, <1>3, <1>7, ChannelsKnown DEF ChannelsInv, ChannelRows
    <3>. QED  BY <1>1, <1>4, <2>4, <3>1 DEF ConfigFitsType
  <2>7. channel[ch] # None /\ r.type = channel[ch].type
    BY <1>1, <1>7, <2>4
  <2>8. ChannelsInv'
    BY <1>3, <1>4, <2>5, <2>6, <2>7, ChannelsChange, ChannelsKnown
  <2>9. ChannelsTypeOK'
    BY <1>5, <2>4, <2>5, ChannelsKnown DEF ChannelsTypeOK
  <2>. QED  BY <1>4, <2>8, <2>9 DEF ChannelCallOK
<1>. QED  BY <1>6, <1>7

LEMMA TestChannelStep ==
    ASSUME RoutingInv, NEW k \in CallIds, TestChannel(k)
    PROVE  ChannelCallOK
<1>2. At(k, "test_channel") /\ Finish(k)
  BY DEF TestChannel
<1>3. /\ CallsInv' /\ raced \subseteq raced' /\ KeepsAt("add_member") /\ KeepsAt("update_channel")
  BY <1>2, CallEnds, EndedKeptAt, ChannelsKnown
<1>4. /\ channel' = channel /\ template' = template
      /\ tested' = tested \/ \E d \in Delivery : tested' = tested \cup {d}
  BY DEF TestChannel, Deliveries
<1>5. ChannelsTypeOK'
  BY <1>4, ChannelsKnown DEF ChannelsTypeOK
<1>. QED  BY <1>3, <1>4, <1>5, ChannelsKept, ChannelsKnown DEF ChannelCallOK

LEMMA DeleteChannelStep ==
    ASSUME RoutingInv, NEW k \in CallIds, DeleteChannel(k)
    PROVE  ChannelCallOK
<1>1. PICK c : c = call[k].on
  OBVIOUS
<1>2. At(k, "delete_channel") /\ Finish(k)
  BY DEF DeleteChannel, Finish
<1>3. c \in ChannelIds
  BY <1>1, <1>2, CallKnown, ChannelsKnown DEF LoadedOK
<1>4. /\ CallsInv' /\ raced \subseteq raced' /\ KeepsAt("add_member") /\ KeepsAt("update_channel")
  BY <1>2, CallEnds, EndedKeptAt, ChannelsKnown
<1>5. channel' = [channel EXCEPT ![c] = None] /\ template' = template /\ tested' \subseteq tested
  BY <1>1 DEF DeleteChannel
<1>6. ChannelsTypeOK'
  BY <1>5, ChannelsKnown DEF ChannelsTypeOK
<1>7. ChannelsInv'
  BY <1>3, <1>4, <1>5, ChannelsChange, ChannelsKnown
<1>. QED  BY <1>4, <1>6, <1>7 DEF ChannelCallOK

LEMMA TemplateStep ==
    ASSUME RoutingInv, NEW k \in CallIds, NEW t \in TemplateIds,
           \/ \E row \in Texts : CreateTemplate(k, t, row) \/ UpdateTemplate(k, t, row)
           \/ DeleteTemplate(k, t)
    PROVE  ChannelCallOK
<1>1. PICK op \in {"create_template", "update_template", "delete_template"} :
         Do(k, op, <<t>>)
  BY DEF CreateTemplate, UpdateTemplate, DeleteTemplate
<1>2. Do(k, op, <<t>>)
  BY <1>1 DEF Do
<1>3. /\ CallsInv' /\ raced' = raced /\ KeepsAt("add_member") /\ KeepsAt("update_channel")
  BY <1>2, CallIsDone, EndedKeptAt, ChannelsKnown
<1>4. PICK row \in Template \cup {None} : template' = [template EXCEPT ![t] = row]
  BY ChannelAssumption DEF CreateTemplate, UpdateTemplate, DeleteTemplate
<1>5. channel' = channel /\ tested' = tested
  BY DEF CreateTemplate, UpdateTemplate, DeleteTemplate
<1>6. ChannelsTypeOK'
  BY <1>4, <1>5, ChannelsKnown DEF ChannelsTypeOK
<1>. QED  BY <1>3, <1>5, <1>6, ChannelsKept, ChannelsKnown DEF ChannelCallOK

LEMMA ChannelCallStep ==
    ASSUME RoutingInv, ChannelCall
    PROVE  ChannelCallOK
<1>. PICK k \in CallIds :
       \/ \E c \in ChannelIds, type \in Types, status \in Statuses : CreateChannel(k, c, type, status)
       \/ \E c \in ChannelIds, patch \in Patches : BeginUpdateChannel(k, c, patch)
       \/ \E c \in ChannelIds, status \in Statuses : BeginSetStatus(k, c, status)
       \/ \E c \in ChannelIds : BeginTest(k, c) \/ BeginDeleteChannel(k, c)
       \/ UpdateChannel(k) \/ SetStatus(k) \/ TestChannel(k) \/ DeleteChannel(k)
       \/ \E t \in TemplateIds, row \in Texts : CreateTemplate(k, t, row) \/ UpdateTemplate(k, t, row)
       \/ \E t \in TemplateIds : DeleteTemplate(k, t)
  BY DEF ChannelCall
<1>. QED  BY CreateChannelStep, BeginUpdateChannelStep, ChannelCallBegins, UpdateChannelStep,
             SetStatusStep, TestChannelStep, DeleteChannelStep, TemplateStep

---------------------------------------------------------------------------
(* Dispatches                                                              *)

LEMMA DispatchIsThere == \A d \in Dispatch : d # NotRaised
<1>. SUFFICES ASSUME NEW d \in Dispatch PROVE d # NotRaised
  OBVIOUS
<1>1. "pc" \in DOMAIN d /\ DOMAIN NotRaised = {}
  BY DEF Dispatch, NotRaised
<1>. QED  BY <1>1

\* A step of a dispatch leaves the calls and what they write alone.
LEMMA CallsAreKept ==
    ASSUME RoutingInv, UNCHANGED <<callVars, workspaceVars, channelVars>>
    PROVE  /\ CallsInv' /\ WorkspacesInv' /\ WorkspacesTypeOK' /\ ChannelsInv' /\ ChannelsTypeOK'
           /\ channel' = channel /\ template' = template
<1>1. /\ call' = call /\ raced' = raced /\ UNCHANGED workspaceVars
      /\ workspace' = workspace /\ members' = members /\ job' = job
      /\ channel' = channel /\ template' = template /\ tested' = tested
  BY DEF callVars, workspaceVars, channelVars
<1>2. CallsInv'
  BY <1>1, WorkspacesKnown DEF CallsInv, CallShape, Writing, LoadedOK, RefusesType
<1>3. KeepsAt("add_member") /\ KeepsAt("update_channel")
  BY <1>1 DEF KeepsAt, At
<1>4. WorkspacesInv' /\ ChannelsInv'
  BY <1>1, <1>3, WorkspacesKept, ChannelsKept, WorkspacesKnown, ChannelsKnown
<1>5. WorkspacesTypeOK' /\ ChannelsTypeOK'
  BY <1>1, WorkspacesKnown, ChannelsKnown DEF WorkspacesTypeOK, ChannelsTypeOK
<1>. QED  BY <1>1, <1>2, <1>4, <1>5

LEMMA TemplateKept ==
    ASSUME template' = template
    PROVE  _resolve_template("error")' = _resolve_template("error")
<1>1. TemplateRows' = TemplateRows
  BY DEF TemplateRows
<1>. QED  BY <1>1 DEF _resolve_template, Newest

LEMMA HearsKept ==
    ASSUME NEW a \in Alerts, HearsOK(a), dispatch'[a] = dispatch[a],
           channel' = channel, template' = template
    PROVE  HearsOK(a)'
<1>1. Sent(a)' = Sent(a) /\ Selected(a)' = Selected(a) /\ ChannelRows' = ChannelRows
  BY DEF Sent, Selected, ChannelRows
<1>2. _resolve_template("error")' = _resolve_template("error")
  BY TemplateKept
<1>. QED  BY <1>1, <1>2 DEF HearsOK, InScope

\* What is known of a dispatch.
LEMMA DispatchKnown ==
    ASSUME RoutingInv, NEW a \in Alerts
    PROVE  /\ HearsOK(a) /\ dispatch \in [Alerts -> Dispatch \cup {NotRaised}]
           /\ Running(a) => /\ dispatch[a] \in Dispatch /\ dispatch[a].scope \in Scope
                            /\ dispatch[a].rows \in [ChannelIds -> Channel \cup {None}]
                            /\ dispatch[a].sent \subseteq Delivery
                            /\ dispatch[a].pc \in {"new", "sending"}
<1>1. HearsOK(a) /\ dispatch \in [Alerts -> Dispatch \cup {NotRaised}]
  BY DEF RoutingInv, TypeOK
<1>. QED  BY <1>1 DEF Running, Dispatch

DispatchesOK == dispatch' \in [Alerts -> Dispatch \cup {NotRaised}] /\ \A a \in Alerts : HearsOK(a)'

\* One dispatch moves.
LEMMA DispatchMoves ==
    ASSUME RoutingInv, UNCHANGED <<callVars, workspaceVars, channelVars>>,
           NEW a \in Alerts, NEW d \in Dispatch, dispatch' = [dispatch EXCEPT ![a] = d],
           HearsOK(a)'
    PROVE  RoutingInv'
<1>1. \A b \in Alerts : HearsOK(b) /\ dispatch \in [Alerts -> Dispatch \cup {NotRaised}]
  BY DispatchKnown
<1>2. channel' = channel /\ template' = template
  BY CallsAreKept
<1>3. ASSUME NEW b \in Alerts, b # a PROVE HearsOK(b)'
  BY <1>1, <1>2, <1>3, HearsKept
<1>4. dispatch' \in [Alerts -> Dispatch \cup {NotRaised}]
  BY DispatchKnown
<1>. QED  BY <1>3, <1>4, CallsAreKept DEF RoutingInv, TypeOK

LEMMA RaiseAlertStep ==
    ASSUME RoutingInv, NEW a \in Alerts, NEW j \in Jobs, RaiseAlert(a, j)
    PROVE  RoutingInv'
<1>1. PICK rows, d : /\ rows = [c \in ChannelIds |-> None]
                     /\ d = [pc |-> "new", scope |-> job[j], rows |-> rows, sent |-> {},
                             calm |-> TRUE]
  OBVIOUS
<1>2. /\ dispatch' = [dispatch EXCEPT ![a] = d]
      /\ UNCHANGED <<callVars, workspaceVars, channelVars>>
      /\ job[j] \in Scope
  BY <1>1, WorkspacesKnown DEF RaiseAlert
<1>3. d \in Dispatch
  BY <1>1, <1>2 DEF Dispatch
<1>4. dispatch'[a] = d
  BY <1>2, DispatchKnown
<1>5. /\ d.pc = "new" /\ d.sent = {} /\ d.rows = rows
      /\ \A c \in ChannelIds : rows[c] = None
  BY <1>1
<1>6. HearsOK(a)'
  BY <1>4, <1>5 DEF HearsOK, Sent
<1>. QED  BY <1>2, <1>3, <1>6, DispatchMoves

LEMMA SelectChannelsStep ==
    ASSUME RoutingInv, NEW a \in Alerts, SelectChannels(a)
    PROVE  RoutingInv'
<1>1. PICK rows, d :
         /\ rows = [c \in ChannelIds |->
                IF c \in ChannelRows /\ InScope(channel[c], dispatch[a].scope)
                THEN channel[c] ELSE None]
         /\ d = [dispatch[a] EXCEPT !.pc = "sending", !.rows = rows]
  OBVIOUS
<1>2. /\ UNCHANGED <<callVars, workspaceVars, channelVars>>
      /\ Running(a) /\ dispatch[a].pc = "new"
  BY DEF SelectChannels
<1>3. dispatch' = [dispatch EXCEPT ![a] = d]
  BY <1>1, DispatchKnown DEF SelectChannels
<1>4. rows \in [ChannelIds -> Channel \cup {None}]
  BY <1>1, ChannelsKnown DEF ChannelRows
<1>5. /\ d \in Dispatch /\ d.pc = "sending" /\ d.rows = rows
      /\ d.sent = dispatch[a].sent /\ d.scope = dispatch[a].scope /\ d.calm = dispatch[a].calm
  BY <1>1, <1>2, <1>4, DispatchKnown DEF Dispatch
<1>6. dispatch'[a] = d /\ dispatch[a].sent = {}
  BY <1>2, <1>3, DispatchKnown DEF HearsOK, Running
<1>7. channel' = channel /\ ChannelRows' = ChannelRows
  BY <1>2 DEF channelVars, ChannelRows
<1>8. HearsOK(a)'
  BY <1>1, <1>5, <1>6, <1>7 DEF HearsOK, Sent, InScope
<1>. QED  BY <1>2, <1>3, <1>5, <1>8, DispatchMoves

\* A dispatch that nothing changed around breaks off for a reason that is still there.
LEMMA SendNextStep ==
    ASSUME RoutingInv, NEW a \in Alerts, SendNext(a)
    PROVE  RoutingInv'
<1>1. /\ UNCHANGED <<callVars, workspaceVars, channelVars>>
      /\ Running(a) /\ dispatch[a].pc = "sending" /\ dispatch[a] # NotRaised
  BY DEF SendNext, Running
<1>2. PICK c \in Selected(a) \ Sent(a) :
         IF SendRaises(dispatch[a].rows[c], "error") \/ c \notin ChannelRows
         THEN dispatch' = [dispatch EXCEPT ![a].pc = "raised"]
         ELSE \E x \in Deliveries(c, dispatch[a].rows[c]) :
                 dispatch' = [dispatch EXCEPT ![a].sent = @ \cup {x}]
  BY DEF SendNext
<1>3. /\ channel' = channel /\ template' = template /\ ChannelRows' = ChannelRows
      /\ _resolve_template("error")' = _resolve_template("error")
  BY <1>1, TemplateKept DEF channelVars, ChannelRows
<1>4. CASE SendRaises(dispatch[a].rows[c], "error") \/ c \notin ChannelRows
  <2>1. PICK d : d = [dispatch[a] EXCEPT !.pc = "raised"]
    OBVIOUS
  <2>2. dispatch' = [dispatch EXCEPT ![a] = d] /\ dispatch'[a] = d
    BY <1>2, <1>4, <2>1, DispatchKnown
  <2>3. /\ d \in Dispatch /\ d.pc = "raised" /\ d.rows = dispatch[a].rows
        /\ d.sent = dispatch[a].sent /\ d.scope = dispatch[a].scope /\ d.calm = dispatch[a].calm
    BY <1>1, <2>1, DispatchKnown DEF Dispatch
  <2>4. /\ Sent(a) \subseteq Selected(a)
        /\ \A x, y \in dispatch[a].sent : x.channel = y.channel => x = y
        /\ dispatch[a].calm =>
              \A e \in ChannelIds :
                 dispatch[a].rows[e] = IF e \in ChannelRows /\ InScope(channel[e], dispatch[a].scope)
                                       THEN channel[e] ELSE None
    BY <1>1, DispatchKnown DEF HearsOK
  <2>5. dispatch[a].calm => \/ _resolve_template("error") = "malformed"
                            \/ \E e \in ChannelRows : /\ InScope(channel[e], dispatch[a].scope)
                                                    /\ channel[e].config = "null"
    <3>1. c \in ChannelIds /\ dispatch[a].rows[c] # None
      BY <1>2 DEF Selected
    <3>2. dispatch[a].calm => /\ c \in ChannelRows /\ dispatch[a].rows[c] = channel[c]
                              /\ InScope(channel[c], dispatch[a].scope)
      BY <2>4, <3>1
    <3>. QED  BY <1>4, <3>2 DEF SendRaises
  <2>6. HearsOK(a)'
    BY <1>3, <2>2, <2>3, <2>4, <2>5 DEF HearsOK, Sent, Selected, InScope
  <2>. QED  BY <1>1, <2>2, <2>3, <2>6, DispatchMoves
<1>5. CASE ~(SendRaises(dispatch[a].rows[c], "error") \/ c \notin ChannelRows)
  <2>1. PICK x \in Deliveries(c, dispatch[a].rows[c]) :
           dispatch' = [dispatch EXCEPT ![a].sent = dispatch[a].sent \cup {x}]
    BY <1>2, <1>5
  <2>2. PICK d : d = [dispatch[a] EXCEPT !.sent = dispatch[a].sent \cup {x}]
    OBVIOUS
  <2>3. dispatch' = [dispatch EXCEPT ![a] = d] /\ dispatch'[a] = d
    BY <2>1, <2>2, DispatchKnown
  <2>4. x \in Delivery /\ x.channel = c
    BY DEF Deliveries
  <2>5. /\ d \in Dispatch /\ d.pc = "sending" /\ d.rows = dispatch[a].rows
        /\ d.sent = dispatch[a].sent \cup {x} /\ d.scope = dispatch[a].scope
        /\ d.calm = dispatch[a].calm
    BY <1>1, <2>2, <2>4, DispatchKnown DEF Dispatch
  <2>6. /\ Sent(a) \subseteq Selected(a)
        /\ \A y, z \in dispatch[a].sent : y.channel = z.channel => y = z
        /\ dispatch[a].calm =>
              \A e \in ChannelIds :
                 dispatch[a].rows[e] = IF e \in ChannelRows /\ InScope(channel[e], dispatch[a].scope)
                                       THEN channel[e] ELSE None
    BY <1>1, DispatchKnown DEF HearsOK
  <2>7. Sent(a)' \subseteq Selected(a)'
    BY <1>2, <2>3, <2>4, <2>5, <2>6 DEF Sent, Selected
  <2>8. \A y, z \in d.sent : y.channel = z.channel => y = z
    BY <1>2, <2>4, <2>5, <2>6 DEF Sent
  <2>9. HearsOK(a)'
    BY <1>3, <2>3, <2>5, <2>6, <2>7, <2>8 DEF HearsOK, InScope
  <2>. QED  BY <1>1, <2>3, <2>5, <2>9, DispatchMoves
<1>. QED  BY <1>4, <1>5

LEMMA EndDispatchStep ==
    ASSUME RoutingInv, NEW a \in Alerts, EndDispatch(a)
    PROVE  RoutingInv'
<1>1. PICK d : d = [dispatch[a] EXCEPT !.pc = "ended"]
  OBVIOUS
<1>2. /\ UNCHANGED <<callVars, workspaceVars, channelVars>>
      /\ Running(a) /\ dispatch[a].pc = "sending" /\ dispatch[a] # NotRaised
      /\ Selected(a) \subseteq Sent(a)
  BY DEF EndDispatch, Running
<1>3. dispatch' = [dispatch EXCEPT ![a] = d] /\ dispatch'[a] = d
  BY <1>1, DispatchKnown DEF EndDispatch
<1>4. /\ d \in Dispatch /\ d.pc = "ended" /\ d.rows = dispatch[a].rows
      /\ d.sent = dispatch[a].sent /\ d.scope = dispatch[a].scope /\ d.calm = dispatch[a].calm
  BY <1>1, <1>2, DispatchKnown DEF Dispatch
<1>5. Sent(a)' = Sent(a) /\ Selected(a)' = Selected(a)
  BY <1>3, <1>4 DEF Sent, Selected
<1>6. channel' = channel /\ ChannelRows' = ChannelRows
  BY <1>2 DEF channelVars, ChannelRows
<1>7. HearsOK(a)'
  BY <1>2, <1>3, <1>4, <1>5, <1>6, DispatchKnown DEF HearsOK, InScope
<1>. QED  BY <1>2, <1>3, <1>4, <1>7, DispatchMoves

LEMMA ConfigureStep ==
    ASSUME RoutingInv, Configure
    PROVE  RoutingInv'
<1>1. ChannelCallOK /\ UNCHANGED workspaceVars
  BY ChannelCallStep DEF Configure
<1>2. workspace' = workspace /\ members' = members /\ job' = job
  BY <1>1 DEF workspaceVars
<1>3. WorkspacesInv' /\ WorkspacesTypeOK'
  BY <1>1, <1>2, WorkspacesKept, WorkspacesKnown DEF ChannelCallOK, WorkspacesTypeOK
<1>4. ASSUME NEW a \in Alerts
      PROVE  dispatch'[a] \in Dispatch \cup {NotRaised} /\ HearsOK(a)'
  <2>1. CASE dispatch[a] = NotRaised \/ (channel' = channel /\ template' = template)
    <3>1. dispatch'[a] = dispatch[a]
      BY <2>1 DEF Configure
    <3>2. CASE dispatch[a] = NotRaised
      BY <3>1, <3>2 DEF HearsOK
    <3>3. CASE channel' = channel /\ template' = template
      BY <3>1, <3>3, HearsKept, DispatchKnown
    <3>. QED  BY <2>1, <3>1, <3>2, <3>3, DispatchKnown
  <2>2. CASE dispatch[a] # NotRaised /\ ~(channel' = channel /\ template' = template)
    <3>1. PICK d : d = [dispatch[a] EXCEPT !.calm = FALSE]
      OBVIOUS
    <3>2. dispatch'[a] = d
      BY <2>2, <3>1 DEF Configure
    <3>3. dispatch[a] \in Dispatch
      BY <2>2, DispatchKnown
    <3>4. /\ d \in Dispatch /\ ~d.calm /\ d.pc = dispatch[a].pc /\ d.rows = dispatch[a].rows
          /\ d.sent = dispatch[a].sent
      BY <3>1, <3>3 DEF Dispatch
    <3>5. Sent(a)' = Sent(a) /\ Selected(a)' = Selected(a)
      BY <3>2, <3>4 DEF Sent, Selected
    <3>6. /\ Sent(a) \subseteq Selected(a)
          /\ \A x, y \in dispatch[a].sent : x.channel = y.channel => x = y
          /\ dispatch[a].pc = "new" =>
                /\ dispatch[a].sent = {}
                /\ \A c \in ChannelIds : dispatch[a].rows[c] = None
          /\ dispatch[a].pc = "ended" => Selected(a) \subseteq Sent(a)
      BY <2>2, DispatchKnown DEF HearsOK
    <3>. QED  BY <3>2, <3>4, <3>5, <3>6 DEF HearsOK
  <2>. QED  BY <2>1, <2>2
<1>5. dispatch' = [a \in Alerts |-> dispatch'[a]]
  BY DEF Configure
<1>6. dispatch' \in [Alerts -> Dispatch \cup {NotRaised}]
  BY <1>4, <1>5
<1>. QED  BY <1>1, <1>3, <1>4, <1>6 DEF RoutingInv, TypeOK, ChannelCallOK

LEMMA StopApiStep ==
    ASSUME RoutingInv, StopApi
    PROVE  RoutingInv'
<1>1. /\ workspace' = workspace /\ members' = members /\ job' = job
      /\ UNCHANGED workspaceVars
      /\ channel' = channel /\ template' = template /\ tested' = tested
  BY DEF StopApi, workspaceVars, channelVars
<1>2. CallsInv' /\ raced' = raced /\ \A k \in CallIds : ~Writing(k)'
  BY CallsStop, WorkspacesKnown DEF StopApi
<1>3. KeepsAt("add_member") /\ KeepsAt("update_channel")
  BY <1>2 DEF KeepsAt, At, Writing
<1>4. WorkspacesInv' /\ ChannelsInv'
  BY <1>1, <1>2, <1>3, WorkspacesKept, ChannelsKept, WorkspacesKnown, ChannelsKnown
<1>5. WorkspacesTypeOK' /\ ChannelsTypeOK'
  BY <1>1, WorkspacesKnown, ChannelsKnown DEF WorkspacesTypeOK, ChannelsTypeOK
<1>6. ASSUME NEW a \in Alerts
      PROVE  dispatch'[a] \in Dispatch \cup {NotRaised} /\ HearsOK(a)'
  <2>1. CASE ~Running(a)
    <3>1. dispatch'[a] = dispatch[a]
      BY <2>1 DEF StopApi
    <3>. QED  BY <1>1, <3>1, HearsKept, DispatchKnown
  <2>2. CASE Running(a)
    <3>1. PICK d : d = [dispatch[a] EXCEPT !.pc = "lost"]
      OBVIOUS
    <3>2. dispatch'[a] = d
      BY <2>2, <3>1 DEF StopApi
    <3>3. /\ d \in Dispatch /\ d.pc = "lost" /\ d.rows = dispatch[a].rows
          /\ d.sent = dispatch[a].sent /\ d.scope = dispatch[a].scope
          /\ d.calm = dispatch[a].calm
      BY <2>2, <3>1, DispatchKnown DEF Dispatch
    <3>4. Sent(a)' = Sent(a) /\ Selected(a)' = Selected(a) /\ Sent(a) \subseteq Selected(a)
      BY <2>2, <3>2, <3>3, DispatchKnown DEF Sent, Selected, HearsOK, Running
    <3>5. /\ \A x, y \in dispatch[a].sent : x.channel = y.channel => x = y
          /\ dispatch[a].calm =>
                \A c \in ChannelIds :
                   dispatch[a].rows[c] # None =>
                      c \in ChannelRows /\ InScope(channel[c], dispatch[a].scope)
      BY <2>2, DispatchKnown DEF HearsOK, Running
    <3>6. ChannelRows' = ChannelRows
      BY <1>1 DEF ChannelRows
    <3>. QED  BY <1>1, <3>2, <3>3, <3>4, <3>5, <3>6 DEF HearsOK, InScope
  <2>. QED  BY <2>1, <2>2
<1>7. dispatch' = [a \in Alerts |-> dispatch'[a]]
  BY DEF StopApi
<1>8. dispatch' \in [Alerts -> Dispatch \cup {NotRaised}]
  BY <1>6, <1>7
<1>. QED  BY <1>2, <1>4, <1>5, <1>6, <1>8 DEF RoutingInv, TypeOK

\* The API starts, or a call about workspaces: channels and dispatches stay as they are.
LEMMA WorkspacesMove ==
    ASSUME RoutingInv, StartApi \/ Administer
    PROVE  RoutingInv'
<1>1. /\ channel' = channel /\ template' = template /\ tested' = tested
      /\ dispatch' = dispatch
  BY DEF StartApi, Administer, channelVars
<1>2. /\ CallsInv' /\ WorkspacesInv' /\ WorkspacesTypeOK'
      /\ raced \subseteq raced' /\ KeepsAt("update_channel")
  <2>1. CASE StartApi
    <3>1. Start
      BY <2>1 DEF StartApi
    <3>2. call' = call /\ raced' = raced
      BY <3>1 DEF Start
    <3>. QED  BY <3>1, <3>2, StartStep DEF KeepsAt, At
  <2>2. CASE Administer
    BY <2>2, WorkspaceCallStep DEF Administer, WorkspaceCallOK
  <2>. QED  BY <2>1, <2>2
<1>3. ChannelsInv' /\ ChannelsTypeOK'
  BY <1>1, <1>2, ChannelsKept, ChannelsKnown DEF ChannelsTypeOK
<1>4. \A a \in Alerts : HearsOK(a)'
  BY <1>1, HearsKept, DispatchKnown
<1>5. dispatch' \in [Alerts -> Dispatch \cup {NotRaised}]
  BY <1>1 DEF RoutingInv, TypeOK
<1>. QED  BY <1>2, <1>3, <1>4, <1>5 DEF RoutingInv, TypeOK

---------------------------------------------------------------------------
(* The invariant                                                           *)

LEMMA RoutingStarts == Init => RoutingInv
<1>. SUFFICES ASSUME Init PROVE RoutingInv
  OBVIOUS
<1>1. /\ call = [k \in CallIds |-> Unused] /\ raced = {}
      /\ workspace \in [WorkspaceIds -> {None, [is_default |-> FALSE]}]
      /\ members = {} /\ job = [j \in Jobs |-> NoJob]
      /\ channel = [c \in ChannelIds |-> None]
      /\ template = [t \in TemplateIds |-> None]
      /\ tested = {} /\ dispatch = [a \in Alerts |-> NotRaised]
  BY DEF Init, InitCalls, InitWorkspaces
<1>2. CallsInv
  BY <1>1 DEF CallsInv, CallShape, Writing
<1>3. \A k \in CallIds : \A op : ~At(k, op)
  BY <1>1 DEF At
<1>4. WorkspacesTypeOK
  <2>1. PICK r : r = [is_default |-> FALSE]
    OBVIOUS
  <2>2. r \in Row
    BY <2>1 DEF Row
  <2>3. workspace \in [WorkspaceIds -> {None, r}]
    BY <1>1, <2>1
  <2>. QED  BY <1>1, <2>2, <2>3 DEF WorkspacesTypeOK
<1>5. WorkspacesInv
  <2>1. Defaults = {}
    <3>1. ASSUME NEW w \in Rows PROVE ~workspace[w].is_default
      <4>1. w \in WorkspaceIds /\ workspace[w] # None
        BY DEF Rows
      <4>2. workspace[w] = [is_default |-> FALSE]
        BY <1>1, <4>1
      <4>. QED  BY <4>2
    <3>. QED  BY <3>1 DEF Defaults
  <2>2. \A w, u : MembershipsOf(w, u) = {}
    BY <1>1 DEF MembershipsOf
  <2>. QED  BY <1>1, <1>3, <2>1, <2>2 DEF WorkspacesInv, AdditionOK
<1>6. ChannelsInv /\ ChannelsTypeOK
  <2>1. ChannelRows = {}
    BY <1>1 DEF ChannelRows
  <2>. QED  BY <1>1, <1>3, <2>1 DEF ChannelsInv, ChannelsTypeOK, ConfigFitsType, UpdateOK
<1>7. /\ dispatch \in [Alerts -> Dispatch \cup {NotRaised}]
      /\ \A a \in Alerts : HearsOK(a)
  BY <1>1 DEF HearsOK
<1>. QED  BY <1>2, <1>4, <1>5, <1>6, <1>7 DEF RoutingInv, TypeOK

LEMMA RoutingStep == RoutingInv /\ [Next]_vars => RoutingInv'
<1>. SUFFICES ASSUME RoutingInv, [Next]_vars PROVE RoutingInv'
  OBVIOUS
<1>1. CASE StartApi \/ Administer
  BY <1>1, WorkspacesMove
<1>2. CASE StopApi
  BY <1>2, StopApiStep
<1>3. CASE Configure
  BY <1>3, ConfigureStep
<1>4. ASSUME NEW a \in Alerts, NEW j \in Jobs, RaiseAlert(a, j) PROVE RoutingInv'
  BY <1>4, RaiseAlertStep
<1>5. ASSUME NEW a \in Alerts, SelectChannels(a) \/ SendNext(a) \/ EndDispatch(a)
      PROVE  RoutingInv'
  BY <1>5, SelectChannelsStep, SendNextStep, EndDispatchStep
<1>6. CASE UNCHANGED vars
  <2>1. UNCHANGED <<callVars, workspaceVars, channelVars>> /\ dispatch' = dispatch
    BY <1>6 DEF vars
  <2>2. \A a \in Alerts : HearsOK(a)'
    BY <2>1, CallsAreKept, HearsKept, DispatchKnown
  <2>3. dispatch' \in [Alerts -> Dispatch \cup {NotRaised}]
    BY <2>1 DEF RoutingInv, TypeOK
  <2>. QED  BY <2>1, <2>2, <2>3, CallsAreKept DEF RoutingInv, TypeOK
<1>. QED  BY <1>1, <1>2, <1>3, <1>4, <1>5, <1>6 DEF Next

LEMMA RoutingInductive == Spec => []RoutingInv
  BY RoutingStarts, RoutingStep, PTL DEF Spec

---------------------------------------------------------------------------
(* The results                                                             *)

\* Every row, call and dispatch keeps its type, whatever calls overlap and wherever the
\* process stops.
THEOREM RoutingTyped == Spec => []TypeOK
<1>1. RoutingInv => TypeOK
  BY DEF RoutingInv
<1>. QED  BY <1>1, RoutingInductive, PTL

LEMMA AtMostOne ==
    ASSUME NEW S, \A x, y \in S : x = y
    PROVE  Cardinality(S) \in {0, 1}
<1>1. CASE S = {}
  BY <1>1, FS_EmptySet
<1>2. CASE S # {}
  <2>1. PICK x : x \in S
    BY <1>2
  <2>2. S = {x}
    BY <2>1
  <2>. QED  BY <2>2, FS_Singleton
<1>. QED  BY <1>1, <1>2

\* services/workspace.py, api/workspaces.py:83: for any number of workspaces, users, jobs
\* and overlapping calls there is at most one default workspace, members and jobs refer to
\* workspaces that exist, and only two additions that overlap make a user a member twice.
THEOREM WorkspacesHoldTogether == Spec => []MembershipsHold
<1>1. RoutingInv => MembershipsHold
  <2>. SUFFICES ASSUME RoutingInv PROVE MembershipsHold
    OBVIOUS
  <2>1. Cardinality(Defaults) <= 1
    <3>1. Cardinality(Defaults) \in {0, 1}
      BY WorkspacesKnown, AtMostOne DEF WorkspacesInv
    <3>. QED  BY <3>1
  <2>2. ASSUME NEW w \in WorkspaceIds, NEW u \in Users, Cardinality(MembershipsOf(w, u)) > 1
        PROVE  <<w, u>> \in raced
    <3>1. SUFFICES ASSUME <<w, u>> \notin raced PROVE FALSE
      OBVIOUS
    <3>2. \A m, n \in MembershipsOf(w, u) : m = n
      BY <3>1, WorkspacesKnown DEF WorkspacesInv
    <3>3. Cardinality(MembershipsOf(w, u)) \in {0, 1}
      BY <3>2, AtMostOne
    <3>. QED  BY <2>2, <3>3
  <2>. QED  BY <2>1, <2>2, WorkspacesKnown DEF MembershipsHold, WorkspacesInv
<1>. QED  BY <1>1, RoutingInductive, PTL

\* api/notifications.py:123: the check of a PATCH against the type it has read keeps every
\* stored configuration fit for the stored type, for any patches, unless two of them
\* overlap on the channel.
THEOREM ConfigurationsFit == Spec => []ConfigFitsType
<1>1. RoutingInv => ConfigFitsType
  BY DEF RoutingInv, ChannelsInv
<1>. QED  BY <1>1, RoutingInductive, PTL

\* CHANGELOG.md:16, services/notifications.py:285: among any number of channels, an alert
\* that nothing changed around goes once to each active one of its workspace and to no
\* other, or breaks off for a reason that is still there.
THEOREM AlertsAreHeard == Spec => []EveryChannelHears
<1>1. RoutingInv => EveryChannelHears
  <2>. SUFFICES ASSUME RoutingInv, NEW a \in Alerts, dispatch[a] # NotRaised, dispatch[a].calm
                PROVE  /\ Sent(a) \subseteq Audience(dispatch[a].scope)
                       /\ \A d, e \in dispatch[a].sent : d.channel = e.channel => d = e
                       /\ dispatch[a].pc = "ended" => Audience(dispatch[a].scope) \subseteq Sent(a)
                       /\ dispatch[a].pc = "raised" =>
                             \/ _resolve_template("error") = "malformed"
                             \/ \E c \in Audience(dispatch[a].scope) : channel[c].config = "null"
    BY DEF EveryChannelHears
  <2>1. HearsOK(a)
    BY DispatchKnown
  <2>2. \A scope : Audience(scope) = {c \in ChannelRows : InScope(channel[c], scope)}
    BY DEF Audience, InScope
  <2>3. \A c \in ChannelRows : c \in ChannelIds /\ channel[c] # None
    BY DEF ChannelRows
  <2>4. CASE dispatch[a].pc \in {"sending", "ended", "raised"}
    <3>1. \A c \in ChannelIds :
             dispatch[a].rows[c] = IF c \in ChannelRows /\ InScope(channel[c], dispatch[a].scope)
                                   THEN channel[c] ELSE None
      BY <2>1, <2>4 DEF HearsOK
    <3>2. Selected(a) = Audience(dispatch[a].scope)
      BY <2>2, <2>3, <3>1 DEF Selected
    <3>. QED  BY <2>1, <2>2, <3>2 DEF HearsOK
  <2>5. CASE dispatch[a].pc = "new"
    BY <2>1, <2>5 DEF HearsOK, Sent
  <2>6. CASE dispatch[a].pc = "lost"
    <3>1. Selected(a) \subseteq Audience(dispatch[a].scope)
      BY <2>1, <2>2 DEF HearsOK, Selected
    <3>. QED  BY <2>1, <2>6, <3>1 DEF HearsOK
  <2>7. dispatch[a].pc \in {"new", "sending", "ended", "raised", "lost"}
    BY DispatchKnown DEF Dispatch
  <2>. QED  BY <2>4, <2>5, <2>6, <2>7
<1>. QED  BY <1>1, RoutingInductive, PTL
=============================================================================
