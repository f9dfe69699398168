----------------------------- MODULE UserAdmin -----------------------------
(***************************************************************************)
(* User accounts and the protection of the last active administrator:      *)
(* api/users.py, the role checks of dependencies.py and the bootstrap of   *)
(* services/auth.py.  Every request authenticates its administrator, loads *)
(* the account, counts the active administrators where the change could    *)
(* take the last one away, and writes; between these steps other requests  *)
(* are served.  Names, emails and passwords are left out.                  *)
(***************************************************************************)
EXTENDS Integers

CONSTANTS
    Users,       \* ids of accounts, each created at most once
    Requests,    \* slots for requests under way at the same time
    MaxRequests  \* bound on the number of requests

ASSUME BoundAssumption == MaxRequests \in Nat

Roles == {"admin", "operator", "viewer"}           \* _ALLOWED_ROLES
Account == [role : Roles, is_active : BOOLEAN]
NoAccount == [role |-> "none", is_active |-> FALSE]
ActiveAdmin == [role |-> "admin", is_active |-> TRUE]

\* What PATCH may carry of either field: nothing, or one value of it.  Another role
\* gets 422 and a null is_active breaks a column constraint; neither writes anything.
Optional(S) == {{}} \cup {{x} : x \in S}
Updates == [role : Optional(Roles), is_active : Optional(BOOLEAN)]
Operations == {"update", "delete"}

Request == [pc : {"load", "role_check", "active_check", "count", "write"},
            admin : Users, op : Operations, user : Users,
            updates : Updates, loaded : Account \cup {NoAccount}]

VARIABLES
    account,  \* committed rows of users
    used,     \* ids that have been given away
    request,  \* the request in each slot, or Free
    stale,    \* history: the requests during which another one took an administrator away
    requests

vars == <<account, used, request, stale, requests>>

Free == <<>>
Exists(u) == account[u] # NoAccount
ActiveAdmins == {u \in Users : account[u] = ActiveAdmin}

Init ==
    /\ account = [u \in Users |-> NoAccount]
    /\ used = {}
    /\ request = [r \in Requests |-> Free]
    /\ stale = {}
    /\ requests = 0

\* bootstrap_admin, at the start of the API: only while there is no account.
BootstrapAdmin(u) ==
    /\ \A v \in Users : ~Exists(v)
    /\ u \notin used
    /\ account' = [account EXCEPT ![u] = ActiveAdmin]
    /\ used' = used \cup {u}
    /\ UNCHANGED <<request, stale, requests>>

\* require_admin: the caller's row is read for every request.
Begin(r, a) ==
    /\ request[r] = Free
    /\ requests < MaxRequests
    /\ a \in ActiveAdmins
    /\ requests' = requests + 1

\* Mutant of CreateUser: the role name of earlier versions is stored.
CreateUserLegacy(r, a, u, role) ==
    /\ Begin(r, a)
    /\ u \notin used
    /\ account' = [account EXCEPT ![u] = [role |-> "user", is_active |-> TRUE]]
    /\ used' = used \cup {u}
    /\ UNCHANGED <<request, stale>>

\* POST /users; the new account is active.
CreateUser(r, a, u, role) ==
    /\ Begin(r, a)
    /\ u \notin used
    /\ account' = [account EXCEPT ![u] = [role |-> role, is_active |-> TRUE]]
    /\ used' = used \cup {u}
    /\ UNCHANGED <<request, stale>>

\* PATCH and DELETE /users/{id}
BeginChange(r, a, op, u, updates) ==
    /\ Begin(r, a)
    /\ request' = [request EXCEPT ![r] =
          [pc |-> "load", admin |-> a, op |-> op, user |-> u, updates |-> updates,
           loaded |-> NoAccount]]
    /\ UNCHANGED <<account, used, stale>>

At(r, op, pc) == request[r] # Free /\ request[r].op = op /\ request[r].pc = pc
Goto(r, pc) == request' = [request EXCEPT ![r].pc = pc] /\ UNCHANGED stale
End(r) == request' = [request EXCEPT ![r] = Free] /\ stale' = stale \ {r}

\* The end of a request that has changed the accounts.
Committed(r) ==
    /\ request' = [request EXCEPT ![r] = Free]
    /\ stale' = IF ActiveAdmins \subseteq ActiveAdmins'
                THEN stale \ {r}
                ELSE {s \in Requests \ {r} : request[s] # Free}

\* The account named in the path, or 404.  One session serves the whole request, so an
\* administrator's own row stays as authentication read it.
LoadUser(r, pc) ==
    LET q == request[r] IN
    IF ~Exists(q.user)
    THEN End(r)
    ELSE /\ request' = [request EXCEPT
               ![r].loaded = IF q.user = q.admin THEN ActiveAdmin ELSE account[q.user],
               ![r].pc = pc]
         /\ UNCHANGED stale

\* `_active_admin_count(session) <= 1`
AtMostOneAdmin == \A a, b \in ActiveAdmins : a = b

---------------------------------------------------------------------------
\* PATCH /users/{id}

LoadForUpdate(r) ==
    /\ At(r, "update", "load")
    /\ LoadUser(r, "role_check")
    /\ UNCHANGED <<account, used, requests>>

\* 409 when the role would be taken away from the last active administrator.
LosesRole(q) == q.updates.role \notin {{}, {"admin"}} /\ q.loaded = ActiveAdmin

CheckRole(r) ==
    /\ At(r, "update", "role_check")
    /\ IF LosesRole(request[r]) /\ AtMostOneAdmin THEN End(r) ELSE Goto(r, "active_check")
    /\ UNCHANGED <<account, used, requests>>

\* Mutant of Deactivates: the count is skipped when the update also sets the role.
DeactivatesOnly(q) == q.updates.is_active = {FALSE} /\ q.updates.role = {} /\ q.loaded.role = "admin"

\* A second count for the deactivation of an administrator, active or not.
Deactivates(q) == q.updates.is_active = {FALSE} /\ q.loaded.role = "admin"

CheckActive(r) ==
    /\ At(r, "update", "active_check")
    /\ IF Deactivates(request[r]) /\ AtMostOneAdmin THEN End(r) ELSE Goto(r, "write")
    /\ UNCHANGED <<account, used, requests>>

\* The columns that differ from what was loaded are updated.
Written(now, was, updates) ==
    [f \in {"role", "is_active"} |->
        IF updates[f] \subseteq {was[f]} THEN now[f] ELSE CHOOSE x \in updates[f] : TRUE]

\* The audit entry refers to the administrator's row and is written with the change:
\* without that row, or without the row to change, nothing is written.
Auditable(q) == Exists(q.admin) /\ Exists(q.user)

WriteUpdate(r) ==
    /\ At(r, "update", "write")
    /\ LET q == request[r] IN
       account' = IF Auditable(q)
                  THEN [account EXCEPT ![q.user] = Written(@, q.loaded, q.updates)]
                  ELSE account
    /\ Committed(r)
    /\ UNCHANGED <<used, requests>>

---------------------------------------------------------------------------
\* DELETE /users/{id}: 409 for one's own account.
LoadForDelete(r) ==
    /\ At(r, "delete", "load")
    /\ IF request[r].user = request[r].admin THEN End(r) ELSE LoadUser(r, "count")
    /\ UNCHANGED <<account, used, requests>>

\* 409 for an administrator, active or not, while there is at most one active one.
CheckDelete(r) ==
    /\ At(r, "delete", "count")
    /\ IF request[r].loaded.role = "admin" /\ AtMostOneAdmin
       THEN End(r)
       ELSE Goto(r, "write")
    /\ UNCHANGED <<account, used, requests>>

DeleteUser(r) ==
    /\ At(r, "delete", "write")
    /\ LET q == request[r] IN
       account' = IF Auditable(q) THEN [account EXCEPT ![q.user] = NoAccount] ELSE account
    /\ Committed(r)
    /\ UNCHANGED <<used, requests>>

Next ==
    \/ \E u \in Users : BootstrapAdmin(u)
    \/ \E r \in Requests, a \in Users :
          \/ \E u \in Users, role \in Roles : CreateUser(r, a, u, role)
          \/ \E op \in Operations, u \in Users, updates \in Updates :
                BeginChange(r, a, op, u, updates)
    \/ \E r \in Requests :
          \/ LoadForUpdate(r) \/ CheckRole(r) \/ CheckActive(r) \/ WriteUpdate(r)
          \/ LoadForDelete(r) \/ CheckDelete(r) \/ DeleteUser(r)

Spec == Init /\ [][Next]_vars

---------------------------------------------------------------------------
TypeOK ==
    /\ account \in [Users -> Account \cup {NoAccount}]
    /\ used \subseteq Users
    /\ request \in [Requests -> Request \cup {Free}]
    /\ stale \subseteq Requests
    /\ requests \in Nat

\* docs/security.md:208, roadmap.md:86: once the first account exists there is always
\* an active administrator.  Without one nobody can administer users again: the
\* bootstrap needs an empty table.
SomeAdmin == used # {} => ActiveAdmins # {}

\* api/users.py:102-125, 182-189: whatever overlaps, the last active administrator is taken
\* away by nothing but a request during which another one took an administrator away.  A
\* copy or a count that another commit has outdated is not enough as long as that commit
\* left all administrators in place.
LastAdminLeavesByRace ==
    [][ActiveAdmins # {} /\ ActiveAdmins' = {} =>
          \E r \in stale : request[r] # Free /\ request'[r] = Free]_vars
===========================================================================
