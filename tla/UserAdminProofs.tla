-------------------------- MODULE UserAdminProofs --------------------------
(***************************************************************************)
(* Proofs about UserAdmin, for every set of accounts, any number of        *)
(* overlapping requests and every bound: the types, and which requests can *)
(* take the last administrator away.                                       *)
(***************************************************************************)
EXTENDS UserAdmin, TLAPS

\* What is known about the request in slot r while nobody else takes an administrator
\* away: the caller is still an active administrator, and when it is the caller's own
\* account that is changed, the copy of it is right and the counts still hold.
Checked(r) ==
    LET q == request[r] IN
    q # Free /\ r \notin stale =>
       /\ account[q.admin] = ActiveAdmin
       /\ q.op = "delete" /\ q.pc # "load" => q.user # q.admin
       /\ q.user = q.admin /\ q.pc # "load" => q.loaded = ActiveAdmin
       /\ q.user = q.admin /\ q.op = "update" /\ q.pc \in {"active_check", "write"} =>
             (LosesRole(q) => ~AtMostOneAdmin)
       /\ q.user = q.admin /\ q.op = "update" /\ q.pc = "write" =>
             (Deactivates(q) => ~AtMostOneAdmin)

\* No id is given away twice.
UsedInv == \A u \in Users : Exists(u) => u \in used

IInv == TypeOK /\ UsedInv /\ \A r \in Requests : Checked(r)

---------------------------------------------------------------------------
LEMMA ActiveAdminType == ActiveAdmin \in Account
BY DEF ActiveAdmin, Account, Roles

LEMMA NoAccountApart == NoAccount \notin Account
BY DEF NoAccount, Account, Roles

\* An update turns an account into an account: it takes what it carries from the
\* values allowed, and the rest from the row.
LEMMA WrittenType ==
    ASSUME NEW now \in Account, NEW was, NEW updates \in Updates
    PROVE  Written(now, was, updates) \in Account
<1>. DEFINE val(f) == IF updates[f] \subseteq {was[f]}
                      THEN now[f] ELSE CHOOSE x \in updates[f] : TRUE
<1>1. Written(now, was, updates) = [f \in {"role", "is_active"} |-> val(f)]
  BY DEF Written
<1>2. val("role") \in Roles
  <2>1. updates["role"] \in Optional(Roles) /\ now["role"] \in Roles
    BY DEF Updates, Account
  <2>2. ASSUME updates["role"] # {} PROVE (CHOOSE x \in updates["role"] : TRUE) \in Roles
    BY <2>1, <2>2 DEF Optional
  <2>. QED  BY <2>1, <2>2
<1>3. val("is_active") \in BOOLEAN
  <2>1. updates["is_active"] \in Optional(BOOLEAN) /\ now["is_active"] \in BOOLEAN
    BY DEF Updates, Account
  <2>2. ASSUME updates["is_active"] # {}
        PROVE (CHOOSE x \in updates["is_active"] : TRUE) \in BOOLEAN
    BY <2>1, <2>2 DEF Optional
  <2>. QED  BY <2>1, <2>2
<1>4. \A v : v = [f \in {"role", "is_active"} |-> val(f)] => v \in Account
  <2>. HIDE DEF val
  <2>. QED  BY <1>2, <1>3 DEF Account
<1>. QED  BY <1>1, <1>4

\* An update that takes neither the role nor the activation away leaves an active
\* administrator one.
LEMMA WrittenKeeps ==
    ASSUME NEW q \in Request, q.loaded = ActiveAdmin, ~LosesRole(q), ~Deactivates(q)
    PROVE  Written(ActiveAdmin, q.loaded, q.updates) = ActiveAdmin
<1>. DEFINE u == q.updates
<1>1. u \in [role : Optional(Roles), is_active : Optional(BOOLEAN)]
  BY DEF Request, Updates
<1>2. u.role \subseteq {ActiveAdmin.role}
  BY DEF LosesRole, ActiveAdmin
<1>3. u.is_active \subseteq {ActiveAdmin.is_active}
  <2>1. u.is_active \in Optional(BOOLEAN)
    BY <1>1
  <2>2. u.is_active # {FALSE}
    <3>1. q.loaded.role = "admin"
      BY DEF ActiveAdmin
    <3>. QED  BY <3>1, Zenon DEF Deactivates
  <2>. QED  BY <2>1, <2>2 DEF Optional, ActiveAdmin
<1>. HIDE DEF u
<1>4. \A f \in {"role", "is_active"} : u[f] \subseteq {ActiveAdmin[f]}
  BY <1>2, <1>3
<1>5. Written(ActiveAdmin, ActiveAdmin, u) =
        [f \in {"role", "is_active"} |-> ActiveAdmin[f]]
  BY <1>4 DEF Written
<1>6. [f \in {"role", "is_active"} |-> ActiveAdmin[f]] = ActiveAdmin
  BY DEF ActiveAdmin
<1>. QED  BY <1>5, <1>6 DEF u

---------------------------------------------------------------------------
LEMMA InitInv == Init => IInv
BY DEF Init, IInv, TypeOK, UsedInv, Exists, Checked, Free, Account, NoAccount

\* The steps of a request that change nothing but its slot.
LEMMA SlotStep ==
    ASSUME TypeOK, NEW r \in Requests, NEW t \in Request \cup {Free},
           request' = [request EXCEPT ![r] = t]
    PROVE  request' \in [Requests -> Request \cup {Free}] /\ request'[r] = t
BY DEF TypeOK

LEMMA AtType ==
    ASSUME TypeOK, NEW r \in Requests, NEW op, NEW pc, At(r, op, pc)
    PROVE  request[r] \in Request /\ request[r].op = op /\ request[r].pc = pc
BY DEF TypeOK, At

LEMMA TypeStep == TypeOK /\ [Next]_vars => TypeOK'
<1>. SUFFICES ASSUME TypeOK, [Next]_vars PROVE TypeOK'
  OBVIOUS
<1>. USE ActiveAdminType
<1>1. ASSUME NEW u \in Users, BootstrapAdmin(u) PROVE TypeOK'
  BY <1>1 DEF BootstrapAdmin, TypeOK
<1>2. ASSUME NEW r \in Requests, NEW a \in Users, NEW u \in Users, NEW role \in Roles,
             CreateUser(r, a, u, role)
      PROVE  TypeOK'
  BY <1>2 DEF CreateUser, Begin, TypeOK, Account
<1>3. ASSUME NEW r \in Requests, NEW a \in Users, NEW op \in Operations,
             NEW u \in Users, NEW updates \in Updates, BeginChange(r, a, op, u, updates)
      PROVE  TypeOK'
  BY <1>3 DEF BeginChange, Begin, TypeOK, Request
<1>4. ASSUME NEW r \in Requests, NEW op, NEW pc \in {"role_check", "count"},
             At(r, op, "load"), LoadUser(r, pc)
      PROVE  request' \in [Requests -> Request \cup {Free}]
  <2>1. request[r] \in Request
    BY <1>4, AtType
  <2>2. account[request[r].user] \in Account \cup {NoAccount}
    BY <2>1 DEF TypeOK, Request
  <2>. DEFINE t == [request[r] EXCEPT
               !.loaded = IF request[r].user = request[r].admin
                          THEN ActiveAdmin ELSE account[request[r].user],
               !.pc = pc]
  <2>3. t \in Request
    BY <2>1, <2>2 DEF Request
  <2>4. request' = [request EXCEPT ![r] = Free] \/ request' = [request EXCEPT ![r] = t]
    BY <1>4 DEF LoadUser, End, TypeOK
  <2>. HIDE DEF t
  <2>. QED  BY <2>3, <2>4 DEF TypeOK
<1>5. ASSUME NEW r \in Requests, NEW op, NEW from, NEW pc \in {"active_check", "write"},
             At(r, op, from), End(r) \/ Goto(r, pc)
      PROVE  request' \in [Requests -> Request \cup {Free}]
  <2>1. request[r] \in Request
    BY <1>5, AtType
  <2>. DEFINE t == [request[r] EXCEPT !.pc = pc]
  <2>2. t \in Request
    BY <2>1 DEF Request
  <2>3. request' = [request EXCEPT ![r] = Free] \/ request' = [request EXCEPT ![r] = t]
    BY <1>5 DEF Goto, End, TypeOK
  <2>. HIDE DEF t
  <2>. QED  BY <2>2, <2>3 DEF TypeOK
<1>6. ASSUME NEW r \in Requests, LoadForUpdate(r) \/ LoadForDelete(r) PROVE TypeOK'
  <2>1. request' \in [Requests -> Request \cup {Free}]
    <3>1. CASE LoadForUpdate(r)
      BY <3>1, <1>4 DEF LoadForUpdate
    <3>2. CASE LoadForDelete(r) /\ request[r].user # request[r].admin
      BY <3>2, <1>4 DEF LoadForDelete
    <3>3. CASE LoadForDelete(r) /\ request[r].user = request[r].admin
      BY <3>3 DEF LoadForDelete, End, TypeOK
    <3>. QED  BY <1>6, <3>1, <3>2, <3>3
  <2>2. stale' \subseteq Requests
    BY <1>6 DEF LoadForUpdate, LoadForDelete, LoadUser, End, TypeOK
  <2>. QED  BY <1>6, <2>1, <2>2 DEF LoadForUpdate, LoadForDelete, TypeOK
<1>7. ASSUME NEW r \in Requests, CheckRole(r) \/ CheckActive(r) \/ CheckDelete(r)
      PROVE  TypeOK'
  <2>1. request' \in [Requests -> Request \cup {Free}]
    BY <1>5, <1>7 DEF CheckRole, CheckActive, CheckDelete
  <2>2. stale' \subseteq Requests
    BY <1>7 DEF CheckRole, CheckActive, CheckDelete, Goto, End, TypeOK
  <2>. QED  BY <1>7, <2>1, <2>2 DEF CheckRole, CheckActive, CheckDelete, TypeOK
<1>8. ASSUME NEW r \in Requests, WriteUpdate(r) PROVE TypeOK'
  <2>. DEFINE q == request[r]
  <2>1. q \in Request
    BY <1>8, AtType DEF WriteUpdate
  <2>2. Auditable(q) => Written(account[q.user], q.loaded, q.updates) \in Account
    BY <2>1, WrittenType DEF Auditable, Exists, TypeOK, Request
  <2>3. account' \in [Users -> Account \cup {NoAccount}]
    <3>1. CASE Auditable(q)
      <4>1. account' = [account EXCEPT ![q.user] =
                          Written(account[q.user], q.loaded, q.updates)]
        BY <1>8, <3>1 DEF WriteUpdate
      <4>. QED  BY <2>2, <3>1, <4>1 DEF TypeOK
    <3>2. CASE ~Auditable(q)
      BY <1>8, <3>2 DEF WriteUpdate, TypeOK
    <3>. QED  BY <3>1, <3>2
  <2>. QED  BY <1>8, <2>3 DEF WriteUpdate, Committed, TypeOK
<1>9. ASSUME NEW r \in Requests, DeleteUser(r) PROVE TypeOK'
  BY <1>9 DEF DeleteUser, Committed, TypeOK
<1>10. CASE UNCHANGED vars
  BY <1>10 DEF vars, TypeOK
<1>. QED  BY <1>1, <1>2, <1>3, <1>6, <1>7, <1>8, <1>9, <1>10 DEF Next

\* The types are right for any number of overlapping requests.
THEOREM AccountsTyped == Spec => []TypeOK
<1>1. Init => TypeOK
  BY InitInv DEF IInv
<1>. QED  BY <1>1, TypeStep, PTL DEF Spec

---------------------------------------------------------------------------
\* With no administrator lost and the slot as it was, what was known is still known.
LEMMA OthersChecked ==
    ASSUME NEW r \in Requests,
           \A s \in Requests \ {r} : request'[s] = request[s],
           \/ ActiveAdmins \subseteq ActiveAdmins' /\ stale \ {r} \subseteq stale'
           \/ \A s \in Requests \ {r} : request[s] # Free => s \in stale',
           TypeOK, \A s \in Requests : Checked(s), Checked(r)'
    PROVE  (\A s \in Requests : Checked(s))'
<1>1. ASSUME NEW s \in Requests \ {r}, request[s] # Free, s \notin stale'
      PROVE  Checked(s)'
  <2>1. ActiveAdmins \subseteq ActiveAdmins' /\ s \notin stale
    BY <1>1
  <2>2. request[s].admin \in Users /\ account[request[s].admin] = ActiveAdmin
    BY <1>1, <2>1 DEF Checked, TypeOK, Request
  <2>3. account'[request[s].admin] = ActiveAdmin
    BY <2>1, <2>2 DEF ActiveAdmins
  <2>4. ~AtMostOneAdmin => ~AtMostOneAdmin'
    BY <2>1 DEF AtMostOneAdmin
  <2>. QED  BY <1>1, <2>1, <2>3, <2>4 DEF Checked
<1>2. ASSUME NEW s \in Requests \ {r} PROVE Checked(s)'
  BY <1>1 DEF Checked
<1>. QED  BY <1>2

\* A request that ends leaves nothing to be known.
LEMMA EndedIsChecked ==
    ASSUME TypeOK, NEW r \in Requests, request' = [request EXCEPT ![r] = Free]
    PROVE  Checked(r)' /\ \A s \in Requests \ {r} : request'[s] = request[s]
BY DEF TypeOK, Checked

\* A request that only goes on keeps what was known, and learns what its count says.
LEMMA GoneOn ==
    ASSUME TypeOK, NEW r \in Requests, request[r] # Free, NEW pc, Goto(r, pc),
           account' = account, pc # "load", request[r].pc # "load", Checked(r),
           request[r].op = "update" /\ pc \in {"active_check", "write"} /\ r \notin stale
              /\ request[r].user = request[r].admin =>
                 (LosesRole(request[r]) => ~AtMostOneAdmin),
           request[r].op = "update" /\ pc = "write" =>
              (Deactivates(request[r]) => ~AtMostOneAdmin)
    PROVE  Checked(r)' /\ \A s \in Requests \ {r} : request'[s] = request[s]
<1>. DEFINE q == request[r]
            t == [request[r] EXCEPT !.pc = pc]
<1>1. q \in Request
  BY DEF TypeOK
<1>2. /\ t.pc = pc /\ t.admin = q.admin /\ t.op = q.op /\ t.user = q.user
      /\ t.updates = q.updates /\ t.loaded = q.loaded
  BY <1>1 DEF Request
<1>3. request'[r] = t /\ stale' = stale /\ \A s \in Requests \ {r} : request'[s] = request[s]
  BY DEF Goto, TypeOK
<1>. HIDE DEF t
<1>4. LosesRole(t) = LosesRole(q) /\ Deactivates(t) = Deactivates(q)
  BY <1>2 DEF LosesRole, Deactivates
<1>5. AtMostOneAdmin' = AtMostOneAdmin
  BY DEF AtMostOneAdmin, ActiveAdmins
<1>. QED  BY <1>2, <1>3, <1>4, <1>5 DEF Checked

\* A request that writes and is not stale leaves an active administrator: its own, or,
\* when it takes that one away, another.
LEMMA WriteKeepsOne ==
    ASSUME TypeOK, NEW r \in Requests, Checked(r), r \notin stale,
           WriteUpdate(r) \/ DeleteUser(r)
    PROVE  ActiveAdmins' # {}
<1>. DEFINE q == request[r]
<1>1. /\ q \in Request /\ q # Free /\ q.pc = "write"
      /\ q.op = IF WriteUpdate(r) THEN "update" ELSE "delete"
  BY AtType DEF WriteUpdate, DeleteUser, At
<1>2. q.admin \in Users /\ q.user \in Users /\ account[q.admin] = ActiveAdmin
  BY <1>1 DEF Checked, Request
<1>3. \A u \in Users \ {q.user} : account'[u] = account[u]
  BY DEF WriteUpdate, DeleteUser, TypeOK
<1>4. CASE q.user # q.admin
  BY <1>2, <1>3, <1>4 DEF ActiveAdmins
<1>5. CASE q.user = q.admin
  <2>1. /\ WriteUpdate(r) /\ q.loaded = ActiveAdmin
        /\ LosesRole(q) \/ Deactivates(q) => ~AtMostOneAdmin
    BY <1>1, <1>5 DEF Checked
  <2>2. CASE LosesRole(q) \/ Deactivates(q)
    <3>1. PICK u \in ActiveAdmins : u # q.user
      BY <2>1, <2>2 DEF AtMostOneAdmin
    <3>. QED  BY <1>3, <3>1 DEF ActiveAdmins
  <2>3. CASE ~LosesRole(q) /\ ~Deactivates(q)
    <3>1. account'[q.user] \in {ActiveAdmin, Written(ActiveAdmin, q.loaded, q.updates)}
      BY <1>2, <1>5, <2>1 DEF WriteUpdate, TypeOK
    <3>2. account'[q.user] = ActiveAdmin
      BY <1>1, <2>1, <2>3, <3>1, WrittenKeeps
    <3>. QED  BY <1>2, <3>2 DEF ActiveAdmins
  <2>. QED  BY <2>2, <2>3
<1>. QED  BY <1>4, <1>5

\* Where the accounts stay as they are, so do the administrators and the ids.
LEMMA SameAccounts ==
    ASSUME UsedInv, account' = account, used' = used
    PROVE  UsedInv' /\ ActiveAdmins \subseteq ActiveAdmins'
BY DEF UsedInv, ActiveAdmins, Exists

\* Only a write takes an administrator away.
LEMMA AdminStep ==
    IInv /\ [Next]_vars =>
       /\ IInv'
       /\ \/ ActiveAdmins \subseteq ActiveAdmins'
          \/ \E r \in Requests : WriteUpdate(r) \/ DeleteUser(r)
<1>. DEFINE Good == /\ UsedInv' /\ (\A r \in Requests : Checked(r))'
                    /\ \/ ActiveAdmins \subseteq ActiveAdmins'
                       \/ \E r \in Requests : WriteUpdate(r) \/ DeleteUser(r)
<1>. SUFFICES ASSUME TypeOK, UsedInv, \A r \in Requests : Checked(r), [Next]_vars
              PROVE  Good
  BY TypeStep DEF IInv
<1>1. ASSUME NEW u \in Users, u \notin used, NEW x \in Account, used' = used \cup {u},
             account' = [account EXCEPT ![u] = x], UNCHANGED <<request, stale>>
      PROVE  Good
  <2>1. ActiveAdmins \subseteq ActiveAdmins'
    <3>1. account[u] # ActiveAdmin
      BY <1>1, NoAccountApart, ActiveAdminType DEF UsedInv, Exists
    <3>. QED  BY <1>1, <3>1 DEF ActiveAdmins, TypeOK
  <2>2. UsedInv'
    BY <1>1 DEF UsedInv, Exists, TypeOK
  <2>3. ASSUME NEW r \in Requests PROVE Checked(r)'
    <3>1. ASSUME request[r] # Free, r \notin stale
          PROVE  account'[request[r].admin] = ActiveAdmin
      <4>1. request[r].admin \in ActiveAdmins
        BY <3>1 DEF Checked, ActiveAdmins, TypeOK, Request
      <4>. QED  BY <2>1, <4>1 DEF ActiveAdmins
    <3>2. ~AtMostOneAdmin => ~AtMostOneAdmin'
      BY <2>1 DEF AtMostOneAdmin
    <3>. QED  BY <1>1, <3>1, <3>2 DEF Checked
  <2>. QED  BY <2>1, <2>2, <2>3
<1>2. ASSUME NEW u \in Users, BootstrapAdmin(u) PROVE Good
  BY <1>1, <1>2, ActiveAdminType DEF BootstrapAdmin
<1>3. ASSUME NEW r \in Requests, NEW a \in Users, NEW u \in Users, NEW role \in Roles,
             CreateUser(r, a, u, role)
      PROVE  Good
  <2>1. [role |-> role, is_active |-> TRUE] \in Account
    BY DEF Account
  <2>. QED  BY <1>1, <1>3, <2>1 DEF CreateUser
<1>4. ASSUME NEW r \in Requests, NEW a \in Users, NEW op \in Operations,
             NEW u \in Users, NEW updates \in Updates, BeginChange(r, a, op, u, updates)
      PROVE  Good
  <2>1. UsedInv' /\ ActiveAdmins \subseteq ActiveAdmins' /\ stale' = stale
    BY <1>4, SameAccounts DEF BeginChange
  <2>2. /\ request'[r].pc = "load" /\ request'[r].admin = a
        /\ account' = account /\ account[a] = ActiveAdmin
        /\ \A s \in Requests \ {r} : request'[s] = request[s]
    BY <1>4 DEF BeginChange, Begin, ActiveAdmins, TypeOK
  <2>3. Checked(r)'
    BY <2>2 DEF Checked
  <2>. QED  BY <2>1, <2>2, <2>3, OthersChecked
<1>5. ASSUME NEW r \in Requests, LoadForUpdate(r) \/ LoadForDelete(r)
      PROVE  Good
  <2>1. account' = account /\ UsedInv' /\ ActiveAdmins \subseteq ActiveAdmins'
    BY <1>5, SameAccounts DEF LoadForUpdate, LoadForDelete
  <2>. DEFINE q == request[r]
  <2>2. q \in Request /\ q # Free /\ q.pc = "load"
    BY <1>5, AtType DEF LoadForUpdate, LoadForDelete, At
  <2>3. CASE End(r)
    BY <2>1, <2>3, EndedIsChecked, OthersChecked DEF End
  <2>4. CASE ~End(r)
    <3>. DEFINE pc == IF q.op = "update" THEN "role_check" ELSE "count"
                was == IF q.user = q.admin THEN ActiveAdmin ELSE account[q.user]
                t == [q EXCEPT !.loaded = was, !.pc = pc]
    <3>1. /\ request' = [request EXCEPT ![r] = t] /\ stale' = stale
          /\ q.op = "delete" => q.user # q.admin
      <4>1. CASE LoadForUpdate(r)
        BY <2>4, <4>1 DEF LoadForUpdate, LoadUser, At, TypeOK
      <4>2. CASE LoadForDelete(r)
        BY <2>4, <4>2 DEF LoadForDelete, LoadUser, At, TypeOK
      <4>. QED  BY <1>5, <4>1, <4>2
    <3>2. q.user = q.admin => was = ActiveAdmin
      OBVIOUS
    <3>3. /\ t.pc = pc /\ t.loaded = was /\ t.user = q.user /\ t.admin = q.admin
          /\ t.op = q.op
      BY <2>2 DEF Request
    <3>. HIDE DEF t, was
    <3>4. request'[r] = t /\ \A s \in Requests \ {r} : request'[s] = request[s]
      BY <3>1 DEF TypeOK
    <3>5. Checked(r)'
      BY <2>1, <2>2, <3>1, <3>2, <3>3, <3>4 DEF Checked
    <3>. QED  BY <2>1, <3>1, <3>4, <3>5, OthersChecked
  <2>. QED  BY <2>3, <2>4
<1>6. ASSUME NEW r \in Requests, CheckRole(r) \/ CheckActive(r) \/ CheckDelete(r)
      PROVE  Good
  <2>1. account' = account /\ UsedInv' /\ ActiveAdmins \subseteq ActiveAdmins'
    BY <1>6, SameAccounts DEF CheckRole, CheckActive, CheckDelete
  <2>2. CASE End(r)
    BY <2>1, <2>2, EndedIsChecked, OthersChecked DEF End
  <2>3. CASE ~End(r)
    <3>1. Checked(r)' /\ \A s \in Requests \ {r} : request'[s] = request[s]
      <4>1. CASE CheckRole(r)
        BY <2>1, <2>3, <4>1, AtType, GoneOn DEF CheckRole, At
      <4>2. CASE CheckActive(r)
        <5>1. r \notin stale /\ request[r].user = request[r].admin =>
                 (LosesRole(request[r]) => ~AtMostOneAdmin)
          BY <4>2, AtType DEF CheckActive, At, Checked
        <5>. QED  BY <2>1, <2>3, <4>2, <5>1, AtType, GoneOn DEF CheckActive, At
      <4>3. CASE CheckDelete(r)
        BY <2>1, <2>3, <4>3, AtType, GoneOn DEF CheckDelete, At
      <4>. QED  BY <1>6, <4>1, <4>2, <4>3
    <3>2. stale' = stale
      BY <1>6, <2>3 DEF CheckRole, CheckActive, CheckDelete, Goto
    <3>. QED  BY <2>1, <3>1, <3>2, OthersChecked
  <2>. QED  BY <2>2, <2>3
<1>7. ASSUME NEW r \in Requests, WriteUpdate(r) \/ DeleteUser(r)
      PROVE  Good
  <2>1. request[r] \in Request /\ request[r].user \in Users
    BY <1>7, AtType DEF WriteUpdate, DeleteUser, Request
  <2>2. Committed(r) /\ used' = used
    BY <1>7 DEF WriteUpdate, DeleteUser
  <2>3. UsedInv'
    <3>1. account' = account \/ Exists(request[r].user)
      BY <1>7 DEF WriteUpdate, DeleteUser, Auditable
    <3>2. \A u \in Users \ {request[r].user} : account'[u] = account[u]
      BY <1>7 DEF WriteUpdate, DeleteUser, TypeOK
    <3>. QED  BY <2>1, <2>2, <3>1, <3>2 DEF UsedInv, Exists
  <2>4. (\A s \in Requests : Checked(s))'
    BY <2>2, EndedIsChecked, OthersChecked DEF Committed
  <2>. QED  BY <1>7, <2>3, <2>4
<1>8. CASE UNCHANGED vars
  BY <1>8 DEF vars, UsedInv, ActiveAdmins, Exists, Checked, AtMostOneAdmin
<1>. QED  BY <1>2, <1>3, <1>4, <1>5, <1>6, <1>7, <1>8 DEF Next

\* api/users.py:102-125, 182-189: for any number of accounts and of requests that overlap,
\* the last active administrator is taken away by nothing but a request during which
\* another one took an administrator away.
THEOREM LastAdminRemains == Spec => LastAdminLeavesByRace
<1>. DEFINE Kept == ActiveAdmins # {} /\ ActiveAdmins' = {} =>
                       \E r \in stale : request[r] # Free /\ request'[r] = Free
<1>1. IInv /\ [Next]_vars => Kept
  <2>. SUFFICES ASSUME IInv, [Next]_vars, ActiveAdmins # {}, ActiveAdmins' = {}
                PROVE  \E r \in stale : request[r] # Free /\ request'[r] = Free
    OBVIOUS
  <2>1. PICK r \in Requests : WriteUpdate(r) \/ DeleteUser(r)
    BY AdminStep
  <2>2. request[r] # Free /\ request'[r] = Free
    BY <2>1 DEF WriteUpdate, DeleteUser, At, Committed, IInv, TypeOK
  <2>3. r \in stale
    BY <2>1, WriteKeepsOne DEF IInv
  <2>. QED  BY <2>2, <2>3
<1>2. IInv /\ [Next]_vars => IInv'
  BY AdminStep
<1>3. IInv /\ IInv' /\ [Next]_vars => [Kept]_vars
  BY <1>1
<1>. QED  BY InitInv, <1>2, <1>3, PTL DEF Spec, LastAdminLeavesByRace
===========================================================================
