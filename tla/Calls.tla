------------------------------- MODULE Calls -------------------------------
(***************************************************************************)
(* API calls of administrators and operators that are under way together.  *)
(* A handler reads its row in a session of its own, waits, and writes.     *)
(* The audit entry that log_action flushes into that session shares the    *)
(* commit of the change and is left out.                                   *)
(***************************************************************************)
EXTENDS Naturals

CONSTANTS
    CallIds  \* each call is made at most once

VARIABLES
    up,     \* whether the API process serves requests
    call,   \* the call of each id
    raced   \* history: subjects written while another call of the kind was under way on them

callVars == <<up, call, raced>>

Unused == <<>>
None == <<>>

InitCalls ==
    /\ call = [k \in CallIds |-> Unused]
    /\ raced = {}

\* A field that the body of a PATCH may carry, or not.
Optional(S) == {{}} \cup {{x} : x \in S}

\* Mutant of Written: a field the call does not carry is set to null.
WrittenUnset(now, was, field) ==
    IF field = {} THEN None ELSE CHOOSE x \in field : TRUE

\* The loaded value unless the call carries another one, which alone is written.
Written(now, was, field) ==
    IF field \subseteq {was} THEN now ELSE CHOOSE x \in field : TRUE

\* Rows are created under identifiers that were not used before.
Fresh(x) == \A k \in CallIds : call[k] # Unused => call[k].on # x

\* The handler of call k has read `row`, its subject's row.
Begin(k, op, on, arg, row) ==
    /\ up
    /\ call[k] = Unused
    /\ call' = [call EXCEPT ![k] =
          [op |-> op, on |-> on, arg |-> arg, loaded |-> row, pc |-> "write"]]
    /\ UNCHANGED <<up, raced>>

At(k, op) == call[k] # Unused /\ call[k].op = op /\ call[k].pc = "write"

\* The handler ends with its commit, which fails as a whole when a row it needs is gone.
Finish(k) ==
    /\ call' = [call EXCEPT ![k].pc = "ended"]
    /\ raced' = IF \E j \in CallIds \ {k} : /\ call[j] # Unused
                                            /\ call[j].pc = "write"
                                            /\ call[j].op = call[k].op
                                            /\ call[j].on = call[k].on
                THEN raced \cup {call[k].on}
                ELSE raced
    /\ UNCHANGED up

\* A call that reads nothing it decides on.
Do(k, op, on) ==
    /\ up
    /\ call[k] = Unused
    /\ call' = [call EXCEPT ![k] =
          [op |-> op, on |-> on, arg |-> None, loaded |-> None, pc |-> "ended"]]
    /\ UNCHANGED <<up, raced>>

\* The calls under way end with the process; their sessions are rolled back.
StopCalls ==
    /\ up
    /\ up' = FALSE
    /\ call' = [k \in CallIds |-> IF call[k] = Unused THEN Unused ELSE [call[k] EXCEPT !.pc = "ended"]]
    /\ UNCHANGED raced
===========================================================================
