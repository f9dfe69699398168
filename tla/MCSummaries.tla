---------------------------- MODULE MCSummaries ----------------------------
(***************************************************************************)
(* Small instances of Summaries.                                           *)
(***************************************************************************)
EXTENDS Summaries, TLC

Answer(status, code) == [status |-> status, code |-> code, duration_ms |-> 1, body |-> {}]
MCResponses == {Answer("success", 200), Answer("failure", 500)}

Of(type, value) == [condition_type |-> type, condition_value |-> value, is_enabled |-> TRUE]
MCCreations == {Of("consecutive_failures_gte", 2)}

Body(type, value, enabled) ==
    [condition_type |-> type, condition_value |-> value, is_enabled |-> enabled]
MCRulePatches == {Body({}, {1}, {}), Body({"http_status_gte"}, {500}, {})}

MCPeriods == {[start |-> 1, end |-> 2]}

\* The job may have a rule for two failures in a row from the beginning.
RuledInit ==
    /\ up = TRUE
    /\ InitCalls
    /\ rule \in [RuleIds -> MCCreations \cup {None}]
    /\ InitHistory /\ JobRows = {Ruled}
    /\ summary = None

RuledSpec == RuledInit /\ [][Next]_vars

\* Bounds: a behaviour has either calls and deaths or other jobs and a summary, with which
\* it ends; the latter with the rule from the beginning.
OneInterest ==
    /\ JobRows # {Ruled} \/ summary # None =>
          /\ Ruled \in JobRows => RuleRows = RuleIds
          /\ \A k \in CallIds : call[k] = Unused
          /\ \A e \in RunIds : run[e] # Idle => run[e].pc # "lost"
    /\ summary # None => summary.pc \notin {"answered", "generated"}

Symmetry == Permutations(RunIds) \cup Permutations(CallIds)
===========================================================================
