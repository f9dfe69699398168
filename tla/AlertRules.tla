---------------------------- MODULE AlertRules ----------------------------
(***************************************************************************)
(* The alert rules of a job: api/alert_rules.py and the conditions of      *)
(* evaluate_alert_rules in services/http_runner.py.  Severity and message  *)
(* are left out.                                                           *)
(***************************************************************************)
EXTENDS Calls, Integers

CONSTANTS
    RuleIds,
    Values,  \* condition values: integers, -1 for a text that is not a natural number
    Limit    \* _count_consecutive_failures looks at so many executions: 50

ASSUME RuleAssumption == Values \subseteq Int /\ Limit \in Nat

ConditionTypes == {"http_status_gte", "duration_ms_gte", "response_body_contains",
                   "consecutive_failures_gte"}
Rule == [condition_type : ConditionTypes, condition_value : Values, is_enabled : BOOLEAN]
RulePatch == [condition_type : Optional(ConditionTypes), condition_value : Optional(Values),
              is_enabled : Optional(BOOLEAN)]

CONSTANTS
    Creations,   \* bodies of POST .../alert-rules
    RulePatches  \* bodies of PATCH .../alert-rules/{id}

VARIABLES
    rule  \* committed rows, or None

RuleRows == {r \in RuleIds : rule[r] # None}

\* validate_alert_rule_condition_value.
IsValid(type, value) ==
    CASE type = "http_status_gte" -> value \in 100 .. 599
      [] type \in {"duration_ms_gte", "consecutive_failures_gte"} -> value >= 1
      [] OTHER -> TRUE

ASSUME BodyAssumption ==
    /\ Creations \subseteq Rule
    /\ \A body \in Creations : IsValid(body.condition_type, body.condition_value)
    /\ RulePatches \subseteq RulePatch

\* 404 without its job.
CreateRule(k, r, jobFound) ==
    /\ jobFound
    /\ rule[r] = None /\ Fresh(r)
    /\ Do(k, "create_rule", r)
    /\ \E body \in Creations : rule' = [rule EXCEPT ![r] = body]

\* A rule goes with its job: whoever finds it finds the job.  422: type and value must
\* fit, as the request finds them.
BeginUpdateRule(k, r, patch) ==
    /\ r \in RuleRows
    /\ LET now == rule[r]
           next(was, field) == IF field = {} THEN was ELSE CHOOSE x \in field : TRUE
       IN  IsValid(next(now.condition_type, patch.condition_type),
                   next(now.condition_value, patch.condition_value))
    /\ Begin(k, "update_rule", r, patch, rule[r])
    /\ UNCHANGED rule

UpdateRule(k) ==
    /\ At(k, "update_rule")
    /\ LET q == call[k]
           row == rule[q.on]
           written(field) == Written(row[field], q.loaded[field], q.arg[field])
       IN  /\ rule' = IF row = None THEN rule
                      ELSE [rule EXCEPT ![q.on] = [field \in DOMAIN row |-> written(field)]]
           /\ Finish(k)

BeginDeleteRule(k, r) ==
    /\ r \in RuleRows
    /\ Begin(k, "delete_rule", r, None, rule[r])
    /\ UNCHANGED rule

DeleteRule(k) ==
    /\ At(k, "delete_rule")
    /\ rule' = [rule EXCEPT ![call[k].on] = None]
    /\ Finish(k)

RuleCall(jobFound) ==
    \E k \in CallIds :
       \/ \E r \in RuleIds : CreateRule(k, r, jobFound) \/ BeginDeleteRule(k, r)
       \/ \E r \in RuleIds, patch \in RulePatches : BeginUpdateRule(k, r, patch)
       \/ UpdateRule(k) \/ DeleteRule(k)

---------------------------------------------------------------------------
\* evaluate_alert_rules: whether a rule is met by a response and by the number of
\* consecutive failures.  `code` is -1 without a response; `body` holds the condition
\* values that occur in its text.
IsMet(row, response, failures) ==
    LET value == row.condition_value IN
    CASE row.condition_type = "http_status_gte" -> value >= 0 /\ response.code >= value
      [] row.condition_type = "duration_ms_gte" -> value >= 0 /\ response.duration_ms >= value
      [] row.condition_type = "response_body_contains" -> value \in response.body
      [] OTHER -> value >= 0 /\ failures >= value

RulesMet(response, failures) ==
    {r \in RuleRows : rule[r].is_enabled /\ IsMet(rule[r], response, failures)}
===========================================================================
