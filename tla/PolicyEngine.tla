---------------------------- MODULE PolicyEngine ----------------------------
(***************************************************************************)
(* What a policy is, which requests it matches, and how the engine chooses *)
(* among the policies of an organisation.  No state: Policies keeps the    *)
(* tables.                                                                 *)
(*                                                                         *)
(* Code: acp/primitives/policy/dsl.py, acp/primitives/policy/engine.py.    *)
(*                                                                         *)
(* A mapping of the DSL (subject, action, resource) is a function from the *)
(* keys that are present; the two nested mappings of `conditions',         *)
(* time_window and attestation, are one function here.  Keys that no       *)
(* matcher reads are left out.  An `hours' that the engine cannot read is  *)
(* None: the parser accepts it, and evaluating it raises.                  *)
(***************************************************************************)
EXTENDS Integers, SequencesExt

CONSTANTS
  DefaultAction,  \* settings.policy_default_action
  Globbed,        \* pattern -> the endpoints fnmatch or _glob_match accepts
  None

VALID_ACTION_TYPES ==
  {"api_call", "database_operation", "filesystem_access", "tool_invocation",
   "llm_call", "agent_delegation"}
VALID_OUTCOMES      == {"allow", "deny", "require_approval"}
VALID_DB_OPERATIONS == {"SELECT", "INSERT", "UPDATE", "DELETE", "DROP", "CREATE", "ALTER"}

ASSUME EngineAssumption ==
  /\ DefaultAction \in {"deny", "allow"}
  /\ None \notin VALID_OUTCOMES

\* str.upper() on the operations that requests and sources spell in lower case.
LowerCase == [select |-> "SELECT", insert |-> "INSERT", update |-> "UPDATE", delete |-> "DELETE"]
Upper(op) == IF op \in DOMAIN LowerCase THEN LowerCase[op] ELSE op

Has(mapping, key) == key \in DOMAIN mapping

-----------------------------------------------------------------------------
(* parse_and_compile. *)

\* A parsed source that parse_and_compile accepts: raw.malformed names the
\* parts that are not the mappings they have to be.
Valid(raw) ==
  /\ raw.malformed = {}
  /\ raw.policy_id # None
  /\ raw.outcome \in VALID_OUTCOMES
  /\ Has(raw.action, "type") =>
       /\ raw.action.type \in VALID_ACTION_TYPES
       /\ raw.action.type = "database_operation" /\ Has(raw.action, "operations") =>
            raw.action.operations \subseteq VALID_DB_OPERATIONS
  /\ raw.outcome = "require_approval" => raw.approval_config

parse_and_compile(raw) ==
  [key \in {"policy_id", "outcome", "subject", "action", "resource", "conditions",
            "approval_config"} |-> raw[key]]

-----------------------------------------------------------------------------
(* The matchers: an absent key is a wildcard. *)

MatchSubject(subject, req) == \A key \in DOMAIN subject : subject[key] = req[key]

\* The key of an action specification that the request's type is tested with.
DetailKey(type) == CASE type = "api_call"           -> "endpoint_pattern"
                     [] type = "database_operation" -> "operations"
                     [] type = "tool_invocation"    -> "tool_id"
                     [] type = "llm_call"           -> "model_id"
                     [] OTHER                       -> "no key"

MatchDetail(key, spec, detail) ==
  CASE key = "endpoint_pattern" -> detail \in Globbed[spec]
    [] key = "operations"       -> Upper(detail) \in {Upper(op) : op \in spec}
    [] OTHER                    -> detail = spec

MatchAction(action, req) ==
  LET key == DetailKey(req.action_type)
  IN  /\ Has(action, "type") => action.type = req.action_type
      /\ Has(action, key) => MatchDetail(key, action[key], req.action_detail)

MatchResource(resource, req) ==
  /\ Has(resource, "environment") =>
       Has(req.resource, "environment") /\ req.resource.environment = resource.environment
  /\ Has(resource, "data_classification") =>
       /\ Has(req.resource, "data_classification")
       /\ req.resource.data_classification \cap resource.data_classification # {}

MatchDays(conditions, req) == Has(conditions, "days") => req.day \in conditions.days

\* The hours are split into numbers whenever the day matches.
ReadingRaises(conditions, req) ==
  MatchDays(conditions, req) /\ Has(conditions, "hours") /\ conditions.hours = None

\* Both ends of `hours' are inside; a window that spans midnight has no inside.
MatchConditions(conditions, req) ==
  LET claims == req.attestation.claims
  IN  /\ MatchDays(conditions, req)
      /\ Has(conditions, "hours") =>
           /\ conditions.hours # None
           /\ req.minute \in conditions.hours[1] .. conditions.hours[2]
      /\ Has(conditions, "verified") => req.attestation.verified = conditions.verified
      /\ Has(conditions, "claims") =>
           \A name \in DOMAIN conditions.claims :
             Has(claims, name) /\ claims[name] = conditions.claims[name]
      /\ Has(conditions, "required_claims") => conditions.required_claims \subseteq DOMAIN claims

Specificity(policy) == CASE policy.scope_level = "agent" -> 3
                         [] policy.scope_level = "team"  -> 2
                         [] policy.scope_level = "org"   -> 1

InScope(policy, req) ==
  CASE policy.scope_level = "agent" -> policy.scope_id = req.agent_id
    [] policy.scope_level = "team"  -> policy.scope_id = req.team_id
    [] policy.scope_level = "org"   -> policy.scope_id = req.org_id

MatchesButConditions(compiled, req) ==
  /\ MatchSubject(compiled.subject, req)
  /\ MatchAction(compiled.action, req)
  /\ MatchResource(compiled.resource, req)

Raises(compiled, req) ==
  MatchesButConditions(compiled, req) /\ ReadingRaises(compiled.conditions, req)

Matches(compiled, req) ==
  MatchesButConditions(compiled, req) /\ MatchConditions(compiled.conditions, req)

\* The loop over the policies ends at one that matches, or that raises.
EndsLoop(compiled, req) == Matches(compiled, req) \/ Raises(compiled, req)

-----------------------------------------------------------------------------
(* The engine.  A table is a sequence of rows in the order of their inserts, *)
(* which is the order SQLite returns them in.                                *)

\* What a policy that ends the loop decides: "error" is the exception, a 500.
Decision(policy, req) ==
  [decision  |-> IF Raises(policy.compiled, req) THEN "error" ELSE policy.compiled.outcome,
   policy_id |-> policy.policy_id]

DefaultDecision == [decision |-> DefaultAction, policy_id |-> None]

OfOrg(table, req) == {i \in DOMAIN table : table[i].org_id = req.org_id}

\* Deviation: the least specific policies come first.
BroadestBefore(table, i, j) ==
  \/ Specificity(table[i]) < Specificity(table[j])
  \/ Specificity(table[i]) = Specificity(table[j]) /\ i < j

\* list.sort is stable, with reverse=True too.
Before(table, i, j) ==
  \/ Specificity(table[i]) > Specificity(table[j])
  \/ Specificity(table[i]) = Specificity(table[j]) /\ i < j

\* The n-th policy of the sorted list is the one with n - 1 before it.
SpecificFirst(table, rows) ==
  LET Rank(i) == Cardinality({j \in rows : Before(table, j, i)}) + 1
  IN  [n \in 1 .. Cardinality(rows) |-> table[CHOOSE i \in rows : Rank(i) = n]]

\* Deviation: the first policy in scope decides, and if it does not match the
\* default does.
EvaluateFirstInScope(table, req) ==
  LET policies == SpecificFirst(table, OfOrg(table, req))
      first    == SelectInSeq(policies, LAMBDA p : InScope(p, req))
  IN  IF first # 0 /\ EndsLoop(policies[first].compiled, req)
        THEN Decision(policies[first], req) ELSE DefaultDecision

evaluate(table, req) ==
  LET policies == SpecificFirst(table, OfOrg(table, req))
      matched  == SelectInSeq(policies, LAMBDA p : InScope(p, req) /\ EndsLoop(p.compiled, req))
  IN  IF matched = 0 THEN DefaultDecision ELSE Decision(policies[matched], req)

\* A second copy of the loop of evaluate, without the decision log.
simulate(table, req) ==
  LET policies == SpecificFirst(table, OfOrg(table, req))
      matched  == SelectInSeq(policies, LAMBDA p : InScope(p, req) /\ EndsLoop(p.compiled, req))
  IN  IF matched = 0 THEN DefaultDecision ELSE Decision(policies[matched], req)

-----------------------------------------------------------------------------
\* What the engine promises, without a loop or an order of its own: a policy of
\* the organisation that applies decides, none that applies is more specific,
\* and of several that are equally specific the oldest does.
Applicable(table, req) ==
  {i \in DOMAIN table : /\ table[i].org_id = req.org_id
                        /\ InScope(table[i], req)
                        /\ EndsLoop(table[i].compiled, req)}

Prescribed(table, req) ==
  LET rows == Applicable(table, req)
      best == {i \in rows : \A j \in rows : Specificity(table[j]) <= Specificity(table[i])}
  IN  IF rows = {} THEN DefaultDecision
      ELSE Decision(table[CHOOSE i \in best : \A j \in best : i <= j], req)
=============================================================================
