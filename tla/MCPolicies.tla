----------------------------- MODULE MCPolicies -----------------------------
(* A small instance of Policies for TLC.                                    *)
EXTENDS Policies

CONSTANTS n1, n2

\* Creates are interchangeable: no liveness property is checked.
CreateSymmetry == Permutations({n1, n2})

Anything == << >>

\* Sources of two policies.  "guard" and "guard_commented" differ in a comment.
Guard  == [policy_id |-> "p", outcome |-> "deny", subject |-> [agent_environment |-> "prod"],
           action |-> [type |-> "llm_call", model_id |-> "large"], resource |-> Anything,
           conditions |-> Anything, approval_config |-> FALSE, malformed |-> {}]
MCParsed ==
  [guard           |-> Guard,
   guard_commented |-> Guard,
   ask             |-> [Guard EXCEPT !.outcome = "require_approval", !.approval_config = TRUE,
                          !.action = [operations |-> {"select", "DELETE"}]],
   open            |-> [Guard EXCEPT !.policy_id = "q", !.outcome = "allow", !.subject = Anything,
                          !.action = Anything],
   window          |-> [Guard EXCEPT !.policy_id = "q", !.outcome = "allow",
                          !.action = [type |-> "api_call", endpoint_pattern |-> "/users/*"],
                          !.resource = [data_classification |-> {"pii", "secret"}],
                          !.conditions = [hours |-> <<540, 1020>>, verified |-> TRUE,
                                           required_claims |-> {"sbom"}]],
   unreadable      |-> [Guard EXCEPT !.conditions = [days |-> {"monday"}, hours |-> None]],
   unconfigured    |-> [Guard EXCEPT !.outcome = "require_approval"],
   lower_case      |-> [Guard EXCEPT !.action =
                          [type |-> "database_operation", operations |-> {"select"}]]]

\* fnmatch lets a star match a slash too.
MCGlobbed == [p \in {"/users/*"} |-> {"/users/7", "/users/7/keys"}]

MCBodies ==
  {[org_id |-> "o", scope_level |-> "org", scope_id |-> "o", dsl_source |-> "open"],
   [org_id |-> "o", scope_level |-> "team", scope_id |-> "t", dsl_source |-> "window"],
   [org_id |-> "o", scope_level |-> "agent", scope_id |-> "a", dsl_source |-> "guard"],
   [org_id |-> "o", scope_level |-> "org", scope_id |-> "o", dsl_source |-> "guard"],
   [org_id |-> "o2", scope_level |-> "org", scope_id |-> "o2", dsl_source |-> "guard"],
   [org_id |-> "o", scope_level |-> "team", scope_id |-> "t", dsl_source |-> "unconfigured"]}

LlmCall == [agent_id |-> "a", team_id |-> "t", org_id |-> "o", agent_environment |-> "prod",
            action_type |-> "llm_call", action_detail |-> "large",
            resource |-> [environment |-> "prod"],
            attestation |-> [verified |-> FALSE, claims |-> Anything],
            day |-> "monday", minute |-> 540]
MCLlmCalls ==
  {LlmCall,
   [LlmCall EXCEPT !.agent_id = "b"],
   [LlmCall EXCEPT !.org_id = "o2", !.team_id = "t2"]}
MCRequests == MCLlmCalls \cup
  {[LlmCall EXCEPT !.action_type = "database_operation", !.action_detail = "select"],
   [LlmCall EXCEPT !.action_type = "api_call", !.action_detail = "/users/7/keys",
      !.resource = [data_classification |-> {"pii"}],
      !.attestation = [verified |-> TRUE, claims |-> [sbom |-> "signed"]]]}
=============================================================================
