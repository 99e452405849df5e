------------------------------ MODULE Policies ------------------------------
(***************************************************************************)
(* The policy tables: policies are created, updated and rolled back, each  *)
(* change with a row of version history, while proxied calls and           *)
(* simulations are decided by them.                                        *)
(*                                                                         *)
(* Code: acp/api/policies.py, acp/models/policy.py, and the policy step of *)
(* acp/proxy/interceptor.py.                                               *)
(*                                                                         *)
(* The endpoints read before their first flush, which is that of           *)
(* log_event; a proxied call evaluates after authenticate_request has      *)
(* taken the write lock.  One action per stretch between two awaits.       *)
(***************************************************************************)
EXTENDS PolicyEngine

CONSTANTS
  Creates,    \* calls of POST /api/policies ...
  Updates,    \* ... of PUT /api/policies/{id}
  Rollbacks,  \* ... of POST /api/policies/{id}/rollback
  Targets,    \* the versions that may be asked for
  Calls,      \* proxied calls
  Bodies,     \* what a create may ask for
  Parsed,     \* dsl_source -> what yaml.safe_load makes of it
  Requests,   \* what a simulation may ask for ...
  LlmCalls    \* ... and a proxied call: llm_call requests without attestation

Writers  == Creates \cup Updates \cup Rollbacks
Sessions == Writers \cup Calls
Sources  == DOMAIN Parsed
Ids      == {Parsed[source].policy_id : source \in Sources} \ {None}

ASSUME PoliciesAssumption ==
  /\ Creates \cap (Updates \cup Rollbacks) = {} /\ Updates \cap Rollbacks = {}
  /\ Calls \cap Writers = {}
  /\ None \notin Sessions \cup Sources
  /\ IsFiniteSet(Writers) /\ Targets \subseteq Nat
  /\ \A body \in Bodies : /\ body.dsl_source \in Sources
                           /\ body.scope_level \in {"org", "team", "agent"}
  /\ LlmCalls \subseteq {req \in Requests : req.action_type = "llm_call"}

VARIABLES
  table,     \* committed rows of policies, in the order of their inserts
  versions,  \* committed rows of policy_versions
  log,       \* committed rows of policy_decision_log
  lock,      \* the session that holds the write lock
  pc,        \* where each session is
  loaded,    \* the policy row a writer has read
  next,      \* that row as the writer will leave it
  target,    \* the version a rollback asks for
  asked,     \* the request of a call
  answer,    \* what evaluate returned for it
  raced      \* history: policies that two overlapping writers have read

vars == <<table, versions, log, lock, pc, loaded, next, target, asked, answer, raced>>

NoRow == [policy_id |-> None]

Init ==
  /\ table = << >>
  /\ versions = {}
  /\ log = {}
  /\ lock = None
  /\ pc = [s \in Sessions |-> "idle"]
  /\ loaded = [s \in Writers |-> NoRow]
  /\ next = [s \in Writers |-> NoRow]
  /\ target = [s \in Rollbacks |-> 0]
  /\ asked = [c \in Calls |-> None]
  /\ answer = [c \in Calls |-> DefaultDecision]
  /\ raced = {}

Ends == {"done", "rejected", "failed"}

Goto(s, label) == pc' = [pc EXCEPT ![s] = label]
Release(s) == lock' = IF lock = s THEN None ELSE lock

Rows(id)     == {i \in DOMAIN table : table[i].policy_id = id}
IdsOf(rows)  == {rows[i].policy_id : i \in DOMAIN rows}
History(id)  == {v \in versions : v.policy_id = id}
Compile(src) == parse_and_compile(Parsed[src])

UnderWay == {"selected", "read", "flushed"}

\* A writer has read `row' and will write `new'.
Read(s, row, new) ==
  /\ loaded' = [loaded EXCEPT ![s] = row]
  /\ next' = [next EXCEPT ![s] = new]
  /\ raced' = raced \cup {id \in {new.policy_id} :
                \E w \in Writers \ {s} : pc[w] \in UnderWay /\ next[w].policy_id = id}
  /\ Goto(s, IF s \in Rollbacks THEN "selected" ELSE "read")

Refused(s, label) == Goto(s, label) /\ UNCHANGED <<loaded, next, raced>>

-----------------------------------------------------------------------------
(* The endpoints. *)

\* create_policy: 422 for an invalid source, 409 for an id the organisation
\* already has.
CheckDuplicate(s, body) ==
  /\ pc[s] = "idle"
  /\ LET id == Parsed[body.dsl_source].policy_id
     IN  IF Valid(Parsed[body.dsl_source])
            /\ \A i \in Rows(id) : table[i].org_id # body.org_id
           THEN Read(s, NoRow, [policy_id |-> id, org_id |-> body.org_id,
                  scope_level |-> body.scope_level, scope_id |-> body.scope_id,
                  dsl_source |-> body.dsl_source, compiled |-> Compile(body.dsl_source),
                  current_version |-> 1])
           ELSE Refused(s, "rejected")
  /\ UNCHANGED <<table, versions, log, lock, target, asked, answer>>

\* Deviation: an update keeps its version number.
UpdatedInPlace(row, source) == [row EXCEPT !.dsl_source = source, !.compiled = Compile(source)]

Updated(row, source) ==
  [row EXCEPT !.dsl_source = source, !.compiled = Compile(source), !.current_version = @ + 1]

\* update_policy: 404 for an unknown id, 422 for an invalid source.
SelectForUpdate(s, id, source) ==
  /\ pc[s] = "idle"
  /\ IF Rows(id) # {} /\ Valid(Parsed[source])
       THEN \E i \in Rows(id) : Read(s, table[i], Updated(table[i], source))
       ELSE Refused(s, "rejected")
  /\ UNCHANGED <<table, versions, log, lock, target, asked, answer>>

\* The row a rollback leaves: the old content as a new version.
Restored(row, v) == Updated(row, v.dsl_source)

\* rollback_policy: 404 for an unknown id.  The row gets the next version number;
\* what it will say is known after the next SELECT.
SelectForRollback(s, id, number) ==
  /\ pc[s] = "idle"
  /\ target' = [target EXCEPT ![s] = number]
  /\ IF Rows(id) # {}
       THEN \E i \in Rows(id) : Read(s, table[i], Updated(table[i], table[i].dsl_source))
       ELSE Refused(s, "rejected")
  /\ UNCHANGED <<table, versions, log, lock, asked, answer>>

\* 404 for an unknown version; scalar_one_or_none raises when the history has
\* that version twice.
SelectVersion(s) ==
  LET found == {v \in History(next[s].policy_id) : v.version = target[s]}
  IN  /\ pc[s] = "selected"
      /\ \/ /\ ~ \E v \in found : found = {v}
            /\ Goto(s, IF found = {} THEN "rejected" ELSE "failed")
            /\ UNCHANGED next
         \/ \E v \in found : /\ found = {v}
                              /\ next' = [next EXCEPT ![s] = Restored(loaded[s], v)]
                              /\ Goto(s, "read")
      /\ UNCHANGED <<table, versions, log, lock, loaded, target, asked, answer, raced>>

\* Deviation: the primary key is the id and the organisation.
FlushAnyId(s) ==
  /\ pc[s] = "read"
  /\ lock = None
  /\ Goto(s, "flushed")
  /\ lock' = s
  /\ UNCHANGED <<table, versions, log, loaded, next, target, asked, answer, raced>>

\* The flush of log_event: the primary key is the id alone, so an INSERT of an
\* id that another organisation has, or that has come up meanwhile, is a 500.
Flush(s) ==
  /\ pc[s] = "read"
  /\ lock = None
  /\ IF s \in Creates /\ next[s].policy_id \in IdsOf(table)
       THEN Goto(s, "failed") /\ UNCHANGED lock
       ELSE Goto(s, "flushed") /\ lock' = s
  /\ UNCHANGED <<table, versions, log, loaded, next, target, asked, answer, raced>>

\* An UPDATE sets the columns whose value differs from the loaded one.
Changed(row, old, new) ==
  [column \in DOMAIN row |-> IF new[column] = old[column] THEN row[column] ELSE new[column]]

VersionRow(s) == [policy_id |-> next[s].policy_id, version |-> next[s].current_version,
                  dsl_source |-> next[s].dsl_source, by |-> s]

\* Deviation: the history has one row per version number.
CommitReplacing(s) ==
  /\ pc[s] = "flushed"
  /\ table' = IF s \in Creates THEN Append(table, next[s])
              ELSE [i \in DOMAIN table |-> IF i \in Rows(next[s].policy_id)
                      THEN Changed(table[i], loaded[s], next[s]) ELSE table[i]]
  /\ versions' = {v \in versions : \/ v.policy_id # next[s].policy_id
                                   \/ v.version # next[s].current_version} \cup {VersionRow(s)}
  /\ Release(s)
  /\ Goto(s, "done")
  /\ UNCHANGED <<log, loaded, next, target, asked, answer, raced>>

\* get_db_dependency commits the row, its version and the audit event.
Commit(s) ==
  /\ pc[s] = "flushed"
  /\ table' = IF s \in Creates THEN Append(table, next[s])
              ELSE [i \in DOMAIN table |-> IF i \in Rows(next[s].policy_id)
                      THEN Changed(table[i], loaded[s], next[s]) ELSE table[i]]
  /\ versions' = versions \cup {VersionRow(s)}
  /\ Release(s)
  /\ Goto(s, "done")
  /\ UNCHANGED <<log, loaded, next, target, asked, answer, raced>>

-----------------------------------------------------------------------------
(* Proxied calls. *)

\* Deviation: the call does not write before it evaluates.
AuthenticateReadOnly(c) ==
  /\ pc[c] = "idle"
  /\ lock = None
  /\ Goto(c, "authenticated")
  /\ UNCHANGED <<table, versions, log, lock, loaded, next, target, asked, answer, raced>>

\* authenticate_request ends with an UPDATE of the agent's last_seen_at.
Authenticate(c) ==
  /\ pc[c] = "idle"
  /\ lock = None
  /\ lock' = c
  /\ Goto(c, "authenticated")
  /\ UNCHANGED <<table, versions, log, loaded, next, target, asked, answer, raced>>

\* policy_engine.evaluate, with the decision log row still in the session.  When
\* it raises ("error"), the call can only Fail.
Evaluate(c, req) ==
  /\ pc[c] = "authenticated"
  /\ asked' = [asked EXCEPT ![c] = req]
  /\ answer' = [answer EXCEPT ![c] = evaluate(table, req)]
  /\ Goto(c, "evaluated")
  /\ UNCHANGED <<table, versions, log, lock, loaded, next, target, raced>>

Logged(c) == log' = log \cup {[call |-> c, answer |-> answer[c]]}

\* "deny": HTTPException(403), and llm_proxy rolls the log row back with the rest.
Refuse(c) ==
  /\ pc[c] = "evaluated"
  /\ answer[c].decision = "deny"
  /\ Release(c)
  /\ Goto(c, "rejected")
  /\ UNCHANGED <<table, versions, log, loaded, next, target, asked, answer, raced>>

\* "require_approval": the commit that shows the request to the approvers.
AskApproval(c) ==
  /\ pc[c] = "evaluated"
  /\ answer[c].decision = "require_approval"
  /\ Logged(c)
  /\ Release(c)
  /\ Goto(c, "waiting")
  /\ UNCHANGED <<table, versions, loaded, next, target, asked, answer, raced>>

\* The wait is over: approved, or denied, timed out, escalated.
Resume(c) ==
  /\ pc[c] = "waiting"
  /\ \E label \in {"forwarded", "rejected"} : Goto(c, label)
  /\ UNCHANGED <<table, versions, log, lock, loaded, next, target, asked, answer, raced>>

\* "allow": the call goes to the upstream API.
Forward(c) ==
  /\ pc[c] = "evaluated"
  /\ answer[c].decision = "allow"
  /\ Goto(c, "forwarded")
  /\ UNCHANGED <<table, versions, log, lock, loaded, next, target, asked, answer, raced>>

\* The bookkeeping of an answered call and llm_proxy's commit.
Complete(c) ==
  /\ pc[c] = "forwarded"
  /\ lock \in {None, c}
  /\ Logged(c)
  /\ Release(c)
  /\ Goto(c, "done")
  /\ UNCHANGED <<table, versions, loaded, next, target, asked, answer, raced>>

\* The lock stays busy, a statement, the upstream call or the commit fails.
Fail(s) ==
  /\ pc[s] \in UnderWay \cup {"authenticated", "evaluated", "forwarded"}
  /\ Release(s)
  /\ Goto(s, "failed")
  /\ UNCHANGED <<table, versions, log, loaded, next, target, asked, answer, raced>>

Finished ==
  /\ \A s \in Sessions : pc[s] \in Ends
  /\ UNCHANGED vars

Next ==
  \/ \E s \in Creates, body \in Bodies : CheckDuplicate(s, body)
  \/ \E s \in Updates, id \in Ids, source \in Sources : SelectForUpdate(s, id, source)
  \/ \E s \in Rollbacks, id \in Ids, number \in Targets : SelectForRollback(s, id, number)
  \/ \E s \in Rollbacks : SelectVersion(s)
  \/ \E s \in Writers : Flush(s) \/ Commit(s)
  \/ \E c \in Calls : \/ Authenticate(c)
                      \/ \E req \in LlmCalls : Evaluate(c, req)
                      \/ Refuse(c) \/ AskApproval(c) \/ Resume(c) \/ Forward(c) \/ Complete(c)
  \/ \E s \in Sessions : Fail(s)
  \/ Finished

Spec == Init /\ [][Next]_vars

-----------------------------------------------------------------------------
Versions == 1 .. Cardinality(Writers)
Columns  == [policy_id : Ids, org_id : {body.org_id : body \in Bodies},
             scope_level : {"org", "team", "agent"},
             scope_id : {body.scope_id : body \in Bodies},
             dsl_source : Sources, compiled : {Compile(source) : source \in Sources},
             current_version : Versions]
Answers  == [decision : VALID_OUTCOMES \cup {"error"}, policy_id : Ids \cup {None}]

\* The types of the tables and of the sessions; an invalid source, or two rows
\* of one id, never get into the table.
TypeOK ==
  /\ table \in Seq(Columns)
  /\ \A i \in DOMAIN table : /\ Valid(Parsed[table[i].dsl_source])
                             /\ Rows(table[i].policy_id) = {i}
  /\ versions \subseteq [policy_id : Ids, version : Versions, dsl_source : Sources, by : Writers]
  /\ log \subseteq [call : Calls, answer : Answers]
  /\ lock \in Sessions \cup {None}
  /\ pc \in [Sessions -> {"idle", "authenticated", "evaluated", "waiting", "forwarded"}
                            \cup UnderWay \cup Ends]
  /\ loaded \in [Writers -> Columns \cup {NoRow}]
  /\ next \in [Writers -> Columns \cup {NoRow}]
  /\ target \in [Rollbacks -> Nat]
  /\ asked \in [Calls -> LlmCalls \cup {None}]
  /\ answer \in [Calls -> Answers]
  /\ raced \subseteq Ids

\* Whatever rows the endpoints have left in the table, in whatever order, every
\* request gets the prescribed decision, and a simulation predicts it: also when
\* one of them has conditions that raise.
EngineAgrees ==
  \A req \in Requests :
    LET decision == evaluate(table, req)
    IN  decision = Prescribed(table, req) /\ simulate(table, req) = decision

\* A request is decided differently after a step only if that step wrote a
\* policy that applies to it, or applied to it before.
ChangeIsLocal ==
  [][table' # table =>
       \A req \in Requests : evaluate(table', req) # evaluate(table, req) =>
         \E i \in Applicable(table, req) \cup Applicable(table', req) :
           i \notin DOMAIN table \/ table'[i] # table[i]]_table

\* The history of a policy whose writers never overlapped is sequential: its
\* versions are numbered 1, 2, ..., once each, and the row is the last of them,
\* in the source it shows and in the compiled form it is enforced by.
SequentialHistory ==
  \A i \in DOMAIN table :
    LET row     == table[i]
        history == History(row.policy_id)
    IN  row.policy_id \notin raced =>
          /\ {v.version : v \in history} = 1 .. Cardinality(history)
          /\ row.current_version = Cardinality(history)
          /\ \E v \in history : /\ v.version = row.current_version
                                /\ v.dsl_source = row.dsl_source
                                /\ Compile(v.dsl_source) = row.compiled

\* Every change that was answered with success stays in the history, also when
\* others gave their change the same number, and a rollback's is what the
\* version it was asked for says.
WritesRecorded ==
  \A s \in Writers : pc[s] = "done" =>
    /\ VersionRow(s) \in versions
    /\ s \in Rollbacks =>
         \E v \in History(next[s].policy_id) :
           v.version = target[s] /\ v.dsl_source = next[s].dsl_source

\* A call goes to the upstream API without an approval only while the policies
\* in force say so: no change can come between its evaluation and the call,
\* because the call holds the write lock.
AllowIsCurrent ==
  \A c \in Calls : pc[c] = "forwarded" /\ answer[c].decision # "require_approval" =>
    evaluate(table, asked[c]) = answer[c] /\ answer[c].decision = "allow"
=============================================================================
