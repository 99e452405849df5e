# Verification of the Agentic Control Plane

TLA+ models of the governance gateway in `src/acp`: a FastAPI process that
issues credentials to agents, proxies their LLM calls, and on the way
authenticates them, evaluates policies, asks humans for approval, enforces
budgets and keeps an audit log. TLC checks the models on small instances, the
TLA+ proof system proves the theorems for every value of the constants.

## 1. Inventory

| Component | State | Operations | Hard behaviour | What makes it correct |
|---|---|---|---|---|
| Approval engine (`primitives/approvals/engine.py`, `api/approvals.py`) | `approval_requests`, `approval_decisions`; in process `_pending_events` | create, wait, decide, time out | a coroutine blocked on an event while another transaction decides; timer against approver; restart | nothing goes out without a grant; no lost wakeup; every waiter is answered; decided rows are accounted for |
| Audit log (`primitives/audit/logger.py`) | `audit_events`, a hash chain | `log_event`, `verify_chain` | read-then-insert under concurrent transactions; rollback; a reset | the chain breaks only where an unlocked handler was overtaken; atomic with the work; tampering shows |
| Budget tracker (`primitives/budget/tracker.py`, `api/budgets.py`) | `budget_limits`, `budget_usage`, `budget_alerts` | check, record, view | SELECT then UPDATE; row created on demand; change of window; limits | overspend is bounded; usage is exact; a hard stop is final; one alert per threshold |
| Identity (`primitives/identity/service.py`, `credentials.py`, `api/agents.py`) | `agents`, `agent_credentials`, `rsa_key_pairs`; in process `_revocation_cache` | register, rotate, revoke agent or credential, authenticate, JWKS | revocation against rotation and authentication; stale cache; overlap of rotations | a revoked credential is not accepted; revocation is permanent; a rotated credential ends within the overlap asked for |
| Proxy (`proxy/interceptor.py`, `main.py`) | none of its own; one session per call | the pipeline of a call | holds one transaction (or two) over all the steps | the order of the checks; bookkeeping after the upstream call |
| Policy engine (`primitives/policy/`, `api/policies.py`) | `policies`, `policy_versions`, `policy_decision_log` | create, update, rollback, evaluate, simulate | the row is read before the lock is taken; versions under overlapping writers; precedence among scopes | `evaluate` and `simulate` decide as prescribed; changes are local and stay in the history; an allowed call is allowed when it is sent |
| Organisation keys (`primitives/identity/service.py`) | `rsa_key_pairs` | select, retire, create, publish | select-then-insert; the secret changes at a restart | one active key; no key of an issued token is lost |
| Attestation (`api/attestations.py`) | in process `_challenges` | challenge, respond | look-up, await, removal; restart | a challenge that is answered, expired or lost, or a retired key, verifies nothing |
| Verifier SDK (`sdk/ais_verify`) | JWKS cache in the verifying process | verify | fetches that overtake each other; stale keys | trust in a retired key is bounded in time |
| Replay (`primitives/replay/session.py`, `api/replay.py`) | `replay_sessions` | create, navigate, get a step, share | two navigations of one session; spans that come after the index | what it shows is a step that it can reach |
| Traces (end of `handle_proxy_request`, `models/trace.py`) | `agent_traces`, `trace_spans` | record | two first calls of one trace | one row per trace, and no span without it |
| Reports, notifications, console, CLI, demo, configuration | none that others depend on | reading, I/O, seeding | the reset of the demo, which clears the audit log | the reset is in `AuditChain`; the rest is not modelled |

**Interaction.** A proxied call runs through `handle_proxy_request` in one
database session: authenticate (UPDATE of `last_seen_at`), evaluate, perhaps
create an approval, *commit*, wait, check budgets, forward, record span and
usage, log, commit. The API handlers each use one session. All of them meet
in the database, and in the three process-wide dictionaries
`_pending_events`, `_revocation_cache` and `_challenges`. A verifier is another
process, which sees the gateway through its published keys.

**The database.** The default is SQLite through SQLAlchemy with
`autoflush=False`, `expire_on_commit=False`. Three facts are in every module:

* a SELECT reads what is committed, and of the uncommitted only the session's
  own (`View`);
* the first flush of a session takes the database's only write lock, and the
  session keeps it until commit or rollback (`lock`); a session that cannot
  get it fails at the busy timeout (`Fail`, `ProxyFails`, `DecisionFails`);
* an UPDATE writes the columns that changed, with values computed from what
  the session had read.

**The process** is one asyncio loop: between two awaits nothing else runs, so
each handler is one action per stretch that others can observe.

The hazards, each with its line and the properties that watch it, are listed
in `PROJECT.json` under `hazards`.

## 2. Modules

| Module | Models | Runs |
|---|---|---|
| `ApprovalGate` | the promise of a human-in-the-loop gate, without database, events or timers | through `approvals` |
| `Approvals` | engine, approval branch of the proxy, `decide`; restart | `approvals`, `approvals_live`, `approvals_final_state`, `approvals_decided_once` |
| `ApprovalsProofs` | theorems about `Approvals`, with the refinement of `ApprovalGate` | proved, no run |
| `AuditChain` | `log_event` in concurrent transactions, `verify_chain`, the demo's reset | `audit`, `audit_fork` |
| `AuditChainProofs` | theorems about `AuditChain` | proved, no run |
| `Budget` | budget steps of the proxy, tracker, `get_usage` | `budget`, `budget_rolling` |
| `BudgetProofs` | theorems about `Budget` | proved, no run |
| `Credentials` | registration, rotation, revocation, authentication, cache | `credentials` |
| `CredentialsProofs` | theorems about `Credentials` | proved, no run |
| `PolicyEngine` | the algorithms of `dsl.py` and `engine.py` (validation, matching, `evaluate`, `simulate`), and `Prescribed`, what a request's decision should be | through `policies` |
| `PolicyEngineProofs` | the engine decides as prescribed, on any table and any request | proved, no run |
| `Policies` (extends `PolicyEngine`) | the policy endpoints, their history, the policy step of a proxied call | `policies` |
| `PoliciesProofs` | theorems about `Policies` | proved, no run |
| `OrgKeys` | signing keys: select, retire, create, sign; a change of the secret at a restart | through `trust` |
| `Trust` (extends `OrgKeys`) | publication of the keys, the verifier's cache, challenge and response | `trust` |
| `TrustProofs` | theorems about `OrgKeys` and `Trust` | proved, no run |
| `Traces` | trace rows and spans of proxied calls, replay sessions | `traces` |
| `TracesProofs` | theorems about `Traces` | proved, no run |

The `MC*` modules give the small instances. A definition whose comment starts
with "Deviation" is not part of the specification: it is a plausible bug, and
putting it in the place of the definition below it makes the property named
in `PROJECT.json` (`mutants`) fail.

**Approvals.** `proxy[r]` is the position of `handle_proxy_request`:
`created` after `create_approval_request`, `waiting` in `event.wait()`,
`timing_out` in `_handle_timeout`, `answered` when `wait_for_decision` has
returned `final[r]`, `forwarded` when the request is upstream. `Forward` may take
the write lock, because `check_budget` inserts a usage row that is not there yet.
An unknown timeout setting falls to the default of its look-up (`TimeoutStatus`). `decider[a]` is
the position of `decide`: `read` after the SELECT, `flushed`, `woke` after
`event.set()`, and then its commit. The timer may fire at any time while a call
waits. `Crash` drops sessions and events; nothing re-waits for a pending row,
because the code does not.

**AuditChain.** A hash is the sequence of events hashed into it, so equal
hashes mean equal histories (collision freedom is the assumption). The classes
are of transactions, not of endpoints, because what matters is whether *this*
session has flushed a write when it calls `log_event`:

* `LockFirst` have, and hold the lock: register, rotate, the revocation of a
  credential, `create_budget`, `decide`, a revoke that changes a row, and a
  proxied call, whose authentication updates `last_seen_at`;
* `Rejecting` log a refusal and then raise, with or without the lock;
* `Seeders` are `POST /api/demo/seed`, which may first delete the whole log and
  commit that (`ResetLog`);
* the rest read the last hash without the lock and commit: the policy
  endpoints; a call that waited for approval, which gave the lock up before it
  waited (`interceptor.py:190`), if since then no row of its trace or usage had
  to be inserted or updated; a revoke of an agent that is revoked already and
  has no active credential.

`overtaken` and `wiped` are history: who had read the last hash when another
wrote the log, and whose committed rows a reset deleted.

**Budget.** `Approved` calls gave the write lock back at the commit that
published their approval request, the others hold it from authentication on.
Cost stands for tokens too; the limit of both is a `>=`. A call of cost 0 is one
answered without token counts, which is not recorded at all (`interceptor.py:311`);
so `Forward` takes it past the recording. In the runs every call costs
something; the theorems hold for any cost. A rolling window
never finds its row (`FoundRows`), because its start is the present instant.

**Credentials.** A credential is named after the session that issues it.
`overlap` is the `overlap_hours` that a rotation's request asks for, one of `Asked`
or none, then the configured `Overlap`. History is `late`, one boolean per rotation
and call: whether the revocation of what it is about had committed when it
began; `older`, the credentials of the agent that were issued before; and `until`,
the time to which a rotation cuts them. `cache`, `stale`
and `refresh` are `_revocation_cache`, its age and `_cache_lock`. Calls that are
not in the scenario of a behaviour never come (`pc` is `absent`).

**PolicyEngine.** A parsed DSL document is a record of its sections; a section
is a function from the keys it has, so "not given" is a missing key, as in the
code. The stable sort by specificity is modelled by ranks: the n-th row of
`SpecificFirst` is the one that has n - 1 rows `Before` it. `fnmatch` is a table (`Globbed`) of the patterns of an instance.
`Prescribed` is stated without order or loop: among the applicable policies, one
of the most specific scope, and of these the one inserted first. A policy whose
hours cannot be read (`None`; the parser accepts them) raises when a request gets as
far as its hours (`Raises`); the decision is then `error`, a 500, and a call that
gets it can only fail.

**Policies.** `table` is `policies` in the order of rows; `loaded` and `next` are
what a writer has read and what it will write. `Changed` is SQLAlchemy's UPDATE:
only the columns that differ from what was loaded are written, so a writer that
was overtaken writes over a newer row in part. A rollback to any of `Targets` reads twice, the policy
(`SelectForRollback`) and its version (`SelectVersion`), and others may commit in
between. `Flush` is the flush in
`log_event`, where an endpoint takes the lock; what it read before may be stale
by then. `raced` remembers the policies for which that could happen.

**OrgKeys.** A key has the name of the session that creates it, and a token that
of the session that signs it. A registration holds the lock before it looks for
a key, because it has inserted its agent; a rotation only reads until it flushes
a key or a credential. `secret` changes only at a restart, which ends every
session; a key that the new secret cannot decrypt is retired by the next session
that looks for a key.

**Trust.** `step[v]` is the position of a verification: `fetching` when the cache
had no live entry, `answered` when the gateway has read its keys, then decided at
once. Nothing in the code keeps two fetches apart, so the older document may be
stored last. This is the verifier that fetches its keys; that a fetch takes at most
`FetchTime` is an assumption of the model, since httpx's timeouts are per phase. For a response, `Respond` looks the challenge up, `SelectActiveKey`
is the await, and `Conclude` removes the challenge. `ServerRestart` empties
`_challenges`. `hopeless` is history: at its start the challenge was not open,
or the key not active.

**Traces.** `FindTrace`, `InsertTrace`, `Record` and `CommitCall` are the tail of
`handle_proxy_request`; `newRow` are the calls that insert the row of their
trace. An allowed call has the lock since authentication, and so finds what
others committed; an approved call may look first and insert after another did.
`goal` is what a navigation has read and where it will go: like every ORM
UPDATE it writes nothing when both are equal. `Show` is `get_step`.

## 3. Runs

| Run | Instance | Shows |
|---|---|---|
| `approvals` | 2 calls, 2 approvers, 1 restart, all timeout actions; symmetric | types; no call is sent without a grant; a decided row and a sleeping waiter never coexist without a set event; decided rows have a decision record or the timer; nothing is reopened; the gate is implemented |
| `approvals_live` | 2 calls, 1 approver, 1 restart; no symmetry | each call ends, and the lock is always given back |
| `approvals_final_state` | violation | the waiter may read `pending` after its wakeup, and an approved call gets a 403 |
| `approvals_decided_once` | violation | a second approver, or the timer, overwrites a decision |
| `audit` | 5 handlers: a demo seeding, an endpoint that writes before it logs, one that commits without the lock, a refused call with a write and one without; 2 events each | the chain breaks only at the first event of an unlocked handler that was overtaken, and nothing is chained to what was rolled back; events are atomic with their work; tampering with an intact log shows; lock released |
| `audit_fork` | violation; two policy endpoints, both without the lock | their events fork the chain |
| `budget` | 3 calls (one approved), 1 viewer, an agent and an organisation budget, 2 months | the stop is set exactly at the limit and is final; overspend is at most one call; no cost is lost or counted twice; one alert per threshold reached |
| `budget_rolling` | violation; 3 calls, one rolling budget | the hard stop is never seen |
| `credentials` | one agent, in four scenarios: 2 registrations of its id, 2 rotations, one revocation of each kind; or 1 registration, 1 rotation and either 2 calls that authenticate and one revocation of either kind, or 1 call and both; each rotation with the configured overlap or one longer than a credential's life; 3 clock values | revocation is permanent; only a rotation that had begun before leaves a revoked agent a credential; active credentials are in an order, each cut short by every later rotation to the overlap that one asked for; expiry only shrinks; a revoked credential is not accepted, whatever the cache does |
| `policies` | 2 creates, 1 update, 1 rollback, 1 proxied call; eight sources (deny, ask, allow, with each kind of clause, one whose hours cannot be read, and two that do not compile), three scopes, two organisations | every request is decided as prescribed, and simulated so; a change affects only requests its policy applies to; history is sequential unless writers overlap; no accepted change is lost from it, overlap or not; a call is sent only while policy allows it |
| `trust` | 1 registration, 2 rotations, 2 secrets, 1 restart; either 2 verifications that share a cache, or 1 challenge and 2 responses; 4 clock values | one active key unless a session looked while another replaced it; keys of issued tokens stay; trust in a retired key ends; no hopeless response is verified |
| `traces` | 1 allowed and 2 approved calls, 2 trace ids, 1 replay session, 2 navigations, 1 share | one row for each trace with spans, in any order of calls; a replay shows the step its row points to |

**Bounds.** Two of each kind of actor are what the races need: a reader that
is overtaken and the writer that overtakes it; a third credential or call is
there where a property needs it (a credential that two rotations cut short, three
calls over a limit of two). Five handlers of the audit log are one of each class,
the refused ones in both orders of write and log. `policies` has one writer too few
for a rollback to meet a version number that the history has twice; that it then
fails is in `SelectVersion`, and the theorems hold for any number. One restart, because a second finds the same
shape of state as the first. Two months, because windows interact only across
one boundary. `MaxEvents` bounds the events of one transaction, `MaxTime` the
clock, `MaxCrashes` and `MaxRestarts` the restarts. `Scenarios` names the sets of
calls that may come in one behaviour: the product of all of them adds no race
that one of the sets does not have, because verifications and responses share
nothing but the keys, and authentications change nothing but the cache and, for
one statement, the write lock: no registration, rotation or revocation reads the
cache, and each of them waits for the lock whoever holds it. `TTL`, `FetchTime`,
`ChallengeTTL`, `Lifetime` and `Overlap` are one unit or none, with a clock that goes past their sum;
an overlap that is asked for may be two, longer than a credential lives. Costs and limits are small integers that put
a call below, at and above a limit and a threshold.

**Budget, conditionally.** `UsageExact`, `OverspendBounded` and half of
`StopAtLimit` speak of states in which no call of the approval path has
completed (`Serial`): such a call reads its row without the lock, and a sum it
computed may replace a newer one. The other properties hold with such calls.

**Fairness.** `FairSpec` of `Approvals` and of `AuditChain` has weak fairness
of each handler's steps: asyncio runs every ready coroutine, `wait_for` has a
timer, and SQLite answers each statement, by a result or by the busy timeout.
No fairness is assumed of clients: nobody has to make a call or decide one,
and no approver saves a waiter in `CallAnswered`. Strong fairness is not
needed, because a handler that meets a taken lock may fail, as it does.

**Deadlock** is checked in every run; the `Finished` action is the state in
which every handler has answered.

**Disagreements found.** Four runs expect a violation; `findings` in
`PROJECT.json` quotes the line each contradicts: the wakeup before the commit
(`engine.py:193`), the decision that is overwritten (`engine.py:207`), the
fork of the chain by handlers that log without the lock (`logger.py:88`; two policy
endpoints in the trace), and rolling windows (`tracker.py:26`). Others were met while modelling and have no run; the
models follow the code, and the properties are stated so that they hold of it:

* two responses to one challenge that overlap are both verified, since the
  challenge is looked up before an await and removed after it
  (`api/attestations.py`; `docs/threat-model.md:87` has "Nonces are single-use").
  `VerifiedInTime` is what remains: a response that begins later is refused;
* the reset of the demo deletes every row of `audit_events` (`demo.py:150`), a table
  which is "Append-only: never UPDATE or DELETE rows in this table."
  (`models/audit.py:19`). `AuditChain` has this step (`ResetLog`) and no property
  that the log only grows; `AtomicWithWork` excepts what was `wiped`;
* overlapping writers of one policy give two versions one number
  (`models/policy.py:26`), after which a rollback to it answers 500; and the row may
  be left with the source of the one and the version, or the compiled form, of the
  other (`api/policies.py:168`), so that it is not enforced by the source it shows.
  `SequentialHistory` excludes `raced` policies, and `WritesRecorded` is what
  remains for them;
* a policy whose hours cannot be read is accepted (`dsl.py:85`), and from then on
  the calls whose evaluation reaches those hours answer 500. Of the other parts that
  the parser does not look into, a pattern that is no string or a window
  that is no mapping raise in the same way;
* a refused call rolls its decision log back with its session, although
  `models/policy.py:68` wants every evaluation recorded;
* two first calls of a trace whose id they share, both approved, insert its row
  twice and the second answers 500 (`interceptor.py:271` says idempotent). `Traces`
  has this step; `TracesWhole` shows that nothing of that call remains;
* the shared link of a replay compares a naive with an aware time on SQLite and
  answers 500 (`api/replay.py:129`): reading it is not an action of `Traces`.

## 4. Proofs

**ApprovalsProofs**, for any sets of calls and approvers and any number of
restarts, from `ApprovalsAssumption` (calls, approvers, timer and "nobody" are
distinct names):

* `TypeCorrect`: `Spec => []TypeOK`;
* `NoLostWakeupCorrect`: `Spec => []NoLostWakeup`;
* `ForwardGrantedCorrect`: `Spec => []ForwardGranted`;
* `RowAccountedCorrect`: `Spec => []RowAccounted`;
* `NothingReopenedCorrect`: `Spec => NothingReopened`;
* `ImplementsGateCorrect`: `Spec => ImplementsGate`.

None of these is inductive by itself. The strengthening, in layers, each with
its own step lemma:

* `TypeInv`: types, and an approver in the middle of a decision has a request
  to commit to (`TaskGiven`);
* `SignInv` adds `Signed`: an answer, or a row, that carries the timer's name says
  what the timer of that call decides. So the commit of a timed-out call
  writes the timer's answer and nothing else, which `RowAccounted` and
  `NothingReopened` need; it does not matter who else holds the lock by then;
* `WakeInv` follows a decision. A request is visible only from the commit
  before its call waits (`Published`), the event is registered by then
  (`Registered`), an approver has read a visible request (`TaskKnown`) and has
  set the event before it commits (`WokeFirst`). Then a commit that decides
  the row of a waiting call finds the event set;
* `AnswerInv` adds to `SignInv` that nothing is returned before the wait is over
  (`NoAnswerYet`);
* `GateInv` follows a grant. Because of `AnswerInv` the timer's answer is returned
  once and stays (`Monotone`), and a grant is never withdrawn (`GrantKept`). What a call
  reads after a wakeup as approved has a decision record, because a row with
  the timer's signature belongs to a call that is over (`RowAccounted`);
  hence `AnswerGranted`, and `ForwardGranted`;
* `RowInv` adds `Undecided` (an undecided row names nobody). `RowWritten`
  lists the three commits that write a row; `GateRefines` maps each step to a
  step of `ApprovalGate` or to a stutter: the timer and the commit of a
  decision to `Grant` (unless the call had been granted), a 403 or 429 to
  `Refuse`, the upstream call to `Send`.

**AuditChainProofs**, for any set of handlers and any `MaxEvents`, from
`AuditAssumption`:

* `TypeCorrect`: `Spec => []TypeOK`;
* `ForksNamedCorrect`: `Spec => []ForksNamed`;
* `ChainCorrect`: if every handler is in `LockFirst` or `Rejecting`, then
  `Spec => []ChainValid`, resets included. This hypothesis is exactly what
  `audit_fork` lacks;
* `TamperEvidentCorrect`: `Spec => []TamperEvident`;
* `AtomicWithWorkCorrect`: `Spec => []AtomicWithWork`.

All but `ChainCorrect` are for every set of handlers, in whatever order they write.

`ForksNamed` is not inductive: the step that commits appends rows that were
inserted earlier. The inductive invariant `ForkInv` adds that uncommitted rows
belong to the session that holds the write lock (`DirtyHoldsLock`), that a
`LockFirst` handler holds it from its first write to its end (`ReadyHoldsLock`)
and hence is never overtaken (`ClassesKept`), that what a session has read is the
last hash it sees unless it has inserted nothing yet and was overtaken
(`SeenUnlessOvertaken`), and that the rows each session sees break only where
`ForksNamed` says (`Named`). `KnownInv` is the other half: no hash that is read,
inserted or committed has a rolled-back event in it, because only the holder of
the lock has uncommitted rows, and others do not see them. `ForkInit`, `ForkStep`
and `KnownStep` are the induction; `NamedAppend` and `ViewAppend` are the facts
about logs, `CleanView` about sessions without rows. `ChainCorrect` follows:
where nobody commits without the lock, no row has a name to be given.

`TamperEvident` needs no invariant but types: in a valid chain the hash of a row
ends with the row's own event and begins with the hash before it (`HashTells`),
so two valid chains that share their hashes share their events (`ChainTells`).
`AtomicWithWork` needs `WorkInv`: the events of a handler are numbered as it
logs them, they are in the log if and only if it has committed and was not
`wiped`, and until then they are among the rows of its session. It needs no
lock, and holds of the handlers that fork the chain as well.

**CredentialsProofs**, for any agents, sessions and clock, and any overlap that
is configured or asked for, from
`CredentialsAssumption`:

* `TypeCorrect`: `Spec => []TypeOK`;
* `RevocationPermanentCorrect`: `Spec => RevocationPermanent`;
* `ExpiryNeverGrowsCorrect`: `Spec => ExpiryNeverGrows`;
* `RevokedNeverAcceptedCorrect`: `Spec => []RevokedNeverAccepted`;
* `StragglersOnlyCorrect`: `Spec => []StragglersOnly`;
* `SupersededCorrect`: `Spec => []Superseded`.

The argument is that the database only moves forward. `Later(d, e)` says that
the tables `e` are `d` at a later time: what is revoked or issued stays so, and
no expiry grows. `StoreInv` has `Later(db, tx)` and the single writer
(`LockInv`), so every commit is a step forward (`DbForward`), which is
`RevocationPermanent` and `ExpiryNeverGrows`. `AuthInv` then carries what was
revoked when a call began to the call's own look into the database, which is
after that and cannot find it: the cache never has to be right for that.
`AgentInv` (a credential belongs to a registered agent) and `NewInv` (an
uncommitted credential belongs to the session with the lock) give
`StragglerInv`: the revocation of an agent has loaded all its active
credentials except those of rotations that are under way. `SupersedeInv`
has the order of issue: of two credentials one is before the other (`InOrder`),
because each is inserted under the lock and sees all that were issued; and each
active one is cut short by every later rotation, except by one that has
inserted its credential and, under the lock, not yet come to that (`CutShort`).
A later rotation may only shorten further, which keeps what an earlier one did.

**TrustProofs**, for any issuers, secrets, verifiers and lifetimes, from the
assumptions of `OrgKeys` and `Trust`:

* `TypeCorrect`, `OneKeyUnlessRacedCorrect`, `TokensKeepKeysCorrect`,
  `BoundedTrustCorrect`, `VerifiedInTimeCorrect`: `Spec => []` of each.

A key has one life: it does not exist, is active, is retired. `KeyInv` says what
a session knows of the key it has found (`FoundInv`): one that it signs with is
active under the present secret, one that it replaces belongs to another
secret, so nobody signs with it at the same time; this gives `TokensKeepKeys`.
`SoleInv` says that without a race at most one session is replacing, and that
the key it replaces is then the only active one. With `RetiredInv` (when a
retirement happened), `BeliefInv` bounds a verifier's trust: the keys of an
answer or of the cache were active when their fetch began, and that is not
older than a fetch, or a fetch and the lifetime of the cache. `ResponseInv`
follows a response that came in vain: its challenge is used up, or its key is
retired, and neither comes back.

**TracesProofs**, for any calls, traces and sessions, from the assumption of
`Traces`:

* `TypeCorrect`, `TracesWholeCorrect`, `ReplayShowsStepCorrect`: `Spec => []` of each.

`CallInv` adds to `TracesWhole` that a call which records has found the row of
its trace or has inserted it; with this, its commit adds a row and a span
together or fails. `ReplayRow` says that a committed session has an index of
spans of its trace, each once, in the order of their start, and a position
within it; since spans are never taken away the index stays good.
`NavigationInv` says that a navigation which has flushed goes to such a position.

**BudgetProofs**, for any budgets, calls, costs, limits, thresholds and months,
from `BudgetAssumption`:

* `TypeCorrect`, `StopAtLimitCorrect`, `AlertsOnceCorrect`, `UsageExactCorrect`:
  `Spec => []` of each;
* `MonthlyBoundedCorrect`: the bound on spending for every budget that is not
  rolling, and `OverspendBoundedCorrect`: `Spec => []OverspendBounded` where none
  is (`Rolling = {}`). The hypothesis is needed: `budget_rolling` violates it;
* `StopIsFinalCorrect`: `Spec => StopIsFinal`.

`LockInv`: an allowed call keeps the lock as long as it works on budgets, and
what the holder of the lock sees extends what is committed (`Extends`), which
is `StopIsFinal`. `LoadedInv`: a call adds to a row that exists, and an allowed
call to the sum that is in it now. `StopInv` and `AlertInv` say of the committed
tables, and of those of the lock's holder, that stops and alerts are in step
with usage (`RowsStopped`, `RowsAlerted`); that a stop means usage at the limit
(`StopsDue`) is kept only by calls that held the lock throughout.

The other half of the module keeps accounts, in `AccountInv`. `Sum(f)` is the size
of a disjoint union, f[x] units for each x, so that adding to a sum is adding
elements to a finite set (`SumGrows`) and no induction is needed; there are
finitely many terms because a session ends one call per step (`DoneInv`). A
step of a session works without billing, bills, quits or commits (`Accounts`), and
`ExactInv` balances over these four: what is committed is the cost of the calls
charged (none for a call without token counts), and what the holder of the lock sees is that and what it has billed
(`Pending`). A call bills a budget once because a budget has one scope, hence
one place in `Applies` (`BudgetAssumption`: `tracker.py:83` queries agent, team and
organisation separately, and a row has one of these levels).
For the bound, `WhenInv` says that nobody writes rows for a month to come, and
`ClearInv` that a budget which let an allowed call pass is not stopped until the
call bills it. `SpendInv` has what was spent this month within this month's row;
a row that is not stopped is below its limit, so `LeftInv` follows: a call was
sent with something left, and no other has spent since, because that would
take the lock. So the call that ends last adds its own cost to less than the
limit (`OvershotInv`).

**PolicyEngineProofs**, for any table whose rows have one of the three levels:

* `EvaluateAgrees`: `evaluate(table, req) = Prescribed(table, req)`, and
  `simulate` returns the same.

`Before` is a strict total order (`BeforeOrder`). Among the rows of an
organisation no two have the same number of rows before them and every number
is taken, so the sorted list has each row once (`Sorted`). The first row of it
that applies has no applicable row before it (`LoopDecides`, `FirstPrescribed`).
Whether a clause of a policy applies is not opened in the proof: the theorem
is about order and precedence, and holds for whatever `Matches` says.

**PoliciesProofs**, for any writers, calls, requests and parsed sources, from
`PoliciesAssumption`:

* `TypeCorrect`, `EngineAgreesCorrect`, `SequentialHistoryCorrect`,
  `WritesRecordedCorrect`, `AllowIsCurrentCorrect`: `Spec => []` of each;
* `ChangeIsLocalCorrect`: `Spec => ChangeIsLocal`.

`RowInv` and `NextInv` say that no row and no row to be written shows a source
that does not compile, and bound its version by the number of writers that
are done. `LockInv` puts a writer that has flushed, and a call that is being
decided, under the lock, hence the table a decision was taken from is the one
the call is sent under (`AnswerInv`, for `AllowIsCurrent`). `RecordInv` has the
version row of each writer that is done, and for a rollback the version it was
asked for, from the moment it has found it (`Fills`). `HistoryInv` says where two
writers overlap that the policy is in `raced`, and otherwise that the row a
writer has read is still there: so its number is one more than the last
version, which keeps `SequentialHistory`. `ChangeIsLocal` uses `EvaluateAgrees`:
`Prescribed` depends on the applicable rows only.

TLC evaluates the assumptions in the runs. Only model-checked is liveness
(`CallAnswered`, `LockReleased`): it needs fairness and ENABLED, which are out of
the prover's reach.

## 5. Not modelled

* `create_budget`: budgets exist from the start, and nothing changes their limits.
* Listing endpoints, the fleet registry, audit reports: they only read.
* In the verifier: discovery (fetched once, never again) and the checks of single
  claims. In the proxy: parsing, cost estimates, the headers of an answer.
* `TraceContext` of `tracer.py`: nothing calls it.
* Notifications: I/O whose failures are logged and ignored.
* Console, landing page, CLI, configuration: no state that others depend on.
* Demo seeding, but for its audit log. A reset deletes, and commits before anything
  is seeded, *every* row of `audit_events`, those of other organisations included
  (`demo.py:149-151`; `ResetLog`), and the demo's own agents, credentials,
  keys, policies with their versions, approvals, traces and budget, by their fixed
  names. So what `RevocationPermanent`, `TokensKeepKeys`, `NothingReopened`,
  `WritesRecorded` and `StopIsFinal` say holds of all rows but the demo's own. A handler
  that has read its last hash without the lock when the reset commits breaks the
  rebuilt chain; `ForksNamed` covers it.
* What happens to a forked chain later: when a row of a fork is removed,
  `verify_chain` may accept the rest, so tampering is noticed in chains that
  were intact (`TamperEvident`), and not in ones that were forked.
* The verifier with a static JWKS (`verifier.py:67-68`), which never fetches again: it
  trusts a retired key as long as its process runs, and `BoundedTrust` does not
  speak of it.
* The SELECTs by which `navigate` looks for the first violation, span by span, are one
  step of `Traces` with the one before (`SelectReplay`): a span never changes after its
  commit, so they read the same whenever they come.
* Several gateway processes, and databases other than SQLite: the locking differs.
* Connection pools and time-outs as durations: a time-out is a step that may
  happen.
* Token signatures are taken to be unforgeable, AES-GCM to fail under a wrong key,
  SHA-256 to be collision-free.
* One module with the whole pipeline of a call. Its steps are in the modules they
  are about; between these a call carries a verdict and the write lock, and
  each module starts a call both with and without the lock where both occur. A
  credential that is revoked, or a policy that is changed, while a call waits for
  its approval is not looked at again; this is by the code (`interceptor.py:192`)
  and listed as a hazard.

## 6. Plan

Every safety property that a passing run checks is a theorem. What is left is beyond
the runs: which rows `verify_chain` reports after several forks, of which it
returns only the first, and a model of one call over all components, if a
property turns up that needs more of a call than its verdict and the lock.
