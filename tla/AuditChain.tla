----------------------------- MODULE AuditChain -----------------------------
(***************************************************************************)
(* The hash-chained audit log: transactions of concurrent HTTP handlers    *)
(* append to it through log_event, and verify_chain recomputes the chain.  *)
(*                                                                         *)
(* Code: acp/primitives/audit/logger.py, the sessions of acp/database.py   *)
(* and acp/main.py, the order in which each caller of log_event first      *)
(* writes (acp/api/{agents,policies,budgets,approvals}.py,                 *)
(* acp/proxy/interceptor.py), and the reset of acp/demo.py.                *)
(*                                                                         *)
(* log_event reads the last hash and then inserts, and nothing but         *)
(* SQLite's write lock keeps another session from committing in between.   *)
(* What decides is whether the session has flushed a write of its own, and *)
(* so holds the lock, when it calls log_event; that differs between the    *)
(* transactions of one handler, so the classes are of transactions:        *)
(*   LockFirst  register, rotate, revoke_cred, create_budget, decide, a    *)
(*              revoke that changes a row, and the proxied calls, whose    *)
(*              authentication updates last_seen_at                        *)
(*   Rejecting  proxied calls that are refused: they log the refusal and   *)
(*              then raise, which rolls the session back; a call that      *)
(*              fails authentication has not written anything before       *)
(*   Seeders    POST /api/demo/seed, which may first delete the whole log  *)
(* The rest read the last hash without the lock, and commit: the policy    *)
(* endpoints, whose first flush is log_event's; a call that waited for     *)
(* approval, which gave the lock up before it waited, unless recording its *)
(* trace or usage inserts or updates a row since; and a revoke of an agent *)
(* that is revoked already and has no active credential.                   *)
(***************************************************************************)
EXTENDS Naturals, SequencesExt

CONSTANTS
  Writers,     \* handlers that log, one transaction each
  LockFirst,   \* those whose session holds the write lock before log_event
  Rejecting,   \* those that raise after logging
  Seeders,     \* those that may clear the log before they write
  None,        \* no session holds the lock
  MaxEvents    \* bound on the events of one transaction

ASSUME AuditAssumption ==
  /\ LockFirst \subseteq Writers
  /\ Rejecting \subseteq Writers
  /\ Seeders \subseteq LockFirst
  /\ None \notin Writers
  /\ MaxEvents \in Nat

VARIABLES
  log,         \* committed rows of audit_events, ordered by id
  own,         \* rows a session has inserted and not committed
  seen,        \* previous_hash as log_event last read it
  lock,        \* the session that holds SQLite's write lock
  pc,          \* where each handler is
  wiped,       \* history: writers whose committed rows a reset deleted
  overtaken    \* history: writers that had read when another wrote the log

vars == <<log, own, seen, lock, pc, wiped, overtaken>>

\* An event stands for all that is hashed of it: event_id (a fresh uuid),
\* type, timestamp and payload.
Events == Writers \X (1 .. MaxEvents)

\* SHA-256 over the previous hash and the event, taken to be collision-free:
\* a hash is the sequence of the events hashed into it.
Hashes        == Seq(Events)
_GENESIS_HASH == <<>>

\* Deviation: the payload is left out of the digest.
HashOfPrevious(previous_hash, event) == Append(previous_hash, <<event[1], 1>>)

_compute_hash(previous_hash, event) == Append(previous_hash, event)

Rows == [event : Events, previous_hash : Hashes, event_hash : Hashes]

Row(previous_hash, event) ==
  [event         |-> event,
   previous_hash |-> previous_hash,
   event_hash    |-> _compute_hash(previous_hash, event)]

\* Deviation: no special case for the empty log.
LastHashOrNone(rows) == IF rows = <<>> THEN None ELSE Last(rows).event_hash

_get_last_hash(rows) == IF rows = <<>> THEN _GENESIS_HASH ELSE Last(rows).event_hash

\* The loop of verify_chain, for the row at position i.
Intact(rows, i) ==
  /\ rows[i].previous_hash = IF i = 1 THEN _GENESIS_HASH ELSE rows[i - 1].event_hash
  /\ rows[i].event_hash = _compute_hash(rows[i].previous_hash, rows[i].event)

verify_chain(rows) == \A i \in DOMAIN rows : Intact(rows, i)

\* What a session sees: the committed rows and its own.
View(w) == log \o own[w]

Ends == {"committed", "rejected", "failed"}

Init ==
  /\ log = <<>>
  /\ own = [w \in Writers |-> <<>>]
  /\ seen = [w \in Writers |-> _GENESIS_HASH]
  /\ lock = None
  /\ pc = [w \in Writers |-> "start"]
  /\ wiped = {}
  /\ overtaken = {}

\* Those whose last hash a change of the committed rows makes stale.
HaveRead == {w \in Writers : pc[w] = "read"}

-----------------------------------------------------------------------------
\* Deviation: the handler's own row is added to the session but not flushed.
AddWithoutFlush(w) ==
  /\ pc[w] \in {"start", "cleared"}
  /\ pc' = [pc EXCEPT ![w] = "ready"]
  /\ UNCHANGED <<log, own, seen, lock, wiped, overtaken>>

\* seed_demo_data with replace_existing: the old rows are deleted, those of
\* every organisation, and that is committed before anything is seeded.
ResetLog(w) ==
  /\ w \in Seeders
  /\ pc[w] = "start"
  /\ lock = None
  /\ log' = <<>>
  /\ wiped' = {v \in Writers : pc[v] = "committed"}
  /\ overtaken' = overtaken \cup HaveRead
  /\ pc' = [pc EXCEPT ![w] = "cleared"]
  /\ UNCHANGED <<own, seen, lock>>

\* The handler's work before log_event: a LockFirst one flushes a row.
HandlerWork(w) ==
  /\ pc[w] \in {"start", "cleared"}
  /\ IF w \in LockFirst THEN lock = None /\ lock' = w ELSE lock' = lock
  /\ pc' = [pc EXCEPT ![w] = "ready"]
  /\ UNCHANGED <<log, own, seen, wiped, overtaken>>

\* log_event, up to its await of _get_last_hash.
ReadLastHash(w) ==
  /\ pc[w] = "ready"
  /\ Len(own[w]) < MaxEvents
  /\ seen' = [seen EXCEPT ![w] = _get_last_hash(View(w))]
  /\ pc' = [pc EXCEPT ![w] = "read"]
  /\ UNCHANGED <<log, own, lock, wiped, overtaken>>

\* Deviation: each event is committed by itself, before the handler is done.
InsertAndCommit(w) ==
  /\ pc[w] = "read"
  /\ lock \in {None, w}
  /\ log' = Append(log, Row(seen[w], <<w, Len(own[w]) + 1>>))
  /\ pc' = [pc EXCEPT ![w] = "ready"]
  /\ overtaken' = overtaken \cup (HaveRead \ {w})
  /\ UNCHANGED <<own, seen, lock, wiped>>

\* log_event, from its flush: the row takes the next id, because the INSERT
\* takes the write lock if the session does not have it yet.
InsertEvent(w) ==
  /\ pc[w] = "read"
  /\ lock \in {None, w}
  /\ lock' = w
  /\ own' = [own EXCEPT ![w] = Append(@, Row(seen[w], <<w, Len(@) + 1>>))]
  /\ pc' = [pc EXCEPT ![w] = "ready"]
  /\ UNCHANGED <<log, seen, wiped, overtaken>>

\* The handler returns: get_db_dependency or llm_proxy commits.
Commit(w) ==
  /\ pc[w] = "ready"
  /\ own[w] # <<>>
  /\ w \notin Rejecting
  /\ log' = View(w)
  /\ own' = [own EXCEPT ![w] = <<>>]
  /\ lock' = None
  /\ pc' = [pc EXCEPT ![w] = "committed"]
  /\ overtaken' = overtaken \cup HaveRead
  /\ UNCHANGED <<seen, wiped>>

\* Deviation: the session goes away with its transaction open.
RollbackKeepsLock(w, how) ==
  /\ own' = [own EXCEPT ![w] = <<>>]
  /\ pc' = [pc EXCEPT ![w] = how]
  /\ UNCHANGED <<log, seen, lock, wiped, overtaken>>

\* The session is rolled back, which gives the write lock back.
Rollback(w, how) ==
  /\ own' = [own EXCEPT ![w] = <<>>]
  /\ lock' = IF lock = w THEN None ELSE lock
  /\ pc' = [pc EXCEPT ![w] = how]
  /\ UNCHANGED <<log, seen, wiped, overtaken>>

\* The refusal has been logged and the HTTPException leaves the handler.
RaiseRefusal(w) ==
  /\ pc[w] = "ready"
  /\ own[w] # <<>>
  /\ w \in Rejecting
  /\ Rollback(w, "rejected")

\* A statement or the commit fails, "database is locked" included.
Fail(w) ==
  /\ pc[w] \notin Ends
  /\ Rollback(w, "failed")

Finished == (\A w \in Writers : pc[w] \in Ends) /\ UNCHANGED vars

Step(w) ==
  \/ ResetLog(w) \/ HandlerWork(w) \/ ReadLastHash(w) \/ InsertEvent(w)
  \/ Commit(w) \/ RaiseRefusal(w) \/ Fail(w)

Next == (\E w \in Writers : Step(w)) \/ Finished

Spec == Init /\ [][Next]_vars

\* The event loop runs every ready coroutine, and a session that waits for the
\* write lock gets it or fails at its busy timeout.
FairSpec == Spec /\ \A w \in Writers : WF_vars(Step(w))

-----------------------------------------------------------------------------
\* The types of the rows, of what was read and of the lock, and the history.
TypeOK ==
  /\ log \in Seq(Rows)
  /\ own \in [Writers -> Seq(Rows)]
  /\ seen \in [Writers -> Hashes]
  /\ lock \in Writers \cup {None}
  /\ pc \in [Writers -> {"start", "cleared", "ready", "read"} \cup Ends]
  /\ wiped \subseteq Writers
  /\ overtaken \subseteq Writers

\* Whenever an auditor calls verify_chain, it finds the chain intact: no two
\* committed events are chained to the same predecessor.  Not so if a handler
\* that commits is not in LockFirst.
ChainValid == verify_chain(log)

\* However transactions, failures and resets interleave, verify_chain stops
\* nowhere but at the first event of a handler that called log_event without
\* the write lock and was overtaken, between its read of the last hash and its
\* insert, by another's commit or reset; and no row, there or elsewhere, is
\* chained to an event that was rolled back.
ForksNamed ==
  \A i \in DOMAIN log :
    /\ ~Intact(log, i) => /\ log[i].event[1] \in overtaken \ LockFirst
                          /\ log[i].event[2] = 1
    /\ \A e \in Range(log[i].event_hash) : pc[e[1]] = "committed"

\* The audit trail is atomic with the work it records: a handler that committed
\* has its events in the log, each once and in order, unless a reset came after,
\* and no other handler has any.
AtomicWithWork ==
  \A w \in Writers :
    LET logged == {i \in DOMAIN log : log[i].event[1] = w}
    IN  /\ \A i \in logged : log[i].event[2] = Cardinality({j \in logged : j <= i})
        /\ logged # {} <=> pc[w] = "committed" /\ w \notin wiped

\* Of a chain it finds intact, verify_chain tells that a row's event is replaced
\* by another, and that a row which others follow is removed.
TamperEvident ==
  verify_chain(log) =>
    \A i \in DOMAIN log :
      /\ \A e \in Events \ {log[i].event} :
           ~ verify_chain([log EXCEPT ![i].event = e])
      /\ i < Len(log) => ~ verify_chain(RemoveAt(log, i))

\* No transaction keeps the database's write lock forever.
LockReleased == (lock # None) ~> (lock = None)
=============================================================================
