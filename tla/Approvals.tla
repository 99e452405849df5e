----------------------------- MODULE Approvals -----------------------------
(***************************************************************************)
(* The human-in-the-loop gate of the proxy: a call that a policy sends to  *)
(* approval inserts an ApprovalRequest, commits it, and blocks on an       *)
(* in-process asyncio.Event until an approver decides or the timer fires.  *)
(*                                                                         *)
(* Code: acp/primitives/approvals/engine.py, the approval branch of        *)
(* acp/proxy/interceptor.py, acp/api/approvals.py, and the sessions of     *)
(* acp/database.py and acp/main.py.                                        *)
(*                                                                         *)
(* The database is SQLite with one session per HTTP request.  A SELECT     *)
(* reads the last committed rows and, of the uncommitted ones, only its    *)
(* own; the first flush of a session takes the database's one write lock   *)
(* and the session keeps it until it commits or rolls back.  Every `await' *)
(* is a point where another coroutine may run, so a handler is one action  *)
(* per stretch between two awaits that others can observe.                 *)
(***************************************************************************)
EXTENDS Naturals

CONSTANTS
  Requests,    \* proxied calls whose policy decision is require_approval
  Approvers,   \* calls of POST /api/approvals/{id}/decide, one use each
  None,        \* no session, no decider
  Timer,       \* decided_by = "system:timeout"
  MaxCrashes   \* bound on process restarts

ASSUME ApprovalsAssumption ==
  /\ Requests \cap Approvers = {}
  /\ None \notin Requests \cup Approvers
  /\ Timer \notin Approvers \cup {None}
  /\ MaxCrashes \in Nat

VARIABLES
  config,      \* timeout_action of the matching policy, per call
  row,         \* committed rows of approval_requests: status and decided_by
  decisions,   \* committed rows of approval_decisions
  lock,        \* the session that holds SQLite's write lock
  event,       \* _pending_events: "none" | "clear" | "set"
  proxy,       \* where handle_proxy_request is, per call
  final,       \* what wait_for_decision returned to it
  decider,     \* where decide() is, per approver
  task,        \* the request and action an approver submitted
  crashes      \* restarts so far

vars == <<config, row, decisions, lock, event, proxy, final, decider, task, crashes>>

db == <<row, decisions>>

TimeoutActions == {"deny", "approve", "escalate", "other"}
Actions        == {"approve", "deny", "escalate"}
Statuses       == {"pending", "approved", "denied", "timed_out", "escalated"}
Sessions       == Requests \cup Approvers
Deciders       == Approvers \cup {None, Timer}

\* States in which an HTTP handler has answered, or died with the process:
\* "aborted" has reached the upstream API but lost its bookkeeping writes.
ProxyEnds   == {"done", "rejected", "failed", "aborted", "lost"}
DeciderEnds == {"done", "rejected", "failed", "lost"}

\* The calls that left for the upstream API.
Sent == {r \in Requests : proxy[r] \in {"forwarded", "done", "aborted"}}

\* status_map of submit_decision, and the table of _handle_timeout.
StatusOf(action) == CASE action = "approve"  -> "approved"
                      [] action = "deny"     -> "denied"
                      [] action = "escalate" -> "escalated"

\* Deviation: the configured action is stored as it is, not translated.
TimeoutStatusRaw(r) == config[r]

TimeoutStatus(r) == CASE config[r] = "approve"  -> "approved"
                      [] config[r] = "escalate" -> "escalated"
                      [] OTHER                  -> "timed_out"

Absent == [status |-> "absent", by |-> None]

\* Commit and rollback both give the write lock back.
Release(s) == lock' = IF lock = s THEN None ELSE lock

Init ==
  /\ config \in [Requests -> TimeoutActions]
  /\ row = [r \in Requests |-> Absent]
  /\ decisions = {}
  /\ lock = None
  /\ event = [r \in Requests |-> "none"]
  /\ proxy = [r \in Requests |-> "idle"]
  /\ final = [r \in Requests |-> Absent]
  /\ decider = [a \in Approvers |-> "idle"]
  /\ task = [a \in Approvers |-> [request |-> None, action |-> "approve"]]
  /\ crashes = 0

-----------------------------------------------------------------------------
(* The proxied call: handle_proxy_request from its require_approval branch. *)

\* Deviation: the event is registered only by a waiter that finds none.
CreateApprovalNoEvent(r) ==
  /\ proxy[r] = "idle"
  /\ lock = None
  /\ lock' = r
  /\ proxy' = [proxy EXCEPT ![r] = "created"]
  /\ UNCHANGED <<config, row, decisions, event, final, decider, task, crashes>>

\* create_approval_request: INSERT, then register the event.  The write lock
\* has been this session's since authenticate_request touched last_seen_at.
CreateApproval(r) ==
  /\ proxy[r] = "idle"
  /\ lock = None
  /\ lock' = r
  /\ event' = [event EXCEPT ![r] = "clear"]
  /\ proxy' = [proxy EXCEPT ![r] = "created"]
  /\ UNCHANGED <<config, row, decisions, final, decider, task, crashes>>

\* db.commit() "persist so approvers can see it", then wait_for_decision.
CommitApproval(r) ==
  /\ proxy[r] = "created"
  /\ row' = [row EXCEPT ![r] = [status |-> "pending", by |-> None]]
  /\ Release(r)
  /\ proxy' = [proxy EXCEPT ![r] = "waiting"]
  /\ UNCHANGED <<config, decisions, event, final, decider, task, crashes>>

\* event.wait() returns; the finally clause drops the event.
Woken(r) ==
  /\ proxy[r] = "waiting"
  /\ event[r] = "set"
  /\ event' = [event EXCEPT ![r] = "none"]
  /\ proxy' = [proxy EXCEPT ![r] = "refreshing"]
  /\ UNCHANGED <<config, row, decisions, lock, final, decider, task, crashes>>

\* Deviation: event.wait() without a timeout.
WaitForever(r) == FALSE

\* wait_for raises TimeoutError.  With the event set in the same turn of the
\* loop the timer may still win: wait_for (Python 3.12) then cancels a task
\* whose wakeup is already scheduled, so there is no guard on event[r].
TimerFires(r) ==
  /\ proxy[r] = "waiting"
  /\ proxy' = [proxy EXCEPT ![r] = "timing_out"]
  /\ UNCHANGED <<config, row, decisions, lock, event, final, decider, task, crashes>>

\* _handle_timeout flushes the status without looking at the row again, the
\* finally clause drops the event, and db.refresh reads the flushed row back.
HandleTimeout(r) ==
  /\ proxy[r] = "timing_out"
  /\ lock = None
  /\ lock' = r
  /\ event' = [event EXCEPT ![r] = "none"]
  /\ final' = [final EXCEPT ![r] = [status |-> TimeoutStatus(r), by |-> Timer]]
  /\ proxy' = [proxy EXCEPT ![r] = "answered"]
  /\ UNCHANGED <<config, row, decisions, decider, task, crashes>>

\* db.refresh(req) after a wakeup: the committed row, whatever it says by now.
Refresh(r) ==
  /\ proxy[r] = "refreshing"
  /\ final' = [final EXCEPT ![r] = row[r]]
  /\ proxy' = [proxy EXCEPT ![r] = "answered"]
  /\ UNCHANGED <<config, row, decisions, lock, event, decider, task, crashes>>

\* Deviation: the 403 leaves without rolling the session back.
RejectKeepsLock(r) ==
  /\ proxy[r] = "answered"
  /\ final[r].status # "approved"
  /\ proxy' = [proxy EXCEPT ![r] = "rejected"]
  /\ UNCHANGED <<config, row, decisions, lock, event, final, decider, task, crashes>>

\* final.status != "approved": HTTPException(403), and llm_proxy rolls back.
Reject(r) ==
  /\ proxy[r] = "answered"
  /\ final[r].status # "approved"
  /\ Release(r)
  /\ proxy' = [proxy EXCEPT ![r] = "rejected"]
  /\ UNCHANGED <<config, row, decisions, event, final, decider, task, crashes>>

\* check_budget refuses an approved call: HTTPException(429), rolled back.
OverBudget(r) ==
  /\ proxy[r] = "answered"
  /\ final[r].status = "approved"
  /\ Release(r)
  /\ proxy' = [proxy EXCEPT ![r] = "rejected"]
  /\ UNCHANGED <<config, row, decisions, event, final, decider, task, crashes>>

\* Deviation: the check is for a denial, not for an approval.
ForwardUnlessDenied(r) ==
  /\ proxy[r] = "answered"
  /\ final[r].status \notin {"denied", "timed_out"}
  /\ proxy' = [proxy EXCEPT ![r] = "forwarded"]
  /\ UNCHANGED <<config, row, decisions, lock, event, final, decider, task, crashes>>

\* check_budget passes, inserting the usage row of a new window if there is none,
\* and the request goes out to the upstream API: it cannot be unsent.
Forward(r) ==
  /\ proxy[r] = "answered"
  /\ final[r].status = "approved"
  /\ \/ lock' = lock
     \/ lock = None /\ lock' = r
  /\ proxy' = [proxy EXCEPT ![r] = "forwarded"]
  /\ UNCHANGED <<config, row, decisions, event, final, decider, task, crashes>>

\* Bookkeeping writes and llm_proxy's commit, which also commits the status
\* _handle_timeout flushed (that session has held the lock ever since).
Complete(r) ==
  /\ proxy[r] = "forwarded"
  /\ lock \in {None, r}
  /\ row' = IF final[r].by = Timer THEN [row EXCEPT ![r] = final[r]] ELSE row
  /\ lock' = None
  /\ proxy' = [proxy EXCEPT ![r] = "done"]
  /\ UNCHANGED <<config, decisions, event, final, decider, task, crashes>>

\* A failed commit, an upstream or a database error, of db.refresh or check_budget
\* too: llm_proxy rolls back and answers 5xx.  A timed-out call that finds the
\* write lock taken gets "database is locked"; only there does the finally clause
\* drop the event.
ProxyFails(r) ==
  /\ \/ proxy[r] \in {"created", "refreshing", "answered", "forwarded"} /\ event' = event
     \/ /\ proxy[r] = "timing_out"
        /\ lock # None
        /\ event' = [event EXCEPT ![r] = "none"]
  /\ Release(r)
  /\ proxy' = [proxy EXCEPT ![r] = IF r \in Sent THEN "aborted" ELSE "failed"]
  /\ UNCHANGED <<config, row, decisions, final, decider, task, crashes>>

-----------------------------------------------------------------------------
(* The approver: decide() and submit_decision.                              *)

\* SELECT the request; only a pending one may be decided.
ReadPending(a, r, action) ==
  /\ decider[a] = "idle"
  /\ row[r].status = "pending"
  /\ task' = [task EXCEPT ![a] = [request |-> r, action |-> action]]
  /\ decider' = [decider EXCEPT ![a] = "read"]
  /\ UNCHANGED <<config, row, decisions, lock, event, proxy, final, crashes>>

\* "not found" or "already {status}": ValueError, 400.
RefuseDecision(a, r) ==
  /\ decider[a] = "idle"
  /\ row[r].status # "pending"
  /\ decider' = [decider EXCEPT ![a] = "rejected"]
  /\ UNCHANGED <<config, row, decisions, lock, event, proxy, final, task, crashes>>

\* Flush the new status and the decision record.
FlushDecision(a) ==
  /\ decider[a] = "read"
  /\ lock = None
  /\ lock' = a
  /\ decider' = [decider EXCEPT ![a] = "flushed"]
  /\ UNCHANGED <<config, row, decisions, event, proxy, final, task, crashes>>

\* Wake the waiting coroutine, if its event is still registered.
WakeWaiter(a) ==
  /\ decider[a] = "flushed"
  /\ LET r == task[a].request IN
       event' = [event EXCEPT ![r] = IF @ = "clear" THEN "set" ELSE @]
  /\ decider' = [decider EXCEPT ![a] = "woke"]
  /\ UNCHANGED <<config, row, decisions, lock, proxy, final, task, crashes>>

\* Deviation: the decision record is left to a later transaction.
CommitStatusOnly(a) ==
  /\ decider[a] = "woke"
  /\ row' = [row EXCEPT ![task[a].request] =
               [status |-> StatusOf(task[a].action), by |-> a]]
  /\ Release(a)
  /\ decider' = [decider EXCEPT ![a] = "done"]
  /\ UNCHANGED <<config, decisions, event, proxy, final, task, crashes>>

\* Deviation: one decision record per request, replaced by the next.
CommitReplacing(a) ==
  /\ decider[a] = "woke"
  /\ LET r == task[a].request
         d == [request |-> r, action |-> task[a].action, actor |-> a]
     IN  /\ row' = [row EXCEPT ![r] = [status |-> StatusOf(d.action), by |-> a]]
         /\ decisions' = {e \in decisions : e.request # r} \cup {d}
  /\ Release(a)
  /\ decider' = [decider EXCEPT ![a] = "done"]
  /\ UNCHANGED <<config, event, proxy, final, task, crashes>>

\* log_event in the same session, then get_db_dependency commits.
CommitDecision(a) ==
  /\ decider[a] = "woke"
  /\ LET r == task[a].request
         d == [request |-> r, action |-> task[a].action, actor |-> a]
     IN  /\ row' = [row EXCEPT ![r] = [status |-> StatusOf(d.action), by |-> a]]
         /\ decisions' = decisions \cup {d}
  /\ Release(a)
  /\ decider' = [decider EXCEPT ![a] = "done"]
  /\ UNCHANGED <<config, event, proxy, final, task, crashes>>

\* The lock stays busy too long, or a later statement or the commit fails:
\* get_db_dependency rolls back.  The event, once set, stays set.
DecisionFails(a) ==
  /\ \/ decider[a] = "read" /\ lock # None
     \/ decider[a] \in {"flushed", "woke"}
  /\ Release(a)
  /\ decider' = [decider EXCEPT ![a] = "failed"]
  /\ UNCHANGED <<config, row, decisions, event, proxy, final, task, crashes>>

-----------------------------------------------------------------------------
\* The process restarts: sessions and _pending_events are gone, rows stay.
\* lifespan only creates missing tables; no request is waited for again.
Crash ==
  /\ crashes < MaxCrashes
  /\ crashes' = crashes + 1
  /\ lock' = None
  /\ event' = [r \in Requests |-> "none"]
  /\ proxy' = [r \in Requests |->
                 IF proxy[r] \in ProxyEnds \cup {"idle"} THEN proxy[r]
                 ELSE IF r \in Sent THEN "aborted" ELSE "lost"]
  /\ decider' = [a \in Approvers |->
                 IF decider[a] \in DeciderEnds \cup {"idle"} THEN decider[a] ELSE "lost"]
  /\ UNCHANGED <<config, row, decisions, final, task>>

\* Every handler has answered.
Finished ==
  /\ \A r \in Requests : proxy[r] \in ProxyEnds
  /\ \A a \in Approvers : decider[a] \in DeciderEnds
  /\ UNCHANGED vars

ProxyStep(r) ==
  \/ CommitApproval(r) \/ Woken(r) \/ TimerFires(r) \/ HandleTimeout(r)
  \/ Refresh(r) \/ Reject(r) \/ OverBudget(r) \/ Forward(r) \/ Complete(r)
  \/ ProxyFails(r)

DeciderStep(a) ==
  FlushDecision(a) \/ WakeWaiter(a) \/ CommitDecision(a) \/ DecisionFails(a)

Next ==
  \/ \E r \in Requests : CreateApproval(r) \/ ProxyStep(r)
  \/ \E a \in Approvers :
       \/ \E r \in Requests :
            \/ RefuseDecision(a, r)
            \/ \E action \in Actions : ReadPending(a, r, action)
       \/ DeciderStep(a)
  \/ Crash
  \/ Finished

Spec == Init /\ [][Next]_vars

\* The event loop runs every ready coroutine, timers fire, and SQLite answers
\* every statement: by success or by the busy timeout.  Nobody has to make a
\* call or to decide one, and the process need not crash.
Fairness ==
  /\ \A r \in Requests : WF_vars(ProxyStep(r))
  /\ \A a \in Approvers : WF_vars(DeciderStep(a))

FairSpec == Spec /\ Fairness

-----------------------------------------------------------------------------
(* What the gate promises.                                                  *)

\* The types of the rows, of the in-process state and of the handlers' states.
TypeOK ==
  /\ config \in [Requests -> TimeoutActions]
  /\ row \in [Requests -> [status : Statuses \cup {"absent"}, by : Deciders]]
  /\ decisions \subseteq [request : Requests, action : Actions, actor : Approvers]
  /\ lock \in Sessions \cup {None}
  /\ event \in [Requests -> {"none", "clear", "set"}]
  /\ proxy \in [Requests -> {"idle", "created", "waiting", "refreshing",
                 "timing_out", "answered", "forwarded"} \cup ProxyEnds]
  /\ final \in [Requests -> [status : Statuses \cup {"absent"}, by : Deciders]]
  /\ decider \in [Approvers -> {"idle", "read", "flushed", "woke"} \cup DeciderEnds]
  /\ task \in [Approvers -> [request : Requests \cup {None}, action : Actions]]
  /\ crashes \in 0 .. MaxCrashes

\* Someone entitled to has allowed the call: an approver, in a committed
\* decision, or the timer of a policy whose timeout_action is "approve".
Granted(r) ==
  \/ \E d \in decisions : d.request = r /\ d.action = "approve"
  \/ config[r] = "approve" /\ final[r].by = Timer

\* No call leaves for the upstream API without a grant, however the wakeup,
\* the timer, other approvers' decisions, rollbacks and restarts interleave.
ForwardGranted == \A r \in Sent : Granted(r)

\* wait_for_decision cannot sleep through a decision: once the row has left
\* "pending" while its call still waits, the call's event is set, because the
\* event is registered before the row can be seen and set before the commit.
NoLostWakeup ==
  \A r \in Requests :
    proxy[r] = "waiting" /\ row[r].status # "pending" => event[r] = "set"

\* A decided row can be accounted for: it carries an approver's status and that
\* approver's decision record is there, or it carries what the timer decided for
\* a call that is over.  A rolled-back decision or timeout leaves no trace in it.
RowAccounted ==
  \A r \in Requests : row[r].status \notin {"absent", "pending"} =>
    \/ \E d \in decisions :
         /\ d.request = r /\ d.actor = row[r].by
         /\ row[r].status = StatusOf(d.action)
    \/ /\ row[r] = [status |-> TimeoutStatus(r), by |-> Timer]
       /\ proxy[r] \in ProxyEnds

\* Committed state is never taken back: a decided row never returns to
\* "pending" or disappears, and decision records are only added.
NothingReopened ==
  [][/\ decisions \subseteq decisions'
     /\ \A r \in Requests :
          /\ row[r].status # "absent" => row'[r].status # "absent"
          /\ row[r].status \notin {"absent", "pending"} => row'[r].status # "pending"]_db

\* A call that entered the gate is answered: by its event, by its timer, by an
\* error or by the end of the process; no lock and no decision holds it forever.
CallAnswered == \A r \in Requests : (proxy[r] # "idle") ~> (proxy[r] \in ProxyEnds)

\* The write lock is always given back, even by a call that takes it to record
\* its timeout, or a usage row, and keeps it through the upstream call.
LockReleased == (lock # None) ~> (lock = None)

Gate == INSTANCE ApprovalGate WITH
          granted <- {r \in Requests : Granted(r)},
          sent    <- Sent,
          refused <- {r \in Requests : proxy[r] = "rejected"}

\* The engine, proxy and approvers together implement the abstract gate: a
\* call is sent only after its grant, and a refused call is never sent.
ImplementsGate == Gate!Spec

-----------------------------------------------------------------------------
(* What the code says of itself and does not do.                            *)

\* engine.py: wait_for_decision "Returns final ApprovalRequest state".  The
\* event is set before the approver commits, so the state may still be pending.
FinalStateReturned ==
  \A r \in Requests : proxy[r] = "answered" => final[r].status # "pending"

\* engine.py: a request that is not pending "is already {status}" and is not
\* decided again.  The check reads before the write lock is taken, and the
\* timer does not check at all.
DecidedOnce ==
  [][\A r \in Requests :
       row[r].status \notin {"absent", "pending"} => row'[r] = row[r]]_db
=============================================================================
