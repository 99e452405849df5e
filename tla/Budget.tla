------------------------------- MODULE Budget -------------------------------
(***************************************************************************)
(* Budget accounting: every proxied call checks the budgets of its agent,  *)
(* team and organisation, is forwarded, and then adds its cost to them;    *)
(* the budget page reads usage and may create the row it reads.            *)
(*                                                                         *)
(* Code: acp/primitives/budget/tracker.py, the steps of                    *)
(* acp/proxy/interceptor.py that call it, get_usage of acp/api/budgets.py. *)
(*                                                                         *)
(* As in Approvals, SQLite has one write lock per database, taken by a     *)
(* session's first flush and kept until its commit or rollback.  A call    *)
(* that a policy allows holds it from its authentication on; a call that   *)
(* came through an approval gave it back in the commit that published the  *)
(* ApprovalRequest, and takes it again at its next write.                  *)
(***************************************************************************)
EXTENDS Naturals, SequencesExt

CONSTANTS
  Budgets,       \* budget_limits rows
  Calls,         \* proxied calls that policy lets through
  Approved,      \* those of them that waited for an approval first
  Viewers,       \* calls of GET /api/budgets/{id}/usage
  Rolling,       \* budgets with a rolling_* window; the others are monthly
  Applies,       \* the active budgets of a call: agent, then team, then org
  Cost,          \* the cost of a call, known once its response is there; 0 when
                 \* that has no token counts, so that nothing is recorded
  Limit,         \* max_cost_usd
  Thresholds,    \* alert_thresholds, in percent
  Watched,       \* the budget a viewer asks for
  Months,        \* calendar months, 1 .. Months, bounds the clock
  None

Sessions == Calls \cup Viewers

ASSUME BudgetAssumption ==
  /\ Approved \subseteq Calls
  /\ Rolling \subseteq Budgets
  /\ Calls \cap Viewers = {}
  /\ None \notin Sessions
  /\ Applies \in [Calls -> Seq(Budgets)]
  /\ \A c \in Calls : IsInjective(Applies[c])   \* a budget has one scope
  /\ Cost \in [Calls -> Nat]
  /\ Limit \in [Budgets -> Nat \ {0}]
  /\ Thresholds \subseteq 1 .. 100
  /\ Watched \in [Viewers -> Budgets]
  /\ Months \in Nat \ {0}

VARIABLES
  db,       \* committed budget_usage and budget_alerts
  tx,       \* the same as the session with the write lock sees it
  lock,     \* that session
  month,    \* the clock
  pc,       \* where each session is
  at,       \* position of a call in Applies
  loaded,   \* the usage row _get_or_create_usage returned: position and values
  sentIn    \* the month a call went upstream, 0 before that

vars == <<db, tx, lock, month, pc, at, loaded, sentIn>>

\* Deviation: hard_stopped has no default.
NewRowNull == [used |-> 0, stopped |-> None]

NewRow == [used |-> 0, stopped |-> FALSE]

Init ==
  /\ db = [usage  |-> [b \in Budgets |-> [m \in 1 .. Months |-> <<>>]],
           alerts |-> [b \in Budgets |-> [m \in 1 .. Months |-> [t \in Thresholds |-> 0]]]]
  /\ tx = db
  /\ lock = None
  /\ month = 1
  /\ pc = [s \in Sessions |-> "idle"]
  /\ at = [c \in Calls |-> 1]
  /\ loaded = [s \in Sessions |-> [row |-> 0, month |-> 1, used |-> 0]]
  /\ sentIn = [c \in Calls |-> 0]

Ends == {"done", "blocked", "failed", "aborted"}

\* What a session reads: committed rows, and its own if it has written.
View(s) == IF lock = s THEN tx ELSE db

\* The budget a session is working on.
Current(s) == IF s \in Viewers THEN Watched[s] ELSE Applies[s][at[s]]

\* The current-window rows that the SELECT of _get_or_create_usage finds.  A
\* monthly window starts at the first of the month; a rolling one starts at a
\* distance from now, so no row that is already there starts with it.
FoundRows(s) ==
  LET b == Current(s) IN
  IF b \in Rolling THEN {} ELSE DOMAIN View(s).usage[b][month]

\* The first write of a session takes the lock; later ones find it theirs.
Write(s, rows) ==
  /\ lock \in {None, s}
  /\ lock' = s
  /\ tx' = rows

\* commit and rollback.
CommitTx(s)   == db' = View(s) /\ tx' = tx /\ lock' = IF lock = s THEN None ELSE lock
RollbackTx(s) == UNCHANGED <<db, tx>> /\ lock' = IF lock = s THEN None ELSE lock

-----------------------------------------------------------------------------
\* The call reaches check_budget; the session of an allowed one is in the
\* middle of a transaction, that of an approved one is not.
Begin(c) ==
  /\ pc[c] = "idle"
  /\ IF c \in Approved
       THEN UNCHANGED <<tx, lock>>
       ELSE lock = None /\ lock' = c /\ tx' = db
  /\ pc' = [pc EXCEPT ![c] = "checking"]
  /\ UNCHANGED <<db, month, at, loaded, sentIn>>

\* Which state a call or viewer is in when it looks a row up, and after.
Looking == {"checking", "recording", "viewing"}

\* Deviation: a hard stop is not looked at before the call.
CheckIgnored(c) ==
  /\ pc[c] = "checking"
  /\ at[c] <= Len(Applies[c])
  /\ \E row \in FoundRows(c) : FoundRows(c) = {row}
  /\ at' = [at EXCEPT ![c] = @ + 1]
  /\ UNCHANGED <<db, tx, lock, month, pc, loaded, sentIn>>

\* check_budget finds the row: a hard stop raises 429, which rolls back.
Check(c) ==
  /\ pc[c] = "checking"
  /\ at[c] <= Len(Applies[c])
  /\ \E row \in FoundRows(c) :
       /\ FoundRows(c) = {row}
       /\ IF View(c).usage[Current(c)][month][row].stopped
            THEN /\ pc' = [pc EXCEPT ![c] = "blocked"]
                 /\ RollbackTx(c)
                 /\ at' = at
            ELSE /\ at' = [at EXCEPT ![c] = @ + 1]
                 /\ UNCHANGED <<db, tx, lock, pc>>
  /\ UNCHANGED <<month, loaded, sentIn>>

\* The SELECT finds no row ...
MissRow(s) ==
  /\ pc[s] \in Looking
  /\ s \in Calls => at[s] <= Len(Applies[s])
  /\ FoundRows(s) = {}
  /\ loaded' = [loaded EXCEPT ![s] = [row |-> 0, month |-> month, used |-> 0]]
  /\ pc' = [pc EXCEPT ![s] = CASE @ = "checking"  -> "create_checking"
                               [] @ = "recording" -> "create_recording"
                               [] @ = "viewing"   -> "create_viewing"]
  /\ UNCHANGED <<db, tx, lock, month, at, sentIn>>

\* ... and the INSERT that follows it adds one, for the window computed then.
\* check_budget goes on to the next budget, record_usage goes on to add.
CreateRow(s) ==
  LET b == Current(s)
      m == loaded[s].month
  IN
  /\ pc[s] \in {"create_checking", "create_recording", "create_viewing"}
  /\ Write(s, [View(s) EXCEPT !.usage[b][m] = Append(@, NewRow)])
  /\ loaded' = [loaded EXCEPT ![s].row = Len(View(s).usage[b][m]) + 1]
  /\ at' = IF pc[s] = "create_checking" THEN [at EXCEPT ![s] = @ + 1] ELSE at
  /\ pc' = [pc EXCEPT ![s] = CASE @ = "create_checking"  -> "checking"
                               [] @ = "create_recording" -> "loaded"
                               [] @ = "create_viewing"   -> "viewed"]
  /\ UNCHANGED <<db, month, sentIn>>

\* scalar_one_or_none raises on a second row for the window: 500.
DuplicateRow(s) ==
  /\ pc[s] \in Looking
  /\ s \in Calls => at[s] <= Len(Applies[s])
  /\ \E i, j \in FoundRows(s) : i # j
  /\ pc' = [pc EXCEPT ![s] = IF @ = "recording" THEN "aborted" ELSE "failed"]
  /\ RollbackTx(s)
  /\ UNCHANGED <<month, at, loaded, sentIn>>

\* Every budget allowed it: the call goes upstream.  Unless the answer counts
\* tokens, record_usage is skipped: no budget is left to record.
Forward(c) ==
  /\ pc[c] = "checking"
  /\ at[c] > Len(Applies[c])
  /\ pc' = [pc EXCEPT ![c] = "recording"]
  /\ at' = [at EXCEPT ![c] = IF Cost[c] = 0 THEN Len(Applies[c]) + 1 ELSE 1]
  /\ sentIn' = [sentIn EXCEPT ![c] = month]
  /\ UNCHANGED <<db, tx, lock, month, loaded>>

\* record_usage loads the row, or skips a budget that is stopped already.
LoadRow(c) ==
  /\ pc[c] = "recording"
  /\ at[c] <= Len(Applies[c])
  /\ \E row \in FoundRows(c) :
       LET usage == View(c).usage[Current(c)][month][row] IN
       /\ FoundRows(c) = {row}
       /\ IF usage.stopped
            THEN at' = [at EXCEPT ![c] = @ + 1] /\ UNCHANGED <<pc, loaded>>
            ELSE /\ loaded' = [loaded EXCEPT ![c] =
                                [row |-> row, month |-> month, used |-> usage.used]]
                 /\ pc' = [pc EXCEPT ![c] = "loaded"]
                 /\ at' = at
  /\ UNCHANGED <<db, tx, lock, month, sentIn>>

\* Deviation: the stop needs the limit to be exceeded.
OverLimit(b, used) == used > Limit[b]

AtLimit(b, used) == used >= Limit[b]

\* Deviation: an alert goes out each time usage is above a threshold.
AlertsAgain(sent, b, used) ==
  [t \in Thresholds |-> IF used * 100 >= t * Limit[b] THEN sent[t] + 1 ELSE sent[t]]

\* _check_threshold_alerts: one row per threshold reached and not yet recorded.
AlertsDue(sent, b, used) ==
  [t \in Thresholds |->
     IF used * 100 >= t * Limit[b] /\ sent[t] = 0 THEN 1 ELSE sent[t]]

\* Deviation: the UPDATE writes every column of the loaded row.
AddUsageAllColumns(c) ==
  LET b == Current(c)  m == loaded[c].month  i == loaded[c].row
      used == loaded[c].used + Cost[c]
      stop == AtLimit(b, used)
  IN
  /\ pc[c] = "loaded"
  /\ Write(c, [View(c) EXCEPT
       !.usage[b][m][i] = [used |-> used, stopped |-> stop],
       !.alerts[b][m]   = AlertsDue(@, b, used)])
  /\ pc' = [pc EXCEPT ![c] = "recording"]
  /\ at' = [at EXCEPT ![c] = @ + 1]
  /\ UNCHANGED <<db, month, loaded, sentIn>>

\* Deviation: a stopped row is stopped, but the usage that did it not written.
AddUsageUnlessStopped(c) ==
  LET b == Current(c)  m == loaded[c].month  i == loaded[c].row
      used == loaded[c].used + Cost[c]
      stop == AtLimit(b, used)
  IN
  /\ pc[c] = "loaded"
  /\ Write(c, [View(c) EXCEPT
       !.usage[b][m][i] = IF stop THEN [@ EXCEPT !.stopped = TRUE] ELSE [@ EXCEPT !.used = used],
       !.alerts[b][m]   = AlertsDue(@, b, used)])
  /\ pc' = [pc EXCEPT ![c] = "recording"]
  /\ at' = [at EXCEPT ![c] = @ + 1]
  /\ UNCHANGED <<db, month, loaded, sentIn>>

\* The sums are computed from the loaded row; the UPDATE writes the columns
\* that changed, so hard_stopped only when this call sets it.  The alerts
\* follow in the same transaction, which holds the lock by now.
AddUsage(c) ==
  LET b == Current(c)  m == loaded[c].month  i == loaded[c].row
      used == loaded[c].used + Cost[c]
      stop == AtLimit(b, used)
  IN
  /\ pc[c] = "loaded"
  /\ Write(c, [View(c) EXCEPT
       !.usage[b][m][i] = [used |-> used, stopped |-> @.stopped \/ stop],
       !.alerts[b][m]   = AlertsDue(@, b, used)])
  /\ pc' = [pc EXCEPT ![c] = "recording"]
  /\ at' = [at EXCEPT ![c] = @ + 1]
  /\ UNCHANGED <<db, month, loaded, sentIn>>

\* log_event and llm_proxy's commit.
Complete(c) ==
  /\ pc[c] = "recording"
  /\ at[c] > Len(Applies[c])
  /\ lock \in {None, c}
  /\ CommitTx(c)
  /\ pc' = [pc EXCEPT ![c] = "done"]
  /\ UNCHANGED <<month, at, loaded, sentIn>>

\* A statement, the upstream call or the commit fails: rolled back, 5xx.
Fail(s) ==
  /\ pc[s] \notin Ends \cup {"idle"}
  /\ RollbackTx(s)
  /\ pc' = [pc EXCEPT ![s] =
              IF s \in Calls /\ sentIn[s] # 0 THEN "aborted" ELSE "failed"]
  /\ UNCHANGED <<month, at, loaded, sentIn>>

-----------------------------------------------------------------------------
\* get_usage: the same lookup, and a commit of the row if it made one.
BeginView(v) ==
  /\ pc[v] = "idle"
  /\ pc' = [pc EXCEPT ![v] = "viewing"]
  /\ UNCHANGED <<db, tx, lock, month, at, loaded, sentIn>>

FindRow(v) ==
  /\ pc[v] = "viewing"
  /\ \E row \in FoundRows(v) : FoundRows(v) = {row}
  /\ pc' = [pc EXCEPT ![v] = "viewed"]
  /\ UNCHANGED <<db, tx, lock, month, at, loaded, sentIn>>

EndView(v) ==
  /\ pc[v] = "viewed"
  /\ CommitTx(v)
  /\ pc' = [pc EXCEPT ![v] = "done"]
  /\ UNCHANGED <<month, at, loaded, sentIn>>

NextMonth ==
  /\ month < Months
  /\ month' = month + 1
  /\ UNCHANGED <<db, tx, lock, pc, at, loaded, sentIn>>

Finished == (\A s \in Sessions : pc[s] \in Ends) /\ UNCHANGED vars

Next ==
  \/ \E c \in Calls : Begin(c) \/ Check(c) \/ Forward(c) \/ LoadRow(c)
                      \/ AddUsage(c) \/ Complete(c)
  \/ \E v \in Viewers : BeginView(v) \/ FindRow(v) \/ EndView(v)
  \/ \E s \in Sessions : MissRow(s) \/ CreateRow(s) \/ DuplicateRow(s) \/ Fail(s)
  \/ NextMonth
  \/ Finished

Spec == Init /\ [][Next]_vars

-----------------------------------------------------------------------------
UsageRows == [used : Nat, stopped : BOOLEAN]
Tables ==
  [usage  : [Budgets -> [1 .. Months -> Seq(UsageRows)]],
   alerts : [Budgets -> [1 .. Months -> [Thresholds -> Nat]]]]

\* The types of the tables and of what the sessions have loaded.
TypeOK ==
  /\ db \in Tables /\ tx \in Tables
  /\ lock \in Sessions \cup {None}
  /\ month \in 1 .. Months
  /\ pc \in [Sessions -> {"idle", "viewed", "loaded", "create_checking",
             "create_recording", "create_viewing"} \cup Looking \cup Ends]
  /\ at \in [Calls -> Nat \ {0}]
  /\ loaded \in [Sessions -> [row : Nat, month : 1 .. Months, used : Nat]]
  /\ sentIn \in [Calls -> 0 .. Months]

\* The sum of a function's numbers: f[x] units for each x, counted.
Units(f) == UNION {{x} \X (1 .. f[x]) : x \in DOMAIN f}
Sum(f)   == Cardinality(Units(f))

\* What is billed to a budget in a month, over its rows, and in all months.
UsedIn(d, b, m) == Sum([i \in DOMAIN d.usage[b][m] |-> d.usage[b][m][i].used])
TotalUsed(d, b) == Sum([m \in 1 .. Months |-> UsedIn(d, b, m)])

\* What calls cost together.
Spent(calls) == Sum([c \in calls |-> Cost[c]])

\* The calls that a budget applies to and that ran to their end.
Charged(b) == {c \in Calls : pc[c] = "done" /\ Contains(Applies[c], b)}

\* Those of them that were sent in a month.
Spenders(b, m) == {c \in Charged(b) : sentIn[c] = m}

\* No call that lost the write lock to its approval has ended yet.
Serial == \A c \in Approved : pc[c] # "done"

\* A hard stop is for the rest of the window: no later call, view, failure or
\* stale read takes it back, and no usage row disappears.
StopIsFinal ==
  [][\A b \in Budgets, m \in 1 .. Months : \A i \in DOMAIN db.usage[b][m] :
       /\ i \in DOMAIN db'.usage[b][m]
       /\ db.usage[b][m][i].stopped => db'.usage[b][m][i].stopped]_db

\* Accounting and enforcement agree in every committed row: usage has reached
\* the limit exactly when the stop is set, or a stale sum has replaced it.
StopAtLimit ==
  \A b \in Budgets, m \in 1 .. Months : \A i \in DOMAIN db.usage[b][m] :
    LET row == db.usage[b][m][i] IN
    /\ row.used >= Limit[b] => row.stopped
    /\ row.stopped /\ Serial => row.used >= Limit[b]

\* What calls that held the lock throughout spent in a month is bounded by the
\* limit, overshot by at most one call: none is sent once the stop is due.
OverspendBounded ==
  Serial => \A b \in Budgets, m \in 1 .. Months : \A last \in Spenders(b, m) :
    (\A c \in Spenders(b, m) : Cost[c] <= Cost[last]) =>
      Spent(Spenders(b, m)) < Limit[b] + Cost[last]

\* No completed call's cost is lost or counted twice: over all windows, the
\* usage of a budget is the cost of the calls charged to it.
UsageExact ==
  Serial => \A b \in Budgets : TotalUsed(db, b) = Spent(Charged(b))

\* A threshold is recorded as alerted at most once per window, and the alert
\* of every threshold that committed usage has reached is recorded.
AlertsOnce ==
  \A b \in Budgets, m \in 1 .. Months, t \in Thresholds :
    /\ db.alerts[b][m][t] <= 1
    /\ (\E i \in DOMAIN db.usage[b][m] : db.usage[b][m][i].used * 100 >= t * Limit[b])
         => db.alerts[b][m][t] = 1
=============================================================================
