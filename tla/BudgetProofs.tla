---------------------------- MODULE BudgetProofs ----------------------------
(***************************************************************************)
(* Proofs about Budget.  What the holder of the write lock sees goes on    *)
(* from what is committed (LockInv), so a commit takes no row and no stop  *)
(* away; every row that usage is written to has its stop and its alerts    *)
(* written with it (RowsStopped, RowsAlerted); and what a call that kept   *)
(* the lock adds its cost to is the sum it loaded (LoadedInv), which       *)
(* excludes a stop without a sum that is due.                              *)
(*                                                                         *)
(* The second half keeps accounts: what is in the rows is what the calls   *)
(* that ended have spent and what the holder of the lock has billed so far *)
(* (ExactInv), this month's spending is in this month's row (SpendInv),    *)
(* and a call that was sent found every budget below its limit and has     *)
(* kept the others from spending since (LeftInv).                          *)
(***************************************************************************)
EXTENDS Budget, SequenceTheorems, FiniteSetTheorems, FunctionTheorems, TLAPS

\* Calls go through the proxy and viewers through the budget page, and a call
\* that works on a budget has one.
PlaceInv ==
  /\ \A c \in Calls :
       /\ pc[c] \in {"idle", "checking", "create_checking", "recording", "create_recording",
                     "loaded"} \cup Ends
       /\ pc[c] \in {"create_checking", "create_recording", "loaded"} => at[c] <= Len(Applies[c])
  /\ \A v \in Viewers : pc[v] \in {"idle", "viewing", "create_viewing", "viewed"} \cup Ends

\* Every row of d is a row of e, and a stop of d is one of e.
Extends(d, e) ==
  \A b \in Budgets, m \in 1 .. Months : \A i \in DOMAIN d.usage[b][m] :
    /\ i \in DOMAIN e.usage[b][m]
    /\ d.usage[b][m][i].stopped => e.usage[b][m][i].stopped

\* The write lock is a session's that is under way, it is an allowed call's as
\* long as that works on budgets, and its holder goes on from what is committed.
LockInv ==
  /\ lock # None => pc[lock] \notin Ends \cup {"idle"} /\ Extends(db, tx)
  /\ \A c \in Calls \ Approved : pc[c] \notin Ends \cup {"idle"} => lock = c

\* The rows that a call has looked up, in the window it computed then.
LoadedRows(c) == View(c).usage[Current(c)][loaded[c].month]

\* A call adds to a row that is there, and an allowed call to the sum it is.
LoadedInv ==
  \A c \in Calls :
    /\ pc[c] = "loaded" =>
         /\ loaded[c].row \in DOMAIN LoadedRows(c)
         /\ c \notin Approved => LoadedRows(c)[loaded[c].row].used = loaded[c].used
    /\ pc[c] = "create_recording" => loaded[c].used = 0

RowsStopped(d) ==
  \A b \in Budgets, m \in 1 .. Months : \A i \in DOMAIN d.usage[b][m] :
    d.usage[b][m][i].used >= Limit[b] => d.usage[b][m][i].stopped

StopsDue(d) ==
  \A b \in Budgets, m \in 1 .. Months : \A i \in DOMAIN d.usage[b][m] :
    d.usage[b][m][i].stopped => d.usage[b][m][i].used >= Limit[b]

RowsAlerted(d) ==
  \A b \in Budgets, m \in 1 .. Months, t \in Thresholds :
    /\ d.alerts[b][m][t] <= 1
    /\ \A i \in DOMAIN d.usage[b][m] :
         d.usage[b][m][i].used * 100 >= t * Limit[b] => d.alerts[b][m][t] = 1

\* Only an approved call adds to a sum that may be stale, and the commit that
\* shows it ends Serial.
StopInv ==
  /\ RowsStopped(db) /\ (lock # None => RowsStopped(tx))
  /\ Serial => StopsDue(db)
  /\ Serial /\ lock \notin Approved \cup {None} => StopsDue(tx)

AlertInv == RowsAlerted(db) /\ (lock # None => RowsAlerted(tx))

Inv == TypeOK /\ PlaceInv /\ LockInv /\ LoadedInv /\ StopInv /\ AlertInv

-----------------------------------------------------------------------------
(* What is done to the tables. *)

\* The tables with a new row for budget b in month m ...
Added(d, b, m) == [d EXCEPT !.usage[b][m] = Append(@, NewRow)]

\* ... and with the sum of row i, its stop and its alerts.
Billed(d, b, m, i, used) ==
  [d EXCEPT !.usage[b][m][i] = [used |-> used, stopped |-> @.stopped \/ AtLimit(b, used)],
            !.alerts[b][m]   = AlertsDue(@, b, used)]

\* e is d with a new row for budget b in month m, after the others.
AddsRow(d, e, b, m) ==
  /\ e \in Tables
  /\ e.alerts = d.alerts
  /\ \A c \in Budgets, k \in 1 .. Months : \A i \in DOMAIN d.usage[c][k] :
       i \in DOMAIN e.usage[c][k] /\ e.usage[c][k][i] = d.usage[c][k][i]
  /\ \A c \in Budgets, k \in 1 .. Months : \A i \in DOMAIN e.usage[c][k] :
       i \notin DOMAIN d.usage[c][k] => e.usage[c][k][i] = NewRow
  /\ Len(d.usage[b][m]) + 1 \in DOMAIN e.usage[b][m]
  /\ Len(d.usage[b][m]) + 1 \notin DOMAIN d.usage[b][m]

\* A new row comes after the others and leaves everything else alone.
LEMMA AddedRows ==
  ASSUME NEW d \in Tables, NEW b \in Budgets, NEW m \in 1 .. Months
  PROVE  AddsRow(d, Added(d, b, m), b, m)
<1> DEFINE e    == Added(d, b, m)
           rows == d.usage[b][m]
<1>1. rows \in Seq(UsageRows) /\ NewRow \in UsageRows
  BY DEF Tables, NewRow, UsageRows
<1>2. /\ Append(rows, NewRow) \in Seq(UsageRows)
      /\ Len(rows) \in Nat /\ DOMAIN rows = 1 .. Len(rows)
      /\ DOMAIN Append(rows, NewRow) = 1 .. Len(rows) + 1
      /\ \A i \in 1 .. Len(rows) : Append(rows, NewRow)[i] = rows[i]
      /\ Append(rows, NewRow)[Len(rows) + 1] = NewRow
  <2> HIDE DEF rows
  <2>1. /\ Append(rows, NewRow) \in Seq(UsageRows)
        /\ Len(Append(rows, NewRow)) = Len(rows) + 1
        /\ \A i \in 1 .. Len(rows) : Append(rows, NewRow)[i] = rows[i]
        /\ Append(rows, NewRow)[Len(rows) + 1] = NewRow
    BY <1>1, AppendProperties
  <2>2. Len(rows) \in Nat /\ DOMAIN rows = 1 .. Len(rows)
    BY <1>1, LenProperties
  <2>3. DOMAIN Append(rows, NewRow) = 1 .. Len(Append(rows, NewRow))
    BY <2>1, LenProperties
  <2>4. QED
    BY <2>1, <2>2, <2>3
<1>3. e = [d EXCEPT !.usage = [d.usage EXCEPT ![b] = [d.usage[b] EXCEPT ![m] = Append(rows, NewRow)]]]
  BY DEF Added, Tables
<1>4. e.alerts = d.alerts
      /\ e.usage = [d.usage EXCEPT ![b] = [d.usage[b] EXCEPT ![m] = Append(rows, NewRow)]]
  BY <1>3 DEF Tables
<1>5. ASSUME NEW c \in Budgets, NEW k \in 1 .. Months
      PROVE  e.usage[c][k] = IF c = b /\ k = m THEN Append(rows, NewRow) ELSE d.usage[c][k]
  <2>1. d.usage \in [Budgets -> [1 .. Months -> Seq(UsageRows)]]
    BY DEF Tables
  <2>2. CASE c # b
    BY <1>4, <2>1, <2>2
  <2>3. CASE c = b
    <3>1. /\ e.usage[b] = [d.usage[b] EXCEPT ![m] = Append(rows, NewRow)]
          /\ d.usage[b] \in [1 .. Months -> Seq(UsageRows)]
      BY <1>4, <2>1
    <3> HIDE DEF e, rows
    <3>2. CASE k = m
      BY <2>3, <3>1, <3>2
    <3>3. CASE k # m
      BY <2>3, <3>1, <3>3
    <3>4. QED
      BY <3>2, <3>3
  <2>4. QED
    BY <2>2, <2>3
<1>6. e \in Tables
  <2>1. e.usage \in [Budgets -> [1 .. Months -> Seq(UsageRows)]]
    BY <1>2, <1>4 DEF Tables
  <2>2. QED
    BY <1>3, <1>4, <2>1 DEF Tables
<1>7. \A c \in Budgets, k \in 1 .. Months : \A i \in DOMAIN d.usage[c][k] :
        i \in DOMAIN e.usage[c][k] /\ e.usage[c][k][i] = d.usage[c][k][i]
  <2> SUFFICES ASSUME NEW c \in Budgets, NEW k \in 1 .. Months, NEW i \in DOMAIN d.usage[c][k]
               PROVE  i \in DOMAIN e.usage[c][k] /\ e.usage[c][k][i] = d.usage[c][k][i]
    OBVIOUS
  <2>1. CASE c = b /\ k = m
    <3>1. e.usage[c][k] = Append(rows, NewRow) /\ i \in 1 .. Len(rows)
      BY <1>2, <1>5, <2>1
    <3>2. QED
      BY <1>2, <2>1, <3>1
  <2>2. CASE ~(c = b /\ k = m)
    BY <1>5, <2>2
  <2>3. QED
    BY <2>1, <2>2
<1>8. \A c \in Budgets, k \in 1 .. Months : \A i \in DOMAIN e.usage[c][k] :
        i \notin DOMAIN d.usage[c][k] => e.usage[c][k][i] = NewRow
  <2> SUFFICES ASSUME NEW c \in Budgets, NEW k \in 1 .. Months, NEW i \in DOMAIN e.usage[c][k],
                      i \notin DOMAIN d.usage[c][k]
               PROVE  e.usage[c][k][i] = NewRow
    OBVIOUS
  <2>1. c = b /\ k = m
    BY <1>5
  <2>2. e.usage[c][k] = Append(rows, NewRow) /\ i \in 1 .. Len(rows) + 1 /\ i \notin 1 .. Len(rows)
    BY <1>2, <1>5, <2>1
  <2>3. i = Len(rows) + 1
    BY <1>2, <2>2
  <2>4. QED
    BY <1>2, <2>2, <2>3
<1>9. Len(rows) + 1 \in DOMAIN e.usage[b][m] /\ Len(rows) + 1 \notin DOMAIN rows
  <2>1. e.usage[b][m] = Append(rows, NewRow)
    BY <1>5
  <2>2. DOMAIN e.usage[b][m] = 1 .. Len(rows) + 1 /\ DOMAIN rows = 1 .. Len(rows) /\ Len(rows) \in Nat
    BY <1>2, <2>1
  <2> HIDE DEF e, rows
  <2>3. Len(rows) + 1 \in 1 .. Len(rows) + 1 /\ Len(rows) + 1 \notin 1 .. Len(rows)
    BY <2>2
  <2>4. QED
    BY <2>2, <2>3
<1> HIDE DEF e
<1>10. e.alerts = d.alerts
  BY <1>4
<1>11. AddsRow(d, e, b, m)
  BY <1>6, <1>7, <1>8, <1>9, <1>10, Zenon DEF AddsRow
<1>12. QED
  BY <1>11 DEF e

\* A bill goes to one row, and its alerts to that row's month.
LEMMA BilledRows ==
  ASSUME NEW d \in Tables, NEW b \in Budgets, NEW m \in 1 .. Months,
         NEW i \in DOMAIN d.usage[b][m], NEW used \in Nat
  PROVE  /\ Billed(d, b, m, i, used) \in Tables
         /\ \A c \in Budgets, k \in 1 .. Months :
              /\ DOMAIN Billed(d, b, m, i, used).usage[c][k] = DOMAIN d.usage[c][k]
              /\ c # b \/ k # m =>
                   /\ Billed(d, b, m, i, used).alerts[c][k] = d.alerts[c][k]
                   /\ Billed(d, b, m, i, used).usage[c][k] = d.usage[c][k]
         /\ Billed(d, b, m, i, used).alerts[b][m] = AlertsDue(d.alerts[b][m], b, used)
         /\ \A j \in DOMAIN d.usage[b][m] \ {i} :
              Billed(d, b, m, i, used).usage[b][m][j] = d.usage[b][m][j]
         /\ Billed(d, b, m, i, used).usage[b][m][i].used = used
         /\ Billed(d, b, m, i, used).usage[b][m][i].stopped
              <=> d.usage[b][m][i].stopped \/ used >= Limit[b]
<1> DEFINE e    == Billed(d, b, m, i, used)
           rows == d.usage[b][m]
           row  == [used |-> used, stopped |-> rows[i].stopped \/ AtLimit(b, used)]
           sent == AlertsDue(d.alerts[b][m], b, used)
<1>1. rows \in Seq(UsageRows) /\ DOMAIN rows = 1 .. Len(rows) /\ Len(rows) \in Nat
  <2>1. rows \in Seq(UsageRows)
    BY DEF Tables
  <2>2. QED
    BY <2>1, LenProperties
<1>2. (rows[i].stopped \/ AtLimit(b, used)) \in BOOLEAN
  <2> DEFINE stopped == rows[i].stopped \/ AtLimit(b, used)
  <2>1. stopped \in BOOLEAN
    OBVIOUS
  <2> HIDE DEF stopped
  <2>2. QED
    BY <2>1 DEF stopped
<1>3. row \in UsageRows /\ row.used = used /\ (row.stopped <=> rows[i].stopped \/ used >= Limit[b])
  BY <1>2 DEF UsageRows, AtLimit
<1>4. sent \in [Thresholds -> Nat]
  <2> DEFINE old == d.alerts[b][m]
  <2>1. d.alerts \in [Budgets -> [1 .. Months -> [Thresholds -> Nat]]]
    BY DEF Tables
  <2>2. old \in [Thresholds -> Nat]
    BY <2>1
  <2> HIDE DEF old
  <2>3. AlertsDue(old, b, used) \in [Thresholds -> Nat]
    BY <2>2 DEF AlertsDue
  <2>4. QED
    BY <2>3 DEF old
<1> HIDE DEF row, sent
<1>5. /\ e.usage = [d.usage EXCEPT ![b] = [d.usage[b] EXCEPT ![m] = [rows EXCEPT ![i] = row]]]
      /\ e.alerts = [d.alerts EXCEPT ![b] = [d.alerts[b] EXCEPT ![m] = sent]]
      /\ e = [usage |-> e.usage, alerts |-> e.alerts]
  <2>1. d.usage \in [Budgets -> [1 .. Months -> Seq(UsageRows)]]
        /\ d.alerts \in [Budgets -> [1 .. Months -> [Thresholds -> Nat]]]
        /\ d = [usage |-> d.usage, alerts |-> d.alerts]
    BY DEF Tables
  <2>2. e = [d EXCEPT !.usage = [d.usage EXCEPT ![b] = [d.usage[b] EXCEPT ![m] = [rows EXCEPT ![i] = row]]],
                      !.alerts = [d.alerts EXCEPT ![b] = [d.alerts[b] EXCEPT ![m] = sent]]]
    BY <1>1, <2>1 DEF Billed, row, sent
  <2>3. QED
    BY <2>1, <2>2
<1>6. [rows EXCEPT ![i] = row] \in Seq(UsageRows)
  BY <1>1, <1>3, ExceptSeq
<1>7. e \in Tables
  <2>1. e.usage \in [Budgets -> [1 .. Months -> Seq(UsageRows)]]
    BY <1>5, <1>6 DEF Tables
  <2>2. e.alerts \in [Budgets -> [1 .. Months -> [Thresholds -> Nat]]]
    BY <1>4, <1>5 DEF Tables
  <2> HIDE DEF e
  <2>3. QED
    BY <1>5, <2>1, <2>2 DEF Tables
<1> HIDE DEF e
<1>8. ASSUME NEW c \in Budgets, NEW k \in 1 .. Months
      PROVE  /\ e.usage[c][k] = IF c = b /\ k = m THEN [rows EXCEPT ![i] = row] ELSE d.usage[c][k]
             /\ e.alerts[c][k] = IF c = b /\ k = m THEN sent ELSE d.alerts[c][k]
  <2>1. /\ d.usage \in [Budgets -> [1 .. Months -> Seq(UsageRows)]]
        /\ d.alerts \in [Budgets -> [1 .. Months -> [Thresholds -> Nat]]]
    BY DEF Tables
  <2>2. CASE c # b
    BY <1>5, <2>1, <2>2
  <2>3. CASE c = b /\ k = m
    <3>1. /\ e.usage[b] = [d.usage[b] EXCEPT ![m] = [rows EXCEPT ![i] = row]]
          /\ d.usage[b] \in [1 .. Months -> Seq(UsageRows)]
      BY <1>5, <2>1
    <3>2. /\ e.alerts[b] = [d.alerts[b] EXCEPT ![m] = sent]
          /\ d.alerts[b] \in [1 .. Months -> [Thresholds -> Nat]]
      BY <1>5, <2>1
    <3>3. e.usage[b][m] = [rows EXCEPT ![i] = row]
      BY <3>1
    <3>4. e.alerts[b][m] = sent
      BY <3>2
    <3>5. QED
      BY <2>3, <3>3, <3>4
  <2>4. CASE c = b /\ k # m
    BY <1>5, <2>1, <2>4
  <2>5. QED
    BY <2>2, <2>3, <2>4
<1>9. e.usage[b][m] = [rows EXCEPT ![i] = row] /\ e.alerts[b][m] = sent
  BY <1>8
<1>10. \A c \in Budgets, k \in 1 .. Months :
         /\ DOMAIN e.usage[c][k] = DOMAIN d.usage[c][k]
         /\ c # b \/ k # m => e.alerts[c][k] = d.alerts[c][k] /\ e.usage[c][k] = d.usage[c][k]
  BY <1>1, <1>8
<1>11. \A j \in DOMAIN rows \ {i} : e.usage[b][m][j] = rows[j]
  BY <1>1, <1>9
<1>12. e.usage[b][m][i] = row
  BY <1>1, <1>9
<1>13. QED
  BY <1>3, <1>7, <1>9, <1>10, <1>11, <1>12 DEF e, sent

-----------------------------------------------------------------------------
(* What the tables promise, under what is done to them. *)

\* A threshold of a budget is more than nothing: a new row reaches none.
LEMMA PositiveBound ==
  ASSUME NEW t \in 1 .. 100, NEW limit \in Nat \ {0}
  PROVE  t * limit \in Nat \ {0}
<1>1. t * limit >= limit
  <2>1. t \in Nat /\ t - 1 \in Nat /\ limit \in Nat
    OBVIOUS
  <2>2. (t - 1) * limit >= 0
    BY <2>1, Z3
  <2>3. t * limit = (t - 1) * limit + limit
    BY <2>1, Z3
  <2>4. QED
    BY <2>1, <2>2, <2>3
<1>2. t * limit \in Int
  OBVIOUS
<1>3. QED
  BY <1>1, <1>2

\* e goes on from d: it has its rows and its stops, and its promises.
Keeps(d, e) ==
  /\ Extends(d, e)
  /\ RowsStopped(d) => RowsStopped(e)
  /\ RowsAlerted(d) => RowsAlerted(e)

\* Going on is reflexive ...
LEMMA ExtendsItself == \A d : Extends(d, d)
BY DEF Extends

\* ... and transitive.
LEMMA ExtendsTransitive ==
  ASSUME NEW d, NEW e, NEW f, Extends(d, e), Extends(e, f)
  PROVE  Extends(d, f)
BY DEF Extends

\* A new row takes nothing away and promises nothing new.
LEMMA AddedKeeps ==
  ASSUME NEW d \in Tables, NEW b \in Budgets, NEW m \in 1 .. Months
  PROVE  /\ Keeps(d, Added(d, b, m))
         /\ StopsDue(d) => StopsDue(Added(d, b, m))
<1> DEFINE e == Added(d, b, m)
<1>0. AddsRow(d, e, b, m)
  BY AddedRows
<1> HIDE DEF e
<1>1. /\ e.alerts = d.alerts
      /\ \A c \in Budgets, k \in 1 .. Months : \A i \in DOMAIN d.usage[c][k] :
           i \in DOMAIN e.usage[c][k] /\ e.usage[c][k][i] = d.usage[c][k][i]
      /\ \A c \in Budgets, k \in 1 .. Months : \A i \in DOMAIN e.usage[c][k] :
           i \notin DOMAIN d.usage[c][k] => e.usage[c][k][i] = NewRow
  BY <1>0 DEF AddsRow
<1>2. NewRow.used = 0 /\ ~NewRow.stopped
  BY DEF NewRow
<1>3. Extends(d, e)
  BY <1>1 DEF Extends
<1>4. ASSUME RowsStopped(d)
      PROVE  RowsStopped(e)
  <2> SUFFICES ASSUME NEW c \in Budgets, NEW k \in 1 .. Months, NEW i \in DOMAIN e.usage[c][k],
                      e.usage[c][k][i].used >= Limit[c]
               PROVE  e.usage[c][k][i].stopped
    BY DEF RowsStopped
  <2>1. Limit[c] \in Nat \ {0}
    BY BudgetAssumption
  <2>2. i \in DOMAIN d.usage[c][k] /\ e.usage[c][k][i] = d.usage[c][k][i]
    BY <1>1, <1>2, <2>1
  <2>3. QED
    BY <1>4, <2>2 DEF RowsStopped
<1>5. ASSUME StopsDue(d)
      PROVE  StopsDue(e)
  <2> SUFFICES ASSUME NEW c \in Budgets, NEW k \in 1 .. Months, NEW i \in DOMAIN e.usage[c][k],
                      e.usage[c][k][i].stopped
               PROVE  e.usage[c][k][i].used >= Limit[c]
    BY DEF StopsDue
  <2>1. i \in DOMAIN d.usage[c][k] /\ e.usage[c][k][i] = d.usage[c][k][i]
    BY <1>1, <1>2
  <2>2. QED
    BY <1>5, <2>1 DEF StopsDue
<1>6. ASSUME RowsAlerted(d)
      PROVE  RowsAlerted(e)
  <2> SUFFICES ASSUME NEW c \in Budgets, NEW k \in 1 .. Months, NEW t \in Thresholds
               PROVE  /\ e.alerts[c][k][t] <= 1
                      /\ \A i \in DOMAIN e.usage[c][k] :
                           e.usage[c][k][i].used * 100 >= t * Limit[c] => e.alerts[c][k][t] = 1
    BY DEF RowsAlerted
  <2>1. d.alerts[c][k][t] <= 1
        /\ \A i \in DOMAIN d.usage[c][k] :
             d.usage[c][k][i].used * 100 >= t * Limit[c] => d.alerts[c][k][t] = 1
    BY <1>6 DEF RowsAlerted
  <2>2. t * Limit[c] \in Nat \ {0}
    BY BudgetAssumption, PositiveBound
  <2>3. \A i \in DOMAIN e.usage[c][k] : i \notin DOMAIN d.usage[c][k] =>
          e.usage[c][k][i].used = 0
    BY <1>1, <1>2
  <2>4. ASSUME NEW i \in DOMAIN e.usage[c][k], e.usage[c][k][i].used * 100 >= t * Limit[c]
        PROVE  e.alerts[c][k][t] = 1
    <3>1. CASE i \in DOMAIN d.usage[c][k]
      BY <1>1, <2>1, <2>4, <3>1
    <3>2. CASE i \notin DOMAIN d.usage[c][k]
      <4>1. 0 * 100 >= t * Limit[c]
        BY <2>3, <2>4, <3>2
      <4>2. QED
        BY <2>2, <4>1
    <3>3. QED
      BY <3>1, <3>2
  <2>5. QED
    BY <1>1, <2>1, <2>4
<1>7. QED
  BY <1>3, <1>4, <1>5, <1>6 DEF e, Keeps

\* A bill writes the stop and the alerts that its sum makes due; the stop that is
\* there stays due unless the sum goes down.
LEMMA BilledKeeps ==
  ASSUME NEW d \in Tables, NEW b \in Budgets, NEW m \in 1 .. Months,
         NEW i \in DOMAIN d.usage[b][m], NEW used \in Nat
  PROVE  /\ Keeps(d, Billed(d, b, m, i, used))
         /\ StopsDue(d) /\ d.usage[b][m][i].used <= used => StopsDue(Billed(d, b, m, i, used))
<1> DEFINE e == Billed(d, b, m, i, used)
<1>1. /\ \A c \in Budgets, k \in 1 .. Months :
           /\ DOMAIN e.usage[c][k] = DOMAIN d.usage[c][k]
           /\ c # b \/ k # m => e.alerts[c][k] = d.alerts[c][k] /\ e.usage[c][k] = d.usage[c][k]
      /\ \A j \in DOMAIN d.usage[b][m] \ {i} : e.usage[b][m][j] = d.usage[b][m][j]
  BY BilledRows
<1>2. e.alerts[b][m] = AlertsDue(d.alerts[b][m], b, used)
  BY BilledRows
<1>3. e.usage[b][m][i].used = used
  BY BilledRows
<1>4. e.usage[b][m][i].stopped <=> d.usage[b][m][i].stopped \/ used >= Limit[b]
  BY BilledRows
<1>5. Limit[b] \in Nat \ {0} /\ d.usage[b][m][i].used \in Nat
  <2>1. d.usage[b][m] \in Seq(UsageRows)
    BY DEF Tables
  <2>2. d.usage[b][m][i] \in UsageRows
    BY <2>1, LenProperties, ElementOfSeq
  <2>3. QED
    BY <2>2, BudgetAssumption DEF UsageRows
<1> HIDE DEF e
<1>6. \A c \in Budgets, k \in 1 .. Months : \A j \in DOMAIN e.usage[c][k] :
        /\ j \in DOMAIN d.usage[c][k]
        /\ (c = b /\ k = m /\ j = i) \/ e.usage[c][k][j] = d.usage[c][k][j]
  BY <1>1
<1>7. Extends(d, e)
  BY <1>1, <1>4, <1>6 DEF Extends
<1>8. ASSUME RowsStopped(d)
      PROVE  RowsStopped(e)
  <2> SUFFICES ASSUME NEW c \in Budgets, NEW k \in 1 .. Months, NEW j \in DOMAIN e.usage[c][k],
                      e.usage[c][k][j].used >= Limit[c]
               PROVE  e.usage[c][k][j].stopped
    BY DEF RowsStopped
  <2>1. CASE c = b /\ k = m /\ j = i
    BY <1>3, <1>4, <2>1
  <2>2. CASE ~(c = b /\ k = m /\ j = i)
    <3>1. j \in DOMAIN d.usage[c][k] /\ e.usage[c][k][j] = d.usage[c][k][j]
      BY <1>6, <2>2
    <3>2. QED
      BY <1>8, <3>1 DEF RowsStopped
  <2>3. QED
    BY <2>1, <2>2
<1>9. ASSUME StopsDue(d), d.usage[b][m][i].used <= used
      PROVE  StopsDue(e)
  <2> SUFFICES ASSUME NEW c \in Budgets, NEW k \in 1 .. Months, NEW j \in DOMAIN e.usage[c][k],
                      e.usage[c][k][j].stopped
               PROVE  e.usage[c][k][j].used >= Limit[c]
    BY DEF StopsDue
  <2>1. CASE c = b /\ k = m /\ j = i
    <3>1. d.usage[b][m][i].stopped => d.usage[b][m][i].used >= Limit[b]
      BY <1>9 DEF StopsDue
    <3>2. used >= Limit[b]
      BY <1>4, <1>5, <1>9, <2>1, <3>1
    <3>3. QED
      BY <1>3, <2>1, <3>2
  <2>2. CASE ~(c = b /\ k = m /\ j = i)
    <3>1. j \in DOMAIN d.usage[c][k] /\ e.usage[c][k][j] = d.usage[c][k][j]
      BY <1>6, <2>2
    <3>2. QED
      BY <1>9, <3>1 DEF StopsDue
  <2>3. QED
    BY <2>1, <2>2
<1>10. ASSUME RowsAlerted(d)
       PROVE  RowsAlerted(e)
  <2> SUFFICES ASSUME NEW c \in Budgets, NEW k \in 1 .. Months, NEW t \in Thresholds
               PROVE  /\ e.alerts[c][k][t] <= 1
                      /\ \A j \in DOMAIN e.usage[c][k] :
                           e.usage[c][k][j].used * 100 >= t * Limit[c] => e.alerts[c][k][t] = 1
    BY DEF RowsAlerted
  <2>1. d.alerts[c][k][t] \in Nat
    <3>1. d.alerts \in [Budgets -> [1 .. Months -> [Thresholds -> Nat]]]
      BY DEF Tables
    <3>2. d.alerts[c][k] \in [Thresholds -> Nat]
      BY <3>1
    <3>3. QED
      BY <3>2
  <2>2. d.alerts[c][k][t] <= 1
        /\ \A j \in DOMAIN d.usage[c][k] :
             d.usage[c][k][j].used * 100 >= t * Limit[c] => d.alerts[c][k][t] = 1
    BY <1>10 DEF RowsAlerted
  <2>3. d.alerts[c][k][t] \in {0, 1}
    BY <2>1, <2>2
  <2>4. CASE c = b /\ k = m
    <3>1. e.alerts[c][k][t] = IF used * 100 >= t * Limit[c] /\ d.alerts[c][k][t] = 0 THEN 1
                              ELSE d.alerts[c][k][t]
      BY <1>2, <2>4 DEF AlertsDue
    <3>2. e.alerts[c][k][t] <= 1 /\ (d.alerts[c][k][t] = 1 => e.alerts[c][k][t] = 1)
      BY <2>3, <3>1
    <3>3. used * 100 >= t * Limit[c] => e.alerts[c][k][t] = 1
      BY <2>3, <3>1
    <3>4. ASSUME NEW j \in DOMAIN e.usage[c][k], e.usage[c][k][j].used * 100 >= t * Limit[c]
          PROVE  e.alerts[c][k][t] = 1
      <4>1. CASE j = i
        <5>1. e.usage[c][k][j].used = used
          BY <1>3, <2>4, <4>1
        <5>2. QED
          BY <3>3, <3>4, <5>1
      <4>2. CASE j # i
        <5>1. j \in DOMAIN d.usage[c][k] /\ e.usage[c][k][j] = d.usage[c][k][j]
          BY <1>6, <4>2
        <5>2. QED
          BY <2>2, <3>2, <3>4, <5>1
      <4>3. QED
        BY <4>1, <4>2
    <3>5. QED
      BY <3>2, <3>4
  <2>5. CASE ~(c = b /\ k = m)
    <3>1. e.alerts[c][k] = d.alerts[c][k] /\ e.usage[c][k] = d.usage[c][k]
      BY <1>1, <2>5
    <3>2. QED
      BY <2>2, <3>1
  <2>6. QED
    BY <2>4, <2>5
<1>11. QED
  BY <1>7, <1>8, <1>9, <1>10 DEF e, Keeps

-----------------------------------------------------------------------------
(* What the sessions do to the tables. *)

\* Whichever tables a session sees are tables.
LEMMA ViewTables ==
  ASSUME TypeOK, NEW s \in Sessions
  PROVE  View(s) \in Tables
BY DEF TypeOK, View

\* A session that works on a budget works on one of its own.
LEMMA CurrentBudget ==
  ASSUME TypeOK, NEW s \in Sessions, s \in Calls => at[s] <= Len(Applies[s])
  PROVE  Current(s) \in Budgets
<1>1. CASE s \in Viewers
  BY <1>1, BudgetAssumption DEF Current
<1>2. CASE s \notin Viewers
  <2>1. s \in Calls
    BY <1>2 DEF Sessions
  <2>2. Applies[s] \in Seq(Budgets) /\ at[s] \in Nat \ {0}
    BY <2>1, BudgetAssumption DEF TypeOK
  <2>3. at[s] \in 1 .. Len(Applies[s])
    BY <2>1, <2>2, LenProperties
  <2>4. Applies[s][at[s]] \in Budgets
    BY <2>2, <2>3, ElementOfSeq
  <2>5. QED
    BY <1>2, <2>4 DEF Current
<1>3. QED
  BY <1>1, <1>2

\* The row a session finds is one of those it sees.
LEMMA FoundRow ==
  ASSUME TypeOK, NEW s \in Sessions, Current(s) \in Budgets, NEW row \in FoundRows(s)
  PROVE  /\ row \in DOMAIN View(s).usage[Current(s)][month]
         /\ row \in Nat
         /\ View(s).usage[Current(s)][month][row] \in UsageRows
<1>1. row \in DOMAIN View(s).usage[Current(s)][month]
  BY DEF FoundRows
<1>2. View(s).usage[Current(s)][month] \in Seq(UsageRows)
  <2>1. View(s).usage \in [Budgets -> [1 .. Months -> Seq(UsageRows)]]
    BY ViewTables DEF Tables
  <2>2. month \in 1 .. Months
    BY DEF TypeOK
  <2>3. QED
    BY <2>1, <2>2
<1>3. row \in 1 .. Len(View(s).usage[Current(s)][month]) /\ Len(View(s).usage[Current(s)][month]) \in Nat
  BY <1>1, <1>2, LenProperties
<1>4. View(s).usage[Current(s)][month][row] \in UsageRows
  BY <1>2, <1>3, ElementOfSeq
<1>5. QED
  BY <1>1, <1>3, <1>4

\* CreateRow adds a row to what its session sees, and that is the one it loads.
LEMMA RowCreated ==
  ASSUME TypeOK, PlaceInv, NEW s \in Sessions, CreateRow(s)
  PROVE  /\ tx' \in Tables
         /\ Keeps(View(s), tx')
         /\ StopsDue(View(s)) => StopsDue(tx')
         /\ loaded'[s].row \in DOMAIN tx'.usage[Current(s)][loaded[s].month]
         /\ tx'.usage[Current(s)][loaded[s].month][loaded'[s].row].used = 0
         /\ loaded' \in [Sessions -> [row : Nat, month : 1 .. Months, used : Nat]]
         /\ loaded' = [loaded EXCEPT ![s] = loaded'[s]]
         /\ loaded'[s].month = loaded[s].month /\ loaded'[s].used = loaded[s].used
<1>1. PICK d \in Tables : d = View(s)
  BY ViewTables
<1>2. PICK b \in Budgets : b = Current(s)
  <2>1. pc[s] \in {"create_checking", "create_recording", "create_viewing"}
    BY DEF CreateRow
  <2>2. s \in Calls => at[s] <= Len(Applies[s])
    BY <2>1 DEF PlaceInv, Ends
  <2>3. QED
    BY <2>2, CurrentBudget
<1>3. loaded[s] \in [row : Nat, month : 1 .. Months, used : Nat]
  BY DEF TypeOK
<1>4. PICK m \in 1 .. Months : m = loaded[s].month
  BY <1>3
<1>5. tx' = Added(d, b, m)
  BY <1>1, <1>2, <1>4 DEF CreateRow, Write, Added
<1>6. d.usage[b][m] \in Seq(UsageRows)
  <2>1. d.usage \in [Budgets -> [1 .. Months -> Seq(UsageRows)]]
    BY DEF Tables
  <2>2. QED
    BY <2>1
<1>7. Len(d.usage[b][m]) + 1 \in Nat
  BY <1>6, LenProperties
<1>8. loaded' = [loaded EXCEPT ![s].row = Len(d.usage[b][m]) + 1]
  BY <1>1, <1>2, <1>4 DEF CreateRow
<1>9. loaded \in [Sessions -> [row : Nat, month : 1 .. Months, used : Nat]]
  BY DEF TypeOK
<1>10. /\ loaded'[s].row = Len(d.usage[b][m]) + 1
       /\ loaded'[s].month = loaded[s].month /\ loaded'[s].used = loaded[s].used
       /\ loaded'[s] \in [row : Nat, month : 1 .. Months, used : Nat]
  BY <1>3, <1>7, <1>8, <1>9
<1>11. loaded' = [loaded EXCEPT ![s] = loaded'[s]]
  BY <1>8, <1>9
<1>12. loaded' \in [Sessions -> [row : Nat, month : 1 .. Months, used : Nat]]
  BY <1>9, <1>10, <1>11
<1>13. tx' \in Tables
  BY <1>5, AddedRows DEF AddsRow
<1>14. Keeps(d, tx')
  BY <1>5, AddedKeeps
<1>15. StopsDue(d) => StopsDue(tx')
  BY <1>5, AddedKeeps
<1>16. Len(d.usage[b][m]) + 1 \in DOMAIN Added(d, b, m).usage[b][m]
  BY AddedRows DEF AddsRow
<1>17. Len(d.usage[b][m]) + 1 \notin DOMAIN d.usage[b][m]
  BY AddedRows DEF AddsRow
<1>18. Added(d, b, m).usage[b][m][Len(d.usage[b][m]) + 1] = NewRow
  <2> DEFINE e == Added(d, b, m)
             x == Len(d.usage[b][m]) + 1
  <2>1. AddsRow(d, e, b, m)
    BY AddedRows
  <2> HIDE DEF e
  <2>2. x \in DOMAIN e.usage[b][m] /\ x \notin DOMAIN d.usage[b][m]
    BY <1>16, <1>17 DEF e
  <2> HIDE DEF x
  <2>3. e.usage[b][m][x] = NewRow
    BY <2>1, <2>2 DEF AddsRow
  <2>4. QED
    BY <2>3 DEF e, x
<1>19. loaded'[s].row \in DOMAIN tx'.usage[b][m] /\ tx'.usage[b][m][loaded'[s].row].used = 0
  BY <1>5, <1>10, <1>16, <1>18 DEF NewRow
<1>20. QED
  BY <1>1, <1>2, <1>4, <1>10, <1>11, <1>12, <1>13, <1>14, <1>15, <1>19

\* AddUsage bills the row that is loaded; an allowed call adds to what is in it.
LEMMA UsageAdded ==
  ASSUME TypeOK, PlaceInv, LoadedInv, NEW c \in Calls, AddUsage(c)
  PROVE  /\ tx' \in Tables
         /\ Keeps(View(c), tx')
         /\ c \notin Approved /\ StopsDue(View(c)) => StopsDue(tx')
<1>1. c \in Sessions
  BY DEF Sessions
<1>2. PICK d \in Tables : d = View(c)
  BY <1>1, ViewTables
<1>3. pc[c] = "loaded"
  BY DEF AddUsage
<1>4. PICK b \in Budgets : b = Current(c)
  BY <1>1, <1>3, CurrentBudget DEF PlaceInv
<1>5. loaded[c] \in [row : Nat, month : 1 .. Months, used : Nat]
  BY <1>1 DEF TypeOK
<1>6. PICK m \in 1 .. Months : m = loaded[c].month
  BY <1>5
<1>7. LoadedRows(c) = d.usage[b][m]
  BY <1>2, <1>4, <1>6 DEF LoadedRows
<1>8. PICK i \in DOMAIN d.usage[b][m] : i = loaded[c].row
  BY <1>3, <1>7 DEF LoadedInv
<1>9. loaded[c].used \in Nat /\ Cost[c] \in Nat
  BY <1>5, BudgetAssumption
<1>10. PICK used \in Nat : used = loaded[c].used + Cost[c]
  BY <1>9
<1>11. tx' = Billed(d, b, m, i, used)
  BY <1>2, <1>4, <1>6, <1>8, <1>10 DEF AddUsage, Write, Billed
<1>12. tx' \in Tables
  BY <1>11, BilledRows
<1>13. Keeps(d, tx')
  BY <1>11, BilledKeeps
<1>14. ASSUME c \notin Approved, StopsDue(d)
       PROVE  StopsDue(tx')
  <2>1. d.usage[b][m][i].used = loaded[c].used
    BY <1>3, <1>7, <1>8, <1>14 DEF LoadedInv
  <2>2. d.usage[b][m][i].used <= used
    BY <1>9, <1>10, <2>1
  <2>3. StopsDue(Billed(d, b, m, i, used))
    BY <1>14, <2>2, BilledKeeps
  <2>4. QED
    BY <1>11, <2>3
<1>15. QED
  BY <1>2, <1>12, <1>13, <1>14

-----------------------------------------------------------------------------
(* Each invariant holds at first and is kept by every step. *)

\* States of a session.
States == {"idle", "viewed", "loaded", "create_checking",
           "create_recording", "create_viewing"} \cup Looking \cup Ends

\* Every table starts with no row and no alert.
LEMMA TypesInit == Init => TypeOK
<1> SUFFICES ASSUME Init
             PROVE  TypeOK
  OBVIOUS
<1>1. <<>> \in Seq(UsageRows) /\ Months \in Nat \ {0}
  BY BudgetAssumption
<1>2. db \in Tables
  <2> DEFINE usage  == [b \in Budgets |-> [m \in 1 .. Months |-> <<>>]]
             alerts == [b \in Budgets |-> [m \in 1 .. Months |-> [t \in Thresholds |-> 0]]]
  <2>1. usage \in [Budgets -> [1 .. Months -> Seq(UsageRows)]]
    BY <1>1
  <2>2. alerts \in [Budgets -> [1 .. Months -> [Thresholds -> Nat]]]
    OBVIOUS
  <2>3. db = [usage |-> usage, alerts |-> alerts]
    BY DEF Init
  <2> HIDE DEF usage, alerts
  <2>4. QED
    BY <2>1, <2>2, <2>3 DEF Tables
<1>3. tx \in Tables /\ lock \in Sessions \cup {None} /\ month \in 1 .. Months
  BY <1>1, <1>2 DEF Init
<1>4. pc \in [Sessions -> States] /\ at \in [Calls -> Nat \ {0}]
  BY DEF Init, States
<1>5. loaded \in [Sessions -> [row : Nat, month : 1 .. Months, used : Nat]]
      /\ sentIn \in [Calls -> 0 .. Months]
  BY <1>1 DEF Init
<1>6. QED
  BY <1>2, <1>3, <1>4, <1>5 DEF TypeOK, States

\* The lock is a session's or nobody's after a commit or a rollback.
LEMMA Released ==
  ASSUME TypeOK, NEW s \in Sessions, CommitTx(s) \/ RollbackTx(s)
  PROVE  /\ db' \in {db, View(s)} /\ tx' = tx
         /\ lock' = IF lock = s THEN None ELSE lock
         /\ db' \in Tables /\ tx' \in Tables /\ lock' \in Sessions \cup {None}
<1>1. db' \in {db, View(s)} /\ tx' = tx /\ lock' = IF lock = s THEN None ELSE lock
  BY DEF CommitTx, RollbackTx
<1>2. QED
  BY <1>1, ViewTables DEF TypeOK

\* Each action leaves the tables and the sessions typed.
LEMMA TypesNext ==
  ASSUME TypeOK, PlaceInv, LoadedInv, [Next]_vars
  PROVE  TypeOK'
<1> USE DEF Looking, Ends
<1>1. ASSUME NEW c \in Calls, Begin(c)
      PROVE  TypeOK'
  <2>1. CASE c \in Approved
    BY <1>1, <2>1 DEF TypeOK, Begin
  <2>2. CASE c \notin Approved
    BY <1>1, <2>2 DEF TypeOK, Begin, Sessions
  <2>3. QED
    BY <2>1, <2>2
<1>2. ASSUME NEW c \in Calls, Check(c)
      PROVE  TypeOK'
  <2>1. c \in Sessions
    BY DEF Sessions
  <2>2. CASE RollbackTx(c) /\ pc' = [pc EXCEPT ![c] = "blocked"] /\ at' = at
    BY <1>2, <2>1, <2>2, Released DEF TypeOK, Check
  <2>3. CASE at' = [at EXCEPT ![c] = @ + 1] /\ UNCHANGED <<db, tx, lock, pc>>
    <3>1. at' \in [Calls -> Nat \ {0}]
      BY <2>3 DEF TypeOK
    <3>2. QED
      BY <1>2, <2>3, <3>1 DEF TypeOK, Check
  <2>4. QED
    BY <1>2, <2>2, <2>3 DEF Check
<1>3. ASSUME NEW c \in Calls, Forward(c)
      PROVE  TypeOK'
  <2>1. Applies[c] \in Seq(Budgets)
    BY BudgetAssumption
  <2>2. Len(Applies[c]) + 1 \in Nat \ {0}
    BY <2>1, LenProperties
  <2>3. sentIn' \in [Calls -> 0 .. Months] /\ at' \in [Calls -> Nat \ {0}]
    BY <1>3, <2>2, BudgetAssumption DEF TypeOK, Forward
  <2>4. QED
    BY <1>3, <2>3 DEF TypeOK, Forward
<1>4. ASSUME NEW c \in Calls, LoadRow(c)
      PROVE  TypeOK'
  <2>1. c \in Sessions /\ Current(c) \in Budgets
    BY <1>4, CurrentBudget DEF LoadRow, Sessions
  <2>2. PICK row \in FoundRows(c) :
          LET usage == View(c).usage[Current(c)][month][row] IN
          /\ FoundRows(c) = {row}
          /\ IF usage.stopped
               THEN at' = [at EXCEPT ![c] = @ + 1] /\ UNCHANGED <<pc, loaded>>
               ELSE /\ loaded' = [loaded EXCEPT ![c] =
                                   [row |-> row, month |-> month, used |-> usage.used]]
                    /\ pc' = [pc EXCEPT ![c] = "loaded"]
                    /\ at' = at
    BY <1>4 DEF LoadRow
  <2>3. row \in Nat /\ View(c).usage[Current(c)][month][row].used \in Nat
    BY <2>1, FoundRow DEF UsageRows
  <2>4. [row |-> row, month |-> month, used |-> View(c).usage[Current(c)][month][row].used]
          \in [row : Nat, month : 1 .. Months, used : Nat]
    BY <2>3 DEF TypeOK
  <2>5. loaded' \in [Sessions -> [row : Nat, month : 1 .. Months, used : Nat]]
    BY <2>1, <2>2, <2>4 DEF TypeOK
  <2>6. at' \in [Calls -> Nat \ {0}]
    BY <2>2 DEF TypeOK
  <2>7. pc' = pc \/ pc' = [pc EXCEPT ![c] = "loaded"]
    BY <2>2
  <2>8. UNCHANGED <<db, tx, lock, month, sentIn>>
    BY <1>4 DEF LoadRow
  <2>9. QED
    BY <2>5, <2>6, <2>7, <2>8 DEF TypeOK
<1>5. ASSUME NEW c \in Calls, AddUsage(c)
      PROVE  TypeOK'
  <2>1. tx' \in Tables
    BY <1>5, UsageAdded
  <2>2. lock' = c /\ c \in Sessions
    BY <1>5 DEF AddUsage, Write, Sessions
  <2>3. pc' = [pc EXCEPT ![c] = "recording"] /\ at' = [at EXCEPT ![c] = @ + 1]
        /\ UNCHANGED <<db, month, loaded, sentIn>>
    BY <1>5 DEF AddUsage
  <2>4. at' \in [Calls -> Nat \ {0}]
    BY <2>3 DEF TypeOK
  <2>5. QED
    BY <2>1, <2>2, <2>3, <2>4 DEF TypeOK
<1>6. ASSUME NEW c \in Calls, Complete(c)
      PROVE  TypeOK'
  BY <1>6, Released DEF TypeOK, Complete, Sessions
<1>7. ASSUME NEW v \in Viewers, BeginView(v) \/ FindRow(v)
      PROVE  TypeOK'
  BY <1>7 DEF TypeOK, BeginView, FindRow
<1>8. ASSUME NEW v \in Viewers, EndView(v)
      PROVE  TypeOK'
  BY <1>8, Released DEF TypeOK, EndView, Sessions
<1>9. ASSUME NEW s \in Sessions, MissRow(s)
      PROVE  TypeOK'
  <2>1. pc' \in [Sessions -> States]
    <3>1. pc \in [Sessions -> States]
      BY DEF TypeOK, States
    <3>2. QED
      BY <1>9, <3>1 DEF MissRow, States
  <2>2. loaded' \in [Sessions -> [row : Nat, month : 1 .. Months, used : Nat]]
    BY <1>9 DEF TypeOK, MissRow
  <2>3. UNCHANGED <<db, tx, lock, month, at, sentIn>>
    BY <1>9 DEF MissRow
  <2>4. QED
    BY <2>1, <2>2, <2>3 DEF TypeOK, States
<1>10. ASSUME NEW s \in Sessions, CreateRow(s)
       PROVE  TypeOK'
  <2>1. tx' \in Tables /\ loaded' \in [Sessions -> [row : Nat, month : 1 .. Months, used : Nat]]
    BY <1>10, RowCreated
  <2>2. pc' \in [Sessions -> States]
    <3>1. pc \in [Sessions -> States]
      BY DEF TypeOK, States
    <3>2. QED
      BY <1>10, <3>1 DEF CreateRow, States
  <2>3. at' = at \/ at' = [at EXCEPT ![s] = @ + 1]
    BY <1>10 DEF CreateRow
  <2>4. at' \in [Calls -> Nat \ {0}]
    BY <2>3 DEF TypeOK
  <2>5. lock' = s /\ UNCHANGED <<db, month, sentIn>>
    BY <1>10 DEF CreateRow, Write
  <2>6. QED
    BY <2>1, <2>2, <2>4, <2>5 DEF TypeOK, States
<1>11. ASSUME NEW s \in Sessions, DuplicateRow(s) \/ Fail(s)
       PROVE  TypeOK'
  <2>1. RollbackTx(s) /\ UNCHANGED <<month, at, loaded, sentIn>>
    BY <1>11 DEF DuplicateRow, Fail
  <2>2. pc' = [pc EXCEPT ![s] = "aborted"] \/ pc' = [pc EXCEPT ![s] = "failed"]
    BY <1>11 DEF DuplicateRow, Fail
  <2>3. QED
    BY <2>1, <2>2, Released DEF TypeOK
<1>12. CASE NextMonth
  BY <1>12, BudgetAssumption DEF TypeOK, NextMonth
<1>13. CASE UNCHANGED vars
  BY <1>13 DEF TypeOK, vars
<1>14. QED
  BY <1>1, <1>2, <1>3, <1>4, <1>5, <1>6, <1>7, <1>8, <1>9, <1>10, <1>11, <1>12, <1>13
     DEF Next, Finished

\* Every session starts where none works on a budget.
LEMMA PlaceInit == Init => PlaceInv
BY BudgetAssumption DEF Init, PlaceInv, Sessions, Ends

\* A call works on a budget of its own, and a viewer on the one it asked for.
LEMMA PlaceNext ==
  ASSUME TypeOK, PlaceInv, [Next]_vars
  PROVE  PlaceInv'
<1> USE BudgetAssumption DEF Ends
<1>1. ASSUME NEW c \in Calls, Begin(c) \/ Check(c) \/ Forward(c) \/ LoadRow(c) \/ AddUsage(c) \/ Complete(c)
      PROVE  PlaceInv'
  <2>1. c \in Sessions /\ c \notin Viewers
    BY DEF Sessions
  <2>2. \A s \in Sessions \ {c} : pc'[s] = pc[s] /\ (s \in Calls => at'[s] = at[s])
    <3>1. pc' = [pc EXCEPT ![c] = pc'[c]]
      BY <1>1, <2>1 DEF TypeOK, Begin, Check, Forward, LoadRow, AddUsage, Complete
    <3>2. at' = [at EXCEPT ![c] = at'[c]]
      BY <1>1 DEF TypeOK, Begin, Check, Forward, LoadRow, AddUsage, Complete
    <3>3. QED
      BY <2>1, <3>1, <3>2 DEF TypeOK
  <2>3. /\ pc'[c] \in {"checking", "recording", "loaded"} \cup Ends
        /\ pc'[c] = "loaded" => at[c] <= Len(Applies[c]) /\ at'[c] = at[c]
    <3>1. CASE Begin(c)
      BY <2>1, <3>1 DEF TypeOK, Begin
    <3>2. CASE Check(c)
      BY <2>1, <3>2 DEF TypeOK, Check
    <3>3. CASE Forward(c)
      BY <2>1, <3>3 DEF TypeOK, Forward
    <3>4. CASE LoadRow(c)
      BY <2>1, <3>4 DEF TypeOK, LoadRow
    <3>5. CASE AddUsage(c)
      BY <2>1, <3>5 DEF TypeOK, AddUsage
    <3>6. CASE Complete(c)
      BY <2>1, <3>6 DEF TypeOK, Complete
    <3>7. QED
      BY <1>1, <3>1, <3>2, <3>3, <3>4, <3>5, <3>6
  <2>4. QED
    BY <2>1, <2>2, <2>3 DEF PlaceInv, Sessions
<1>2. ASSUME NEW v \in Viewers, BeginView(v) \/ FindRow(v) \/ EndView(v)
      PROVE  PlaceInv'
  <2>1. v \in Sessions /\ v \notin Calls
    BY DEF Sessions
  <2>2. at' = at /\ \A s \in Sessions \ {v} : pc'[s] = pc[s]
    BY <1>2 DEF TypeOK, BeginView, FindRow, EndView
  <2>3. pc'[v] \in {"viewing", "viewed", "done"}
    BY <1>2, <2>1 DEF TypeOK, BeginView, FindRow, EndView
  <2>4. QED
    BY <2>1, <2>2, <2>3 DEF PlaceInv, Sessions
<1>3. ASSUME NEW s \in Sessions, MissRow(s)
      PROVE  PlaceInv'
  <2>1. at' = at /\ \A o \in Sessions \ {s} : pc'[o] = pc[o]
    BY <1>3 DEF TypeOK, MissRow
  <2>2. \/ pc[s] = "checking" /\ pc'[s] = "create_checking"
        \/ pc[s] = "recording" /\ pc'[s] = "create_recording"
        \/ pc[s] = "viewing" /\ pc'[s] = "create_viewing"
    BY <1>3 DEF TypeOK, MissRow, Looking
  <2>3. s \in Calls => at[s] <= Len(Applies[s])
    BY <1>3 DEF MissRow
  <2>4. QED
    BY <2>1, <2>2, <2>3 DEF PlaceInv, Sessions
<1>4. ASSUME NEW s \in Sessions, CreateRow(s)
      PROVE  PlaceInv'
  <2>1. \A o \in Sessions \ {s} : pc'[o] = pc[o] /\ (o \in Calls => at'[o] = at[o])
    <3>1. \A o \in Sessions \ {s} : pc'[o] = pc[o]
      BY <1>4 DEF TypeOK, CreateRow
    <3>2. at' = at \/ at' = [at EXCEPT ![s] = @ + 1]
      BY <1>4 DEF CreateRow
    <3>3. QED
      BY <3>1, <3>2 DEF TypeOK
  <2>2. \/ pc[s] = "create_checking" /\ pc'[s] = "checking"
        \/ pc[s] = "create_recording" /\ pc'[s] = "loaded" /\ at' = at
        \/ pc[s] = "create_viewing" /\ pc'[s] = "viewed"
    BY <1>4 DEF TypeOK, CreateRow
  <2>3. QED
    BY <2>1, <2>2 DEF PlaceInv, Sessions
<1>5. ASSUME NEW s \in Sessions, DuplicateRow(s) \/ Fail(s)
      PROVE  PlaceInv'
  <2>1. at' = at /\ \A o \in Sessions \ {s} : pc'[o] = pc[o]
    BY <1>5 DEF TypeOK, DuplicateRow, Fail
  <2>2. pc'[s] \in {"aborted", "failed"}
    BY <1>5 DEF TypeOK, DuplicateRow, Fail
  <2>3. QED
    BY <2>1, <2>2 DEF PlaceInv, Sessions
<1>6. CASE NextMonth \/ UNCHANGED vars
  BY <1>6 DEF PlaceInv, NextMonth, vars
<1>7. QED
  BY <1>1, <1>2, <1>3, <1>4, <1>5, <1>6 DEF Next, Finished

\* What a step of session s does to the tables, the lock and its own state.
Moves(s) ==
  /\ \A o \in Sessions \ {s} :
       pc'[o] = pc[o] /\ loaded'[o] = loaded[o] /\ (o \in Calls => at'[o] = at[o])
  /\ pc[s] \notin Ends
  /\ pc'[s] = "loaded" => LoadRow(s) \/ CreateRow(s)
  /\ pc'[s] = "create_recording" => loaded'[s].used = 0
  /\ \/ /\ UNCHANGED <<db, tx, lock>>
        /\ pc'[s] \notin Ends \cup {"idle"}
        /\ pc[s] = "idle" => s \notin Calls \ Approved
     \/ /\ lock = None /\ lock' = s /\ tx' = db /\ db' = db
        /\ pc'[s] \notin Ends \cup {"idle"}
     \/ /\ lock \in {None, s} /\ lock' = s /\ db' = db /\ Keeps(View(s), tx')
        /\ s \notin Approved /\ StopsDue(View(s)) => StopsDue(tx')
        /\ {pc[s], pc'[s]} \cap (Ends \cup {"idle"}) = {}
     \/ RollbackTx(s) /\ pc'[s] \in Ends \ {"done"}
     \/ CommitTx(s) /\ pc'[s] = "done"

\* Every step is one session's, or the clock's, which touches none of this.
LEMMA OneMoves ==
  ASSUME TypeOK, PlaceInv, LoadedInv, [Next]_vars
  PROVE  (\E s \in Sessions : Moves(s)) \/ UNCHANGED <<db, tx, lock, pc, at, loaded>>
<1> USE DEF Ends
<1>1. ASSUME NEW c \in Calls, Begin(c)
      PROVE  Moves(c)
  <2>1. c \in Sessions
    BY DEF Sessions
  <2>2. CASE c \in Approved
    BY <1>1, <2>1, <2>2 DEF TypeOK, Begin, Moves
  <2>3. CASE c \notin Approved
    BY <1>1, <2>1, <2>3 DEF TypeOK, Begin, Moves
  <2>4. QED
    BY <2>2, <2>3
<1>2. ASSUME NEW c \in Calls, Check(c)
      PROVE  Moves(c)
  <2>1. c \in Sessions
    BY DEF Sessions
  <2>2. CASE RollbackTx(c) /\ pc' = [pc EXCEPT ![c] = "blocked"] /\ at' = at
    BY <1>2, <2>1, <2>2 DEF TypeOK, Check, Moves
  <2>3. CASE at' = [at EXCEPT ![c] = @ + 1] /\ UNCHANGED <<db, tx, lock, pc>>
    BY <1>2, <2>1, <2>3 DEF TypeOK, Check, Moves
  <2>4. QED
    BY <1>2, <2>2, <2>3 DEF Check
<1>3. ASSUME NEW c \in Calls, Forward(c)
      PROVE  Moves(c)
  BY <1>3 DEF TypeOK, Forward, Moves, Sessions
<1>4. ASSUME NEW c \in Calls, LoadRow(c)
      PROVE  Moves(c)
  <2>1. \/ at' = [at EXCEPT ![c] = @ + 1] /\ UNCHANGED <<pc, loaded>>
        \/ loaded' = [loaded EXCEPT ![c] = loaded'[c]] /\ pc' = [pc EXCEPT ![c] = "loaded"] /\ at' = at
    BY <1>4 DEF TypeOK, LoadRow, Sessions
  <2>2. pc[c] = "recording" /\ UNCHANGED <<db, tx, lock>>
    BY <1>4 DEF LoadRow
  <2>3. c \in Sessions /\ pc'[c] \in {"recording", "loaded"}
    BY <2>1, <2>2 DEF TypeOK, Sessions
  <2>4. \A o \in Sessions \ {c} :
          pc'[o] = pc[o] /\ loaded'[o] = loaded[o] /\ (o \in Calls => at'[o] = at[o])
    BY <2>1 DEF TypeOK
  <2>5. QED
    BY <1>4, <2>2, <2>3, <2>4 DEF Moves
<1>5. ASSUME NEW c \in Calls, AddUsage(c)
      PROVE  Moves(c)
  <2>1. Keeps(View(c), tx') /\ (c \notin Approved /\ StopsDue(View(c)) => StopsDue(tx'))
    BY <1>5, UsageAdded
  <2>2. lock \in {None, c} /\ lock' = c /\ db' = db /\ loaded' = loaded
        /\ pc[c] = "loaded" /\ pc' = [pc EXCEPT ![c] = "recording"] /\ at' = [at EXCEPT ![c] = @ + 1]
    BY <1>5 DEF AddUsage, Write
  <2>3. QED
    BY <2>1, <2>2 DEF TypeOK, Moves, Sessions
<1>6. ASSUME NEW c \in Calls, Complete(c)
      PROVE  Moves(c)
  BY <1>6 DEF TypeOK, Complete, Moves, Sessions
<1>7. ASSUME NEW v \in Viewers, BeginView(v) \/ FindRow(v) \/ EndView(v)
      PROVE  Moves(v)
  <2>1. v \in Sessions /\ v \notin Calls
    BY BudgetAssumption DEF Sessions
  <2>2. QED
    BY <1>7, <2>1 DEF TypeOK, BeginView, FindRow, EndView, Moves
<1>8. ASSUME NEW s \in Sessions, MissRow(s)
      PROVE  Moves(s)
  BY <1>8 DEF TypeOK, MissRow, Moves, Looking
<1>9. ASSUME NEW s \in Sessions, CreateRow(s)
      PROVE  Moves(s)
  <2>1. /\ Keeps(View(s), tx') /\ (StopsDue(View(s)) => StopsDue(tx'))
        /\ loaded' = [loaded EXCEPT ![s] = loaded'[s]]
    BY <1>9, RowCreated
  <2>2. lock \in {None, s} /\ lock' = s /\ db' = db
    BY <1>9 DEF CreateRow, Write
  <2>3. at' = at \/ at' = [at EXCEPT ![s] = @ + 1]
    BY <1>9 DEF CreateRow
  <2>4. /\ \A o \in Sessions \ {s} : pc'[o] = pc[o]
        /\ pc[s] \in {"create_checking", "create_recording", "create_viewing"}
        /\ pc'[s] \in {"checking", "loaded", "viewed"}
    BY <1>9 DEF TypeOK, CreateRow
  <2>5. QED
    BY <1>9, <2>1, <2>2, <2>3, <2>4 DEF TypeOK, Moves
<1>10. ASSUME NEW s \in Sessions, DuplicateRow(s) \/ Fail(s)
       PROVE  Moves(s)
  <2>1. RollbackTx(s) /\ UNCHANGED <<at, loaded>> /\ pc[s] \notin Ends
    BY <1>10 DEF DuplicateRow, Fail, Looking
  <2>2. pc'[s] \in {"aborted", "failed"} /\ \A o \in Sessions \ {s} : pc'[o] = pc[o]
    BY <1>10 DEF TypeOK, DuplicateRow, Fail
  <2>3. QED
    BY <2>1, <2>2 DEF Moves
<1>11. CASE NextMonth \/ UNCHANGED vars
  BY <1>11 DEF NextMonth, vars
<1>12. QED
  BY <1>1, <1>2, <1>3, <1>4, <1>5, <1>6, <1>7, <1>8, <1>9, <1>10, <1>11
     DEF Next, Finished, Sessions

\* Nothing is written and nobody holds the lock at first.
LEMMA LockInit == Init => LockInv
BY DEF Init, LockInv, Sessions

\* The lock goes from session to session through nobody, and its holder ends by
\* giving it back.
LEMMA LockNext ==
  ASSUME TypeOK, PlaceInv, LockInv, LoadedInv, [Next]_vars
  PROVE  LockInv'
<1>1. CASE UNCHANGED <<db, tx, lock, pc, at, loaded>>
  BY <1>1 DEF LockInv, Extends
<1>2. ASSUME NEW s \in Sessions, Moves(s)
      PROVE  LockInv'
  <2>1. (\A o \in Sessions : o # None) /\ lock \in Sessions \cup {None}
    BY BudgetAssumption DEF TypeOK
  <2>2. \A o \in Sessions \ {s} : pc'[o] = pc[o]
    BY <1>2 DEF Moves
  <2>3. CASE UNCHANGED <<db, tx, lock>> /\ pc'[s] \notin Ends \cup {"idle"}
             /\ (pc[s] = "idle" => s \notin Calls \ Approved)
    <3>1. pc[s] \notin Ends
      BY <1>2 DEF Moves
    <3>2. lock # None => pc'[lock] \notin Ends \cup {"idle"}
      BY <2>1, <2>2, <2>3 DEF LockInv
    <3>3. lock # None => Extends(db, tx)
      BY DEF LockInv
    <3>4. \A c \in Calls \ Approved : pc'[c] \notin Ends \cup {"idle"} => lock = c
      BY <2>2, <2>3, <3>1 DEF LockInv, Sessions
    <3>5. QED
      BY <2>3, <3>2, <3>3, <3>4 DEF LockInv, Extends
  <2>4. CASE lock = None /\ lock' = s /\ tx' = db /\ db' = db /\ pc'[s] \notin Ends \cup {"idle"}
    <3>1. Extends(db', tx')
      BY <2>4, ExtendsItself
    <3>2. \A c \in Calls \ Approved : pc'[c] \notin Ends \cup {"idle"} => c = s
      BY <2>1, <2>2, <2>4 DEF LockInv, Sessions
    <3>3. QED
      BY <2>4, <3>1, <3>2 DEF LockInv, Extends
  <2>5. CASE lock \in {None, s} /\ lock' = s /\ db' = db /\ Keeps(View(s), tx')
             /\ {pc[s], pc'[s]} \cap (Ends \cup {"idle"}) = {}
    <3>1. Extends(db, View(s))
      BY <2>1, <2>5, ExtendsItself DEF LockInv, View
    <3>2. Extends(View(s), tx')
      BY <2>5 DEF Keeps
    <3>3. Extends(db', tx')
      BY <2>5, <3>1, <3>2, ExtendsTransitive
    <3>4. \A c \in Calls \ Approved : pc'[c] \notin Ends \cup {"idle"} => c = s
      BY <2>1, <2>2, <2>5 DEF LockInv, Sessions
    <3>5. QED
      BY <2>5, <3>3, <3>4 DEF LockInv, Extends
  <2>6. CASE (RollbackTx(s) \/ CommitTx(s)) /\ pc'[s] \in Ends
    <3>1. tx' = tx /\ lock' = (IF lock = s THEN None ELSE lock) /\ (lock' # None => db' = db)
      BY <2>1, <2>6 DEF RollbackTx, CommitTx, View
    <3>2. lock' # None => lock' = lock /\ lock' # s /\ pc'[lock'] = pc[lock'] /\ Extends(db, tx)
      BY <2>1, <2>2, <3>1 DEF LockInv
    <3>3. lock' # None => pc'[lock'] \notin Ends \cup {"idle"} /\ Extends(db', tx')
      BY <3>1, <3>2 DEF LockInv
    <3>4. \A c \in Calls \ Approved : pc'[c] \notin Ends \cup {"idle"} => c # s /\ pc'[c] = pc[c]
      BY <2>2, <2>6 DEF Sessions
    <3>5. \A c \in Calls \ Approved : pc'[c] \notin Ends \cup {"idle"} => lock' = c
      BY <3>1, <3>4 DEF LockInv
    <3>6. QED
      BY <3>3, <3>5 DEF LockInv, Extends
  <2>7. QED
    BY <1>2, <2>3, <2>4, <2>5, <2>6 DEF Moves, Ends
<1>3. QED
  BY <1>1, <1>2, OneMoves

\* No call has loaded a row at first.
LEMMA LoadedInit == Init => LoadedInv
BY DEF Init, LoadedInv, Sessions

\* A row that is loaded stays, and under the lock its sum does too.
LEMMA LoadedNext ==
  ASSUME TypeOK, PlaceInv, LockInv, LoadedInv, [Next]_vars
  PROVE  LoadedInv'
<1>1. CASE UNCHANGED <<db, tx, lock, pc, at, loaded>>
  BY <1>1 DEF LoadedInv, LoadedRows, View, Current
<1>2. ASSUME NEW s \in Sessions, Moves(s), NEW c \in Calls, c # s
      PROVE  /\ pc'[c] = pc[c] /\ loaded'[c] = loaded[c] /\ Current(c)' = Current(c)
             /\ Extends(View(c), View(c)')
             /\ c \notin Approved /\ pc[c] = "loaded" => View(c)' = View(c)
  <2>1. c \in Sessions /\ c \notin Viewers /\ s # None
    BY BudgetAssumption DEF Sessions
  <2>2. pc'[c] = pc[c] /\ loaded'[c] = loaded[c] /\ at'[c] = at[c]
    BY <1>2, <2>1 DEF Moves
  <2>3. Current(c)' = Current(c)
    BY <2>1, <2>2 DEF Current
  <2>4. lock = c => lock' = c /\ tx' = tx
    BY <1>2, <2>1, BudgetAssumption DEF Moves, RollbackTx, CommitTx
  <2>5. lock' = c => lock = c
    BY <1>2, <2>1, BudgetAssumption DEF Moves, RollbackTx, CommitTx
  <2>6. db' = db \/ (db' = tx /\ lock = s)
    <3>1. db' = db \/ CommitTx(s)
      BY <1>2 DEF Moves, RollbackTx
    <3>2. QED
      BY <3>1 DEF CommitTx, View
  <2>7. CASE lock = c
    <3>1. View(c)' = View(c)
      BY <2>4, <2>7 DEF View
    <3>2. QED
      BY <2>2, <2>3, <3>1, ExtendsItself
  <2>8. CASE lock # c
    <3>1. View(c) = db /\ View(c)' = db'
      BY <2>5, <2>8 DEF View
    <3>2. Extends(db, db')
      BY <2>1, <2>6, ExtendsItself DEF LockInv
    <3>3. ~(c \notin Approved /\ pc[c] = "loaded")
      BY <2>8 DEF LockInv, Ends
    <3>4. QED
      BY <2>2, <2>3, <3>1, <3>2, <3>3
  <2>9. QED
    BY <2>7, <2>8
<1>3. ASSUME NEW s \in Sessions, Moves(s), NEW c \in Calls, c # s, pc'[c] = "loaded"
      PROVE  /\ loaded'[c].row \in DOMAIN LoadedRows(c)'
             /\ c \notin Approved => LoadedRows(c)'[loaded'[c].row].used = loaded'[c].used
  <2>1. /\ pc[c] = "loaded" /\ loaded'[c] = loaded[c] /\ Current(c)' = Current(c)
        /\ Extends(View(c), View(c)')
        /\ c \notin Approved => View(c)' = View(c)
    BY <1>2, <1>3
  <2>2. Current(c) \in Budgets /\ loaded[c].month \in 1 .. Months
    <3>1. at[c] <= Len(Applies[c])
      BY <2>1 DEF PlaceInv
    <3>2. QED
      BY <3>1, CurrentBudget DEF TypeOK, Sessions
  <2>3. loaded[c].row \in DOMAIN LoadedRows(c)
        /\ (c \notin Approved => LoadedRows(c)[loaded[c].row].used = loaded[c].used)
    BY <2>1 DEF LoadedInv
  <2>4. loaded[c].row \in DOMAIN View(c)'.usage[Current(c)][loaded[c].month]
    BY <2>1, <2>2, <2>3 DEF Extends, LoadedRows
  <2>5. LoadedRows(c)' = View(c)'.usage[Current(c)][loaded[c].month]
    BY <2>1 DEF LoadedRows
  <2>6. c \notin Approved => LoadedRows(c)' = LoadedRows(c)
    BY <2>1, <2>5 DEF LoadedRows
  <2>7. QED
    BY <2>1, <2>3, <2>4, <2>5, <2>6
<1>4. ASSUME NEW c \in Calls, LoadRow(c), pc'[c] = "loaded"
      PROVE  /\ loaded'[c].row \in DOMAIN LoadedRows(c)'
             /\ LoadedRows(c)'[loaded'[c].row].used = loaded'[c].used
  <2>1. c \in Sessions /\ pc[c] = "recording" /\ Current(c) \in Budgets
    BY <1>4, CurrentBudget DEF LoadRow, Sessions
  <2>2. PICK row \in FoundRows(c) :
          LET usage == View(c).usage[Current(c)][month][row] IN
          IF usage.stopped
            THEN at' = [at EXCEPT ![c] = @ + 1] /\ UNCHANGED <<pc, loaded>>
            ELSE /\ loaded' = [loaded EXCEPT ![c] =
                                [row |-> row, month |-> month, used |-> usage.used]]
                 /\ at' = at
    BY <1>4 DEF LoadRow
  <2>3. /\ at' = at
        /\ loaded' = [loaded EXCEPT ![c] = [row |-> row, month |-> month,
                                            used |-> View(c).usage[Current(c)][month][row].used]]
    BY <1>4, <2>1, <2>2
  <2>4. /\ loaded'[c].row = row /\ loaded'[c].month = month
        /\ loaded'[c].used = View(c).usage[Current(c)][month][row].used
    BY <2>1, <2>3 DEF TypeOK
  <2>5. View(c)' = View(c) /\ Current(c)' = Current(c)
    BY <1>4, <2>3 DEF LoadRow, View, Current
  <2>6. LoadedRows(c)' = View(c).usage[Current(c)][month]
    BY <2>4, <2>5 DEF LoadedRows
  <2>7. row \in DOMAIN View(c).usage[Current(c)][month]
    BY <2>1, FoundRow
  <2>8. QED
    BY <2>4, <2>6, <2>7
<1>5. ASSUME NEW s \in Sessions, CreateRow(s), s \in Calls, pc'[s] = "loaded"
      PROVE  /\ loaded'[s].row \in DOMAIN LoadedRows(s)'
             /\ LoadedRows(s)'[loaded'[s].row].used = loaded'[s].used
  <2>1. pc[s] = "create_recording" /\ at' = at /\ lock' = s
    BY <1>5 DEF TypeOK, CreateRow, Write
  <2>2. View(s)' = tx' /\ Current(s)' = Current(s) /\ loaded'[s].month = loaded[s].month
    BY <1>5, <2>1, RowCreated DEF View, Current
  <2>3. LoadedRows(s)' = tx'.usage[Current(s)][loaded[s].month]
    BY <2>2 DEF LoadedRows
  <2>4. loaded'[s].row \in DOMAIN tx'.usage[Current(s)][loaded[s].month]
        /\ tx'.usage[Current(s)][loaded[s].month][loaded'[s].row].used = 0
        /\ loaded'[s].used = loaded[s].used
    BY <1>5, RowCreated
  <2>5. loaded[s].used = 0
    BY <1>5, <2>1 DEF LoadedInv
  <2>6. QED
    BY <2>3, <2>4, <2>5
<1>6. ASSUME NEW s \in Sessions, Moves(s), NEW c \in Calls
      PROVE  /\ pc'[c] = "loaded" =>
                  /\ loaded'[c].row \in DOMAIN LoadedRows(c)'
                  /\ c \notin Approved => LoadedRows(c)'[loaded'[c].row].used = loaded'[c].used
             /\ pc'[c] = "create_recording" => loaded'[c].used = 0
  <2>1. CASE c # s
    <3>1. pc'[c] = pc[c] /\ loaded'[c] = loaded[c]
      BY <1>2, <1>6, <2>1
    <3>2. pc'[c] = "create_recording" => loaded'[c].used = 0
      BY <3>1 DEF LoadedInv
    <3>3. QED
      BY <1>3, <1>6, <2>1, <3>2
  <2>2. CASE c = s
    <3>1. pc'[c] = "loaded" => LoadRow(c) \/ CreateRow(c)
      BY <1>6, <2>2 DEF Moves
    <3>2. pc'[c] = "create_recording" => loaded'[c].used = 0
      BY <1>6, <2>2 DEF Moves
    <3>3. QED
      BY <1>4, <1>5, <1>6, <2>2, <3>1, <3>2
  <2>3. QED
    BY <2>1, <2>2
<1>7. ASSUME NEW s \in Sessions, Moves(s)
      PROVE  LoadedInv'
  BY <1>6, <1>7 DEF LoadedInv
<1>8. QED
  BY <1>1, <1>7, OneMoves

\* No usage is written at first: no stop and no alert is due.
LEMMA StopInit == Init => StopInv /\ AlertInv
<1> SUFFICES ASSUME Init
             PROVE  StopInv /\ AlertInv
  OBVIOUS
<1>1. \A b \in Budgets, m \in 1 .. Months : DOMAIN db.usage[b][m] = {}
  BY DEF Init
<1>2. \A b \in Budgets, m \in 1 .. Months, t \in Thresholds : db.alerts[b][m][t] = 0
  BY DEF Init
<1>3. RowsStopped(db) /\ StopsDue(db)
  BY <1>1 DEF RowsStopped, StopsDue
<1>4. RowsAlerted(db)
  BY <1>1, <1>2 DEF RowsAlerted
<1>5. lock = None
  BY DEF Init
<1>6. QED
  BY <1>3, <1>4, <1>5 DEF StopInv, AlertInv

\* What a session sees, before it writes, is committed or under its lock.
LEMMA ViewPromises ==
  ASSUME StopInv, AlertInv, NEW s \in Sessions
  PROVE  /\ RowsStopped(View(s)) /\ RowsAlerted(View(s))
         /\ Serial /\ s \notin Approved => StopsDue(View(s))
<1>1. s # None
  BY BudgetAssumption
<1>2. CASE lock = s
  BY <1>1, <1>2 DEF StopInv, AlertInv, View
<1>3. CASE lock # s
  BY <1>3 DEF StopInv, AlertInv, View
<1>4. QED
  BY <1>2, <1>3

\* A bill writes the stop and the alerts along with the usage, and a commit
\* shows what was promised under the lock.
LEMMA StopNext ==
  ASSUME TypeOK, PlaceInv, LoadedInv, StopInv, AlertInv, [Next]_vars
  PROVE  /\ RowsStopped(db') /\ RowsAlerted(db')
         /\ lock' # None => RowsStopped(tx') /\ RowsAlerted(tx')
         /\ Serial' => StopsDue(db')
         /\ Serial' /\ lock' \notin Approved \cup {None} => StopsDue(tx')
<1>1. CASE UNCHANGED <<db, tx, lock, pc, at, loaded>>
  <2>1. Serial' <=> Serial
    BY <1>1 DEF Serial
  <2>2. QED
    BY <1>1, <2>1 DEF StopInv, AlertInv
<1>2. ASSUME NEW s \in Sessions, Moves(s)
      PROVE  /\ RowsStopped(db') /\ RowsAlerted(db')
             /\ lock' # None => RowsStopped(tx') /\ RowsAlerted(tx')
             /\ Serial' => StopsDue(db')
             /\ Serial' /\ lock' \notin Approved \cup {None} => StopsDue(tx')
  <2>1. Serial' => Serial
    <3>1. \A o \in Sessions \ {s} : pc'[o] = pc[o]
      BY <1>2 DEF Moves
    <3>2. pc[s] # "done"
      BY <1>2 DEF Moves, Ends
    <3>3. QED
      BY <3>1, <3>2, BudgetAssumption DEF Serial, Sessions
  <2>2. CASE UNCHANGED <<db, tx, lock>>
    BY <2>1, <2>2 DEF StopInv, AlertInv
  <2>3. CASE lock = None /\ lock' = s /\ tx' = db /\ db' = db
    BY <2>1, <2>3 DEF StopInv, AlertInv
  <2>4. CASE /\ lock \in {None, s} /\ lock' = s /\ db' = db /\ Keeps(View(s), tx')
             /\ s \notin Approved /\ StopsDue(View(s)) => StopsDue(tx')
    <3>1. RowsStopped(tx') /\ RowsAlerted(tx')
      BY <2>4, ViewPromises DEF Keeps
    <3>2. Serial' /\ s \notin Approved => StopsDue(tx')
      BY <2>1, <2>4, ViewPromises
    <3>3. QED
      BY <2>1, <2>4, <3>1, <3>2 DEF StopInv, AlertInv
  <2>5. CASE RollbackTx(s)
    <3>1. db' = db /\ tx' = tx /\ lock' \in {None, lock}
      BY <2>5 DEF RollbackTx
    <3>2. QED
      BY <2>1, <3>1 DEF StopInv, AlertInv
  <2>6. CASE CommitTx(s) /\ pc'[s] = "done"
    <3>1. db' = View(s) /\ tx' = tx /\ lock' \in {None, lock}
      BY <2>6 DEF CommitTx
    <3>2. RowsStopped(db') /\ RowsAlerted(db')
      BY <3>1, ViewPromises
    <3>3. Serial' => s \notin Approved
      BY <2>6 DEF Serial
    <3>4. Serial' => StopsDue(db')
      BY <2>1, <3>1, <3>3, ViewPromises
    <3>5. QED
      BY <2>1, <3>1, <3>2, <3>4 DEF StopInv, AlertInv
  <2>7. QED
    BY <1>2, <2>2, <2>3, <2>4, <2>5, <2>6 DEF Moves
<1>3. QED
  BY <1>1, <1>2, OneMoves

-----------------------------------------------------------------------------
\* Inv is inductive.
LEMMA Inductive == ASSUME Inv, [Next]_vars
                   PROVE  Inv'
<1> USE DEF Inv
<1>1. TypeOK' /\ PlaceInv' /\ LockInv' /\ LoadedInv'
  BY TypesNext, PlaceNext, LockNext, LoadedNext
<1>2. StopInv' /\ AlertInv'
  BY StopNext DEF StopInv, AlertInv
<1>3. QED
  BY <1>1, <1>2

\* Every behaviour of the system keeps Inv.
THEOREM Invariance == Spec => []Inv
<1>1. Init => Inv
  BY TypesInit, PlaceInit, LockInit, LoadedInit, StopInit DEF Inv
<1>2. Inv /\ [Next]_vars => Inv'
  BY Inductive
<1>3. QED
  BY <1>1, <1>2, PTL DEF Spec

\* The tables, the sessions and what they have loaded keep their types.
THEOREM TypeCorrect == Spec => []TypeOK
<1>1. Inv => TypeOK
  BY DEF Inv
<1>2. QED
  BY <1>1, Invariance, PTL

\* In every committed row the stop is set once usage has reached the limit, and
\* as long as no call has billed without the lock only then.
THEOREM StopAtLimitCorrect == Spec => []StopAtLimit
<1>1. Inv => StopAtLimit
  <2> SUFFICES ASSUME Inv
               PROVE  StopAtLimit
    OBVIOUS
  <2>1. RowsStopped(db) /\ (Serial => StopsDue(db))
    BY DEF Inv, StopInv
  <2>2. QED
    BY <2>1 DEF StopAtLimit, RowsStopped, StopsDue
<1>2. QED
  BY <1>1, Invariance, PTL

\* A threshold is recorded as alerted once per window, with the usage that
\* reached it.
THEOREM AlertsOnceCorrect == Spec => []AlertsOnce
<1>1. Inv => AlertsOnce
  <2> SUFFICES ASSUME Inv
               PROVE  AlertsOnce
    OBVIOUS
  <2>1. RowsAlerted(db)
    BY DEF Inv, AlertInv
  <2>2. QED
    BY <2>1 DEF AlertsOnce, RowsAlerted
<1>2. QED
  BY <1>1, Invariance, PTL

\* No commit takes a usage row or a hard stop away.
THEOREM StopIsFinalCorrect == Spec => StopIsFinal
<1>1. Inv /\ [Next]_vars =>
        [\A b \in Budgets, m \in 1 .. Months : \A i \in DOMAIN db.usage[b][m] :
           /\ i \in DOMAIN db'.usage[b][m]
           /\ db.usage[b][m][i].stopped => db'.usage[b][m][i].stopped]_db
  <2> SUFFICES ASSUME Inv, [Next]_vars
               PROVE  Extends(db, db') \/ db' = db
    BY DEF Extends
  <2>1. CASE UNCHANGED <<db, tx, lock, pc, at, loaded>>
    BY <2>1
  <2>2. ASSUME NEW s \in Sessions, Moves(s)
        PROVE  Extends(db, db') \/ db' = db
    <3>1. db' = db \/ CommitTx(s)
      BY <2>2 DEF Moves, RollbackTx
    <3>2. CASE CommitTx(s) /\ lock = s
      <4>1. db' = tx /\ lock # None
        BY <3>2, BudgetAssumption DEF CommitTx, View
      <4>2. QED
        BY <4>1 DEF Inv, LockInv
    <3>3. CASE CommitTx(s) /\ lock # s
      BY <3>3 DEF CommitTx, View
    <3>4. QED
      BY <3>1, <3>2, <3>3
  <2>3. QED
    BY <2>1, <2>2, OneMoves DEF Inv
<1>2. QED
  BY <1>1, Invariance, PTL DEF Spec, StopIsFinal

-----------------------------------------------------------------------------
(* Sums: units that are counted, so that adding is adding elements. *)

\* The units of a sum are pairs, finitely many for finitely many numbers.
LEMMA UnitsOf ==
  ASSUME NEW S, NEW f \in [S -> Nat]
  PROVE  /\ \A u : u \in Units(f) <=> \E x \in S : \E n \in 1 .. f[x] : u = <<x, n>>
         /\ IsFiniteSet(S) => IsFiniteSet(Units(f)) /\ Sum(f) \in Nat
<1> DEFINE cols == {{x} \X (1 .. f[x]) : x \in S}
           h    == [x \in S |-> {x} \X (1 .. f[x])]
<1>1. Units(f) = UNION cols
  BY DEF Units
<1>2. \A u : u \in Units(f) <=> \E x \in S : \E n \in 1 .. f[x] : u = <<x, n>>
  BY <1>1
<1>3. ASSUME IsFiniteSet(S)
      PROVE  IsFiniteSet(Units(f)) /\ Sum(f) \in Nat
  <2>1. h \in Surjection(S, cols)
    BY Fun_IsSurj
  <2>2. IsFiniteSet(cols)
    BY <1>3, <2>1, FS_Surjection
  <2>3. ASSUME NEW x \in S
        PROVE  IsFiniteSet({x} \X (1 .. f[x]))
    <3>1. IsFiniteSet({x})
      BY FS_Singleton
    <3>2. 1 \in Int /\ f[x] \in Int
      OBVIOUS
    <3>3. IsFiniteSet(1 .. f[x])
      BY <3>2, FS_Interval
    <3>4. QED
      BY <3>1, <3>3, FS_Product
  <2>4. IsFiniteSet(Units(f))
    <3>1. \A T \in cols : IsFiniteSet(T)
      BY <2>3
    <3> HIDE DEF cols
    <3>2. IsFiniteSet(UNION cols)
      BY <2>2, <3>1, FS_UNION
    <3>3. QED
      BY <1>1, <3>2
  <2>5. QED
    BY <2>4, FS_CardinalityType DEF Sum
<1>4. QED
  BY <1>2, <1>3

\* Adding to one number, which may be a new one, adds as much to the sum.
LEMMA SumGrows ==
  ASSUME NEW S, IsFiniteSet(S), NEW f \in [S -> Nat],
         NEW x, NEW n \in Nat, NEW g \in [S \cup {x} -> Nat],
         \A y \in S \ {x} : g[y] = f[y],
         g[x] = IF x \in S THEN f[x] + n ELSE n
  PROVE  Sum(g) = Sum(f) + n
<1> DEFINE a   == IF x \in S THEN f[x] ELSE 0
           new == {x} \X (a + 1 .. a + n)
<1>1. a \in Nat /\ g[x] = a + n
  OBVIOUS
<1>2. IsFiniteSet(a + 1 .. a + n) /\ Cardinality(a + 1 .. a + n) = n
  <2>1. a + 1 \in Int /\ a + n \in Int
    BY <1>1
  <2>2. IsFiniteSet(a + 1 .. a + n)
        /\ Cardinality(a + 1 .. a + n) = IF a + 1 > a + n THEN 0 ELSE (a + n) - (a + 1) + 1
    BY <2>1, FS_Interval
  <2>3. QED
    BY <1>1, <2>2
<1>3. IsFiniteSet(new) /\ Cardinality(new) = n
  <2>1. IsFiniteSet({x}) /\ Cardinality({x}) = 1
    BY FS_Singleton
  <2>2. IsFiniteSet(new) /\ Cardinality(new) = 1 * Cardinality(a + 1 .. a + n)
    BY <1>2, <2>1, FS_Product
  <2>3. QED
    BY <1>2, <2>2
<1>4. IsFiniteSet(Units(f)) /\ Sum(f) \in Nat
  BY UnitsOf
<1>5. \A u : u \in Units(f) <=> \E y \in S : \E k \in 1 .. f[y] : u = <<y, k>>
  BY UnitsOf
<1>6. \A u : u \in Units(g) <=> \E y \in S \cup {x} : \E k \in 1 .. g[y] : u = <<y, k>>
  BY UnitsOf
<1>7. \A u : u \in new <=> \E k \in a + 1 .. a + n : u = <<x, k>>
  OBVIOUS
<1>8. Units(g) = Units(f) \cup new
  <2>1. ASSUME NEW u \in Units(g) PROVE u \in Units(f) \cup new
    <3>0. PICK y \in S \cup {x} : \E k \in 1 .. g[y] : u = <<y, k>>
      BY <1>6, <2>1
    <3>1. PICK k \in 1 .. g[y] : u = <<y, k>>
      BY <3>0
    <3>2. CASE y = x
      <4>1. k \in 1 .. a \/ k \in a + 1 .. a + n
        BY <1>1, <3>1, <3>2
      <4>2. k \in 1 .. a => x \in S /\ k \in 1 .. f[x]
        BY <1>1
      <4>3. QED
        BY <1>5, <1>7, <3>1, <3>2, <4>1, <4>2
    <3>3. CASE y # x
      BY <1>5, <3>1, <3>3
    <3>4. QED
      BY <3>2, <3>3
  <2>2. ASSUME NEW u \in Units(f) PROVE u \in Units(g)
    <3>0. PICK y \in S : \E k \in 1 .. f[y] : u = <<y, k>>
      BY <1>5, <2>2
    <3>1. PICK k \in 1 .. f[y] : u = <<y, k>>
      BY <3>0
    <3>2. k \in 1 .. g[y]
      BY <3>1
    <3>3. QED
      BY <1>6, <3>1, <3>2
  <2>3. ASSUME NEW u \in new PROVE u \in Units(g)
    <3>1. PICK k \in a + 1 .. a + n : u = <<x, k>>
      BY <1>7, <2>3
    <3>2. k \in 1 .. g[x]
      BY <1>1, <3>1
    <3>3. QED
      BY <1>6, <3>1, <3>2
  <2>4. QED
    BY <2>1, <2>2, <2>3
<1>9. Units(f) \cap new = {}
  <2>1. ASSUME NEW u \in Units(f), u \in new PROVE FALSE
    <3>0. PICK y \in S : \E k \in 1 .. f[y] : u = <<y, k>>
      BY <1>5, <2>1
    <3>1. PICK k \in 1 .. f[y] : u = <<y, k>>
      BY <3>0
    <3>2. PICK j \in a + 1 .. a + n : u = <<x, j>>
      BY <1>7, <2>1
    <3>3. y = x /\ k = j
      BY <3>1, <3>2
    <3>4. k <= a /\ j > a
      BY <1>1, <3>1, <3>2, <3>3
    <3>5. QED
      BY <1>1, <3>1, <3>2, <3>3, <3>4
  <2>2. QED
    BY <2>1
<1>10. Cardinality(Units(g)) = Cardinality(Units(f)) + Cardinality(new) - Cardinality(Units(f) \cap new)
  BY <1>3, <1>4, <1>8, FS_Union
<1>11. QED
  BY <1>3, <1>4, <1>9, <1>10, FS_EmptySet DEF Sum

\* The sum of no numbers, and of zeros, is 0.
LEMMA SumNothing == \A f : (\A x \in DOMAIN f : f[x] = 0) => Sum(f) = 0
<1>1. ASSUME NEW f, \A x \in DOMAIN f : f[x] = 0 PROVE Units(f) = {}
  BY <1>1 DEF Units
<1>2. QED
  BY <1>1, FS_EmptySet DEF Sum

\* The sum of one number is that number.
LEMMA SumOne ==
  ASSUME NEW x, NEW f \in [{x} -> Nat]
  PROVE  Sum(f) = f[x]
<1> DEFINE S == {}
           e == [y \in S |-> 0]
           n == f[x]
<1>1. e \in [S -> Nat] /\ IsFiniteSet(S) /\ f \in [S \cup {x} -> Nat] /\ n \in Nat
  BY FS_EmptySet
<1>2. Sum(e) = 0
  <2>1. \A y \in DOMAIN e : e[y] = 0
    OBVIOUS
  <2> HIDE DEF e
  <2>2. QED
    BY <2>1, SumNothing
<1>3. \A y \in S \ {x} : f[y] = e[y]
  OBVIOUS
<1>4. x \notin S /\ f[x] = n
  OBVIOUS
<1> HIDE DEF S, e, n
<1>5. Sum(f) = Sum(e) + n
  BY <1>1, <1>3, <1>4, SumGrows
<1>6. QED
  BY <1>1, <1>2, <1>5 DEF n

\* Every table's usage, by month and in all, is a number.
LEMMA UsedType ==
  ASSUME NEW d \in Tables, NEW b \in Budgets
  PROVE  /\ \A m \in 1 .. Months :
              /\ IsFiniteSet(DOMAIN d.usage[b][m])
              /\ [i \in DOMAIN d.usage[b][m] |-> d.usage[b][m][i].used] \in [DOMAIN d.usage[b][m] -> Nat]
              /\ UsedIn(d, b, m) \in Nat
         /\ [m \in 1 .. Months |-> UsedIn(d, b, m)] \in [1 .. Months -> Nat]
         /\ TotalUsed(d, b) \in Nat
<1>1. ASSUME NEW m \in 1 .. Months
      PROVE  /\ IsFiniteSet(DOMAIN d.usage[b][m])
             /\ [i \in DOMAIN d.usage[b][m] |-> d.usage[b][m][i].used] \in [DOMAIN d.usage[b][m] -> Nat]
             /\ UsedIn(d, b, m) \in Nat
  <2> DEFINE rows == d.usage[b][m]
             f    == [i \in DOMAIN rows |-> rows[i].used]
  <2>1. rows \in Seq(UsageRows)
    <3>1. d.usage \in [Budgets -> [1 .. Months -> Seq(UsageRows)]]
      BY DEF Tables
    <3>2. QED
      BY <3>1
  <2>2. DOMAIN rows = 1 .. Len(rows) /\ Len(rows) \in Nat
    BY <2>1, LenProperties
  <2>3. IsFiniteSet(DOMAIN rows)
    <3>1. 1 \in Int /\ Len(rows) \in Int
      BY <2>2
    <3>2. QED
      BY <2>2, <3>1, FS_Interval
  <2>4. \A i \in DOMAIN rows : rows[i] \in UsageRows
    BY <2>1, <2>2, ElementOfSeq
  <2>5. f \in [DOMAIN rows -> Nat]
    BY <2>4 DEF UsageRows
  <2>6. Sum(f) \in Nat
    BY <2>3, <2>5, UnitsOf
  <2>7. QED
    BY <2>3, <2>5, <2>6 DEF UsedIn
<1>2. [m \in 1 .. Months |-> UsedIn(d, b, m)] \in [1 .. Months -> Nat]
  BY <1>1
<1>3. IsFiniteSet(1 .. Months)
  BY BudgetAssumption, FS_Interval
<1>4. TotalUsed(d, b) \in Nat
  BY <1>2, <1>3, UnitsOf DEF TotalUsed
<1>5. QED
  BY <1>1, <1>2, <1>4

\* A new row adds nothing to what is used.
LEMMA AddedUsed ==
  ASSUME NEW d \in Tables, NEW b \in Budgets, NEW m \in 1 .. Months
  PROVE  /\ \A c \in Budgets, k \in 1 .. Months : UsedIn(Added(d, b, m), c, k) = UsedIn(d, c, k)
         /\ \A c \in Budgets : TotalUsed(Added(d, b, m), c) = TotalUsed(d, c)
<1> DEFINE e == Added(d, b, m)
<1>0. AddsRow(d, e, b, m) /\ e \in Tables
  <2>1. AddsRow(d, e, b, m)
    BY AddedRows
  <2> HIDE DEF e
  <2>2. QED
    BY <2>1 DEF AddsRow
<1>1. ASSUME NEW c \in Budgets, NEW k \in 1 .. Months, ~(c = b /\ k = m)
      PROVE  e.usage[c][k] = d.usage[c][k]
  <2>1. d.usage \in [Budgets -> [1 .. Months -> Seq(UsageRows)]]
    BY DEF Tables
  <2>2. e.usage = [d.usage EXCEPT ![b] = [d.usage[b] EXCEPT ![m] = Append(@, NewRow)]]
    BY DEF Added, Tables
  <2>3. QED
    BY <1>1, <2>1, <2>2
<1>2. ASSUME NEW c \in Budgets, NEW k \in 1 .. Months
      PROVE  UsedIn(e, c, k) = UsedIn(d, c, k)
  <2>1. CASE ~(c = b /\ k = m)
    BY <1>1, <2>1 DEF UsedIn
  <2>2. CASE c = b /\ k = m
    <3> DEFINE f == [i \in DOMAIN d.usage[b][m] |-> d.usage[b][m][i].used]
               g == [i \in DOMAIN e.usage[b][m] |-> e.usage[b][m][i].used]
               x == Len(d.usage[b][m]) + 1
    <3>1. /\ x \in DOMAIN e.usage[b][m] /\ x \notin DOMAIN d.usage[b][m]
          /\ \A i \in DOMAIN d.usage[b][m] :
               i \in DOMAIN e.usage[b][m] /\ e.usage[b][m][i] = d.usage[b][m][i]
          /\ \A i \in DOMAIN e.usage[b][m] : i \notin DOMAIN d.usage[b][m] => e.usage[b][m][i] = NewRow
      <4> HIDE DEF e
      <4> QED BY <1>0 DEF AddsRow
    <3>2. DOMAIN e.usage[b][m] = DOMAIN d.usage[b][m] \cup {x}
      <4>1. d.usage[b][m] \in Seq(UsageRows) /\ NewRow \in UsageRows
        BY DEF Tables, UsageRows, NewRow
      <4>2. e.usage[b][m] = Append(d.usage[b][m], NewRow)
        BY DEF Added, Tables
      <4> HIDE DEF e
      <4>3. e.usage[b][m] \in Seq(UsageRows) /\ Len(e.usage[b][m]) = Len(d.usage[b][m]) + 1
        BY <4>1, <4>2, AppendProperties
      <4>4. DOMAIN e.usage[b][m] = 1 .. Len(d.usage[b][m]) + 1
        BY <4>3, LenProperties
      <4>5. DOMAIN d.usage[b][m] = 1 .. Len(d.usage[b][m]) /\ Len(d.usage[b][m]) \in Nat
        BY <4>1, LenProperties
      <4> DEFINE n == Len(d.usage[b][m])
      <4>6. n \in Nat /\ DOMAIN e.usage[b][m] = 1 .. n + 1 /\ DOMAIN d.usage[b][m] = 1 .. n /\ x = n + 1
        BY <4>4, <4>5
      <4> HIDE DEF n, x
      <4>7. 1 .. n + 1 = (1 .. n) \cup {n + 1}
        BY <4>6
      <4>8. QED
        BY <4>6, <4>7
    <3>3. /\ IsFiniteSet(DOMAIN d.usage[b][m])
          /\ f \in [DOMAIN d.usage[b][m] -> Nat]
      BY UsedType
    <3>4. g \in [DOMAIN d.usage[b][m] \cup {x} -> Nat]
      BY <1>0, <3>2, UsedType
    <3>5. \A y \in DOMAIN d.usage[b][m] \ {x} : g[y] = f[y]
      BY <3>1
    <3>6. g[x] = IF x \in DOMAIN d.usage[b][m] THEN f[x] + 0 ELSE 0
      <4> HIDE DEF e, x
      <4>1. e.usage[b][m][x] = NewRow
        BY <3>1
      <4>2. g[x] = 0
        BY <3>1, <4>1 DEF NewRow
      <4> HIDE DEF f, g
      <4>3. QED
        BY <3>1, <4>2
    <3>7. Sum(g) = Sum(f) + 0 /\ Sum(f) \in Nat
      <4> HIDE DEF f, g, x
      <4>1. Sum(g) = Sum(f) + 0
        BY <3>3, <3>4, <3>5, <3>6, SumGrows
      <4>2. QED
        BY <3>3, <4>1, UnitsOf
    <3>8. QED
      BY <2>2, <3>7 DEF UsedIn
  <2>3. QED
    BY <2>1, <2>2
<1>3. ASSUME NEW c \in Budgets
      PROVE  TotalUsed(e, c) = TotalUsed(d, c)
  <2>1. [k \in 1 .. Months |-> UsedIn(e, c, k)] = [k \in 1 .. Months |-> UsedIn(d, c, k)]
    BY <1>2
  <2>2. QED
    BY <2>1 DEF TotalUsed
<1>4. QED
  BY <1>2, <1>3

\* A bill that adds n to its row adds n to the month of the row and to the total.
LEMMA BilledUsed ==
  ASSUME NEW d \in Tables, NEW b \in Budgets, NEW m \in 1 .. Months,
         NEW i \in DOMAIN d.usage[b][m], NEW n \in Nat, NEW used \in Nat
  PROVE  used = d.usage[b][m][i].used + n =>
         /\ \A c \in Budgets, k \in 1 .. Months :
              UsedIn(Billed(d, b, m, i, used), c, k) =
                IF c = b /\ k = m THEN UsedIn(d, c, k) + n ELSE UsedIn(d, c, k)
         /\ \A c \in Budgets :
              TotalUsed(Billed(d, b, m, i, used), c) =
                IF c = b THEN TotalUsed(d, c) + n ELSE TotalUsed(d, c)
<1> DEFINE e == Billed(d, b, m, i, used)
<1>0. e \in Tables
  BY BilledRows
<1>6. \A c \in Budgets, k \in 1 .. Months :
        /\ DOMAIN e.usage[c][k] = DOMAIN d.usage[c][k]
        /\ c # b \/ k # m => e.usage[c][k] = d.usage[c][k]
  BY BilledRows
<1>7. \A j \in DOMAIN d.usage[b][m] \ {i} : e.usage[b][m][j] = d.usage[b][m][j]
  BY BilledRows
<1>8. e.usage[b][m][i].used = used
  BY BilledRows
<1>9. IsFiniteSet(1 .. Months)
  <2>1. 1 \in Int /\ Months \in Int
    BY BudgetAssumption
  <2>2. QED
    BY <2>1, FS_Interval
<1> HIDE DEF e
<1> SUFFICES ASSUME used = d.usage[b][m][i].used + n
             PROVE  /\ \A c \in Budgets, k \in 1 .. Months :
                         UsedIn(e, c, k) = IF c = b /\ k = m THEN UsedIn(d, c, k) + n ELSE UsedIn(d, c, k)
                    /\ \A c \in Budgets :
                         TotalUsed(e, c) = IF c = b THEN TotalUsed(d, c) + n ELSE TotalUsed(d, c)
  BY DEF e
<1>1. UsedIn(e, b, m) = UsedIn(d, b, m) + n
  <2> DEFINE f == [j \in DOMAIN d.usage[b][m] |-> d.usage[b][m][j].used]
             g == [j \in DOMAIN e.usage[b][m] |-> e.usage[b][m][j].used]
  <2>1. IsFiniteSet(DOMAIN d.usage[b][m]) /\ f \in [DOMAIN d.usage[b][m] -> Nat]
    BY UsedType
  <2>2. DOMAIN e.usage[b][m] = DOMAIN d.usage[b][m] \cup {i}
    BY <1>0, <1>6, <1>7, <1>8
  <2>3. g \in [DOMAIN d.usage[b][m] \cup {i} -> Nat]
    BY <1>0, <2>2, UsedType
  <2>4. \A y \in DOMAIN d.usage[b][m] \ {i} : g[y] = f[y]
    BY <1>0, <1>6, <1>7, <1>8
  <2>5. g[i] = IF i \in DOMAIN d.usage[b][m] THEN f[i] + n ELSE n
    BY <1>0, <1>6, <1>7, <1>8
  <2>6. Sum(g) = Sum(f) + n
    <3> HIDE DEF f, g
    <3> QED BY <2>1, <2>3, <2>4, <2>5, SumGrows
  <2>7. QED
    BY <2>6 DEF UsedIn
<1>2. ASSUME NEW c \in Budgets, NEW k \in 1 .. Months, c # b \/ k # m
      PROVE  UsedIn(e, c, k) = UsedIn(d, c, k)
  BY <1>2, <1>6 DEF UsedIn
<1>3. TotalUsed(e, b) = TotalUsed(d, b) + n
  <2> DEFINE S == 1 .. Months
             f == [k \in S |-> UsedIn(d, b, k)]
             g == [k \in S |-> UsedIn(e, b, k)]
  <2>1. IsFiniteSet(S)
    BY <1>9
  <2>2. S \cup {m} = S
    OBVIOUS
  <2>3. f \in [S -> Nat] /\ g \in [S -> Nat]
    BY <1>0, UsedType
  <2>4. \A y \in S \ {m} : g[y] = f[y]
    BY <1>2
  <2>5. g[m] = IF m \in S THEN f[m] + n ELSE n
    BY <1>1
  <2>6. Sum(g) = Sum(f) + n
    <3> HIDE DEF f, g, S
    <3>1. g \in [S \cup {m} -> Nat]
      BY <2>2, <2>3
    <3>2. QED
      BY <2>1, <2>3, <2>4, <2>5, <3>1, SumGrows
  <2>7. QED
    BY <2>6 DEF TotalUsed
<1>4. ASSUME NEW c \in Budgets, c # b
      PROVE  TotalUsed(e, c) = TotalUsed(d, c)
  <2>1. [k \in 1 .. Months |-> UsedIn(e, c, k)] = [k \in 1 .. Months |-> UsedIn(d, c, k)]
    BY <1>2, <1>4
  <2>2. QED
    BY <2>1 DEF TotalUsed
<1>5. QED
  BY <1>1, <1>2, <1>3, <1>4

\* One more call spends its cost more.
LEMMA SpentGrows ==
  ASSUME NEW C \in SUBSET Calls, IsFiniteSet(C)
  PROVE  /\ Spent(C) \in Nat
         /\ \A c \in Calls \ C : Spent(C \cup {c}) = Spent(C) + Cost[c]
<1> DEFINE f == [x \in C |-> Cost[x]]
<1>1. f \in [C -> Nat]
  BY BudgetAssumption
<1>2. Spent(C) \in Nat
  BY <1>1, UnitsOf DEF Spent
<1>3. ASSUME NEW c \in Calls \ C
      PROVE  Spent(C \cup {c}) = Spent(C) + Cost[c]
  <2> DEFINE g == [x \in C \cup {c} |-> Cost[x]]
  <2>1. g \in [C \cup {c} -> Nat] /\ Cost[c] \in Nat
    BY BudgetAssumption
  <2>2. \A y \in C \ {c} : g[y] = f[y]
    OBVIOUS
  <2>3. g[c] = IF c \in C THEN f[c] + Cost[c] ELSE Cost[c]
    OBVIOUS
  <2>4. Sum(g) = Sum(f) + Cost[c]
    <3> HIDE DEF f, g
    <3> QED BY <1>1, <2>1, <2>2, <2>3, SumGrows
  <2>5. QED
    BY <2>4 DEF Spent
<1>4. QED
  BY <1>2, <1>3

\* No call spends nothing.
LEMMA SpentNothing == Spent({}) = 0
<1>1. DOMAIN [c \in {} |-> Cost[c]] = {}
  OBVIOUS
<1>2. QED
  BY <1>1, SumNothing DEF Spent

-----------------------------------------------------------------------------
(* The accounts. *)

\* A call that bills its cost, and what of it is in the rows and not committed.
Billing == {"recording", "create_recording", "loaded"}

Pending(s, b) ==
  IF s \in Calls /\ pc[s] \in Billing /\ \E k \in 1 .. Len(Applies[s]) : k < at[s] /\ Applies[s][k] = b
    THEN Cost[s] ELSE 0

\* Nobody has looked beyond the present month, so later ones have no rows, and a
\* call bills in the month in which it was sent or in a later one.
Unused(d) == \A b \in Budgets, m \in 1 .. Months : m > month => DOMAIN d.usage[b][m] = {}

WhenInv ==
  /\ Unused(db) /\ (lock # None => Unused(tx))
  /\ \A s \in Sessions : loaded[s].month <= month
  /\ \A c \in Calls :
       /\ sentIn[c] <= month
       /\ pc[c] \in {"loaded", "create_recording"} => sentIn[c] <= loaded[c].month
       /\ pc[c] = "idle" => at[c] = 1

\* The budgets that have let a call pass, and that it has not billed yet.
Cleared(c, k) ==
  \/ pc[c] = "checking" /\ k < at[c]
  \/ pc[c] = "create_checking" /\ k <= at[c]
  \/ pc[c] \in Billing /\ k >= at[c]

\* They are not stopped: the call has had the lock since it looked at them.
ClearInv ==
  \A c \in Calls \ Approved : \A k \in 1 .. Len(Applies[c]) :
    LET b == Applies[c][k] IN
    b \notin Rolling /\ Cleared(c, k) =>
      \A i \in DOMAIN View(c).usage[b][month] : ~View(c).usage[b][month][i].stopped

\* So far only finitely many calls have ended: their costs have a sum.
DoneInv == IsFiniteSet({c \in Calls : pc[c] = "done"})

\* What is billed in the rows is what was spent, and what their writer has billed.
ExactInv ==
  Serial =>
    /\ \A b \in Budgets : TotalUsed(db, b) = Spent(Charged(b))
    /\ \A s \in Sessions \ Approved : lock = s =>
         \A b \in Budgets : TotalUsed(tx, b) = Spent(Charged(b)) + Pending(s, b)

\* What of it belongs to the present month.
PendingNow(s, b) == IF s \in Calls /\ sentIn[s] = month THEN Pending(s, b) ELSE 0

\* What was spent this month is billed this month, and a call is sent while its
\* budgets have something left.
SpendInv ==
  Serial =>
    /\ \A b \in Budgets : Spent(Spenders(b, month)) <= UsedIn(db, b, month)
    /\ \A s \in Sessions \ Approved : lock = s =>
         \A b \in Budgets : Spent(Spenders(b, month)) + PendingNow(s, b) <= UsedIn(tx, b, month)

LeftInv ==
  Serial => \A c \in Calls \ Approved : \A k \in 1 .. Len(Applies[c]) :
    LET b == Applies[c][k] IN
    b \notin Rolling =>
      /\ pc[c] \in {"checking", "create_checking"} /\ Cleared(c, k) =>
           Spent(Spenders(b, month)) < Limit[b]
      /\ pc[c] \in Billing => Spent(Spenders(b, sentIn[c])) < Limit[b]

\* The call that ended last came on top of less than the limit.
OvershotInv ==
  Serial => \A b \in Budgets \ Rolling, m \in 1 .. Months :
    \/ Spenders(b, m) = {}
    \/ \E last \in Spenders(b, m) : Spent(Spenders(b, m)) < Limit[b] + Cost[last]

-----------------------------------------------------------------------------
(* The steps, as they are seen by the accounts. *)

\* The clock and the other sessions stay where they are.
Alone(s) ==
  /\ month' = month
  /\ \A o \in Sessions \ {s} : pc'[o] = pc[o] /\ loaded'[o] = loaded[o]
  /\ \A c \in Calls \ {s} : at'[c] = at[c] /\ sentIn'[c] = sentIn[c]
  /\ pc[s] \notin Ends /\ pc'[s] # "idle"
  /\ loaded'[s].month <= month
  /\ s \in Calls => /\ sentIn'[s] <= month
                    /\ pc'[s] \in {"loaded", "create_recording"} => sentIn'[s] <= loaded'[s].month

\* A session takes the lock or adds a row, and bills nothing.
Works(s) ==
  /\ Alone(s) /\ db' = db /\ pc'[s] \notin Ends
  /\ \/ UNCHANGED <<tx, lock>>
     \/ lock \in {None, s} /\ lock' = s /\ tx' = View(s)
     \/ lock \in {None, s} /\ lock' = s
        /\ \E b \in Budgets, m \in 1 .. Months : m <= month /\ tx' = Added(View(s), b, m)
  /\ s \notin Approved => \A b \in Budgets : Pending(s, b)' = Pending(s, b)
                                             /\ PendingNow(s, b)' = PendingNow(s, b)

\* A call adds its cost to the row it has loaded.
Bills(c) ==
  /\ Alone(c) /\ db' = db /\ pc[c] = "loaded" /\ pc'[c] = "recording"
  /\ lock \in {None, c} /\ lock' = c
  /\ tx' = Billed(View(c), Current(c), loaded[c].month, loaded[c].row, loaded[c].used + Cost[c])
  /\ at' = [at EXCEPT ![c] = @ + 1] /\ sentIn' = sentIn

\* A session is rolled back.
Quits(s) == Alone(s) /\ RollbackTx(s) /\ pc'[s] \in Ends \ {"done"}

\* A session commits, a call after its last budget.
Commits(s) ==
  /\ Alone(s) /\ CommitTx(s) /\ pc'[s] = "done" /\ UNCHANGED <<at, sentIn>>
  /\ s \in Calls => pc[s] = "recording" /\ at[s] > Len(Applies[s])

\* The actions of a session.
Acts(s) ==
  \/ s \in Calls /\ \/ Begin(s) \/ Check(s) \/ Forward(s)
                    \/ LoadRow(s) \/ AddUsage(s) \/ Complete(s)
  \/ s \in Viewers /\ (BeginView(s) \/ FindRow(s) \/ EndView(s))
  \/ MissRow(s) \/ CreateRow(s) \/ DuplicateRow(s) \/ Fail(s)

\* A step of a session, as the accounts see it.
Account(s) == Works(s) \/ Quits(s) \/ Commits(s) \/ (s \in Calls /\ Bills(s))

\* How an allowed call gets from one budget to the next.
Progress(c) ==
  /\ \/ pc[c] = "idle" /\ pc'[c] = "checking" /\ at'[c] = 1
     \/ pc'[c] \in Ends
     \/ /\ lock = c /\ lock' = c
        /\ tx' = tx \/ \E b \in Budgets, m \in 1 .. Months : tx' = Added(tx, b, m)
        /\ \/ /\ pc[c] = "checking" /\ pc'[c] = "checking"
              /\ at[c] <= Len(Applies[c]) /\ at'[c] = at[c] + 1 /\ tx' = tx
              /\ \E row : /\ FoundRows(c) = {row}
                          /\ ~tx.usage[Applies[c][at[c]]][month][row].stopped
           \/ /\ pc[c] = "checking" /\ pc'[c] = "create_checking"
              /\ at[c] <= Len(Applies[c]) /\ at'[c] = at[c] /\ tx' = tx
              /\ FoundRows(c) = {}
           \/ pc[c] = "create_checking" /\ pc'[c] = "checking" /\ at'[c] = at[c] + 1
           \/ /\ pc[c] = "checking" /\ pc'[c] = "recording" /\ tx' = tx
              /\ at[c] > Len(Applies[c]) /\ sentIn'[c] = month
           \/ pc[c] \in Billing /\ pc'[c] \in Billing /\ at'[c] = at[c]
     \/ Bills(c)
  /\ sentIn'[c] # sentIn[c] => pc[c] = "checking"

\* A row that CreateRow adds is for no later month than this.
LEMMA RowAdded ==
  ASSUME TypeOK, PlaceInv, WhenInv, NEW s \in Sessions, CreateRow(s)
  PROVE  /\ lock \in {None, s} /\ lock' = s
         /\ \E b \in Budgets, m \in 1 .. Months :
              /\ b = Current(s) /\ m = loaded[s].month /\ m <= month
              /\ tx' = Added(View(s), b, m)
         /\ loaded'[s].month = loaded[s].month
         /\ loaded' = [loaded EXCEPT ![s] = loaded'[s]]
<1>1. Current(s) \in Budgets
  <2>1. pc[s] \in {"create_checking", "create_recording", "create_viewing"}
    BY DEF CreateRow
  <2>2. s \in Calls => at[s] <= Len(Applies[s])
    BY <2>1 DEF PlaceInv, Ends
  <2>3. QED
    BY <2>2, CurrentBudget
<1>2. loaded[s].month \in 1 .. Months /\ loaded[s].month <= month
  BY DEF TypeOK, WhenInv
<1>3. tx' = Added(View(s), Current(s), loaded[s].month)
  BY DEF CreateRow, Write, Added
<1>4. lock \in {None, s} /\ lock' = s
  BY DEF CreateRow, Write
<1>5. loaded'[s].month = loaded[s].month /\ loaded' = [loaded EXCEPT ![s] = loaded'[s]]
  BY RowCreated
<1>6. QED
  BY <1>1, <1>2, <1>3, <1>4, <1>5

\* An allowed call never passes over a budget that is stopped when it bills it.
LEMMA NotSkipped ==
  ASSUME TypeOK, PlaceInv, ClearInv, NEW c \in Calls \ Approved, LoadRow(c)
  PROVE  pc' = [pc EXCEPT ![c] = "loaded"] /\ at' = at
<1>1. c \in Sessions /\ c \notin Viewers
  BY BudgetAssumption DEF Sessions
<1>2. pc[c] = "recording" /\ at[c] <= Len(Applies[c]) /\ at[c] \in Nat \ {0}
  BY DEF LoadRow, TypeOK
<1>3. Current(c) = Applies[c][at[c]]
  BY <1>1 DEF Current
<1>4. PICK row \in FoundRows(c) :
        IF View(c).usage[Current(c)][month][row].stopped
          THEN at' = [at EXCEPT ![c] = @ + 1] /\ UNCHANGED <<pc, loaded>>
          ELSE pc' = [pc EXCEPT ![c] = "loaded"] /\ at' = at
  BY DEF LoadRow
<1>5. Current(c) \notin Rolling /\ row \in DOMAIN View(c).usage[Current(c)][month]
  BY DEF FoundRows
<1>6. at[c] \in 1 .. Len(Applies[c]) /\ Cleared(c, at[c])
  <2>1. Applies[c] \in Seq(Budgets)
    BY BudgetAssumption
  <2>2. Len(Applies[c]) \in Nat
    BY <2>1, LenProperties
  <2>3. QED
    BY <1>2, <2>2 DEF Cleared, Billing
<1>7. ~View(c).usage[Current(c)][month][row].stopped
  BY <1>3, <1>5, <1>6 DEF ClearInv
<1>8. QED
  BY <1>4, <1>7

\* Calls, viewers and "nobody" are different.
LEMMA Names ==
  /\ \A c \in Calls : c \in Sessions /\ c \notin Viewers /\ c # None
  /\ \A v \in Viewers : v \in Sessions /\ v \notin Calls /\ v # None /\ v \notin Approved
  /\ Approved \subseteq Calls /\ None \notin Sessions
BY BudgetAssumption DEF Sessions

\* Where a call has nothing that is billed and not committed.
LEMMA NothingPending ==
  ASSUME NEW s, NEW b,
         s \notin Calls \/ pc[s] \notin Billing \/ (at[s] = 1)
  PROVE  Pending(s, b) = 0 /\ PendingNow(s, b) = 0
BY DEF Pending, PendingNow

\* AddUsage is what the accounts call a bill.
LEMMA UsageBills ==
  ASSUME TypeOK, WhenInv, NEW c \in Calls, AddUsage(c)
  PROVE  Bills(c)
<1> USE Names
<1>1. /\ pc \in [Sessions -> States]
      /\ loaded \in [Sessions -> [row : Nat, month : 1 .. Months, used : Nat]]
      /\ at \in [Calls -> Nat \ {0}] /\ sentIn \in [Calls -> 0 .. Months]
  BY DEF TypeOK, States
<1>2. loaded[c].month <= month /\ sentIn[c] <= month
  BY DEF WhenInv
<1>3. tx' = Billed(View(c), Current(c), loaded[c].month, loaded[c].row, loaded[c].used + Cost[c])
  BY DEF AddUsage, Write, Billed
<1>4. Alone(c)
  BY <1>1, <1>2 DEF AddUsage, Alone, Ends
<1>5. QED
  BY <1>1, <1>3, <1>4 DEF AddUsage, Write, Bills

\* Every action of a session is a step of its account.
LEMMA Accounts ==
  ASSUME TypeOK, PlaceInv, LoadedInv, WhenInv, ClearInv, [Next]_vars
  PROVE  (\E s \in Sessions : Acts(s) /\ Account(s)) \/ NextMonth \/ UNCHANGED vars
<1> USE Names
<1>0. /\ pc \in [Sessions -> States] /\ at \in [Calls -> Nat \ {0}]
      /\ loaded \in [Sessions -> [row : Nat, month : 1 .. Months, used : Nat]]
      /\ sentIn \in [Calls -> 0 .. Months] /\ month \in 1 .. Months
  BY DEF TypeOK, States
<1>00. /\ \A s \in Sessions : loaded[s].month <= month
       /\ \A c \in Calls : /\ sentIn[c] <= month
                           /\ pc[c] \in {"loaded", "create_recording"} => sentIn[c] <= loaded[c].month
                           /\ pc[c] = "idle" => at[c] = 1
  BY DEF WhenInv
<1>1. ASSUME NEW c \in Calls, Begin(c)
      PROVE  Works(c)
  <2>1. Alone(c) /\ db' = db /\ pc'[c] \notin Ends
    BY <1>0, <1>00, <1>1 DEF Begin, Alone, Ends
  <2>2. UNCHANGED <<tx, lock>> \/ (lock \in {None, c} /\ lock' = c /\ tx' = View(c))
    BY <1>1 DEF Begin, View
  <2>3. ASSUME NEW b \in Budgets
        PROVE  /\ Pending(c, b) = 0 /\ PendingNow(c, b) = 0
               /\ Pending(c, b)' = 0 /\ PendingNow(c, b)' = 0
    BY <1>0, <1>1 DEF Begin, Pending, PendingNow, Billing
  <2>4. QED
    BY <2>1, <2>2, <2>3 DEF Works
<1>2. ASSUME NEW c \in Calls, Check(c)
      PROVE  Works(c) \/ Quits(c)
  <2>1. CASE pc' = [pc EXCEPT ![c] = "blocked"] /\ RollbackTx(c) /\ at' = at
    BY <1>0, <1>00, <1>2, <2>1 DEF Check, Quits, Alone, Ends
  <2>2. CASE at' = [at EXCEPT ![c] = @ + 1] /\ UNCHANGED <<db, tx, lock, pc>>
    <3>1. Alone(c) /\ pc'[c] \notin Ends
      BY <1>0, <1>00, <1>2, <2>2 DEF Check, Alone, Ends
    <3>2. ASSUME NEW b \in Budgets
          PROVE  /\ Pending(c, b) = 0 /\ PendingNow(c, b) = 0
                 /\ Pending(c, b)' = 0 /\ PendingNow(c, b)' = 0
      BY <1>0, <1>2, <2>2 DEF Check, Pending, PendingNow, Billing
    <3>3. QED
      BY <2>2, <3>1, <3>2 DEF Works
  <2>3. QED
    BY <1>2, <2>1, <2>2 DEF Check
<1>3. ASSUME NEW c \in Calls, Forward(c)
      PROVE  Works(c)
  <2>1. Alone(c) /\ UNCHANGED <<db, tx, lock>> /\ pc'[c] \notin Ends
    BY <1>0, <1>00, <1>3 DEF Forward, Alone, Ends
  <2>2. ASSUME NEW b \in Budgets
        PROVE  /\ Pending(c, b) = 0 /\ PendingNow(c, b) = 0
               /\ Pending(c, b)' = 0 /\ PendingNow(c, b)' = 0
    <3>1. pc[c] = "checking" /\ (Cost[c] = 0 \/ at'[c] = 1)
      BY <1>0, <1>3 DEF Forward
    <3>2. Pending(c, b) = 0 /\ PendingNow(c, b) = 0
      BY <3>1 DEF Pending, PendingNow, Billing
    <3>3. Cost[c] = 0 \/ ~ \E k \in 1 .. Len(Applies[c]) : k < at'[c] /\ Applies[c][k] = b
      BY <3>1
    <3>4. QED
      BY <3>2, <3>3 DEF Pending, PendingNow
  <2>3. QED
    BY <2>1, <2>2 DEF Works
<1>4. ASSUME NEW c \in Calls, LoadRow(c)
      PROVE  Works(c)
  <2>1. UNCHANGED <<db, tx, lock, month, sentIn>> /\ pc[c] = "recording"
    BY <1>4 DEF LoadRow
  <2>2. PICK row \in FoundRows(c) :
          \/ at' = [at EXCEPT ![c] = @ + 1] /\ UNCHANGED <<pc, loaded>>
          \/ /\ loaded' = [loaded EXCEPT ![c] = [row |-> row, month |-> month,
                                    used |-> View(c).usage[Current(c)][month][row].used]]
             /\ pc' = [pc EXCEPT ![c] = "loaded"]
             /\ at' = at
    BY <1>4 DEF LoadRow
  <2>3. Alone(c) /\ pc'[c] \notin Ends
    BY <1>0, <1>00, <2>1, <2>2 DEF Alone, Ends
  <2>4. ASSUME c \notin Approved, NEW b \in Budgets
        PROVE  Pending(c, b)' = Pending(c, b) /\ PendingNow(c, b)' = PendingNow(c, b)
    <3>1. pc' = [pc EXCEPT ![c] = "loaded"] /\ at' = at
      BY <1>4, <2>4, NotSkipped
    <3>2. Pending(c, b)' = Pending(c, b)
      BY <1>0, <2>1, <3>1 DEF Pending, Billing
    <3>3. QED
      BY <2>1, <3>2 DEF PendingNow
  <2>5. QED
    BY <2>1, <2>3, <2>4 DEF Works
<1>5. ASSUME NEW c \in Calls, AddUsage(c)
      PROVE  Bills(c)
  BY <1>5, UsageBills
<1>6. ASSUME NEW c \in Calls, Complete(c)
      PROVE  Commits(c)
  BY <1>0, <1>00, <1>6 DEF Complete, Commits, Alone, Ends
<1>7. ASSUME NEW v \in Viewers, BeginView(v) \/ FindRow(v)
      PROVE  Works(v)
  <2>1. Alone(v) /\ UNCHANGED <<db, tx, lock>> /\ pc'[v] \notin Ends
    BY <1>0, <1>00, <1>7 DEF BeginView, FindRow, Alone, Ends
  <2>2. QED
    BY <2>1 DEF Works, Pending, PendingNow
<1>8. ASSUME NEW v \in Viewers, EndView(v)
      PROVE  Commits(v)
  BY <1>0, <1>00, <1>8 DEF EndView, Commits, Alone, Ends
<1>9. ASSUME NEW s \in Sessions, MissRow(s)
      PROVE  Works(s)
  <2>1. /\ UNCHANGED <<db, tx, lock, month, at, sentIn>>
        /\ loaded' = [loaded EXCEPT ![s] = [row |-> 0, month |-> month, used |-> 0]]
        /\ pc[s] \in Looking
        /\ pc' = [pc EXCEPT ![s] = CASE @ = "checking"  -> "create_checking"
                                     [] @ = "recording" -> "create_recording"
                                     [] @ = "viewing"   -> "create_viewing"]
    BY <1>9 DEF MissRow
  <2>2. \/ pc[s] = "checking" /\ pc'[s] = "create_checking"
        \/ pc[s] = "recording" /\ pc'[s] = "create_recording"
        \/ pc[s] = "viewing" /\ pc'[s] = "create_viewing"
    BY <1>0, <2>1 DEF Looking
  <2>3. Alone(s) /\ pc'[s] \notin Ends
    BY <1>0, <1>00, <2>1, <2>2 DEF Alone, Ends
  <2>4. ASSUME NEW b \in Budgets
        PROVE  Pending(s, b)' = Pending(s, b) /\ PendingNow(s, b)' = PendingNow(s, b)
    <3>1. pc'[s] \in Billing <=> pc[s] \in Billing
      BY <2>2 DEF Billing
    <3>2. Pending(s, b)' = Pending(s, b)
      BY <2>1, <3>1 DEF Pending
    <3>3. QED
      BY <2>1, <3>2 DEF PendingNow
  <2>5. QED
    BY <2>1, <2>3, <2>4 DEF Works
<1>10. ASSUME NEW s \in Sessions, CreateRow(s)
       PROVE  Works(s)
  <2>1. /\ UNCHANGED <<db, month, sentIn>>
        /\ at' = IF pc[s] = "create_checking" THEN [at EXCEPT ![s] = @ + 1] ELSE at
        /\ pc' = [pc EXCEPT ![s] = CASE @ = "create_checking"  -> "checking"
                                     [] @ = "create_recording" -> "loaded"
                                     [] @ = "create_viewing"   -> "viewed"]
        /\ pc[s] \in {"create_checking", "create_recording", "create_viewing"}
    BY <1>10 DEF CreateRow
  <2>2. \/ pc[s] = "create_checking" /\ pc'[s] = "checking"
        \/ pc[s] = "create_recording" /\ pc'[s] = "loaded" /\ at' = at
        \/ pc[s] = "create_viewing" /\ pc'[s] = "viewed" /\ at' = at
    BY <1>0, <2>1
  <2>3. /\ lock \in {None, s} /\ lock' = s
        /\ \E b \in Budgets, m \in 1 .. Months : m <= month /\ tx' = Added(View(s), b, m)
        /\ loaded'[s].month = loaded[s].month
        /\ loaded' = [loaded EXCEPT ![s] = loaded'[s]]
    BY <1>10, RowAdded
  <2>4. Alone(s) /\ pc'[s] \notin Ends
    BY <1>0, <1>00, <2>1, <2>2, <2>3 DEF Alone, Ends
  <2>5. ASSUME NEW b \in Budgets
        PROVE  Pending(s, b)' = Pending(s, b) /\ PendingNow(s, b)' = PendingNow(s, b)
    <3>1. CASE pc[s] = "create_recording"
      <4>1. Pending(s, b)' = Pending(s, b)
        BY <2>2, <3>1 DEF Pending, Billing
      <4>2. QED
        BY <2>1, <4>1 DEF PendingNow
    <3>2. CASE pc[s] # "create_recording"
      BY <2>2, <3>2 DEF Pending, PendingNow, Billing
    <3>3. QED
      BY <3>1, <3>2
  <2>6. QED
    BY <2>1, <2>3, <2>4, <2>5 DEF Works
<1>11. ASSUME NEW s \in Sessions, DuplicateRow(s) \/ Fail(s)
       PROVE  Quits(s)
  <2>1. /\ UNCHANGED <<month, at, loaded, sentIn>> /\ RollbackTx(s)
        /\ pc[s] \notin Ends
        /\ \/ pc' = [pc EXCEPT ![s] = "failed"]
           \/ pc' = [pc EXCEPT ![s] = "aborted"]
    BY <1>11 DEF DuplicateRow, Fail, Looking, Ends
  <2>2. Alone(s)
    BY <1>0, <1>00, <2>1 DEF Alone, Ends
  <2>3. QED
    BY <1>0, <2>1, <2>2 DEF Quits, Ends
<1>12. QED
  BY <1>1, <1>2, <1>3, <1>4, <1>5, <1>6, <1>7, <1>8, <1>9, <1>10, <1>11 DEF Next, Finished, Acts, Account

\* The calls that ran to their end.
Done == {c \in Calls : pc[c] = "done"}

\* A step other than a call's commit charges nobody.
LEMMA ChargedKept ==
  ASSUME NEW s \in Sessions, Alone(s), pc'[s] # "done" \/ s \in Viewers
  PROVE  /\ \A b : Charged(b)' = Charged(b)
         /\ \A b, m : Spenders(b, m)' = Spenders(b, m)
         /\ Done' = Done
<1> USE Names
<1>1. \A c \in Calls : (pc'[c] = "done") <=> (pc[c] = "done")
  BY DEF Alone, Ends
<1>2. \A c \in Calls : pc[c] = "done" => sentIn'[c] = sentIn[c]
  BY DEF Alone, Ends
<1>3. \A b : Charged(b)' = Charged(b)
  BY <1>1 DEF Charged
<1>4. \A b, m : Spenders(b, m)' = Spenders(b, m)
  <2> SUFFICES ASSUME NEW b, NEW m PROVE Spenders(b, m)' = Spenders(b, m)
    OBVIOUS
  <2>1. \A c \in Charged(b) : sentIn'[c] = sentIn[c]
    BY <1>2 DEF Charged
  <2>2. QED
    BY <1>3, <2>1 DEF Spenders
<1>5. QED
  BY <1>1, <1>3, <1>4 DEF Done

\* The commit of a call charges it to the budgets that apply to it.
LEMMA ChargedGrows ==
  ASSUME NEW c \in Calls, Alone(c), pc'[c] = "done", sentIn' = sentIn
  PROVE  /\ \A b : /\ Charged(b)' = IF Contains(Applies[c], b) THEN Charged(b) \cup {c} ELSE Charged(b)
                   /\ c \notin Charged(b)
         /\ \A b, m : Spenders(b, m)' = IF Contains(Applies[c], b) /\ sentIn[c] = m
                                        THEN Spenders(b, m) \cup {c} ELSE Spenders(b, m)
         /\ Done' = Done \cup {c}
<1> USE Names
<1>1. \A o \in Calls \ {c} : pc'[o] = pc[o]
  BY DEF Alone
<1>2. pc[c] # "done"
  BY DEF Alone, Ends
<1>3. \A b : /\ Charged(b)' = IF Contains(Applies[c], b) THEN Charged(b) \cup {c} ELSE Charged(b)
             /\ c \notin Charged(b)
  BY <1>1, <1>2 DEF Charged
<1>4. \A b, m : Spenders(b, m)' = IF Contains(Applies[c], b) /\ sentIn[c] = m
                                  THEN Spenders(b, m) \cup {c} ELSE Spenders(b, m)
  <2> SUFFICES ASSUME NEW b, NEW m
               PROVE  Spenders(b, m)' = IF Contains(Applies[c], b) /\ sentIn[c] = m
                                        THEN Spenders(b, m) \cup {c} ELSE Spenders(b, m)
    OBVIOUS
  <2>1. CASE Contains(Applies[c], b)
    BY <1>3, <2>1 DEF Spenders
  <2>2. CASE ~Contains(Applies[c], b)
    BY <1>3, <2>2 DEF Spenders
  <2>3. QED
    BY <2>1, <2>2
<1>5. QED
  BY <1>1, <1>2, <1>3, <1>4 DEF Done

\* The calls charged to a budget, and their cost.
LEMMA ChargedType ==
  ASSUME DoneInv
  PROVE  \A b, m : /\ Charged(b) \in SUBSET Calls /\ IsFiniteSet(Charged(b))
                   /\ Spenders(b, m) \in SUBSET Calls /\ IsFiniteSet(Spenders(b, m))
                   /\ Spent(Charged(b)) \in Nat /\ Spent(Spenders(b, m)) \in Nat
<1> SUFFICES ASSUME NEW b, NEW m
             PROVE  /\ Charged(b) \in SUBSET Calls /\ IsFiniteSet(Charged(b))
                    /\ Spenders(b, m) \in SUBSET Calls /\ IsFiniteSet(Spenders(b, m))
                    /\ Spent(Charged(b)) \in Nat /\ Spent(Spenders(b, m)) \in Nat
  OBVIOUS
<1>1. IsFiniteSet(Done)
  BY DEF DoneInv, Done
<1>2. Charged(b) \in SUBSET Done /\ Spenders(b, m) \in SUBSET Done /\ Done \in SUBSET Calls
  BY DEF Charged, Spenders, Done
<1>3. IsFiniteSet(Charged(b)) /\ IsFiniteSet(Spenders(b, m))
  BY <1>1, <1>2, FS_Subset
<1>4. QED
  BY <1>2, <1>3, SpentGrows

\* Serial has always been, as long as it is.
LEMMA SerialSince ==
  ASSUME NEW s \in Sessions, Alone(s), Serial'
  PROVE  Serial /\ ~(s \in Approved /\ pc'[s] = "done")
BY Names DEF Serial, Alone, Ends

\* A step ends one call at most.
LEMMA DoneNext ==
  ASSUME TypeOK, PlaceInv, LoadedInv, WhenInv, ClearInv, DoneInv, [Next]_vars
  PROVE  DoneInv'
<1>1. CASE UNCHANGED vars \/ NextMonth
  BY <1>1 DEF DoneInv, vars, NextMonth
<1>2. ASSUME NEW s \in Sessions, Account(s)
      PROVE  DoneInv'
  <2>1. Alone(s) /\ (pc'[s] = "done" => sentIn' = sentIn)
    BY <1>2 DEF Account, Works, Quits, Commits, Bills, Ends
  <2>2. Done' = Done \/ (s \in Calls /\ Done' = Done \cup {s})
    BY <2>1, ChargedKept, ChargedGrows DEF Sessions
  <2>3. IsFiniteSet(Done) => IsFiniteSet(Done \cup {s})
    BY FS_AddElement
  <2>4. QED
    BY <2>2, <2>3 DEF DoneInv, Done
<1>3. QED
  BY <1>1, <1>2, Accounts

\* Rows are written for the present month or an earlier one.
LEMMA WhenNext ==
  ASSUME TypeOK, PlaceInv, LockInv, LoadedInv, WhenInv, ClearInv, [Next]_vars
  PROVE  WhenInv'
<1>0. /\ loaded \in [Sessions -> [row : Nat, month : 1 .. Months, used : Nat]]
      /\ sentIn \in [Calls -> 0 .. Months] /\ month \in 1 .. Months /\ db \in Tables /\ tx \in Tables
  BY DEF TypeOK
<1>1. CASE UNCHANGED vars
  BY <1>1 DEF vars, WhenInv, Unused
<1>2. CASE NextMonth
  <2>1. month' = month + 1 /\ UNCHANGED <<db, tx, lock, pc, at, loaded, sentIn>>
    BY <1>2 DEF NextMonth
  <2>2. \A s \in Sessions : loaded[s].month <= month + 1
    BY <1>0 DEF WhenInv
  <2>3. \A c \in Calls : sentIn[c] <= month + 1
    BY <1>0 DEF WhenInv
  <2>4. \A m \in 1 .. Months : m > month + 1 => m > month
    BY <1>0
  <2>5. Unused(db)' /\ (lock # None => Unused(tx)')
    BY <2>1, <2>4 DEF WhenInv, Unused
  <2>6. QED
    BY <2>1, <2>2, <2>3, <2>5 DEF WhenInv
<1>3. ASSUME NEW s \in Sessions, Account(s)
      PROVE  WhenInv'
  <2>1. Alone(s)
    BY <1>3 DEF Account, Works, Quits, Commits, Bills
  <2>2. \A o \in Sessions : loaded'[o].month <= month'
    BY <2>1 DEF Alone, WhenInv
  <2>3. \A c \in Calls : /\ sentIn'[c] <= month'
                         /\ pc'[c] \in {"loaded", "create_recording"} => sentIn'[c] <= loaded'[c].month
                         /\ pc'[c] = "idle" => at'[c] = 1
    BY <2>1, Names DEF Alone, WhenInv
  <2>4. Unused(View(s)) /\ View(s) \in Tables /\ s # None
    BY <1>0, Names DEF View, WhenInv
  <2>5. Unused(db)' /\ (lock' # None => Unused(tx)')
    <3>1. month' = month
      BY <2>1 DEF Alone
    <3>2. CASE Works(s)
      <4>1. ASSUME NEW b \in Budgets, NEW m \in 1 .. Months, m <= month, tx' = Added(View(s), b, m)
            PROVE  Unused(tx)'
        <5> SUFFICES ASSUME NEW c \in Budgets, NEW k \in 1 .. Months, k > month
                     PROVE  DOMAIN Added(View(s), b, m).usage[c][k] = {}
          BY <3>1, <4>1 DEF Unused
        <5>1. k # m
          BY <1>0, <4>1
        <5>2. View(s).usage \in [Budgets -> [1 .. Months -> Seq(UsageRows)]]
          BY <2>4 DEF Tables
        <5>3. Added(View(s), b, m).usage = [View(s).usage EXCEPT ![b] = [View(s).usage[b] EXCEPT ![m] = Append(@, NewRow)]]
          BY <2>4 DEF Added, Tables
        <5>4. Added(View(s), b, m).usage[c][k] = View(s).usage[c][k]
          BY <5>1, <5>2, <5>3
        <5>5. QED
          BY <2>4, <5>4 DEF Unused
      <4>2. tx' = View(s) => Unused(tx)'
        BY <2>4, <3>1 DEF Unused
      <4>3. UNCHANGED <<tx, lock>> => (lock' # None => Unused(tx)')
        BY <3>1 DEF Unused, WhenInv
      <4>4. Unused(db)'
        BY <3>1, <3>2 DEF Works, Unused, WhenInv
      <4>5. QED
        BY <3>2, <4>1, <4>2, <4>3, <4>4 DEF Works
    <3>3. CASE Quits(s)
      BY <3>1, <3>3 DEF Quits, RollbackTx, Unused, WhenInv
    <3>4. CASE Commits(s)
      <4>1. db' = View(s) /\ tx' = tx /\ (lock' # None => lock # None)
        BY <3>4 DEF Commits, CommitTx
      <4>2. QED
        BY <2>4, <3>1, <4>1 DEF Unused, WhenInv
    <3>5. CASE s \in Calls /\ Bills(s)
      <4>1. Current(s) \in Budgets
        BY <3>5, CurrentBudget DEF Bills, PlaceInv
      <4>2. loaded[s].month \in 1 .. Months /\ loaded[s].month <= month
            /\ loaded[s].used + Cost[s] \in Nat
        BY <1>0, <3>5, BudgetAssumption DEF WhenInv
      <4>3. loaded[s].row \in DOMAIN View(s).usage[Current(s)][loaded[s].month]
        BY <3>5 DEF Bills, LoadedInv, LoadedRows
      <4>4. \A c \in Budgets, k \in 1 .. Months : DOMAIN tx'.usage[c][k] = DOMAIN View(s).usage[c][k]
        <5>1. PICK bb \in Budgets : bb = Current(s)
          BY <4>1
        <5>2. PICK mm \in 1 .. Months : mm = loaded[s].month
          BY <4>2
        <5>3. PICK ii \in DOMAIN View(s).usage[bb][mm] : ii = loaded[s].row
          BY <4>3, <5>1, <5>2
        <5>4. PICK uu \in Nat : uu = loaded[s].used + Cost[s]
          BY <4>2
        <5>5. tx' = Billed(View(s), bb, mm, ii, uu)
          BY <3>5, <5>1, <5>2, <5>3, <5>4 DEF Bills
        <5>6. \A c \in Budgets, k \in 1 .. Months :
                DOMAIN Billed(View(s), bb, mm, ii, uu).usage[c][k] = DOMAIN View(s).usage[c][k]
          BY <2>4, BilledRows
        <5>7. QED
          BY <5>5, <5>6
      <4>5. Unused(tx)' /\ Unused(db)'
        BY <2>4, <3>1, <3>5, <4>4 DEF Unused, WhenInv, Bills
      <4>6. QED
        BY <4>5
    <3>6. QED
      BY <1>3, <3>2, <3>3, <3>4, <3>5 DEF Account
  <2>6. QED
    BY <2>2, <2>3, <2>5 DEF WhenInv
<1>4. QED
  BY <1>1, <1>2, <1>3, Accounts

\* The budgets of a call are different, and it works on one of them.
LEMMA PlaceOfCall ==
  ASSUME TypeOK, NEW c \in Calls
  PROVE  /\ Len(Applies[c]) \in Nat /\ at[c] \in Nat \ {0}
         /\ \A k \in 1 .. Len(Applies[c]) : Applies[c][k] \in Budgets
         /\ \A j, k \in 1 .. Len(Applies[c]) : Applies[c][j] = Applies[c][k] => j = k
         /\ \A b : Contains(Applies[c], b) <=> \E k \in 1 .. Len(Applies[c]) : Applies[c][k] = b
         /\ Current(c) = Applies[c][at[c]]
         /\ Cost[c] \in Nat
<1>1. Applies[c] \in Seq(Budgets) /\ IsInjective(Applies[c]) /\ Cost[c] \in Nat
  BY BudgetAssumption
<1>2. Len(Applies[c]) \in Nat /\ DOMAIN Applies[c] = 1 .. Len(Applies[c])
  BY <1>1, LenProperties
<1>3. \A k \in 1 .. Len(Applies[c]) : Applies[c][k] \in Budgets
  BY <1>1, <1>2, ElementOfSeq
<1>4. \A j, k \in 1 .. Len(Applies[c]) : Applies[c][j] = Applies[c][k] => j = k
  BY <1>1, <1>2 DEF IsInjective
<1>5. \A b : Contains(Applies[c], b) <=> \E k \in 1 .. Len(Applies[c]) : Applies[c][k] = b
  BY DEF Contains
<1>6. Current(c) = Applies[c][at[c]] /\ at[c] \in Nat \ {0}
  BY Names DEF Current, TypeOK
<1>7. QED
  BY <1>1, <1>2, <1>3, <1>4, <1>5, <1>6

\* A call that comes to its end has billed all its budgets.
LEMMA AllPending ==
  ASSUME TypeOK, NEW c \in Calls, pc[c] = "recording", at[c] > Len(Applies[c]), NEW b
  PROVE  /\ Contains(Applies[c], b) => Pending(c, b) = Cost[c]
         /\ Contains(Applies[c], b) /\ sentIn[c] = month => PendingNow(c, b) = Cost[c]
<1>1. Len(Applies[c]) \in Nat /\ at[c] \in Nat \ {0}
  BY PlaceOfCall
<1>2. ASSUME Contains(Applies[c], b)
      PROVE  Pending(c, b) = Cost[c]
  <2>1. PICK k \in 1 .. Len(Applies[c]) : Applies[c][k] = b
    BY <1>2, PlaceOfCall
  <2>2. k < at[c]
    BY <1>1
  <2>3. QED
    BY <2>1, <2>2 DEF Pending, Billing
<1>3. QED
  BY <1>2 DEF PendingNow

\* What is billed and not committed is a call's cost or nothing.
LEMMA PendingType ==
  ASSUME NEW s, NEW b
  PROVE  /\ Pending(s, b) \in Nat /\ PendingNow(s, b) \in Nat
         /\ Pending(s, b) = 0 => PendingNow(s, b) = 0
         /\ s \in Calls /\ PendingNow(s, b) # 0 => PendingNow(s, b) = Cost[s] /\ sentIn[s] = month
         /\ s \in Calls /\ sentIn[s] # month => PendingNow(s, b) = 0
<1>1. \A c \in Calls : Cost[c] \in Nat
  BY BudgetAssumption
<1>2. QED
  BY <1>1 DEF Pending, PendingNow

\* Without the lock there is nothing of an allowed call's, or of a viewer's.
LEMMA NothingWithoutLock ==
  ASSUME LockInv, NEW s \in Sessions \ Approved, lock # s, NEW b
  PROVE  Pending(s, b) = 0 /\ PendingNow(s, b) = 0
<1>1. s \in Calls => pc[s] \in Ends \cup {"idle"}
  BY DEF LockInv
<1>2. s \in Calls => pc[s] \notin Billing
  BY <1>1 DEF Billing, Ends
<1>3. QED
  BY <1>2, NothingPending

\* A bill of an allowed call goes to the budget it works on, and only there.
LEMMA BillCounts ==
  ASSUME TypeOK, PlaceInv, LockInv, LoadedInv, WhenInv, NEW c \in Calls \ Approved, Bills(c)
  PROVE  /\ lock = c /\ lock' = c /\ db' = db /\ month' = month /\ loaded[c].month \in 1 .. Months
         /\ \A b \in Budgets, m \in 1 .. Months :
              UsedIn(tx', b, m) = IF b = Current(c) /\ m = loaded[c].month
                                    THEN UsedIn(tx, b, m) + Cost[c] ELSE UsedIn(tx, b, m)
         /\ \A b \in Budgets :
              TotalUsed(tx', b) = IF b = Current(c) THEN TotalUsed(tx, b) + Cost[c] ELSE TotalUsed(tx, b)
         /\ \A b : /\ b = Current(c) => Pending(c, b) = 0 /\ Pending(c, b)' = Cost[c]
                   /\ b # Current(c) => Pending(c, b)' = Pending(c, b)
<1>1. pc[c] = "loaded" /\ pc'[c] = "recording" /\ at' = [at EXCEPT ![c] = @ + 1]
      /\ sentIn' = sentIn /\ lock' = c /\ db' = db /\ month' = month
  BY DEF Bills, Alone
<1>2. lock = c
  BY <1>1 DEF LockInv, Ends
<1>3. Current(c) \in Budgets /\ at[c] <= Len(Applies[c])
  BY <1>1, Names, CurrentBudget DEF PlaceInv
<1>4. loaded[c].month \in 1 .. Months /\ loaded[c].used \in Nat /\ Cost[c] \in Nat
      /\ loaded[c].used + Cost[c] \in Nat
  BY Names, BudgetAssumption DEF TypeOK
<1>5. View(c) = tx /\ tx \in Tables
  BY <1>2 DEF View, TypeOK
<1>6. /\ loaded[c].row \in DOMAIN tx.usage[Current(c)][loaded[c].month]
      /\ tx.usage[Current(c)][loaded[c].month][loaded[c].row].used = loaded[c].used
  BY <1>1, <1>5 DEF LoadedInv, LoadedRows
<1>7. tx' = Billed(tx, Current(c), loaded[c].month, loaded[c].row, loaded[c].used + Cost[c])
  BY <1>5 DEF Bills
<1>8. /\ \A b \in Budgets, m \in 1 .. Months :
           UsedIn(tx', b, m) = IF b = Current(c) /\ m = loaded[c].month
                                 THEN UsedIn(tx, b, m) + Cost[c] ELSE UsedIn(tx, b, m)
      /\ \A b \in Budgets :
           TotalUsed(tx', b) = IF b = Current(c) THEN TotalUsed(tx, b) + Cost[c] ELSE TotalUsed(tx, b)
  <2>1. PICK bb \in Budgets : bb = Current(c)
    BY <1>3
  <2>2. PICK mm \in 1 .. Months : mm = loaded[c].month
    BY <1>4
  <2>3. PICK ii \in DOMAIN tx.usage[bb][mm] : ii = loaded[c].row
    BY <1>6, <2>1, <2>2
  <2>4. PICK uu \in Nat : uu = loaded[c].used + Cost[c]
    BY <1>4
  <2>5. uu = tx.usage[bb][mm][ii].used + Cost[c]
    BY <1>6, <2>1, <2>2, <2>3, <2>4
  <2>6. tx' = Billed(tx, bb, mm, ii, uu)
    BY <1>7, <2>1, <2>2, <2>3, <2>4
  <2>7. /\ \A b \in Budgets, m \in 1 .. Months :
             UsedIn(tx', b, m) = IF b = bb /\ m = mm THEN UsedIn(tx, b, m) + Cost[c] ELSE UsedIn(tx, b, m)
        /\ \A b \in Budgets :
             TotalUsed(tx', b) = IF b = bb THEN TotalUsed(tx, b) + Cost[c] ELSE TotalUsed(tx, b)
    <3>1. tx \in Tables /\ Cost[c] \in Nat
      BY <1>4, <1>5
    <3>2. \A b \in Budgets, m \in 1 .. Months :
            UsedIn(Billed(tx, bb, mm, ii, uu), b, m) =
              IF b = bb /\ m = mm THEN UsedIn(tx, b, m) + Cost[c] ELSE UsedIn(tx, b, m)
      BY <2>5, <3>1, BilledUsed
    <3>3. \A b \in Budgets :
            TotalUsed(Billed(tx, bb, mm, ii, uu), b) =
              IF b = bb THEN TotalUsed(tx, b) + Cost[c] ELSE TotalUsed(tx, b)
      BY <2>5, <3>1, BilledUsed
    <3>4. QED
      BY <2>6, <3>2, <3>3
  <2>8. QED
    BY <2>1, <2>2, <2>7
<1>9. ASSUME NEW b
      PROVE  /\ b = Current(c) => Pending(c, b) = 0 /\ Pending(c, b)' = Cost[c]
             /\ b # Current(c) => Pending(c, b)' = Pending(c, b)
  <2>1. /\ Len(Applies[c]) \in Nat /\ at[c] \in Nat \ {0} /\ at'[c] = at[c] + 1
        /\ \A j, k \in 1 .. Len(Applies[c]) : Applies[c][j] = Applies[c][k] => j = k
        /\ Current(c) = Applies[c][at[c]]
    BY <1>1, PlaceOfCall DEF TypeOK
  <2>2. at[c] \in 1 .. Len(Applies[c])
    BY <1>3, <2>1
  <2>3. CASE b = Current(c)
    <3>1. ~ \E k \in 1 .. Len(Applies[c]) : k < at[c] /\ Applies[c][k] = b
      BY <2>1, <2>2, <2>3
    <3>2. Pending(c, b) = 0
      BY <3>1 DEF Pending
    <3>3. \E k \in 1 .. Len(Applies[c]) : k < at'[c] /\ Applies[c][k] = b
      BY <2>1, <2>2, <2>3
    <3>4. Pending(c, b)' = Cost[c]
      BY <1>1, <3>3 DEF Pending, Billing
    <3>5. QED
      BY <2>3, <3>2, <3>4
  <2>4. CASE b # Current(c)
    <3>1. (\E k \in 1 .. Len(Applies[c]) : k < at'[c] /\ Applies[c][k] = b)
            <=> \E k \in 1 .. Len(Applies[c]) : k < at[c] /\ Applies[c][k] = b
      BY <2>1, <2>2, <2>4
    <3>2. QED
      BY <1>1, <2>4, <3>1 DEF Pending, Billing
  <2>5. QED
    BY <2>3, <2>4
<1>10. QED
  BY <1>1, <1>2, <1>4, <1>8, <1>9

\* No cost is lost or counted twice.
LEMMA ExactNext ==
  ASSUME TypeOK, PlaceInv, LockInv, LoadedInv, WhenInv, ClearInv, DoneInv, ExactInv, [Next]_vars
  PROVE  ExactInv'
<1> USE Names
<1>0. db \in Tables /\ tx \in Tables /\ month \in 1 .. Months
  BY DEF TypeOK
<1>1. CASE UNCHANGED vars \/ NextMonth
  <2>1. /\ UNCHANGED <<db, tx, lock, pc, at>>
    BY <1>1 DEF vars, NextMonth
  <2>2. /\ \A b : Charged(b)' = Charged(b) /\ (Serial' <=> Serial)
        /\ \A s, b : Pending(s, b)' = Pending(s, b)
    BY <2>1 DEF Charged, Serial, Pending
  <2>3. QED
    BY <2>1, <2>2 DEF ExactInv
<1>2. ASSUME NEW s \in Sessions, Account(s), Serial', NEW b \in Budgets
      PROVE  /\ TotalUsed(db', b) = Spent(Charged(b)')
             /\ \A o \in Sessions \ Approved : lock' = o =>
                  TotalUsed(tx', b) = Spent(Charged(b)') + Pending(o, b)'
  <2>1. Alone(s)
    BY <1>2 DEF Account, Works, Quits, Commits, Bills
  <2>2. Serial /\ ~(s \in Approved /\ pc'[s] = "done")
    BY <1>2, <2>1, SerialSince
  <2>3. /\ TotalUsed(db, b) = Spent(Charged(b))
        /\ \A o \in Sessions \ Approved : lock = o =>
             TotalUsed(tx, b) = Spent(Charged(b)) + Pending(o, b)
    BY <2>2 DEF ExactInv
  <2>4. ASSUME s \notin Approved
        PROVE  TotalUsed(View(s), b) = Spent(Charged(b)) + Pending(s, b)
    <3>1. CASE lock = s
      BY <2>3, <2>4, <3>1 DEF View
    <3>2. CASE lock # s
      <4>1. Pending(s, b) = 0 /\ View(s) = db
        BY <2>4, <3>2, NothingWithoutLock DEF View
      <4>2. Spent(Charged(b)) \in Nat
        BY ChargedType
      <4>3. QED
        BY <2>3, <4>1, <4>2
    <3>3. QED
      BY <3>1, <3>2
  <2>5. ASSUME NEW o \in Sessions \ {s}
        PROVE  Pending(o, b)' = Pending(o, b)
    BY <2>1 DEF Alone, Pending
  <2>6. CASE Works(s)
    <3>1. Charged(b)' = Charged(b) /\ db' = db
      BY <2>1, <2>6, ChargedKept DEF Works, Ends
    <3>2. CASE UNCHANGED <<tx, lock>>
      <4>1. \A o \in Sessions \ Approved : Pending(o, b)' = Pending(o, b)
        BY <2>5, <2>6 DEF Works
      <4>2. QED
        BY <2>3, <3>1, <3>2, <4>1
    <3>3. CASE lock' = s /\ TotalUsed(tx', b) = TotalUsed(View(s), b)
      <4>1. s \notin Approved => Pending(s, b)' = Pending(s, b)
        BY <2>6 DEF Works
      <4>2. QED
        BY <2>3, <2>4, <3>1, <3>3, <4>1
    <3>4. View(s) \in Tables
      BY <1>0 DEF View
    <3>5. \A a \in Budgets, m \in 1 .. Months : TotalUsed(Added(View(s), a, m), b) = TotalUsed(View(s), b)
      BY <3>4, AddedUsed
    <3>6. UNCHANGED <<tx, lock>> \/ (lock' = s /\ TotalUsed(tx', b) = TotalUsed(View(s), b))
      BY <2>6, <3>5 DEF Works
    <3>7. QED
      BY <3>2, <3>3, <3>6
  <2>7. CASE Quits(s)
    <3>1. Charged(b)' = Charged(b)
      BY <2>1, <2>7, ChargedKept DEF Quits
    <3>2. db' = db /\ tx' = tx /\ (lock' # None => lock' = lock /\ lock # s)
      BY <2>7 DEF Quits, RollbackTx
    <3>3. QED
      BY <2>3, <2>5, <3>1, <3>2
  <2>8. CASE Commits(s)
    <3>1. s \notin Approved /\ sentIn' = sentIn /\ pc'[s] = "done"
      BY <2>2, <2>8 DEF Commits
    <3>2. db' = View(s) /\ tx' = tx /\ (lock' # None => lock' = lock /\ lock # s)
      BY <2>8 DEF Commits, CommitTx
    <3>3. CASE s \in Viewers
      <4>1. Charged(b)' = Charged(b)
        BY <2>1, <3>3, ChargedKept
      <4>2. Pending(s, b) = 0 /\ Spent(Charged(b)) \in Nat
        BY <3>3, NothingPending, ChargedType
      <4>3. TotalUsed(db', b) = Spent(Charged(b))
        BY <2>4, <3>1, <3>2, <4>2
      <4>4. QED
        BY <2>3, <2>5, <3>2, <4>1, <4>3
    <3>4. CASE s \in Calls
      <4>1. pc[s] = "recording" /\ at[s] > Len(Applies[s])
        BY <2>8, <3>4 DEF Commits
      <4>2. lock = s
        BY <3>1, <3>4, <4>1 DEF LockInv, Ends
      <4>3. lock' = None
        BY <3>2, <4>2
      <4>4. TotalUsed(db', b) = Spent(Charged(b)) + Pending(s, b)
        BY <2>4, <3>1, <3>2
      <4>5. /\ Charged(b)' = IF Contains(Applies[s], b) THEN Charged(b) \cup {s} ELSE Charged(b)
            /\ s \notin Charged(b)
        BY <2>1, <3>1, <3>4, ChargedGrows
      <4>6. Charged(b) \in SUBSET Calls /\ IsFiniteSet(Charged(b)) /\ Spent(Charged(b)) \in Nat
        BY ChargedType
      <4>7. CASE Contains(Applies[s], b)
        <5>1. Pending(s, b) = Cost[s]
          BY <3>4, <4>1, <4>7, AllPending
        <5>2. Spent(Charged(b) \cup {s}) = Spent(Charged(b)) + Cost[s]
          BY <3>4, <4>5, <4>6, SpentGrows
        <5>3. QED
          BY <4>3, <4>4, <4>5, <4>7, <5>1, <5>2
      <4>8. CASE ~Contains(Applies[s], b)
        <5>1. Pending(s, b) = 0
          BY <3>4, <4>8, PlaceOfCall DEF Pending
        <5>2. QED
          BY <4>3, <4>4, <4>5, <4>6, <4>8, <5>1
      <4>9. QED
        BY <4>7, <4>8
    <3>5. QED
      BY <3>3, <3>4 DEF Sessions
  <2>9. CASE s \in Calls /\ Bills(s)
    <3>1. Charged(b)' = Charged(b)
      BY <2>1, <2>9, ChargedKept DEF Bills
    <3>2. db' = db /\ lock' = s
      BY <2>9 DEF Bills
    <3>3. ASSUME s \notin Approved
          PROVE  TotalUsed(tx', b) = Spent(Charged(b)) + Pending(s, b)'
      <4>1. /\ lock = s
            /\ TotalUsed(tx', b) = IF b = Current(s) THEN TotalUsed(tx, b) + Cost[s] ELSE TotalUsed(tx, b)
            /\ b = Current(s) => Pending(s, b) = 0 /\ Pending(s, b)' = Cost[s]
            /\ b # Current(s) => Pending(s, b)' = Pending(s, b)
        BY <2>9, <3>3, BillCounts
      <4>2. TotalUsed(tx, b) = Spent(Charged(b)) + Pending(s, b)
        BY <2>4, <3>3, <4>1 DEF View
      <4>3. Spent(Charged(b)) \in Nat /\ Cost[s] \in Nat
        BY <2>9, ChargedType, BudgetAssumption
      <4>4. QED
        BY <4>1, <4>2, <4>3
    <3>4. QED
      BY <2>3, <3>1, <3>2, <3>3
  <2>10. QED
    BY <1>2, <2>6, <2>7, <2>8, <2>9 DEF Account
<1>3. ASSUME NEW s \in Sessions, Account(s)
      PROVE  ExactInv'
  BY <1>2, <1>3 DEF ExactInv
<1>4. QED
  BY <1>1, <1>3, Accounts

\* Another session's step leaves an allowed call that works what it sees.
LEMMA OthersWork ==
  ASSUME TypeOK, PlaceInv, LockInv, NEW s \in Sessions, Account(s),
         NEW c \in Calls \ Approved, c # s, pc'[c] \notin Ends \cup {"idle"}
  PROVE  /\ lock = c /\ lock' = c /\ View(c)' = View(c) /\ month' = month
         /\ pc'[c] = pc[c] /\ at'[c] = at[c] /\ sentIn'[c] = sentIn[c]
<1> USE Names
<1>1. Alone(s)
  BY DEF Account, Works, Quits, Commits, Bills
<1>2. pc'[c] = pc[c] /\ at'[c] = at[c] /\ sentIn'[c] = sentIn[c] /\ month' = month
  BY <1>1 DEF Alone
<1>3. lock = c
  BY <1>2 DEF LockInv
<1>4. s # None /\ c # None
  OBVIOUS
<1>5. tx' = tx /\ lock' = c
  BY <1>3, <1>4 DEF Account, Works, Quits, Commits, Bills, RollbackTx, CommitTx
<1>6. QED
  BY <1>2, <1>3, <1>5 DEF View

\* What FoundRows says of a budget that is not rolling.
LEMMA RowsFound ==
  ASSUME TypeOK, NEW c \in Calls, Applies[c][at[c]] \notin Rolling
  PROVE  FoundRows(c) = DOMAIN View(c).usage[Applies[c][at[c]]][month]
BY Names DEF FoundRows, Current

\* An allowed call gets on from budget to budget.
LEMMA Progresses ==
  ASSUME TypeOK, PlaceInv, LockInv, WhenInv, ClearInv, NEW c \in Calls \ Approved, Acts(c), Account(c)
  PROVE  Progress(c)
<1> USE Names
<1>0. /\ pc \in [Sessions -> States] /\ at \in [Calls -> Nat \ {0}]
      /\ loaded \in [Sessions -> [row : Nat, month : 1 .. Months, used : Nat]]
      /\ sentIn \in [Calls -> 0 .. Months] /\ month \in 1 .. Months
  BY DEF TypeOK, States
<1>1. pc[c] \notin Ends \cup {"idle"} => lock = c /\ View(c) = tx
  BY DEF LockInv, View
<1>2. Current(c) = Applies[c][at[c]]
  BY DEF Current
<1>3. CASE Begin(c)
  BY <1>0, <1>3 DEF Begin, Progress, WhenInv
<1>4. CASE Check(c)
  <2>1. pc[c] = "checking" /\ at[c] <= Len(Applies[c]) /\ sentIn' = sentIn
    BY <1>4 DEF Check
  <2>2. View(c) = tx /\ lock = c
    BY <1>1, <2>1 DEF Ends
  <2>3. CASE pc' = [pc EXCEPT ![c] = "blocked"]
    BY <1>0, <2>1, <2>3 DEF Progress, Ends
  <2>4. CASE pc' # [pc EXCEPT ![c] = "blocked"]
    <3>1. PICK row : /\ FoundRows(c) = {row}
                     /\ ~tx.usage[Applies[c][at[c]]][month][row].stopped
                     /\ at' = [at EXCEPT ![c] = @ + 1] /\ UNCHANGED <<db, tx, lock, pc>>
      BY <1>2, <1>4, <2>2, <2>4 DEF Check
    <3>2. QED
      BY <1>0, <2>1, <2>2, <3>1 DEF Progress
  <2>5. QED
    BY <2>3, <2>4
<1>5. CASE Forward(c)
  <2>1. lock = c
    BY <1>1, <1>5 DEF Forward, Ends
  <2>2. QED
    BY <1>0, <1>5, <2>1 DEF Forward, Progress
<1>6. CASE LoadRow(c)
  <2>1. pc' = [pc EXCEPT ![c] = "loaded"] /\ at' = at
    BY <1>6, NotSkipped
  <2>2. pc[c] = "recording" /\ UNCHANGED <<db, tx, lock, sentIn>>
    BY <1>6 DEF LoadRow
  <2>3. lock = c
    BY <1>1, <2>2 DEF Ends
  <2>4. QED
    BY <1>0, <2>1, <2>2, <2>3 DEF Progress, Billing
<1>7. CASE AddUsage(c)
  <2>1. pc[c] = "loaded" /\ pc'[c] = "recording" /\ sentIn' = sentIn
    BY <1>0, <1>7 DEF AddUsage
  <2>2. Bills(c)
    BY <1>7, UsageBills
  <2>3. QED
    BY <2>1, <2>2 DEF Progress
<1>8. CASE Complete(c)
  BY <1>0, <1>8 DEF Complete, Progress, Ends
<1>9. CASE MissRow(c)
  <2>1. /\ UNCHANGED <<db, tx, lock, month, at, sentIn>> /\ FoundRows(c) = {}
        /\ pc[c] \in Looking /\ at[c] <= Len(Applies[c])
        /\ pc' = [pc EXCEPT ![c] = CASE @ = "checking"  -> "create_checking"
                                     [] @ = "recording" -> "create_recording"
                                     [] @ = "viewing"   -> "create_viewing"]
    BY <1>9 DEF MissRow
  <2>2. \/ pc[c] = "checking" /\ pc'[c] = "create_checking"
        \/ pc[c] = "recording" /\ pc'[c] = "create_recording"
    BY <1>0, <2>1 DEF Looking, PlaceInv, Ends
  <2>3. lock = c
    BY <1>1, <2>2 DEF Ends
  <2>4. QED
    BY <2>1, <2>2, <2>3 DEF Progress, Billing
<1>10. CASE CreateRow(c)
  <2>1. /\ UNCHANGED <<db, month, sentIn>>
        /\ at' = IF pc[c] = "create_checking" THEN [at EXCEPT ![c] = @ + 1] ELSE at
        /\ pc' = [pc EXCEPT ![c] = CASE @ = "create_checking"  -> "checking"
                                     [] @ = "create_recording" -> "loaded"
                                     [] @ = "create_viewing"   -> "viewed"]
        /\ pc[c] \in {"create_checking", "create_recording", "create_viewing"}
    BY <1>10 DEF CreateRow
  <2>2. \/ pc[c] = "create_checking" /\ pc'[c] = "checking" /\ at'[c] = at[c] + 1
        \/ pc[c] = "create_recording" /\ pc'[c] = "loaded" /\ at' = at
    BY <1>0, <2>1 DEF PlaceInv, Ends
  <2>3. lock = c /\ View(c) = tx
    BY <1>1, <2>2 DEF Ends
  <2>4. lock' = c /\ \E b \in Budgets, m \in 1 .. Months : tx' = Added(tx, b, m)
    BY <1>10, <2>3, RowAdded
  <2>5. QED
    BY <2>1, <2>2, <2>3, <2>4 DEF Progress, Billing
<1>11. CASE DuplicateRow(c) \/ Fail(c)
  BY <1>0, <1>11 DEF DuplicateRow, Fail, Progress, Ends
<1>12. QED
  BY <1>3, <1>4, <1>5, <1>6, <1>7, <1>8, <1>9, <1>10, <1>11 DEF Acts

\* A row of an added table that is stopped was there before.
LEMMA AddedStops ==
  ASSUME NEW d \in Tables, NEW b \in Budgets, NEW m \in 1 .. Months
  PROVE  \A c \in Budgets, k \in 1 .. Months : \A i \in DOMAIN Added(d, b, m).usage[c][k] :
           Added(d, b, m).usage[c][k][i].stopped =>
             i \in DOMAIN d.usage[c][k] /\ d.usage[c][k][i].stopped
<1> DEFINE e == Added(d, b, m)
<1>0. AddsRow(d, e, b, m)
  BY AddedRows
<1> HIDE DEF e
<1>1. \A x \in Budgets, n \in 1 .. Months : \A j \in DOMAIN d.usage[x][n] :
        j \in DOMAIN e.usage[x][n] /\ e.usage[x][n][j] = d.usage[x][n][j]
  BY <1>0 DEF AddsRow
<1>2. \A x \in Budgets, n \in 1 .. Months : \A j \in DOMAIN e.usage[x][n] :
        j \notin DOMAIN d.usage[x][n] => e.usage[x][n][j] = NewRow
  BY <1>0 DEF AddsRow
<1>3. ~NewRow.stopped
  BY DEF NewRow
<1>4. \A c \in Budgets, k \in 1 .. Months : \A i \in DOMAIN e.usage[c][k] :
        e.usage[c][k][i].stopped => i \in DOMAIN d.usage[c][k] /\ d.usage[c][k][i].stopped
  BY <1>1, <1>2, <1>3
<1>5. QED
  BY <1>4 DEF e

\* A bill leaves the other rows of the tables alone.
LEMMA BilledElsewhere ==
  ASSUME NEW d \in Tables, NEW b \in Budgets, NEW m \in 1 .. Months,
         NEW i \in DOMAIN d.usage[b][m], NEW used \in Nat
  PROVE  \A c \in Budgets, k \in 1 .. Months :
           c # b \/ k # m => Billed(d, b, m, i, used).usage[c][k] = d.usage[c][k]
BY BilledRows

\* A budget that has let an allowed call pass stays open to it.
LEMMA ClearNext ==
  ASSUME TypeOK, PlaceInv, LockInv, LoadedInv, WhenInv, ClearInv, [Next]_vars
  PROVE  ClearInv'
<1> USE Names
<1>0. db \in Tables /\ tx \in Tables /\ month \in 1 .. Months /\ at \in [Calls -> Nat \ {0}]
      /\ pc \in [Sessions -> States]
  BY DEF TypeOK, States
<1> DEFINE Open(d, b, m) == \A i \in DOMAIN d.usage[b][m] : ~d.usage[b][m][i].stopped
<1>1. CASE UNCHANGED vars
  <2>1. db' = db /\ tx' = tx /\ lock' = lock /\ month' = month /\ pc' = pc /\ at' = at
    BY <1>1 DEF vars
  <2>2. \A c, k : Cleared(c, k)' <=> Cleared(c, k)
    BY <2>1 DEF Cleared
  <2>3. \A c : View(c)' = View(c)
    BY <2>1 DEF View
  <2>4. QED
    BY <2>1, <2>2, <2>3 DEF ClearInv
<1>2. CASE NextMonth
  <2>1. month' = month + 1 /\ UNCHANGED <<db, tx, lock, pc, at>> /\ month' \in 1 .. Months
    BY <1>0, <1>2, BudgetAssumption DEF NextMonth
  <2>2. ASSUME NEW c \in Calls, NEW k \in 1 .. Len(Applies[c])
        PROVE  DOMAIN View(c).usage[Applies[c][k]][month'] = {}
    <3>1. Applies[c][k] \in Budgets /\ month' > month
      BY <1>0, <2>1, PlaceOfCall
    <3>2. QED
      BY <2>1, <3>1 DEF WhenInv, Unused, View
  <2>3. View(None)' = View(None) /\ \A c \in Calls : View(c)' = View(c)
    BY <2>1 DEF View
  <2>4. QED
    BY <2>2, <2>3 DEF ClearInv
<1>3. ASSUME NEW s \in Sessions, Account(s), NEW c \in Calls \ Approved, c # s,
             NEW k \in 1 .. Len(Applies[c]), Applies[c][k] \notin Rolling, Cleared(c, k)'
      PROVE  Open(View(c)', Applies[c][k], month')
  <2>1. pc'[c] \notin Ends \cup {"idle"}
    BY <1>3 DEF Cleared, Billing, Ends
  <2>2. /\ View(c)' = View(c) /\ month' = month
        /\ pc'[c] = pc[c] /\ at'[c] = at[c]
    BY <1>3, <2>1, OthersWork
  <2>3. Cleared(c, k)
    BY <1>3, <2>2 DEF Cleared
  <2>4. QED
    BY <1>3, <2>2, <2>3 DEF ClearInv
<1>4. ASSUME NEW c \in Calls \ Approved, Acts(c), Account(c), NEW k \in 1 .. Len(Applies[c]),
             Applies[c][k] \notin Rolling, Cleared(c, k)'
      PROVE  Open(View(c)', Applies[c][k], month')
  <2> DEFINE b == Applies[c][k]
  <2>1. /\ Len(Applies[c]) \in Nat /\ at[c] \in Nat \ {0} /\ b \in Budgets /\ k \in Nat
        /\ \A j \in 1 .. Len(Applies[c]) : Applies[c][j] = b => j = k
        /\ Current(c) = Applies[c][at[c]]
    BY PlaceOfCall
  <2>2. month' = month
    BY <1>4 DEF Account, Works, Quits, Commits, Bills, Alone
  <2>3. Progress(c) /\ pc'[c] \notin Ends
    BY <1>4, Progresses DEF Cleared, Billing, Ends
  <2>4. ASSUME lock = c, lock' = c, Open(tx, b, month),
               tx' = tx \/ \E a \in Budgets, m \in 1 .. Months : tx' = Added(tx, a, m)
        PROVE  Open(View(c)', b, month')
    <3>1. View(c)' = tx'
      BY <2>4 DEF View
    <3>2. ASSUME NEW a \in Budgets, NEW m \in 1 .. Months
          PROVE  Open(Added(tx, a, m), b, month)
      <4> DEFINE e == Added(tx, a, m)
      <4>1. \A x \in Budgets, n \in 1 .. Months : \A i \in DOMAIN e.usage[x][n] :
              e.usage[x][n][i].stopped =>
                i \in DOMAIN tx.usage[x][n] /\ tx.usage[x][n][i].stopped
        BY <1>0, AddedStops
      <4> HIDE DEF e
      <4>2. Open(e, b, month)
        BY <1>0, <2>1, <2>4, <4>1
      <4>3. QED
        BY <4>2 DEF e
    <3>3. Open(tx', b, month)
      BY <2>4, <3>2
    <3>4. QED
      BY <2>2, <3>1, <3>3
  <2>5. lock = c /\ Cleared(c, k) => Open(tx, b, month)
    BY <1>4 DEF ClearInv, View
  <2>6. CASE pc[c] = "idle" /\ pc'[c] = "checking" /\ at'[c] = 1
    BY <1>4, <2>1, <2>6 DEF Cleared, Billing
  <2>7. CASE /\ lock = c /\ lock' = c /\ tx' = tx
             /\ pc[c] = "checking" /\ pc'[c] = "checking" /\ at'[c] = at[c] + 1
             /\ \E row : FoundRows(c) = {row} /\ ~tx.usage[Applies[c][at[c]]][month][row].stopped
    <3>1. CASE k = at[c]
      <4>1. FoundRows(c) = DOMAIN tx.usage[b][month]
        BY <1>4, <2>7, <3>1, RowsFound DEF View
      <4>2. Open(tx, b, month)
        BY <2>7, <3>1, <4>1
      <4>3. QED
        BY <2>4, <2>7, <4>2
    <3>2. CASE k # at[c]
      <4>1. Cleared(c, k)
        BY <1>4, <2>1, <2>7, <3>2 DEF Cleared, Billing
      <4>2. QED
        BY <2>4, <2>5, <2>7, <4>1
    <3>3. QED
      BY <3>1, <3>2
  <2>8. CASE /\ lock = c /\ lock' = c /\ tx' = tx /\ FoundRows(c) = {}
             /\ pc[c] = "checking" /\ pc'[c] = "create_checking" /\ at'[c] = at[c]
    <3>1. CASE k = at[c]
      <4>1. FoundRows(c) = DOMAIN tx.usage[b][month]
        BY <1>4, <2>8, <3>1, RowsFound DEF View
      <4>2. Open(tx, b, month)
        BY <2>8, <4>1
      <4>3. QED
        BY <2>4, <2>8, <4>2
    <3>2. CASE k # at[c]
      <4>1. Cleared(c, k)
        BY <1>4, <2>1, <2>8, <3>2 DEF Cleared, Billing
      <4>2. QED
        BY <2>4, <2>5, <2>8, <4>1
    <3>3. QED
      BY <3>1, <3>2
  <2>9. CASE /\ lock = c /\ lock' = c
             /\ tx' = tx \/ \E a \in Budgets, m \in 1 .. Months : tx' = Added(tx, a, m)
             /\ \/ pc[c] = "create_checking" /\ pc'[c] = "checking" /\ at'[c] = at[c] + 1
                \/ pc[c] = "checking" /\ pc'[c] = "recording" /\ at[c] > Len(Applies[c])
                \/ pc[c] \in Billing /\ pc'[c] \in Billing /\ at'[c] = at[c]
    <3>1. Cleared(c, k)
      BY <1>4, <2>1, <2>9 DEF Cleared, Billing
    <3>2. QED
      BY <2>4, <2>5, <2>9, <3>1
  <2>10. CASE Bills(c)
    <3>1. /\ pc[c] = "loaded" /\ pc'[c] = "recording" /\ lock' = c
          /\ at'[c] = at[c] + 1
          /\ tx' = Billed(View(c), Current(c), loaded[c].month, loaded[c].row, loaded[c].used + Cost[c])
      BY <1>0, <2>10 DEF Bills
    <3>2. lock = c /\ View(c) = tx
      BY <3>1 DEF LockInv, Ends, View
    <3>3. k > at[c] /\ Cleared(c, k)
      BY <1>4, <2>1, <3>1 DEF Cleared, Billing
    <3>4. at[c] \in 1 .. Len(Applies[c]) /\ Current(c) \in Budgets
      BY <2>1, <3>1, CurrentBudget DEF PlaceInv
    <3>5. b # Current(c)
      BY <2>1, <3>3, <3>4
    <3>6. loaded[c].month \in 1 .. Months /\ loaded[c].used + Cost[c] \in Nat
      <4>1. loaded \in [Sessions -> [row : Nat, month : 1 .. Months, used : Nat]] /\ c \in Sessions
        BY DEF TypeOK, Sessions
      <4>2. loaded[c].month \in 1 .. Months /\ loaded[c].used \in Nat
        BY <4>1
      <4>3. Cost[c] \in Nat
        BY BudgetAssumption
      <4>4. QED
        BY <4>2, <4>3
    <3>7. loaded[c].row \in DOMAIN tx.usage[Current(c)][loaded[c].month]
      BY <3>1, <3>2 DEF LoadedInv, LoadedRows
    <3>8. tx'.usage[b][month] = tx.usage[b][month]
      <4>1. \A d \in Tables, a \in Budgets, m \in 1 .. Months, used \in Nat : \A i \in DOMAIN d.usage[a][m] :
              b # a => Billed(d, a, m, i, used).usage[b][month] = d.usage[b][month]
        <5> SUFFICES ASSUME NEW d \in Tables, NEW a \in Budgets, NEW m \in 1 .. Months,
                            NEW used \in Nat, NEW i \in DOMAIN d.usage[a][m], b # a
                     PROVE  Billed(d, a, m, i, used).usage[b][month] = d.usage[b][month]
          OBVIOUS
        <5>1. b \in Budgets /\ month \in 1 .. Months
          BY <1>0, <2>1
        <5>2. \A x \in Budgets, n \in 1 .. Months :
                x # a \/ n # m => Billed(d, a, m, i, used).usage[x][n] = d.usage[x][n]
          BY BilledElsewhere
        <5>3. QED
          BY <5>1, <5>2
      <4>2. QED
        BY <1>0, <3>1, <3>2, <3>4, <3>5, <3>6, <3>7, <4>1
    <3>9. View(c)' = tx'
      BY <3>1 DEF View
    <3>10. QED
      BY <2>2, <2>5, <3>2, <3>3, <3>8, <3>9
  <2>11. QED
    BY <2>3, <2>6, <2>7, <2>8, <2>9, <2>10 DEF Progress
<1>5. ASSUME NEW s \in Sessions, Acts(s), Account(s)
      PROVE  ClearInv'
  <2> SUFFICES ASSUME NEW c \in Calls \ Approved, NEW k \in 1 .. Len(Applies[c]),
                      Applies[c][k] \notin Rolling, Cleared(c, k)'
               PROVE  Open(View(c)', Applies[c][k], month')
    BY DEF ClearInv
  <2>1. CASE c = s
    BY <1>4, <1>5, <2>1
  <2>2. CASE c # s
    BY <1>3, <1>5, <2>2
  <2>3. QED
    BY <2>1, <2>2
<1>6. QED
  BY <1>1, <1>2, <1>5, Accounts

\* The steps that charge nobody, and the one that charges an allowed call.
LEMMA Charges ==
  ASSUME PlaceInv, LockInv, NEW s \in Sessions, Account(s), Serial'
  PROVE  /\ Alone(s) /\ Serial
         /\ \/ pc'[s] # "done" \/ s \in Viewers
            \/ /\ s \in Calls \ Approved /\ Commits(s) /\ pc'[s] = "done" /\ sentIn' = sentIn
               /\ pc[s] = "recording" /\ at[s] > Len(Applies[s]) /\ lock = s
<1> USE Names
<1>1. Alone(s)
  BY DEF Account, Works, Quits, Commits, Bills
<1>2. Serial /\ ~(s \in Approved /\ pc'[s] = "done")
  BY <1>1, SerialSince
<1>3. ASSUME pc'[s] = "done", s \notin Viewers
      PROVE  /\ s \in Calls \ Approved /\ Commits(s) /\ sentIn' = sentIn
             /\ pc[s] = "recording" /\ at[s] > Len(Applies[s]) /\ lock = s
  <2>1. s \in Calls \ Approved
    BY <1>2, <1>3 DEF Sessions
  <2>2. Commits(s)
    BY <1>3 DEF Account, Works, Quits, Bills, Ends
  <2>3. sentIn' = sentIn /\ pc[s] = "recording" /\ at[s] > Len(Applies[s])
    BY <2>1, <2>2 DEF Commits
  <2>4. lock = s
    BY <2>1, <2>3 DEF LockInv, Ends
  <2>5. QED
    BY <2>1, <2>2, <2>3, <2>4
<1>4. QED
  BY <1>1, <1>2, <1>3

\* Nobody has spent anything in a month to come.
LEMMA SpentLater ==
  ASSUME TypeOK, WhenInv, NEW b, NEW m \in 1 .. Months, m > month
  PROVE  Spenders(b, m) = {} /\ Spent(Spenders(b, m)) = 0
<1>1. \A c \in Calls : sentIn[c] <= month /\ sentIn[c] \in 0 .. Months
  BY DEF TypeOK, WhenInv
<1>2. month \in 1 .. Months
  BY DEF TypeOK
<1>3. \A c \in Charged(b) : sentIn[c] # m
  BY <1>1, <1>2 DEF Charged
<1>4. Spenders(b, m) = {}
  BY <1>3 DEF Spenders
<1>5. QED
  BY <1>4, SpentNothing

\* The clock has no part in what was spent, except for which month is present.
LEMMA ClockTicks ==
  ASSUME TypeOK, NextMonth
  PROVE  /\ month' = month + 1 /\ month' \in 1 .. Months /\ month' > month
         /\ UNCHANGED <<db, tx, lock, pc, at, loaded, sentIn>> /\ Serial' = Serial
         /\ \A b, m : Spenders(b, m)' = Spenders(b, m)
<1>1. /\ month' = month + 1 /\ month' \in 1 .. Months /\ month' > month
      /\ UNCHANGED <<db, tx, lock, pc, at, loaded, sentIn>>
  BY BudgetAssumption DEF TypeOK, NextMonth
<1>2. QED
  BY <1>1 DEF Serial, Spenders, Charged

\* What was spent this month is billed this month.
LEMMA SpendNext ==
  ASSUME TypeOK, PlaceInv, LockInv, LoadedInv, WhenInv, ClearInv, DoneInv, SpendInv, [Next]_vars
  PROVE  SpendInv'
<1> USE Names
<1>0. db \in Tables /\ tx \in Tables /\ month \in 1 .. Months
  BY DEF TypeOK
<1>1. CASE UNCHANGED vars
  BY <1>1 DEF vars, SpendInv, Serial, Spenders, Charged, PendingNow, Pending
<1>2. CASE NextMonth
  <2>1. ASSUME NEW b \in Budgets, NEW m \in 1 .. Months, m = month'
        PROVE  /\ Spent(Spenders(b, m)') = 0
               /\ UsedIn(db', b, m) \in Nat /\ UsedIn(tx', b, m) \in Nat
               /\ \A s : PendingNow(s, b)' = 0
    <3>1. m > month /\ Spenders(b, m)' = Spenders(b, m)
          /\ UNCHANGED <<db, tx, lock, pc, at, loaded, sentIn>>
      BY <1>2, <2>1, ClockTicks
    <3>2. Spent(Spenders(b, m)') = 0
      BY <3>1, SpentLater
    <3>3. UsedIn(db', b, m) \in Nat /\ UsedIn(tx', b, m) \in Nat
      BY <1>0, <3>1, UsedType
    <3>4. \A c \in Calls : sentIn'[c] # month'
      BY <1>0, <2>1, <3>1 DEF WhenInv, TypeOK
    <3>5. QED
      BY <3>2, <3>3, <3>4 DEF PendingNow
  <2>2. month' \in 1 .. Months
    BY <1>2, ClockTicks
  <2>3. ASSUME NEW b \in Budgets
        PROVE  /\ Spent(Spenders(b, month)') <= UsedIn(db', b, month')
               /\ \A s \in Sessions :
                    Spent(Spenders(b, month)') + PendingNow(s, b)' <= UsedIn(tx', b, month')
    <3>1. PICK m \in 1 .. Months : m = month'
      BY <2>2
    <3>2. Spenders(b, month)' = Spenders(b, m)'
      BY <3>1 DEF Spenders
    <3>3. QED
      BY <2>1, <3>1, <3>2
  <2>4. QED
    BY <2>3 DEF SpendInv
<1>3. ASSUME NEW s \in Sessions, Account(s), Serial', NEW b \in Budgets, NEW m \in 1 .. Months, m = month
      PROVE  /\ month' = m
             /\ Spent(Spenders(b, m)') <= UsedIn(db', b, m)
             /\ \A o \in Sessions \ Approved : lock' = o =>
                  Spent(Spenders(b, m)') + PendingNow(o, b)' <= UsedIn(tx', b, m)
  <2>1. Alone(s) /\ Serial
    BY <1>3, Charges
  <2>2. month' = m
    BY <1>3, <2>1 DEF Alone
  <2>3. /\ Spent(Spenders(b, m)) <= UsedIn(db, b, m)
        /\ \A o \in Sessions \ Approved : lock = o =>
             Spent(Spenders(b, m)) + PendingNow(o, b) <= UsedIn(tx, b, m)
    BY <1>3, <2>1 DEF SpendInv
  <2>4. /\ Spenders(b, m) \in SUBSET Calls /\ IsFiniteSet(Spenders(b, m)) /\ Spent(Spenders(b, m)) \in Nat
        /\ UsedIn(db, b, m) \in Nat /\ UsedIn(tx, b, m) \in Nat
        /\ \A o : PendingNow(o, b) \in Nat
    BY <1>0, ChargedType, UsedType, PendingType
  <2>5. ASSUME s \notin Approved
        PROVE  Spent(Spenders(b, m)) + PendingNow(s, b) <= UsedIn(View(s), b, m)
    <3>1. CASE lock = s
      BY <2>3, <2>5, <3>1 DEF View
    <3>2. CASE lock # s
      <4>1. PendingNow(s, b) = 0 /\ View(s) = db
        BY <2>5, <3>2, NothingWithoutLock DEF View
      <4>2. QED
        BY <2>3, <2>4, <4>1
    <3>3. QED
      BY <3>1, <3>2
  <2>6. ASSUME NEW o \in Sessions \ {s}
        PROVE  PendingNow(o, b)' = PendingNow(o, b)
    BY <2>1 DEF Alone, PendingNow, Pending
  <2>7. CASE Works(s)
    <3>1. Spenders(b, m)' = Spenders(b, m) /\ db' = db
      BY <2>1, <2>7, ChargedKept DEF Works, Ends
    <3>2. s \notin Approved => PendingNow(s, b)' = PendingNow(s, b)
      BY <2>7 DEF Works
    <3>3. View(s) \in Tables
      BY <1>0 DEF View
    <3>4. \A a \in Budgets, n \in 1 .. Months : UsedIn(Added(View(s), a, n), b, m) = UsedIn(View(s), b, m)
      BY <3>3, AddedUsed
    <3>5. UNCHANGED <<tx, lock>> \/ (lock' = s /\ UsedIn(tx', b, m) = UsedIn(View(s), b, m))
      BY <2>7, <3>4 DEF Works
    <3>6. CASE UNCHANGED <<tx, lock>>
      <4>1. \A o \in Sessions \ Approved : PendingNow(o, b)' = PendingNow(o, b)
        BY <2>6, <3>2
      <4>2. QED
        BY <2>2, <2>3, <3>1, <3>6, <4>1
    <3>7. CASE lock' = s /\ UsedIn(tx', b, m) = UsedIn(View(s), b, m)
      BY <2>2, <2>3, <2>5, <3>1, <3>2, <3>7
    <3>8. QED
      BY <3>5, <3>6, <3>7
  <2>8. CASE Quits(s)
    <3>1. Spenders(b, m)' = Spenders(b, m)
      BY <2>1, <2>8, ChargedKept DEF Quits
    <3>2. db' = db /\ tx' = tx /\ (lock' # None => lock' = lock /\ lock # s)
      BY <2>8 DEF Quits, RollbackTx
    <3>3. QED
      BY <2>2, <2>3, <2>6, <3>1, <3>2
  <2>9. CASE Commits(s)
    <3>1. s \notin Approved /\ pc'[s] = "done"
      BY <1>3, <2>9, Charges DEF Commits, Sessions
    <3>2. db' = View(s) /\ tx' = tx /\ (lock' # None => lock' = lock /\ lock # s)
      BY <2>9 DEF Commits, CommitTx
    <3>3. CASE s \in Viewers
      <4>1. Spenders(b, m)' = Spenders(b, m)
        BY <2>1, <3>3, ChargedKept
      <4>2. PendingNow(s, b) = 0
        BY <3>3, NothingPending
      <4>3. Spent(Spenders(b, m)') <= UsedIn(db', b, m)
        BY <2>4, <2>5, <3>1, <3>2, <4>1, <4>2
      <4>4. QED
        BY <2>2, <2>3, <2>6, <3>2, <4>1, <4>3
    <3>4. CASE s \in Calls
      <4>1. pc[s] = "recording" /\ at[s] > Len(Applies[s]) /\ sentIn' = sentIn /\ lock = s
        BY <1>3, <3>1, <3>4, Charges
      <4>2. lock' = None
        BY <3>2, <4>1
      <4>3. /\ Spenders(b, m)' = IF Contains(Applies[s], b) /\ sentIn[s] = m
                                 THEN Spenders(b, m) \cup {s} ELSE Spenders(b, m)
            /\ s \notin Spenders(b, m)
        <5>1. Spenders(b, m)' = IF Contains(Applies[s], b) /\ sentIn[s] = m
                                 THEN Spenders(b, m) \cup {s} ELSE Spenders(b, m)
          BY <2>1, <3>1, <3>4, <4>1, ChargedGrows
        <5>2. s \notin Charged(b)
          BY <2>1, <3>1, <3>4, <4>1, ChargedGrows
        <5>3. QED
          BY <5>1, <5>2 DEF Spenders
      <4>4. CASE Contains(Applies[s], b) /\ sentIn[s] = m
        <5>1. PendingNow(s, b) = Cost[s]
          BY <1>3, <3>4, <4>1, <4>4, AllPending
        <5>2. Spent(Spenders(b, m) \cup {s}) = Spent(Spenders(b, m)) + Cost[s]
          BY <2>4, <3>4, <4>3, SpentGrows
        <5>3. QED
          BY <2>2, <2>5, <3>1, <3>2, <4>2, <4>3, <4>4, <5>1, <5>2
      <4>5. CASE ~(Contains(Applies[s], b) /\ sentIn[s] = m)
        <5>1. UsedIn(View(s), b, m) \in Nat
          BY <2>4 DEF View
        <5>2. Spent(Spenders(b, m)) <= UsedIn(View(s), b, m)
          BY <2>4, <2>5, <3>1, <5>1
        <5>3. QED
          BY <2>2, <3>2, <4>2, <4>3, <4>5, <5>2
      <4>6. QED
        BY <4>4, <4>5
    <3>5. QED
      BY <3>3, <3>4 DEF Sessions
  <2>10. CASE s \in Calls /\ Bills(s)
    <3>1. Spenders(b, m)' = Spenders(b, m)
      BY <2>1, <2>10, ChargedKept DEF Bills
    <3>2. db' = db /\ lock' = s /\ sentIn' = sentIn /\ pc[s] = "loaded"
      BY <2>10 DEF Bills
    <3>3. ASSUME s \notin Approved
          PROVE  Spent(Spenders(b, m)) + PendingNow(s, b)' <= UsedIn(tx', b, m)
      <4>1. /\ lock = s
            /\ UsedIn(tx', b, m) = IF b = Current(s) /\ m = loaded[s].month
                                     THEN UsedIn(tx, b, m) + Cost[s] ELSE UsedIn(tx, b, m)
            /\ b = Current(s) => Pending(s, b) = 0 /\ Pending(s, b)' = Cost[s]
            /\ b # Current(s) => Pending(s, b)' = Pending(s, b)
        BY <2>10, <3>3, BillCounts
      <4>2. Spent(Spenders(b, m)) + PendingNow(s, b) <= UsedIn(tx, b, m)
        BY <2>5, <3>3, <4>1 DEF View
      <4>3. Cost[s] \in Nat
        BY <2>10, BudgetAssumption
      <4>4. CASE sentIn[s] = m
        <5>1. sentIn[s] <= loaded[s].month /\ loaded[s].month <= month /\ loaded[s].month \in Nat
          BY <1>0, <2>10, <3>2 DEF WhenInv, TypeOK
        <5>2. loaded[s].month = m
          BY <1>0, <1>3, <4>4, <5>1
        <5>3. PendingNow(s, b) = Pending(s, b) /\ PendingNow(s, b)' = Pending(s, b)'
          BY <1>3, <2>2, <2>10, <3>2, <4>4 DEF PendingNow
        <5>4. QED
          BY <2>4, <4>1, <4>2, <4>3, <5>2, <5>3
      <4>5. CASE sentIn[s] # m
        <5>1. PendingNow(s, b)' = 0 /\ PendingNow(s, b) = 0
          BY <1>3, <2>2, <3>2, <4>5 DEF PendingNow
        <5>2. QED
          BY <2>4, <4>1, <4>2, <4>3, <5>1
      <4>6. QED
        BY <4>4, <4>5
    <3>4. QED
      BY <2>2, <2>3, <3>1, <3>2, <3>3
  <2>11. QED
    BY <1>3, <2>7, <2>8, <2>9, <2>10 DEF Account
<1>4. ASSUME NEW s \in Sessions, Account(s)
      PROVE  SpendInv'
  <2>1. PICK m \in 1 .. Months : m = month
    BY <1>0
  <2>2. month' = m
    BY <1>4, <2>1 DEF Account, Works, Quits, Commits, Bills, Alone
  <2>3. \A b : Spenders(b, month)' = Spenders(b, m)'
    BY <2>2 DEF Spenders
  <2>4. ASSUME Serial', NEW b \in Budgets
        PROVE  /\ Spent(Spenders(b, month)') <= UsedIn(db', b, month')
               /\ \A o \in Sessions \ Approved : lock' = o =>
                    Spent(Spenders(b, month)') + PendingNow(o, b)' <= UsedIn(tx', b, month')
    BY <1>3, <1>4, <2>1, <2>2, <2>3, <2>4
  <2>5. QED
    BY <2>4 DEF SpendInv
<1>5. QED
  BY <1>1, <1>2, <1>4, Accounts

\* A budget that has one row of at most its limit, or none, has something left.
LEMMA RowLeft ==
  ASSUME NEW d \in Tables, NEW b \in Budgets, NEW m \in 1 .. Months, RowsStopped(d)
  PROVE  /\ DOMAIN d.usage[b][m] = {} => UsedIn(d, b, m) < Limit[b]
         /\ \A i : DOMAIN d.usage[b][m] = {i} /\ ~d.usage[b][m][i].stopped => UsedIn(d, b, m) < Limit[b]
<1> DEFINE f == [i \in DOMAIN d.usage[b][m] |-> d.usage[b][m][i].used]
<1>1. Limit[b] \in Nat \ {0}
  BY BudgetAssumption
<1>2. f \in [DOMAIN d.usage[b][m] -> Nat] /\ UsedIn(d, b, m) = Sum(f)
  BY UsedType DEF UsedIn
<1>3. ASSUME DOMAIN d.usage[b][m] = {}
      PROVE  UsedIn(d, b, m) < Limit[b]
  <2>1. \A x \in DOMAIN f : f[x] = 0
    BY <1>3
  <2>2. Sum(f) = 0
    <3> HIDE DEF f
    <3> QED BY <2>1, SumNothing
  <2>3. QED
    BY <1>1, <1>2, <2>2
<1>4. ASSUME NEW i, DOMAIN d.usage[b][m] = {i}, ~d.usage[b][m][i].stopped
      PROVE  UsedIn(d, b, m) < Limit[b]
  <2>1. i \in DOMAIN d.usage[b][m] /\ f[i] = d.usage[b][m][i].used /\ f[i] \in Nat
    BY <1>2, <1>4
  <2>2. ~(d.usage[b][m][i].used >= Limit[b])
    BY <1>4, <2>1 DEF RowsStopped
  <2>3. f \in [{i} -> Nat]
    BY <1>2, <1>4
  <2>4. Sum(f) = f[i]
    <3> HIDE DEF f
    <3> QED BY <2>3, SumOne
  <2>5. f[i] < Limit[b]
    <3> HIDE DEF f
    <3> QED BY <1>1, <2>1, <2>2
  <2>6. UsedIn(d, b, m) = f[i]
    BY <1>2, <2>4
  <2> HIDE DEF f
  <2>7. QED
    BY <2>5, <2>6
<1>5. QED
  BY <1>3, <1>4

\* An allowed call is sent while its budgets have something left.
LEMMA LeftNext ==
  ASSUME TypeOK, PlaceInv, LockInv, LoadedInv, StopInv, WhenInv, ClearInv, DoneInv,
         SpendInv, LeftInv, [Next]_vars
  PROVE  LeftInv'
<1> USE Names
<1>0. db \in Tables /\ tx \in Tables /\ month \in 1 .. Months
  BY DEF TypeOK
<1> DEFINE Left(c, k) ==
      /\ pc[c] \in {"checking", "create_checking"} /\ Cleared(c, k) =>
           Spent(Spenders(Applies[c][k], month)) < Limit[Applies[c][k]]
      /\ pc[c] \in Billing =>
           Spent(Spenders(Applies[c][k], sentIn[c])) < Limit[Applies[c][k]]
<1>1. CASE UNCHANGED vars
  BY <1>1 DEF vars, LeftInv, Serial, Spenders, Charged, Cleared
<1>2. CASE NextMonth
  <2>1. /\ month' \in 1 .. Months /\ month' > month /\ Serial' = Serial
        /\ UNCHANGED <<pc, at, sentIn>>
        /\ \A b, m : Spenders(b, m)' = Spenders(b, m)
    BY <1>2, ClockTicks
  <2>2. ASSUME Serial', NEW c \in Calls \ Approved, NEW k \in 1 .. Len(Applies[c]),
               Applies[c][k] \notin Rolling
        PROVE  Left(c, k)'
    <3>1. Applies[c][k] \in Budgets
      BY PlaceOfCall
    <3>2. Limit[Applies[c][k]] \in Nat \ {0}
      BY <3>1, BudgetAssumption
    <3>3. PICK m \in 1 .. Months : m = month'
      BY <2>1
    <3>4. Spent(Spenders(Applies[c][k], m)') = 0
      BY <2>1, <3>3, SpentLater
    <3>5. Spenders(Applies[c][k], month)' = Spenders(Applies[c][k], m)'
      BY <3>3 DEF Spenders
    <3>6. Spent(Spenders(Applies[c][k], month)') < Limit[Applies[c][k]]
      BY <3>2, <3>4, <3>5
    <3>7. ASSUME pc'[c] \in Billing
          PROVE  Spent(Spenders(Applies[c][k], sentIn[c])') < Limit[Applies[c][k]]
      <4>1. Spent(Spenders(Applies[c][k], sentIn[c])) < Limit[Applies[c][k]]
        BY <2>1, <2>2, <3>7 DEF LeftInv
      <4>2. Spenders(Applies[c][k], sentIn[c])' = Spenders(Applies[c][k], sentIn[c])
        BY <2>1 DEF Spenders, Charged
      <4>3. QED
        BY <4>1, <4>2
    <3>8. QED
      BY <3>6, <3>7
  <2>3. QED
    BY <2>2 DEF LeftInv
<1>3. ASSUME NEW s \in Sessions, Account(s), Serial', NEW c \in Calls \ Approved, c # s,
             NEW k \in 1 .. Len(Applies[c]), Applies[c][k] \notin Rolling,
             pc'[c] \notin Ends \cup {"idle"}
      PROVE  Left(c, k)'
  <2>1. /\ lock = c /\ month' = month
        /\ pc'[c] = pc[c] /\ at'[c] = at[c] /\ sentIn'[c] = sentIn[c]
    BY <1>3, OthersWork
  <2>2. Alone(s) /\ Serial /\ (pc'[s] # "done" \/ s \in Viewers)
    BY <1>3, <2>1, Charges
  <2>3. \A b, m : Spenders(b, m)' = Spenders(b, m)
    BY <2>2, ChargedKept
  <2>4. Left(c, k)
    BY <1>3, <2>2 DEF LeftInv
  <2>5. /\ Spenders(Applies[c][k], month)' = Spenders(Applies[c][k], month)
        /\ Spenders(Applies[c][k], sentIn[c])' = Spenders(Applies[c][k], sentIn[c])
    <3>1. PICK m, n : m = month /\ n = sentIn[c]
      OBVIOUS
    <3>2. /\ Spenders(Applies[c][k], m)' = Spenders(Applies[c][k], m)
          /\ Spenders(Applies[c][k], n)' = Spenders(Applies[c][k], n)
      BY <2>3
    <3>3. QED
      BY <2>1, <3>1, <3>2 DEF Spenders
  <2>6. Cleared(c, k)' => Cleared(c, k)
    BY <2>1 DEF Cleared
  <2>7. QED
    BY <2>1, <2>4, <2>5, <2>6
<1>4. ASSUME NEW c \in Calls \ Approved, Acts(c), Account(c), Serial',
             NEW k \in 1 .. Len(Applies[c]), Applies[c][k] \notin Rolling,
             pc'[c] \notin Ends \cup {"idle"}
      PROVE  Left(c, k)'
  <2> DEFINE b == Applies[c][k]
  <2>1. /\ Len(Applies[c]) \in Nat /\ at[c] \in Nat \ {0} /\ b \in Budgets /\ k \in Nat /\ k <= Len(Applies[c])
    BY PlaceOfCall
  <2>2. Alone(c) /\ Serial /\ pc'[c] # "done"
    BY <1>4, Charges DEF Ends
  <2>3. month' = month /\ \A a, m : Spenders(a, m)' = Spenders(a, m)
    BY <2>2, ChargedKept DEF Alone
  <2>4. Progress(c)
    BY <1>4, Progresses
  <2>5. /\ pc[c] \in {"checking", "create_checking"} /\ Cleared(c, k) =>
             Spent(Spenders(b, month)) < Limit[b]
        /\ pc[c] \in Billing => Spent(Spenders(b, sentIn[c])) < Limit[b]
    BY <1>4, <2>2 DEF LeftInv
  <2>6. ASSUME Spent(Spenders(b, month)) < Limit[b], sentIn'[c] = month \/ pc'[c] \notin Billing
        PROVE  Left(c, k)'
    <3>1. PICK m : m = month
      OBVIOUS
    <3>2. Spenders(b, m)' = Spenders(b, m)
      BY <2>3
    <3>3. Spenders(b, month)' = Spenders(b, month)
      BY <2>3, <3>1, <3>2 DEF Spenders
    <3>4. pc'[c] \in Billing => Spenders(b, sentIn[c])' = Spenders(b, month)
      BY <2>3, <2>6, <3>1, <3>2 DEF Spenders
    <3>5. QED
      BY <2>6, <3>3, <3>4
  <2>7. ASSUME lock = c, UsedIn(tx, b, month) < Limit[b]
        PROVE  Spent(Spenders(b, month)) < Limit[b]
    <3>1. Spent(Spenders(b, month)) + PendingNow(c, b) <= UsedIn(tx, b, month)
      BY <2>1, <2>2, <2>7 DEF SpendInv
    <3>2. /\ Spent(Spenders(b, month)) \in Nat /\ PendingNow(c, b) \in Nat
          /\ UsedIn(tx, b, month) \in Nat /\ Limit[b] \in Nat
      BY <1>0, <2>1, ChargedType, PendingType, UsedType, BudgetAssumption
    <3>3. QED
      BY <2>7, <3>1, <3>2
  <2>8. lock = c => RowsStopped(tx)
    BY DEF StopInv
  <2>9. CASE pc[c] = "idle" /\ pc'[c] = "checking" /\ at'[c] = 1
    <3>1. ~Cleared(c, k)' /\ pc'[c] \notin Billing
      BY <2>1, <2>9 DEF Cleared, Billing
    <3>2. QED
      BY <3>1
  <2>10. CASE /\ lock = c /\ pc[c] = "checking" /\ pc'[c] = "checking" /\ at'[c] = at[c] + 1
              /\ \E row : FoundRows(c) = {row} /\ ~tx.usage[Applies[c][at[c]]][month][row].stopped
    <3>1. CASE k = at[c]
      <4>1. FoundRows(c) = DOMAIN tx.usage[b][month]
        BY <1>4, <2>10, <3>1, RowsFound DEF View
      <4>2. UsedIn(tx, b, month) < Limit[b]
        BY <1>0, <2>1, <2>8, <2>10, <3>1, <4>1, RowLeft
      <4>3. Spent(Spenders(b, month)) < Limit[b]
        BY <2>7, <2>10, <4>2
      <4>4. QED
        BY <2>6, <2>10, <4>3 DEF Billing
    <3>2. CASE k # at[c]
      <4>1. Cleared(c, k)' => Spent(Spenders(b, month)) < Limit[b]
        BY <2>1, <2>5, <2>10, <3>2 DEF Cleared, Billing
      <4>2. CASE Cleared(c, k)'
        BY <2>6, <2>10, <4>1, <4>2 DEF Billing
      <4>3. CASE ~Cleared(c, k)'
        BY <2>10, <4>3 DEF Billing
      <4>4. QED
        BY <4>2, <4>3
    <3>3. QED
      BY <3>1, <3>2
  <2>11. CASE /\ lock = c /\ FoundRows(c) = {}
              /\ pc[c] = "checking" /\ pc'[c] = "create_checking" /\ at'[c] = at[c]
    <3>1. CASE k = at[c]
      <4>1. FoundRows(c) = DOMAIN tx.usage[b][month]
        BY <1>4, <2>11, <3>1, RowsFound DEF View
      <4>2. UsedIn(tx, b, month) < Limit[b]
        BY <1>0, <2>1, <2>8, <2>11, <4>1, RowLeft
      <4>3. Spent(Spenders(b, month)) < Limit[b]
        BY <2>7, <2>11, <4>2
      <4>4. QED
        BY <2>6, <2>11, <4>3 DEF Billing
    <3>2. CASE k # at[c]
      <4>1. Cleared(c, k)' => Spent(Spenders(b, month)) < Limit[b]
        BY <2>1, <2>5, <2>11, <3>2 DEF Cleared, Billing
      <4>2. CASE Cleared(c, k)'
        BY <2>6, <2>11, <4>1, <4>2 DEF Billing
      <4>3. CASE ~Cleared(c, k)'
        BY <2>11, <4>3 DEF Billing
      <4>4. QED
        BY <4>2, <4>3
    <3>3. QED
      BY <3>1, <3>2
  <2>12. CASE pc[c] = "create_checking" /\ pc'[c] = "checking" /\ at'[c] = at[c] + 1
    <3>1. Cleared(c, k)' => Spent(Spenders(b, month)) < Limit[b]
      BY <2>1, <2>5, <2>12 DEF Cleared, Billing
    <3>2. CASE Cleared(c, k)'
      BY <2>6, <2>12, <3>1, <3>2 DEF Billing
    <3>3. CASE ~Cleared(c, k)'
      BY <2>12, <3>3 DEF Billing
    <3>4. QED
      BY <3>2, <3>3
  <2>13. CASE /\ pc[c] = "checking" /\ pc'[c] = "recording"
              /\ at[c] > Len(Applies[c]) /\ sentIn'[c] = month
    <3>1. Cleared(c, k)
      BY <2>1, <2>13 DEF Cleared
    <3>2. QED
      BY <2>5, <2>6, <2>13, <3>1
  <2>14. CASE pc[c] \in Billing /\ pc'[c] \in Billing /\ sentIn'[c] = sentIn[c]
    <3>1. PICK m : m = sentIn[c]
      OBVIOUS
    <3>2. Spenders(b, m)' = Spenders(b, m)
      BY <2>3
    <3>3. Spenders(b, sentIn[c])' = Spenders(b, sentIn[c])
      BY <2>14, <3>1, <3>2 DEF Spenders
    <3>4. QED
      BY <2>5, <2>14, <3>3 DEF Billing
  <2>15. QED
    BY <1>4, <2>4, <2>9, <2>10, <2>11, <2>12, <2>13, <2>14 DEF Progress, Bills, Billing, Ends
<1>5. ASSUME NEW s \in Sessions, Acts(s), Account(s)
      PROVE  LeftInv'
  <2> SUFFICES ASSUME Serial', NEW c \in Calls \ Approved, NEW k \in 1 .. Len(Applies[c]),
                      Applies[c][k] \notin Rolling
               PROVE  Left(c, k)'
    BY DEF LeftInv
  <2>1. CASE pc'[c] \in Ends \cup {"idle"}
    BY <2>1 DEF Ends, Billing
  <2>2. CASE pc'[c] \notin Ends \cup {"idle"}
    BY <1>3, <1>4, <1>5, <2>2
  <2>3. QED
    BY <2>1, <2>2
<1>6. QED
  BY <1>1, <1>2, <1>5, Accounts

\* The call that ends last overshoots the limit, and only by its own cost.
LEMMA OvershotNext ==
  ASSUME TypeOK, PlaceInv, LockInv, LoadedInv, WhenInv, ClearInv, DoneInv, LeftInv,
         OvershotInv, [Next]_vars
  PROVE  OvershotInv'
<1> USE Names
<1>1. CASE UNCHANGED vars
  BY <1>1 DEF vars, OvershotInv, Serial, Spenders, Charged
<1>2. CASE NextMonth
  BY <1>2, ClockTicks DEF OvershotInv
<1>3. ASSUME NEW s \in Sessions, Account(s), Serial', NEW b \in Budgets \ Rolling, NEW m \in 1 .. Months
      PROVE  \/ Spenders(b, m)' = {}
             \/ \E last \in Spenders(b, m)' : Spent(Spenders(b, m)') < Limit[b] + Cost[last]
  <2>1. Alone(s) /\ Serial
    BY <1>3, Charges
  <2>2. \/ Spenders(b, m) = {}
        \/ \E last \in Spenders(b, m) : Spent(Spenders(b, m)) < Limit[b] + Cost[last]
    BY <1>3, <2>1 DEF OvershotInv
  <2>3. CASE Spenders(b, m)' = Spenders(b, m)
    BY <2>2, <2>3
  <2>4. CASE Spenders(b, m)' # Spenders(b, m)
    <3>1. /\ s \in Calls \ Approved /\ pc'[s] = "done" /\ sentIn' = sentIn
          /\ pc[s] = "recording" /\ at[s] > Len(Applies[s])
      BY <1>3, <2>1, <2>4, Charges, ChargedKept
    <3>2. /\ Spenders(b, m)' = Spenders(b, m) \cup {s}
          /\ Contains(Applies[s], b) /\ sentIn[s] = m
      BY <2>1, <2>4, <3>1, ChargedGrows
    <3>3. s \notin Spenders(b, m)
      BY <2>1 DEF Spenders, Charged, Alone, Ends
    <3>4. PICK k \in 1 .. Len(Applies[s]) : Applies[s][k] = b
      BY <3>1, <3>2, PlaceOfCall
    <3>5. Spent(Spenders(b, m)) < Limit[b]
      BY <1>3, <2>1, <3>1, <3>2, <3>4 DEF LeftInv, Billing
    <3>6. /\ Spenders(b, m) \in SUBSET Calls /\ IsFiniteSet(Spenders(b, m))
          /\ Spent(Spenders(b, m)) \in Nat
      BY ChargedType
    <3>7. Spent(Spenders(b, m) \cup {s}) = Spent(Spenders(b, m)) + Cost[s]
      BY <3>1, <3>3, <3>6, SpentGrows
    <3>8. Limit[b] \in Nat /\ Cost[s] \in Nat
      BY <3>1, BudgetAssumption
    <3>9. Spent(Spenders(b, m)') < Limit[b] + Cost[s]
      BY <3>2, <3>5, <3>6, <3>7, <3>8
    <3>10. QED
      BY <3>2, <3>9
  <2>5. QED
    BY <2>3, <2>4
<1>4. ASSUME NEW s \in Sessions, Account(s)
      PROVE  OvershotInv'
  BY <1>3, <1>4 DEF OvershotInv
<1>5. QED
  BY <1>1, <1>2, <1>4, Accounts

-----------------------------------------------------------------------------
\* All of the accounts.
AccountInv == WhenInv /\ ClearInv /\ DoneInv /\ ExactInv /\ SpendInv /\ LeftInv /\ OvershotInv

\* Nothing is used and nothing spent at first.
LEMMA AccountInit == Init => AccountInv
<1> SUFFICES ASSUME Init
             PROVE  AccountInv
  OBVIOUS
<1> USE Names
<1>1. /\ \A b \in Budgets, m \in 1 .. Months : DOMAIN db.usage[b][m] = {}
      /\ lock = None /\ month = 1
      /\ \A s \in Sessions : pc[s] = "idle" /\ loaded[s].month = 1
      /\ \A c \in Calls : at[c] = 1 /\ sentIn[c] = 0
  BY DEF Init
<1>2. \A b, m : Charged(b) = {} /\ Spenders(b, m) = {} /\ Done = {}
  BY <1>1 DEF Charged, Spenders, Done
<1>3. WhenInv
  BY <1>1 DEF WhenInv, Unused
<1>4. ClearInv
  BY <1>1 DEF ClearInv, Cleared, Billing
<1>5. DoneInv
  BY <1>2, FS_EmptySet DEF DoneInv, Done
<1>6. ASSUME NEW b \in Budgets
      PROVE  TotalUsed(db, b) = 0 /\ \A m \in 1 .. Months : UsedIn(db, b, m) = 0
  <2>1. ASSUME NEW m \in 1 .. Months
        PROVE  UsedIn(db, b, m) = 0
    <3> DEFINE f == [i \in DOMAIN db.usage[b][m] |-> db.usage[b][m][i].used]
    <3>1. \A x \in DOMAIN f : f[x] = 0
      BY <1>1
    <3> HIDE DEF f
    <3>2. Sum(f) = 0
      BY <3>1, SumNothing
    <3>3. QED
      BY <3>2 DEF f, UsedIn
  <2> DEFINE g == [m \in 1 .. Months |-> UsedIn(db, b, m)]
  <2>2. \A x \in DOMAIN g : g[x] = 0
    BY <2>1
  <2> HIDE DEF g
  <2>3. Sum(g) = 0
    BY <2>2, SumNothing
  <2>4. QED
    BY <2>1, <2>3 DEF g, TotalUsed
<1>7. \A b, m : Spent(Charged(b)) = 0 /\ Spent(Spenders(b, m)) = 0
  BY <1>2, SpentNothing
<1>8. ExactInv
  BY <1>1, <1>6, <1>7 DEF ExactInv
<1>9. SpendInv
  <2>1. month \in 1 .. Months
    BY <1>1, BudgetAssumption
  <2>2. QED
    BY <1>1, <1>6, <1>7, <2>1 DEF SpendInv
<1>10. LeftInv
  BY <1>1 DEF LeftInv, Billing
<1>11. OvershotInv
  BY <1>2 DEF OvershotInv
<1>12. QED
  BY <1>3, <1>4, <1>5, <1>8, <1>9, <1>10, <1>11 DEF AccountInv

\* The accounts are inductive, on top of Inv.
LEMMA AccountNext == ASSUME Inv, AccountInv, [Next]_vars
                     PROVE  AccountInv'
<1> USE DEF Inv, AccountInv
<1>1. WhenInv' /\ ClearInv' /\ DoneInv'
  BY WhenNext, ClearNext, DoneNext
<1>2. ExactInv' /\ SpendInv' /\ LeftInv' /\ OvershotInv'
  BY ExactNext, SpendNext, LeftNext, OvershotNext
<1>3. QED
  BY <1>1, <1>2

\* Every behaviour of the system keeps the accounts.
THEOREM Accounting == Spec => []AccountInv
<1>1. Init => AccountInv
  BY AccountInit
<1>2. Inv /\ AccountInv /\ [Next]_vars => AccountInv'
  BY AccountNext
<1>3. QED
  BY <1>1, <1>2, Invariance, PTL DEF Spec

\* As long as no call has billed without the lock, the usage of a budget is the
\* cost of the calls charged to it: none is lost and none counted twice.
THEOREM UsageExactCorrect == Spec => []UsageExact
<1>1. AccountInv => UsageExact
  BY DEF AccountInv, ExactInv, UsageExact
<1>2. QED
  BY <1>1, Accounting, PTL

\* OverspendBounded, of the budgets that the code enforces.
MonthlyBounded ==
  Serial => \A b \in Budgets \ Rolling, m \in 1 .. Months : \A last \in Spenders(b, m) :
    (\A c \in Spenders(b, m) : Cost[c] <= Cost[last]) =>
      Spent(Spenders(b, m)) < Limit[b] + Cost[last]

\* Calls that held the lock throughout overshoot the limit of a monthly budget by
\* less than the dearest of them, whatever other budgets there are.
THEOREM MonthlyBoundedCorrect == Spec => []MonthlyBounded
<1>1. AccountInv => MonthlyBounded
  <2> SUFFICES ASSUME AccountInv, Serial, NEW b \in Budgets \ Rolling, NEW m \in 1 .. Months,
                      NEW last \in Spenders(b, m),
                      \A c \in Spenders(b, m) : Cost[c] <= Cost[last]
               PROVE  Spent(Spenders(b, m)) < Limit[b] + Cost[last]
    BY DEF MonthlyBounded
  <2>1. PICK c \in Spenders(b, m) : Spent(Spenders(b, m)) < Limit[b] + Cost[c]
    BY DEF AccountInv, OvershotInv
  <2>2. c \in Calls /\ last \in Calls /\ Cost[c] <= Cost[last]
    BY DEF Spenders, Charged
  <2>3. Cost[c] \in Nat /\ Cost[last] \in Nat /\ Limit[b] \in Nat /\ Spent(Spenders(b, m)) \in Nat
    BY <2>2, BudgetAssumption, ChargedType DEF AccountInv
  <2>4. QED
    BY <2>1, <2>2, <2>3
<1>2. QED
  BY <1>1, Accounting, PTL

\* Where every budget is monthly, that is the bound on spending that the run
\* budget checks; budget_rolling shows that a rolling budget has none.
THEOREM OverspendBoundedCorrect ==
  ASSUME Rolling = {}
  PROVE  Spec => []OverspendBounded
<1>1. MonthlyBounded => OverspendBounded
  BY DEF MonthlyBounded, OverspendBounded
<1>2. QED
  BY <1>1, MonthlyBoundedCorrect, PTL
=============================================================================
