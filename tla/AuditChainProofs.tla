-------------------------- MODULE AuditChainProofs --------------------------
(***************************************************************************)
(* AuditChain for any number of handlers and events.  What the proofs rest *)
(* on: a session with uncommitted rows holds the write lock, so nobody     *)
(* else appends or clears the log, and the last hash that a handler has    *)
(* read is still the last one unless it read it without the lock and was   *)
(* overtaken.  So the chain can only break there, and never does if every  *)
(* handler either writes before it logs or rolls back.                     *)
(***************************************************************************)
EXTENDS AuditChain, SequenceTheorems, FiniteSetTheorems, TLAPS

-----------------------------------------------------------------------------
(* Rows and what a session sees of them.                                    *)

\* The last hash of a well-typed log is a hash, and a new row is well typed.
LEMMA RowType ==
  /\ \A rows \in Seq(Rows) : _get_last_hash(rows) \in Hashes
  /\ \A h \in Hashes, e \in Events : Row(h, e) \in Rows
<1>1. ASSUME NEW rows \in Seq(Rows) PROVE _get_last_hash(rows) \in Hashes
  <2>1. CASE rows = <<>>
    BY <2>1 DEF _get_last_hash, _GENESIS_HASH, Hashes
  <2>2. CASE rows # <<>>
    <3>1. Len(rows) \in DOMAIN rows
      BY <2>2
    <3>2. rows[Len(rows)] \in Rows
      BY <3>1
    <3> QED BY <2>2, <3>2 DEF _get_last_hash, Last, Rows
  <2> QED BY <2>1, <2>2
<1>2. ASSUME NEW h \in Hashes, NEW e \in Events PROVE Row(h, e) \in Rows
  <2>1. Append(h, e) \in Hashes
    BY DEF Hashes
  <2> QED BY <2>1 DEF Row, Rows, _compute_hash
<1> QED BY <1>1, <1>2

\* A session that has inserted nothing sees the committed rows.
LEMMA CleanView ==
  ASSUME TypeOK, NEW w \in Writers, own[w] = <<>>
  PROVE  View(w) = log
BY ConcatEmptySeq DEF TypeOK, View

\* Inserting into a session's rows appends to what it sees.
LEMMA ViewAppend ==
  ASSUME TypeOK, NEW w \in Writers, NEW new \in Rows
  PROVE  log \o Append(own[w], new) = Append(View(w), new)
<1> DEFINE o == own[w]
           p == Append(o, new)
           s == log \o p
           t == Append(View(w), new)
<1>1. log \in Seq(Rows) /\ o \in Seq(Rows) /\ Len(log) \in Nat /\ Len(o) \in Nat
  BY DEF TypeOK
<1>2. /\ p \in Seq(Rows) /\ Len(p) = Len(o) + 1
      /\ \A i \in 1 .. Len(o) : p[i] = o[i]
      /\ p[Len(o) + 1] = new
  BY <1>1, AppendProperties
<1>3. /\ View(w) \in Seq(Rows) /\ Len(View(w)) = Len(log) + Len(o)
      /\ \A i \in 1 .. Len(log) + Len(o) :
           View(w)[i] = IF i <= Len(log) THEN log[i] ELSE o[i - Len(log)]
  BY <1>1, ConcatProperties DEF View
<1>4. /\ t \in Seq(Rows) /\ Len(t) = Len(View(w)) + 1
      /\ \A i \in 1 .. Len(View(w)) : t[i] = View(w)[i]
      /\ t[Len(View(w)) + 1] = new
  BY <1>3, AppendProperties
<1> HIDE DEF o, p, t
<1>5. /\ s \in Seq(Rows) /\ Len(s) = Len(log) + Len(p)
      /\ \A i \in 1 .. Len(log) + Len(p) :
           s[i] = IF i <= Len(log) THEN log[i] ELSE p[i - Len(log)]
  BY <1>1, <1>2, ConcatProperties
<1> HIDE DEF s
<1>6. ASSUME NEW i \in 1 .. Len(s) PROVE s[i] = t[i]
  <2>0. i \in Nat /\ 1 <= i /\ i <= Len(log) + Len(o) + 1
    BY <1>1, <1>2, <1>5
  <2>1. CASE i <= Len(log)
    <3>1. i \in 1 .. Len(log) + Len(o) /\ i \in 1 .. Len(log) + Len(p)
      BY <1>1, <1>2, <2>0, <2>1
    <3> QED BY <1>3, <1>4, <1>5, <2>1, <3>1
  <2>2. CASE i > Len(log) /\ i <= Len(log) + Len(o)
    <3>1. i - Len(log) \in 1 .. Len(o)
      BY <1>1, <1>2, <1>5, <2>2
    <3>2. s[i] = p[i - Len(log)] /\ t[i] = View(w)[i] /\ View(w)[i] = o[i - Len(log)]
      BY <1>1, <1>2, <1>3, <1>4, <1>5, <2>2
    <3> QED BY <1>2, <3>1, <3>2
  <2>3. CASE i = Len(log) + Len(o) + 1
    <3>1. s[i] = p[Len(o) + 1]
      BY <1>1, <1>2, <1>5, <2>3
    <3> QED BY <1>2, <1>3, <1>4, <2>3, <3>1
  <2> QED BY <1>1, <2>0, <2>1, <2>2, <2>3
<1>7. s = t
  <2>1. Len(s) = Len(t)
    BY <1>1, <1>2, <1>3, <1>4, <1>5
  <2> QED BY <1>4, <1>5, <1>6, <2>1, SeqEqual
<1> QED BY <1>7 DEF s, t, p, o

-----------------------------------------------------------------------------
(* Type correctness.                                                        *)

\* log_event is not called past the bound, so that the event it inserts has an
\* identity among Events.
Bounded == \A w \in Writers : pc[w] = "read" => Len(own[w]) < MaxEvents

TypeInv == TypeOK /\ Bounded

\* The empty log is well typed.
LEMMA TypeInit == Init => TypeInv
BY DEF Init, TypeInv, TypeOK, Bounded, Hashes, _GENESIS_HASH

\* No step of a handler breaks a type or passes the bound.
LEMMA TypeStep == TypeInv /\ [Next]_vars => TypeInv'
<1> SUFFICES ASSUME TypeInv, [Next]_vars PROVE TypeInv'
  OBVIOUS
<1> USE DEF TypeInv, TypeOK, Bounded, Ends
<1>0. \A w \in Writers : own[w] \in Seq(Rows) /\ Len(own[w]) \in Nat
  OBVIOUS
<1>1. CASE UNCHANGED vars
  BY <1>1 DEF vars
<1>r. ASSUME NEW w \in Writers, ResetLog(w) PROVE TypeInv'
  BY <1>r DEF ResetLog, HaveRead
<1>2. ASSUME NEW w \in Writers, HandlerWork(w) PROVE TypeInv'
  BY <1>2 DEF HandlerWork
<1>3. ASSUME NEW w \in Writers, ReadLastHash(w) PROVE TypeInv'
  <2>1. View(w) \in Seq(Rows)
    BY <1>0, ConcatProperties DEF View
  <2>2. _get_last_hash(View(w)) \in Hashes
    BY <2>1, RowType
  <2> QED BY <1>3, <2>2 DEF ReadLastHash
<1>4. ASSUME NEW w \in Writers, InsertEvent(w) PROVE TypeInv'
  <2> DEFINE new == Row(seen[w], <<w, Len(own[w]) + 1>>)
  <2>1. own' = [own EXCEPT ![w] = Append(own[w], new)]
    BY <1>4 DEF InsertEvent
  <2>2. <<w, Len(own[w]) + 1>> \in Events
    BY <1>0, <1>4, AuditAssumption DEF InsertEvent, Events
  <2>3. new \in Rows
    BY <2>2, RowType
  <2> HIDE DEF new
  <2>4. Append(own[w], new) \in Seq(Rows)
    BY <1>0, <2>3, AppendProperties
  <2>5. pc' = [pc EXCEPT ![w] = "ready"] /\ lock' = w /\ log' = log /\ seen' = seen
        /\ wiped' = wiped /\ overtaken' = overtaken
    BY <1>4 DEF InsertEvent
  <2>6. TypeOK'
    BY <2>1, <2>4, <2>5
  <2>7. Bounded'
    BY <2>1, <2>5
  <2> QED BY <2>6, <2>7
<1>5. ASSUME NEW w \in Writers, Commit(w) PROVE TypeInv'
  <2>1. View(w) \in Seq(Rows)
    BY <1>0, ConcatProperties DEF View
  <2>2. log' \in Seq(Rows)
    BY <1>5, <2>1 DEF Commit
  <2> QED BY <1>5, <2>2 DEF Commit, HaveRead
<1>6. ASSUME NEW w \in Writers, NEW how \in Ends, Rollback(w, how) PROVE TypeInv'
  BY <1>6 DEF Rollback
<1>7. ASSUME NEW w \in Writers, Step(w) PROVE TypeInv'
  BY <1>r, <1>2, <1>3, <1>4, <1>5, <1>6, <1>7 DEF Step, RaiseRefusal, Fail
<1> QED BY <1>1, <1>7 DEF Next, Finished

\* Every reachable state is well typed, whatever the handlers' write order.
THEOREM TypeCorrect == Spec => []TypeOK
<1>1. TypeInv => TypeOK
  BY DEF TypeInv
<1> QED BY <1>1, TypeInit, TypeStep, PTL DEF Spec

-----------------------------------------------------------------------------
(* Where the chain may break.                                               *)

\* Uncommitted rows belong to the session that holds the write lock.
DirtyHoldsLock == \A w \in Writers : own[w] # <<>> => lock = w

\* A handler that writes before it logs holds the lock from then on.
ReadyHoldsLock ==
  \A w \in LockFirst : pc[w] \in {"ready", "read"} => lock = w

\* Rows break only at the first event of an overtaken handler.
Named(rows, over) ==
  \A i \in DOMAIN rows :
    ~Intact(rows, i) => rows[i].event[1] \in over /\ rows[i].event[2] = 1

\* What a session has read is the last hash it sees, unless it has inserted
\* nothing and was overtaken.
SeenUnlessOvertaken ==
  \A w \in Writers :
    pc[w] = "read" /\ seen[w] # _get_last_hash(View(w))
      => own[w] = <<>> /\ w \in overtaken

\* A handler that writes before it logs is never overtaken, one that rejects
\* never commits.
ClassesKept ==
  /\ \A w \in LockFirst : w \notin overtaken
  /\ \A w \in Rejecting : pc[w] # "committed"

ForkInv ==
  /\ TypeInv /\ DirtyHoldsLock /\ ReadyHoldsLock /\ ClassesKept
  /\ SeenUnlessOvertaken
  /\ Named(log, overtaken)
  /\ \A w \in Writers : Named(View(w), overtaken)

\* A row appended to a log breaks it only if it is not chained to the last hash.
LEMMA NamedAppend ==
  ASSUME NEW rows \in Seq(Rows), NEW over, NEW h \in Hashes, NEW e \in Events,
         Named(rows, over),
         h # _get_last_hash(rows) => e[1] \in over /\ e[2] = 1
  PROVE  Named(Append(rows, Row(h, e)), over)
<1> DEFINE new == Row(h, e)
           s   == Append(rows, new)
<1>1. new \in Rows /\ Len(rows) \in Nat
  BY RowType
<1>2. /\ DOMAIN s = 1 .. Len(rows) + 1
      /\ \A i \in DOMAIN rows : s[i] = rows[i]
      /\ s[Len(rows) + 1] = new
      /\ DOMAIN rows = 1 .. Len(rows)
  BY <1>1, AppendProperties
<1>3. new.event = e /\ new.previous_hash = h /\ new.event_hash = _compute_hash(h, e)
  BY DEF Row
<1> HIDE DEF new, s
<1>4. ASSUME NEW i \in DOMAIN rows, ~Intact(s, i) PROVE s[i].event[1] \in over /\ s[i].event[2] = 1
  <2>1. s[i] = rows[i] /\ (i # 1 => s[i - 1] = rows[i - 1])
    BY <1>1, <1>2
  <2>2. ~Intact(rows, i)
    BY <1>4, <2>1 DEF Intact
  <2> QED BY <2>1, <2>2 DEF Named
<1>5. ASSUME ~Intact(s, Len(rows) + 1) PROVE e[1] \in over /\ e[2] = 1
  <2>1. h # IF Len(rows) + 1 = 1 THEN _GENESIS_HASH ELSE s[Len(rows) + 1 - 1].event_hash
    BY <1>2, <1>3, <1>5 DEF Intact
  <2>2. CASE rows = <<>>
    BY <2>1, <2>2 DEF _get_last_hash
  <2>3. CASE rows # <<>>
    <3>1. Len(rows) \in DOMAIN rows /\ Len(rows) + 1 # 1 /\ Len(rows) + 1 - 1 = Len(rows)
      BY <2>3, <1>1, <1>2
    <3>2. s[Len(rows)] = rows[Len(rows)]
      BY <3>1, <1>2
    <3>3. _get_last_hash(rows) = rows[Len(rows)].event_hash
      BY <2>3 DEF _get_last_hash, Last
    <3> QED BY <2>1, <3>1, <3>2, <3>3
  <2> QED BY <2>2, <2>3
<1>6. \A i \in DOMAIN s : i \in DOMAIN rows \/ i = Len(rows) + 1
  BY <1>1, <1>2
<1>7. Named(s, over)
  BY <1>2, <1>3, <1>4, <1>5, <1>6 DEF Named
<1> QED BY <1>7 DEF s, new

\* More handlers overtaken explain no fewer breaks.
LEMMA NamedMore ==
  ASSUME NEW rows, NEW over, NEW more, over \subseteq more, Named(rows, over)
  PROVE  Named(rows, more)
BY DEF Named

\* The empty log does not break, and nobody has read it yet.
LEMMA ForkInit == Init => ForkInv
<1> SUFFICES ASSUME Init PROVE ForkInv
  OBVIOUS
<1>1. Named(<<>>, overtaken)
  BY DEF Named
<1>2. \A w \in Writers : View(w) = log
  BY TypeInit, CleanView DEF Init, TypeInv
<1>3. DirtyHoldsLock /\ ReadyHoldsLock /\ ClassesKept /\ SeenUnlessOvertaken
  BY AuditAssumption DEF Init, DirtyHoldsLock, ReadyHoldsLock, ClassesKept, SeenUnlessOvertaken
<1> QED BY TypeInit, <1>1, <1>2, <1>3 DEF Init, ForkInv

\* Every step keeps the lock's discipline and explains the breaks it makes.
LEMMA ForkStep == ForkInv /\ [Next]_vars => ForkInv'
<1> SUFFICES ASSUME ForkInv, [Next]_vars PROVE ForkInv'
  OBVIOUS
<1>0. TypeInv' /\ TypeInv /\ TypeOK /\ TypeOK'
  BY TypeStep DEF ForkInv, TypeInv
<1>a. LockFirst \subseteq Writers /\ Rejecting \subseteq Writers /\ None \notin Writers
  BY AuditAssumption
<1>b. /\ Named(log, overtaken)
      /\ \A v \in Writers : Named(View(v), overtaken)
  BY DEF ForkInv
<1> USE DEF DirtyHoldsLock, ReadyHoldsLock, ClassesKept, SeenUnlessOvertaken
<1>c. DirtyHoldsLock /\ ReadyHoldsLock /\ ClassesKept /\ SeenUnlessOvertaken
  BY DEF ForkInv
<1>1. CASE UNCHANGED vars
  BY <1>0, <1>1, <1>b, <1>c DEF vars, View, ForkInv
\* A commit or reset leaves no session with rows of its own.
<1>d. ASSUME \A v \in Writers : own'[v] = <<>>,
             overtaken' = overtaken \cup HaveRead,
             Named(log', overtaken'),
             \A v \in Writers : pc'[v] = "read" => pc[v] = "read",
             lock' = None,
             \A v \in LockFirst : pc[v] # "read" /\ pc'[v] \notin {"ready", "read"},
             \A v \in Rejecting : pc'[v] # "committed"
      PROVE  ForkInv'
  <2>1. \A v \in Writers : View(v)' = log'
    BY <1>0, <1>d, ConcatEmptySeq DEF TypeOK, View
  <2>2. SeenUnlessOvertaken'
    BY <1>d DEF HaveRead
  <2>3. DirtyHoldsLock' /\ ReadyHoldsLock'
    BY <1>d
  <2>4. ClassesKept'
    BY <1>a, <1>c, <1>d DEF HaveRead
  <2> QED BY <1>0, <1>d, <2>1, <2>2, <2>3, <2>4 DEF ForkInv
<1>r. ASSUME NEW w \in Writers, ResetLog(w) PROVE ForkInv'
  <2>1. /\ log' = <<>> /\ own' = own /\ lock' = None /\ lock = None
        /\ pc' = [pc EXCEPT ![w] = "cleared"] /\ pc[w] = "start"
        /\ overtaken' = overtaken \cup HaveRead
    BY <1>r DEF ResetLog
  <2>2. Named(<<>>, overtaken')
    BY DEF Named
  <2>3. \A v \in Writers : own'[v] = <<>>
    BY <1>a, <1>c, <2>1
  <2>4. \A v \in LockFirst : pc[v] \notin {"ready", "read"}
    BY <1>a, <1>c, <2>1
  <2>5. \A v \in Writers : pc'[v] = pc[v] \/ pc'[v] = "cleared"
    BY <1>0, <2>1 DEF TypeOK
  <2> QED BY <1>a, <1>c, <1>d, <2>1, <2>2, <2>3, <2>4, <2>5
<1>2. ASSUME NEW w \in Writers, HandlerWork(w) PROVE ForkInv'
  <2>1. log' = log /\ own' = own /\ seen' = seen /\ overtaken' = overtaken
    BY <1>2 DEF HandlerWork
  <2>2. \A v \in Writers : View(v)' = View(v)
    BY <2>1 DEF View
  <2>3. \A v \in Writers : pc'[v] = pc[v] \/ pc'[v] = "ready"
    BY <1>0, <1>2 DEF HandlerWork, TypeOK
  <2>4. DirtyHoldsLock'
    BY <1>2, <1>a, <1>c, <2>1 DEF HandlerWork
  <2>5. ReadyHoldsLock'
    BY <1>0, <1>2, <1>a, <1>c, <2>1 DEF HandlerWork, TypeOK
  <2>6. SeenUnlessOvertaken' /\ ClassesKept'
    BY <1>a, <1>c, <2>1, <2>2, <2>3
  <2> QED BY <1>0, <1>b, <2>1, <2>2, <2>4, <2>5, <2>6 DEF ForkInv
<1>3. ASSUME NEW w \in Writers, ReadLastHash(w) PROVE ForkInv'
  <2>1. /\ log' = log /\ own' = own /\ lock' = lock /\ overtaken' = overtaken
        /\ pc[w] = "ready" /\ pc' = [pc EXCEPT ![w] = "read"]
        /\ seen' = [seen EXCEPT ![w] = _get_last_hash(View(w))]
    BY <1>3 DEF ReadLastHash
  <2>2. \A v \in Writers : View(v)' = View(v)
    BY <2>1 DEF View
  <2>3. \A v \in Writers \ {w} : pc'[v] = pc[v] /\ seen'[v] = seen[v]
    BY <1>0, <2>1 DEF TypeOK
  <2>4. pc'[w] = "read" /\ seen'[w] = _get_last_hash(View(w))
    BY <1>0, <2>1 DEF TypeOK
  <2>5. SeenUnlessOvertaken'
    BY <1>c, <2>1, <2>2, <2>3, <2>4
  <2>6. ReadyHoldsLock' /\ DirtyHoldsLock' /\ ClassesKept'
    BY <1>a, <1>c, <2>1, <2>3, <2>4
  <2> QED BY <1>0, <1>b, <2>1, <2>2, <2>5, <2>6 DEF ForkInv
<1>4. ASSUME NEW w \in Writers, InsertEvent(w) PROVE ForkInv'
  <2> DEFINE e == <<w, Len(own[w]) + 1>>
             new == Row(seen[w], e)
  <2>1. /\ log' = log /\ seen' = seen /\ lock' = w /\ lock \in {None, w}
        /\ own' = [own EXCEPT ![w] = Append(own[w], new)] /\ overtaken' = overtaken
        /\ pc' = [pc EXCEPT ![w] = "ready"] /\ pc[w] = "read"
    BY <1>4 DEF InsertEvent
  <2>2. e \in Events
    BY <1>0, <2>1, AuditAssumption DEF TypeInv, TypeOK, Bounded, Events
  <2>3. new \in Rows /\ seen[w] \in Hashes
    BY <1>0, <2>2, RowType DEF TypeOK
  <2>4. \A v \in Writers \ {w} : own'[v] = own[v] /\ lock # v /\ pc'[v] = pc[v]
    BY <1>0, <2>1, <1>a DEF TypeOK
  <2>5. \A v \in Writers \ {w} : View(v)' = View(v)
    BY <2>1, <2>4 DEF View
  <2>6. View(w)' = Append(View(w), new)
    <3>1. View(w)' = log \o Append(own[w], new)
      BY <1>0, <2>1 DEF View, TypeOK
    <3> QED BY <1>0, <2>3, <3>1, ViewAppend
  <2>7. Named(Append(View(w), new), overtaken)
    <3>1. View(w) \in Seq(Rows)
      BY <1>0, ConcatProperties DEF TypeOK, View
    <3>2. seen[w] # _get_last_hash(View(w)) => e[1] \in overtaken /\ e[2] = 1
      BY <1>c, <2>1
    <3> HIDE DEF e
    <3> QED BY <1>b, <2>2, <2>3, <3>1, <3>2, NamedAppend
  <2> HIDE DEF new
  <2>8. \A v \in Writers : Named(View(v)', overtaken')
    BY <1>b, <2>1, <2>5, <2>6, <2>7
  <2>9. DirtyHoldsLock'
    BY <1>c, <2>1, <2>4
  <2>10. ReadyHoldsLock' /\ ClassesKept'
    BY <1>0, <1>a, <1>c, <2>1, <2>4 DEF TypeOK
  <2>11. SeenUnlessOvertaken'
    BY <1>0, <1>c, <2>1, <2>4, <2>5 DEF TypeOK
  <2> QED BY <1>0, <1>b, <2>1, <2>8, <2>9, <2>10, <2>11 DEF ForkInv
<1>5. ASSUME NEW w \in Writers, Commit(w) PROVE ForkInv'
  <2>1. /\ log' = View(w) /\ lock' = None /\ own[w] # <<>> /\ w \notin Rejecting
        /\ own' = [own EXCEPT ![w] = <<>>] /\ pc[w] = "ready"
        /\ overtaken' = overtaken \cup HaveRead
        /\ pc' = [pc EXCEPT ![w] = "committed"]
    BY <1>5 DEF Commit
  <2>2. lock = w
    BY <1>c, <2>1
  <2>3. \A v \in Writers : own'[v] = <<>>
    BY <1>0, <1>c, <2>1, <2>2 DEF TypeOK
  <2>4. Named(log', overtaken')
    BY <1>b, <2>1, NamedMore
  <2>5. /\ \A v \in Writers \ {w} : pc'[v] = pc[v]
        /\ pc'[w] = "committed"
    BY <1>0, <2>1 DEF TypeOK
  <2>6. \A v \in LockFirst : pc[v] # "read" /\ pc'[v] \notin {"ready", "read"}
    BY <1>a, <1>c, <2>1, <2>2, <2>5
  <2>7. \A v \in Rejecting : pc'[v] # "committed"
    BY <1>a, <1>c, <2>1, <2>5
  <2>8. \A v \in Writers : pc'[v] = "read" => pc[v] = "read"
    BY <2>5
  <2> QED BY <1>d, <2>1, <2>3, <2>4, <2>6, <2>7, <2>8
<1>6. ASSUME NEW w \in Writers, NEW how \in {"rejected", "failed"}, Rollback(w, how)
      PROVE  ForkInv'
  <2>1. /\ log' = log /\ seen' = seen /\ own' = [own EXCEPT ![w] = <<>>]
        /\ lock' = (IF lock = w THEN None ELSE lock) /\ overtaken' = overtaken
        /\ pc' = [pc EXCEPT ![w] = how]
    BY <1>6 DEF Rollback
  <2>2. \A v \in Writers \ {w} : own'[v] = own[v] /\ View(v)' = View(v) /\ pc'[v] = pc[v]
    BY <1>0, <2>1 DEF TypeOK, View
  <2>3. own'[w] = <<>> /\ pc'[w] \notin {"ready", "read", "committed"} /\ lock' # w
    BY <1>0, <1>a, <2>1 DEF TypeOK
  <2>4. \A v \in Writers \ {w} : lock' = v <=> lock = v
    BY <1>a, <2>1
  <2>5. View(w)' = log
    BY <1>0, <2>1, <2>3, ConcatEmptySeq DEF View, TypeOK
  <2>6. \A v \in Writers : Named(View(v)', overtaken')
    BY <1>b, <2>1, <2>2, <2>5
  <2>7. DirtyHoldsLock' /\ ReadyHoldsLock' /\ ClassesKept'
    BY <1>a, <1>c, <2>1, <2>2, <2>3, <2>4
  <2>8. SeenUnlessOvertaken'
    BY <1>c, <2>1, <2>2, <2>3
  <2> QED BY <1>0, <1>b, <2>1, <2>6, <2>7, <2>8 DEF ForkInv
<1>7. ASSUME NEW w \in Writers, Step(w) PROVE ForkInv'
  BY <1>r, <1>2, <1>3, <1>4, <1>5, <1>6, <1>7 DEF Step, RaiseRefusal, Fail
<1> QED BY <1>1, <1>7 DEF Next, Finished

-----------------------------------------------------------------------------
(* What the rows are chained to.                                            *)

\* Every event hashed into a hash is a committed handler's or w's own, by the
\* pc given.
Known(hash, w, at) == \A e \in Range(hash) : e[1] = w \/ e[1] \in {v \in Writers : at[v] = "committed"}

Committed(hash, at) == \A e \in Range(hash) : e[1] \in {v \in Writers : at[v] = "committed"}

\* No session has read or inserted a hash of what was rolled back.
KnownInv ==
  /\ \A i \in DOMAIN log : Committed(log[i].event_hash, pc)
  /\ \A w \in Writers : /\ Known(seen[w], w, pc)
                        /\ \A k \in DOMAIN own[w] : Known(own[w][k].event_hash, w, pc)

\* The last hash of the rows a session sees is one of theirs or the genesis hash.
LEMMA LastHashOf ==
  ASSUME NEW rows \in Seq(Rows)
  PROVE  \/ _get_last_hash(rows) = _GENESIS_HASH
         \/ \E i \in DOMAIN rows : _get_last_hash(rows) = rows[i].event_hash
<1>1. CASE rows # <<>>
  <2>1. Len(rows) \in DOMAIN rows
    BY <1>1
  <2> QED BY <1>1, <2>1 DEF _get_last_hash, Last
<1> QED BY <1>1 DEF _get_last_hash

\* The rows a session sees are committed or its own.
LEMMA ViewOf ==
  ASSUME TypeOK, NEW w \in Writers, NEW i \in DOMAIN View(w)
  PROVE  \/ i \in DOMAIN log /\ View(w)[i] = log[i]
         \/ \E k \in DOMAIN own[w] : View(w)[i] = own[w][k]
<1>1. log \in Seq(Rows) /\ own[w] \in Seq(Rows) /\ Len(log) \in Nat /\ Len(own[w]) \in Nat
  BY DEF TypeOK
<1>2. /\ Len(View(w)) = Len(log) + Len(own[w]) /\ View(w) \in Seq(Rows)
      /\ \A j \in 1 .. Len(log) + Len(own[w]) :
           View(w)[j] = IF j <= Len(log) THEN log[j] ELSE own[w][j - Len(log)]
  BY <1>1, ConcatProperties DEF View
<1>3. i \in 1 .. Len(log) + Len(own[w])
  BY <1>2
<1>4. CASE i <= Len(log)
  BY <1>1, <1>2, <1>3, <1>4
<1>5. CASE i > Len(log)
  <2>1. i - Len(log) \in DOMAIN own[w]
    BY <1>1, <1>3, <1>5
  <2> QED BY <1>1, <1>2, <1>3, <1>5, <2>1
<1> QED BY <1>1, <1>3, <1>4, <1>5

\* The events of a longer hash.
LEMMA RangeAppend ==
  ASSUME NEW h \in Hashes, NEW e, NEW f \in Range(Append(h, e))
  PROVE  f \in Range(h) \/ f = e
<1>1. h \in Seq(Events) /\ Len(h) \in Nat
  BY DEF Hashes
<1>2. PICK i \in DOMAIN Append(h, e) : f = Append(h, e)[i]
  BY DEF Range
<1>3. CASE i \in 1 .. Len(h)
  BY <1>1, <1>2, <1>3 DEF Range
<1>4. CASE i = Len(h) + 1
  BY <1>1, <1>2, <1>4
<1> QED BY <1>1, <1>2, <1>3, <1>4

\* No step reads, inserts or commits a hash of what was rolled back.
LEMMA KnownStep == TypeInv /\ KnownInv /\ [Next]_vars => KnownInv'
<1> SUFFICES ASSUME TypeInv, KnownInv, [Next]_vars PROVE KnownInv'
  OBVIOUS
<1>0. TypeOK
  BY DEF TypeInv
<1>a. /\ \A i \in DOMAIN log : Committed(log[i].event_hash, pc)
      /\ \A w \in Writers : /\ Known(seen[w], w, pc)
                            /\ \A k \in DOMAIN own[w] : Known(own[w][k].event_hash, w, pc)
  BY DEF KnownInv
\* What is committed stays so, hence what is known.
<1>b. ASSUME \A v \in Writers : pc[v] = "committed" => pc'[v] = "committed"
      PROVE  /\ \A hash : Committed(hash, pc) => Committed(hash, pc')
             /\ \A hash, v : Known(hash, v, pc) => Known(hash, v, pc')
  BY <1>b DEF Committed, Known
<1>1. CASE UNCHANGED vars
  BY <1>1 DEF vars, KnownInv, Known, Committed
<1>c. ASSUME NEW w \in Writers, Step(w) PROVE \A v \in Writers : pc[v] = "committed" => pc'[v] = "committed"
  BY <1>0, <1>c DEF Step, ResetLog, HandlerWork, ReadLastHash, InsertEvent, Commit,
                    RaiseRefusal, Fail, Rollback, Ends, TypeOK
<1>2. ASSUME NEW w \in Writers, Step(w), log' \in {log, <<>>},
             \A v \in Writers : seen'[v] = seen[v] \/ Known(seen'[v], v, pc),
             \A v \in Writers : \A k \in DOMAIN own'[v] :
               \/ k \in DOMAIN own[v] /\ own'[v][k] = own[v][k]
               \/ Known(own'[v][k].event_hash, v, pc)
      PROVE  KnownInv'
  <2>1. /\ \A hash : Committed(hash, pc) => Committed(hash, pc')
        /\ \A hash, v : Known(hash, v, pc) => Known(hash, v, pc')
    BY <1>2, <1>b, <1>c
  <2>2. \A i \in DOMAIN log' : Committed(log'[i].event_hash, pc)
    BY <1>2, <1>a
  <2>3. \A v \in Writers : /\ Known(seen'[v], v, pc)
                           /\ \A k \in DOMAIN own'[v] : Known(own'[v][k].event_hash, v, pc)
    BY <1>2, <1>a
  <2> QED BY <2>1, <2>2, <2>3 DEF KnownInv
<1>3. ASSUME NEW w \in Writers, ReadLastHash(w) PROVE KnownInv'
  <2>1. Known(_get_last_hash(View(w)), w, pc)
    <3>1. View(w) \in Seq(Rows)
      BY <1>0, ConcatProperties DEF TypeOK, View
    <3>2. CASE _get_last_hash(View(w)) = _GENESIS_HASH
      BY <3>2 DEF Known, Range, _GENESIS_HASH
    <3>3. ASSUME NEW i \in DOMAIN View(w), _get_last_hash(View(w)) = View(w)[i].event_hash
          PROVE  Known(_get_last_hash(View(w)), w, pc)
      <4>1. CASE i \in DOMAIN log /\ View(w)[i] = log[i]
        BY <1>a, <3>3, <4>1 DEF Known, Committed
      <4>2. CASE \E k \in DOMAIN own[w] : View(w)[i] = own[w][k]
        BY <1>a, <3>3, <4>2
      <4> QED BY <1>0, <4>1, <4>2, ViewOf
    <3> QED BY <3>1, <3>2, <3>3, LastHashOf
  <2>2. log' = log /\ own' = own /\ seen' = [seen EXCEPT ![w] = _get_last_hash(View(w))]
    BY <1>3 DEF ReadLastHash
  <2>3. \A v \in Writers : seen'[v] = seen[v] \/ Known(seen'[v], v, pc)
    BY <1>0, <2>1, <2>2 DEF TypeOK
  <2>4. Step(w)
    BY <1>3 DEF Step
  <2> QED BY <1>2, <2>2, <2>3, <2>4
<1>4. ASSUME NEW w \in Writers, InsertEvent(w) PROVE KnownInv'
  <2>1. PICK new : new = Row(seen[w], <<w, Len(own[w]) + 1>>)
    OBVIOUS
  <2>2. log' = log /\ seen' = seen /\ own' = [own EXCEPT ![w] = Append(own[w], new)]
    BY <1>4, <2>1 DEF InsertEvent
  <2>3. Known(new.event_hash, w, pc)
    <3>1. new.event_hash = Append(seen[w], <<w, Len(own[w]) + 1>>) /\ seen[w] \in Hashes
      BY <1>0, <2>1 DEF Row, _compute_hash, TypeOK
    <3>2. ASSUME NEW f \in Range(new.event_hash) PROVE f[1] = w \/ f[1] \in {v \in Writers : pc[v] = "committed"}
      <4>1. f \in Range(seen[w]) \/ f = <<w, Len(own[w]) + 1>>
        BY <3>1, <3>2, RangeAppend
      <4> QED BY <1>a, <4>1 DEF Known
    <3> QED BY <3>2 DEF Known
  <2>4. own[w] \in Seq(Rows) /\ Len(own[w]) \in Nat
    BY <1>0 DEF TypeOK
  <2>5. ASSUME NEW k \in DOMAIN Append(own[w], new)
        PROVE  \/ k \in DOMAIN own[w] /\ Append(own[w], new)[k] = own[w][k]
               \/ Append(own[w], new)[k] = new
    BY <2>4
  <2>6. \A v \in Writers : own'[v] = IF v = w THEN Append(own[w], new) ELSE own[v]
    BY <1>0, <2>2 DEF TypeOK
  <2>7. \A v \in Writers : \A k \in DOMAIN own'[v] :
          \/ k \in DOMAIN own[v] /\ own'[v][k] = own[v][k]
          \/ Known(own'[v][k].event_hash, v, pc)
    BY <2>3, <2>5, <2>6
  <2>8. Step(w)
    BY <1>4 DEF Step
  <2> QED BY <1>2, <2>2, <2>7, <2>8
<1>5. ASSUME NEW w \in Writers, Commit(w) PROVE KnownInv'
  <2>1. /\ log' = View(w) /\ seen' = seen /\ own' = [own EXCEPT ![w] = <<>>]
        /\ pc' = [pc EXCEPT ![w] = "committed"]
    BY <1>5 DEF Commit
  <2>2. pc'[w] = "committed"
    BY <1>0, <2>1 DEF TypeOK
  <2>3. /\ \A hash : Committed(hash, pc) => Committed(hash, pc')
        /\ \A hash, v : Known(hash, v, pc) => Known(hash, v, pc')
    BY <1>5, <1>b, <1>c DEF Step
  <2>4. \A hash : Known(hash, w, pc) => Committed(hash, pc')
    BY <2>2, <2>3 DEF Known, Committed
  <2>5. ASSUME NEW i \in DOMAIN View(w) PROVE Committed(View(w)[i].event_hash, pc')
    <3>1. CASE i \in DOMAIN log /\ View(w)[i] = log[i]
      BY <1>a, <2>3, <3>1
    <3>2. CASE \E k \in DOMAIN own[w] : View(w)[i] = own[w][k]
      BY <1>a, <2>4, <3>2
    <3> QED BY <1>0, <3>1, <3>2, ViewOf
  <2>6. \A v \in Writers : own'[v] \in {own[v], <<>>}
    BY <1>0, <2>1 DEF TypeOK
  <2>7. \A v \in Writers : /\ Known(seen'[v], v, pc')
                           /\ \A k \in DOMAIN own'[v] : Known(own'[v][k].event_hash, v, pc')
    <3>1. ASSUME NEW v \in Writers, NEW k \in DOMAIN own'[v] PROVE Known(own'[v][k].event_hash, v, pc')
      <4>1. own'[v] = own[v]
        BY <2>6, <3>1
      <4> QED BY <1>a, <2>3, <3>1, <4>1
    <3>2. \A v \in Writers : Known(seen'[v], v, pc')
      BY <1>a, <2>1, <2>3
    <3> QED BY <3>1, <3>2
  <2> QED BY <2>1, <2>5, <2>7 DEF KnownInv
<1>6. ASSUME NEW w \in Writers, Step(w), ResetLog(w) \/ HandlerWork(w) \/ RaiseRefusal(w) \/ Fail(w)
      PROVE  KnownInv'
  <2>1. log' \in {log, <<>>} /\ seen' = seen /\ own' \in {own, [own EXCEPT ![w] = <<>>]}
    BY <1>6 DEF ResetLog, HandlerWork, RaiseRefusal, Fail, Rollback
  <2>2. \A v \in Writers : own'[v] \in {own[v], <<>>}
    BY <1>0, <2>1 DEF TypeOK
  <2> QED BY <1>2, <1>6, <2>1, <2>2
<1>7. ASSUME NEW w \in Writers, Step(w) PROVE KnownInv'
  BY <1>3, <1>4, <1>5, <1>6, <1>7 DEF Step
<1> QED BY <1>1, <1>7 DEF Next, Finished

\* Whatever the handlers' write order, the chain breaks only where a handler
\* that logged without the lock was overtaken, and is never chained to what was
\* rolled back.
THEOREM ForksNamedCorrect == Spec => []ForksNamed
<1>1. Init => KnownInv
  BY DEF Init, KnownInv, Known, Range, _GENESIS_HASH
<1>2. ForkInv /\ KnownInv => ForksNamed
  <2> SUFFICES ASSUME ForkInv, KnownInv, NEW i \in DOMAIN log
               PROVE  /\ ~Intact(log, i) => /\ log[i].event[1] \in overtaken \ LockFirst
                                            /\ log[i].event[2] = 1
                      /\ \A e \in Range(log[i].event_hash) : pc[e[1]] = "committed"
    BY DEF ForksNamed
  <2>1. ~Intact(log, i) => log[i].event[1] \in overtaken /\ log[i].event[2] = 1
    BY DEF ForkInv, Named
  <2>2. \A w \in LockFirst : w \notin overtaken
    BY DEF ForkInv, ClassesKept
  <2>3. Committed(log[i].event_hash, pc)
    BY DEF KnownInv
  <2> QED BY <2>1, <2>2, <2>3 DEF Committed
<1>3. ForkInv => TypeInv
  BY DEF ForkInv
<1> QED BY <1>1, <1>2, <1>3, ForkInit, ForkStep, KnownStep, PTL DEF Spec

-----------------------------------------------------------------------------
(* What verify_chain notices. *)

\* A hash tells the event hashed last, and is not the hash it was made of.
LEMMA HashTells ==
  ASSUME NEW h \in Hashes, NEW e \in Events, NEW f \in Events
  PROVE  /\ _compute_hash(h, e) = _compute_hash(h, f) => e = f
         /\ _compute_hash(h, e) # h
         /\ _compute_hash(h, e) # _GENESIS_HASH
<1>1. h \in Seq(Events) /\ Len(h) \in Nat
  BY DEF Hashes
<1>2. /\ Len(Append(h, e)) = Len(h) + 1
      /\ Append(h, e)[Len(h) + 1] = e /\ Append(h, f)[Len(h) + 1] = f
  BY <1>1, AppendProperties
<1>3. Append(h, e) # h /\ Append(h, e) # <<>>
  BY <1>1, <1>2
<1>4. QED
  BY <1>2, <1>3 DEF _compute_hash, _GENESIS_HASH

\* An intact chain does not stay intact when an event is replaced or a row that
\* others follow is removed.
LEMMA ChainTells ==
  ASSUME NEW rows \in Seq(Rows), verify_chain(rows), NEW i \in DOMAIN rows
  PROVE  /\ \A e \in Events \ {rows[i].event} : ~ verify_chain([rows EXCEPT ![i].event = e])
         /\ i < Len(rows) => ~ verify_chain(RemoveAt(rows, i))
<1>1. /\ Len(rows) \in Nat /\ DOMAIN rows = 1 .. Len(rows)
      /\ \A k \in DOMAIN rows : rows[k] \in Rows /\ Intact(rows, k)
  BY DEF verify_chain
<1>2. \A row \in Rows : row.event \in Events /\ row.previous_hash \in Hashes
  BY DEF Rows
<1>3. ASSUME NEW e \in Events \ {rows[i].event}, verify_chain([rows EXCEPT ![i].event = e])
      PROVE  FALSE
  <2>1. PICK other : other = [rows EXCEPT ![i].event = e]
    OBVIOUS
  <2>2. PICK row \in Rows : row = rows[i]
    BY <1>1
  <2>3. other[i] = [row EXCEPT !.event = e] /\ i \in DOMAIN other
    BY <2>1, <2>2
  <2>4. /\ other[i].event = e /\ other[i].previous_hash = row.previous_hash
        /\ other[i].event_hash = row.event_hash
    BY <2>2, <2>3 DEF Rows
  <2>5. row.event_hash = _compute_hash(row.previous_hash, e)
    BY <1>3, <2>1, <2>3, <2>4 DEF verify_chain, Intact
  <2>6. row.event_hash = _compute_hash(row.previous_hash, row.event)
    BY <1>1, <2>2 DEF Intact
  <2>7. row.previous_hash \in Hashes /\ row.event \in Events /\ e \in Events /\ e # row.event
    BY <1>2, <2>2
  <2>8. _compute_hash(row.previous_hash, e) # _compute_hash(row.previous_hash, row.event)
    BY <2>7, HashTells
  <2>9. QED
    BY <2>5, <2>6, <2>8
<1>4. ASSUME i < Len(rows), verify_chain(RemoveAt(rows, i))
      PROVE  FALSE
  <2>1. PICK before, after : before = SubSeq(rows, 1, i - 1) /\ after = SubSeq(rows, i + 1, Len(rows))
    OBVIOUS
  <2>2. /\ before \in Seq(Rows) /\ Len(before) = i - 1
        /\ \A k \in 1 .. i - 1 : before[k] = rows[k]
    BY <1>1, <2>1, SubSeqProperties
  <2>3. /\ after \in Seq(Rows) /\ Len(after) = Len(rows) - i
        /\ after[1] = rows[i + 1]
    BY <1>1, <1>4, <2>1, SubSeqProperties
  <2>4. PICK less : less = before \o after
    OBVIOUS
  <2>5. /\ i \in DOMAIN less /\ less[i] = rows[i + 1]
        /\ i # 1 => less[i - 1] = rows[i - 1]
    <3>1. /\ less \in Seq(Rows) /\ Len(less) = Len(before) + Len(after)
          /\ \A k \in 1 .. Len(before) + Len(after) :
               less[k] = IF k <= Len(before) THEN before[k] ELSE after[k - Len(before)]
      BY <2>2, <2>3, <2>4, ConcatProperties
    <3>2. i \in 1 .. Len(rows) /\ Len(before) + Len(after) = Len(rows) - 1
      BY <1>1, <2>2, <2>3
    <3>5. DOMAIN less = 1 .. Len(rows) - 1
      BY <3>1, <3>2
    <3>6. i \in 1 .. Len(before) + Len(after) /\ ~(i <= Len(before)) /\ i - Len(before) = 1
      BY <1>1, <1>4, <2>2, <3>2
    <3>3. less[i] = after[1]
      BY <3>1, <3>6
    <3>4. i # 1 => less[i - 1] = rows[i - 1]
      <4>1. i # 1 => i - 1 \in 1 .. Len(before) + Len(after) /\ i - 1 <= Len(before) /\ i - 1 \in 1 .. i - 1
        BY <1>1, <1>4, <2>2, <3>2
      <4>2. QED
        BY <2>2, <3>1, <4>1
    <3>7. QED
      BY <1>1, <1>4, <2>3, <3>2, <3>5, <3>3, <3>4
  <2>6. verify_chain(less)
    BY <1>4, <2>1, <2>4 DEF RemoveAt
  <2>7. rows[i + 1].previous_hash = IF i = 1 THEN _GENESIS_HASH ELSE rows[i - 1].event_hash
    BY <2>5, <2>6 DEF verify_chain, Intact
  <2>8. rows[i + 1].previous_hash = rows[i].event_hash
    <3>1. i + 1 \in DOMAIN rows /\ i + 1 # 1 /\ i + 1 - 1 = i
      BY <1>1, <1>4
    <3>2. QED
      BY <1>1, <3>1 DEF Intact
  <2>9. rows[i].event_hash = _compute_hash(rows[i].previous_hash, rows[i].event)
    BY <1>1 DEF Intact
  <2>10. rows[i].previous_hash = IF i = 1 THEN _GENESIS_HASH ELSE rows[i - 1].event_hash
    BY <1>1 DEF Intact
  <2>11. rows[i].previous_hash \in Hashes /\ rows[i].event \in Events
    BY <1>1, <1>2
  <2>12. QED
    BY <2>7, <2>8, <2>9, <2>10, <2>11, HashTells
<1>5. QED
  BY <1>3, <1>4

\* In every reachable state with an intact chain, whatever the handlers' write
\* order, verify_chain notices a replaced event and a removed row.
THEOREM TamperEvidentCorrect == Spec => []TamperEvident
<1>1. TypeInv => TamperEvident
  BY ChainTells DEF TypeInv, TypeOK, TamperEvident
<1> QED BY <1>1, TypeInit, TypeStep, PTL DEF Spec

-----------------------------------------------------------------------------
(* The trail and the work. *)

\* The rows of a handler, by their places in the log.
Logged(rows, w) == {i \in DOMAIN rows : rows[i].event[1] = w}

InOrder(rows, w) ==
  \A i \in Logged(rows, w) :
    rows[i].event[2] = Cardinality({j \in Logged(rows, w) : j <= i})

\* A session has numbered its events, and those of a handler that has not
\* committed are in its session alone.
WorkInv ==
  \A w \in Writers :
    /\ \A k \in DOMAIN own[w] : own[w][k].event = <<w, k>>
    /\ InOrder(log, w)
    /\ Logged(log, w) # {} <=> pc[w] = "committed" /\ w \notin wiped
    /\ w \in wiped => pc[w] = "committed"

\* A commit moves a session's events to the log, in their order.
LEMMA CommitLogs ==
  ASSUME TypeOK, NEW w \in Writers, \A k \in DOMAIN own[w] : own[w][k].event = <<w, k>>,
         Logged(log, w) = {}, own[w] # <<>>
  PROVE  /\ InOrder(View(w), w) /\ Logged(View(w), w) # {}
         /\ \A v \in Writers \ {w} : /\ Logged(View(w), v) = Logged(log, v)
                                     /\ InOrder(log, v) => InOrder(View(w), v)
<1> DEFINE o == own[w]
           s == View(w)
<1>1. /\ log \in Seq(Rows) /\ Len(log) \in Nat /\ DOMAIN log = 1 .. Len(log)
      /\ o \in Seq(Rows) /\ Len(o) \in Nat /\ DOMAIN o = 1 .. Len(o) /\ Len(o) # 0
  BY DEF TypeOK
<1>2. /\ DOMAIN s = 1 .. Len(log) + Len(o)
      /\ \A i \in DOMAIN log : s[i] = log[i]
      /\ \A i \in Len(log) + 1 .. Len(log) + Len(o) : s[i] = o[i - Len(log)]
  <2>1. /\ Len(s) = Len(log) + Len(o) /\ s \in Seq(Rows)
        /\ \A i \in 1 .. Len(log) + Len(o) : s[i] = IF i <= Len(log) THEN log[i] ELSE o[i - Len(log)]
    BY <1>1, ConcatProperties DEF View
  <2>2. DOMAIN s = 1 .. Len(log) + Len(o)
    BY <2>1
  <2>3. \A i \in DOMAIN log : s[i] = log[i]
    BY <1>1, <2>1
  <2>4. \A i \in Len(log) + 1 .. Len(log) + Len(o) : s[i] = o[i - Len(log)]
    BY <1>1, <2>1
  <2>5. QED
    BY <2>2, <2>3, <2>4
<1>3. \A i \in Len(log) + 1 .. Len(log) + Len(o) : s[i].event[1] = w /\ s[i].event[2] = i - Len(log)
  <2>1. ASSUME NEW i \in Len(log) + 1 .. Len(log) + Len(o)
        PROVE  s[i].event = <<w, i - Len(log)>>
    <3>1. i - Len(log) \in DOMAIN o
      BY <1>1
    <3>2. o[i - Len(log)].event = <<w, i - Len(log)>>
      BY <3>1
    <3>3. QED
      BY <1>2, <3>2
  <2>2. QED
    BY <2>1
<1> HIDE DEF s, o
<1>4. DOMAIN s = DOMAIN log \cup (Len(log) + 1 .. Len(log) + Len(o))
  BY <1>1, <1>2
<1>5. Logged(s, w) = Len(log) + 1 .. Len(log) + Len(o)
  BY <1>2, <1>3, <1>4 DEF Logged
<1>6. ASSUME NEW i \in Len(log) + 1 .. Len(log) + Len(o)
      PROVE  s[i].event[2] = Cardinality({j \in Logged(s, w) : j <= i})
  <2>1. {j \in Logged(s, w) : j <= i} = Len(log) + 1 .. i
    BY <1>1, <1>5
  <2>2. Cardinality(Len(log) + 1 .. i) = i - Len(log)
    BY <1>1, FS_Interval
  <2>3. QED
    BY <1>3, <2>1, <2>2
<1>7. InOrder(s, w) /\ Logged(s, w) # {}
  <2>1. Len(log) + 1 \in Logged(s, w)
    BY <1>1, <1>5
  <2>2. QED
    BY <1>5, <1>6, <2>1 DEF InOrder
<1>8. ASSUME NEW v \in Writers \ {w}
      PROVE  /\ Logged(s, v) = Logged(log, v)
             /\ InOrder(log, v) => InOrder(s, v)
  <2>1. Logged(s, v) = Logged(log, v)
    BY <1>2, <1>3, <1>4 DEF Logged
  <2>2. \A i \in Logged(log, v) : s[i] = log[i]
    BY <1>2 DEF Logged
  <2>3. QED
    BY <2>1, <2>2 DEF InOrder
<1>9. QED
  BY <1>7, <1>8 DEF s

\* Every step keeps the numbers, and only a commit puts rows in the log.
LEMMA WorkStep == TypeInv /\ WorkInv /\ [Next]_vars => WorkInv'
<1> SUFFICES ASSUME TypeInv, WorkInv, [Next]_vars
             PROVE  WorkInv'
  OBVIOUS
<1>1. TypeOK
  BY DEF TypeInv
<1>2. \A v \in Writers : /\ \A k \in DOMAIN own[v] : own[v][k].event = <<v, k>>
                         /\ InOrder(log, v)
                         /\ Logged(log, v) # {} <=> pc[v] = "committed" /\ v \notin wiped
                         /\ v \in wiped => pc[v] = "committed"
  BY DEF WorkInv
<1>3. CASE UNCHANGED vars
  BY <1>3 DEF vars, WorkInv, InOrder, Logged
<1>4. ASSUME NEW w \in Writers, log' = log, wiped' = wiped,
             pc[w] # "committed", pc'[w] # "committed",
             \A v \in Writers \ {w} : pc'[v] = pc[v] /\ own'[v] = own[v],
             \A k \in DOMAIN own'[w] : own'[w][k].event = <<w, k>>
      PROVE  WorkInv'
  <2>1. \A v \in Writers : pc'[v] = "committed" <=> pc[v] = "committed"
    BY <1>4
  <2>2. \A v \in Writers : \A k \in DOMAIN own'[v] : own'[v][k].event = <<v, k>>
    BY <1>2, <1>4
  <2>3. QED
    BY <1>2, <1>4, <2>1, <2>2 DEF WorkInv, InOrder, Logged
<1>5. ASSUME NEW w \in Writers, HandlerWork(w) \/ ReadLastHash(w)
      PROVE  WorkInv'
  <2>1. /\ log' = log /\ own' = own /\ wiped' = wiped
        /\ pc[w] # "committed" /\ pc'[w] # "committed"
        /\ \A v \in Writers \ {w} : pc'[v] = pc[v]
    BY <1>1, <1>5 DEF HandlerWork, ReadLastHash, TypeOK
  <2>2. QED
    BY <1>2, <1>4, <2>1
<1>6. ASSUME NEW w \in Writers, InsertEvent(w)
      PROVE  WorkInv'
  <2>1. PICK new : new = Row(seen[w], <<w, Len(own[w]) + 1>>)
    OBVIOUS
  <2>2. /\ log' = log /\ wiped' = wiped /\ own'[w] = Append(own[w], new)
        /\ pc[w] # "committed" /\ pc'[w] # "committed"
        /\ \A v \in Writers \ {w} : pc'[v] = pc[v] /\ own'[v] = own[v]
    BY <1>1, <1>6, <2>1 DEF InsertEvent, TypeOK
  <2>3. new.event = <<w, Len(own[w]) + 1>>
    BY <2>1 DEF Row
  <2>4. own[w] \in Seq(Rows) /\ new \in Rows
    <3>1. seen[w] \in Hashes /\ own[w] \in Seq(Rows)
      BY <1>1 DEF TypeOK
    <3>2. <<w, Len(own[w]) + 1>> \in Events
      BY <1>6, <3>1, AuditAssumption DEF InsertEvent, Events, TypeInv, Bounded
    <3>3. QED
      BY <2>1, <3>1, <3>2, RowType
  <2>5. \A k \in DOMAIN Append(own[w], new) : Append(own[w], new)[k].event = <<w, k>>
    <3>1. /\ DOMAIN Append(own[w], new) = DOMAIN own[w] \cup {Len(own[w]) + 1}
          /\ \A k \in DOMAIN own[w] : Append(own[w], new)[k] = own[w][k]
          /\ Append(own[w], new)[Len(own[w]) + 1] = new
      BY <2>4, AppendProperties
    <3>2. QED
      BY <1>2, <2>3, <3>1
  <2>6. QED
    BY <1>4, <2>2, <2>5
<1>7. ASSUME NEW w \in Writers, Commit(w)
      PROVE  WorkInv'
  <2>1. /\ log' = View(w) /\ own'[w] = <<>> /\ pc'[w] = "committed"
        /\ pc[w] # "committed" /\ own[w] # <<>> /\ wiped' = wiped
        /\ \A v \in Writers \ {w} : pc'[v] = pc[v] /\ own'[v] = own[v]
    BY <1>1, <1>7 DEF Commit, TypeOK
  <2>2. /\ InOrder(View(w), w) /\ Logged(View(w), w) # {}
        /\ \A v \in Writers \ {w} : /\ Logged(View(w), v) = Logged(log, v)
                                    /\ InOrder(log, v) => InOrder(View(w), v)
    BY <1>1, <1>2, <2>1, CommitLogs
  <2>3. ASSUME NEW v \in Writers
        PROVE  /\ \A k \in DOMAIN own'[v] : own'[v][k].event = <<v, k>>
               /\ InOrder(log', v)
               /\ Logged(log', v) # {} <=> pc'[v] = "committed" /\ v \notin wiped'
               /\ v \in wiped' => pc'[v] = "committed"
    <3>1. CASE v = w
      BY <1>2, <2>1, <2>2, <3>1
    <3>2. CASE v # w
      BY <1>2, <2>1, <2>2, <3>2
    <3>3. QED
      BY <3>1, <3>2
  <2>4. QED
    BY <2>3 DEF WorkInv, InOrder, Logged
<1>8. ASSUME NEW w \in Writers, NEW how \in {"rejected", "failed"}, Rollback(w, how),
             pc[w] # "committed"
      PROVE  WorkInv'
  <2>1. /\ log' = log /\ wiped' = wiped /\ own'[w] = <<>> /\ pc'[w] = how
        /\ \A v \in Writers \ {w} : pc'[v] = pc[v] /\ own'[v] = own[v]
    BY <1>1, <1>8 DEF Rollback, TypeOK
  <2>2. QED
    BY <1>4, <1>8, <2>1
<1>r. ASSUME NEW w \in Writers, ResetLog(w)
      PROVE  WorkInv'
  <2>1. /\ log' = <<>> /\ own' = own /\ pc' = [pc EXCEPT ![w] = "cleared"]
        /\ pc[w] = "start" /\ wiped' = {v \in Writers : pc[v] = "committed"}
    BY <1>r DEF ResetLog
  <2>2. \A v \in Writers : Logged(<<>>, v) = {}
    BY DEF Logged
  <2>3. \A v \in Writers : pc'[v] = "committed" <=> pc[v] = "committed"
    BY <1>1, <2>1 DEF TypeOK
  <2>4. QED
    BY <1>2, <2>1, <2>2, <2>3 DEF WorkInv, InOrder
<1>9. ASSUME NEW w \in Writers, Step(w)
      PROVE  WorkInv'
  BY <1>r, <1>5, <1>6, <1>7, <1>8, <1>9 DEF Step, RaiseRefusal, Fail, Ends
<1>10. QED
  BY <1>3, <1>9 DEF Next, Finished

\* However transactions interleave and fail, a handler that committed has its
\* events in the log, each once and in order, unless a reset came after, and no
\* other handler has any.
THEOREM AtomicWithWorkCorrect == Spec => []AtomicWithWork
<1>1. Init => WorkInv
  BY DEF Init, WorkInv, InOrder, Logged
<1>2. WorkInv => AtomicWithWork
  BY DEF WorkInv, InOrder, Logged, AtomicWithWork
<1>3. QED
  BY <1>1, <1>2, TypeInit, TypeStep, WorkStep, PTL DEF Spec

-----------------------------------------------------------------------------
(* When the chain is intact. *)

\* The chain is intact in every reachable state, resets included, if every
\* handler holds the write lock before it logs or rolls back in the end: a break
\* would be at the event of a handler that committed, and so is LockFirst, and
\* that was overtaken, and so is not.
THEOREM ChainCorrect ==
  ASSUME Writers = LockFirst \cup Rejecting
  PROVE  Spec => []ChainValid
<1>1. Init => WorkInv
  BY DEF Init, WorkInv, InOrder, Logged
<1>2. ForkInv /\ WorkInv => ChainValid
  <2> SUFFICES ASSUME ForkInv, WorkInv, NEW i \in DOMAIN log, ~Intact(log, i)
               PROVE  FALSE
    BY DEF ChainValid, verify_chain
  <2>1. log[i].event[1] \in overtaken
    BY DEF ForkInv, Named
  <2>2. log[i].event[1] \in Writers
    BY <2>1 DEF ForkInv, TypeInv, TypeOK
  <2>3. i \in Logged(log, log[i].event[1])
    BY DEF Logged
  <2>4. pc[log[i].event[1]] = "committed"
    BY <2>2, <2>3 DEF WorkInv
  <2> QED BY <2>1, <2>2, <2>4 DEF ForkInv, ClassesKept
<1>3. ForkInv => TypeInv
  BY DEF ForkInv
<1> QED BY <1>1, <1>2, <1>3, ForkInit, ForkStep, WorkStep, PTL DEF Spec
=============================================================================
