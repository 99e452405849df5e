---------------------------- MODULE PoliciesProofs ----------------------------
(***************************************************************************)
(* Proofs about Policies.  Rows are written under the write lock and a     *)
(* call keeps it from its evaluation until it is forwarded (LockInv), so   *)
(* the decision it acts on is that of the policies in force (AnswerInv).   *)
(* Version rows are only added (RecordInv).  Of the writers of a policy    *)
(* that has not been raced one is under way at a time, and the row it      *)
(* writes over is the one it has read (HistoryInv).                        *)
(***************************************************************************)
EXTENDS Policies, PolicyEngineProofs

Written == {w \in Writers : pc[w] = "done"}

\* What a row decides is one of the outcomes, and it shows a valid source.
Sound(row) ==
  /\ Valid(Parsed[row.dsl_source])
  /\ row.compiled.outcome \in VALID_OUTCOMES

PlaceInv ==
  /\ \A s \in Writers : pc[s] \in {"idle"} \cup UnderWay \cup Ends
  /\ \A c \in Calls : pc[c] \in {"idle", "authenticated", "evaluated", "waiting", "forwarded"} \cup Ends

\* Every version number is that of a writer who is done, or of one under way.
RowInv ==
  \A i \in DOMAIN table : Sound(table[i]) /\ table[i].current_version <= Cardinality(Written)

NextInv ==
  \A s \in Writers : pc[s] \in UnderWay =>
    /\ next[s] \in Columns /\ Sound(next[s])
    /\ next[s].compiled = Compile(next[s].dsl_source)
    /\ next[s].current_version <= Cardinality(Written) + 1
    /\ s \in Creates => next[s].current_version = 1
    /\ s \notin Creates =>
         /\ loaded[s] \in Columns
         /\ loaded[s].policy_id = next[s].policy_id /\ next[s].policy_id \in IdsOf(table)
         /\ next[s].current_version = loaded[s].current_version + 1

VersionInv ==
  /\ IsFiniteSet(versions)
  /\ \A v \in versions : Valid(Parsed[v.dsl_source]) /\ v.policy_id \in IdsOf(table)

\* A writer that has flushed and a call that is being decided hold the lock,
\* and no row has come up for the one that is being inserted.
LockInv ==
  /\ \A s \in Writers : pc[s] = "flushed" =>
       lock = s /\ (s \in Creates => next[s].policy_id \notin IdsOf(table))
  /\ \A c \in Calls : pc[c] \in {"authenticated", "evaluated"} => lock = c

\* What a call acts on is what the policies say, or it has been approved.
AnswerInv ==
  \A c \in Calls :
    /\ pc[c] = "evaluated" => answer[c] = evaluate(table, asked[c])
    /\ pc[c] = "waiting" => answer[c].decision = "require_approval"
    /\ pc[c] = "forwarded" /\ answer[c].decision # "require_approval" =>
         /\ lock = c
         /\ answer[c] = evaluate(table, asked[c]) /\ answer[c].decision = "allow"

\* A rollback writes what the version it was asked for says, and a change that
\* is done has its version row.
RecordInv ==
  \A s \in Writers :
    /\ pc[s] = "done" => VersionRow(s) \in versions
    /\ s \in Rollbacks /\ pc[s] \in {"read", "flushed", "done"} =>
         \E v \in History(next[s].policy_id) :
           v.version = target[s] /\ v.dsl_source = next[s].dsl_source

\* Two writers of one policy have raced, and unless they have a writer has read
\* the row that it will write over.
HistoryInv ==
  /\ \A s, w \in Writers :
       /\ pc[s] \in UnderWay /\ pc[w] \in UnderWay /\ s # w
       /\ next[s].policy_id = next[w].policy_id
       => next[s].policy_id \in raced
  /\ \A s \in Writers \ Creates : pc[s] \in UnderWay /\ next[s].policy_id \notin raced =>
       \E i \in DOMAIN table : table[i] = loaded[s]

Inv ==
  /\ TypeOK /\ PlaceInv /\ RowInv /\ NextInv /\ VersionInv
  /\ LockInv /\ AnswerInv /\ RecordInv /\ HistoryInv /\ SequentialHistory

-----------------------------------------------------------------------------
(* What is done to the tables. *)

\* A valid source compiles to a policy that decides one of the outcomes.
LEMMA CompiledSound ==
  ASSUME NEW source \in Sources, Valid(Parsed[source])
  PROVE  /\ Compile(source) \in {Compile(src) : src \in Sources}
         /\ Compile(source).outcome \in VALID_OUTCOMES
         /\ Parsed[source].policy_id # None
BY DEF Compile, parse_and_compile, Valid

\* An UPDATE leaves every column as it is or as the writer wants it; over the
\* row that the writer has read it leaves what the writer wants.
LEMMA ChangedRow ==
  ASSUME NEW row \in Columns, NEW old \in Columns, NEW new \in Columns,
         Sound(row), Sound(new), old.policy_id = new.policy_id
  PROVE  /\ Changed(row, old, new) \in Columns
         /\ Sound(Changed(row, old, new))
         /\ Changed(row, old, new).policy_id = row.policy_id
         /\ Changed(row, old, new).current_version \in {row.current_version, new.current_version}
         /\ row = old => Changed(row, old, new) = new
<1> DEFINE names == {"policy_id", "org_id", "scope_level", "scope_id", "dsl_source", "compiled",
                     "current_version"}
           res   == Changed(row, old, new)
<1>1. DOMAIN row = names /\ DOMAIN old = names /\ DOMAIN new = names
  BY DEF Columns
<1>2. res = [column \in names |-> IF new[column] = old[column] THEN row[column] ELSE new[column]]
  BY <1>1 DEF Changed
<1>3. /\ res.policy_id = row.policy_id
      /\ res.org_id \in {row.org_id, new.org_id}
      /\ res.scope_level \in {row.scope_level, new.scope_level}
      /\ res.scope_id \in {row.scope_id, new.scope_id}
      /\ res.dsl_source \in {row.dsl_source, new.dsl_source}
      /\ res.compiled \in {row.compiled, new.compiled}
      /\ res.current_version \in {row.current_version, new.current_version}
  BY <1>2
<1>4. res = [policy_id |-> res.policy_id, org_id |-> res.org_id, scope_level |-> res.scope_level,
             scope_id |-> res.scope_id, dsl_source |-> res.dsl_source, compiled |-> res.compiled,
             current_version |-> res.current_version]
  BY <1>2
<1> HIDE DEF res
<1>5. res \in Columns
  BY <1>3, <1>4 DEF Columns
<1>6. Sound(res)
  BY <1>3 DEF Sound
<1>7. ASSUME row = old
      PROVE  res = new
  <2>1. \A column \in names : res[column] = new[column]
    BY <1>2, <1>7
  <2>2. new = [policy_id |-> new.policy_id, org_id |-> new.org_id, scope_level |-> new.scope_level,
               scope_id |-> new.scope_id, dsl_source |-> new.dsl_source, compiled |-> new.compiled,
               current_version |-> new.current_version]
    BY DEF Columns
  <2>3. QED
    BY <1>4, <2>1, <2>2
<1>8. QED
  BY <1>3, <1>5, <1>6, <1>7 DEF res

\* The numbers of the writers: finitely many, and each commit adds one.
LEMMA WrittenFinite ==
  /\ IsFiniteSet(Written) /\ Cardinality(Written) \in Nat
  /\ Cardinality(Writers) \in Nat
  /\ \A s \in Writers \ Written : Cardinality(Written) + 1 <= Cardinality(Writers)
<1>1. IsFiniteSet(Writers) /\ Written \in SUBSET Writers
  BY PoliciesAssumption DEF Written
<1>2. IsFiniteSet(Written)
  BY <1>1, FS_Subset
<1>3. Cardinality(Written) \in Nat /\ Cardinality(Writers) \in Nat
  BY <1>1, <1>2, FS_CardinalityType
<1>4. Cardinality(Written) <= Cardinality(Writers)
  BY <1>1, FS_Subset
<1>5. ASSUME NEW s \in Writers \ Written
      PROVE  Cardinality(Written) # Cardinality(Writers)
  BY <1>1, FS_Subset
<1>6. QED
  BY <1>2, <1>3, <1>4, <1>5

-----------------------------------------------------------------------------
(* The steps of the writers. *)

\* A writer reads `row' and, unless it still looks for the version, will write
\* `new'.
Loads(s, row, new) ==
  /\ pc[s] = "idle" /\ Read(s, row, new)
  /\ UNCHANGED <<table, versions, log, lock, asked, answer>>
  /\ target' \in [Rollbacks -> Nat]
  /\ \A w \in Rollbacks \ {s} : target'[w] = target[w]
  /\ new \in Columns /\ Sound(new) /\ new.compiled = Compile(new.dsl_source)
  /\ \/ s \in Creates /\ new.current_version = 1 /\ row = NoRow
     \/ /\ s \notin Creates
        /\ \E i \in DOMAIN table : row = table[i]
        /\ row.policy_id = new.policy_id
        /\ new.current_version = row.current_version + 1

\* A rollback has found the version it was asked for, and will write `new'.
Fills(s, new) ==
  /\ s \in Rollbacks /\ pc[s] = "selected" /\ Goto(s, "read")
  /\ next' = [next EXCEPT ![s] = new]
  /\ new \in Columns /\ Sound(new) /\ new.compiled = Compile(new.dsl_source)
  /\ new.policy_id = next[s].policy_id /\ new.current_version = next[s].current_version
  /\ \E v \in versions : /\ v.policy_id = new.policy_id
                         /\ v.version = target[s] /\ v.dsl_source = new.dsl_source
  /\ UNCHANGED <<table, versions, log, lock, loaded, target, asked, answer, raced>>

\* A session ends without having changed a table.
Stops(s) ==
  /\ pc[s] \notin Ends
  /\ pc' = [pc EXCEPT ![s] = pc'[s]] /\ pc'[s] \in {"rejected", "failed"}
  /\ lock' = lock \/ Release(s)
  /\ target' \in [Rollbacks -> Nat]
  /\ \A w \in Rollbacks \ {s} : target'[w] = target[w]
  /\ UNCHANGED <<table, versions, log, loaded, next, asked, answer, raced>>

\* The flush of a writer succeeds.
Flushes(s) ==
  /\ pc[s] = "read" /\ Goto(s, "flushed")
  /\ lock = None /\ lock' = s
  /\ s \in Creates => next[s].policy_id \notin IdsOf(table)
  /\ UNCHANGED <<table, versions, log, loaded, next, target, asked, answer, raced>>

\* A session is a create, an update, a rollback or a call, and only one of them.
LEMMA Disjoint ==
  /\ \A s \in Writers : s \in Sessions /\ s # None /\ s \notin Calls
  /\ \A s \in Rollbacks \cup Updates : s \in Writers /\ s \notin Creates
  /\ \A s \in Updates : s \notin Rollbacks
  /\ \A s \in Creates : s \in Writers /\ s \notin Rollbacks \cup Updates
  /\ \A c \in Calls : c \in Sessions /\ c # None /\ c \notin Writers
BY PoliciesAssumption DEF Writers, Sessions

\* What TypeOK says of the rows, one by one.
LEMMA TableType ==
  ASSUME TypeOK
  PROVE  /\ DOMAIN table = 1 .. Len(table) /\ Len(table) \in Nat
         /\ \A i \in DOMAIN table : table[i] \in Columns /\ table[i].current_version \in Nat
<1>1. table \in Seq(Columns)
  BY DEF TypeOK
<1>2. DOMAIN table = 1 .. Len(table) /\ Len(table) \in Nat
  BY <1>1, LenProperties
<1>3. \A i \in DOMAIN table : table[i] \in Columns
  BY <1>1, <1>2, ElementOfSeq
<1>4. \A row \in Columns : row.current_version \in Nat
  BY WrittenFinite DEF Columns, Versions
<1>5. QED
  BY <1>2, <1>3, <1>4

\* An updated row is a row, one version on.
LEMMA UpdatedRow ==
  ASSUME TypeOK, RowInv, NEW s \in Writers, pc[s] = "idle", NEW i \in DOMAIN table,
         NEW source \in Sources, Valid(Parsed[source])
  PROVE  /\ Updated(table[i], source) \in Columns
         /\ Sound(Updated(table[i], source))
         /\ Updated(table[i], source).policy_id = table[i].policy_id
         /\ Updated(table[i], source).dsl_source = source
         /\ Updated(table[i], source).compiled = Compile(source)
         /\ Updated(table[i], source).current_version = table[i].current_version + 1
<1> DEFINE row == table[i]
           new == Updated(row, source)
<1>1. row \in Columns /\ row.current_version \in Nat /\ row.current_version <= Cardinality(Written)
  BY TableType DEF RowInv
<1>2. row.current_version + 1 \in Versions
  <2>1. s \in Writers \ Written
    BY DEF Written
  <2>2. QED
    BY <1>1, <2>1, WrittenFinite DEF Versions
<1>3. new = [row EXCEPT !.dsl_source = source, !.compiled = Compile(source),
                        !.current_version = row.current_version + 1]
  BY DEF Updated
<1>4. Compile(source) \in {Compile(src) : src \in Sources} /\ Compile(source).outcome \in VALID_OUTCOMES
  BY CompiledSound
<1> HIDE DEF row
<1>5. /\ new.policy_id = row.policy_id /\ new.dsl_source = source
      /\ new.compiled = Compile(source) /\ new.current_version = row.current_version + 1
  BY <1>1, <1>3 DEF Columns
<1>6. new \in Columns
  BY <1>1, <1>2, <1>3, <1>4 DEF Columns
<1>7. Sound(new)
  BY <1>4, <1>5 DEF Sound
<1> HIDE DEF new
<1>8. QED
  BY <1>5, <1>6, <1>7 DEF row, new

\* A create reads that there is no row, and makes the first version.
LEMMA CreateLoads ==
  ASSUME TypeOK, NEW s \in Creates, NEW body \in Bodies, CheckDuplicate(s, body)
  PROVE  (\E row, new : Loads(s, row, new)) \/ Stops(s)
<1> DEFINE id  == Parsed[body.dsl_source].policy_id
           new == [policy_id |-> id, org_id |-> body.org_id, scope_level |-> body.scope_level,
                   scope_id |-> body.scope_id, dsl_source |-> body.dsl_source,
                   compiled |-> Compile(body.dsl_source), current_version |-> 1]
<1>1. /\ s \in Writers /\ s \in Sessions /\ s \notin Rollbacks
      /\ pc[s] = "idle" /\ pc \in [Sessions -> {pc[x] : x \in Sessions}]
      /\ target' = target /\ target \in [Rollbacks -> Nat]
      /\ UNCHANGED <<table, versions, log, lock, asked, answer>>
  BY Disjoint DEF CheckDuplicate, TypeOK
<1>2. CASE Valid(Parsed[body.dsl_source]) /\ Read(s, NoRow, new)
  <2>1. body.dsl_source \in Sources /\ body.scope_level \in {"org", "team", "agent"}
    BY PoliciesAssumption
  <2>2. /\ Compile(body.dsl_source) \in {Compile(src) : src \in Sources}
        /\ Compile(body.dsl_source).outcome \in VALID_OUTCOMES /\ id # None
    BY <1>2, <2>1, CompiledSound
  <2>3. id \in Ids
    BY <2>1, <2>2 DEF Ids
  <2>4. 1 \in Versions
    <3>1. s \in Writers \ {}
      BY <1>1
    <3>2. Cardinality(Writers) # 0
      BY <1>1, PoliciesAssumption, FS_EmptySet
    <3>3. QED
      BY <3>2, WrittenFinite DEF Versions
  <2>5. new \in Columns
    BY <2>1, <2>2, <2>3, <2>4 DEF Columns
  <2>6. Sound(new) /\ new.compiled = Compile(new.dsl_source) /\ new.current_version = 1
    BY <1>2, <2>2 DEF Sound
  <2> HIDE DEF new
  <2>7. Loads(s, NoRow, new)
    BY <1>1, <1>2, <2>5, <2>6 DEF Loads
  <2>8. QED
    BY <2>7
<1>3. CASE Refused(s, "rejected")
  BY <1>1, <1>3 DEF Stops, Refused, Goto, Ends
<1>4. QED
  BY <1>2, <1>3 DEF CheckDuplicate

\* An update reads a row, and makes its next version.
LEMMA UpdateLoads ==
  ASSUME TypeOK, RowInv, NEW s \in Updates, NEW id, NEW source \in Sources,
         SelectForUpdate(s, id, source)
  PROVE  (\E row, new : Loads(s, row, new)) \/ Stops(s)
<1>1. /\ s \in Writers /\ s \in Sessions /\ s \notin Rollbacks /\ s \notin Creates
      /\ pc[s] = "idle" /\ pc \in [Sessions -> {pc[x] : x \in Sessions}]
      /\ target' = target /\ target \in [Rollbacks -> Nat]
      /\ UNCHANGED <<table, versions, log, lock, asked, answer>>
  BY Disjoint DEF SelectForUpdate, TypeOK
<1>2. CASE Refused(s, "rejected")
  BY <1>1, <1>2 DEF Stops, Refused, Goto, Ends
<1>3. ASSUME NEW i \in Rows(id), Valid(Parsed[source]), Read(s, table[i], Updated(table[i], source))
      PROVE  Loads(s, table[i], Updated(table[i], source))
  <2>1. i \in DOMAIN table
    BY DEF Rows
  <2>2. /\ Updated(table[i], source) \in Columns
        /\ Sound(Updated(table[i], source))
        /\ Updated(table[i], source).policy_id = table[i].policy_id
        /\ Updated(table[i], source).compiled = Compile(Updated(table[i], source).dsl_source)
        /\ Updated(table[i], source).current_version = table[i].current_version + 1
    BY <1>1, <1>3, <2>1, UpdatedRow
  <2>3. QED
    BY <1>1, <1>3, <2>1, <2>2 DEF Loads
<1>4. QED
  BY <1>2, <1>3 DEF SelectForUpdate

\* A rollback reads a row, and makes its next version ...
LEMMA RollbackLoads ==
  ASSUME TypeOK, RowInv, NEW s \in Rollbacks, NEW id, NEW number \in Targets,
         SelectForRollback(s, id, number)
  PROVE  (\E row, new : Loads(s, row, new)) \/ Stops(s)
<1>1. /\ s \in Writers /\ s \in Sessions /\ s \notin Creates
      /\ pc[s] = "idle" /\ pc \in [Sessions -> {pc[x] : x \in Sessions}]
      /\ UNCHANGED <<table, versions, log, lock, asked, answer>>
  BY Disjoint DEF SelectForRollback, TypeOK
<1>2. target' \in [Rollbacks -> Nat] /\ \A w \in Rollbacks \ {s} : target'[w] = target[w]
  BY PoliciesAssumption DEF SelectForRollback, TypeOK
<1>3. CASE Refused(s, "rejected")
  BY <1>1, <1>2, <1>3 DEF Stops, Refused, Goto, Ends
<1>4. ASSUME NEW i \in Rows(id), Read(s, table[i], Updated(table[i], table[i].dsl_source))
      PROVE  Loads(s, table[i], Updated(table[i], table[i].dsl_source))
  <2>1. i \in DOMAIN table
    BY DEF Rows
  <2>2. table[i].dsl_source \in Sources /\ Valid(Parsed[table[i].dsl_source])
    BY <2>1, TableType DEF Columns, RowInv, Sound
  <2>3. PICK new : new = Updated(table[i], table[i].dsl_source)
    OBVIOUS
  <2>4. /\ new \in Columns /\ Sound(new) /\ new.policy_id = table[i].policy_id
        /\ new.compiled = Compile(new.dsl_source)
        /\ new.current_version = table[i].current_version + 1
    BY <1>1, <2>1, <2>2, <2>3, UpdatedRow
  <2>5. Read(s, table[i], new)
    BY <1>4, <2>3
  <2>6. Loads(s, table[i], new)
    BY <1>1, <1>2, <2>1, <2>4, <2>5 DEF Loads
  <2>7. QED
    BY <2>3, <2>6
<1>5. QED
  BY <1>3, <1>4 DEF SelectForRollback

\* ... of the version it was asked for.
LEMMA RollbackFills ==
  ASSUME TypeOK, NextInv, VersionInv, NEW s \in Rollbacks, SelectVersion(s)
  PROVE  (\E new : Fills(s, new)) \/ Stops(s)
<1>1. /\ s \in Writers /\ s \in Sessions /\ s \notin Creates
      /\ pc[s] = "selected" /\ pc \in [Sessions -> {pc[x] : x \in Sessions}]
      /\ target \in [Rollbacks -> Nat]
      /\ UNCHANGED <<table, versions, log, lock, loaded, target, asked, answer, raced>>
  BY Disjoint DEF SelectVersion, TypeOK
<1>2. /\ next[s] \in Columns /\ loaded[s] \in Columns
      /\ loaded[s].policy_id = next[s].policy_id
      /\ next[s].current_version = loaded[s].current_version + 1
  BY <1>1 DEF NextInv, UnderWay
<1>3. CASE UNCHANGED next /\ (Goto(s, "rejected") \/ Goto(s, "failed"))
  BY <1>1, <1>3 DEF Stops, Goto, Ends
<1>4. ASSUME NEW v \in History(next[s].policy_id), v.version = target[s], Goto(s, "read"),
             next' = [next EXCEPT ![s] = Restored(loaded[s], v)]
      PROVE  Fills(s, Restored(loaded[s], v))
  <2>1. v \in versions /\ v.policy_id = next[s].policy_id
    BY DEF History
  <2>2. v.dsl_source \in Sources /\ Valid(Parsed[v.dsl_source])
    BY <2>1 DEF TypeOK, VersionInv
  <2>3. /\ Compile(v.dsl_source) \in {Compile(src) : src \in Sources}
        /\ Compile(v.dsl_source).outcome \in VALID_OUTCOMES
    BY <2>2, CompiledSound
  <2>4. PICK row, new, number : /\ row = loaded[s] /\ new = Restored(row, v)
                                /\ number = next[s].current_version
    OBVIOUS
  <2>5. row \in Columns /\ number \in Versions /\ number = row.current_version + 1
    BY <1>2, <2>4 DEF Columns
  <2>6. new = [row EXCEPT !.dsl_source = v.dsl_source, !.compiled = Compile(v.dsl_source),
                          !.current_version = number]
    BY <2>4, <2>5 DEF Restored, Updated
  <2>7. /\ new.policy_id = row.policy_id /\ new.dsl_source = v.dsl_source
        /\ new.compiled = Compile(v.dsl_source) /\ new.current_version = number
    BY <2>5, <2>6 DEF Columns
  <2>8. new \in Columns
    BY <2>2, <2>3, <2>5, <2>6 DEF Columns
  <2>9. Sound(new)
    BY <2>2, <2>3, <2>7 DEF Sound
  <2>10. Fills(s, new)
    BY <1>1, <1>2, <1>4, <2>1, <2>4, <2>7, <2>8, <2>9 DEF Fills
  <2>11. QED
    BY <2>4, <2>10
<1>5. QED
  BY <1>1, <1>3, <1>4 DEF SelectVersion

\* What a step of a call leaves alone.
CallMoves(c) ==
  /\ pc' = [pc EXCEPT ![c] = pc'[c]] /\ pc'[c] \notin {"idle"} \cup UnderWay
  /\ lock' \in {lock, c} \/ Release(c)
  /\ lock' # lock /\ lock' = c => lock = None
  /\ UNCHANGED <<table, versions, loaded, next, target, raced>>

CallStep(c) ==
  \/ Authenticate(c) \/ (\E req \in LlmCalls : Evaluate(c, req))
  \/ AskApproval(c) \/ Resume(c) \/ Forward(c) \/ Complete(c)

\* Every step is a writer's or a call's.
LEMMA Steps ==
  ASSUME TypeOK, RowInv, NextInv, VersionInv, [Next]_vars
  PROVE  \/ UNCHANGED vars
         \/ \E s \in Writers : (\E row, new : Loads(s, row, new)) \/ Flushes(s) \/ Commit(s)
         \/ \E s \in Rollbacks : \E new : Fills(s, new)
         \/ \E s \in Sessions : Stops(s)
         \/ \E c \in Calls : CallStep(c)
<1>1. ASSUME NEW s \in Sessions, pc[s] \notin Ends, pc' = [pc EXCEPT ![s] = "rejected"]
                                                    \/ pc' = [pc EXCEPT ![s] = "failed"],
             lock' = lock \/ Release(s),
             UNCHANGED <<table, versions, log, loaded, next, target, asked, answer, raced>>
      PROVE  Stops(s)
  <2>1. pc \in [Sessions -> {pc[x] : x \in Sessions}] /\ target \in [Rollbacks -> Nat]
    BY DEF TypeOK
  <2>2. QED
    BY <1>1, <2>1 DEF Stops
<1>2. ASSUME NEW s \in Writers, Flush(s)
      PROVE  Flushes(s) \/ Stops(s)
  <2>1. CASE pc' = [pc EXCEPT ![s] = "failed"] /\ lock' = lock
    BY <1>1, <1>2, <2>1, Disjoint DEF Flush, Ends
  <2>2. CASE ~(s \in Creates /\ next[s].policy_id \in IdsOf(table)) /\ Goto(s, "flushed") /\ lock' = s
    BY <1>2, <2>2 DEF Flush, Flushes
  <2>3. QED
    BY <1>2, <2>1, <2>2 DEF Flush, Goto
<1>3. ASSUME NEW c \in Calls, Refuse(c)
      PROVE  Stops(c)
  BY <1>1, <1>3, Disjoint DEF Refuse, Goto, Ends
<1>4. ASSUME NEW s \in Sessions, Fail(s)
      PROVE  Stops(s)
  BY <1>1, <1>4 DEF Fail, Goto, Ends, UnderWay
<1>5. CASE Next
  <2>1. CASE \E s \in Creates, body \in Bodies : CheckDuplicate(s, body)
    BY <2>1, CreateLoads, Disjoint
  <2>2. CASE \E s \in Updates, id \in Ids, source \in Sources : SelectForUpdate(s, id, source)
    BY <2>2, UpdateLoads, Disjoint
  <2>3. CASE \/ \E s \in Rollbacks, id \in Ids, number \in Targets : SelectForRollback(s, id, number)
             \/ \E s \in Rollbacks : SelectVersion(s)
    BY <2>3, RollbackLoads, RollbackFills, Disjoint
  <2>4. CASE \E s \in Writers : Flush(s) \/ Commit(s)
    BY <1>2, <2>4, Disjoint
  <2>5. CASE \E c \in Calls : \/ Authenticate(c)
                              \/ \E req \in LlmCalls : Evaluate(c, req)
                              \/ Refuse(c) \/ AskApproval(c) \/ Resume(c) \/ Forward(c) \/ Complete(c)
    BY <1>3, <2>5, Disjoint DEF CallStep
  <2>6. CASE \E s \in Sessions : Fail(s)
    BY <1>4, <2>6
  <2>7. CASE Finished
    BY <2>7 DEF Finished
  <2>8. QED
    BY <1>5, <2>1, <2>2, <2>3, <2>4, <2>5, <2>6, <2>7 DEF Next
<1>6. QED
  BY <1>5

\* A call changes no table and no writer, and takes the lock from nobody.
LEMMA CallStepMoves ==
  ASSUME TypeOK, NEW c \in Calls, CallStep(c)
  PROVE  CallMoves(c)
<1> USE DEF Goto, UnderWay
<1>1. c \in Sessions
  BY Disjoint
<1>2. CASE Authenticate(c) \/ (\E req \in LlmCalls : Evaluate(c, req))
  BY <1>1, <1>2 DEF Authenticate, Evaluate, CallMoves, TypeOK
<1>3. CASE AskApproval(c) \/ Complete(c)
  BY <1>1, <1>3 DEF AskApproval, Complete, CallMoves, TypeOK, Release
<1>4. CASE Resume(c)
  <2>1. PICK label \in {"forwarded", "rejected"} : pc' = [pc EXCEPT ![c] = label]
    BY <1>4 DEF Resume
  <2>2. QED
    BY <1>1, <1>4, <2>1 DEF Resume, CallMoves, TypeOK
<1>5. CASE Forward(c)
  BY <1>1, <1>5 DEF Forward, CallMoves, TypeOK
<1>6. QED
  BY <1>2, <1>3, <1>4, <1>5 DEF CallStep

\* A commit writes over the row of its policy or inserts it; what it writes is
\* sound, and no policy has two rows.
LEMMA CommitRows ==
  ASSUME TypeOK, RowInv, NextInv, LockInv, NEW s \in Writers, Commit(s)
  PROVE  /\ table' \in Seq(Columns) /\ DOMAIN table \subseteq DOMAIN table'
         /\ \A i \in DOMAIN table :
              /\ Sound(table'[i]) /\ table'[i].policy_id = table[i].policy_id
              /\ table'[i].current_version \in {table[i].current_version, next[s].current_version}
              /\ table[i].policy_id # next[s].policy_id => table'[i] = table[i]
              /\ s \notin Creates /\ table[i] = loaded[s] => table'[i] = next[s]
         /\ \A i \in DOMAIN table' : i \notin DOMAIN table =>
              s \in Creates /\ table'[i] = next[s] /\ i = Len(table) + 1
         /\ next[s].policy_id \in {table'[i].policy_id : i \in DOMAIN table'}
         /\ s \in Creates => \A i \in DOMAIN table : table[i].policy_id # next[s].policy_id
<1>1. pc[s] = "flushed"
  BY DEF Commit
<1>2. next[s] \in Columns /\ Sound(next[s])
      /\ (s \notin Creates => /\ loaded[s] \in Columns /\ loaded[s].policy_id = next[s].policy_id
                              /\ next[s].policy_id \in IdsOf(table))
  BY <1>1 DEF NextInv, UnderWay
<1>3. s \in Creates => \A i \in DOMAIN table : table[i].policy_id # next[s].policy_id
  BY <1>1 DEF LockInv, IdsOf
<1>4. /\ table \in Seq(Columns) /\ DOMAIN table = 1 .. Len(table) /\ Len(table) \in Nat
      /\ \A i \in DOMAIN table : table[i] \in Columns /\ Sound(table[i])
  BY TableType DEF TypeOK, RowInv
<1>5. CASE s \in Creates
  <2>1. table' = Append(table, next[s])
    BY <1>5 DEF Commit
  <2>2. /\ table' \in Seq(Columns) /\ DOMAIN table' = 1 .. Len(table) + 1
        /\ \A i \in DOMAIN table : table'[i] = table[i]
        /\ table'[Len(table) + 1] = next[s]
    BY <1>2, <1>4, <2>1, AppendProperties, LenProperties
  <2>3. DOMAIN table \subseteq DOMAIN table' /\ Len(table) + 1 \in DOMAIN table'
    BY <1>4, <2>2
  <2>4. \A i \in DOMAIN table' : i \notin DOMAIN table => i = Len(table) + 1
    BY <1>4, <2>2
  <2>5. next[s].policy_id \in {table'[i].policy_id : i \in DOMAIN table'}
    BY <2>2, <2>3
  <2>6. QED
    BY <1>3, <1>4, <1>5, <2>2, <2>3, <2>4, <2>5
<1>6. CASE s \notin Creates
  <2>1. table' = [i \in DOMAIN table |-> IF i \in Rows(next[s].policy_id)
                    THEN Changed(table[i], loaded[s], next[s]) ELSE table[i]]
    BY <1>6 DEF Commit
  <2>2. \A i \in DOMAIN table : i \in Rows(next[s].policy_id) <=> table[i].policy_id = next[s].policy_id
    BY DEF Rows
  <2>3. ASSUME NEW i \in DOMAIN table
        PROVE  /\ table'[i] \in Columns /\ Sound(table'[i]) /\ table'[i].policy_id = table[i].policy_id
               /\ table'[i].current_version \in {table[i].current_version, next[s].current_version}
               /\ table[i].policy_id # next[s].policy_id => table'[i] = table[i]
               /\ table[i] = loaded[s] => table'[i] = next[s]
    <3>1. CASE table[i].policy_id = next[s].policy_id
      <4>1. PICK row \in Columns, old \in Columns, new \in Columns :
              row = table[i] /\ old = loaded[s] /\ new = next[s]
        BY <1>2, <1>4, <1>6
      <4>2. table'[i] = Changed(row, old, new)
        BY <2>1, <2>2, <3>1, <4>1
      <4>3. Sound(row) /\ Sound(new) /\ old.policy_id = new.policy_id
        BY <1>2, <1>4, <1>6, <4>1
      <4>4. /\ Changed(row, old, new) \in Columns /\ Sound(Changed(row, old, new))
            /\ Changed(row, old, new).policy_id = row.policy_id
            /\ Changed(row, old, new).current_version \in {row.current_version, new.current_version}
            /\ row = old => Changed(row, old, new) = new
        BY <4>3, ChangedRow
      <4>5. QED
        BY <3>1, <4>1, <4>2, <4>4
    <3>2. CASE table[i].policy_id # next[s].policy_id
      <4>1. table'[i] = table[i]
        BY <2>1, <2>2, <3>2
      <4>2. table[i] # loaded[s]
        BY <1>2, <1>6, <3>2
      <4>3. QED
        BY <1>4, <4>1, <4>2
    <3>3. QED
      BY <3>1, <3>2
  <2>4. DOMAIN table' = DOMAIN table
    BY <2>1
  <2>5. table' \in Seq(Columns)
    <3>1. table' \in [1 .. Len(table) -> Columns]
      BY <1>4, <2>1, <2>3
    <3>2. QED
      BY <1>4, <3>1
  <2>6. next[s].policy_id \in {table'[i].policy_id : i \in DOMAIN table'}
    <3>1. PICK i \in DOMAIN table : table[i].policy_id = next[s].policy_id
      BY <1>2, <1>6 DEF IdsOf
    <3>2. QED
      BY <2>3, <2>4, <3>1
  <2>7. QED
    BY <1>3, <1>6, <2>3, <2>4, <2>5, <2>6
<1>7. QED
  BY <1>5, <1>6

\* The engine can sort the table, and what it answers is a decision.
LEMMA TableLeveled ==
  ASSUME TypeOK
  PROVE  Leveled(table)
<1>1. DOMAIN table = 1 .. Len(table) /\ Len(table) \in Nat
  BY TableType
<1>2. IsFiniteSet(1 .. Len(table))
  BY <1>1, FS_Interval
<1>3. \A i \in DOMAIN table : table[i].scope_level \in {"org", "team", "agent"}
  BY TableType DEF Columns
<1>4. QED
  BY <1>1, <1>2, <1>3 DEF Leveled

\* What the engine answers is a decision.
LEMMA EvaluateType ==
  ASSUME TypeOK, RowInv, NEW req
  PROVE  evaluate(table, req) \in Answers
<1>1. DefaultDecision \in Answers
  BY EngineAssumption DEF DefaultDecision, Answers, VALID_OUTCOMES
<1>2. ASSUME NEW i, First(table, req, i)
      PROVE  Decision(table[i], req) \in Answers
  <2>1. i \in DOMAIN table
    BY <1>2 DEF First, Applicable
  <2>2. table[i].policy_id \in Ids /\ table[i].compiled.outcome \in VALID_OUTCOMES
    BY <2>1, TableType DEF Columns, RowInv, Sound
  <2>3. QED
    BY <2>2 DEF Decision, Answers
<1>3. QED
  BY <1>1, <1>2, TableLeveled, LoopDecides

-----------------------------------------------------------------------------
(* Each invariant holds at first and is kept by every step. *)

\* There is no policy and nobody is under way at first.
LEMMA InvInit == Init => Inv
<1> SUFFICES ASSUME Init
             PROVE  Inv
  OBVIOUS
<1>1. /\ table = << >> /\ versions = {} /\ log = {} /\ lock = None /\ raced = {}
      /\ \A s \in Sessions : pc[s] = "idle"
  BY DEF Init
<1>2. table \in Seq(Columns) /\ DOMAIN table = {}
  BY <1>1
<1>3. TypeOK
  <2>1. DefaultDecision \in Answers
    BY EngineAssumption DEF DefaultDecision, Answers, VALID_OUTCOMES
  <2>2. answer \in [Calls -> Answers] /\ asked \in [Calls -> LlmCalls \cup {None}]
        /\ target \in [Rollbacks -> Nat]
    BY <2>1 DEF Init
  <2>3. loaded \in [Writers -> Columns \cup {NoRow}] /\ next \in [Writers -> Columns \cup {NoRow}]
    BY DEF Init
  <2>4. pc \in [Sessions -> {"idle"}]
    BY DEF Init
  <2>5. QED
    BY <1>1, <1>2, <2>2, <2>3, <2>4 DEF TypeOK
<1>4. \A s \in Writers : pc[s] = "idle"
  BY <1>1, Disjoint
<1>5. \A c \in Calls : pc[c] = "idle"
  BY <1>1, Disjoint
<1>6. PlaceInv /\ NextInv /\ LockInv /\ RecordInv /\ HistoryInv /\ AnswerInv
  BY <1>4, <1>5 DEF PlaceInv, NextInv, LockInv, RecordInv, HistoryInv, AnswerInv, UnderWay
<1>7. RowInv /\ SequentialHistory
  BY <1>2 DEF RowInv, SequentialHistory
<1>8. VersionInv
  BY <1>1, FS_EmptySet DEF VersionInv
<1>9. QED
  BY <1>3, <1>6, <1>7, <1>8 DEF Inv

\* The states of the sessions.
Labels == {"idle", "selected", "read", "flushed", "authenticated", "evaluated", "waiting",
           "forwarded"} \cup Ends

\* A version row is one; and no policy has two rows, whatever is written over.
LEMMA CommitTypes ==
  ASSUME TypeOK, RowInv, NextInv, LockInv, NEW s \in Writers, Commit(s)
  PROVE  TypeOK'
<1>1. /\ table' \in Seq(Columns) /\ DOMAIN table \subseteq DOMAIN table'
      /\ \A i \in DOMAIN table : Sound(table'[i]) /\ table'[i].policy_id = table[i].policy_id
      /\ \A i \in DOMAIN table' : i \notin DOMAIN table =>
           s \in Creates /\ table'[i] = next[s] /\ i = Len(table) + 1
      /\ s \in Creates => \A i \in DOMAIN table : table[i].policy_id # next[s].policy_id
  BY CommitRows
<1>2. next[s] \in Columns /\ Sound(next[s])
  BY DEF NextInv, Commit, UnderWay
<1>3. \A i \in DOMAIN table' : Sound(table'[i])
  BY <1>1, <1>2
<1>4. \A i, j \in DOMAIN table : table[i].policy_id = table[j].policy_id => i = j
  BY DEF TypeOK, Rows
<1>5. ASSUME NEW i \in DOMAIN table', NEW j \in DOMAIN table', table'[i].policy_id = table'[j].policy_id
      PROVE  i = j
  <2>1. CASE i \in DOMAIN table /\ j \in DOMAIN table
    BY <1>1, <1>4, <1>5, <2>1
  <2>2. CASE i \in DOMAIN table /\ j \notin DOMAIN table
    BY <1>1, <1>5, <2>2
  <2>3. CASE i \notin DOMAIN table /\ j \in DOMAIN table
    BY <1>1, <1>5, <2>3
  <2>4. CASE i \notin DOMAIN table /\ j \notin DOMAIN table
    BY <1>1, <2>4
  <2>5. QED
    BY <2>1, <2>2, <2>3, <2>4
<1>6. \A i \in DOMAIN table' :
        /\ Valid(Parsed[table'[i].dsl_source])
        /\ {j \in DOMAIN table' : table'[j].policy_id = table'[i].policy_id} = {i}
  BY <1>3, <1>5 DEF Sound
<1>7. VersionRow(s) \in [policy_id : Ids, version : Versions, dsl_source : Sources, by : Writers]
  BY <1>2 DEF VersionRow, Columns
<1>8. versions' \subseteq [policy_id : Ids, version : Versions, dsl_source : Sources, by : Writers]
  BY <1>7 DEF Commit, TypeOK
<1>9. lock' \in Sessions \cup {None}
  BY DEF Commit, Release, TypeOK
<1>10. pc' \in [Sessions -> Labels]
  <2>1. pc \in [Sessions -> Labels]
    BY DEF TypeOK, Labels, UnderWay
  <2>2. QED
    BY <2>1 DEF Commit, Goto, Labels, Ends
<1>11. UNCHANGED <<log, loaded, next, target, asked, answer, raced>>
  BY DEF Commit
<1>12. QED
  BY <1>1, <1>6, <1>8, <1>9, <1>10, <1>11 DEF TypeOK, Labels, UnderWay, Rows

\* The tables and the sessions keep their types.
LEMMA TypesNext ==
  ASSUME TypeOK, RowInv, NextInv, VersionInv, LockInv, [Next]_vars
  PROVE  TypeOK'
<1>1. CASE UNCHANGED vars
  BY <1>1 DEF TypeOK, Rows, vars
<1>2. pc \in [Sessions -> Labels]
  BY DEF TypeOK, Labels, UnderWay
<1>3. ASSUME NEW s \in Writers, NEW row, NEW new, Loads(s, row, new)
      PROVE  TypeOK'
  <2>1. new \in Columns /\ row \in Columns \cup {NoRow}
    BY <1>3, TableType DEF Loads
  <2>2. loaded' \in [Writers -> Columns \cup {NoRow}] /\ next' \in [Writers -> Columns \cup {NoRow}]
    BY <1>3, <2>1 DEF Loads, Read, TypeOK
  <2>3. raced' \subseteq Ids
    BY <1>3, <2>1 DEF Loads, Read, TypeOK, Columns
  <2>4. pc' \in [Sessions -> Labels]
    BY <1>2, <1>3 DEF Loads, Read, Goto, Labels
  <2>5. UNCHANGED <<table, versions, log, lock, asked, answer>> /\ target' \in [Rollbacks -> Nat]
    BY <1>3 DEF Loads, Read
  <2>6. \A id : Rows(id)' = Rows(id)
    BY <2>5 DEF Rows
  <2>7. QED
    BY <2>2, <2>3, <2>4, <2>5, <2>6 DEF TypeOK, Labels, UnderWay
<1>4. ASSUME NEW s \in Rollbacks, NEW new, Fills(s, new)
      PROVE  TypeOK'
  <2>1. next' \in [Writers -> Columns \cup {NoRow}]
    BY <1>4 DEF Fills, TypeOK
  <2>2. pc' \in [Sessions -> Labels]
    BY <1>2, <1>4 DEF Fills, Goto, Labels
  <2>3. UNCHANGED <<table, versions, log, lock, loaded, target, asked, answer, raced>>
    BY <1>4 DEF Fills
  <2>4. \A id : Rows(id)' = Rows(id)
    BY <2>3 DEF Rows
  <2>5. QED
    BY <2>1, <2>2, <2>3, <2>4 DEF TypeOK, Labels, UnderWay
<1>5. ASSUME NEW s \in Writers, Flushes(s)
      PROVE  TypeOK'
  <2>1. pc' \in [Sessions -> Labels]
    BY <1>2, <1>5 DEF Flushes, Goto, Labels
  <2>2. lock' \in Sessions \cup {None}
    BY <1>5, Disjoint DEF Flushes
  <2>3. UNCHANGED <<table, versions, log, loaded, next, target, asked, answer, raced>>
    BY <1>5 DEF Flushes
  <2>4. \A id : Rows(id)' = Rows(id)
    BY <2>3 DEF Rows
  <2>5. QED
    BY <2>1, <2>2, <2>3, <2>4 DEF TypeOK, Labels, UnderWay
<1>6. ASSUME NEW s \in Sessions, Stops(s)
      PROVE  TypeOK'
  <2>1. pc' \in [Sessions -> Labels]
    BY <1>2, <1>6 DEF Stops, Labels, Ends
  <2>2. lock' \in Sessions \cup {None}
    BY <1>6 DEF Stops, Release, TypeOK
  <2>3. UNCHANGED <<table, versions, log, loaded, next, asked, answer, raced>>
        /\ target' \in [Rollbacks -> Nat]
    BY <1>6 DEF Stops
  <2>4. \A id : Rows(id)' = Rows(id)
    BY <2>3 DEF Rows
  <2>5. QED
    BY <2>1, <2>2, <2>3, <2>4 DEF TypeOK, Labels, UnderWay
<1>7. ASSUME NEW c \in Calls, CallStep(c)
      PROVE  TypeOK'
  <2>1. c \in Sessions
    BY Disjoint
  <2>2. UNCHANGED <<table, versions, loaded, next, target, raced>>
    BY <1>7, CallStepMoves DEF CallMoves
  <2>3. lock' \in Sessions \cup {None}
    BY <1>7, <2>1, CallStepMoves DEF CallMoves, Release, TypeOK
  <2>4. pc' \in [Sessions -> Labels]
    <3>1. \E label \in Labels : pc' = [pc EXCEPT ![c] = label]
      <4>1. CASE Authenticate(c)
        BY <4>1 DEF Authenticate, Goto, Labels
      <4>2. CASE \E req \in LlmCalls : Evaluate(c, req)
        BY <4>2 DEF Evaluate, Goto, Labels
      <4>3. CASE AskApproval(c)
        BY <4>3 DEF AskApproval, Goto, Labels
      <4>4. CASE Resume(c)
        BY <4>4 DEF Resume, Goto, Labels, Ends
      <4>5. CASE Forward(c)
        BY <4>5 DEF Forward, Goto, Labels
      <4>6. CASE Complete(c)
        BY <4>6 DEF Complete, Goto, Labels, Ends
      <4>7. QED
        BY <1>7, <4>1, <4>2, <4>3, <4>4, <4>5, <4>6 DEF CallStep
    <3>2. QED
      BY <1>2, <3>1
  <2>5. asked' \in [Calls -> LlmCalls \cup {None}] /\ answer' \in [Calls -> Answers]
    <3>1. ASSUME NEW req \in LlmCalls, Evaluate(c, req)
          PROVE  asked' \in [Calls -> LlmCalls \cup {None}] /\ answer' \in [Calls -> Answers]
      <4>1. evaluate(table, req) \in Answers
        BY EvaluateType
      <4>2. QED
        BY <3>1, <4>1 DEF Evaluate, TypeOK
    <3>2. CASE Authenticate(c) \/ AskApproval(c) \/ Resume(c) \/ Forward(c) \/ Complete(c)
      <4>1. UNCHANGED <<asked, answer>>
        BY <3>2 DEF Authenticate, AskApproval, Resume, Forward, Complete
      <4>2. QED
        BY <4>1 DEF TypeOK
    <3>3. QED
      BY <1>7, <3>1, <3>2 DEF CallStep
  <2>6. log' \subseteq [call : Calls, answer : Answers]
    <3>1. log' = log \/ Logged(c)
      BY <1>7 DEF CallStep, Authenticate, Evaluate, AskApproval, Resume, Forward, Complete
    <3>2. [call |-> c, answer |-> answer[c]] \in [call : Calls, answer : Answers]
      BY DEF TypeOK
    <3>3. QED
      BY <3>1, <3>2 DEF Logged, TypeOK
  <2>7. \A id : Rows(id)' = Rows(id)
    BY <2>2 DEF Rows
  <2>8. QED
    BY <2>2, <2>3, <2>4, <2>5, <2>6, <2>7 DEF TypeOK, Labels, UnderWay
<1>8. ASSUME NEW s \in Writers, Commit(s)
      PROVE  TypeOK'
  BY <1>8, CommitTypes
<1>9. QED
  BY <1>1, <1>3, <1>5, <1>6, <1>7, <1>8, <1>4, Steps

\* A step of session s leaves the other sessions where they are.
Alone(s) ==
  /\ \A o \in Sessions \ {s} : pc'[o] = pc[o]
  /\ \A w \in Writers \ {s} : next'[w] = next[w] /\ loaded'[w] = loaded[w]
  /\ \A w \in Rollbacks \ {s} : target'[w] = target[w]
  /\ \A c \in Calls \ {s} : asked'[c] = asked[c] /\ answer'[c] = answer[c]

\* The step of a writer leaves the other sessions where they are ...
LEMMA WritersAlone ==
  ASSUME TypeOK, NEW s \in Writers,
         (\E row, new : Loads(s, row, new)) \/ (\E new : Fills(s, new)) \/ Flushes(s) \/ Commit(s)
  PROVE  Alone(s) /\ UNCHANGED <<asked, answer>>
<1>1. ASSUME NEW row, NEW new, Loads(s, row, new)
      PROVE  Alone(s) /\ UNCHANGED <<asked, answer>>
  BY <1>1, Disjoint DEF Alone, Loads, Read, Goto, TypeOK
<1>2. CASE Flushes(s)
  BY <1>2, Disjoint DEF Alone, Flushes, Goto, TypeOK
<1>3. CASE Commit(s)
  BY <1>3, Disjoint DEF Alone, Commit, Goto, TypeOK
<1>4. ASSUME NEW new, Fills(s, new)
      PROVE  Alone(s) /\ UNCHANGED <<asked, answer>>
  BY <1>4, Disjoint DEF Alone, Fills, Goto, TypeOK
<1>5. QED
  BY <1>1, <1>2, <1>3, <1>4

\* ... and so does that of a call, or a failure, which leaves the writers too.
LEMMA OthersAlone ==
  ASSUME TypeOK, NEW s \in Sessions, Stops(s) \/ (s \in Calls /\ CallStep(s))
  PROVE  Alone(s) /\ UNCHANGED <<table, versions, loaded, next, raced>>
<1>1. CASE Stops(s)
  BY <1>1 DEF Alone, Stops, TypeOK
<1>2. CASE s \in Calls /\ CallStep(s)
  <2>1. /\ UNCHANGED <<table, versions, loaded, next, target, raced>>
        /\ pc' = [pc EXCEPT ![s] = pc'[s]]
    BY <1>2, CallStepMoves DEF CallMoves
  <2>2. \A c \in Calls \ {s} : asked'[c] = asked[c] /\ answer'[c] = answer[c]
    <3>1. ASSUME NEW req \in LlmCalls, Evaluate(s, req)
          PROVE  \A c \in Calls \ {s} : asked'[c] = asked[c] /\ answer'[c] = answer[c]
      BY <3>1 DEF Evaluate, TypeOK
    <3>2. CASE Authenticate(s) \/ AskApproval(s) \/ Resume(s) \/ Forward(s) \/ Complete(s)
      BY <3>2 DEF Authenticate, AskApproval, Resume, Forward, Complete
    <3>3. QED
      BY <1>2, <3>1, <3>2 DEF CallStep
  <2>3. QED
    BY <2>1, <2>2 DEF Alone, TypeOK
<1>3. QED
  BY <1>1, <1>2

\* Where a step leaves a writer: reading, flushed, done, or with nothing done.
LEMMA WriterPlaces ==
  ASSUME TypeOK, PlaceInv, NEW s \in Writers
  PROVE  /\ \A row, new : Loads(s, row, new) =>
              /\ pc[s] = "idle" /\ pc'[s] = IF s \in Rollbacks THEN "selected" ELSE "read"
              /\ next'[s] = new /\ loaded'[s] = row
         /\ \A new : Fills(s, new) =>
              /\ pc[s] = "selected" /\ pc'[s] = "read" /\ next'[s] = new
              /\ UNCHANGED <<table, versions, loaded, target>>
         /\ Flushes(s) => pc[s] = "read" /\ pc'[s] = "flushed" /\ UNCHANGED <<next, loaded, table, versions>>
         /\ Commit(s) => pc[s] = "flushed" /\ pc'[s] = "done" /\ UNCHANGED <<next, loaded>>
         /\ Stops(s) => pc[s] \notin Ends /\ pc'[s] \in {"rejected", "failed"}
<1>1. s \in Sessions
  BY Disjoint
<1>2. \A row, new : Loads(s, row, new) =>
        /\ pc[s] = "idle" /\ pc'[s] = IF s \in Rollbacks THEN "selected" ELSE "read"
        /\ next'[s] = new /\ loaded'[s] = row
  BY <1>1 DEF Loads, Read, Goto, TypeOK
<1>3. Flushes(s) => pc[s] = "read" /\ pc'[s] = "flushed" /\ UNCHANGED <<next, loaded, table, versions>>
  BY <1>1 DEF Flushes, Goto, TypeOK
<1>4. Commit(s) => pc[s] = "flushed" /\ pc'[s] = "done" /\ UNCHANGED <<next, loaded>>
  BY <1>1 DEF Commit, Goto, TypeOK
<1>5. Stops(s) => pc[s] \notin Ends /\ pc'[s] \in {"rejected", "failed"}
  BY DEF Stops
<1>6. \A new : Fills(s, new) =>
        /\ pc[s] = "selected" /\ pc'[s] = "read" /\ next'[s] = new
        /\ UNCHANGED <<table, versions, loaded, target>>
  BY <1>1 DEF Fills, Goto, TypeOK
<1>7. QED
  BY <1>2, <1>3, <1>4, <1>5, <1>6

\* A step that is no commit leaves the tables and the writers that are done.
LEMMA QuietSteps ==
  ASSUME TypeOK, PlaceInv, RowInv, NextInv, VersionInv, [Next]_vars
  PROVE  \/ \E s \in Writers : Commit(s)
         \/ /\ UNCHANGED <<table, versions>> /\ Written' = Written
            /\ \A id : Rows(id)' = Rows(id) /\ History(id)' = History(id)
            /\ IdsOf(table') = IdsOf(table)
<1>1. CASE UNCHANGED vars
  BY <1>1 DEF vars, Written, Rows, History
<1>2. ASSUME NEW s \in Sessions, Alone(s), UNCHANGED <<table, versions>>,
             s \in Writers => pc[s] # "done" /\ pc'[s] # "done"
      PROVE  /\ UNCHANGED <<table, versions>> /\ Written' = Written
             /\ \A id : Rows(id)' = Rows(id) /\ History(id)' = History(id)
             /\ IdsOf(table') = IdsOf(table)
  <2>1. \A w \in Writers : pc'[w] = "done" <=> pc[w] = "done"
    BY <1>2, Disjoint DEF Alone
  <2>2. QED
    BY <1>2, <2>1 DEF Written, Rows, History
<1>3. ASSUME NEW s \in Writers, NEW row, NEW new, Loads(s, row, new)
      PROVE  Alone(s) /\ UNCHANGED <<table, versions>> /\ pc[s] # "done" /\ pc'[s] # "done"
  BY <1>3, WritersAlone, WriterPlaces DEF Loads
<1>4. ASSUME NEW s \in Writers, Flushes(s)
      PROVE  Alone(s) /\ UNCHANGED <<table, versions>> /\ pc[s] # "done" /\ pc'[s] # "done"
  BY <1>4, WritersAlone, WriterPlaces
<1>5. ASSUME NEW s \in Sessions, Stops(s)
      PROVE  Alone(s) /\ UNCHANGED <<table, versions>> /\ pc[s] # "done" /\ pc'[s] # "done"
  BY <1>5, OthersAlone DEF Stops, Ends
<1>6. ASSUME NEW c \in Calls, CallStep(c)
      PROVE  Alone(c) /\ UNCHANGED <<table, versions>> /\ c \notin Writers /\ c \in Sessions
  BY <1>6, OthersAlone, Disjoint
<1>7. ASSUME NEW s \in Rollbacks, NEW new, Fills(s, new)
      PROVE  Alone(s) /\ UNCHANGED <<table, versions>> /\ pc[s] # "done" /\ pc'[s] # "done"
  BY <1>7, WritersAlone, WriterPlaces, Disjoint
<1>8. QED
  BY <1>1, <1>2, <1>3, <1>4, <1>5, <1>6, <1>7, Steps, Disjoint

\* A commit makes one more writer done.
LEMMA CommitCounts ==
  ASSUME TypeOK, PlaceInv, NEW s \in Writers, Commit(s)
  PROVE  Cardinality(Written') = Cardinality(Written) + 1
<1>1. s \notin Written /\ Written' = Written \cup {s}
  BY WritersAlone, WriterPlaces, Disjoint DEF Written, Alone
<1>2. QED
  BY <1>1, WrittenFinite, FS_AddElement

\* What becomes of one writer: it reads, it finds its version, or it goes on with
\* what it has read.
LEMMA WriterStep ==
  ASSUME Inv, [Next]_vars, NEW w \in Writers
  PROVE  \/ \E row, new : /\ Loads(w, row, new)
                          /\ next'[w] = new /\ loaded'[w] = row
                          /\ pc'[w] = IF w \in Rollbacks THEN "selected" ELSE "read"
         \/ \E new : /\ Fills(w, new) /\ next'[w] = new /\ loaded'[w] = loaded[w]
                     /\ pc[w] = "selected" /\ pc'[w] = "read"
         \/ /\ next'[w] = next[w] /\ loaded'[w] = loaded[w]
            /\ pc'[w] \in UnderWay => pc[w] \in UnderWay
            /\ pc'[w] = "flushed" => pc[w] = "flushed" \/ Flushes(w)
            /\ pc'[w] = "done" => pc[w] = "done" \/ Commit(w)
            /\ pc'[w] \in {"read", "flushed", "done"} => pc[w] \in {"read", "flushed", "done"}
            /\ w \in Rollbacks /\ pc'[w] \in UnderWay \cup {"done"} => target'[w] = target[w]
<1> DEFINE Goes == /\ next'[w] = next[w] /\ loaded'[w] = loaded[w]
                   /\ pc'[w] \in UnderWay => pc[w] \in UnderWay
                   /\ pc'[w] = "flushed" => pc[w] = "flushed" \/ Flushes(w)
                   /\ pc'[w] = "done" => pc[w] = "done" \/ Commit(w)
                   /\ pc'[w] \in {"read", "flushed", "done"} => pc[w] \in {"read", "flushed", "done"}
                   /\ w \in Rollbacks /\ pc'[w] \in UnderWay \cup {"done"} => target'[w] = target[w]
<1>1. TypeOK /\ PlaceInv /\ RowInv /\ NextInv /\ VersionInv
  BY DEF Inv
<1>2. CASE UNCHANGED vars
  BY <1>2 DEF vars
<1>3. ASSUME NEW s \in Sessions, Alone(s), s # w
      PROVE  Goes
  BY <1>3, Disjoint DEF Alone
<1>4. ASSUME NEW row, NEW new, Loads(w, row, new)
      PROVE  /\ next'[w] = new /\ loaded'[w] = row
             /\ pc'[w] = IF w \in Rollbacks THEN "selected" ELSE "read"
  BY <1>1, <1>4, WriterPlaces
<1>5. ASSUME NEW new, Fills(w, new)
       PROVE  /\ next'[w] = new /\ loaded'[w] = loaded[w]
              /\ pc[w] = "selected" /\ pc'[w] = "read"
  BY <1>1, <1>5, WriterPlaces
<1>6. CASE Flushes(w)
  <2>1. pc[w] = "read" /\ pc'[w] = "flushed" /\ UNCHANGED <<next, loaded, target>>
    BY <1>1, <1>6, WriterPlaces DEF Flushes
  <2>2. QED
    BY <1>6, <2>1 DEF UnderWay
<1>7. CASE Commit(w)
  <2>1. pc[w] = "flushed" /\ pc'[w] = "done" /\ UNCHANGED <<next, loaded, target>>
    BY <1>1, <1>7, WriterPlaces DEF Commit
  <2>2. QED
    BY <1>7, <2>1 DEF UnderWay
<1>8. CASE Stops(w)
  <2>1. pc'[w] \in {"rejected", "failed"} /\ UNCHANGED <<next, loaded>>
    BY <1>1, <1>8 DEF Stops
  <2>2. QED
    BY <2>1 DEF UnderWay
<1>9. ASSUME NEW s \in Sessions, s # w,
             \/ s \in Writers /\ ((\E row, new : Loads(s, row, new)) \/ Flushes(s) \/ Commit(s))
             \/ s \in Writers /\ (\E new : Fills(s, new))
             \/ Stops(s) \/ (s \in Calls /\ CallStep(s))
      PROVE  Goes
  <2>1. Alone(s)
    BY <1>1, <1>9, WritersAlone, OthersAlone
  <2>2. QED
    BY <1>3, <1>9, <2>1
<1> HIDE DEF Goes
<1>10. \/ Goes \/ (\E row, new : Loads(w, row, new)) \/ (\E new : Fills(w, new))
       \/ Flushes(w) \/ Commit(w) \/ Stops(w)
  <2>1. CASE \E s \in Writers : (\E row, new : Loads(s, row, new)) \/ Flushes(s) \/ Commit(s)
    BY <1>9, <2>1, Disjoint
  <2>2. CASE \E s \in Sessions : Stops(s)
    BY <1>9, <2>2
  <2>3. CASE \E c \in Calls : CallStep(c)
    BY <1>9, <2>3, Disjoint
  <2>4. CASE UNCHANGED vars
    BY <1>2, <2>4 DEF Goes
  <2>5. CASE \E s \in Rollbacks : \E new : Fills(s, new)
    BY <1>9, <2>5, Disjoint
  <2>6. QED
    BY <1>1, <2>1, <2>2, <2>3, <2>4, <2>5, Steps
<1>11. QED
  BY <1>4, <1>6, <1>7, <1>8, <1>10, <1>5 DEF Goes

\* Rows and finished writers only become more.
LEMMA TablesGrow ==
  ASSUME Inv, [Next]_vars
  PROVE  /\ IdsOf(table) \subseteq IdsOf(table')
         /\ DOMAIN table \subseteq DOMAIN table'
         /\ versions \subseteq versions'
         /\ Cardinality(Written) \in Nat /\ Cardinality(Written') \in Nat
         /\ Cardinality(Written) <= Cardinality(Written')
<1>1. TypeOK /\ PlaceInv /\ RowInv /\ NextInv /\ VersionInv /\ LockInv
  BY DEF Inv
<1>2. Cardinality(Written) \in Nat
  BY WrittenFinite
<1>3. ASSUME NEW s \in Writers, Commit(s)
      PROVE  /\ IdsOf(table) \subseteq IdsOf(table') /\ DOMAIN table \subseteq DOMAIN table'
             /\ versions \subseteq versions'
             /\ Cardinality(Written') = Cardinality(Written) + 1
  <2>1. /\ DOMAIN table \subseteq DOMAIN table'
        /\ \A i \in DOMAIN table : table'[i].policy_id = table[i].policy_id
    BY <1>1, <1>3, CommitRows
  <2>2. Cardinality(Written') = Cardinality(Written) + 1
    BY <1>1, <1>3, CommitCounts
  <2>3. versions \subseteq versions'
    BY <1>3 DEF Commit
  <2>4. QED
    BY <2>1, <2>2, <2>3 DEF IdsOf
<1>4. CASE /\ UNCHANGED <<table, versions>> /\ Written' = Written /\ IdsOf(table') = IdsOf(table)
  BY <1>2, <1>4
<1>5. QED
  BY <1>1, <1>2, <1>3, <1>4, QuietSteps

\* Each session stays among its own places.
LEMMA PlaceNext ==
  ASSUME Inv, TypeOK', [Next]_vars
  PROVE  PlaceInv'
<1>1. TypeOK /\ PlaceInv /\ RowInv /\ NextInv /\ VersionInv
  BY DEF Inv
<1>2. CASE UNCHANGED vars
  BY <1>1, <1>2 DEF PlaceInv, vars
<1>3. ASSUME NEW s \in Sessions, Alone(s),
             s \in Writers => pc'[s] \in {"idle"} \cup UnderWay \cup Ends,
             s \in Calls => pc'[s] \in {"idle", "authenticated", "evaluated", "waiting", "forwarded"} \cup Ends
      PROVE  PlaceInv'
  BY <1>1, <1>3, Disjoint DEF PlaceInv, Alone
<1>4. ASSUME NEW s \in Writers,
             (\E row, new : Loads(s, row, new)) \/ (\E new : Fills(s, new)) \/ Flushes(s) \/ Commit(s)
      PROVE  PlaceInv'
  <2>1. pc'[s] \in {"selected", "read", "flushed", "done"}
    BY <1>1, <1>4, WriterPlaces
  <2>2. Alone(s) /\ s \in Sessions /\ s \notin Calls
    BY <1>1, <1>4, WritersAlone, Disjoint
  <2>3. QED
    BY <1>3, <2>1, <2>2 DEF UnderWay, Ends
<1>5. ASSUME NEW s \in Sessions, Stops(s)
      PROVE  PlaceInv'
  <2>1. pc'[s] \in Ends
    BY <1>5 DEF Stops, Ends
  <2>2. Alone(s)
    BY <1>1, <1>5, OthersAlone
  <2>3. QED
    BY <1>3, <2>1, <2>2
<1>6. ASSUME NEW c \in Calls, CallStep(c)
      PROVE  PlaceInv'
  <2>1. pc'[c] \in Labels
    BY Disjoint DEF TypeOK, Labels, UnderWay
  <2>2. pc'[c] \notin {"idle"} \cup UnderWay
    BY <1>1, <1>6, CallStepMoves DEF CallMoves
  <2>3. Alone(c) /\ c \in Sessions /\ c \notin Writers
    BY <1>1, <1>6, OthersAlone, Disjoint
  <2>4. QED
    BY <1>3, <2>1, <2>2, <2>3 DEF Labels, UnderWay
<1>7. QED
  BY <1>1, <1>2, <1>4, <1>5, <1>6, Steps, Disjoint

\* A row that is written is sound, and a version on.
LEMMA RowNext ==
  ASSUME Inv, [Next]_vars
  PROVE  RowInv'
<1>1. TypeOK /\ PlaceInv /\ RowInv /\ NextInv /\ VersionInv /\ LockInv
  BY DEF Inv
<1>2. ASSUME NEW s \in Writers, Commit(s)
      PROVE  RowInv'
  <2>1. /\ \A i \in DOMAIN table :
             /\ Sound(table'[i])
             /\ table'[i].current_version \in {table[i].current_version, next[s].current_version}
        /\ \A i \in DOMAIN table' : i \notin DOMAIN table => table'[i] = next[s]
    BY <1>1, <1>2, CommitRows
  <2>2. /\ Sound(next[s]) /\ next[s].current_version \in Nat
        /\ next[s].current_version <= Cardinality(Written) + 1
    BY <1>1, <1>2, WrittenFinite DEF NextInv, Commit, UnderWay, Columns, Versions
  <2>3. Cardinality(Written') = Cardinality(Written) + 1 /\ Cardinality(Written) \in Nat
    BY <1>1, <1>2, CommitCounts, WrittenFinite
  <2>4. \A i \in DOMAIN table : table[i].current_version \in Nat
                                /\ table[i].current_version <= Cardinality(Written)
    BY <1>1, TableType DEF RowInv
  <2>5. ASSUME NEW i \in DOMAIN table'
        PROVE  Sound(table'[i]) /\ table'[i].current_version <= Cardinality(Written')
    <3>1. CASE i \in DOMAIN table
      BY <2>1, <2>2, <2>3, <2>4, <3>1
    <3>2. CASE i \notin DOMAIN table
      BY <2>1, <2>2, <2>3, <3>2
    <3>3. QED
      BY <3>1, <3>2
  <2>6. QED
    BY <2>5 DEF RowInv, Sound
<1>3. CASE UNCHANGED table /\ Written' = Written
  BY <1>1, <1>3 DEF RowInv, Sound
<1>4. QED
  BY <1>1, <1>2, <1>3, QuietSteps

\* What a writer is about to write is the next version of what it has read.
LEMMA NextNext ==
  ASSUME Inv, [Next]_vars
  PROVE  NextInv'
<1>1. TypeOK /\ RowInv /\ NextInv
  BY DEF Inv
<1>2. /\ IdsOf(table) \subseteq IdsOf(table')
      /\ Cardinality(Written) \in Nat /\ Cardinality(Written') \in Nat
      /\ Cardinality(Written) <= Cardinality(Written')
  BY TablesGrow
<1>3. ASSUME NEW w \in Writers, pc'[w] \in UnderWay
      PROVE  /\ next'[w] \in Columns /\ Sound(next'[w])
             /\ next'[w].compiled = Compile(next'[w].dsl_source)
             /\ next'[w].current_version <= Cardinality(Written') + 1
             /\ w \in Creates => next'[w].current_version = 1
             /\ w \notin Creates =>
                  /\ loaded'[w] \in Columns
                  /\ loaded'[w].policy_id = next'[w].policy_id /\ next'[w].policy_id \in IdsOf(table')
                  /\ next'[w].current_version = loaded'[w].current_version + 1
  <2>1. ASSUME NEW row, NEW new, Loads(w, row, new), next'[w] = new, loaded'[w] = row
        PROVE  /\ next'[w] \in Columns /\ Sound(next'[w])
               /\ next'[w].compiled = Compile(next'[w].dsl_source)
               /\ next'[w].current_version <= Cardinality(Written') + 1
               /\ w \in Creates => next'[w].current_version = 1
               /\ w \notin Creates =>
                    /\ loaded'[w] \in Columns
                    /\ loaded'[w].policy_id = next'[w].policy_id /\ next'[w].policy_id \in IdsOf(table')
                    /\ next'[w].current_version = loaded'[w].current_version + 1
    <3>1. /\ new \in Columns /\ Sound(new) /\ new.compiled = Compile(new.dsl_source)
          /\ \/ w \in Creates /\ new.current_version = 1
             \/ /\ w \notin Creates
                /\ \E i \in DOMAIN table : row = table[i]
                /\ row.policy_id = new.policy_id
                /\ new.current_version = row.current_version + 1
      BY <2>1 DEF Loads
    <3>2. CASE w \in Creates
      BY <1>2, <2>1, <3>1, <3>2
    <3>3. CASE w \notin Creates
      <4>1. PICK i \in DOMAIN table : row = table[i]
        BY <3>1, <3>3
      <4>2. /\ row \in Columns /\ row.current_version \in Nat
            /\ row.current_version <= Cardinality(Written) /\ row.policy_id \in IdsOf(table)
        BY <1>1, <4>1, TableType DEF RowInv, IdsOf
      <4>3. new.current_version <= Cardinality(Written') + 1
        BY <1>2, <3>1, <3>3, <4>2
      <4>4. QED
        BY <1>2, <2>1, <3>1, <3>3, <4>2, <4>3
    <3>4. QED
      BY <3>2, <3>3
  <2>2. CASE next'[w] = next[w] /\ loaded'[w] = loaded[w] /\ pc[w] \in UnderWay
    <3>1. /\ next[w] \in Columns /\ Sound(next[w])
          /\ next[w].compiled = Compile(next[w].dsl_source)
          /\ next[w].current_version <= Cardinality(Written) + 1
          /\ w \in Creates => next[w].current_version = 1
          /\ w \notin Creates =>
               /\ loaded[w] \in Columns
               /\ loaded[w].policy_id = next[w].policy_id /\ next[w].policy_id \in IdsOf(table)
               /\ next[w].current_version = loaded[w].current_version + 1
      BY <1>1, <2>2 DEF NextInv
    <3>2. next[w].current_version \in Nat
      BY <3>1, WrittenFinite DEF Columns, Versions
    <3>3. next[w].current_version <= Cardinality(Written') + 1
      BY <1>2, <3>1, <3>2
    <3>4. QED
      BY <1>2, <2>2, <3>1, <3>3
  <2>3. ASSUME NEW new, Fills(w, new), next'[w] = new, loaded'[w] = loaded[w], pc[w] = "selected"
        PROVE  /\ next'[w] \in Columns /\ Sound(next'[w])
               /\ next'[w].compiled = Compile(next'[w].dsl_source)
               /\ next'[w].current_version <= Cardinality(Written') + 1
               /\ w \in Creates => next'[w].current_version = 1
               /\ w \notin Creates =>
                    /\ loaded'[w] \in Columns
                    /\ loaded'[w].policy_id = next'[w].policy_id /\ next'[w].policy_id \in IdsOf(table')
                    /\ next'[w].current_version = loaded'[w].current_version + 1
    <3>1. /\ new \in Columns /\ Sound(new) /\ new.compiled = Compile(new.dsl_source)
          /\ new.policy_id = next[w].policy_id /\ new.current_version = next[w].current_version
          /\ w \notin Creates
      BY <2>3, Disjoint DEF Fills
    <3>2. /\ new.current_version <= Cardinality(Written) + 1
          /\ loaded[w] \in Columns
          /\ loaded[w].policy_id = new.policy_id /\ new.policy_id \in IdsOf(table)
          /\ new.current_version = loaded[w].current_version + 1
      BY <1>1, <2>3, <3>1 DEF NextInv, UnderWay
    <3>3. new.current_version \in Nat
      BY <3>1, WrittenFinite DEF Columns, Versions
    <3>4. new.current_version <= Cardinality(Written') + 1
      BY <1>2, <3>2, <3>3
    <3>5. QED
      BY <1>2, <2>3, <3>1, <3>2, <3>4
  <2>4. QED
    BY <1>3, <2>1, <2>2, <2>3, WriterStep
<1>4. QED
  BY <1>3 DEF NextInv, Sound, IdsOf

\* A version is that of a row, and of a valid source.
LEMMA VersionNext ==
  ASSUME Inv, [Next]_vars
  PROVE  VersionInv'
<1>1. TypeOK /\ PlaceInv /\ RowInv /\ NextInv /\ VersionInv /\ LockInv
  BY DEF Inv
<1>2. IdsOf(table) \subseteq IdsOf(table')
  BY TablesGrow
<1>3. ASSUME NEW s \in Writers, Commit(s)
      PROVE  VersionInv'
  <2>1. versions' = versions \cup {VersionRow(s)}
    BY <1>3 DEF Commit
  <2>2. IsFiniteSet(versions')
    BY <1>1, <2>1, FS_AddElement DEF VersionInv
  <2>3. VersionRow(s).policy_id \in IdsOf(table') /\ Valid(Parsed[VersionRow(s).dsl_source])
    <3>1. next[s].policy_id \in {table'[i].policy_id : i \in DOMAIN table'}
      BY <1>1, <1>3, CommitRows
    <3>2. Valid(Parsed[next[s].dsl_source])
      BY <1>1, <1>3 DEF NextInv, Commit, UnderWay, Sound
    <3>3. QED
      BY <3>1, <3>2 DEF VersionRow, IdsOf
  <2>4. \A v \in versions' : Valid(Parsed[v.dsl_source]) /\ v.policy_id \in IdsOf(table')
    BY <1>1, <1>2, <2>1, <2>3 DEF VersionInv
  <2>5. QED
    BY <2>2, <2>4 DEF VersionInv, IdsOf
<1>4. CASE UNCHANGED versions
  BY <1>1, <1>2, <1>4 DEF VersionInv, IdsOf
<1>5. QED
  BY <1>1, <1>3, <1>4, QuietSteps

\* The lock: only its holder commits, so no row comes up for one that is being
\* inserted.
LEMMA LockNext ==
  ASSUME Inv, PlaceInv', TypeOK', [Next]_vars
  PROVE  LockInv'
<1>1. TypeOK /\ PlaceInv /\ RowInv /\ NextInv /\ VersionInv /\ LockInv
  BY DEF Inv
<1>2. CASE UNCHANGED vars
  BY <1>1, <1>2 DEF LockInv, IdsOf, vars
<1>3. ASSUME NEW s \in Writers, NEW row, NEW new, Loads(s, row, new)
      PROVE  LockInv'
  <2>1. Alone(s) /\ pc'[s] \in {"selected", "read"} /\ UNCHANGED <<table, lock>>
    BY <1>1, <1>3, WritersAlone, WriterPlaces DEF Loads
  <2>2. QED
    BY <1>1, <2>1, Disjoint DEF LockInv, IdsOf, Alone
<1>4. ASSUME NEW s \in Writers, Flushes(s)
      PROVE  LockInv'
  <2>1. Alone(s) /\ pc'[s] = "flushed" /\ UNCHANGED <<table, next>> /\ lock = None /\ lock' = s
    BY <1>1, <1>4, WritersAlone, WriterPlaces DEF Flushes
  <2>2. s \in Creates => next[s].policy_id \notin IdsOf(table)
    BY <1>4 DEF Flushes
  <2>3. \A w \in Writers : w # s => pc[w] # "flushed"
    BY <1>1, <2>1, Disjoint DEF LockInv
  <2>4. \A c \in Calls : pc[c] \notin {"authenticated", "evaluated"}
    BY <1>1, <2>1, Disjoint DEF LockInv
  <2>5. QED
    BY <2>1, <2>2, <2>3, <2>4, Disjoint DEF LockInv, IdsOf, Alone
<1>5. ASSUME NEW s \in Writers, Commit(s)
      PROVE  LockInv'
  <2>1. Alone(s) /\ pc[s] = "flushed" /\ pc'[s] = "done"
    BY <1>1, <1>5, WritersAlone, WriterPlaces
  <2>2. lock = s
    BY <1>1, <2>1 DEF LockInv
  <2>3. \A w \in Writers : w # s => pc[w] # "flushed"
    BY <1>1, <2>2 DEF LockInv
  <2>4. \A c \in Calls : pc[c] \notin {"authenticated", "evaluated"}
    BY <1>1, <2>2, Disjoint DEF LockInv
  <2>5. QED
    BY <2>1, <2>3, <2>4, Disjoint DEF LockInv, Alone
<1>6. ASSUME NEW s \in Sessions, Stops(s)
      PROVE  LockInv'
  <2>1. Alone(s) /\ pc'[s] \notin {"flushed", "authenticated", "evaluated"} /\ UNCHANGED <<table, next>>
    BY <1>1, <1>6, OthersAlone DEF Stops
  <2>2. lock' = lock \/ lock = s
    BY <1>6 DEF Stops, Release
  <2>3. QED
    BY <1>1, <2>1, <2>2, Disjoint DEF LockInv, IdsOf, Alone
<1>7. ASSUME NEW c \in Calls, CallStep(c)
      PROVE  LockInv'
  <2>1. Alone(c) /\ c \notin Writers /\ c # None /\ UNCHANGED <<table, next>>
    BY <1>1, <1>7, OthersAlone, Disjoint
  <2>2. lock' = lock \/ lock = c \/ (lock = None /\ lock' = c)
    BY <1>1, <1>7, CallStepMoves DEF CallMoves, Release
  <2>3. pc'[c] \in {"authenticated", "evaluated"} => lock' = c
    <3>1. CASE Authenticate(c)
      BY <3>1 DEF Authenticate
    <3>2. CASE \E req \in LlmCalls : Evaluate(c, req)
      BY <1>1, <3>2 DEF Evaluate, LockInv
    <3>3. CASE AskApproval(c) \/ Resume(c) \/ Forward(c) \/ Complete(c)
      <4>1. pc'[c] \in {"waiting", "forwarded", "rejected", "done"}
        BY <1>1, <3>3, Disjoint DEF AskApproval, Resume, Forward, Complete, Goto, TypeOK
      <4>2. QED
        BY <4>1
    <3>4. QED
      BY <1>7, <3>1, <3>2, <3>3 DEF CallStep
  <2>4. \A w \in Writers : pc'[w] = "flushed" =>
          lock' = w /\ (w \in Creates => next'[w].policy_id \notin IdsOf(table'))
    BY <1>1, <2>1, <2>2, Disjoint DEF LockInv, Alone
  <2>5. \A o \in Calls : pc'[o] \in {"authenticated", "evaluated"} => lock' = o
    BY <1>1, <2>1, <2>2, <2>3, Disjoint DEF LockInv, Alone
  <2>6. QED
    BY <2>4, <2>5 DEF LockInv, IdsOf
<1>8. ASSUME NEW s \in Rollbacks, NEW new, Fills(s, new)
      PROVE  LockInv'
  <2>1. s \in Writers
    BY Disjoint
  <2>2. Alone(s) /\ pc'[s] = "read" /\ UNCHANGED <<table, lock>>
    BY <1>1, <1>8, <2>1, WritersAlone, WriterPlaces DEF Fills
  <2>3. QED
    BY <1>1, <2>1, <2>2, Disjoint DEF LockInv, IdsOf, Alone
<1>9. QED
  BY <1>1, <1>2, <1>3, <1>4, <1>5, <1>6, <1>7, <1>8, Steps

\* What a call acts on: the table does not change under the lock it holds.
LEMMA AnswerNext ==
  ASSUME Inv, [Next]_vars
  PROVE  AnswerInv'
<1>1. TypeOK /\ PlaceInv /\ RowInv /\ NextInv /\ VersionInv /\ LockInv /\ AnswerInv
  BY DEF Inv
<1>2. CASE UNCHANGED vars
  BY <1>1, <1>2 DEF AnswerInv, vars
<1>3. \A c \in Calls : pc[c] \in {"authenticated", "evaluated"} => lock = c
  BY <1>1 DEF LockInv
<1>4. \A c \in Calls :
        /\ pc[c] = "evaluated" => answer[c] = evaluate(table, asked[c])
        /\ pc[c] = "waiting" => answer[c].decision = "require_approval"
        /\ pc[c] = "forwarded" /\ answer[c].decision # "require_approval" =>
             lock = c /\ answer[c] = evaluate(table, asked[c]) /\ answer[c].decision = "allow"
  BY <1>1 DEF AnswerInv
<1>5. ASSUME NEW s \in Sessions, Alone(s),
             lock' = lock \/ lock \in {s, None},
             table' = table \/ lock = s,
             s \in Calls =>
               /\ pc'[s] = "evaluated" => answer'[s] = evaluate(table', asked'[s])
               /\ pc'[s] = "waiting" => answer'[s].decision = "require_approval"
               /\ pc'[s] = "forwarded" /\ answer'[s].decision # "require_approval" =>
                    lock' = s /\ answer'[s] = evaluate(table', asked'[s]) /\ answer'[s].decision = "allow"
      PROVE  AnswerInv'
  <2>1. ASSUME NEW c \in Calls
        PROVE  /\ pc'[c] = "evaluated" => answer'[c] = evaluate(table', asked'[c])
               /\ pc'[c] = "waiting" => answer'[c].decision = "require_approval"
               /\ pc'[c] = "forwarded" /\ answer'[c].decision # "require_approval" =>
                    lock' = c /\ answer'[c] = evaluate(table', asked'[c]) /\ answer'[c].decision = "allow"
    <3>1. CASE c = s
      BY <1>5, <3>1
    <3>2. CASE c # s
      <4>1. pc'[c] = pc[c] /\ answer'[c] = answer[c] /\ asked'[c] = asked[c]
        BY <1>5, <3>2, Disjoint DEF Alone
      <4>2. lock = c => lock' = lock /\ table' = table
        BY <1>5, <3>2, Disjoint
      <4>3. QED
        BY <1>3, <1>4, <4>1, <4>2
    <3>3. QED
      BY <3>1, <3>2
  <2>2. QED
    BY <2>1 DEF AnswerInv
<1>6. ASSUME NEW s \in Writers,
             (\E row, new : Loads(s, row, new)) \/ (\E new : Fills(s, new)) \/ Flushes(s)
      PROVE  AnswerInv'
  <2>1. Alone(s) /\ s \in Sessions /\ s \notin Calls
    BY <1>1, <1>6, WritersAlone, Disjoint
  <2>2. table' = table /\ (lock' = lock \/ lock \in {s, None})
    BY <1>6 DEF Loads, Fills, Flushes
  <2>3. QED
    BY <1>5, <2>1, <2>2
<1>7. ASSUME NEW s \in Writers, Commit(s)
      PROVE  AnswerInv'
  <2>1. Alone(s) /\ s \in Sessions /\ s \notin Calls
    BY <1>1, <1>7, WritersAlone, Disjoint
  <2>2. lock = s
    BY <1>1, <1>7 DEF LockInv, Commit
  <2>3. QED
    BY <1>5, <2>1, <2>2
<1>8. ASSUME NEW s \in Sessions, Stops(s)
      PROVE  AnswerInv'
  <2>1. Alone(s) /\ table' = table /\ pc'[s] \notin {"evaluated", "waiting", "forwarded"}
    BY <1>1, <1>8, OthersAlone DEF Stops
  <2>2. lock' = lock \/ lock \in {s, None}
    BY <1>8 DEF Stops, Release
  <2>3. QED
    BY <1>5, <2>1, <2>2
<1>9. ASSUME NEW c \in Calls, CallStep(c)
      PROVE  AnswerInv'
  <2>1. Alone(c) /\ c \in Sessions /\ table' = table
    BY <1>1, <1>9, OthersAlone, Disjoint
  <2>2. lock' = lock \/ lock \in {c, None}
    BY <1>1, <1>9, CallStepMoves DEF CallMoves, Release
  <2>3. /\ pc'[c] = "evaluated" => answer'[c] = evaluate(table', asked'[c])
        /\ pc'[c] = "waiting" => answer'[c].decision = "require_approval"
        /\ pc'[c] = "forwarded" /\ answer'[c].decision # "require_approval" =>
             lock' = c /\ answer'[c] = evaluate(table', asked'[c]) /\ answer'[c].decision = "allow"
    <3>1. CASE Authenticate(c)
      <4>1. pc'[c] = "authenticated"
        BY <1>1, <2>1, <3>1 DEF Authenticate, Goto, TypeOK
      <4>2. QED
        BY <4>1
    <3>2. ASSUME NEW req \in LlmCalls, Evaluate(c, req)
          PROVE  pc'[c] = "evaluated" /\ answer'[c] = evaluate(table', asked'[c])
      <4>1. pc'[c] = "evaluated" /\ asked'[c] = req /\ answer'[c] = evaluate(table, req)
        BY <1>1, <2>1, <3>2 DEF Evaluate, Goto, TypeOK
      <4>2. QED
        BY <2>1, <4>1
    <3>3. CASE AskApproval(c)
      <4>1. pc'[c] = "waiting" /\ answer'[c].decision = "require_approval"
        BY <1>1, <2>1, <3>3 DEF AskApproval, Goto, TypeOK
      <4>2. QED
        BY <4>1
    <3>4. CASE Resume(c)
      <4>1. pc'[c] \in {"forwarded", "rejected"} /\ answer'[c].decision = "require_approval"
        BY <1>1, <1>4, <2>1, <3>4 DEF Resume, Goto, TypeOK
      <4>2. QED
        BY <4>1
    <3>5. CASE Forward(c)
      <4>1. /\ pc'[c] = "forwarded" /\ answer' = answer /\ asked' = asked /\ lock' = lock
            /\ pc[c] = "evaluated" /\ answer[c].decision = "allow"
        BY <1>1, <2>1, <3>5 DEF Forward, Goto, TypeOK
      <4>2. QED
        BY <1>3, <1>4, <2>1, <4>1
    <3>6. CASE Complete(c)
      <4>1. pc'[c] = "done"
        BY <1>1, <2>1, <3>6 DEF Complete, Goto, TypeOK
      <4>2. QED
        BY <4>1
    <3>7. QED
      BY <1>9, <3>1, <3>2, <3>3, <3>4, <3>5, <3>6 DEF CallStep
  <2>4. QED
    BY <1>5, <2>1, <2>2, <2>3
<1>10. QED
  BY <1>1, <1>2, <1>6, <1>7, <1>8, <1>9, Steps, Disjoint

\* What has been recorded stays recorded.
LEMMA RecordNext ==
  ASSUME Inv, [Next]_vars
  PROVE  RecordInv'
<1>1. TypeOK /\ RecordInv
  BY DEF Inv
<1>2. versions \subseteq versions'
  BY TablesGrow
<1>3. ASSUME NEW s \in Writers, pc'[s] = "done"
      PROVE  VersionRow(s)' \in versions'
  <2>1. next'[s] = next[s] /\ (pc[s] = "done" \/ Commit(s))
    BY <1>3, WriterStep
  <2>2. VersionRow(s)' = VersionRow(s)
    BY <2>1 DEF VersionRow
  <2>3. VersionRow(s) \in versions'
    BY <1>1, <1>2, <2>1 DEF RecordInv, Commit
  <2>4. QED
    BY <2>2, <2>3
<1>4. ASSUME NEW s \in Rollbacks, s \in Writers, pc'[s] \in {"read", "flushed", "done"}
      PROVE  \E v \in versions' : /\ v.policy_id = next'[s].policy_id
                                  /\ v.version = target'[s] /\ v.dsl_source = next'[s].dsl_source
  <2>1. ASSUME NEW new, Fills(s, new), next'[s] = new
        PROVE  \E v \in versions' : /\ v.policy_id = next'[s].policy_id
                                    /\ v.version = target'[s] /\ v.dsl_source = next'[s].dsl_source
    BY <1>2, <2>1 DEF Fills
  <2>2. CASE /\ next'[s] = next[s] /\ target'[s] = target[s] /\ pc[s] \in {"read", "flushed", "done"}
    <3>1. \E v \in versions : /\ v.policy_id = next[s].policy_id
                              /\ v.version = target[s] /\ v.dsl_source = next[s].dsl_source
      BY <1>1, <1>4, <2>2 DEF RecordInv, History
    <3>2. QED
      BY <1>2, <2>2, <3>1
  <2>3. pc'[s] # "selected" /\ pc'[s] \in UnderWay \cup {"done"}
    BY <1>4 DEF UnderWay
  <2>4. QED
    BY <1>4, <2>1, <2>2, <2>3, WriterStep
<1>5. QED
  BY <1>3, <1>4, Disjoint DEF RecordInv, History

\* A policy that has been raced stays so, and a writer that reads the row of
\* one under way makes a race of it.
LEMMA RacedGrows ==
  ASSUME Inv, [Next]_vars
  PROVE  /\ raced \subseteq raced'
         /\ \A s \in Writers : \A row, new : Loads(s, row, new) =>
              \A w \in Writers \ {s} : pc[w] \in UnderWay /\ next[w].policy_id = new.policy_id =>
                new.policy_id \in raced'
<1>1. TypeOK /\ RowInv /\ NextInv /\ VersionInv
  BY DEF Inv
<1>2. ASSUME NEW s, NEW row, NEW new, Loads(s, row, new)
      PROVE  /\ raced \subseteq raced'
             /\ \A w \in Writers \ {s} : pc[w] \in UnderWay /\ next[w].policy_id = new.policy_id =>
                  new.policy_id \in raced'
  BY <1>2 DEF Loads, Read, UnderWay
<1>3. ASSUME NEW s \in Writers, Flushes(s) \/ Commit(s)
      PROVE  raced' = raced
  BY <1>3 DEF Flushes, Commit
<1>4. ASSUME NEW s \in Sessions, Stops(s)
      PROVE  raced' = raced
  BY <1>4 DEF Stops
<1>5. ASSUME NEW c \in Calls, CallStep(c)
      PROVE  raced' = raced
  BY <1>1, <1>5, CallStepMoves DEF CallMoves
<1>6. UNCHANGED vars => raced' = raced
  BY DEF vars
<1>7. \A s, new : Fills(s, new) => raced' = raced
  BY DEF Fills
<1>8. raced \subseteq raced'
  BY <1>1, <1>2, <1>3, <1>4, <1>5, <1>6, <1>7, Steps
<1>9. QED
  BY <1>2, <1>8

\* Of the writers of a policy that has not been raced one is under way, over
\* the row that it has read.
LEMMA HistoryNext ==
  ASSUME Inv, [Next]_vars
  PROVE  HistoryInv'
<1>1. TypeOK /\ PlaceInv /\ RowInv /\ NextInv /\ VersionInv /\ LockInv /\ HistoryInv
  BY DEF Inv
<1>2. raced \subseteq raced'
  BY RacedGrows
<1>3. ASSUME NEW s \in Writers, NEW w \in Writers, s # w, NEW row, NEW new, Loads(s, row, new),
             next'[s] = new, pc'[w] \in UnderWay, next'[s].policy_id = next'[w].policy_id
      PROVE  next'[s].policy_id \in raced'
  <2>1. Alone(s) /\ w \in Sessions
    BY <1>1, <1>3, WritersAlone, Disjoint
  <2>2. pc[w] \in UnderWay /\ next'[w] = next[w]
    BY <1>3, <2>1 DEF Alone
  <2>3. QED
    BY <1>3, <2>2, RacedGrows
<1>4. ASSUME NEW s \in Writers, NEW w \in Writers, pc'[s] \in UnderWay, pc'[w] \in UnderWay, s # w,
             next'[s].policy_id = next'[w].policy_id
      PROVE  next'[s].policy_id \in raced'
  <2>1. \/ \E row, new : Loads(s, row, new) /\ next'[s] = new
        \/ next'[s].policy_id = next[s].policy_id /\ pc[s] \in UnderWay
    BY <1>4, WriterStep DEF Fills, UnderWay
  <2>2. \/ \E row, new : Loads(w, row, new) /\ next'[w] = new
        \/ next'[w].policy_id = next[w].policy_id /\ pc[w] \in UnderWay
    BY <1>4, WriterStep DEF Fills, UnderWay
  <2>3. CASE \E row, new : Loads(s, row, new) /\ next'[s] = new
    BY <1>3, <1>4, <2>3
  <2>4. CASE \E row, new : Loads(w, row, new) /\ next'[w] = new
    BY <1>3, <1>4, <2>4
  <2>5. CASE /\ next'[s].policy_id = next[s].policy_id /\ pc[s] \in UnderWay
             /\ next'[w].policy_id = next[w].policy_id /\ pc[w] \in UnderWay
    BY <1>1, <1>2, <1>4, <2>5 DEF HistoryInv
  <2>6. QED
    BY <2>1, <2>2, <2>3, <2>4, <2>5
<1>5. ASSUME NEW s \in Writers \ Creates, pc'[s] \in UnderWay, next'[s].policy_id \notin raced'
      PROVE  \E i \in DOMAIN table' : table'[i] = loaded'[s]
  <2>1. ASSUME NEW row, NEW new, Loads(s, row, new), loaded'[s] = row
        PROVE  \E i \in DOMAIN table' : table'[i] = loaded'[s]
    BY <1>5, <2>1 DEF Loads
  <2>2. CASE /\ next'[s].policy_id = next[s].policy_id /\ loaded'[s] = loaded[s]
             /\ pc[s] \in UnderWay
    <3>1. PICK i \in DOMAIN table : table[i] = loaded[s]
      BY <1>1, <1>2, <1>5, <2>2 DEF HistoryInv
    <3>2. ASSUME NEW w \in Writers, Commit(w)
          PROVE  i \in DOMAIN table' /\ table'[i] = table[i]
      <4>1. pc[w] \in UnderWay /\ pc'[w] = "done"
        BY <1>1, <3>2, WriterPlaces DEF UnderWay
      <4>2. w # s
        BY <1>5, <4>1 DEF UnderWay
      <4>3. next[w].policy_id # next[s].policy_id
        BY <1>1, <1>2, <1>5, <2>2, <4>1, <4>2 DEF HistoryInv
      <4>4. loaded[s].policy_id = next[s].policy_id
        BY <1>1, <1>5, <2>2 DEF NextInv
      <4>5. /\ DOMAIN table \subseteq DOMAIN table'
            /\ \A k \in DOMAIN table : table[k].policy_id # next[w].policy_id => table'[k] = table[k]
        BY <1>1, <3>2, CommitRows
      <4>6. QED
        BY <3>1, <4>3, <4>4, <4>5
    <3>3. CASE UNCHANGED table
      BY <2>2, <3>1, <3>3
    <3>4. QED
      BY <1>1, <2>2, <3>1, <3>2, <3>3, QuietSteps
  <2>3. QED
    BY <1>5, <2>1, <2>2, WriterStep DEF Fills, UnderWay
<1>6. QED
  BY <1>4, <1>5 DEF HistoryInv

\* What SequentialHistory says of a row and its history.
InOrder(row, history) ==
  /\ {v.version : v \in history} = 1 .. Cardinality(history)
  /\ row.current_version = Cardinality(history)
  /\ \E v \in history : /\ v.version = row.current_version
                        /\ v.dsl_source = row.dsl_source
                        /\ Compile(v.dsl_source) = row.compiled

\* A writer that has raced nobody writes the next version over the last.
LEMMA CommitInOrder ==
  ASSUME Inv, [Next]_vars, NEW s \in Writers, Commit(s), NEW i \in DOMAIN table',
         table'[i].policy_id \notin raced'
  PROVE  InOrder(table'[i], {v \in versions' : v.policy_id = table'[i].policy_id})
<1> DEFINE id      == table'[i].policy_id
           history == History(id)
           after   == {v \in versions' : v.policy_id = id}
<1>1. TypeOK /\ PlaceInv /\ RowInv /\ NextInv /\ VersionInv /\ LockInv /\ HistoryInv
  BY DEF Inv
<1>2. \A k \in DOMAIN table : table[k].policy_id \notin raced => InOrder(table[k], History(table[k].policy_id))
  BY DEF Inv, SequentialHistory, InOrder
<1>3. /\ \A k \in DOMAIN table :
           /\ table'[k].policy_id = table[k].policy_id
           /\ table[k].policy_id # next[s].policy_id => table'[k] = table[k]
           /\ s \notin Creates /\ table[k] = loaded[s] => table'[k] = next[s]
      /\ \A k \in DOMAIN table' : k \notin DOMAIN table => s \in Creates /\ table'[k] = next[s]
      /\ s \in Creates => \A k \in DOMAIN table : table[k].policy_id # next[s].policy_id
  BY <1>1, CommitRows
<1>4. id \notin raced /\ versions' = versions \cup {VersionRow(s)} /\ pc[s] = "flushed"
  BY DEF Commit
<1>5. /\ VersionRow(s).policy_id = next[s].policy_id
      /\ VersionRow(s).version = next[s].current_version
      /\ VersionRow(s).dsl_source = next[s].dsl_source
  BY DEF VersionRow
<1>6. /\ next[s].compiled = Compile(next[s].dsl_source)
      /\ s \in Creates => next[s].current_version = 1
      /\ s \notin Creates => /\ loaded[s].policy_id = next[s].policy_id
                             /\ next[s].current_version = loaded[s].current_version + 1
  BY <1>1, <1>4 DEF NextInv, UnderWay
<1>7. IsFiniteSet(history) /\ Cardinality(history) \in Nat
  <2>1. history \in SUBSET versions /\ IsFiniteSet(versions)
    BY <1>1 DEF History, VersionInv
  <2>2. IsFiniteSet(history)
    BY <2>1, FS_Subset
  <2>3. QED
    BY <2>2, FS_CardinalityType
<1>8. CASE id # next[s].policy_id
  <2>1. i \in DOMAIN table /\ table'[i] = table[i] /\ id = table[i].policy_id
    BY <1>3, <1>8
  <2>2. after = history
    BY <1>4, <1>5, <1>8 DEF History
  <2>3. QED
    BY <1>2, <1>4, <2>1, <2>2
<1>9. CASE id = next[s].policy_id /\ s \in Creates
  <2>1. table'[i] = next[s] /\ \A k \in DOMAIN table : table[k].policy_id # id
    BY <1>3, <1>9
  <2>2. history = {}
    BY <1>1, <2>1 DEF VersionInv, History, IdsOf
  <2>3. after = {VersionRow(s)}
    BY <1>4, <1>5, <1>9, <2>2 DEF History
  <2>4. Cardinality(after) = 1
    BY <2>3, FS_Singleton
  <2>5. {v.version : v \in after} = 1 .. 1
    BY <1>5, <1>6, <1>9, <2>3
  <2> HIDE DEF after
  <2>6. InOrder(next[s], after)
    BY <1>5, <1>6, <1>9, <2>3, <2>4, <2>5 DEF InOrder
  <2>7. QED
    BY <2>1, <2>6 DEF after
<1>10. CASE id = next[s].policy_id /\ s \notin Creates
  <2>1. PICK k \in DOMAIN table : table[k] = loaded[s]
    BY <1>1, <1>4, <1>10 DEF HistoryInv, UnderWay
  <2>2. i \in DOMAIN table /\ table[i].policy_id = id
    BY <1>3, <1>10
  <2>3. i = k
    BY <1>1, <1>6, <1>10, <2>1, <2>2 DEF TypeOK, Rows
  <2>4. table[i] = loaded[s] /\ table'[i] = next[s]
    BY <1>3, <1>10, <2>1, <2>2, <2>3
  <2>5. InOrder(loaded[s], history)
    BY <1>2, <1>4, <2>2, <2>4
  <2>6. /\ {v.version : v \in history} = 1 .. Cardinality(history)
        /\ next[s].current_version = Cardinality(history) + 1
    BY <1>6, <1>10, <2>5 DEF InOrder
  <2>7. VersionRow(s) \notin history
    BY <1>5, <1>7, <2>6
  <2>8. after = history \cup {VersionRow(s)}
    BY <1>4, <1>5, <1>10 DEF History
  <2>9. Cardinality(after) = Cardinality(history) + 1
    BY <1>7, <2>7, <2>8, FS_AddElement
  <2> HIDE DEF after, history
  <2>10. {v.version : v \in after} = {v.version : v \in history} \cup {Cardinality(history) + 1}
    BY <1>5, <2>6, <2>8
  <2>11. {v.version : v \in after} = 1 .. Cardinality(after)
    BY <1>7, <2>6, <2>9, <2>10
  <2>12. InOrder(next[s], after)
    BY <1>5, <1>6, <2>6, <2>8, <2>9, <2>11 DEF InOrder
  <2>13. QED
    BY <2>4, <2>12 DEF after
<1>11. QED
  BY <1>8, <1>9, <1>10

\* The history of a policy that nobody has raced grows by its next version.
LEMMA SequentialNext ==
  ASSUME Inv, [Next]_vars
  PROVE  SequentialHistory'
<1>1. TypeOK /\ PlaceInv /\ RowInv /\ NextInv /\ VersionInv
  BY DEF Inv
<1>2. \A k \in DOMAIN table : table[k].policy_id \notin raced => InOrder(table[k], History(table[k].policy_id))
  BY DEF Inv, SequentialHistory, InOrder
<1>3. ASSUME NEW i \in DOMAIN table', table'[i].policy_id \notin raced'
      PROVE  InOrder(table'[i], {v \in versions' : v.policy_id = table'[i].policy_id})
  <2>1. ASSUME NEW s \in Writers, Commit(s)
        PROVE  InOrder(table'[i], {v \in versions' : v.policy_id = table'[i].policy_id})
    BY <1>3, <2>1, CommitInOrder
  <2>2. CASE UNCHANGED <<table, versions>>
    <3>1. InOrder(table[i], History(table[i].policy_id))
      BY <1>2, <1>3, <2>2, RacedGrows
    <3>2. QED
      BY <2>2, <3>1 DEF History
  <2>3. QED
    BY <1>1, <2>1, <2>2, QuietSteps
<1>4. QED
  BY <1>3 DEF SequentialHistory, InOrder, History

\* Every step of the tables keeps Inv.
LEMMA Inductive == Inv /\ [Next]_vars => Inv'
<1> SUFFICES ASSUME Inv, [Next]_vars
             PROVE  Inv'
  OBVIOUS
<1>1. TypeOK /\ RowInv /\ NextInv /\ VersionInv /\ LockInv
  BY DEF Inv
<1>2. TypeOK'
  BY <1>1, TypesNext
<1>3. PlaceInv'
  BY <1>2, PlaceNext
<1>4. RowInv' /\ NextInv' /\ VersionInv'
  BY RowNext, NextNext, VersionNext
<1>5. LockInv'
  BY <1>2, <1>3, LockNext
<1>6. AnswerInv' /\ RecordInv' /\ HistoryInv' /\ SequentialHistory'
  BY AnswerNext, RecordNext, HistoryNext, SequentialNext
<1>7. QED
  BY <1>2, <1>3, <1>4, <1>5, <1>6 DEF Inv

\* Inv is an invariant.
LEMMA Invariance == Spec => []Inv
<1>1. QED
  BY InvInit, Inductive, PTL DEF Spec

-----------------------------------------------------------------------------
(* The theorems. *)

\* The tables and the sessions keep their types; an invalid source, or a second
\* row of an id, never gets into the table.
THEOREM TypeCorrect == Spec => []TypeOK
<1>1. Inv => TypeOK
  BY DEF Inv
<1>2. QED
  BY <1>1, Invariance, PTL

\* Whatever rows the endpoints have left, evaluate decides every request as
\* prescribed, and simulate predicts it.
THEOREM EngineAgreesCorrect == Spec => []EngineAgrees
<1>1. Inv => EngineAgrees
  <2> SUFFICES ASSUME Inv
               PROVE  EngineAgrees
    OBVIOUS
  <2>1. Leveled(table)
    BY TableLeveled DEF Inv
  <2>2. QED
    BY <2>1, EvaluateAgrees DEF EngineAgrees
<1>2. QED
  BY <1>1, Invariance, PTL

\* The history of a policy whose writers never overlapped is sequential.
THEOREM SequentialHistoryCorrect == Spec => []SequentialHistory
<1>1. Inv => SequentialHistory
  BY DEF Inv
<1>2. QED
  BY <1>1, Invariance, PTL

\* Every change answered with success stays in the history, and a rollback's is
\* what the version it was asked for says.
THEOREM WritesRecordedCorrect == Spec => []WritesRecorded
<1>1. Inv => WritesRecorded
  BY DEF Inv, RecordInv, WritesRecorded
<1>2. QED
  BY <1>1, Invariance, PTL

\* A call is forwarded without an approval only while the policies in force
\* allow it.
THEOREM AllowIsCurrentCorrect == Spec => []AllowIsCurrent
<1>1. Inv => AllowIsCurrent
  BY DEF Inv, AnswerInv, AllowIsCurrent
<1>2. QED
  BY <1>1, Invariance, PTL

\* A step changes the decision of a request only by writing a policy that
\* applies to it, or applied to it before.
THEOREM ChangeIsLocalCorrect == Spec => ChangeIsLocal
<1>1. ASSUME Inv, Inv', [Next]_vars, NEW req \in Requests,
             \A i \in Applicable(table, req) \cup Applicable(table', req) :
               i \in DOMAIN table /\ table'[i] = table[i]
      PROVE  evaluate(table', req) = evaluate(table, req)
  <2>1. Leveled(table)
    BY <1>1, TableLeveled DEF Inv
  <2>2. PICK before, after : before = table /\ after = table'
    OBVIOUS
  <2>3. Leveled(before) /\ Leveled(after)
    <3>1. TypeOK => Leveled(table)
      BY TableLeveled
    <3>2. TypeOK'
      BY <1>1 DEF Inv
    <3>3. Leveled(table')
      <4>1. table' \in Seq(Columns)
        BY <3>2 DEF TypeOK
      <4>2. DOMAIN table' = 1 .. Len(table') /\ Len(table') \in Nat
        BY <4>1, LenProperties
      <4>3. IsFiniteSet(1 .. Len(table'))
        BY <4>2, FS_Interval
      <4>4. \A i \in DOMAIN table' : table'[i] \in Columns
        BY <4>1, <4>2, ElementOfSeq
      <4>5. QED
        BY <4>2, <4>3, <4>4 DEF Leveled, Columns
    <3>4. QED
      BY <2>1, <2>2, <3>3
  <2>4. DOMAIN before \subseteq DOMAIN after
    BY <1>1, <2>2, TablesGrow
  <2>5. \A i \in Applicable(before, req) \cup Applicable(after, req) :
          i \in DOMAIN before /\ after[i] = before[i]
    BY <1>1, <2>2
  <2>6. evaluate(after, req) = evaluate(before, req)
    BY <2>3, <2>4, <2>5, LocalChange
  <2>7. QED
    BY <2>2, <2>6
<1>2. Inv /\ Inv' /\ [Next]_vars =>
        [table' # table =>
           \A req \in Requests : evaluate(table', req) # evaluate(table, req) =>
             \E i \in Applicable(table, req) \cup Applicable(table', req) :
               i \notin DOMAIN table \/ table'[i] # table[i]]_table
  BY <1>1
<1>3. QED
  BY <1>2, Invariance, PTL DEF Spec, ChangeIsLocal
=============================================================================
