---------------------------- MODULE TracesProofs ----------------------------
(***************************************************************************)
(* Proofs about Traces.  What has been recorded stays: a span that is in   *)
(* the table keeps its trace and its start, and the row of its trace is    *)
(* there (CallInv).  So an index that was in order when it was selected is *)
(* in order for ever, and it has a step, since a trace that has a row has  *)
(* a span (ReplayInv); and a navigation that has been shown a step may     *)
(* write its number at any later moment (NavigationInv).                   *)
(***************************************************************************)
EXTENDS Traces, FiniteSetTheorems, SequenceTheorems, TLAPS

Replays == [trace : TraceIds \cup {None}, index : Seq(Calls), current : Int,
            share : Shares \cup {None}]

\* What TypeOK says of replays and index row by row; and spans are counted.
RowInv ==
  /\ replays \in [Creations -> Replays]
  /\ index \in [Creations -> Seq(Calls)]
  /\ IsFiniteSet(spans)

\* A call that records has found the row of its trace or adds it.
CallInv ==
  /\ \A c \in Calls :
       /\ pc[c] # "idle" => trace[c] \in TraceIds
       /\ pc[c] \in {"recording", "recorded"} => trace[c] \in traces \/ c \in newRow
  /\ TracesWhole

\* An index that can be replayed.
Ordered(s, t) ==
  s # <<>> /\ ToSet(s) \subseteq SpansOf(t) /\ IsInjective(s) /\ Chronological(s)

\* A creation finds a trace that has spans, and inserts its session at most once.
ReplayRow(r) ==
  /\ pc[r] # "idle" => trace[r] \in TraceIds
  /\ pc[r] = "indexing" => trace[r] \in traces
  /\ pc[r] \in {"creating", "flushed"} => Ordered(index[r], trace[r])
  /\ replays[r] # NoReplay =>
       /\ pc[r] = "answered" /\ replays[r].trace # None
       /\ Ordered(replays[r].index, replays[r].trace)
       /\ replays[r].current \in 0 .. Len(replays[r].index) - 1

ReplayInv == \A r \in Creations : ReplayRow(r)

\* A navigation commits a step that its session has.
NavigationInv ==
  /\ \A q \in Navigations \cup Shares : pc[q] \in {"moving", "showing", "sharing", "flushed"} =>
       about[q] \in Creations /\ replays[about[q]] # NoReplay
  /\ \A n \in Navigations : pc[n] = "flushed" =>
       goal[n].to \in 0 .. Len(replays[about[n]].index) - 1

Inv == TypeOK /\ RowInv /\ CallInv /\ ReplayInv /\ NavigationInv

-----------------------------------------------------------------------------
(* Least and greatest elements. *)

\* A set of numbers that is not empty has a least element.
LEMMA Least ==
  ASSUME NEW T \in SUBSET Nat, T # {}
  PROVE  \E x \in T : \A y \in T : x <= y
<1> DEFINE R == OpToRel(<, Nat)
<1>1. IsWellFoundedOn(R, Nat)
  BY NatLessThanWellFounded
<1>2. \A x, y \in Nat : x < y => <<x, y>> \in R
  BY DEF OpToRel
<1> HIDE DEF R
<1>3. PICK x \in T : \A y \in T : ~(<<y, x>> \in R)
  BY <1>1, WFMin
<1>4. ASSUME NEW y \in T
      PROVE  x <= y
  <2>1. x \in Nat /\ y \in Nat
    OBVIOUS
  <2>2. ~(<<y, x>> \in R)
    BY <1>3
  <2>3. ~(y < x)
    BY <1>2, <2>1, <2>2, Zenon
  <2>4. QED
    BY <2>1, <2>3
<1>5. QED
  BY <1>4

\* Min is the least element.
LEMMA MinMember ==
  ASSUME NEW T \in SUBSET Nat, T # {}
  PROVE  Min(T) \in T
BY Least DEF Min

\* The least of two numbers is a number ...
LEMMA MinOfTwo ==
  ASSUME NEW a \in Int, NEW b \in Int
  PROVE  Min({a, b}) \in Int
<1>1. \E x \in {a, b} : \A y \in {a, b} : x <= y
  <2>1. CASE a <= b
    BY <2>1
  <2>2. CASE b <= a
    BY <2>2
  <2>3. QED
    BY <2>1, <2>2
<1>2. Min({a, b}) \in {a, b}
  BY <1>1 DEF Min
<1>3. QED
  BY <1>2

\* ... and so is the greatest.
LEMMA MaxOfTwo ==
  ASSUME NEW a \in Int, NEW b \in Int
  PROVE  Max({a, b}) \in Int
<1>1. \E x \in {a, b} : \A y \in {a, b} : x >= y
  <2>1. CASE a <= b
    BY <2>1
  <2>2. CASE b <= a
    BY <2>2
  <2>3. QED
    BY <2>1, <2>2
<1>2. Max({a, b}) \in {a, b}
  BY <1>1 DEF Max
<1>3. QED
  BY <1>2

\* Wherever a navigation may go, it goes to a whole number.
LEMMA GoalsWhole ==
  ASSUME NEW row \in Replays
  PROVE  Goals(row) \subseteq Int
<1>1. row.current \in Int /\ Len(row.index) \in Nat /\ DOMAIN row.index = 1 .. Len(row.index)
  BY LenProperties DEF Replays
<1>2. Min({row.current + 1, Len(row.index) - 1}) \in Int
  BY <1>1, MinOfTwo
<1>3. Max({row.current - 1, 0}) \in Int
  BY <1>1, MaxOfTwo
<1>4. FirstViolation(row.index) \in Int
  <2> DEFINE violations == {i \in DOMAIN row.index : row.index[i] \in Approved}
  <2>1. violations \in SUBSET Nat
    BY <1>1
  <2>2. violations # {} => Min(violations) \in Nat
    BY <2>1, MinMember
  <2>3. FirstViolation(row.index) =
          IF violations = {} THEN Len(row.index) - 1 ELSE Min(violations) - 1
    BY DEF FirstViolation
  <2> HIDE DEF violations
  <2>4. QED
    BY <1>1, <2>2, <2>3
<1>5. QED
  <2> DEFINE forward  == Min({row.current + 1, Len(row.index) - 1})
             back     == Max({row.current - 1, 0})
             violates == FirstViolation(row.index)
             last     == Len(row.index) - 1
  <2>1. Goals(row) = {forward, back, violates, last, row.current} \cup Jumps
    BY DEF Goals
  <2>2. forward \in Int /\ back \in Int /\ violates \in Int /\ last \in Int
    BY <1>1, <1>2, <1>3, <1>4
  <2> HIDE DEF forward, back, violates, last
  <2>3. QED
    BY <1>1, <2>1, <2>2, TracesAssumption

-----------------------------------------------------------------------------
(* Types. *)

\* At first there are no rows.
LEMMA TypesInit == Init => TypeOK /\ RowInv
<1> USE TracesAssumption
<1> SUFFICES ASSUME Init PROVE TypeOK /\ RowInv
  OBVIOUS
<1>1. NoReplay \in Replays /\ <<>> \in Seq(Calls)
  BY EmptySeq DEF NoReplay, Replays
<1>2. RowInv
  BY <1>1, FS_EmptySet DEF Init, RowInv
<1>3. \A r \in Creations :
        /\ replays[r].trace \in TraceIds \cup {None}
        /\ replays[r].index \in Seq(Calls) /\ index[r] \in Seq(Calls)
        /\ replays[r].current \in Int
        /\ replays[r].share \in Shares \cup {None}
  BY <1>2 DEF RowInv, Replays
<1>4. goal \in [Navigations -> [from : Int, to : Int]]
  BY DEF Init
<1>5. now \in 0 .. MaxTime /\ started \in [Calls -> 0 .. MaxTime]
  BY DEF Init
<1>6. QED
  BY <1>2, <1>3, <1>4, <1>5 DEF Init, TypeOK, Ends

\* All but the rows and their indexes.
PlainTypes ==
  /\ traces \subseteq TraceIds /\ spans \subseteq Calls
  /\ lock \in UnderWay \cup {None}
  /\ now \in 0 .. MaxTime
  /\ pc \in [Requests -> {"idle", "sent", "inserting", "recording", "recorded", "indexing",
                          "creating", "moving", "showing", "sharing", "flushed"} \cup Ends]
  /\ trace \in [Calls \cup Creations -> TraceIds \cup {None}]
  /\ started \in [Calls -> 0 .. MaxTime]
  /\ newRow \subseteq Calls
  /\ about \in [Navigations \cup Shares -> Creations \cup {None}]
  /\ goal \in [Navigations -> [from : Int, to : Int]]

\* With the replay rows one by one, the other types are all that TypeOK says.
LEMMA TypesAreTwo == TypeOK /\ RowInv <=> PlainTypes /\ RowInv
<1>1. RowInv => \A r \in Creations :
        /\ replays[r].trace \in TraceIds \cup {None}
        /\ replays[r].index \in Seq(Calls) /\ index[r] \in Seq(Calls)
        /\ replays[r].current \in Int
        /\ replays[r].share \in Shares \cup {None}
  BY DEF RowInv, Replays
<1>2. QED
  BY <1>1 DEF TypeOK, PlainTypes

\* A call keeps the types.
LEMMA PlainCalls ==
  ASSUME PlainTypes, CallInv, NEW c \in Calls,
         (\E t \in TraceIds : Send(c, t)) \/ FindTrace(c) \/ InsertTrace(c) \/ Record(c)
           \/ CommitCall(c)
  PROVE  PlainTypes'
<1> USE TracesAssumption
<1>1. c \in Requests
  BY DEF Requests
<1>2. ASSUME NEW t \in TraceIds, Send(c, t)
      PROVE  PlainTypes'
  BY <1>1, <1>2 DEF Send, Goto, TakeLock, PlainTypes, UnderWay, Ends
<1>3. CASE FindTrace(c)
  BY <1>1, <1>3 DEF FindTrace, Goto, PlainTypes, UnderWay, Ends
<1>4. CASE InsertTrace(c)
  BY <1>1, <1>4 DEF InsertTrace, Goto, TakeLock, Release, PlainTypes, UnderWay, Ends
<1>5. CASE Record(c)
  BY <1>1, <1>5 DEF Record, Goto, TakeLock, PlainTypes, UnderWay, Ends
<1>6. CASE CommitCall(c)
  <2>1. traces' \subseteq TraceIds /\ spans' \subseteq Calls
    BY <1>6 DEF CommitCall, PlainTypes, CallInv
  <2>2. QED
    BY <1>1, <1>6, <2>1 DEF CommitCall, Goto, Release, PlainTypes, UnderWay, Ends
<1>7. QED
  BY <1>2, <1>3, <1>4, <1>5, <1>6

\* A replay session keeps the types.
LEMMA PlainReplays ==
  ASSUME PlainTypes, RowInv, Next,
         ~ \E c \in Calls : \/ \E t \in TraceIds : Send(c, t)
                            \/ FindTrace(c) \/ InsertTrace(c) \/ Record(c) \/ CommitCall(c)
  PROVE  PlainTypes'
<1> USE TracesAssumption
<1>1. ASSUME NEW r \in Creations,
             (\E t \in TraceIds : FindTraceToReplay(r, t)) \/ SelectSpans(r) \/ InsertReplay(r)
      PROVE  PlainTypes'
  <2>1. r \in Requests
    BY DEF Requests
  <2>2. ASSUME NEW t \in TraceIds, FindTraceToReplay(r, t)
        PROVE  PlainTypes'
    BY <2>1, <2>2 DEF FindTraceToReplay, Goto, PlainTypes, UnderWay, Ends
  <2>3. CASE SelectSpans(r)
    BY <2>1, <2>3 DEF SelectSpans, Goto, PlainTypes, UnderWay, Ends
  <2>4. CASE InsertReplay(r)
    BY <2>1, <2>4 DEF InsertReplay, Goto, TakeLock, PlainTypes, UnderWay, Ends
  <2>5. QED
    BY <1>1, <2>2, <2>3, <2>4
<1>2. ASSUME NEW q \in Navigations \cup Shares, NEW r \in Creations, SelectReplay(q, r)
      PROVE  PlainTypes'
  <2>1. q \in Requests
    BY DEF Requests
  <2>2. goal' \in [Navigations -> [from : Int, to : Int]]
    <3>1. CASE q \in Navigations
      <4>1. PICK k \in Goals(replays[r]) :
                   goal' = [goal EXCEPT ![q] = [from |-> replays[r].current, to |-> k]]
        BY <1>2, <3>1 DEF SelectReplay
      <4>2. replays[r] \in Replays /\ replays[r].current \in Int /\ k \in Int
        BY GoalsWhole DEF RowInv, Replays
      <4>3. QED
        BY <3>1, <4>1, <4>2 DEF PlainTypes
    <3>2. CASE q \notin Navigations
      BY <1>2, <3>2 DEF SelectReplay, PlainTypes
    <3>3. QED
      BY <3>1, <3>2
  <2>3. QED
    BY <1>2, <2>1, <2>2 DEF SelectReplay, Goto, PlainTypes, UnderWay, Ends
<1>3. ASSUME NEW n \in Navigations, Move(n) \/ Show(n)
      PROVE  PlainTypes'
  <2>1. n \in Requests
    BY DEF Requests
  <2>2. CASE Move(n)
    BY <2>1, <2>2 DEF Move, Goto, TakeLock, PlainTypes, UnderWay, Ends
  <2>3. CASE Show(n)
    <3>1. /\ pc[n] = "showing"
          /\ \/ Goto(n, "flushed") /\ UNCHANGED lock
             \/ Goto(n, "failed") /\ Release(n)
          /\ UNCHANGED <<traces, spans, replays, now, trace, started, newRow, index, about, goal>>
      BY <2>3 DEF Show
    <3>2. QED
      BY <2>1, <3>1 DEF Goto, Release, PlainTypes, UnderWay, Ends
  <2>4. QED
    BY <1>3, <2>2, <2>3
<1>4. ASSUME NEW s \in Shares, Share(s)
      PROVE  PlainTypes'
  BY <1>4 DEF Share, Goto, TakeLock, PlainTypes, UnderWay, Ends, Requests
<1>5. ASSUME NEW q \in Creations \cup Navigations \cup Shares, CommitReplay(q)
      PROVE  PlainTypes'
  <2>1. q \in Requests
    BY DEF Requests
  <2>2. Release(q) /\ Goto(q, "answered")
        /\ UNCHANGED <<traces, spans, now, trace, started, newRow, index, about, goal>>
    BY <1>5 DEF CommitReplay
  <2>3. QED
    BY <2>1, <2>2 DEF Goto, Release, PlainTypes, UnderWay, Ends
<1>6. ASSUME NEW q \in Requests, Fail(q)
      PROVE  PlainTypes'
  BY <1>6 DEF Fail, Goto, Release, PlainTypes, UnderWay, Ends
<1>7. CASE Tick
  BY <1>7 DEF Tick, PlainTypes, UnderWay
<1>8. CASE Finished
  BY <1>8 DEF Finished, vars, PlainTypes, UnderWay
<1>9. QED
  BY <1>1, <1>2, <1>3, <1>4, <1>5, <1>6, <1>7, <1>8 DEF Next

-----------------------------------------------------------------------------
(* Calls. *)

\* A call that does not commit leaves the tables and keeps what is known of calls.
LEMMA CallsStep ==
  ASSUME PlainTypes, RowInv, CallInv, NEW c \in Calls,
         (\E t \in TraceIds : Send(c, t)) \/ FindTrace(c) \/ InsertTrace(c) \/ Record(c)
  PROVE  CallInv' /\ spans' = spans /\ traces' = traces
<1> USE TracesAssumption DEF Requests, Ends
<1>1. spans' = spans /\ traces' = traces
  BY DEF Send, FindTrace, InsertTrace, Record
<1>2. \A d \in Calls \ {c} : pc'[d] = pc[d] /\ trace'[d] = trace[d] /\ (d \in newRow' <=> d \in newRow)
  BY DEF Send, FindTrace, InsertTrace, Record, Goto, PlainTypes
<1>3. /\ pc[c] # "answered" /\ pc'[c] # "answered"
      /\ trace'[c] \in TraceIds
      /\ pc'[c] \in {"recording", "recorded"} => trace'[c] \in traces \/ c \in newRow'
  <2>1. ASSUME NEW t \in TraceIds, Send(c, t)
        PROVE  pc[c] = "idle" /\ pc'[c] = "sent" /\ trace'[c] = t
    BY <2>1 DEF Send, Goto, PlainTypes
  <2>2. CASE FindTrace(c)
    BY <2>2 DEF FindTrace, Goto, PlainTypes, CallInv
  <2>3. CASE InsertTrace(c)
    BY <2>3 DEF InsertTrace, Goto, PlainTypes, CallInv
  <2>4. CASE Record(c)
    BY <2>4 DEF Record, Goto, PlainTypes, CallInv
  <2>5. QED
    BY <2>1, <2>2, <2>3, <2>4
<1>4. c \notin spans
  BY <1>3 DEF CallInv, TracesWhole
<1>5. TracesWhole'
  <2>1. \A d \in Calls : pc'[d] = "answered" <=> d \in spans'
    BY <1>1, <1>2, <1>3, <1>4 DEF CallInv, TracesWhole
  <2>2. {trace'[d] : d \in spans'} = {trace[d] : d \in spans}
    BY <1>1, <1>2, <1>4 DEF PlainTypes
  <2>3. QED
    BY <1>1, <2>1, <2>2 DEF CallInv, TracesWhole
<1>6. QED
  BY <1>1, <1>2, <1>3, <1>5 DEF CallInv

\* A call that commits adds its span, and the row of its trace if it made it.
LEMMA CallsCommit ==
  ASSUME PlainTypes, RowInv, CallInv, NEW c \in Calls, CommitCall(c)
  PROVE  CallInv' /\ spans' = spans \cup {c} /\ IsFiniteSet(spans')
<1> USE TracesAssumption DEF Requests, Ends
<1>1. /\ pc[c] = "recorded" /\ pc' = [pc EXCEPT ![c] = "answered"]
      /\ traces' = traces \cup {trace[d] : d \in newRow \cap {c}}
      /\ spans' = spans \cup {c}
      /\ UNCHANGED <<trace, newRow>>
  BY DEF CommitCall, Goto
<1>2. traces' = traces \cup {trace[c]}
  <2>1. CASE c \in newRow
    BY <1>1, <2>1
  <2>2. CASE c \notin newRow
    BY <1>1, <2>2 DEF CallInv
  <2>3. QED
    BY <2>1, <2>2
<1>3. TracesWhole'
  <2>1. \A d \in Calls : pc'[d] = "answered" <=> d \in spans'
    BY <1>1 DEF CallInv, TracesWhole, PlainTypes
  <2>2. traces = {trace[d] : d \in spans}
    BY DEF CallInv, TracesWhole
  <2>3. {trace[d] : d \in spans \cup {c}} = {trace[d] : d \in spans} \cup {trace[c]}
    OBVIOUS
  <2>4. traces' = {trace'[d] : d \in spans'}
    BY <1>1, <1>2, <2>2, <2>3
  <2>5. QED
    BY <2>1, <2>4 DEF TracesWhole
<1>4. ASSUME NEW d \in Calls
      PROVE  /\ pc'[d] # "idle" => trace'[d] \in TraceIds
             /\ pc'[d] \in {"recording", "recorded"} => trace'[d] \in traces' \/ d \in newRow'
  BY <1>1, <1>2 DEF CallInv, PlainTypes
<1>5. IsFiniteSet(spans')
  BY <1>1, FS_AddElement DEF RowInv
<1>6. QED
  BY <1>1, <1>3, <1>4, <1>5 DEF CallInv

\* No other request touches a call, except that it may fail before its commit.
LEMMA CallsKept ==
  ASSUME PlainTypes, RowInv, CallInv, [Next]_vars,
         ~ \E c \in Calls : \/ \E t \in TraceIds : Send(c, t)
                            \/ FindTrace(c) \/ InsertTrace(c) \/ Record(c) \/ CommitCall(c)
  PROVE  CallInv' /\ spans' = spans /\ traces' = traces
<1> USE TracesAssumption DEF Requests, Ends
<1>1. UNCHANGED <<spans, traces, newRow, started>>
  BY DEF Next, FindTraceToReplay, SelectSpans, InsertReplay, SelectReplay, Move, Show, Share,
         CommitReplay, Fail, Tick, Finished, vars
<1>2. \A c \in Calls : trace'[c] = trace[c]
  BY DEF Next, FindTraceToReplay, SelectSpans, InsertReplay, SelectReplay, Move, Show, Share,
         CommitReplay, Fail, Tick, Finished, vars, PlainTypes
<1>3. \A c \in Calls : pc'[c] = pc[c] \/ (pc[c] \notin {"idle", "answered"} /\ pc'[c] = "failed")
  <2>1. ASSUME NEW q \in Requests, Fail(q), NEW c \in Calls
        PROVE  pc'[c] = pc[c] \/ (pc[c] \notin {"idle", "answered"} /\ pc'[c] = "failed")
    BY <2>1 DEF Fail, Goto, PlainTypes
  <2>2. ASSUME NEW q \in Requests \ Calls, NEW label, Goto(q, label), NEW c \in Calls
        PROVE  pc'[c] = pc[c]
    BY <2>2 DEF Goto, PlainTypes
  <2>3. ASSUME NEW r \in Creations,
               (\E t \in TraceIds : FindTraceToReplay(r, t)) \/ SelectSpans(r) \/ InsertReplay(r)
        PROVE  \E label : Goto(r, label)
    BY <2>3 DEF FindTraceToReplay, SelectSpans, InsertReplay
  <2>4. ASSUME NEW q \in Navigations \cup Shares, NEW r \in Creations, SelectReplay(q, r)
        PROVE  \E label : Goto(q, label)
    BY <2>4 DEF SelectReplay
  <2>5. ASSUME NEW n \in Navigations, Move(n) \/ Show(n)
        PROVE  \E label : Goto(n, label)
    <3>1. CASE Move(n)
      BY <3>1 DEF Move
    <3>2. CASE Show(n)
      <4>1. Goto(n, "flushed") \/ Goto(n, "failed")
        BY <3>2 DEF Show
      <4>2. QED
        BY <4>1
    <3>3. QED
      BY <2>5, <3>1, <3>2
  <2>6. ASSUME NEW s \in Shares, Share(s)
        PROVE  \E label : Goto(s, label)
    BY <2>6 DEF Share
  <2>7. ASSUME NEW q \in Creations \cup Navigations \cup Shares, CommitReplay(q)
        PROVE  \E label : Goto(q, label)
    BY <2>7 DEF CommitReplay
  <2>8. CASE pc' = pc
    BY <2>8
  <2>9. QED
    BY <2>1, <2>2, <2>3, <2>4, <2>5, <2>6, <2>7, <2>8 DEF Next, Tick, Finished, vars
<1>4. TracesWhole'
  <2>1. \A c \in Calls : pc'[c] = "answered" <=> c \in spans'
    BY <1>1, <1>3 DEF CallInv, TracesWhole
  <2>2. {trace'[c] : c \in spans'} = {trace[c] : c \in spans}
    BY <1>1, <1>2 DEF PlainTypes
  <2>3. QED
    BY <1>1, <2>1, <2>2 DEF CallInv, TracesWhole
<1>5. QED
  BY <1>1, <1>2, <1>3, <1>4 DEF CallInv

\* What is known of calls is kept by every step.
LEMMA CallsNext ==
  ASSUME PlainTypes, RowInv, CallInv, [Next]_vars
  PROVE  CallInv' /\ IsFiniteSet(spans')
<1>1. ASSUME NEW c \in Calls,
             (\E t \in TraceIds : Send(c, t)) \/ FindTrace(c) \/ InsertTrace(c) \/ Record(c)
      PROVE  CallInv' /\ IsFiniteSet(spans')
  BY <1>1, CallsStep DEF RowInv
<1>2. ASSUME NEW c \in Calls, CommitCall(c)
      PROVE  CallInv' /\ IsFiniteSet(spans')
  BY <1>2, CallsCommit
<1>3. CASE ~ \E c \in Calls : \/ \E t \in TraceIds : Send(c, t)
                              \/ FindTrace(c) \/ InsertTrace(c) \/ Record(c) \/ CommitCall(c)
  BY <1>3, CallsKept DEF RowInv
<1>4. QED
  BY <1>1, <1>2, <1>3

\* The types are kept by every step.
LEMMA PlainNext ==
  ASSUME PlainTypes, RowInv, CallInv, [Next]_vars
  PROVE  PlainTypes'
<1>1. ASSUME NEW c \in Calls,
             (\E t \in TraceIds : Send(c, t)) \/ FindTrace(c) \/ InsertTrace(c) \/ Record(c)
               \/ CommitCall(c)
      PROVE  PlainTypes'
  BY <1>1, PlainCalls
<1>2. CASE UNCHANGED vars
  BY <1>2 DEF vars, PlainTypes, UnderWay
<1>3. QED
  BY <1>1, <1>2, PlainReplays

\* What has been recorded stays as it is.
LEMMA SpansKept ==
  ASSUME PlainTypes, RowInv, CallInv, [Next]_vars
  PROVE  \A c \in spans : c \in spans' /\ trace'[c] = trace[c] /\ started'[c] = started[c]
<1> USE TracesAssumption
<1>1. ASSUME NEW c \in Calls, NEW t \in TraceIds, Send(c, t)
      PROVE  \A d \in spans : d \in spans' /\ trace'[d] = trace[d] /\ started'[d] = started[d]
  <2>1. c \notin spans
    BY <1>1 DEF Send, CallInv, TracesWhole
  <2>2. QED
    BY <1>1, <2>1 DEF Send, PlainTypes
<1>2. ASSUME NEW c \in Calls, FindTrace(c) \/ InsertTrace(c) \/ Record(c) \/ CommitCall(c)
      PROVE  \A d \in spans : d \in spans' /\ trace'[d] = trace[d] /\ started'[d] = started[d]
  BY <1>2 DEF FindTrace, InsertTrace, Record, CommitCall
<1>3. CASE ~ \E c \in Calls : \/ \E t \in TraceIds : Send(c, t)
                              \/ FindTrace(c) \/ InsertTrace(c) \/ Record(c) \/ CommitCall(c)
  BY <1>3 DEF Next, FindTraceToReplay, SelectSpans, InsertReplay, SelectReplay, Move, Show, Share,
         CommitReplay, Fail, Tick, Finished, vars, PlainTypes
<1>4. QED
  BY <1>1, <1>2, <1>3

\* An index in order stays so, and the spans of a trace only grow.
LEMMA OrderKept ==
  ASSUME PlainTypes, RowInv, CallInv, [Next]_vars,
         NEW s \in Seq(Calls), NEW t, s # <<>>, ToSet(s) \subseteq SpansOf(t), IsInjective(s),
         Chronological(s)
  PROVE  ToSet(s) \subseteq SpansOf(t)' /\ Chronological(s)'
<1>1. \A c \in spans : c \in spans' /\ trace'[c] = trace[c] /\ started'[c] = started[c]
  BY SpansKept
<1>2. ToSet(s) \subseteq SpansOf(t)'
  BY <1>1 DEF SpansOf
<1>3. \A i \in DOMAIN s : s[i] \in spans
  BY DEF ToSet, SpansOf
<1>4. Chronological(s)'
  BY <1>1, <1>3 DEF Chronological
<1>5. QED
  BY <1>2, <1>4

\* A trace that has a row has spans, so the index that is selected has a step.
LEMMA SelectionOrdered ==
  ASSUME PlainTypes, RowInv, CallInv, NEW t \in traces,
         NEW s \in SetToSeqs(SpansOf(t)), Chronological(s)
  PROVE  s \in Seq(Calls) /\ Ordered(s, t)
<1>1. SpansOf(t) # {} /\ IsFiniteSet(SpansOf(t)) /\ SpansOf(t) \subseteq Calls
  BY FS_Subset DEF SpansOf, CallInv, TracesWhole, RowInv, PlainTypes
<1>2. Cardinality(SpansOf(t)) \in Nat /\ Cardinality(SpansOf(t)) # 0
  BY <1>1, FS_CardinalityType, FS_EmptySet
<1>3. /\ s \in [1 .. Cardinality(SpansOf(t)) -> SpansOf(t)]
      /\ \A i, j \in 1 .. Cardinality(SpansOf(t)) : i # j => s[i] # s[j]
  BY DEF SetToSeqs
<1>4. s \in Seq(SpansOf(t)) /\ Len(s) = Cardinality(SpansOf(t))
  BY <1>2, <1>3, IsASeq, LenProperties
<1>5. s \in Seq(Calls)
  BY <1>1, <1>4, SeqMonotonic
<1>6. s # <<>>
  BY <1>2, <1>4, EmptySeq
<1>7. ToSet(s) \subseteq SpansOf(t) /\ IsInjective(s)
  BY <1>3 DEF ToSet, IsInjective
<1>8. QED
  BY <1>5, <1>6, <1>7 DEF Ordered

-----------------------------------------------------------------------------
(* Replay sessions. *)

\* No trace row is removed.
LEMMA TracesGrow ==
  ASSUME [Next]_vars
  PROVE  traces \subseteq traces'
BY DEF Next, Send, FindTrace, InsertTrace, Record, CommitCall, FindTraceToReplay, SelectSpans,
       InsertReplay, SelectReplay, Move, Show, Share, CommitReplay, Fail, Tick, Finished, vars

\* An index that was in order stays in order, also as read from a row.
LEMMA RowOrderKept ==
  ASSUME PlainTypes, RowInv, CallInv, [Next]_vars, NEW r \in Creations
  PROVE  /\ Ordered(index[r], trace[r]) /\ index'[r] = index[r] /\ trace'[r] = trace[r]
              => Ordered(index[r], trace[r])'
         /\ Ordered(replays[r].index, replays[r].trace) /\ replays'[r].index = replays[r].index
              /\ replays'[r].trace = replays[r].trace
              => Ordered(replays[r].index, replays[r].trace)'
<1>1. ASSUME NEW s \in Seq(Calls), NEW t, Ordered(s, t)
      PROVE  s # <<>> /\ ToSet(s) \subseteq SpansOf(t)' /\ IsInjective(s) /\ Chronological(s)'
  BY <1>1, OrderKept DEF Ordered
<1>2. ASSUME Ordered(index[r], trace[r]), index'[r] = index[r], trace'[r] = trace[r]
      PROVE  Ordered(index[r], trace[r])'
  <2>1. PICK s, t : s \in Seq(Calls) /\ s = index[r] /\ t = trace[r]
    BY DEF RowInv
  <2>2. s # <<>> /\ ToSet(s) \subseteq SpansOf(t)' /\ IsInjective(s) /\ Chronological(s)'
    BY <1>1, <1>2, <2>1
  <2>3. s = index'[r] /\ t = trace'[r]
    BY <1>2, <2>1
  <2>4. QED
    BY <2>2, <2>3 DEF Ordered, SpansOf, Chronological
<1>3. ASSUME Ordered(replays[r].index, replays[r].trace), replays'[r].index = replays[r].index,
             replays'[r].trace = replays[r].trace
      PROVE  Ordered(replays[r].index, replays[r].trace)'
  <2>1. PICK s, t : s \in Seq(Calls) /\ s = replays[r].index /\ t = replays[r].trace
    BY DEF RowInv, Replays
  <2>2. s # <<>> /\ ToSet(s) \subseteq SpansOf(t)' /\ IsInjective(s) /\ Chronological(s)'
    BY <1>1, <1>3, <2>1
  <2>3. s = replays'[r].index /\ t = replays'[r].trace
    BY <1>3, <2>1
  <2>4. QED
    BY <2>2, <2>3 DEF Ordered, SpansOf, Chronological
<1>4. QED
  BY <1>2, <1>3

\* A creation that does not move, or fails, leaves its row in order.
LEMMA ReplayKept ==
  ASSUME PlainTypes, RowInv, CallInv, ReplayInv, [Next]_vars, NEW r \in Creations,
         pc'[r] = pc[r] \/ (pc[r] \notin {"idle", "answered"} /\ pc'[r] = "failed"),
         trace'[r] = trace[r], index'[r] = index[r], replays'[r] = replays[r]
  PROVE  ReplayRow(r)'
<1>1. ReplayRow(r)
  BY DEF ReplayInv
<1>2. /\ pc'[r] # "idle" => trace'[r] \in TraceIds
      /\ pc'[r] = "indexing" => trace'[r] \in traces'
  BY <1>1, TracesGrow DEF ReplayRow
<1>3. pc'[r] \in {"creating", "flushed"} => Ordered(index[r], trace[r])'
  BY <1>1, RowOrderKept DEF ReplayRow
<1>4. replays'[r] # NoReplay =>
        /\ pc'[r] = "answered" /\ replays'[r].trace # None
        /\ Ordered(replays[r].index, replays[r].trace)'
        /\ replays'[r].current \in 0 .. Len(replays'[r].index) - 1
  BY <1>1, RowOrderKept DEF ReplayRow
<1>5. QED
  BY <1>2, <1>3, <1>4 DEF ReplayRow

\* The steps of a creation.
LEMMA CreationKeeps ==
  ASSUME PlainTypes, RowInv, CallInv, ReplayInv, [Next]_vars, NEW r \in Creations,
         (\E t \in TraceIds : FindTraceToReplay(r, t)) \/ SelectSpans(r) \/ InsertReplay(r)
  PROVE  RowInv' /\ ReplayInv' /\ replays' = replays
<1> USE TracesAssumption DEF Requests
<1>1. replays' = replays /\ spans' = spans /\ traces' = traces
  BY DEF FindTraceToReplay, SelectSpans, InsertReplay
<1>2. replays[r] = NoReplay /\ pc[r] \in {"idle", "indexing", "creating"}
  BY DEF FindTraceToReplay, SelectSpans, InsertReplay, ReplayInv, ReplayRow
<1>3. ASSUME NEW o \in Creations \ {r}
      PROVE  pc'[o] = pc[o] /\ trace'[o] = trace[o] /\ index'[o] = index[o]
  BY DEF FindTraceToReplay, SelectSpans, InsertReplay, Goto, PlainTypes, RowInv
<1>4. ASSUME NEW o \in Creations \ {r}
      PROVE  ReplayRow(o)'
  BY <1>1, <1>3, ReplayKept
<1>5. ASSUME NEW t \in TraceIds, FindTraceToReplay(r, t)
      PROVE  index' = index /\ ReplayRow(r)'
  BY <1>1, <1>2, <1>5 DEF FindTraceToReplay, Goto, PlainTypes, ReplayRow
<1>6. CASE SelectSpans(r)
  <2>1. PICK s \in SetToSeqs(SpansOf(trace[r])) :
               Chronological(s) /\ index' = [index EXCEPT ![r] = s]
    BY <1>6 DEF SelectSpans
  <2>2. trace[r] \in traces /\ trace[r] \in TraceIds
    BY <1>6 DEF SelectSpans, ReplayInv, ReplayRow
  <2>3. s \in Seq(Calls) /\ Ordered(s, trace[r])
    BY <2>1, <2>2, SelectionOrdered
  <2>4. index'[r] = s /\ index' \in [Creations -> Seq(Calls)]
    BY <2>1, <2>3 DEF RowInv
  <2>5. pc'[r] = "creating" /\ UNCHANGED <<trace, spans, started>>
    BY <1>6 DEF SelectSpans, Goto, PlainTypes
  <2>6. Ordered(index[r], trace[r])'
    BY <2>3, <2>4, <2>5 DEF Ordered, SpansOf, Chronological
  <2>7. ReplayRow(r)'
    BY <1>1, <1>2, <2>2, <2>5, <2>6 DEF ReplayRow
  <2>8. RowInv'
    BY <1>1, <2>4 DEF RowInv
  <2>9. QED
    BY <1>1, <1>4, <2>7, <2>8 DEF ReplayInv
<1>7. CASE InsertReplay(r)
  <2>1. /\ pc[r] = "creating" /\ pc'[r] = "flushed"
        /\ UNCHANGED <<trace, index, spans, started>>
    BY <1>7 DEF InsertReplay, Goto, PlainTypes
  <2>2. Ordered(index[r], trace[r])'
    BY <2>1, RowOrderKept DEF ReplayInv, ReplayRow
  <2>3. ReplayRow(r)'
    BY <1>1, <1>2, <2>1, <2>2 DEF ReplayRow, ReplayInv
  <2>4. RowInv'
    BY <1>1, <2>1 DEF RowInv
  <2>5. QED
    BY <1>1, <1>4, <2>3, <2>4 DEF ReplayInv
<1>8. ASSUME NEW t \in TraceIds, FindTraceToReplay(r, t)
      PROVE  RowInv' /\ ReplayInv'
  BY <1>1, <1>4, <1>5, <1>8 DEF RowInv, ReplayInv
<1>9. QED
  BY <1>1, <1>6, <1>7, <1>8

\* A commit writes the row of its creation ...
LEMMA CreationCommits ==
  ASSUME PlainTypes, RowInv, CallInv, ReplayInv, [Next]_vars, NEW q \in Creations, CommitReplay(q)
  PROVE  /\ RowInv' /\ ReplayInv'
         /\ \A o \in Creations : replays[o] # NoReplay =>
              replays'[o].index = replays[o].index /\ replays'[o] # NoReplay
<1> USE TracesAssumption DEF Requests
<1> DEFINE new == [trace |-> trace[q], index |-> index[q], current |-> 0, share |-> None]
<1>1. /\ pc[q] = "flushed" /\ pc' = [pc EXCEPT ![q] = "answered"]
      /\ replays' = [replays EXCEPT ![q] = new]
      /\ UNCHANGED <<traces, spans, trace, started, index>>
  BY DEF CommitReplay, Goto
<1>2. ReplayRow(q) /\ replays[q] = NoReplay /\ trace[q] \in TraceIds /\ index[q] \in Seq(Calls)
  BY <1>1 DEF ReplayInv, ReplayRow, RowInv
<1>3. new \in Replays
  BY <1>2 DEF Replays
<1>4. new.trace = trace[q] /\ new.index = index[q] /\ new.current = 0
  OBVIOUS
<1> HIDE DEF new
<1>5. RowInv'
  BY <1>1, <1>3 DEF RowInv
<1>6. replays'[q] = new /\ pc'[q] = "answered"
  BY <1>1 DEF RowInv, PlainTypes
<1>7. Ordered(index[q], trace[q]) /\ Ordered(index[q], trace[q])'
  BY <1>1, <1>2, RowOrderKept DEF ReplayRow
<1>8. Ordered(replays[q].index, replays[q].trace)'
  BY <1>1, <1>4, <1>6, <1>7 DEF Ordered, SpansOf, Chronological
<1>9. replays'[q].current \in 0 .. Len(replays'[q].index) - 1
  <2>1. index[q] # <<>>
    BY <1>7 DEF Ordered
  <2>2. Len(index[q]) \in Nat \ {0}
    BY <1>2, <2>1, EmptySeq
  <2>3. QED
    BY <1>4, <1>6, <2>2
<1>10. ReplayRow(q)'
  BY <1>1, <1>2, <1>4, <1>6, <1>8, <1>9 DEF ReplayRow
<1>11. ASSUME NEW o \in Creations \ {q}
       PROVE  ReplayRow(o)' /\ replays'[o] = replays[o]
  <2>1. pc'[o] = pc[o] /\ replays'[o] = replays[o]
    BY <1>1 DEF PlainTypes, RowInv
  <2>2. QED
    BY <1>1, <2>1, ReplayKept
<1>12. QED
  BY <1>2, <1>5, <1>10, <1>11 DEF ReplayInv

\* ... and otherwise a column of a row that is there.
LEMMA UpdateCommits ==
  ASSUME PlainTypes, RowInv, CallInv, ReplayInv, NavigationInv, [Next]_vars,
         NEW q \in Navigations \cup Shares, CommitReplay(q)
  PROVE  /\ RowInv' /\ ReplayInv'
         /\ \A o \in Creations : replays[o] # NoReplay =>
              replays'[o].index = replays[o].index /\ replays'[o] # NoReplay
<1> USE TracesAssumption DEF Requests
<1>1. /\ pc[q] = "flushed" /\ pc' = [pc EXCEPT ![q] = "answered"]
      /\ UNCHANGED <<traces, spans, trace, started, index>>
  BY DEF CommitReplay, Goto
<1>2. \A o \in Creations : pc'[o] = pc[o]
  BY <1>1 DEF PlainTypes
<1>3. CASE replays' = replays
  <2>1. RowInv'
    BY <1>1, <1>3 DEF RowInv
  <2>2. QED
    BY <1>1, <1>2, <1>3, <2>1, ReplayKept DEF ReplayInv
<1>4. about[q] \in Creations /\ replays[about[q]] # NoReplay
  BY <1>1 DEF NavigationInv
<1>5. ASSUME NEW row \in Replays, replays' = [replays EXCEPT ![about[q]] = row],
             row.trace = replays[about[q]].trace, row.index = replays[about[q]].index,
             row.current \in 0 .. Len(row.index) - 1
      PROVE  RowInv' /\ ReplayInv'
             /\ \A o \in Creations : replays[o] # NoReplay =>
                  replays'[o].index = replays[o].index /\ replays'[o] # NoReplay
  <2>1. RowInv'
    BY <1>1, <1>5 DEF RowInv
  <2>2. replays'[about[q]] = row
    BY <1>4, <1>5 DEF RowInv
  <2>3. ReplayRow(about[q]) /\ pc'[about[q]] = "answered" /\ row.trace # None
    BY <1>2, <1>4, <1>5 DEF ReplayInv, ReplayRow
  <2>4. Ordered(replays[about[q]].index, replays[about[q]].trace)
    BY <1>4, <2>3 DEF ReplayRow
  <2>5. about'[q] = about[q]
    BY DEF CommitReplay
  <2>6. PICK r \in Creations : r = about[q]
    BY <1>4
  <2>7. Ordered(replays[r].index, replays[r].trace)'
    BY <1>5, <2>2, <2>4, <2>6, RowOrderKept
  <2>8. ReplayRow(r)'
    BY <1>1, <1>5, <2>2, <2>3, <2>6, <2>7 DEF ReplayRow
  <2>9. ASSUME NEW o \in Creations \ {r}
        PROVE  ReplayRow(o)' /\ replays'[o] = replays[o]
    <3>1. replays'[o] = replays[o]
      BY <1>5, <2>6 DEF RowInv
    <3>2. QED
      BY <1>1, <1>2, <3>1, ReplayKept
  <2>10. row # NoReplay
    BY <2>3 DEF NoReplay
  <2>11. QED
    BY <1>5, <2>1, <2>2, <2>6, <2>8, <2>9, <2>10 DEF ReplayInv
<1>6. replays[about[q]] \in Replays
  BY <1>4 DEF RowInv
<1>7. CASE q \in Navigations /\ lock = q
  <2> DEFINE row == [replays[about[q]] EXCEPT !.current = goal[q].to]
  <2>1. replays' = [replays EXCEPT ![about[q]] = row]
    BY <1>7 DEF CommitReplay
  <2>2. goal[q].to \in 0 .. Len(replays[about[q]].index) - 1
    BY <1>1, <1>7 DEF NavigationInv
  <2>3. Len(replays[about[q]].index) \in Nat /\ goal[q].to \in Int
    BY <1>6, <1>7, LenProperties DEF Replays, PlainTypes
  <2>4. row \in Replays /\ row.trace = replays[about[q]].trace
        /\ row.index = replays[about[q]].index /\ row.current = goal[q].to
    BY <1>6, <2>3 DEF Replays
  <2> HIDE DEF row
  <2>5. QED
    BY <1>5, <2>1, <2>2, <2>4
<1>8. CASE q \in Navigations /\ lock # q
  BY <1>3, <1>8 DEF CommitReplay
<1>9. CASE q \in Shares
  <2> DEFINE row == [replays[about[q]] EXCEPT !.share = q]
  <2>1. replays' = [replays EXCEPT ![about[q]] = row]
    BY <1>9 DEF CommitReplay
  <2>2. row \in Replays /\ row.trace = replays[about[q]].trace
        /\ row.index = replays[about[q]].index /\ row.current = replays[about[q]].current
    BY <1>6, <1>9 DEF Replays
  <2>3. replays[about[q]].current \in 0 .. Len(replays[about[q]].index) - 1
    BY <1>4 DEF ReplayInv, ReplayRow
  <2> HIDE DEF row
  <2>4. QED
    BY <1>5, <2>1, <2>2, <2>3
<1>10. QED
  BY <1>7, <1>8, <1>9

\* Every other step leaves the rows of the sessions alone.
LEMMA OthersKeep ==
  ASSUME PlainTypes, RowInv, CallInv, ReplayInv, [Next]_vars,
         ~ \E r \in Creations : \/ \E t \in TraceIds : FindTraceToReplay(r, t)
                                \/ SelectSpans(r) \/ InsertReplay(r),
         ~ \E q \in Creations \cup Navigations \cup Shares : CommitReplay(q)
  PROVE  RowInv' /\ ReplayInv' /\ replays' = replays
<1> USE TracesAssumption DEF Requests
<1>1. replays' = replays /\ index' = index
  BY DEF Next, Send, FindTrace, InsertTrace, Record, CommitCall, SelectReplay, Move, Show, Share,
         Fail, Tick, Finished, vars
<1>2. ASSUME NEW r \in Creations
      PROVE  /\ pc'[r] = pc[r] \/ (pc[r] \notin {"idle", "answered"} /\ pc'[r] = "failed")
             /\ trace'[r] = trace[r]
  <2>1. ASSUME NEW c \in Calls,
               (\E t \in TraceIds : Send(c, t)) \/ FindTrace(c) \/ InsertTrace(c) \/ Record(c)
                 \/ CommitCall(c)
        PROVE  pc'[r] = pc[r] /\ trace'[r] = trace[r]
    BY <2>1 DEF Send, FindTrace, InsertTrace, Record, CommitCall, Goto, PlainTypes
  <2>2. ASSUME NEW q \in Navigations \cup Shares, NEW o \in Creations, SelectReplay(q, o)
        PROVE  pc'[r] = pc[r] /\ trace'[r] = trace[r]
    BY <2>2 DEF SelectReplay, Goto, PlainTypes
  <2>3. ASSUME NEW n \in Navigations, Move(n) \/ Show(n)
        PROVE  pc'[r] = pc[r] /\ trace'[r] = trace[r]
    <3>1. trace' = trace /\ r # n
      BY <2>3 DEF Move, Show
    <3>2. CASE Move(n)
      BY <3>1, <3>2 DEF Move, Goto, PlainTypes
    <3>3. CASE Show(n)
      <4>1. Goto(n, "flushed") \/ Goto(n, "failed")
        BY <3>3 DEF Show
      <4>2. QED
        BY <3>1, <4>1 DEF Goto, PlainTypes
    <3>4. QED
      BY <2>3, <3>2, <3>3
  <2>4. ASSUME NEW s \in Shares, Share(s)
        PROVE  pc'[r] = pc[r] /\ trace'[r] = trace[r]
    BY <2>4 DEF Share, Goto, PlainTypes
  <2>5. ASSUME NEW q \in Requests, Fail(q)
        PROVE  /\ pc'[r] = pc[r] \/ (pc[r] \notin {"idle", "answered"} /\ pc'[r] = "failed")
               /\ trace'[r] = trace[r]
    BY <2>5 DEF Fail, Goto, PlainTypes, Ends
  <2>6. CASE pc' = pc /\ trace' = trace
    BY <2>6
  <2>7. QED
    BY <2>1, <2>2, <2>3, <2>4, <2>5, <2>6 DEF Next, Tick, Finished, vars
<1>3. RowInv'
  BY <1>1, CallsNext DEF RowInv
<1>4. QED
  BY <1>1, <1>2, <1>3, ReplayKept DEF ReplayInv

\* A replay row keeps its index and a position in it.
LEMMA ReplaysNext ==
  ASSUME PlainTypes, RowInv, CallInv, ReplayInv, NavigationInv, [Next]_vars
  PROVE  /\ RowInv' /\ ReplayInv'
         /\ \A r \in Creations : replays[r] # NoReplay =>
              replays'[r].index = replays[r].index /\ replays'[r] # NoReplay
<1>1. ASSUME NEW r \in Creations,
             (\E t \in TraceIds : FindTraceToReplay(r, t)) \/ SelectSpans(r) \/ InsertReplay(r)
      PROVE  RowInv' /\ ReplayInv' /\ replays' = replays
  BY <1>1, CreationKeeps
<1>2. ASSUME NEW q \in Creations, CommitReplay(q)
      PROVE  /\ RowInv' /\ ReplayInv'
             /\ \A o \in Creations : replays[o] # NoReplay =>
                  replays'[o].index = replays[o].index /\ replays'[o] # NoReplay
  BY <1>2, CreationCommits
<1>3. ASSUME NEW q \in Navigations \cup Shares, CommitReplay(q)
      PROVE  /\ RowInv' /\ ReplayInv'
             /\ \A o \in Creations : replays[o] # NoReplay =>
                  replays'[o].index = replays[o].index /\ replays'[o] # NoReplay
  BY <1>3, UpdateCommits
<1>4. CASE /\ ~ \E r \in Creations : \/ \E t \in TraceIds : FindTraceToReplay(r, t)
                                     \/ SelectSpans(r) \/ InsertReplay(r)
           /\ ~ \E q \in Creations \cup Navigations \cup Shares : CommitReplay(q)
  BY <1>4, OthersKeep
<1>5. QED
  BY <1>1, <1>2, <1>3, <1>4

\* What holds of one navigation or share.
NavigationRow(q) ==
  /\ pc[q] \in {"moving", "showing", "sharing", "flushed"} =>
       about[q] \in Creations /\ replays[about[q]] # NoReplay
  /\ q \in Navigations /\ pc[q] = "flushed" =>
       goal[q].to \in 0 .. Len(replays[about[q]].index) - 1

\* What is known of navigations is known of each by itself.
LEMMA NavigationRows == NavigationInv <=> \A q \in Navigations \cup Shares : NavigationRow(q)
BY DEF NavigationInv, NavigationRow

\* A navigation that does not move keeps what is known of it.
LEMMA NavigationKept ==
  ASSUME PlainTypes, RowInv, CallInv, ReplayInv, NavigationInv, [Next]_vars,
         NEW q \in Navigations \cup Shares,
         pc'[q] = pc[q] \/ pc'[q] \in Ends, about'[q] = about[q],
         q \in Navigations => goal'[q] = goal[q]
  PROVE  NavigationRow(q)'
<1>1. NavigationRow(q)
  BY NavigationRows
<1>2. \A r \in Creations : replays[r] # NoReplay =>
        replays'[r].index = replays[r].index /\ replays'[r] # NoReplay
  BY ReplaysNext
<1>3. QED
  BY <1>1, <1>2 DEF NavigationRow, Ends

\* What is known of navigations is kept by every step.
LEMMA NavigationNext ==
  ASSUME PlainTypes, RowInv, CallInv, ReplayInv, NavigationInv, [Next]_vars
  PROVE  NavigationInv'
<1> USE TracesAssumption DEF Requests
<1> SUFFICES ASSUME NEW q \in Navigations \cup Shares
             PROVE  NavigationRow(q)'
  BY NavigationRows DEF NavigationInv, NavigationRow
<1>1. CASE pc'[q] = pc[q] /\ about'[q] = about[q] /\ (q \in Navigations => goal'[q] = goal[q])
  BY <1>1, NavigationKept
<1>2. ASSUME NEW c \in Calls,
             (\E t \in TraceIds : Send(c, t)) \/ FindTrace(c) \/ InsertTrace(c) \/ Record(c)
               \/ CommitCall(c)
      PROVE  NavigationRow(q)'
  BY <1>1, <1>2 DEF Send, FindTrace, InsertTrace, Record, CommitCall, Goto, PlainTypes
<1>3. ASSUME NEW r \in Creations,
             (\E t \in TraceIds : FindTraceToReplay(r, t)) \/ SelectSpans(r) \/ InsertReplay(r)
      PROVE  NavigationRow(q)'
  BY <1>1, <1>3 DEF FindTraceToReplay, SelectSpans, InsertReplay, Goto, PlainTypes
<1>4. ASSUME NEW o \in Navigations \cup Shares, NEW r \in Creations, SelectReplay(o, r)
      PROVE  NavigationRow(q)'
  <2>1. replays[r] # NoReplay /\ replays' = replays /\ about' = [about EXCEPT ![o] = r]
        /\ pc' = [pc EXCEPT ![o] = IF o \in Navigations THEN "moving" ELSE "sharing"]
    BY <1>4 DEF SelectReplay, Goto
  <2>2. CASE q = o
    BY <2>1, <2>2 DEF PlainTypes, NavigationRow
  <2>3. CASE q # o
    <3>1. q \in Navigations => goal'[q] = goal[q]
      BY <1>4, <2>3 DEF SelectReplay, PlainTypes
    <3>2. pc'[q] = pc[q] /\ about'[q] = about[q]
      BY <2>1, <2>3 DEF PlainTypes
    <3>3. QED
      BY <1>1, <3>1, <3>2
  <2>4. QED
    BY <2>2, <2>3
<1>5. ASSUME NEW n \in Navigations, Move(n) \/ Show(n)
      PROVE  NavigationRow(q)'
  <2>1. UNCHANGED <<replays, about, goal>>
    BY <1>5 DEF Move, Show
  <2>2. NavigationRow(n) /\ n \in Navigations \cup Shares
    BY NavigationRows
  <2>3. CASE Move(n)
    <3>1. pc[n] = "moving" /\ pc' = [pc EXCEPT ![n] = "showing"]
      BY <2>3 DEF Move, Goto
    <3>2. NavigationRow(n)'
      BY <2>1, <2>2, <3>1 DEF PlainTypes, NavigationRow
    <3>3. QED
      BY <1>1, <2>1, <3>1, <3>2 DEF PlainTypes
  <2>4. CASE Show(n)
    <3> DEFINE steps == replays[about[n]].index
    <3>1. /\ pc[n] = "showing"
          /\ \/ /\ pc' = [pc EXCEPT ![n] = "flushed"]
                /\ goal[n].to \in 0 .. Len(steps) - 1
             \/ pc' = [pc EXCEPT ![n] = "failed"]
      BY <2>4 DEF Show, Goto
    <3>2. NavigationRow(n)'
      BY <2>1, <2>2, <3>1 DEF PlainTypes, NavigationRow
    <3>3. q # n => pc'[q] = pc[q]
      BY <3>1 DEF PlainTypes
    <3>4. QED
      BY <1>1, <2>1, <3>2, <3>3
  <2>5. QED
    BY <1>5, <2>3, <2>4
<1>6. ASSUME NEW s \in Shares, Share(s)
      PROVE  NavigationRow(q)'
  <2>1. pc[s] = "sharing" /\ pc' = [pc EXCEPT ![s] = "flushed"]
        /\ UNCHANGED <<replays, about, goal>>
    BY <1>6 DEF Share, Goto
  <2>2. NavigationRow(s) /\ s \notin Navigations
    BY NavigationRows
  <2>3. NavigationRow(s)'
    BY <2>1, <2>2 DEF PlainTypes, NavigationRow
  <2>4. QED
    BY <1>1, <2>1, <2>3 DEF PlainTypes
<1>7. ASSUME NEW o \in Creations \cup Navigations \cup Shares, CommitReplay(o)
      PROVE  NavigationRow(q)'
  <2>1. pc' = [pc EXCEPT ![o] = "answered"] /\ UNCHANGED <<about, goal>>
    BY <1>7 DEF CommitReplay, Goto
  <2>2. pc'[q] = pc[q] \/ pc'[q] \in Ends
    BY <2>1 DEF PlainTypes, Ends
  <2>3. QED
    BY <2>1, <2>2, NavigationKept
<1>8. ASSUME NEW o \in Requests, Fail(o)
      PROVE  NavigationRow(q)'
  <2>1. pc' = [pc EXCEPT ![o] = "failed"] /\ UNCHANGED <<about, goal>>
    BY <1>8 DEF Fail, Goto
  <2>2. pc'[q] = pc[q] \/ pc'[q] \in Ends
    BY <2>1 DEF PlainTypes, Ends
  <2>3. QED
    BY <2>1, <2>2, NavigationKept
<1>9. CASE UNCHANGED <<pc, about, goal>>
  BY <1>1, <1>9
<1>10. QED
  BY <1>2, <1>3, <1>4, <1>5, <1>6, <1>7, <1>8, <1>9 DEF Next, Tick, Finished, vars

-----------------------------------------------------------------------------

\* Inv is an invariant.
LEMMA InvHolds == Spec => []Inv
<1>1. Init => Inv
  <2> SUFFICES ASSUME Init PROVE Inv
    OBVIOUS
  <2>1. TypeOK /\ RowInv
    BY TypesInit
  <2>2. CallInv
    BY DEF Init, CallInv, TracesWhole, Requests
  <2>3. ReplayInv
    BY DEF Init, ReplayInv, ReplayRow, Requests
  <2>4. NavigationInv
    BY DEF Init, NavigationInv, Requests
  <2>5. QED
    BY <2>1, <2>2, <2>3, <2>4 DEF Inv
<1>2. Inv /\ [Next]_vars => Inv'
  <2> SUFFICES ASSUME Inv, [Next]_vars PROVE Inv'
    OBVIOUS
  <2>1. PlainTypes /\ RowInv /\ CallInv /\ ReplayInv /\ NavigationInv
    BY TypesAreTwo DEF Inv
  <2>2. PlainTypes' /\ RowInv' /\ CallInv' /\ ReplayInv' /\ NavigationInv'
    BY <2>1, PlainNext, CallsNext, ReplaysNext, NavigationNext
  <2>3. RowInv' => \A r \in Creations :
          /\ replays'[r].trace \in TraceIds \cup {None}
          /\ replays'[r].index \in Seq(Calls) /\ index'[r] \in Seq(Calls)
          /\ replays'[r].current \in Int
          /\ replays'[r].share \in Shares \cup {None}
    BY DEF RowInv, Replays
  <2>4. TypeOK'
    BY <2>2, <2>3 DEF TypeOK, PlainTypes
  <2>5. QED
    BY <2>2, <2>4 DEF Inv
<1>3. QED
  BY <1>1, <1>2, PTL DEF Spec

\* The tables of traces, spans and replay sessions and the requests that work on
\* them keep their types, and the write lock is a request's that is under way.
THEOREM TypeCorrect == Spec => []TypeOK
<1>1. Inv => TypeOK
  BY DEF Inv
<1>2. QED
  BY <1>1, InvHolds, PTL

\* However the calls of a trace race for its row, a call has its span exactly if
\* it was answered, and a trace has its row exactly if it has a span.
THEOREM TracesWholeCorrect == Spec => []TracesWhole
<1>1. Inv => TracesWhole
  BY DEF Inv, CallInv
<1>2. QED
  BY <1>1, InvHolds, PTL

\* A replay session stands at a step that it can show, of an index that has the
\* recorded spans of its trace in the order of their start, each once.
THEOREM ReplayShowsStepCorrect == Spec => []ReplayShowsStep
<1>1. Inv => ReplayShowsStep
  BY DEF Inv, ReplayInv, ReplayRow, Ordered, ReplayShowsStep
<1>2. QED
  BY <1>1, InvHolds, PTL
=============================================================================
