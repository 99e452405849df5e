-------------------------- MODULE ApprovalsProofs --------------------------
(***************************************************************************)
(* Approvals for any number of calls, approvers and restarts.  The         *)
(* inductive invariant follows a decision on its way: a request can be     *)
(* read only after it is committed, its event is registered by then and    *)
(* set before the decision commits; and it follows what the timer has      *)
(* signed, from the call's own session to the row it commits.              *)
(***************************************************************************)
EXTENDS Approvals, TLAPS

-----------------------------------------------------------------------------
(* Types.                                                                   *)

\* The two tables of statuses yield statuses, none of them "pending".
LEMMA StatusTypes ==
  /\ \A action \in Actions : StatusOf(action) \in {"approved", "denied", "escalated"}
  /\ config \in [Requests -> TimeoutActions] =>
       \A r \in Requests : TimeoutStatus(r) \in {"timed_out", "approved", "escalated"}
BY DEF Actions, StatusOf, TimeoutActions, TimeoutStatus

\* The approver that is to commit has a request to commit to.
TaskGiven ==
  \A a \in Approvers :
    decider[a] \in {"read", "flushed", "woke"} => task[a].request \in Requests

TypeInv == TypeOK /\ TaskGiven

\* Sessions start idle, with rows of the right types.
LEMMA TypeInit == Init => TypeInv
BY ApprovalsAssumption
   DEF Init, TypeInv, TypeOK, TaskGiven, Absent, Deciders, Sessions, ProxyEnds,
       DeciderEnds, Statuses, Actions

\* No step of a call, an approver or a restart breaks a type.
LEMMA TypeStep == TypeInv /\ [Next]_vars => TypeInv'
<1> SUFFICES ASSUME TypeInv, [Next]_vars PROVE TypeInv'
  OBVIOUS
<1> USE DEF TypeInv, TypeOK, TaskGiven, Release, ProxyEnds, DeciderEnds, Sessions
<1>1. CASE UNCHANGED vars
  BY <1>1 DEF vars
<1>2. ASSUME NEW r \in Requests, CreateApproval(r) PROVE TypeInv'
  BY <1>2 DEF CreateApproval
<1>3. ASSUME NEW r \in Requests, CommitApproval(r) PROVE TypeInv'
  BY <1>3 DEF CommitApproval, Statuses, Deciders
<1>4. ASSUME NEW r \in Requests, Woken(r) PROVE TypeInv'
  BY <1>4 DEF Woken
<1>5. ASSUME NEW r \in Requests, TimerFires(r) PROVE TypeInv'
  BY <1>5 DEF TimerFires
<1>6. ASSUME NEW r \in Requests, HandleTimeout(r) PROVE TypeInv'
  <2>1. [status |-> TimeoutStatus(r), by |-> Timer] \in
          [status : Statuses \cup {"absent"}, by : Deciders]
    BY StatusTypes DEF Statuses, Deciders
  <2> QED BY <1>6, <2>1 DEF HandleTimeout
<1>7. ASSUME NEW r \in Requests, Refresh(r) PROVE TypeInv'
  BY <1>7 DEF Refresh
<1>8. ASSUME NEW r \in Requests, Reject(r) \/ OverBudget(r) PROVE TypeInv'
  BY <1>8 DEF Reject, OverBudget
<1>9. ASSUME NEW r \in Requests, Forward(r) PROVE TypeInv'
  BY <1>9 DEF Forward
<1>10. ASSUME NEW r \in Requests, Complete(r) PROVE TypeInv'
  BY <1>10 DEF Complete
<1>11. ASSUME NEW r \in Requests, ProxyFails(r) PROVE TypeInv'
  BY <1>11 DEF ProxyFails
<1>12. ASSUME NEW a \in Approvers, NEW r \in Requests, NEW action \in Actions,
              ReadPending(a, r, action)
       PROVE  TypeInv'
  BY <1>12 DEF ReadPending
<1>13. ASSUME NEW a \in Approvers, NEW r \in Requests, RefuseDecision(a, r)
       PROVE  TypeInv'
  BY <1>13 DEF RefuseDecision
<1>14. ASSUME NEW a \in Approvers, FlushDecision(a) PROVE TypeInv'
  BY <1>14 DEF FlushDecision
<1>15. ASSUME NEW a \in Approvers, WakeWaiter(a) PROVE TypeInv'
  BY <1>15 DEF WakeWaiter
<1>16. ASSUME NEW a \in Approvers, CommitDecision(a) PROVE TypeInv'
  <2>1. /\ task[a].request \in Requests
        /\ task[a].action \in Actions
    BY <1>16 DEF CommitDecision
  <2>2. [status |-> StatusOf(task[a].action), by |-> a] \in
          [status : Statuses \cup {"absent"}, by : Deciders]
    BY <2>1, StatusTypes DEF Statuses, Deciders
  <2> QED BY <1>16, <2>1, <2>2 DEF CommitDecision
<1>17. ASSUME NEW a \in Approvers, DecisionFails(a) PROVE TypeInv'
  BY <1>17 DEF DecisionFails
<1>18. CASE Crash
  BY <1>18, ApprovalsAssumption DEF Crash
<1> QED
  BY <1>1, <1>2, <1>3, <1>4, <1>5, <1>6, <1>7, <1>8, <1>9, <1>10, <1>11, <1>12,
     <1>13, <1>14, <1>15, <1>16, <1>17, <1>18
     DEF Next, ProxyStep, DeciderStep, Finished

\* Rows, events, answers, tasks and the lock have their types in every reachable
\* state, for any number of calls, approvers and restarts.
THEOREM TypeCorrect == Spec => []TypeOK
<1>1. TypeInv => TypeOK
  BY DEF TypeInv
<1> QED BY <1>1, TypeInit, TypeStep, PTL DEF Spec

-----------------------------------------------------------------------------
(* What the timer signs.                                                    *)

\* What carries the timer's name says what the timer of that call decides.
Signed(f) ==
  \A r \in Requests : f[r].by = Timer => f[r] = [status |-> TimeoutStatus(r), by |-> Timer]

\* The policy of a call is read once: what its timer decides does not change.
LEMMA ConfigFixed ==
  [Next]_vars => config' = config /\ \A r \in Requests : TimeoutStatus(r)' = TimeoutStatus(r)
<1>1. [Next]_vars => config' = config
  BY DEF Next, ProxyStep, DeciderStep, Finished, vars, CreateApproval, CommitApproval, Woken,
         TimerFires, HandleTimeout, Refresh, Reject, OverBudget, Forward, Complete, ProxyFails,
         ReadPending, RefuseDecision, FlushDecision, WakeWaiter, CommitDecision,
         DecisionFails, Crash
<1> QED BY <1>1 DEF TimeoutStatus

SignInv == TypeInv /\ Signed(final) /\ Signed(row)

\* At first there is no signature.
LEMMA SignInit == Init => SignInv
BY TypeInit, ApprovalsAssumption DEF Init, SignInv, Signed, Absent

\* A signature is copied from answer to row, and nobody else has it.
LEMMA SignStep == SignInv /\ [Next]_vars => SignInv'
<1> SUFFICES ASSUME SignInv, [Next]_vars
             PROVE  Signed(final)' /\ Signed(row)'
  BY TypeStep DEF SignInv
<1>0. TypeOK /\ TaskGiven /\ Signed(final) /\ Signed(row)
  BY DEF SignInv, TypeInv
<1>a. \A r \in Requests : TimeoutStatus(r)' = TimeoutStatus(r)
  BY ConfigFixed
<1>b. final' = final => Signed(final)'
  BY <1>0, <1>a DEF Signed
<1>c. row' = row => Signed(row)'
  BY <1>0, <1>a DEF Signed
<1> USE DEF TypeOK
<1>1. CASE UNCHANGED vars
  BY <1>0, <1>b, <1>c, <1>1 DEF vars
<1>2. ASSUME NEW r \in Requests, CreateApproval(r) PROVE Signed(final)' /\ Signed(row)'
  BY <1>0, <1>a, <1>b, <1>c, <1>2 DEF CreateApproval
<1>3. ASSUME NEW r \in Requests, CommitApproval(r) PROVE Signed(final)' /\ Signed(row)'
  <2>1. row' = [row EXCEPT ![r] = [status |-> "pending", by |-> None]] /\ None # Timer
    BY <1>3, ApprovalsAssumption DEF CommitApproval
  <2>2. Signed(row)'
    BY <1>0, <1>a, <2>1 DEF Signed
  <2> QED BY <1>0, <1>a, <1>b, <1>3, <2>2 DEF CommitApproval
<1>4. ASSUME NEW r \in Requests, Woken(r) \/ TimerFires(r)
      PROVE  Signed(final)' /\ Signed(row)'
  BY <1>0, <1>b, <1>c, <1>4 DEF Woken, TimerFires
<1>5. ASSUME NEW r \in Requests, Refresh(r) PROVE Signed(final)' /\ Signed(row)'
  <2>1. Signed(final)'
    BY <1>0, <1>a, <1>5 DEF Refresh, Signed
  <2> QED BY <1>0, <1>c, <1>5, <2>1 DEF Refresh
<1>6. ASSUME NEW r \in Requests, HandleTimeout(r) PROVE Signed(final)' /\ Signed(row)'
  <2>1. final' = [final EXCEPT ![r] = [status |-> TimeoutStatus(r), by |-> Timer]]
    BY <1>6 DEF HandleTimeout
  <2>2. Signed(final)'
    BY <1>0, <1>a, <2>1 DEF Signed
  <2> QED BY <1>0, <1>a, <1>c, <1>6, <2>2 DEF HandleTimeout
<1>7. ASSUME NEW r \in Requests, Reject(r) \/ OverBudget(r) \/ Forward(r) \/ ProxyFails(r)
      PROVE  Signed(final)' /\ Signed(row)'
  BY <1>0, <1>a, <1>b, <1>c, <1>7 DEF Reject, OverBudget, Forward, ProxyFails
<1>8. ASSUME NEW r \in Requests, Complete(r) PROVE Signed(final)' /\ Signed(row)'
  <2>1. row' = IF final[r].by = Timer THEN [row EXCEPT ![r] = final[r]] ELSE row
    BY <1>8 DEF Complete
  <2>2. Signed(row)'
    BY <1>0, <1>a, <1>c, <2>1 DEF Signed
  <2> QED BY <1>a, <1>b, <1>8, <2>2 DEF Complete
<1>9. ASSUME NEW a \in Approvers, NEW r \in Requests,
             RefuseDecision(a, r) \/ \E action \in Actions : ReadPending(a, r, action)
      PROVE  Signed(final)' /\ Signed(row)'
  BY <1>0, <1>b, <1>c, <1>9 DEF RefuseDecision, ReadPending
<1>10. ASSUME NEW a \in Approvers, FlushDecision(a) \/ WakeWaiter(a) \/ DecisionFails(a)
       PROVE  Signed(final)' /\ Signed(row)'
  BY <1>0, <1>a, <1>b, <1>c, <1>10, ApprovalsAssumption DEF FlushDecision, WakeWaiter, DecisionFails
<1>11. ASSUME NEW a \in Approvers, CommitDecision(a)
       PROVE  Signed(final)' /\ Signed(row)'
  <2>1. PICK r \in Requests :
          row' = [row EXCEPT ![r] = [status |-> StatusOf(task[a].action), by |-> a]]
    BY <1>0, <1>11 DEF CommitDecision, TaskGiven
  <2>2. a # Timer
    BY ApprovalsAssumption
  <2>3. Signed(row)'
    BY <1>0, <1>a, <2>1, <2>2 DEF Signed
  <2> QED BY <1>0, <1>a, <1>b, <1>11, <2>3 DEF CommitDecision
<1>12. CASE Crash
  BY <1>0, <1>a, <1>b, <1>c, <1>12 DEF Crash
<1> QED
  BY <1>1, <1>2, <1>3, <1>4, <1>5, <1>6, <1>7, <1>8, <1>9, <1>10, <1>11, <1>12
     DEF Next, ProxyStep, DeciderStep, Finished

-----------------------------------------------------------------------------
(* The way of a decision.                                                   *)

\* An approver in the middle of a decision has read a committed request.
TaskKnown ==
  \A a \in Approvers : decider[a] \in {"read", "flushed", "woke"} =>
    row[task[a].request].status # "absent"

\* A request can be seen exactly from the commit before its call waits.
Published ==
  \A r \in Requests :
    /\ proxy[r] \in {"idle", "created"} => row[r].status = "absent"
    /\ proxy[r] = "waiting" => row[r].status # "absent"

\* The event is registered before that, and stays until the wait is over.
Registered ==
  \A r \in Requests : proxy[r] \in {"created", "waiting"} => event[r] # "none"

\* An approver commits only after it has woken the call it decides.
WokeFirst ==
  \A a \in Approvers :
    decider[a] = "woke" /\ proxy[task[a].request] = "waiting" =>
      event[task[a].request] = "set"

\* Where a decision and a wait meet.
WakeInv == SignInv /\ TaskKnown /\ Published /\ Registered /\ WokeFirst /\ NoLostWakeup

\* At first no row is visible and nobody is deciding.
LEMMA WakeInit == Init => WakeInv
BY SignInit DEF Init, WakeInv, TaskKnown, Published, Registered, WokeFirst, NoLostWakeup, Absent

\* A decision stays behind its event, a wait behind its commit.
LEMMA WakeStep == WakeInv /\ [Next]_vars => WakeInv'
<1> SUFFICES ASSUME WakeInv, [Next]_vars PROVE WakeInv'
  OBVIOUS
<1>0. TypeInv /\ SignInv'
  BY SignStep DEF WakeInv, SignInv
<1> USE <1>0 DEF WakeInv, TypeInv, TypeOK, TaskGiven, TaskKnown, Published, Registered, WokeFirst,
                 NoLostWakeup
<1>1. CASE UNCHANGED vars
  BY <1>1 DEF vars
<1>2. ASSUME NEW r \in Requests, CreateApproval(r) PROVE WakeInv'
  BY <1>2 DEF CreateApproval
<1>3. ASSUME NEW r \in Requests, CommitApproval(r) PROVE WakeInv'
  BY <1>3 DEF CommitApproval
<1>4. ASSUME NEW r \in Requests, Woken(r) PROVE WakeInv'
  BY <1>4 DEF Woken
<1>5. ASSUME NEW r \in Requests, TimerFires(r) PROVE WakeInv'
  BY <1>5 DEF TimerFires
<1>6. ASSUME NEW r \in Requests, HandleTimeout(r) PROVE WakeInv'
  BY <1>6 DEF HandleTimeout
<1>7. ASSUME NEW r \in Requests, Refresh(r) \/ Reject(r) \/ OverBudget(r) \/ Forward(r)
      PROVE  WakeInv'
  BY <1>7 DEF Refresh, Reject, OverBudget, Forward
<1>8. ASSUME NEW r \in Requests, Complete(r) PROVE WakeInv'
  <2>1. row' = IF final[r].by = Timer THEN [row EXCEPT ![r] = final[r]] ELSE row
    BY <1>8 DEF Complete
  <2>2. ASSUME final[r].by = Timer PROVE final[r].status \notin {"absent", "pending"}
    <3>1. final[r] = [status |-> TimeoutStatus(r), by |-> Timer]
      BY <2>2 DEF SignInv, Signed
    <3>2. TimeoutStatus(r) \in {"timed_out", "approved", "escalated"}
      BY StatusTypes
    <3> QED BY <3>1, <3>2
  <2> QED BY <1>8, <2>1, <2>2 DEF Complete
<1>9. ASSUME NEW r \in Requests, ProxyFails(r) PROVE WakeInv'
  BY <1>9 DEF ProxyFails
<1>10. ASSUME NEW a \in Approvers, NEW r \in Requests, NEW action \in Actions,
              ReadPending(a, r, action)
       PROVE  WakeInv'
  BY <1>10 DEF ReadPending
<1>11. ASSUME NEW a \in Approvers, NEW r \in Requests, RefuseDecision(a, r)
       PROVE  WakeInv'
  BY <1>11 DEF RefuseDecision
<1>12. ASSUME NEW a \in Approvers, FlushDecision(a) PROVE WakeInv'
  BY <1>12 DEF FlushDecision
<1>13. ASSUME NEW a \in Approvers, WakeWaiter(a) PROVE WakeInv'
  BY <1>13 DEF WakeWaiter
<1>14. ASSUME NEW a \in Approvers, CommitDecision(a) PROVE WakeInv'
  <2> DEFINE r == task[a].request
  <2>1. r \in Requests /\ task[a].action \in Actions /\ decider[a] = "woke"
    BY <1>14 DEF CommitDecision
  <2>2. row' = [row EXCEPT ![r] = [status |-> StatusOf(task[a].action), by |-> a]]
    BY <1>14 DEF CommitDecision
  <2>3. row'[r].status # "absent" /\ \A q \in Requests \ {r} : row'[q] = row[q]
    BY <2>1, <2>2, StatusTypes
  <2>4. UNCHANGED <<proxy, event, task>> /\ decider' = [decider EXCEPT ![a] = "done"]
    BY <1>14 DEF CommitDecision
  <2>5. proxy[r] \notin {"idle", "created"} /\ (proxy[r] = "waiting" => event[r] = "set")
    BY <2>1
  <2> HIDE DEF r
  <2>6. \A q \in Requests : row[q].status # "absent" => row'[q].status # "absent"
    BY <2>3
  <2>7. \A b \in Approvers : decider'[b] \in {"read", "flushed", "woke"} =>
          decider'[b] = decider[b] /\ task[b].request \in Requests
    BY <2>4
  <2>8. TaskKnown' /\ WokeFirst'
    BY <2>4, <2>6, <2>7
  <2>9. Published' /\ Registered'
    <3>1. ASSUME NEW q \in Requests, proxy[q] \in {"idle", "created"} PROVE row'[q] = row[q]
      BY <2>3, <2>5, <3>1
    <3>2. Published'
      BY <2>4, <2>6, <3>1
    <3>3. Registered'
      BY <2>4
    <3> QED BY <3>2, <3>3
  <2>10. NoLostWakeup'
    BY <2>1, <2>3, <2>4, <2>5
  <2> QED BY <2>8, <2>9, <2>10
<1>15. ASSUME NEW a \in Approvers, DecisionFails(a) PROVE WakeInv'
  BY <1>15 DEF DecisionFails
<1>16. CASE Crash
  BY <1>16 DEF Crash, ProxyEnds, DeciderEnds
<1> QED
  BY <1>1, <1>2, <1>3, <1>4, <1>5, <1>6, <1>7, <1>8, <1>9, <1>10, <1>11, <1>12,
     <1>13, <1>14, <1>15, <1>16
     DEF Next, ProxyStep, DeciderStep, Finished

\* A decision is never slept through: whenever a call waits and its row has
\* been decided, the event that ends the wait is set.
THEOREM NoLostWakeupCorrect == Spec => []NoLostWakeup
<1>1. WakeInv => NoLostWakeup
  BY DEF WakeInv
<1> QED BY <1>1, WakeInit, WakeStep, PTL DEF Spec

-----------------------------------------------------------------------------
(* The way of a grant.                                                      *)

\* Nothing is returned to a call before its wait is over.
NoAnswerYet ==
  \A r \in Requests :
    proxy[r] \in {"idle", "created", "waiting", "refreshing", "timing_out"} =>
      final[r] = Absent

\* What is returned as approved has been granted.
AnswerGranted ==
  \A r \in Requests : proxy[r] = "answered" /\ final[r].status = "approved" => Granted(r)

AnswerInv == SignInv /\ NoAnswerYet

\* At first no call has an answer.
LEMMA AnswerInit == Init => AnswerInv
BY SignInit DEF Init, AnswerInv, NoAnswerYet

\* An answer is written only when the wait is over.
LEMMA AnswerStep == AnswerInv /\ [Next]_vars => AnswerInv'
<1> SUFFICES ASSUME AnswerInv, [Next]_vars PROVE NoAnswerYet'
  BY SignStep DEF AnswerInv
<1> USE DEF AnswerInv, NoAnswerYet, SignInv, TypeInv, TypeOK, Absent
<1>1. CASE UNCHANGED vars
  BY <1>1 DEF vars
<1>2. ASSUME NEW r \in Requests, CreateApproval(r) \/ CommitApproval(r) \/ Woken(r) \/ TimerFires(r)
      PROVE  NoAnswerYet'
  BY <1>2 DEF CreateApproval, CommitApproval, Woken, TimerFires
<1>3. ASSUME NEW r \in Requests, HandleTimeout(r) \/ Refresh(r) PROVE NoAnswerYet'
  BY <1>3 DEF HandleTimeout, Refresh
<1>4. ASSUME NEW r \in Requests, Reject(r) \/ OverBudget(r) \/ Forward(r) \/ Complete(r)
      PROVE  NoAnswerYet'
  BY <1>4 DEF Reject, OverBudget, Forward, Complete
<1>5. ASSUME NEW r \in Requests, ProxyFails(r) PROVE NoAnswerYet'
  BY <1>5 DEF ProxyFails
<1>6. ASSUME NEW a \in Approvers, NEW r \in Requests,
             RefuseDecision(a, r) \/ \E action \in Actions : ReadPending(a, r, action)
      PROVE  NoAnswerYet'
  BY <1>6 DEF RefuseDecision, ReadPending
<1>7. ASSUME NEW a \in Approvers, DeciderStep(a) PROVE NoAnswerYet'
  BY <1>7 DEF DeciderStep, FlushDecision, WakeWaiter, CommitDecision, DecisionFails
<1>8. CASE Crash
  BY <1>8 DEF Crash, ProxyEnds
<1> QED
  BY <1>1, <1>2, <1>3, <1>4, <1>5, <1>6, <1>7, <1>8 DEF Next, ProxyStep, Finished

\* Decision records, ended calls and what the timer answered are for ever.
LEMMA Monotone ==
  AnswerInv /\ [Next]_vars =>
    /\ decisions \subseteq decisions'
    /\ \A r \in Requests :
         /\ proxy[r] \in ProxyEnds => proxy'[r] \in ProxyEnds
         /\ final[r].by = Timer => final'[r] = final[r]
<1> SUFFICES ASSUME AnswerInv, [Next]_vars
             PROVE  /\ decisions \subseteq decisions'
                    /\ \A r \in Requests :
                         /\ proxy[r] \in ProxyEnds => proxy'[r] \in ProxyEnds
                         /\ final[r].by = Timer => final'[r] = final[r]
  OBVIOUS
<1>1. decisions \subseteq decisions'
  BY DEF Next, ProxyStep, DeciderStep, Finished, vars, CreateApproval, CommitApproval, Woken,
         TimerFires, HandleTimeout, Refresh, Reject, OverBudget, Forward, Complete, ProxyFails,
         ReadPending, RefuseDecision, FlushDecision, WakeWaiter, CommitDecision,
         DecisionFails, Crash
<1>2. ASSUME NEW r \in Requests, proxy[r] \in ProxyEnds PROVE proxy'[r] \in ProxyEnds
  <2> USE <1>2 DEF ProxyEnds
  <2>0. proxy \in [Requests -> {"idle", "created", "waiting", "refreshing",
                     "timing_out", "answered", "forwarded"} \cup ProxyEnds]
    BY DEF AnswerInv, SignInv, TypeInv, TypeOK
  <2>1. ASSUME NEW q \in Requests, \/ CreateApproval(q) \/ CommitApproval(q) \/ Woken(q)
                                   \/ TimerFires(q) \/ HandleTimeout(q) \/ Refresh(q)
        PROVE  proxy'[r] \in ProxyEnds
    BY <2>0, <2>1 DEF CreateApproval, CommitApproval, Woken, TimerFires, HandleTimeout, Refresh
  <2>2. ASSUME NEW q \in Requests, \/ Reject(q) \/ OverBudget(q) \/ Forward(q)
                                   \/ Complete(q) \/ ProxyFails(q)
        PROVE  proxy'[r] \in ProxyEnds
    BY <2>0, <2>2 DEF Reject, OverBudget, Forward, Complete, ProxyFails
  <2>3. ASSUME NEW a \in Approvers, \/ \E q \in Requests : RefuseDecision(a, q)
                                    \/ \E q \in Requests, action \in Actions : ReadPending(a, q, action)
                                    \/ DeciderStep(a)
        PROVE  proxy' = proxy
    BY <2>3 DEF RefuseDecision, ReadPending, DeciderStep, FlushDecision, WakeWaiter,
                CommitDecision, DecisionFails
  <2>4. CASE Crash
    BY <2>4 DEF Crash
  <2>5. CASE UNCHANGED vars
    BY <2>5 DEF vars
  <2> QED BY <2>1, <2>2, <2>3, <2>4, <2>5 DEF Next, ProxyStep, Finished
<1>3. ASSUME NEW r \in Requests, final[r].by = Timer PROVE final'[r] = final[r]
  <2>1. proxy[r] \notin {"refreshing", "timing_out"}
    BY <1>3, ApprovalsAssumption DEF AnswerInv, NoAnswerYet, Absent
  <2> QED
    BY <2>1
       DEF Next, ProxyStep, DeciderStep, Finished, vars, CreateApproval, CommitApproval, Woken,
           TimerFires, HandleTimeout, Refresh, Reject, OverBudget, Forward, Complete, ProxyFails,
           ReadPending, RefuseDecision, FlushDecision, WakeWaiter, CommitDecision,
           DecisionFails, Crash, AnswerInv, SignInv, TypeInv, TypeOK
<1> QED BY <1>1, <1>2, <1>3

\* So a grant is never withdrawn.
LEMMA GrantKept ==
  ASSUME AnswerInv, [Next]_vars, NEW r \in Requests, Granted(r)
  PROVE  Granted(r)'
BY Monotone, ConfigFixed DEF Granted

GateInv == AnswerInv /\ AnswerGranted /\ ForwardGranted /\ RowAccounted

\* At first nothing has been granted or sent.
LEMMA GateInit == Init => GateInv
BY AnswerInit
   DEF Init, GateInv, AnswerGranted, ForwardGranted, RowAccounted, Sent, Absent

\* A row that a step leaves alone stays accounted for.
LEMMA AccountKept ==
  ASSUME GateInv, [Next]_vars, NEW r \in Requests, row'[r] = row[r],
         row[r].status \notin {"absent", "pending"}
  PROVE  \/ \E d \in decisions' :
              /\ d.request = r /\ d.actor = row'[r].by
              /\ row'[r].status = StatusOf(d.action)
         \/ /\ row'[r] = [status |-> TimeoutStatus(r)', by |-> Timer]
            /\ proxy'[r] \in ProxyEnds
BY Monotone, ConfigFixed DEF GateInv, RowAccounted

\* Whatever sends a call has a grant that stands.
LEMMA GateStep == GateInv /\ [Next]_vars => GateInv'
<1> SUFFICES ASSUME GateInv, [Next]_vars
             PROVE  AnswerGranted' /\ ForwardGranted' /\ RowAccounted'
  BY AnswerStep DEF GateInv
<1>0. AnswerInv /\ TypeOK
  BY DEF GateInv, AnswerInv, SignInv, TypeInv
<1>a. \A r \in Requests : Granted(r) => Granted(r)'
  BY <1>0, GrantKept
<1>b. row' = row => RowAccounted'
  BY AccountKept DEF RowAccounted
<1> USE DEF GateInv, AnswerGranted, ForwardGranted, Sent, TypeOK
<1>1. CASE UNCHANGED vars
  BY <1>1, <1>a, <1>b DEF vars
<1>2. ASSUME NEW r \in Requests, CreateApproval(r) \/ Woken(r) \/ TimerFires(r)
      PROVE  AnswerGranted' /\ ForwardGranted' /\ RowAccounted'
  BY <1>0, <1>2, <1>a, <1>b DEF CreateApproval, Woken, TimerFires
<1>3. ASSUME NEW r \in Requests, CommitApproval(r)
      PROVE  AnswerGranted' /\ ForwardGranted' /\ RowAccounted'
  <2>1. AnswerGranted' /\ ForwardGranted'
    BY <1>0, <1>3, <1>a DEF CommitApproval
  <2>2. /\ row'[r].status = "pending"
        /\ \A q \in Requests \ {r} : row'[q] = row[q]
    BY <1>0, <1>3 DEF CommitApproval
  <2>3. RowAccounted'
    BY <2>2, AccountKept DEF RowAccounted
  <2> QED BY <2>1, <2>3
<1>4. ASSUME NEW r \in Requests, HandleTimeout(r)
      PROVE  AnswerGranted' /\ ForwardGranted' /\ RowAccounted'
  <2>1. final'[r] = [status |-> TimeoutStatus(r), by |-> Timer] /\ config' = config
    BY <1>0, <1>4 DEF HandleTimeout
  <2>2. final'[r].status = "approved" => Granted(r)'
    BY <1>0, <2>1 DEF TimeoutStatus, TimeoutActions, Granted
  <2>3. AnswerGranted' /\ ForwardGranted'
    BY <1>0, <1>4, <1>a, <2>2 DEF HandleTimeout
  <2> QED BY <1>4, <1>b, <2>3 DEF HandleTimeout
<1>5. ASSUME NEW r \in Requests, Refresh(r)
      PROVE  AnswerGranted' /\ ForwardGranted' /\ RowAccounted'
  <2>1. row[r].status = "approved" => Granted(r)
    <3> SUFFICES ASSUME row[r].status = "approved" PROVE Granted(r)
      OBVIOUS
    <3>1. proxy[r] \notin ProxyEnds
      BY <1>5 DEF Refresh, ProxyEnds
    <3>2. PICK d \in decisions : d.request = r /\ StatusOf(d.action) = "approved"
      BY <3>1 DEF RowAccounted
    <3>3. d.action = "approve"
      BY <1>0, <3>2 DEF StatusOf, Actions
    <3> QED BY <3>2, <3>3 DEF Granted
  <2>2. final'[r] = row[r] /\ \A q \in Requests \ {r} : final'[q] = final[q]
    BY <1>0, <1>5 DEF Refresh
  <2>3. AnswerGranted' /\ ForwardGranted'
    BY <1>0, <1>5, <1>a, <2>1, <2>2 DEF Refresh
  <2> QED BY <1>5, <1>b, <2>3 DEF Refresh
<1>6. ASSUME NEW r \in Requests, Reject(r) \/ OverBudget(r) \/ Forward(r)
      PROVE  AnswerGranted' /\ ForwardGranted' /\ RowAccounted'
  BY <1>0, <1>6, <1>a, <1>b DEF Reject, OverBudget, Forward
<1>7. ASSUME NEW r \in Requests, Complete(r)
      PROVE  AnswerGranted' /\ ForwardGranted' /\ RowAccounted'
  <2>1. AnswerGranted' /\ ForwardGranted'
    BY <1>0, <1>7, <1>a DEF Complete
  <2>2. CASE final[r].by = Timer
    <3>1. final[r] = [status |-> TimeoutStatus(r), by |-> Timer]
      BY <2>2 DEF AnswerInv, SignInv, Signed
    <3>2. /\ row'[r] = [status |-> TimeoutStatus(r)', by |-> Timer]
          /\ proxy'[r] \in ProxyEnds
          /\ \A q \in Requests \ {r} : row'[q] = row[q]
      BY <1>0, <1>7, <2>2, <3>1, ConfigFixed DEF Complete, ProxyEnds
    <3>3. RowAccounted'
      BY <3>2, AccountKept DEF RowAccounted
    <3> QED BY <2>1, <3>3
  <2>3. CASE final[r].by # Timer
    BY <1>7, <1>b, <2>1, <2>3 DEF Complete
  <2> QED BY <2>2, <2>3
<1>8. ASSUME NEW r \in Requests, ProxyFails(r)
      PROVE  AnswerGranted' /\ ForwardGranted' /\ RowAccounted'
  BY <1>0, <1>8, <1>a, <1>b DEF ProxyFails
<1>9. ASSUME NEW a \in Approvers, NEW r \in Requests,
             RefuseDecision(a, r) \/ \E action \in Actions : ReadPending(a, r, action)
      PROVE  AnswerGranted' /\ ForwardGranted' /\ RowAccounted'
  BY <1>9, <1>a, <1>b DEF RefuseDecision, ReadPending
<1>10. ASSUME NEW a \in Approvers, FlushDecision(a) \/ WakeWaiter(a) \/ DecisionFails(a)
       PROVE  AnswerGranted' /\ ForwardGranted' /\ RowAccounted'
  BY <1>10, <1>a, <1>b DEF FlushDecision, WakeWaiter, DecisionFails
<1>11. ASSUME NEW a \in Approvers, CommitDecision(a)
       PROVE  AnswerGranted' /\ ForwardGranted' /\ RowAccounted'
  <2> DEFINE r == task[a].request
             d == [request |-> r, action |-> task[a].action, actor |-> a]
  <2>1. AnswerGranted' /\ ForwardGranted'
    BY <1>11, <1>a DEF CommitDecision
  <2>2. r \in Requests
    BY <1>11 DEF CommitDecision, AnswerInv, SignInv, TypeInv, TaskGiven
  <2>3. /\ d \in decisions' /\ row'[r] = [status |-> StatusOf(d.action), by |-> a]
        /\ \A q \in Requests \ {r} : row'[q] = row[q]
    BY <1>0, <1>11, <2>2 DEF CommitDecision
  <2>4. \E e \in decisions' : /\ e.request = r /\ e.actor = row'[r].by
                             /\ row'[r].status = StatusOf(e.action)
    BY <2>3
  <2>5. RowAccounted'
    BY <2>3, <2>4, AccountKept DEF RowAccounted
  <2> QED BY <2>1, <2>5
<1>12. CASE Crash
  BY <1>0, <1>12, <1>a, <1>b DEF Crash, ProxyEnds
<1> QED
  BY <1>1, <1>2, <1>3, <1>4, <1>5, <1>6, <1>7, <1>8, <1>9, <1>10, <1>11, <1>12
     DEF Next, ProxyStep, DeciderStep, Finished

\* No call of any number goes to the upstream API without a grant, whatever the
\* order of wakeups, timers, decisions, rollbacks and restarts.
THEOREM ForwardGrantedCorrect == Spec => []ForwardGranted
<1>1. GateInv => ForwardGranted
  BY DEF GateInv
<1> QED BY <1>1, GateInit, GateStep, PTL DEF Spec

\* Every decided row has its decision record or its timer behind it.
THEOREM RowAccountedCorrect == Spec => []RowAccounted
<1>1. GateInv => RowAccounted
  BY DEF GateInv
<1> QED BY <1>1, GateInit, GateStep, PTL DEF Spec

-----------------------------------------------------------------------------
(* Committed rows only go forward.                                          *)

\* A row nobody has decided names nobody.
Undecided ==
  \A r \in Requests : row[r].status \in {"absent", "pending"} => row[r].by = None

\* What a step may do to the committed rows and decision records.
Forwards ==
  /\ decisions \subseteq decisions'
  /\ \A r \in Requests :
       /\ row[r].status # "absent" => row'[r].status # "absent"
       /\ row[r].status \notin {"absent", "pending"} => row'[r].status # "pending"

RowInv == WakeInv /\ GateInv /\ Undecided

\* At first there is no decided row.
LEMMA RowInit == Init => RowInv
BY WakeInit, GateInit DEF Init, RowInv, Undecided, Absent

\* Rows are written by three commits: the call's own, before which there was no
\* row, that of a timed-out call and that of a decision, which both decide it.
LEMMA RowWritten ==
  RowInv /\ [Next]_vars =>
    \A r \in Requests :
      \/ row'[r] = row[r]
      \/ row[r].status = "absent" /\ row'[r] = [status |-> "pending", by |-> None]
      \/ row'[r].status \notin {"absent", "pending"}
<1> SUFFICES ASSUME RowInv, [Next]_vars, NEW q \in Requests
             PROVE  \/ row'[q] = row[q]
                    \/ row[q].status = "absent" /\ row'[q] = [status |-> "pending", by |-> None]
                    \/ row'[q].status \notin {"absent", "pending"}
  OBVIOUS
<1>0. TypeOK /\ TaskGiven /\ Signed(final) /\ Published
  BY DEF RowInv, WakeInv, SignInv, TypeInv
<1>1. CASE UNCHANGED row
  BY <1>1
<1>2. ASSUME NEW r \in Requests, CommitApproval(r)
      PROVE  \/ row'[q] = row[q]
             \/ row[q].status = "absent" /\ row'[q] = [status |-> "pending", by |-> None]
  BY <1>0, <1>2 DEF CommitApproval, Published, TypeOK
<1>3. ASSUME NEW r \in Requests, Complete(r)
      PROVE  row'[q] = row[q] \/ row'[q].status \notin {"absent", "pending"}
  <2>1. final[r].by = Timer => final[r].status \notin {"absent", "pending"}
    BY <1>0, StatusTypes DEF Signed, TypeOK
  <2> QED BY <1>0, <1>3, <2>1 DEF Complete, TypeOK
<1>4. ASSUME NEW a \in Approvers, CommitDecision(a)
      PROVE  row'[q] = row[q] \/ row'[q].status \notin {"absent", "pending"}
  BY <1>0, <1>4, StatusTypes DEF CommitDecision, TaskGiven, TypeOK
<1> QED
  BY <1>1, <1>2, <1>3, <1>4
     DEF Next, ProxyStep, DeciderStep, Finished, vars, CreateApproval, Woken, TimerFires,
         HandleTimeout, Refresh, Reject, OverBudget, Forward, ProxyFails, ReadPending,
         RefuseDecision, FlushDecision, WakeWaiter, DecisionFails, Crash

\* A row is decided by a decision or the timer, and then names it.
LEMMA RowStep == RowInv /\ [Next]_vars => RowInv'
<1> SUFFICES ASSUME RowInv, [Next]_vars PROVE Undecided'
  BY WakeStep, GateStep DEF RowInv
<1> QED BY RowWritten DEF RowInv, Undecided

\* The commits are the only steps that write rows, and they go forward.
LEMMA RowForwards == RowInv /\ [Next]_vars => Forwards
BY RowWritten, Monotone DEF RowInv, GateInv, Forwards

\* No step of any call, approver, timer or restart takes a decided row back to
\* "pending", deletes a row or drops a decision record.
THEOREM NothingReopenedCorrect == Spec => NothingReopened
<1>1. RowInv /\ [Next]_vars => [Forwards]_db
  BY RowForwards
<1> QED BY <1>1, RowInit, RowStep, PTL DEF Spec, NothingReopened, Forwards

-----------------------------------------------------------------------------
(* The engine implements the abstract gate.                                 *)

\* Only a timer and a commit of an approver can grant a call: a call that reads
\* its row after a wakeup cannot find the timer's signature in it.
LEMMA GrantedBy ==
  ASSUME RowInv, [Next]_vars,
         decisions' = decisions,
         \A r \in Requests : final'[r] = final[r] \/ Refresh(r)
  PROVE  \A r \in Requests : Granted(r)' <=> Granted(r)
<1>0. AnswerInv /\ RowAccounted /\ Undecided /\ TypeOK
  BY DEF RowInv, GateInv, AnswerInv, SignInv, TypeInv
<1> SUFFICES ASSUME NEW r \in Requests, Granted(r)' PROVE Granted(r)
  BY <1>0, GrantKept
<1>1. config' = config
  BY ConfigFixed
<1>2. CASE final'[r] = final[r]
  BY <1>1, <1>2 DEF Granted
<1>3. CASE Refresh(r)
  <2>1. final'[r] = row[r] /\ proxy[r] \notin ProxyEnds
    BY <1>0, <1>3 DEF Refresh, TypeOK, ProxyEnds
  <2>2. \A d \in decisions : d.actor # Timer
    BY <1>0, ApprovalsAssumption DEF TypeOK
  <2>3. row[r].by # Timer
    BY <1>0, <2>1, <2>2, ApprovalsAssumption DEF RowAccounted, Undecided
  <2> QED BY <1>1, <2>1, <2>3 DEF Granted
<1> QED BY <1>2, <1>3

\* A step that grants, sends and refuses nothing leaves the gate alone.
LEMMA GateStutter ==
  ASSUME \A r \in Requests : Granted(r)' <=> Granted(r),
         Sent' = Sent,
         \A r \in Requests : proxy'[r] = "rejected" <=> proxy[r] = "rejected"
  PROVE  UNCHANGED Gate!gate
BY DEF Gate!gate

\* Each step of the engine is a step of the gate, or none.
LEMMA GateRefines == RowInv /\ [Next]_vars => [Gate!Next]_(Gate!gate)
<1> SUFFICES ASSUME RowInv, [Next]_vars PROVE [Gate!Next]_(Gate!gate)
  OBVIOUS
<1>0. AnswerInv /\ AnswerGranted /\ TypeOK
  BY DEF RowInv, GateInv, AnswerInv, SignInv, TypeInv
<1> USE DEF TypeOK, Sent
<1>1. CASE UNCHANGED vars
  BY <1>1, GrantedBy, GateStutter DEF vars
<1>2. ASSUME NEW r \in Requests,
             CreateApproval(r) \/ CommitApproval(r) \/ Woken(r) \/ TimerFires(r)
      PROVE  [Gate!Next]_(Gate!gate)
  BY <1>0, <1>2, GrantedBy, GateStutter DEF CreateApproval, CommitApproval, Woken, TimerFires
<1>3. ASSUME NEW r \in Requests, Refresh(r) PROVE [Gate!Next]_(Gate!gate)
  <2>1. \A q \in Requests : final'[q] = final[q] \/ Refresh(q)
    BY <1>0, <1>3 DEF Refresh
  <2> QED BY <1>0, <1>3, <2>1, GrantedBy, GateStutter DEF Refresh
<1>4. ASSUME NEW r \in Requests, HandleTimeout(r) PROVE [Gate!Next]_(Gate!gate)
  <2>1. \A q \in Requests \ {r} : Granted(q)' <=> Granted(q)
    BY <1>0, <1>4 DEF HandleTimeout, Granted
  <2>2. /\ Sent' = Sent
        /\ \A q \in Requests : proxy'[q] = "rejected" <=> proxy[q] = "rejected"
    BY <1>0, <1>4 DEF HandleTimeout
  <2>3. CASE Granted(r)' <=> Granted(r)
    BY <2>1, <2>2, <2>3, GateStutter
  <2>4. CASE Granted(r)' /\ ~Granted(r)
    BY <2>1, <2>2, <2>4 DEF Gate!Next, Gate!Grant
  <2> QED BY <1>0, <2>3, <2>4, GrantKept
<1>5. ASSUME NEW r \in Requests, Reject(r) \/ OverBudget(r) PROVE [Gate!Next]_(Gate!gate)
  <2>1. \A q \in Requests : Granted(q)' <=> Granted(q)
    BY <1>5, GrantedBy DEF Reject, OverBudget
  <2>2. /\ Sent' = Sent /\ r \notin Sent
        /\ {q \in Requests : proxy'[q] = "rejected"} =
             {q \in Requests : proxy[q] = "rejected"} \cup {r}
    BY <1>0, <1>5 DEF Reject, OverBudget
  <2> QED BY <2>1, <2>2 DEF Gate!Next, Gate!Refuse
<1>6. ASSUME NEW r \in Requests, Forward(r) PROVE [Gate!Next]_(Gate!gate)
  <2>1. \A q \in Requests : Granted(q)' <=> Granted(q)
    BY <1>6, GrantedBy DEF Forward
  <2>2. /\ Sent' = Sent \cup {r} /\ r \notin Sent /\ Granted(r) /\ proxy[r] # "rejected"
        /\ \A q \in Requests : proxy'[q] = "rejected" <=> proxy[q] = "rejected"
    BY <1>0, <1>6 DEF Forward, AnswerGranted
  <2> QED BY <2>1, <2>2 DEF Gate!Next, Gate!Send
<1>7. ASSUME NEW r \in Requests, Complete(r) \/ ProxyFails(r) PROVE [Gate!Next]_(Gate!gate)
  BY <1>0, <1>7, GrantedBy, GateStutter DEF Complete, ProxyFails
<1>8. ASSUME NEW a \in Approvers, NEW r \in Requests,
             RefuseDecision(a, r) \/ \E action \in Actions : ReadPending(a, r, action)
      PROVE  [Gate!Next]_(Gate!gate)
  BY <1>8, GrantedBy, GateStutter DEF RefuseDecision, ReadPending
<1>9. ASSUME NEW a \in Approvers, FlushDecision(a) \/ WakeWaiter(a) \/ DecisionFails(a)
      PROVE  [Gate!Next]_(Gate!gate)
  BY <1>9, GrantedBy, GateStutter DEF FlushDecision, WakeWaiter, DecisionFails
<1>10. ASSUME NEW a \in Approvers, CommitDecision(a) PROVE [Gate!Next]_(Gate!gate)
  <2>1. PICK r \in Requests : r = task[a].request
    BY <1>10 DEF CommitDecision, RowInv, WakeInv, SignInv, TypeInv, TaskGiven
  <2>2. \A q \in Requests \ {r} : Granted(q)' <=> Granted(q)
    BY <1>0, <1>10, <2>1 DEF CommitDecision, Granted
  <2>3. /\ Sent' = Sent
        /\ \A q \in Requests : proxy'[q] = "rejected" <=> proxy[q] = "rejected"
    BY <1>10 DEF CommitDecision
  <2>4. Granted(r) => Granted(r)'
    BY <1>0, GrantKept
  <2>5. CASE Granted(r)' <=> Granted(r)
    BY <2>2, <2>3, <2>5, GateStutter
  <2>6. CASE Granted(r)' /\ ~Granted(r)
    BY <2>2, <2>3, <2>6 DEF Gate!Next, Gate!Grant
  <2> QED BY <2>4, <2>5, <2>6
<1>11. CASE Crash
  BY <1>0, <1>11, GrantedBy, GateStutter DEF Crash, ProxyEnds
<1> QED
  BY <1>1, <1>2, <1>3, <1>4, <1>5, <1>6, <1>7, <1>8, <1>9, <1>10, <1>11
     DEF Next, ProxyStep, DeciderStep, Finished

\* Events, timers, sessions and restarts together behave as the abstract gate:
\* sent at most once, only after a grant that stands, never after a refusal.
THEOREM ImplementsGateCorrect == Spec => ImplementsGate
<1>1. Init => Gate!Init
  BY ApprovalsAssumption DEF Init, Gate!Init, Granted, Sent, Absent
<1> QED BY <1>1, RowInit, RowStep, GateRefines, PTL DEF Spec, ImplementsGate, Gate!Spec
=============================================================================
