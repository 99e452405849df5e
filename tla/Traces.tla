------------------------------- MODULE Traces -------------------------------
(***************************************************************************)
(* What is recorded of proxied calls, and how it is replayed: a call adds  *)
(* its span to a trace that other calls may share, a replay session takes  *)
(* an ordered index of the spans of a trace, and navigation moves through  *)
(* it while a link to it is shared.                                        *)
(*                                                                         *)
(* Code: the last part of handle_proxy_request (acp/proxy/interceptor.py), *)
(* acp/primitives/replay/session.py with acp/api/replay.py, and            *)
(* acp/models/trace.py.                                                    *)
(*                                                                         *)
(* A call that needs no approval has the write lock since it authenticated *)
(* and one that waited for an approval has given it up.  A span has the    *)
(* name of its call.                                                       *)
(***************************************************************************)
EXTENDS Integers, FiniteSets, SequencesExt

CONSTANTS
  Allowed,      \* proxied calls that a policy allows at once ...
  Approved,     \* ... and those that are approved
  TraceIds,     \* values of the x-acp-trace-id header
  Creations,    \* calls of POST /api/replay
  Navigations,  \* ... of POST /api/replay/{id}/navigate
  Shares,       \* ... of POST /api/replay/{id}/share
  Jumps,        \* values of jump_to
  MaxTime,      \* bound on the clock
  None

Calls    == Allowed \cup Approved
Requests == Calls \cup Creations \cup Navigations \cup Shares

ASSUME TracesAssumption ==
  /\ Allowed \cap Approved = {}
  /\ Calls \cap (Creations \cup Navigations \cup Shares) = {}
  /\ Creations \cap (Navigations \cup Shares) = {} /\ Navigations \cap Shares = {}
  /\ None \notin Requests \cup TraceIds
  /\ Jumps \subseteq Int /\ MaxTime \in Nat

VARIABLES
  traces,   \* committed rows of agent_traces
  spans,    \* committed rows of trace_spans
  replays,  \* committed rows of replay_sessions, by the call that created them
  lock,     \* the request with the write lock
  now,      \* the clock
  pc,       \* where each request is
  trace,    \* the trace a call or a creation is about
  started,  \* when a call was sent to its upstream
  newRow,   \* the calls that add the row of their trace
  index,    \* the spans that a creation has selected
  about,    \* the replay session a navigation or a share has selected
  goal      \* the step a navigation has read and the one it goes to

vars == <<traces, spans, replays, lock, now, pc, trace, started, newRow, index, about, goal>>

NoReplay == [trace |-> None, index |-> <<>>, current |-> 0, share |-> None]

Init ==
  /\ traces = {} /\ spans = {}
  /\ replays = [r \in Creations |-> NoReplay]
  /\ lock = None
  /\ now = 0
  /\ pc = [q \in Requests |-> "idle"]
  /\ trace = [q \in Calls \cup Creations |-> None]
  /\ started = [c \in Calls |-> 0]
  /\ newRow = {}
  /\ index = [r \in Creations |-> <<>>]
  /\ about = [q \in Navigations \cup Shares |-> None]
  /\ goal = [n \in Navigations |-> [from |-> 0, to |-> 0]]

Ends == {"answered", "failed"}

Goto(q, label) == pc' = [pc EXCEPT ![q] = label]
TakeLock(q)    == lock \in {None, q} /\ lock' = q
Release(q)     == lock' = IF lock = q THEN None ELSE lock

-----------------------------------------------------------------------------
(* Proxied calls. *)

\* The request goes upstream.  An approved call may have made a budget row since
\* its wait, and then it has the lock as well.
Send(c, t) ==
  /\ pc[c] = "idle"
  /\ TakeLock(c) \/ (c \in Approved /\ UNCHANGED lock)
  /\ trace' = [trace EXCEPT ![c] = t]
  /\ started' = [started EXCEPT ![c] = now]
  /\ Goto(c, "sent")
  /\ UNCHANGED <<traces, spans, replays, now, newRow, index, about, goal>>

\* The upstream has answered; is there a row for the trace?
FindTrace(c) ==
  /\ c \in Calls /\ pc[c] = "sent"
  /\ Goto(c, IF trace[c] \in traces THEN "recording" ELSE "inserting")
  /\ UNCHANGED <<traces, spans, replays, lock, now, trace, started, newRow, index, about, goal>>

\* Deviation: the row is committed so that other calls of the trace find it.
InsertTraceCommitted(c) ==
  /\ pc[c] = "inserting"
  /\ TakeLock(c)
  /\ traces' = traces \cup {trace[c]}
  /\ Goto(c, "recording")
  /\ UNCHANGED <<spans, replays, now, trace, started, newRow, index, about, goal>>

\* The row is inserted; a row that was committed meanwhile has its key.
InsertTrace(c) ==
  /\ pc[c] = "inserting"
  /\ IF trace[c] \in traces
       THEN lock \in {None, c} /\ Release(c) /\ newRow' = newRow /\ Goto(c, "failed")
       ELSE TakeLock(c) /\ newRow' = newRow \cup {c} /\ Goto(c, "recording")
  /\ UNCHANGED <<traces, spans, replays, now, trace, started, index, about, goal>>

\* The span, the usage and the audit event are flushed.
Record(c) ==
  /\ pc[c] = "recording"
  /\ TakeLock(c)
  /\ Goto(c, "recorded")
  /\ UNCHANGED <<traces, spans, replays, now, trace, started, newRow, index, about, goal>>

\* llm_proxy returns, and its session commits.
CommitCall(c) ==
  /\ pc[c] = "recorded"
  /\ traces' = traces \cup {trace[d] : d \in newRow \cap {c}}
  /\ spans' = spans \cup {c}
  /\ Release(c)
  /\ Goto(c, "answered")
  /\ UNCHANGED <<replays, now, trace, started, newRow, index, about, goal>>

-----------------------------------------------------------------------------
(* Replay sessions. *)

\* create_replay_session selects the trace: an unknown one is a 404 ...
FindTraceToReplay(r, t) ==
  /\ pc[r] = "idle"
  /\ trace' = [trace EXCEPT ![r] = t]
  /\ Goto(r, IF t \in traces THEN "indexing" ELSE "failed")
  /\ UNCHANGED <<traces, spans, replays, lock, now, started, newRow, index, about, goal>>

SpansOf(t) == {c \in spans : trace[c] = t}

Chronological(s) == \A i, j \in DOMAIN s : i < j => started[s[i]] <= started[s[j]]

\* ... then its spans in the order they were started in, equal ones in any ...
SelectSpans(r) ==
  /\ pc[r] = "indexing"
  /\ \E s \in SetToSeqs(SpansOf(trace[r])) :
       Chronological(s) /\ index' = [index EXCEPT ![r] = s]
  /\ Goto(r, "creating")
  /\ UNCHANGED <<traces, spans, replays, lock, now, trace, started, newRow, about, goal>>

\* ... and inserts the session.
InsertReplay(r) ==
  /\ pc[r] = "creating"
  /\ TakeLock(r)
  /\ Goto(r, "flushed")
  /\ UNCHANGED <<traces, spans, replays, now, trace, started, newRow, index, about, goal>>

FirstViolation(s) ==
  LET violations == {i \in DOMAIN s : s[i] \in Approved}
  IN  IF violations = {} THEN Len(s) - 1 ELSE Min(violations) - 1

\* Where navigate may go: on, back, to the first span whose decision was not
\* "allow", to the end, nowhere, or wherever jump_to says.
Goals(row) ==
  {Min({row.current + 1, Len(row.index) - 1}), Max({row.current - 1, 0}),
   FirstViolation(row.index), Len(row.index) - 1, row.current} \cup Jumps

\* navigate and generate_share_link select the session first.
SelectReplay(q, r) ==
  /\ pc[q] = "idle"
  /\ replays[r] # NoReplay
  /\ about' = [about EXCEPT ![q] = r]
  /\ IF q \in Navigations
       THEN \E k \in Goals(replays[r]) :
              goal' = [goal EXCEPT ![q] = [from |-> replays[r].current, to |-> k]]
       ELSE goal' = goal
  /\ Goto(q, IF q \in Navigations THEN "moving" ELSE "sharing")
  /\ UNCHANGED <<traces, spans, replays, lock, now, trace, started, newRow, index>>

\* The flush: a new step is an UPDATE, the old one is none.
Move(n) ==
  /\ pc[n] = "moving"
  /\ IF goal[n].to = goal[n].from THEN UNCHANGED lock ELSE TakeLock(n)
  /\ Goto(n, "showing")
  /\ UNCHANGED <<traces, spans, replays, now, trace, started, newRow, index, about, goal>>

\* Deviation: the error is caught where the session is still committed.
ShowLeniently(n) ==
  /\ pc[n] = "showing"
  /\ Goto(n, "flushed")
  /\ UNCHANGED <<traces, spans, replays, lock, now, trace, started, newRow, index, about, goal>>

\* get_step raises for a step out of range or a span that is not there: 404.
Show(n) ==
  /\ pc[n] = "showing"
  /\ LET steps == replays[about[n]].index
     IN  IF goal[n].to \in 0 .. Len(steps) - 1 /\ steps[goal[n].to + 1] \in spans
           THEN Goto(n, "flushed") /\ UNCHANGED lock
           ELSE Goto(n, "failed") /\ Release(n)
  /\ UNCHANGED <<traces, spans, replays, now, trace, started, newRow, index, about, goal>>

\* A new token replaces the one there may be.
Share(s) ==
  /\ pc[s] = "sharing"
  /\ TakeLock(s)
  /\ Goto(s, "flushed")
  /\ UNCHANGED <<traces, spans, replays, now, trace, started, newRow, index, about, goal>>

\* The commit of a request: an UPDATE sets the columns that it changed, an
\* INSERT all of them.
CommitReplay(q) ==
  /\ pc[q] = "flushed"
  /\ replays' = CASE q \in Creations -> [replays EXCEPT ![q] =
                       [trace |-> trace[q], index |-> index[q], current |-> 0, share |-> None]]
                  [] q \in Navigations /\ lock = q ->
                       [replays EXCEPT ![about[q]].current = goal[q].to]
                  [] q \in Navigations /\ lock # q -> replays
                  [] q \in Shares -> [replays EXCEPT ![about[q]].share = q]
  /\ Release(q)
  /\ Goto(q, "answered")
  /\ UNCHANGED <<traces, spans, now, trace, started, newRow, index, about, goal>>

-----------------------------------------------------------------------------
\* Deviation: the session is neither committed nor closed.
FailHolding(q) ==
  /\ pc[q] \notin Ends \cup {"idle"}
  /\ Goto(q, "failed")
  /\ UNCHANGED <<traces, spans, replays, lock, now, trace, started, newRow, index, about, goal>>

\* The upstream, a statement, a wait for the lock or the commit fails.
Fail(q) ==
  /\ pc[q] \notin Ends \cup {"idle"}
  /\ Release(q)
  /\ Goto(q, "failed")
  /\ UNCHANGED <<traces, spans, replays, now, trace, started, newRow, index, about, goal>>

Tick ==
  /\ now < MaxTime
  /\ now' = now + 1
  /\ UNCHANGED <<traces, spans, replays, lock, pc, trace, started, newRow, index, about, goal>>

Finished ==
  /\ \A q \in Requests : pc[q] \in Ends \cup {"idle"}
  /\ UNCHANGED vars

Next ==
  \/ \E c \in Calls : \/ \E t \in TraceIds : Send(c, t)
                      \/ FindTrace(c) \/ InsertTrace(c) \/ Record(c) \/ CommitCall(c)
  \/ \E r \in Creations : \/ \E t \in TraceIds : FindTraceToReplay(r, t)
                          \/ SelectSpans(r) \/ InsertReplay(r)
  \/ \E q \in Navigations \cup Shares, r \in Creations : SelectReplay(q, r)
  \/ \E n \in Navigations : Move(n) \/ Show(n)
  \/ \E s \in Shares : Share(s)
  \/ \E q \in Creations \cup Navigations \cup Shares : CommitReplay(q)
  \/ \E q \in Requests : Fail(q)
  \/ Tick
  \/ Finished

Spec == Init /\ [][Next]_vars

-----------------------------------------------------------------------------
UnderWay == {q \in Requests : pc[q] \notin Ends \cup {"idle"}}

\* The types of the tables and the requests; a request under way has the lock.
TypeOK ==
  /\ traces \subseteq TraceIds /\ spans \subseteq Calls
  /\ \A r \in Creations :
       /\ replays[r].trace \in TraceIds \cup {None}
       /\ replays[r].index \in Seq(Calls) /\ index[r] \in Seq(Calls)
       /\ replays[r].current \in Int
       /\ replays[r].share \in Shares \cup {None}
  /\ lock \in UnderWay \cup {None}
  /\ now \in 0 .. MaxTime
  /\ pc \in [Requests -> {"idle", "sent", "inserting", "recording", "recorded", "indexing",
                          "creating", "moving", "showing", "sharing", "flushed"} \cup Ends]
  /\ trace \in [Calls \cup Creations -> TraceIds \cup {None}]
  /\ started \in [Calls -> 0 .. MaxTime]
  /\ newRow \subseteq Calls
  /\ about \in [Navigations \cup Shares -> Creations \cup {None}]
  /\ goal \in [Navigations -> [from : Int, to : Int]]

\* However the calls of a trace race for its row, the row is there as soon as
\* one of them is answered and not before: a call has its span exactly if it was
\* answered, and a trace has its row exactly if it has a span.
TracesWhole ==
  /\ \A c \in Calls : pc[c] = "answered" <=> c \in spans
  /\ traces = {trace[c] : c \in spans}

\* A replay session always stands at a step that it can show: its index is not
\* empty, has recorded spans of its trace only, each once and in the order of
\* their start, and no navigation, refused or concurrent, leaves it elsewhere.
ReplayShowsStep ==
  \A r \in Creations : replays[r] # NoReplay =>
    LET steps == replays[r].index
    IN  /\ replays[r].current \in 0 .. Len(steps) - 1
        /\ ToSet(steps) \subseteq SpansOf(replays[r].trace)
        /\ IsInjective(steps) /\ Chronological(steps)
=============================================================================
