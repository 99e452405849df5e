------------------------- MODULE CredentialsProofs -------------------------
(***************************************************************************)
(* Credentials for any number of agents, handlers and calls.  What the     *)
(* proofs rest on: the database only moves forward (Later), because a      *)
(* session writes what it sees under the one write lock, and what it sees  *)
(* is what is committed and its own changes.                               *)
(***************************************************************************)
EXTENDS Credentials, TLAPS

-----------------------------------------------------------------------------
(* The layers of the inductive invariant.                                   *)

\* A handler is about an agent or a credential from its first statement on.
TargetGiven ==
  \A s \in Sessions : pc[s] \notin {"absent", "idle"} =>
    target[s] \in IF s \in Jtis \cup AgentRevocations THEN Agents ELSE Jtis

TypeInv == TypeOK /\ TargetGiven

\* Nobody has uncommitted changes unless somebody has the lock; a session has
\* it from its first write to its commit.
LockInv ==
  /\ lock = None => tx = db
  /\ lock # None => pc[lock] \in {"issuing", "signed", "shortening", "flushed"}
  /\ \A s \in Sessions : pc[s] \in {"shortening", "flushed"} => lock = s
  /\ \A j \in Registrations : pc[j] \in {"issuing", "signed"} => lock = j

\* The tables e are d at a later time: what is revoked stays revoked, what was
\* issued stays issued and expires no later.
Later(d, e) ==
  /\ \A a \in Agents : /\ d.agent[a] = "revoked" => e.agent[a] = "revoked"
                       /\ d.agent[a] # "absent" => e.agent[a] # "absent"
  /\ \A j \in Jtis : d.cred[j].agent # None =>
       /\ e.cred[j].agent = d.cred[j].agent
       /\ e.cred[j].active => d.cred[j].active
       /\ e.cred[j].expires <= d.cred[j].expires

\* A credential is inserted once, by its session, with its token's expiry.
IssueInv ==
  /\ \A j \in Issued(db) : pc[j] = "done"
  /\ \A j \in Issued(tx) : pc[j] \in {"shortening", "flushed", "done"}
  /\ \A j \in Issued(db) : db.cred[j].expires <= exp[j]
  /\ \A j \in Issued(tx) : tx.cred[j].expires <= exp[j]

StoreInv == TypeInv /\ LockInv /\ Later(db, tx) /\ IssueInv

\* What was revoked when a call began still is, and the call gets no further
\* than its look into the database.
AuthInv ==
  \A s \in Auths : late[s] => /\ target[s] \in Inactive(db)
                              /\ pc[s] \notin {"found", "flushed", "done"}

\* Every credential has an agent, and the first one comes with it.
AgentInv ==
  /\ \A j \in Registrations : pc[j] \in {"issuing", "signed", "shortening", "flushed"} =>
       db.agent[target[j]] = "absent" /\ tx.agent[target[j]] = "active"
  /\ \A j \in Issued(db) : db.agent[db.cred[j].agent] # "absent"
  /\ \A j \in Issued(tx) : tx.agent[tx.cred[j].agent] # "absent"
  /\ \A j \in Registrations : pc[j] \in {"issuing", "signed"} =>
       \A i \in Jtis : tx.cred[i].agent # target[j]
  /\ \A j \in Rotations : pc[j] \in {"issuing", "signed"} => db.agent[target[j]] # "absent"

\* What is issued and not committed belongs to the session with the lock.
NewInv ==
  \A j \in Issued(tx) \ Issued(db) :
    pc[j] \in {"shortening", "flushed"} /\ tx.cred[j].agent = target[j]

\* A revocation misses no credential but those of rotations under way.
StragglerInv ==
  /\ \A j \in Rotations : late[j] => pc[j] = "rejected"
  /\ \A s \in AgentRevocations :
       /\ pc[s] \in {"selected", "flushing"} => db.agent[target[s]] # "absent"
       /\ pc[s] = "flushing" =>
            \A j \in Registrations : j \in ActiveOf(db, target[s]) => j \in loaded[s]
  /\ \A a \in Revoked(db) : ActiveOf(db, a) \subseteq Rotations
  /\ \A a \in Revoked(tx) : ActiveOf(tx, a) \subseteq Rotations

\* The credentials in the order of their issue.
Before(old, i, j) == old[i] \cup {i} \subseteq old[j] \ {j}

InOrder(d, old) ==
  /\ \A i \in Issued(d) : old[i] \subseteq Issued(d) \ {i}
  /\ \A i, j \in Issued(d) : i = j \/ Before(old, i, j) \/ Before(old, j, i)

\* Each is cut short by the later ones, but those that are about to do it.
CutShort(d, old, ends, open) ==
  \A a \in Agents : \A i, j \in ActiveOf(d, a) : Before(old, i, j) =>
    j \in Rotations /\ (j \in open \/ d.cred[i].expires <= ends[j])

Open == {j \in Jtis : pc[j] = "shortening"}

SupersedeInv ==
  /\ InOrder(db, older) /\ CutShort(db, older, until, {})
  /\ InOrder(tx, older) /\ CutShort(tx, older, until, Open)
  /\ \A j \in Open : tx.cred[j].agent = target[j]

-----------------------------------------------------------------------------
(* Type correctness.                                                        *)

\* What a session sees are tables.
LEMMA ViewType == ASSUME TypeOK, NEW s \in Sessions PROVE View(s) \in Tables
BY DEF TypeOK, View

\* A session's first statement leaves what it writes well typed.
LEMMA StartType ==
  ASSUME TypeOK, NEW s \in Sessions, NEW x \in Agents \cup Jtis, Start(s, x)
  PROVE  /\ pc[s] = "idle"
         /\ target' \in [Sessions -> Agents \cup Jtis \cup {None}]
         /\ target' = [target EXCEPT ![s] = x]
         /\ late' \in [Rotations \cup Auths -> BOOLEAN]
<1>1. late' \in [Rotations \cup Auths -> BOOLEAN]
  <2> DEFINE new(r) == IF r = s THEN x \in Revoked(db) \cup Inactive(db) ELSE late[r]
  <2>1. ASSUME NEW r \in Rotations \cup Auths PROVE new(r) \in BOOLEAN
    <3>1. late[r] \in BOOLEAN
      BY DEF TypeOK
    <3>2. (x \in Revoked(db) \cup Inactive(db)) \in BOOLEAN
      <4> DEFINE gone == Revoked(db) \cup Inactive(db)
      <4> HIDE DEF gone
      <4>1. (x \in gone) \in BOOLEAN
        OBVIOUS
      <4> QED BY <4>1 DEF gone
    <3> QED BY <3>1, <3>2, Zenon
  <2>2. late' = [r \in Rotations \cup Auths |-> new(r)]
    BY Zenon DEF Start
  <2> HIDE DEF new
  <2> QED BY <2>1, <2>2
<1> QED BY <1>1 DEF TypeOK, Start

\* Deactivating credentials yields credentials.
LEMMA DeactivateType ==
  ASSUME NEW d \in Tables, NEW js \in SUBSET Jtis
  PROVE  Deactivate(d.cred, js) \in [Jtis -> [agent : Agents \cup {None}, active : BOOLEAN,
                                              expires : Int]]
<1> DEFINE row(j) == IF j \in js THEN [d.cred[j] EXCEPT !.active = FALSE] ELSE d.cred[j]
<1>1. ASSUME NEW j \in Jtis
      PROVE  row(j) \in [agent : Agents \cup {None}, active : BOOLEAN, expires : Int]
  <2> DEFINE c == d.cred[j]
  <2>1. c \in [agent : Agents \cup {None}, active : BOOLEAN, expires : Int]
    BY DEF Tables
  <2> HIDE DEF c
  <2> QED BY <2>1 DEF c
<1> QED BY <1>1 DEF Deactivate

\* At first there are no credentials.
LEMMA TypeInit == Init => TypeInv
BY CredentialsAssumption
   DEF Init, TypeInv, TypeOK, TargetGiven, Tables, NoCred, NoRefresh, Hours

\* No step of a session, the cache or the clock breaks a type.
LEMMA TypeStep == TypeInv /\ [Next]_vars => TypeInv'
<1> SUFFICES ASSUME TypeInv, [Next]_vars PROVE TypeInv'
  OBVIOUS
<1> USE CredentialsAssumption DEF TypeInv, Ends
<1>1. CASE UNCHANGED vars
  BY <1>1 DEF vars, TypeOK, TargetGiven
<1>2. ASSUME NEW s \in Registrations, NEW a \in Agents, Register(s, a) PROVE TypeInv'
  <2>1. [db EXCEPT !.agent[a] = "active"] \in Tables
    BY DEF TypeOK, Tables
  <2>2. s \in Sessions /\ Start(s, a)
    BY <1>2 DEF Register, Sessions, Jtis
  <2>3. /\ target' \in [Sessions -> Agents \cup Jtis \cup {None}]
        /\ target' = [target EXCEPT ![s] = a]
        /\ late' \in [Rotations \cup Auths -> BOOLEAN]
    BY <2>2, StartType
  <2>4. tx' \in Tables /\ lock' \in Sessions \cup {None}
    BY <1>2, <2>1, <2>2 DEF Register, Write, TypeOK
  <2>5. PICK label \in {"issuing", "failed"} : pc' = [pc EXCEPT ![s] = label]
    BY <1>2 DEF Register, Goto
  <2>6. UNCHANGED <<db, now, exp, cache, stale, refresh, loaded, older, until>>
    BY <1>2 DEF Register
  <2>7. TypeOK'
    BY <2>3, <2>4, <2>5, <2>6 DEF TypeOK
  <2>8. TargetGiven'
    BY <2>2, <2>3, <2>5 DEF TypeOK, TargetGiven, Jtis
  <2> QED BY <2>7, <2>8
<1>3. ASSUME NEW s \in Rotations, NEW a \in Agents, RotateSelect(s, a) PROVE TypeInv'
  BY <1>3, StartType DEF RotateSelect, Goto, TypeOK, TargetGiven, Sessions, Revokers, Jtis
<1>4. ASSUME NEW j \in Jtis, Sign(j) PROVE TypeInv'
  <2>1. now + Lifetime \in Hours
    BY DEF TypeOK, Hours
  <2> QED BY <1>4, <2>1 DEF Sign, Goto, TypeOK, TargetGiven, Sessions
<1>5. ASSUME NEW j \in Jtis, InsertCred(j) PROVE TypeInv'
  <2> DEFINE row == [agent |-> target[j], active |-> TRUE, expires |-> exp[j]]
  <2>1. target[j] \in Agents
    BY <1>5 DEF InsertCred, TargetGiven, Sessions
  <2>2. row \in [agent : Agents \cup {None}, active : BOOLEAN, expires : Int]
    BY <2>1 DEF TypeOK, Hours
  <2>3. View(j) \in Tables /\ Issued(View(j)) \subseteq Jtis
    BY ViewType DEF Sessions, Issued
  <2> HIDE DEF row
  <2>4. [View(j) EXCEPT !.cred[j] = row] \in Tables
    BY <2>2, <2>3 DEF Tables
  <2> QED BY <1>5, <2>3, <2>4 DEF row, InsertCred, Write, Goto, TypeOK, TargetGiven, Sessions
<1>6. ASSUME NEW j \in Jtis, Shorten(j) PROVE TypeInv'
  <2> DEFINE row(i) == IF i \in OldCreds(j) /\ View(j).cred[i].expires > until'[j]
                         THEN [View(j).cred[i] EXCEPT !.expires = until'[j]]
                         ELSE View(j).cred[i]
             new    == [View(j) EXCEPT !.cred = [i \in Jtis |-> row(i)]]
  <2>0. until' \in [Jtis -> Int]
    <3>1. PICK o \in Asked : until' = [until EXCEPT ![j] = now + overlap(o)]
      BY <1>6 DEF Shorten
    <3>2. now + overlap(o) \in Int
      BY DEF overlap, TypeOK
    <3> QED BY <3>1, <3>2 DEF TypeOK
  <2>1. View(j) \in Tables
    BY ViewType DEF Sessions
  <2>2. ASSUME NEW i \in Jtis
        PROVE  row(i) \in [agent : Agents \cup {None}, active : BOOLEAN, expires : Int]
    <3> DEFINE c == View(j).cred[i]
    <3>1. c \in [agent : Agents \cup {None}, active : BOOLEAN, expires : Int]
      BY <2>1 DEF Tables
    <3> HIDE DEF c
    <3> QED BY <2>0, <3>1 DEF c
  <2> HIDE DEF row
  <2>3. new \in Tables
    BY <2>1, <2>2 DEF Tables
  <2>4. tx' = new
    BY <1>6 DEF Shorten, Write, row
  <2>5. tx' \in Tables /\ lock' \in Sessions \cup {None}
    BY <1>6, <2>3, <2>4 DEF Shorten, Write, Sessions
  <2>6. /\ pc[j] = "shortening" /\ pc' = [pc EXCEPT ![j] = "flushed"]
        /\ UNCHANGED <<db, now, exp, cache, stale, refresh, target, loaded, late, older>>
    BY <1>6 DEF Shorten, Goto
  <2> QED BY <2>0, <2>5, <2>6 DEF TypeOK, TargetGiven, Sessions
<1>7. ASSUME NEW s \in AgentRevocations, NEW a \in Agents, RevokeSelect(s, a) PROVE TypeInv'
  BY <1>7, StartType DEF RevokeSelect, Goto, TypeOK, TargetGiven, Sessions, Revokers, Jtis
<1>8. ASSUME NEW s \in CredRevocations, NEW j \in Jtis, CredSelect(s, j) PROVE TypeInv'
  <2>1. /\ s \in Sessions /\ s \in Revokers /\ s \notin Jtis \cup AgentRevocations
        /\ Start(s, j)
    BY <1>8 DEF CredSelect, Sessions, Revokers
  <2>2. /\ target' \in [Sessions -> Agents \cup Jtis \cup {None}]
        /\ target' = [target EXCEPT ![s] = j]
        /\ late' \in [Rotations \cup Auths -> BOOLEAN]
    BY <2>1, StartType
  <2>3. loaded' \in [Revokers -> SUBSET Jtis]
    BY <1>8, <2>1 DEF CredSelect, TypeOK
  <2>4. PICK label \in {"flushing", "rejected"} : pc' = [pc EXCEPT ![s] = label]
    BY <1>8 DEF CredSelect, Goto
  <2>5. UNCHANGED <<db, tx, lock, now, exp, cache, stale, refresh, older, until>>
    BY <1>8 DEF CredSelect
  <2>6. TypeOK'
    BY <2>2, <2>3, <2>4, <2>5 DEF TypeOK
  <2>7. TargetGiven'
    BY <2>1, <2>2, <2>4 DEF TypeOK, TargetGiven
  <2> QED BY <2>6, <2>7
<1>9. ASSUME NEW s \in Revokers, LoadCreds(s) PROVE TypeInv'
  <2>1. ActiveOf(db, target[s]) \in SUBSET Jtis
    BY DEF ActiveOf, Issued
  <2> QED BY <1>9, <2>1 DEF LoadCreds, Goto, TypeOK, TargetGiven, Sessions
<1>10. ASSUME NEW s \in Revokers, FlushAgent(s) PROVE TypeInv'
  <2> DEFINE new == [View(s) EXCEPT !.agent[target[s]] = "revoked",
                                    !.cred = Deactivate(@, loaded[s])]
  <2>1. View(s) \in Tables /\ loaded[s] \in SUBSET Jtis
    BY ViewType DEF Sessions, TypeOK
  <2>2. new \in Tables
    BY <2>1, DeactivateType DEF Tables
  <2> QED BY <1>10, <2>2 DEF FlushAgent, Write, Goto, TypeOK, TargetGiven, Sessions
<1>11. ASSUME NEW s \in Revokers, FlushCred(s) PROVE TypeInv'
  <2> DEFINE new == [View(s) EXCEPT !.cred = Deactivate(@, loaded[s])]
  <2>1. View(s) \in Tables /\ loaded[s] \in SUBSET Jtis
    BY ViewType DEF Sessions, TypeOK
  <2>2. new \in Tables
    BY <2>1, DeactivateType DEF Tables
  <2> QED BY <1>11, <2>1, <2>2 DEF FlushCred, Write, Goto, TypeOK, TargetGiven, Sessions
<1>12. ASSUME NEW s \in Auths, NEW j \in Jtis, Present(s, j) PROVE TypeInv'
  BY <1>12, StartType DEF Present, Goto, TypeOK, TargetGiven, Sessions, Revokers, Jtis
<1>13. ASSUME NEW s \in Auths, CacheFresh(s) \/ CacheSelect(s) \/ CacheFill(s) PROVE TypeInv'
  <2>1. Inactive(db) \in SUBSET Jtis
    BY DEF Inactive, Issued
  <2>2. pc' \in [Sessions -> {"absent", "idle", "issuing", "signed", "shortening", "selected",
               "flushing", "flushed", "presented", "refreshing", "verifying", "looking",
               "found"} \cup Ends] /\ TargetGiven'
    BY <1>13 DEF CacheFresh, CacheSelect, CacheFill, Goto, TypeOK, TargetGiven, Sessions
  <2>3. stale' \in BOOLEAN /\ cache' \in SUBSET Jtis
    BY <1>13 DEF CacheFresh, CacheSelect, CacheFill, TypeOK
  <2>4. refresh' \in [by : Auths \cup {None}, rows : SUBSET Jtis]
    BY <1>13, <2>1 DEF CacheFresh, CacheSelect, CacheFill, NoRefresh, TypeOK
  <2> QED BY <1>13, <2>2, <2>3, <2>4 DEF CacheFresh, CacheSelect, CacheFill, TypeOK
<1>14. ASSUME NEW s \in Auths, Verify(s) \/ LookUp(s) PROVE TypeInv'
  BY <1>14 DEF Verify, LookUp, Goto, TypeOK, TargetGiven, Sessions
<1>15. ASSUME NEW s \in Auths, Touch(s) PROVE TypeInv'
  BY <1>15, ViewType DEF Touch, Write, Goto, TypeOK, TargetGiven, Sessions
<1>16. ASSUME NEW s \in Sessions, Commit(s) PROVE TypeInv'
  BY <1>16, ViewType DEF Commit, CommitTx, Goto, TypeOK, TargetGiven
<1>17. ASSUME NEW s \in Sessions, Fail(s) PROVE TypeInv'
  BY <1>17 DEF Fail, RollbackTx, NoRefresh, Goto, TypeOK, TargetGiven
<1>18. CASE CacheAges \/ Tick
  <2>1. now' \in 0 .. MaxTime
    BY <1>18 DEF CacheAges, Tick, TypeOK
  <2>2. stale' \in BOOLEAN
    BY <1>18 DEF CacheAges, Tick, TypeOK
  <2> QED BY <1>18, <2>1, <2>2 DEF CacheAges, Tick, TypeOK, TargetGiven
<1> QED
  BY <1>1, <1>2, <1>3, <1>4, <1>5, <1>6, <1>7, <1>8, <1>9, <1>10, <1>11, <1>12, <1>13, <1>14,
     <1>15, <1>16, <1>17, <1>18 DEF Next, Finished

\* Every reachable state is well typed.
THEOREM TypeCorrect == Spec => []TypeOK
<1>1. TypeInv => TypeOK
  BY DEF TypeInv
<1> QED BY <1>1, TypeInit, TypeStep, PTL DEF Spec

-----------------------------------------------------------------------------
(* The database moves forward.                                              *)

\* A database that is left alone has not gone back ...
LEMMA LaterReflexive == ASSUME NEW d \in Tables PROVE Later(d, d)
BY DEF Later, Tables, Hours

\* ... and one that never goes back in two steps does not in both.
LEMMA LaterTransitive ==
  ASSUME NEW d \in Tables, NEW e \in Tables, NEW f \in Tables, Later(d, e), Later(e, f)
  PROVE  Later(d, f)
<1>1. ASSUME NEW j \in Jtis, d.cred[j].agent # None
      PROVE  /\ f.cred[j].agent = d.cred[j].agent
             /\ f.cred[j].active => d.cred[j].active
             /\ f.cred[j].expires <= d.cred[j].expires
  <2>1. /\ d.cred[j].expires \in Int /\ e.cred[j].expires \in Int
        /\ f.cred[j].expires \in Int
    BY CredentialsAssumption DEF Tables, Hours
  <2> QED BY <1>1, <2>1 DEF Later
<1> QED BY <1>1 DEF Later

\* A session that writes writes over what is committed and its own changes.
LEMMA WriterSees ==
  ASSUME LockInv, NEW s \in Sessions, lock \in {None, s}
  PROVE  View(s) = tx
BY CredentialsAssumption DEF LockInv, View

\* A step of a session that has not written and does not write.
LEMMA QuietStep ==
  ASSUME StoreInv, NEW s \in Sessions, NEW label,
         UNCHANGED <<db, tx, lock, exp>>, Goto(s, label),
         pc[s] \notin {"issuing", "signed", "shortening", "flushed", "done"},
         label \notin {"shortening", "flushed"},
         s \in Registrations => label \notin {"issuing", "signed"}
  PROVE  LockInv' /\ Later(db, tx)' /\ IssueInv'
<1> USE DEF StoreInv, TypeInv, TypeOK, Goto
<1>1. LockInv'
  BY DEF LockInv, Sessions, Jtis
<1>2. Later(db, tx)'
  BY DEF Later
<1>3. IssueInv'
  BY DEF IssueInv, Issued
<1> QED BY <1>1, <1>2, <1>3

\* A step in which a session writes, perhaps a credential of its own.
LEMMA WriteStep ==
  ASSUME StoreInv, NEW s \in Sessions, NEW new \in Tables,
         NEW label \in {"issuing", "shortening", "flushed"},
         Write(s, new), UNCHANGED <<db, exp>>, Goto(s, label),
         pc[s] # "done", Later(tx, new),
         \A j \in Issued(new) \ Issued(tx) :
           j = s /\ label # "issuing" /\ new.cred[j].expires <= exp[j],
         s \in Issued(tx) => label # "issuing"
  PROVE  LockInv' /\ Later(db, tx)' /\ IssueInv'
<1> USE DEF StoreInv, TypeInv, TypeOK, Goto, Write
<1>1. LockInv'
  BY CredentialsAssumption DEF LockInv, Sessions, Jtis
<1>2. Later(db, new)
  BY LaterTransitive
<1>3. Later(db, tx)'
  BY <1>2 DEF Later
<1>4. \A j \in Issued(db)' : pc'[j] = "done" /\ db'.cred[j].expires <= exp'[j]
  BY DEF IssueInv, Issued
<1>5. ASSUME NEW j \in Issued(tx)'
      PROVE  pc'[j] \in {"shortening", "flushed", "done"} /\ tx'.cred[j].expires <= exp'[j]
  <2>1. CASE j \in Issued(tx)
    <3>1. new.cred[j].expires <= tx.cred[j].expires /\ tx.cred[j].expires <= exp[j]
      BY <2>1 DEF Later, Issued, IssueInv
    <3>2. j \in Jtis /\ new.cred[j].expires \in Int /\ tx.cred[j].expires \in Int /\ exp[j] \in Int
      BY <2>1, CredentialsAssumption DEF Tables, Hours, Issued
    <3>3. j \in Sessions
      BY <3>2 DEF Sessions
    <3> QED BY <2>1, <3>1, <3>2, <3>3 DEF IssueInv
  <2>2. CASE j \notin Issued(tx)
    BY <1>5, <2>2 DEF Issued
  <2> QED BY <2>1, <2>2
<1>6. IssueInv'
  BY <1>4, <1>5 DEF IssueInv
<1> QED BY <1>1, <1>3, <1>6

\* At first nothing has been written.
LEMMA StoreInit == Init => StoreInv
<1> SUFFICES ASSUME Init PROVE StoreInv
  OBVIOUS
<1>1. TypeInv
  BY TypeInit
<1>2. Issued(db) = {} /\ Issued(tx) = {}
  BY DEF Init, Issued, NoCred
<1>3. LockInv
  BY CredentialsAssumption DEF Init, LockInv, Sessions, Jtis
<1>4. Later(db, tx)
  BY <1>1, LaterReflexive DEF Init, TypeInv, TypeOK
<1> QED BY <1>1, <1>2, <1>3, <1>4 DEF StoreInv, IssueInv

\* What InsertCred, Shorten and the two kinds of revocation write.
LEMMA InsertLater ==
  ASSUME TypeOK, NEW j \in Jtis, j \notin Issued(tx), NEW row
  PROVE  LET new == [tx EXCEPT !.cred[j] = row]
         IN  Later(tx, new) /\ Issued(new) \subseteq Issued(tx) \cup {j}
BY CredentialsAssumption DEF TypeOK, Tables, Hours, Later, Issued

\* Shortening the old credentials at a rotation goes forward.
Shortened(d, js, end) ==
  [d EXCEPT !.cred = [i \in Jtis |-> IF i \in js /\ @[i].expires > end
                                       THEN [@[i] EXCEPT !.expires = end] ELSE @[i]]]

LEMMA ShortenLater ==
  ASSUME TypeOK, NEW js, NEW end \in Int
  PROVE  Later(tx, Shortened(tx, js, end)) /\ Issued(Shortened(tx, js, end)) = Issued(tx)
<1> DEFINE row(i) == IF i \in js /\ tx.cred[i].expires > end
                       THEN [tx.cred[i] EXCEPT !.expires = end] ELSE tx.cred[i]
           new    == [tx EXCEPT !.cred = [i \in Jtis |-> row(i)]]
<1>1. ASSUME NEW i \in Jtis
      PROVE  /\ row(i).agent = tx.cred[i].agent /\ row(i).active = tx.cred[i].active
             /\ row(i).expires <= tx.cred[i].expires
  <2> DEFINE c == tx.cred[i]
  <2>1. c \in [agent : Agents \cup {None}, active : BOOLEAN, expires : Int]
    BY DEF TypeOK, Tables
  <2>2. c.expires \in Int
    BY <2>1
  <2> HIDE DEF c
  <2> QED BY <2>1, <2>2 DEF c
<1> HIDE DEF row
<1>2. /\ new.agent = tx.agent
      /\ \A i \in Jtis : new.cred[i] = row(i)
  BY DEF TypeOK, Tables
<1>3. Later(tx, new)
  BY <1>1, <1>2 DEF Later
<1>4. Issued(new) = Issued(tx)
  BY <1>1, <1>2 DEF Issued
<1>5. new = Shortened(tx, js, end)
  BY DEF Shortened, row
<1> HIDE DEF new
<1> QED BY <1>3, <1>4, <1>5

\* Deactivating credentials at a revocation goes forward.
LEMMA DeactivateLater ==
  ASSUME TypeOK, NEW js \in SUBSET Jtis, NEW d \in Tables,
         d.cred = Deactivate(tx.cred, js),
         \A a \in Agents : d.agent[a] = tx.agent[a] \/ d.agent[a] = "revoked"
  PROVE  Later(tx, d) /\ Issued(d) = Issued(tx)
<1>1. ASSUME NEW i \in Jtis
      PROVE  /\ d.cred[i].agent = tx.cred[i].agent
             /\ d.cred[i].active => tx.cred[i].active
             /\ d.cred[i].expires = tx.cred[i].expires
             /\ d.cred[i].expires \in Int
  <2> DEFINE c == tx.cred[i]
  <2>1. c \in [agent : Agents \cup {None}, active : BOOLEAN, expires : Int]
    BY DEF TypeOK, Tables
  <2>2. c.expires \in Int
    BY <2>1, CredentialsAssumption DEF Hours
  <2>3. d.cred[i] = IF i \in js THEN [c EXCEPT !.active = FALSE] ELSE c
    BY DEF Deactivate
  <2> HIDE DEF c
  <2>4. d.cred[i].agent = c.agent /\ d.cred[i].expires = c.expires
    BY <2>1, <2>3
  <2>5. d.cred[i].active => c.active
    BY <2>1, <2>3
  <2> QED BY <2>2, <2>4, <2>5 DEF c
<1> QED BY <1>1 DEF Later, Issued

\* Each write, commit and rollback goes forward, under the one lock.
LEMMA StoreStep == StoreInv /\ [Next]_vars => StoreInv'
<1> SUFFICES ASSUME StoreInv, [Next]_vars PROVE StoreInv'
  OBVIOUS
<1> DEFINE Forward == LockInv' /\ Later(db, tx)' /\ IssueInv'
<1>0. TypeInv /\ TypeOK /\ TypeInv' /\ TypeOK' /\ LockInv
  BY TypeStep DEF StoreInv, TypeInv
<1> USE CredentialsAssumption
<1>1. CASE UNCHANGED vars
  BY <1>0, <1>1 DEF vars, StoreInv, LockInv, Later, IssueInv, Issued
<1>2. ASSUME NEW s \in Registrations, NEW a \in Agents, Register(s, a) PROVE Forward
  <2>0. s \in Sessions /\ s \in Jtis /\ pc[s] = "idle" /\ lock = None
    BY <1>2 DEF Register, Start, Sessions, Jtis
  <2>1. CASE db.agent[a] = "absent"
    <3> DEFINE new == [tx EXCEPT !.agent[a] = "active"]
    <3>1. tx = db
      BY <2>0 DEF StoreInv, LockInv
    <3>2. new \in Tables /\ new.cred = tx.cred
      BY <1>0 DEF TypeOK, Tables
    <3>3. \A b \in Agents : new.agent[b] = IF b = a THEN "active" ELSE tx.agent[b]
      BY <1>0 DEF TypeOK, Tables
    <3>4. Later(tx, tx)
      BY <1>0, LaterReflexive DEF TypeOK
    <3>5. Later(tx, new)
      BY <2>1, <3>1, <3>2, <3>3, <3>4 DEF Later
    <3>6. Issued(new) = Issued(tx)
      BY <3>2 DEF Issued
    <3>7. Write(s, new) /\ UNCHANGED <<db, exp>> /\ Goto(s, "issuing")
      BY <1>2, <2>1, <3>1 DEF Register
    <3>8. s \notin Issued(tx)
      BY <2>0 DEF StoreInv, IssueInv
    <3> HIDE DEF new
    <3> QED BY <2>0, <3>2, <3>5, <3>6, <3>7, <3>8, WriteStep
  <2>2. CASE db.agent[a] # "absent"
    <3>1. UNCHANGED <<db, tx, lock, exp>> /\ Goto(s, "failed")
      BY <1>2, <2>2 DEF Register
    <3> QED BY <2>0, <3>1, QuietStep
  <2> QED BY <2>1, <2>2
<1>3. ASSUME NEW s \in Rotations, NEW a \in Agents, RotateSelect(s, a) PROVE Forward
  <2>1. s \in Sessions /\ s \notin Registrations /\ pc[s] = "idle"
    BY <1>3 DEF RotateSelect, Start, Sessions, Jtis
  <2>2. /\ UNCHANGED <<db, tx, lock, exp>>
        /\ Goto(s, IF db.agent[a] = "active" THEN "issuing" ELSE "rejected")
    BY <1>3 DEF RotateSelect
  <2> QED BY <2>1, <2>2, QuietStep
<1>4. ASSUME NEW j \in Jtis, Sign(j) PROVE Forward
  <2>1. pc[j] = "issuing" /\ pc' = [pc EXCEPT ![j] = "signed"] /\ UNCHANGED <<db, tx, lock>>
        /\ exp' = [exp EXCEPT ![j] = now + Lifetime] /\ j \in Sessions
    BY <1>4 DEF Sign, Goto, Sessions
  <2>2. j \notin Issued(db) /\ j \notin Issued(tx)
    BY <2>1 DEF StoreInv, IssueInv
  <2>3. LockInv'
    BY <1>0, <2>1 DEF LockInv, TypeOK, Sessions, Jtis
  <2>4. Later(db, tx)'
    BY <2>1 DEF StoreInv, Later
  <2>5. \A i \in Jtis \ {j} : exp'[i] = exp[i] /\ pc'[i] = pc[i]
    BY <1>0, <2>1 DEF TypeOK, Sessions
  <2>6. IssueInv'
    BY <2>1, <2>2, <2>5 DEF StoreInv, IssueInv, Issued
  <2> QED BY <2>3, <2>4, <2>6
<1>5. ASSUME NEW j \in Jtis, InsertCred(j) PROVE Forward
  <2> DEFINE row   == [agent |-> target[j], active |-> TRUE, expires |-> exp[j]]
             new   == [tx EXCEPT !.cred[j] = row]
             label == IF j \in Rotations THEN "shortening" ELSE "flushed"
  <2>1. j \in Sessions /\ pc[j] = "signed" /\ lock \in {None, j}
    BY <1>5 DEF InsertCred, Write, Sessions
  <2>2. View(j) = tx
    BY <1>0, <2>1, WriterSees
  <2>3. Write(j, new) /\ Goto(j, label) /\ UNCHANGED <<db, exp>> /\ tx' = new
    BY <1>5, <2>2 DEF InsertCred, Write
  <2>4. j \notin Issued(tx)
    BY <2>1 DEF StoreInv, IssueInv
  <2>5. Later(tx, new) /\ Issued(new) \subseteq Issued(tx) \cup {j}
    BY <1>0, <2>4, InsertLater
  <2>6. new \in Tables
    BY <1>0, <2>3 DEF TypeOK
  <2>7. new.cred[j].expires <= exp[j]
    BY <1>0 DEF TypeOK, Tables, Hours
  <2>8. label \in {"issuing", "shortening", "flushed"} /\ label # "issuing"
    OBVIOUS
  <2> HIDE DEF new, label
  <2> QED BY <2>1, <2>3, <2>4, <2>5, <2>6, <2>7, <2>8, WriteStep
<1>6. ASSUME NEW j \in Jtis, Shorten(j) PROVE Forward
  <2> DEFINE new == Shortened(tx, OldCreds(j), until'[j])
  <2>1. j \in Sessions /\ pc[j] = "shortening" /\ lock \in {None, j}
    BY <1>6 DEF Shorten, Write, Sessions
  <2>2. View(j) = tx
    BY <1>0, <2>1, WriterSees
  <2>3. Write(j, new) /\ Goto(j, "flushed") /\ UNCHANGED <<db, exp>> /\ tx' = new
    BY <1>6, <2>2 DEF Shorten, Write, Shortened
  <2>4. Later(tx, new) /\ Issued(new) = Issued(tx)
    <3>1. until'[j] \in Int
      BY <1>0 DEF TypeOK
    <3> QED BY <1>0, <3>1, ShortenLater
  <2>5. new \in Tables
    BY <1>0, <2>3 DEF TypeOK
  <2> HIDE DEF new
  <2> QED BY <2>1, <2>3, <2>4, <2>5, WriteStep
<1>7. ASSUME NEW s \in AgentRevocations, NEW a \in Agents, RevokeSelect(s, a) PROVE Forward
  <2>1. s \in Sessions /\ s \notin Registrations /\ pc[s] = "idle"
    BY <1>7 DEF RevokeSelect, Start, Sessions, Revokers, Jtis
  <2>2. /\ UNCHANGED <<db, tx, lock, exp>>
        /\ Goto(s, IF db.agent[a] # "absent" THEN "selected" ELSE "rejected")
    BY <1>7 DEF RevokeSelect
  <2> QED BY <2>1, <2>2, QuietStep
<1>8. ASSUME NEW s \in CredRevocations, NEW j \in Jtis, CredSelect(s, j) PROVE Forward
  <2>1. s \in Sessions /\ s \notin Registrations /\ pc[s] = "idle"
    BY <1>8 DEF CredSelect, Start, Sessions, Revokers, Jtis
  <2>2. PICK label \in {"flushing", "rejected"} :
          UNCHANGED <<db, tx, lock, exp>> /\ Goto(s, label)
    BY <1>8 DEF CredSelect
  <2> QED BY <2>1, <2>2, QuietStep
<1>9. ASSUME NEW s \in Revokers, LoadCreds(s) PROVE Forward
  <2>1. s \in Sessions /\ s \notin Registrations /\ pc[s] = "selected"
    BY <1>9 DEF LoadCreds, Sessions, Jtis
  <2>2. UNCHANGED <<db, tx, lock, exp>> /\ Goto(s, "flushing")
    BY <1>9 DEF LoadCreds
  <2> QED BY <2>1, <2>2, QuietStep
<1>10. ASSUME NEW s \in Revokers, FlushAgent(s) \/ FlushCred(s) PROVE Forward
  <2>1. /\ s \in Sessions /\ pc[s] = "flushing" /\ lock \in {None, s}
        /\ s \notin Issued(tx) /\ loaded[s] \in SUBSET Jtis
    BY <1>0, <1>10 DEF FlushAgent, FlushCred, Write, Sessions, Issued, TypeOK
  <2>2. View(s) = tx
    BY <1>0, <2>1, WriterSees
  <2>3. Write(s, tx') /\ Goto(s, "flushed") /\ UNCHANGED <<db, exp>> /\ tx' \in Tables
    BY <1>0, <1>10 DEF FlushAgent, FlushCred, Write, TypeOK
  <2>4. /\ tx'.cred = Deactivate(tx.cred, loaded[s])
        /\ \A a \in Agents : tx'.agent[a] = tx.agent[a] \/ tx'.agent[a] = "revoked"
    <3>1. tx' = [tx EXCEPT !.agent[target[s]] = "revoked", !.cred = Deactivate(@, loaded[s])]
          \/ tx' = [tx EXCEPT !.cred = Deactivate(@, loaded[s])]
      BY <1>10, <2>2 DEF FlushAgent, FlushCred, Write
    <3>2. tx \in Tables
      BY <1>0 DEF TypeOK
    <3>3. CASE tx' = [tx EXCEPT !.agent[target[s]] = "revoked",
                                !.cred = Deactivate(@, loaded[s])]
      BY <3>2, <3>3 DEF Tables
    <3>4. CASE tx' = [tx EXCEPT !.cred = Deactivate(@, loaded[s])]
      BY <3>2, <3>4 DEF Tables
    <3> QED BY <3>1, <3>3, <3>4
  <2>5. Later(tx, tx') /\ Issued(tx') = Issued(tx)
    BY <1>0, <2>1, <2>3, <2>4, DeactivateLater
  <2> QED BY <2>1, <2>3, <2>5, WriteStep
<1>11. ASSUME NEW s \in Auths, NEW j \in Jtis, Present(s, j) PROVE Forward
  <2>1. s \in Sessions /\ s \notin Registrations /\ pc[s] = "idle"
    BY <1>11 DEF Present, Start, Sessions, Jtis
  <2>2. UNCHANGED <<db, tx, lock, exp>> /\ Goto(s, "presented")
    BY <1>11 DEF Present
  <2> QED BY <2>1, <2>2, QuietStep
<1>12. ASSUME NEW s \in Auths,
              CacheFresh(s) \/ CacheSelect(s) \/ CacheFill(s) \/ Verify(s) \/ LookUp(s)
       PROVE  Forward
  <2>1. /\ s \in Sessions /\ s \notin Registrations
        /\ pc[s] \in {"presented", "refreshing", "verifying", "looking"}
    BY <1>12 DEF CacheFresh, CacheSelect, CacheFill, Verify, LookUp, Sessions, Jtis
  <2>2. PICK label \in {"refreshing", "verifying", "looking", "found", "rejected"} :
          UNCHANGED <<db, tx, lock, exp>> /\ Goto(s, label)
    BY <1>12 DEF CacheFresh, CacheSelect, CacheFill, Verify, LookUp
  <2> QED BY <2>1, <2>2, QuietStep
<1>13. ASSUME NEW s \in Auths, Touch(s) PROVE Forward
  <2>1. s \in Sessions /\ s \notin Issued(tx) /\ pc[s] = "found" /\ lock \in {None, s}
    BY <1>13 DEF Touch, Write, Sessions, Issued
  <2>2. View(s) = tx
    BY <1>0, <2>1, WriterSees
  <2>3. Write(s, tx) /\ Goto(s, "flushed") /\ UNCHANGED <<db, exp>> /\ tx \in Tables
    BY <1>0, <1>13, <2>2 DEF Touch, TypeOK
  <2>4. Later(tx, tx)
    BY <2>3, LaterReflexive
  <2> QED BY <2>1, <2>3, <2>4, WriteStep
<1>14. ASSUME NEW s \in Sessions, Commit(s) PROVE Forward
  <2>1. /\ pc[s] = "flushed" /\ pc' = [pc EXCEPT ![s] = "done"] /\ lock = s
        /\ lock' = None /\ db' = tx /\ tx' = tx /\ exp' = exp
    BY <1>14 DEF Commit, CommitTx, View, Goto, StoreInv, LockInv
  <2>2. LockInv'
    BY <1>0, <2>1 DEF LockInv, TypeOK, Sessions, Jtis
  <2>3. Later(db, tx)'
    BY <1>0, <2>1, LaterReflexive DEF TypeOK
  <2>4. \A j \in Issued(tx) : pc'[j] = "done"
    BY <1>0, <2>1 DEF StoreInv, IssueInv, LockInv, TypeOK, Issued, Sessions
  <2>5. IssueInv'
    BY <2>1, <2>4 DEF StoreInv, IssueInv, Issued
  <2> QED BY <2>2, <2>3, <2>5
<1>15. ASSUME NEW s \in Sessions, Fail(s) PROVE Forward
  <2>1. /\ pc[s] \notin {"done", "rejected", "failed", "absent", "idle"} /\ exp' = exp
        /\ pc' = [pc EXCEPT ![s] = "failed"] /\ db' = db
        /\ IF lock = s THEN lock' = None /\ tx' = db ELSE lock' = lock /\ tx' = tx
    BY <1>15 DEF Fail, RollbackTx, Goto, Ends
  <2>2. LockInv'
    BY <1>0, <2>1 DEF LockInv, TypeOK, Sessions, Jtis
  <2>3. Later(db, tx)'
    <3>1. Later(db, db)
      BY <1>0, LaterReflexive DEF TypeOK
    <3> QED BY <2>1, <3>1 DEF StoreInv, Later
  <2>4. \A j \in Issued(db) : pc'[j] = "done"
    BY <1>0, <2>1 DEF StoreInv, IssueInv, TypeOK, Issued, Sessions
  <2>5. lock # s => \A j \in Issued(tx) : pc'[j] \in {"shortening", "flushed", "done"}
    BY <1>0, <2>1 DEF StoreInv, IssueInv, LockInv, TypeOK, Issued, Sessions
  <2>6. IssueInv'
    BY <2>1, <2>4, <2>5 DEF StoreInv, IssueInv, Issued
  <2> QED BY <2>2, <2>3, <2>6
<1>16. CASE CacheAges \/ Tick
  BY <1>0, <1>16 DEF CacheAges, Tick, StoreInv, LockInv, Later, IssueInv, Issued
<1>17. Forward => StoreInv'
  BY <1>0 DEF StoreInv
<1> HIDE DEF Forward
<1> QED
  BY <1>1, <1>2, <1>3, <1>4, <1>5, <1>6, <1>7, <1>8, <1>9, <1>10, <1>11, <1>12, <1>13, <1>14,
     <1>15, <1>16, <1>17 DEF Next, Finished, Forward

\* What is committed after a step is what was committed before, or later.
LEMMA DbForward ==
  ASSUME StoreInv, [Next]_vars
  PROVE  /\ Later(db, db') /\ db' \in {db, tx}
         /\ db' = db \/ \E s \in Sessions : Commit(s)
<1>1. /\ db \in Tables /\ db' \in {db, tx}
      /\ db' = db \/ \E s \in Sessions : Commit(s)
  <2>1. ASSUME NEW s \in Sessions, Commit(s) PROVE db' = tx
    BY <2>1 DEF Commit, CommitTx, View, StoreInv, LockInv
  <2>2. \A s, x : Register(s, x) \/ RotateSelect(s, x) \/ RevokeSelect(s, x) \/ CredSelect(s, x)
                  \/ Present(s, x) => db' = db
    BY DEF Register, RotateSelect, RevokeSelect, CredSelect, Present
  <2>3. \A s : Sign(s) \/ InsertCred(s) \/ Shorten(s) \/ LoadCreds(s) \/ FlushAgent(s)
               \/ FlushCred(s) \/ Touch(s) \/ Fail(s) => db' = db
    BY DEF Sign, InsertCred, Shorten, LoadCreds, FlushAgent, FlushCred, Touch, Fail, RollbackTx
  <2>4. \A s : CacheFresh(s) \/ CacheSelect(s) \/ CacheFill(s) \/ Verify(s) \/ LookUp(s)
               => db' = db
    BY DEF CacheFresh, CacheSelect, CacheFill, Verify, LookUp
  <2>5. CacheAges \/ Tick \/ UNCHANGED vars => db' = db
    BY DEF CacheAges, Tick, vars
  <2>6. db' \in {db, tx} /\ (db' = db \/ \E s \in Sessions : Commit(s))
    BY <2>1, <2>2, <2>3, <2>4, <2>5 DEF Next, Finished
  <2> QED BY <2>6 DEF StoreInv, TypeInv, TypeOK
<1>2. Later(db, db)
  BY <1>1, LaterReflexive
<1> QED BY <1>1, <1>2 DEF StoreInv

\* The database always goes forward, and its writer holds the lock.
LEMMA StoreCorrect == Spec => []StoreInv
BY StoreInit, StoreStep, PTL DEF Spec

\* What is revoked is never brought back, in any order of registrations,
\* rotations, revocations, failures and commits.
THEOREM RevocationPermanentCorrect == Spec => RevocationPermanent
<1>1. ASSUME StoreInv, [Next]_vars
      PROVE  [/\ Revoked(db) \subseteq Revoked(db')
              /\ Inactive(db) \subseteq Inactive(db')]_db
  <2>1. Later(db, db') /\ db \in Tables /\ db' \in Tables
    BY <1>1, DbForward DEF StoreInv, TypeInv, TypeOK
  <2>2. Revoked(db) \subseteq Revoked(db')
    BY <2>1 DEF Later, Revoked
  <2>3. Inactive(db) \subseteq Inactive(db')
    BY <2>1 DEF Later, Inactive, Issued
  <2> QED BY <2>2, <2>3
<1> QED BY <1>1, StoreCorrect, PTL DEF Spec, RevocationPermanent

\* The recorded expiry of a committed credential never moves back, and stays
\* within that of its token.
THEOREM ExpiryNeverGrowsCorrect == Spec => ExpiryNeverGrows
<1>1. ASSUME StoreInv, StoreInv', [Next]_vars
      PROVE  [\A j \in Issued(db) : /\ db'.cred[j].expires <= db.cred[j].expires
                                    /\ db'.cred[j].expires <= exp'[j]]_db
  <2>1. Later(db, db')
    BY <1>1, DbForward
  <2>2. ASSUME NEW j \in Issued(db) PROVE db'.cred[j].expires <= db.cred[j].expires /\ j \in Issued(db)'
    BY <2>1 DEF Later, Issued
  <2>3. ASSUME NEW j \in Issued(db) PROVE db'.cred[j].expires <= exp'[j]
    BY <1>1, <2>2 DEF StoreInv, IssueInv
  <2> QED BY <2>2, <2>3
<1> QED BY <1>1, StoreCorrect, PTL DEF Spec, ExpiryNeverGrows

-----------------------------------------------------------------------------
(* Sessions move themselves.                                                *)

\* The actions of a session.
Move(s) ==
  \/ s \in Registrations /\ \E a \in Agents : Register(s, a)
  \/ s \in Rotations /\ \E a \in Agents : RotateSelect(s, a)
  \/ s \in Jtis /\ (Sign(s) \/ InsertCred(s) \/ Shorten(s))
  \/ s \in AgentRevocations /\ \E a \in Agents : RevokeSelect(s, a)
  \/ s \in CredRevocations /\ \E j \in Jtis : CredSelect(s, j)
  \/ s \in Revokers /\ (LoadCreds(s) \/ FlushAgent(s) \/ FlushCred(s))
  \/ s \in Auths /\ \E j \in Jtis : Present(s, j)
  \/ s \in Auths /\ (CacheFresh(s) \/ CacheSelect(s) \/ CacheFill(s))
  \/ s \in Auths /\ (Verify(s) \/ LookUp(s) \/ Touch(s))
  \/ Commit(s) \/ Fail(s)

\* What a session knows.
Still(s) ==
  /\ pc'[s] = pc[s] /\ target'[s] = target[s]
  /\ s \in Revokers => loaded'[s] = loaded[s]
  /\ s \in Rotations \cup Auths => late'[s] = late[s]

\* Each step is that of a session, of the cache or of the clock.
LEMMA NextIsMove ==
  ASSUME TypeOK, [Next]_vars
  PROVE  (\E s \in Sessions : Move(s)) \/ CacheAges \/ Tick \/ UNCHANGED vars
<1>1. ASSUME NEW s \in Registrations, NEW a \in Agents, Register(s, a) PROVE \E q \in Sessions : Move(q)
  BY <1>1 DEF Move, Sessions, Jtis
<1>2. ASSUME NEW s \in Rotations, NEW a \in Agents, RotateSelect(s, a) PROVE \E q \in Sessions : Move(q)
  BY <1>2 DEF Move, Sessions, Jtis
<1>3. ASSUME NEW s \in Jtis, Sign(s) \/ InsertCred(s) \/ Shorten(s) PROVE \E q \in Sessions : Move(q)
  BY <1>3 DEF Move, Sessions
<1>4. ASSUME NEW s \in AgentRevocations, NEW a \in Agents, RevokeSelect(s, a)
      PROVE  \E q \in Sessions : Move(q)
  BY <1>4 DEF Move, Sessions, Revokers
<1>5. ASSUME NEW s \in CredRevocations, NEW j \in Jtis, CredSelect(s, j) PROVE \E q \in Sessions : Move(q)
  BY <1>5 DEF Move, Sessions, Revokers
<1>6. ASSUME NEW s \in Revokers, LoadCreds(s) \/ FlushAgent(s) \/ FlushCred(s)
      PROVE  \E q \in Sessions : Move(q)
  BY <1>6 DEF Move, Sessions
<1>7. ASSUME NEW s \in Auths, NEW j \in Jtis, Present(s, j) PROVE \E q \in Sessions : Move(q)
  BY <1>7 DEF Move, Sessions
<1>8. ASSUME NEW s \in Auths, \/ CacheFresh(s) \/ CacheSelect(s) \/ CacheFill(s)
                              \/ Verify(s) \/ LookUp(s) \/ Touch(s)
      PROVE  \E q \in Sessions : Move(q)
  BY <1>8 DEF Move, Sessions
<1>9. ASSUME NEW s \in Sessions, Commit(s) \/ Fail(s) PROVE \E q \in Sessions : Move(q)
  BY <1>9 DEF Move
<1> QED BY <1>1, <1>2, <1>3, <1>4, <1>5, <1>6, <1>7, <1>8, <1>9 DEF Next, Finished

\* The step of a session leaves the others where they are.
LEMMA OthersStill ==
  ASSUME TypeOK, NEW s \in Sessions, Move(s), NEW u \in Sessions \ {s}
  PROVE  Still(u)
<1> USE DEF TypeOK, Still, Goto, Start
<1>1. CASE \E a : Register(s, a) \/ RotateSelect(s, a) \/ RevokeSelect(s, a) \/ Present(s, a)
  BY <1>1 DEF Register, RotateSelect, RevokeSelect, Present
<1>2. CASE \E j : CredSelect(s, j)
  BY <1>2 DEF CredSelect
<1>3. CASE Sign(s) \/ InsertCred(s) \/ Shorten(s) \/ Touch(s)
  BY <1>3 DEF Sign, InsertCred, Shorten, Touch
<1>4. CASE LoadCreds(s) \/ FlushAgent(s) \/ FlushCred(s)
  BY <1>4 DEF LoadCreds, FlushAgent, FlushCred
<1>5. CASE CacheFresh(s) \/ CacheSelect(s) \/ CacheFill(s) \/ Verify(s) \/ LookUp(s)
  BY <1>5 DEF CacheFresh, CacheSelect, CacheFill, Verify, LookUp
<1>6. CASE Commit(s) \/ Fail(s)
  BY <1>6 DEF Commit, Fail
<1> QED BY <1>1, <1>2, <1>3, <1>4, <1>5, <1>6 DEF Move

\* A session either moves in a step or stays as it is.
LEMMA MoveOrStill ==
  ASSUME TypeOK, [Next]_vars, NEW u \in Sessions
  PROVE  Move(u) \/ Still(u)
<1>1. CASE CacheAges \/ Tick \/ UNCHANGED vars
  BY <1>1 DEF CacheAges, Tick, vars, Still
<1> QED BY <1>1, NextIsMove, OthersStill

-----------------------------------------------------------------------------
(* A revoked credential is not accepted.                                    *)

\* A call that began after the revocation gets no further than the database.
LEMMA AuthStep == StoreInv /\ AuthInv /\ [Next]_vars => AuthInv'
<1> SUFFICES ASSUME StoreInv, AuthInv, [Next]_vars, NEW u \in Auths, late'[u]
             PROVE  target'[u] \in Inactive(db)' /\ pc'[u] \notin {"found", "flushed", "done"}
  BY DEF AuthInv
<1>0. TypeOK /\ u \in Sessions /\ u \in Rotations \cup Auths /\ u \notin Jtis /\ u \notin Revokers
  BY CredentialsAssumption DEF StoreInv, TypeInv, Sessions
<1>1. Inactive(db) \subseteq Inactive(db)'
  BY DbForward DEF Later, Inactive, Issued
<1>2. CASE Still(u)
  BY <1>0, <1>1, <1>2 DEF Still, AuthInv
<1>3. ASSUME NEW j \in Jtis, Present(u, j)
      PROVE  target'[u] \in Inactive(db)' /\ pc'[u] \notin {"found", "flushed", "done"}
  <2>1. target'[u] = j /\ pc'[u] = "presented"
    BY <1>0, <1>3 DEF Present, Start, Goto, TypeOK
  <2>2. late'[u] = (j \in Revoked(db) \cup Inactive(db))
    BY <1>0, <1>3 DEF Present, Start
  <2>3. j \notin Revoked(db)
    BY CredentialsAssumption DEF Revoked, Sessions
  <2> QED BY <1>1, <2>1, <2>2, <2>3
<1>4. CASE \/ CacheFresh(u) \/ CacheSelect(u) \/ CacheFill(u)
           \/ Verify(u) \/ LookUp(u) \/ Touch(u) \/ Commit(u) \/ Fail(u)
  <2>1. late' = late /\ target' = target
    BY <1>4 DEF CacheFresh, CacheSelect, CacheFill, Verify, LookUp, Touch, Commit, Fail
  <2>2. target[u] \in Inactive(db) /\ pc[u] \notin {"found", "flushed", "done"}
    BY <2>1 DEF AuthInv
  <2>3. ~db.cred[target[u]].active
    BY <2>2 DEF Inactive
  <2>4. pc'[u] \in {"verifying", "refreshing", "rejected", "looking", "failed"}
    BY <1>0, <1>4, <2>2, <2>3 DEF CacheFresh, CacheSelect, CacheFill, Verify, LookUp, Touch, Commit,
                                  Fail, Goto, TypeOK
  <2> QED BY <1>1, <2>1, <2>2, <2>4
<1>5. Move(u) \/ Still(u)
  BY <1>0, MoveOrStill
<1> QED BY <1>0, <1>2, <1>3, <1>4, <1>5 DEF Move, Jtis, Revokers

\* A call whose credential's revocation had committed when it began is never
\* accepted, whatever the cache holds and however it is refreshed meanwhile.
THEOREM RevokedNeverAcceptedCorrect == Spec => []RevokedNeverAccepted
<1>1. Init => AuthInv
  BY DEF Init, AuthInv
<1>2. AuthInv => RevokedNeverAccepted
  BY DEF AuthInv, RevokedNeverAccepted, Accepted
<1> QED BY <1>1, <1>2, AuthStep, StoreCorrect, PTL DEF Spec

-----------------------------------------------------------------------------
(* Agents and their credentials.                                            *)

\* What others do leaves the tables alone while a session has the lock.
LEMMA LockExcludes ==
  ASSUME StoreInv, NEW s \in Sessions, Move(s), NEW u \in Sessions \ {s}, lock = u
  PROVE  UNCHANGED <<db, tx, lock>>
<1>1. lock \notin {None, s}
  BY CredentialsAssumption
<1>2. pc[s] # "flushed"
  BY DEF StoreInv, LockInv
<1>3. ~Commit(s) /\ \A rows : ~Write(s, rows)
  BY <1>1, <1>2 DEF Commit, Write
<1>4. CASE \E a : Register(s, a)
  BY <1>1, <1>4 DEF Register
<1>5. CASE \E a : RotateSelect(s, a) \/ RevokeSelect(s, a) \/ CredSelect(s, a) \/ Present(s, a)
  BY <1>5 DEF RotateSelect, RevokeSelect, CredSelect, Present
<1>6. ~(InsertCred(s) \/ Shorten(s) \/ FlushAgent(s) \/ FlushCred(s) \/ Touch(s))
  BY <1>3 DEF InsertCred, Shorten, FlushAgent, FlushCred, Touch
<1>7. CASE Sign(s) \/ LoadCreds(s) \/ CacheFresh(s) \/ CacheSelect(s) \/ CacheFill(s)
  BY <1>7 DEF Sign, LoadCreds, CacheFresh, CacheSelect, CacheFill
<1>8. CASE Verify(s) \/ LookUp(s)
  BY <1>8 DEF Verify, LookUp
<1>9. CASE Fail(s)
  BY <1>1, <1>9 DEF Fail, RollbackTx
<1> QED BY <1>3, <1>4, <1>5, <1>6, <1>7, <1>8, <1>9 DEF Move

\* Nobody writes while another session holds the lock.
LEMMA HolderKeeps ==
  ASSUME StoreInv, [Next]_vars, NEW u \in Sessions, lock = u, ~Move(u)
  PROVE  UNCHANGED <<db, tx>> /\ Still(u)
<1>0. TypeOK
  BY DEF StoreInv, TypeInv
<1>1. CacheAges \/ Tick \/ UNCHANGED vars => UNCHANGED <<db, tx>>
  BY DEF CacheAges, Tick, vars
<1>2. ASSUME NEW s \in Sessions, Move(s) PROVE UNCHANGED <<db, tx>>
  BY <1>2, LockExcludes
<1> QED BY <1>0, <1>1, <1>2, NextIsMove, MoveOrStill

\* What Shorten and the revocations write, as far as agents and owners go.
LEMMA ShortenWrites ==
  ASSUME StoreInv, NEW j \in Jtis, Shorten(j)
  PROVE  /\ db' = db /\ tx'.agent = tx.agent
         /\ \A i \in Jtis : /\ tx'.cred[i].agent = tx.cred[i].agent
                            /\ tx'.cred[i].active = tx.cred[i].active
                            /\ tx'.cred[i].expires =
                                 IF i \in OldCreds(j) /\ tx.cred[i].expires > until'[j]
                                   THEN until'[j] ELSE tx.cred[i].expires
<1>1. View(j) = tx
  BY WriterSees DEF Shorten, Write, StoreInv, Sessions
<1>2. tx \in Tables
  BY DEF StoreInv, TypeInv, TypeOK
<1> DEFINE row(i) == IF i \in OldCreds(j) /\ tx.cred[i].expires > until'[j]
                       THEN [tx.cred[i] EXCEPT !.expires = until'[j]] ELSE tx.cred[i]
<1>3. tx' = [tx EXCEPT !.cred = [i \in Jtis |-> row(i)]] /\ db' = db
  BY <1>1 DEF Shorten, Write
<1>4. ASSUME NEW i \in Jtis
      PROVE  /\ row(i).agent = tx.cred[i].agent /\ row(i).active = tx.cred[i].active
             /\ row(i).expires = IF i \in OldCreds(j) /\ tx.cred[i].expires > until'[j]
                                   THEN until'[j] ELSE tx.cred[i].expires
  <2> DEFINE c == tx.cred[i]
  <2>1. c \in [agent : Agents \cup {None}, active : BOOLEAN, expires : Int]
    BY <1>2 DEF Tables
  <2> HIDE DEF c
  <2> QED BY <2>1 DEF c
<1> HIDE DEF row
<1> QED BY <1>2, <1>3, <1>4 DEF Tables

\* What a revocation writes: the agent's state, and no active credential.
LEMMA RevokeWrites ==
  ASSUME StoreInv, NEW s \in Revokers, FlushAgent(s) \/ FlushCred(s)
  PROVE  /\ db' = db
         /\ \A a \in Agents : tx'.agent[a] = IF FlushAgent(s) /\ a = target[s] THEN "revoked"
                                             ELSE tx.agent[a]
         /\ \A i \in Jtis : /\ tx'.cred[i].agent = tx.cred[i].agent
                            /\ tx'.cred[i].active => tx.cred[i].active /\ i \notin loaded[s]
                            /\ tx'.cred[i].expires = tx.cred[i].expires
<1>1. View(s) = tx
  BY WriterSees DEF FlushAgent, FlushCred, Write, StoreInv, Sessions
<1>2. tx \in Tables /\ loaded[s] \in SUBSET Jtis
  BY DEF StoreInv, TypeInv, TypeOK
<1> DEFINE creds == Deactivate(tx.cred, loaded[s])
<1>3. \/ FlushAgent(s) /\ tx' = [tx EXCEPT !.agent[target[s]] = "revoked", !.cred = creds]
      \/ ~FlushAgent(s) /\ tx' = [tx EXCEPT !.cred = creds]
  <2>1. CASE FlushAgent(s)
    BY <1>1, <2>1 DEF FlushAgent, Write
  <2>2. CASE FlushCred(s)
    BY CredentialsAssumption, <1>1, <2>2 DEF FlushAgent, FlushCred, Write
  <2> QED BY <2>1, <2>2
<1>4. ASSUME NEW i \in Jtis
      PROVE  /\ creds[i].agent = tx.cred[i].agent
             /\ creds[i].active => tx.cred[i].active /\ i \notin loaded[s]
             /\ creds[i].expires = tx.cred[i].expires
  <2> DEFINE c == tx.cred[i]
  <2>1. c \in [agent : Agents \cup {None}, active : BOOLEAN, expires : Int]
    BY <1>2 DEF Tables
  <2>2. creds[i] = IF i \in loaded[s] THEN [c EXCEPT !.active = FALSE] ELSE c
    BY DEF Deactivate
  <2> HIDE DEF c, creds
  <2>3. creds[i].agent = c.agent /\ creds[i].expires = c.expires
    BY <2>1, <2>2
  <2>4. creds[i].active => c.active /\ i \notin loaded[s]
    BY <2>1, <2>2
  <2> QED BY <2>3, <2>4 DEF c
<1> HIDE DEF creds
<1>5. CASE ~FlushAgent(s) /\ tx' = [tx EXCEPT !.cred = creds]
  BY <1>2, <1>4, <1>5 DEF Tables, FlushCred
<1>6. CASE FlushAgent(s) /\ tx' = [tx EXCEPT !.agent[target[s]] = "revoked", !.cred = creds]
  BY <1>2, <1>4, <1>6 DEF Tables, FlushAgent
<1> QED BY <1>3, <1>5, <1>6

\* What a registration and an insert write.
LEMMA RegisterWrites ==
  ASSUME StoreInv, NEW s \in Registrations, NEW a \in Agents, Register(s, a),
         db.agent[a] = "absent"
  PROVE  /\ db' = db /\ tx = db /\ lock' = s /\ target'[s] = a /\ pc'[s] = "issuing"
         /\ tx'.cred = tx.cred
         /\ \A b \in Agents : tx'.agent[b] = IF b = a THEN "active" ELSE tx.agent[b]
<1>1. tx \in Tables /\ s \in Sessions /\ tx = db
  BY DEF StoreInv, TypeInv, TypeOK, LockInv, Sessions, Jtis, Register
<1> QED BY <1>1 DEF Register, Write, Start, Goto, Tables, StoreInv, TypeInv, TypeOK

\* What an issue writes: one credential that was not there.
LEMMA InsertWrites ==
  ASSUME StoreInv, NEW j \in Jtis, InsertCred(j)
  PROVE  /\ db' = db /\ tx'.agent = tx.agent
         /\ pc[j] = "signed" /\ target[j] \in Agents /\ j \notin Issued(tx)
         /\ \A i \in Jtis \ {j} : tx'.cred[i] = tx.cred[i]
         /\ tx'.cred[j] = [agent |-> target[j], active |-> TRUE, expires |-> exp[j]]
<1>1. tx \in Tables /\ j \in Sessions
  BY DEF StoreInv, TypeInv, TypeOK, Sessions
<1>2. View(j) = tx
  BY <1>1, WriterSees DEF InsertCred, Write, StoreInv
<1>3. pc[j] = "signed" /\ target[j] \in Agents
  BY <1>1 DEF InsertCred, StoreInv, TypeInv, TargetGiven
<1>4. j \notin Issued(tx)
  BY <1>3 DEF StoreInv, IssueInv
<1> QED BY <1>1, <1>2, <1>3, <1>4 DEF InsertCred, Write, Tables

\* What the other actions do to what the writer sees.
LEMMA OtherWrites ==
  ASSUME StoreInv, [Next]_vars
  PROVE  \/ tx' \in {tx, db}
         \/ \E s \in Registrations, a \in Agents : Register(s, a) /\ db.agent[a] = "absent"
         \/ \E j \in Jtis : InsertCred(j) \/ Shorten(j)
         \/ \E s \in Revokers : FlushAgent(s) \/ FlushCred(s)
<1>1. \A s, x : RotateSelect(s, x) \/ RevokeSelect(s, x) \/ CredSelect(s, x) \/ Present(s, x)
                => tx' = tx
  BY DEF RotateSelect, RevokeSelect, CredSelect, Present
<1>2. \A s : Sign(s) \/ LoadCreds(s) \/ Commit(s) => tx' = tx
  BY DEF Sign, LoadCreds, Commit, CommitTx
<1>3. \A s : Fail(s) => tx' \in {tx, db}
  BY DEF Fail, RollbackTx
<1>4. \A s : Touch(s) => tx' \in {tx, db}
  BY DEF Touch, Write, View
<1>5. \A s : CacheFresh(s) \/ CacheSelect(s) \/ CacheFill(s) \/ Verify(s) \/ LookUp(s)
             => tx' = tx
  BY DEF CacheFresh, CacheSelect, CacheFill, Verify, LookUp
<1>6. CacheAges \/ Tick \/ UNCHANGED vars => tx' = tx
  BY DEF CacheAges, Tick, vars
<1>7. \A s, a : Register(s, a) => db.agent[a] = "absent" \/ tx' = tx
  BY DEF Register
<1> QED BY <1>1, <1>2, <1>3, <1>4, <1>5, <1>6, <1>7 DEF Next, Finished

\* No credential comes without its agent, nor an agent's first before it.
LEMMA AgentStep == StoreInv /\ AgentInv /\ [Next]_vars => AgentInv'
<1> SUFFICES ASSUME StoreInv, AgentInv, [Next]_vars PROVE AgentInv'
  OBVIOUS
<1>0. /\ StoreInv' /\ TypeOK /\ TypeOK' /\ LockInv /\ LockInv'
      /\ Later(db, db') /\ db' \in {db, tx}
  BY StoreStep, DbForward DEF StoreInv, TypeInv
<1>1. \A j \in Issued(db)' : db'.agent[db'.cred[j].agent] # "absent"
  BY <1>0 DEF AgentInv, Issued
<1>2. \A j \in Issued(tx)' : tx'.agent[tx'.cred[j].agent] # "absent"
  <2>1. CASE tx' \in {tx, db}
    BY <2>1 DEF AgentInv, Issued
  <2>2. ASSUME NEW s \in Registrations, NEW a \in Agents, Register(s, a), db.agent[a] = "absent"
        PROVE  \A j \in Issued(tx)' : tx'.agent[tx'.cred[j].agent] # "absent"
    <3>1. \A j \in Issued(tx) : tx.cred[j].agent \in Agents
      BY <1>0 DEF TypeOK, Tables, Issued
    <3> QED BY <2>2, <3>1, RegisterWrites DEF AgentInv, Issued
  <2>3. ASSUME NEW j \in Jtis, InsertCred(j)
        PROVE  \A i \in Issued(tx)' : tx'.agent[tx'.cred[i].agent] # "absent"
    <3>1. tx.agent[target[j]] # "absent"
      <4>1. CASE j \in Registrations
        BY <2>3, <4>1, InsertWrites DEF AgentInv
      <4>2. CASE j \in Rotations
        BY <2>3, <4>2, InsertWrites DEF AgentInv, StoreInv, Later
      <4> QED BY <4>1, <4>2 DEF Jtis
    <3>2. /\ tx'.agent = tx.agent /\ \A i \in Jtis \ {j} : tx'.cred[i] = tx.cred[i]
          /\ tx'.cred[j] = [agent |-> target[j], active |-> TRUE, expires |-> exp[j]]
      BY <2>3, InsertWrites, Zenon
    <3>3. ASSUME NEW i \in Issued(tx)' PROVE tx'.agent[tx'.cred[i].agent] # "absent"
      <4>1. CASE i = j
        BY <3>1, <3>2, <4>1
      <4>2. CASE i # j
        BY <3>2, <4>2 DEF AgentInv, Issued
      <4> QED BY <4>1, <4>2
    <3> QED BY <3>3
  <2>4. ASSUME NEW j \in Jtis, Shorten(j)
        PROVE  \A i \in Issued(tx)' : tx'.agent[tx'.cred[i].agent] # "absent"
    BY <2>4, ShortenWrites DEF AgentInv, Issued
  <2>5. ASSUME NEW s \in Revokers, FlushAgent(s) \/ FlushCred(s)
        PROVE  \A i \in Issued(tx)' : tx'.agent[tx'.cred[i].agent] # "absent"
    <3>1. \A i \in Issued(tx) : tx.cred[i].agent \in Agents
      BY <1>0 DEF TypeOK, Tables, Issued
    <3> QED BY <2>5, <3>1, RevokeWrites DEF AgentInv, Issued
  <2> QED BY <2>1, <2>2, <2>3, <2>4, <2>5, OtherWrites
<1>3. ASSUME NEW j \in Registrations, pc'[j] \in {"issuing", "signed", "shortening", "flushed"}
      PROVE  /\ db'.agent[target'[j]] = "absent" /\ tx'.agent[target'[j]] = "active"
             /\ pc'[j] \in {"issuing", "signed"} => \A i \in Jtis : tx'.cred[i].agent # target'[j]
  <2>0. j \in Jtis /\ j \in Sessions /\ j \notin Rotations \cup Revokers \cup Auths
    BY CredentialsAssumption DEF Sessions, Jtis
  <2>1. ASSUME NEW a \in Agents, Register(j, a)
        PROVE  /\ db'.agent[target'[j]] = "absent" /\ tx'.agent[target'[j]] = "active"
               /\ pc'[j] \in {"issuing", "signed"} => \A i \in Jtis : tx'.cred[i].agent # target'[j]
    <3>1. db.agent[a] = "absent"
      BY <1>0, <1>3, <2>0, <2>1 DEF Register, Goto, TypeOK
    <3>2. \A i \in Jtis : db.cred[i].agent # a
      BY <3>1, CredentialsAssumption DEF AgentInv, Issued
    <3> QED BY <2>1, <3>1, <3>2, RegisterWrites
  <2>2. CASE Sign(j)
    BY <1>0, <2>0, <2>2 DEF Sign, Goto, TypeOK, AgentInv
  <2>3. CASE InsertCred(j)
    <3>1. target' = target /\ pc'[j] = "flushed" /\ pc[j] = "signed"
      BY <1>0, <2>0, <2>3 DEF InsertCred, Goto, TypeOK
    <3>2. db' = db /\ tx'.agent = tx.agent
      BY <2>0, <2>3, InsertWrites
    <3> QED BY <2>0, <3>1, <3>2 DEF AgentInv
  <2>4. CASE Shorten(j)
    <3>1. target' = target /\ pc'[j] = "flushed" /\ pc[j] = "shortening" /\ target[j] \in Agents
      BY <1>0, <2>0, <2>4 DEF Shorten, Goto, TypeOK, StoreInv, TypeInv, TargetGiven
    <3> QED BY <2>0, <2>4, <3>1, ShortenWrites DEF AgentInv
  <2>5. CASE Commit(j) \/ Fail(j)
    BY <1>0, <1>3, <2>0, <2>5 DEF Commit, Fail, Goto, TypeOK
  <2>6. CASE ~Move(j)
    <3>1. Still(j) /\ lock = j
      BY <1>0, <1>3, <2>0, <2>6, MoveOrStill DEF Still, LockInv
    <3>2. UNCHANGED <<db, tx>>
      BY <2>0, <2>6, <3>1, HolderKeeps
    <3> QED BY <1>3, <3>1, <3>2 DEF Still, AgentInv
  <2> QED BY <2>0, <2>1, <2>2, <2>3, <2>4, <2>5, <2>6 DEF Move, Revokers
<1>4. ASSUME NEW j \in Rotations, pc'[j] \in {"issuing", "signed"}
      PROVE  db'.agent[target'[j]] # "absent"
  <2>0. j \in Jtis /\ j \in Sessions /\ j \notin Registrations \cup Revokers \cup Auths
    BY CredentialsAssumption DEF Sessions, Jtis
  <2>1. target'[j] \in Agents
    BY <1>0, <1>4, <2>0 DEF StoreInv, TypeInv, TargetGiven
  <2>2. db.agent[target'[j]] # "absent"
    <3>1. ASSUME NEW a \in Agents, RotateSelect(j, a) PROVE db.agent[target'[j]] # "absent"
      BY <1>0, <1>4, <2>0, <3>1 DEF RotateSelect, Start, Goto, TypeOK
    <3>2. CASE Sign(j)
      BY <1>0, <1>4, <2>0, <3>2 DEF Sign, Goto, TypeOK, AgentInv
    <3>3. CASE InsertCred(j) \/ Shorten(j) \/ Commit(j) \/ Fail(j)
      BY <1>0, <1>4, <2>0, <3>3 DEF InsertCred, Shorten, Commit, Fail, Goto, TypeOK
    <3>4. CASE Still(j)
      BY <1>4, <3>4 DEF Still, AgentInv
    <3> QED BY <1>0, <2>0, <3>1, <3>2, <3>3, <3>4, MoveOrStill DEF Move, Revokers
  <2> QED BY <1>0, <2>1, <2>2 DEF Later
<1> QED BY <1>1, <1>2, <1>3, <1>4 DEF AgentInv

\* What is issued and not committed stays that of the session with the lock.
LEMMA NewStep == StoreInv /\ NewInv /\ [Next]_vars => NewInv'
<1> SUFFICES ASSUME StoreInv, NewInv, [Next]_vars, NEW j \in Issued(tx)' \ Issued(db)'
             PROVE  pc'[j] \in {"shortening", "flushed"} /\ tx'.cred[j].agent = target'[j]
  BY DEF NewInv
<1>0. /\ TypeOK /\ LockInv /\ Issued(db) \subseteq Issued(db)' /\ Issued(db) \subseteq Issued(tx)
      /\ j \in Jtis /\ j \in Sessions /\ j \notin Revokers \cup Auths
  BY CredentialsAssumption, DbForward DEF StoreInv, TypeInv, Later, Issued, Sessions
<1>1. CASE j \notin Issued(tx)
  <2>1. tx' \notin {tx, db}
    BY <1>0, <1>1 DEF Issued
  <2>2. ~ \E s \in Registrations, a \in Agents : Register(s, a) /\ db.agent[a] = "absent"
    BY <1>1, RegisterWrites DEF Issued
  <2>3. ~ \E i \in Jtis : Shorten(i)
    BY <1>0, <1>1, ShortenWrites DEF Issued
  <2>4. ASSUME NEW s \in Revokers, FlushAgent(s) \/ FlushCred(s) PROVE FALSE
    <3>1. tx'.cred[j].agent = tx.cred[j].agent
      BY <1>0, <2>4, RevokeWrites
    <3> QED BY <1>0, <1>1, <3>1 DEF Issued
  <2>5. PICK i \in Jtis : InsertCred(i)
    BY <2>1, <2>2, <2>3, <2>4, OtherWrites
  <2>6. i = j
    <3>1. i # j => tx'.cred[j] = tx.cred[j]
      BY <1>0, <2>5, InsertWrites
    <3> QED BY <1>0, <1>1, <3>1 DEF Issued
  <2>7. pc'[j] \in {"shortening", "flushed"} /\ target' = target
    BY <1>0, <2>5, <2>6 DEF InsertCred, Goto, TypeOK
  <2>8. tx'.cred[j] = [agent |-> target[j], active |-> TRUE, expires |-> exp[j]]
    BY <2>5, <2>6, InsertWrites, Zenon
  <2> QED BY <2>7, <2>8
<1>2. CASE j \in Issued(tx)
  <2>1. /\ pc[j] \in {"shortening", "flushed"} /\ tx.cred[j].agent = target[j] /\ lock = j
        /\ j \notin Issued(db)
    BY <1>0, <1>2 DEF NewInv, LockInv
  <2>2. CASE ~Move(j)
    BY <1>0, <2>1, <2>2, HolderKeeps DEF Still
  <2>3. CASE Shorten(j)
    <3>1. pc'[j] = "flushed" /\ target' = target
      BY <1>0, <2>3 DEF Shorten, Goto, TypeOK
    <3> QED BY <1>0, <2>1, <2>3, <3>1, ShortenWrites
  <2>4. CASE Commit(j)
    BY <2>1, <2>4 DEF Commit, CommitTx, View, Issued
  <2>5. CASE Fail(j)
    BY <2>1, <2>5 DEF Fail, RollbackTx, Issued
  <2>6. CASE \/ \E a \in Agents : Register(j, a) \/ RotateSelect(j, a)
             \/ Sign(j) \/ InsertCred(j)
    BY <2>1, <2>6 DEF Register, RotateSelect, Start, Sign, InsertCred
  <2> QED BY <1>0, <2>2, <2>3, <2>4, <2>5, <2>6 DEF Move, Revokers
<1> QED BY <1>1, <1>2

\* The facts about agents and new credentials hold throughout.
LEMMA AgentCorrect == Spec => [](StoreInv /\ AgentInv /\ NewInv)
<1>1. Init => AgentInv /\ NewInv
  BY CredentialsAssumption DEF Init, AgentInv, NewInv, Issued, NoCred, Sessions, Jtis
<1>2. StoreInv /\ AgentInv /\ NewInv /\ [Next]_vars => (AgentInv /\ NewInv)'
  BY AgentStep, NewStep
<1> QED BY <1>1, <1>2, StoreCorrect, PTL DEF Spec

-----------------------------------------------------------------------------
(* What a revoked agent keeps.                                              *)

\* Only a rotation that had begun before leaves a revoked agent a credential.
LEMMA StragglerStep ==
  StoreInv /\ AgentInv /\ NewInv /\ StragglerInv /\ [Next]_vars => StragglerInv'
<1> SUFFICES ASSUME StoreInv, AgentInv, NewInv, StragglerInv, [Next]_vars PROVE StragglerInv'
  OBVIOUS
<1>0. /\ StoreInv' /\ TypeOK /\ TypeOK' /\ LockInv
      /\ Later(db, db') /\ db' \in {db, tx}
  BY StoreStep, DbForward DEF StoreInv, TypeInv
<1>1. ASSUME NEW j \in Rotations, late'[j] PROVE pc'[j] = "rejected"
  <2>0. j \in Jtis /\ j \in Sessions /\ j \notin Registrations \cup Revokers \cup Auths
    BY CredentialsAssumption DEF Sessions, Jtis
  <2>1. ASSUME NEW a \in Agents, RotateSelect(j, a) PROVE pc'[j] = "rejected"
    <3>1. late'[j] = (a \in Revoked(db) \cup Inactive(db))
      BY <2>1 DEF RotateSelect, Start
    <3>2. a \notin Inactive(db)
      BY CredentialsAssumption DEF Inactive, Issued, Sessions
    <3>3. db.agent[a] = "revoked"
      BY <1>1, <3>1, <3>2 DEF Revoked
    <3> QED BY <1>0, <2>0, <2>1, <3>3 DEF RotateSelect, Goto, TypeOK
  <2>2. CASE Sign(j) \/ InsertCred(j) \/ Shorten(j) \/ Commit(j) \/ Fail(j)
    <3>1. pc[j] # "rejected" /\ late' = late
      BY <2>2 DEF Sign, InsertCred, Shorten, Commit, Fail, Ends
    <3> QED BY <1>1, <3>1 DEF StragglerInv
  <2>3. CASE Still(j)
    BY <1>1, <2>3 DEF Still, StragglerInv
  <2> QED BY <1>0, <2>0, <2>1, <2>2, <2>3, MoveOrStill DEF Move, Revokers
<1>2. ASSUME NEW s \in AgentRevocations
      PROVE  /\ pc'[s] \in {"selected", "flushing"} => db'.agent[target'[s]] # "absent"
             /\ pc'[s] = "flushing" =>
                  \A j \in Registrations : j \in ActiveOf(db', target'[s]) => j \in loaded'[s]
  <2>0. /\ s \in Sessions /\ s \in Revokers
        /\ s \notin Jtis \cup Registrations \cup Rotations \cup CredRevocations \cup Auths
    BY CredentialsAssumption DEF Sessions, Jtis, Revokers
  <2>1. ASSUME NEW a \in Agents, RevokeSelect(s, a)
        PROVE  pc'[s] # "flushing" /\ (pc'[s] = "selected" => db'.agent[target'[s]] # "absent")
    BY <1>0, <2>0, <2>1 DEF RevokeSelect, Start, Goto, TypeOK
  <2>2. CASE LoadCreds(s)
    <3>1. pc[s] = "selected" /\ target' = target /\ db' = db /\ loaded'[s] = ActiveOf(db, target[s])
      BY <1>0, <2>0, <2>2 DEF LoadCreds, TypeOK
    <3> QED BY <3>1 DEF StragglerInv
  <2>3. CASE FlushAgent(s) \/ FlushCred(s) \/ Commit(s) \/ Fail(s)
    BY <1>0, <2>0, <2>3 DEF FlushAgent, FlushCred, Commit, Fail, Goto, TypeOK
  <2>4. CASE Still(s) /\ pc[s] \in {"selected", "flushing"}
    <3>1. target'[s] = target[s] /\ target[s] \in Agents /\ db.agent[target[s]] # "absent"
      BY <2>0, <2>4 DEF Still, StoreInv, TypeInv, TargetGiven, StragglerInv
    <3>2. db'.agent[target'[s]] # "absent"
      BY <1>0, <3>1 DEF Later
    <3>3. ASSUME NEW j \in Registrations, j \in ActiveOf(db', target[s])
          PROVE  j \in ActiveOf(db, target[s])
      <4>1. CASE j \in Issued(db)
        BY <1>0, <3>3, <4>1 DEF Later, ActiveOf, Issued
      <4>2. CASE j \notin Issued(db)
        <5>1. j \in Issued(tx) \ Issued(db) /\ tx.cred[j].agent = target[s]
          BY <1>0, <3>3, <4>2 DEF ActiveOf, Issued
        <5>2. pc[j] \in {"shortening", "flushed"} /\ target[j] = target[s]
          BY <5>1 DEF NewInv
        <5>3. db.agent[target[j]] = "absent"
          BY <5>2 DEF AgentInv
        <5> QED BY <3>1, <5>2, <5>3
      <4> QED BY <4>1, <4>2
    <3> QED BY <2>0, <2>4, <3>1, <3>2, <3>3 DEF Still, StragglerInv
  <2>5. CASE Still(s) /\ pc[s] \notin {"selected", "flushing"}
    BY <2>5 DEF Still
  <2> QED BY <1>0, <2>0, <2>1, <2>2, <2>3, <2>4, <2>5, MoveOrStill DEF Move
<1>3. \A a \in Revoked(db)' : ActiveOf(db', a) \subseteq Rotations
  BY <1>0 DEF StragglerInv, Revoked, ActiveOf
<1>4. ASSUME NEW a \in Revoked(tx)', NEW j \in ActiveOf(tx', a) PROVE j \in Rotations
  <2>0. a \in Agents /\ j \in Jtis /\ tx'.agent[a] = "revoked" /\ tx'.cred[j].agent = a
        /\ tx'.cred[j].active /\ a # None
    BY CredentialsAssumption DEF Revoked, ActiveOf, Issued
  <2>1. CASE tx' \in {tx, db}
    BY <2>0, <2>1, CredentialsAssumption DEF StragglerInv, Revoked, ActiveOf, Issued
  <2>2. CASE a \in Revoked(tx) /\ j \in ActiveOf(tx, a)
    BY <2>2 DEF StragglerInv
  <2>3. ASSUME NEW s \in Registrations, NEW b \in Agents, Register(s, b), db.agent[b] = "absent"
        PROVE  j \in Rotations
    BY <2>0, <2>2, <2>3, RegisterWrites DEF Revoked, ActiveOf, Issued
  <2>4. ASSUME NEW i \in Jtis, InsertCred(i) PROVE j \in Rotations
    <3>1. tx'.agent = tx.agent /\ \A k \in Jtis \ {i} : tx'.cred[k] = tx.cred[k]
      BY <2>4, InsertWrites
    <3>2. tx'.cred[i] = [agent |-> target[i], active |-> TRUE, expires |-> exp[i]] /\ pc[i] = "signed"
      BY <2>4, InsertWrites, Zenon
    <3>3. CASE i # j
      BY <2>0, <2>2, <3>1, <3>3 DEF Revoked, ActiveOf, Issued
    <3>4. CASE i = j
      <4>1. tx.agent[target[j]] = "revoked"
        BY <2>0, <3>1, <3>2, <3>4
      <4> QED BY <2>0, <3>2, <3>4, <4>1 DEF AgentInv, Jtis
    <3> QED BY <3>3, <3>4
  <2>5. ASSUME NEW i \in Jtis, Shorten(i) PROVE j \in Rotations
    BY <2>0, <2>2, <2>5, ShortenWrites DEF Revoked, ActiveOf, Issued
  <2>6. ASSUME NEW s \in Revokers, FlushAgent(s) \/ FlushCred(s) PROVE j \in Rotations
    <3>1. j \in ActiveOf(tx, a) /\ j \notin loaded[s]
      BY <2>0, <2>6, RevokeWrites DEF ActiveOf, Issued
    <3>2. CASE a \in Revoked(tx)
      BY <2>2, <3>1, <3>2
    <3>3. CASE a \notin Revoked(tx)
      <4>1. FlushAgent(s) /\ a = target[s]
        BY <2>0, <2>6, <3>3, RevokeWrites DEF Revoked
      <4>2. lock # s /\ pc[s] = "flushing" /\ lock \in {None, s} /\ s \in AgentRevocations
        BY <4>1, CredentialsAssumption DEF FlushAgent, Write, StoreInv, LockInv, Sessions
      <4>3. tx = db
        BY <4>2 DEF StoreInv, LockInv
      <4>4. j \notin Registrations
        BY <3>1, <4>1, <4>2, <4>3 DEF StragglerInv
      <4> QED BY <2>0, <4>4 DEF Jtis
    <3> QED BY <3>2, <3>3
  <2> QED BY <2>1, <2>3, <2>4, <2>5, <2>6, OtherWrites
<1>5. \A a \in Revoked(tx)' : ActiveOf(tx', a) \subseteq Rotations
  BY <1>4
<1> QED BY <1>1, <1>2, <1>3, <1>5 DEF StragglerInv

\* A revoked agent keeps no active credential but those of rotations that had
\* looked at it before the revocation committed.
THEOREM StragglersOnlyCorrect == Spec => []StragglersOnly
<1>1. Init => StragglerInv
  BY CredentialsAssumption
     DEF Init, StragglerInv, ActiveOf, Issued, NoCred, Revoked, Sessions, Revokers, Jtis
<1>2. StoreInv /\ StragglerInv => StragglersOnly
  BY DEF StoreInv, IssueInv, StragglerInv, StragglersOnly, ActiveOf
<1> QED BY <1>1, <1>2, StragglerStep, AgentCorrect, PTL DEF Spec

-----------------------------------------------------------------------------
(* One credential after the other.                                          *)

\* The order is kept when no credential comes or goes.
LEMMA OrderKept ==
  ASSUME NEW d, NEW e, NEW old, NEW new, InOrder(d, old), Issued(e) = Issued(d),
         \A j \in Issued(d) : new[j] = old[j]
  PROVE  InOrder(e, new)
BY DEF InOrder, Before

\* The credentials of e are those of d, none of them revived or lengthened, and
\* what is recorded of them is the same.
Shrinks(d, e, old, new, ends, ends2, open, open2) ==
  \A j \in Issued(e) : /\ j \in Issued(d) /\ e.cred[j].agent = d.cred[j].agent
                       /\ e.cred[j].active => d.cred[j].active
                       /\ e.cred[j].expires <= d.cred[j].expires
                       /\ new[j] = old[j] /\ ends2[j] = ends[j]
                       /\ j \in open => j \in open2

\* Then old credentials stay cut short.
LEMMA CutKept ==
  ASSUME NEW d \in Tables, NEW e \in Tables, NEW old, NEW new,
         NEW ends \in [Jtis -> Int], NEW ends2 \in [Jtis -> Int], NEW open, NEW open2,
         CutShort(d, old, ends, open), Shrinks(d, e, old, new, ends, ends2, open, open2)
  PROVE  CutShort(e, new, ends2, open2)
<1> SUFFICES ASSUME NEW a \in Agents, NEW i \in ActiveOf(e, a), NEW j \in ActiveOf(e, a),
                    Before(new, i, j)
             PROVE  j \in Rotations /\ (j \in open2 \/ e.cred[i].expires <= ends2[j])
  BY DEF CutShort
<1>1. i \in Issued(e) /\ j \in Issued(e) /\ i \in ActiveOf(d, a) /\ j \in ActiveOf(d, a)
  BY DEF ActiveOf, Shrinks
<1>2. i \in Jtis /\ j \in Jtis
  BY DEF ActiveOf, Issued
<1>3. Before(old, i, j)
  BY <1>1 DEF Before, Shrinks
<1>4. j \in Rotations /\ (j \in open \/ d.cred[i].expires <= ends[j])
  BY <1>1, <1>3 DEF CutShort
<1>5. /\ d.cred[i].expires \in Int /\ e.cred[i].expires \in Int
      /\ ends[j] \in Int /\ ends2[j] \in Int
  BY <1>2 DEF Tables
<1>6. e.cred[i].expires <= d.cred[i].expires /\ ends2[j] = ends[j] /\ (j \in open => j \in open2)
  BY <1>1 DEF Shrinks
<1> QED BY <1>4, <1>5, <1>6

\* Two credentials are not before each other.
LEMMA BeforeItself == ASSUME NEW old, NEW j PROVE ~Before(old, j, j)
BY DEF Before

\* A credential that is issued comes after all there are, and the first of an
\* agent has none to shorten.
LEMMA SupersedeInsert ==
  ASSUME StoreInv, StoreInv', AgentInv, SupersedeInv, NEW k \in Jtis, InsertCred(k)
  PROVE  SupersedeInv'
<1>0. /\ TypeOK /\ TypeOK' /\ LockInv /\ tx \in Tables /\ tx' \in Tables /\ db \in Tables
      /\ until \in [Jtis -> Int] /\ older \in [Jtis -> SUBSET Jtis]
      /\ k \in Sessions /\ lock \in {None, k}
  BY DEF StoreInv, TypeInv, TypeOK, InsertCred, Write, Sessions
<1>1. /\ db' = db /\ until' = until /\ target' = target /\ pc[k] = "signed"
      /\ \A i \in Jtis \ {k} : tx'.cred[i] = tx.cred[i]
      /\ k \notin Issued(tx) /\ k \in Jtis /\ target[k] \in Agents
  BY InsertWrites DEF InsertCred
<1>2. tx'.cred[k] = [agent |-> target[k], active |-> TRUE, expires |-> exp[k]]
  BY InsertWrites, Zenon
<1>3. older'[k] = Issued(tx) /\ \A i \in Jtis \ {k} : older'[i] = older[i]
  BY <1>0, WriterSees DEF InsertCred
<1>4. Issued(tx') = Issued(tx) \cup {k}
  BY <1>1, <1>2, CredentialsAssumption DEF Issued
<1>5. /\ pc'[k] = IF k \in Rotations THEN "shortening" ELSE "flushed"
      /\ \A q \in Jtis \ {k} : pc'[q] = pc[q]
  BY <1>0 DEF InsertCred, Goto, TypeOK, Sessions
<1>6. Open = {}
  BY <1>0, <1>1, CredentialsAssumption DEF Open, LockInv, Sessions
<1>7. Open' = IF k \in Rotations THEN {k} ELSE {}
  BY <1>1, <1>5, <1>6 DEF Open
<1>8. k \notin Issued(db)
  BY <1>1 DEF StoreInv, Later, Issued
<1>9. Issued(tx) \subseteq Jtis
  BY DEF Issued
<1>10. InOrder(tx', older')
  <2>1. ASSUME NEW i \in Issued(tx') PROVE older'[i] \subseteq Issued(tx') \ {i}
    BY <1>1, <1>3, <1>4, <1>9, <2>1 DEF SupersedeInv, InOrder
  <2>2. ASSUME NEW i \in Issued(tx) PROVE Before(older', i, k)
    <3>1. older[i] \subseteq Issued(tx) /\ older'[i] = older[i] /\ i # k
      BY <1>1, <1>3, <1>9 DEF SupersedeInv, InOrder
    <3> QED BY <1>1, <1>3, <3>1 DEF Before
  <2>3. ASSUME NEW i \in Issued(tx'), NEW j \in Issued(tx')
        PROVE  i = j \/ Before(older', i, j) \/ Before(older', j, i)
    <3>1. CASE i = k \/ j = k
      BY <1>4, <2>2, <3>1
    <3>2. CASE i # k /\ j # k
      <4>1. i \in Issued(tx) /\ j \in Issued(tx)
        BY <1>4, <3>2
      <4>2. i = j \/ Before(older, i, j) \/ Before(older, j, i)
        BY <4>1 DEF SupersedeInv, InOrder
      <4> QED BY <1>3, <1>9, <3>2, <4>1, <4>2 DEF Before
    <3> QED BY <3>1, <3>2
  <2> QED BY <2>1, <2>3 DEF InOrder
<1>11. CutShort(tx', older', until', Open')
  <2> SUFFICES ASSUME NEW a \in Agents, NEW i \in ActiveOf(tx', a), NEW j \in ActiveOf(tx', a),
                      Before(older', i, j)
               PROVE  j \in Rotations /\ (j \in Open' \/ tx'.cred[i].expires <= until'[j])
    BY DEF CutShort
  <2>0. i \in Jtis /\ j \in Jtis /\ i # j
    BY BeforeItself DEF ActiveOf, Issued
  <2>1. CASE j = k
    <3>1. a = target[k] /\ i # k /\ tx.cred[i].agent = a
      BY <1>1, <1>2, <2>0, <2>1 DEF ActiveOf
    <3>2. k \notin Registrations
      BY <1>1, <2>0, <3>1 DEF AgentInv
    <3> QED BY <1>7, <2>1, <3>2 DEF Jtis
  <2>2. CASE i = k
    <3>1. j \in Issued(tx) /\ older'[j] = older[j]
      BY <1>1, <1>3, <2>0, <2>2 DEF ActiveOf, Issued
    <3>2. k \notin older[j]
      BY <1>1, <3>1 DEF SupersedeInv, InOrder
    <3> QED BY <2>2, <3>1, <3>2 DEF Before
  <2>3. CASE i # k /\ j # k
    <3>1. i \in ActiveOf(tx, a) /\ j \in ActiveOf(tx, a) /\ Before(older, i, j)
      BY <1>1, <1>3, <2>0, <2>3 DEF ActiveOf, Issued, Before
    <3>2. j \in Rotations /\ (j \in Open \/ tx.cred[i].expires <= until[j])
      BY <3>1 DEF SupersedeInv, CutShort
    <3> QED BY <1>1, <1>6, <2>0, <2>3, <3>2
  <2> QED BY <2>1, <2>2, <2>3
<1>12. \A j \in Open' : tx'.cred[j].agent = target'[j]
  BY <1>1, <1>2, <1>7
<1>13. InOrder(db', older') /\ CutShort(db', older', until', {})
  <2>1. \A j \in Issued(db) : older'[j] = older[j]
    BY <1>3, <1>8 DEF Issued
  <2>2. \A j \in Issued(db) : db.cred[j].expires <= db.cred[j].expires
    BY <1>0 DEF Tables, Issued
  <2>3. InOrder(db, older')
    BY <2>1, OrderKept DEF SupersedeInv
  <2>4. CutShort(db, older', until, {})
    <3>1. Shrinks(db, db, older, older', until, until, {}, {})
      BY <2>1, <2>2 DEF Shrinks
    <3> QED BY <1>0, <3>1, CutKept DEF SupersedeInv
  <2> QED BY <1>1, <2>3, <2>4
<1> QED BY <1>10, <1>11, <1>12, <1>13 DEF SupersedeInv

\* A rotation cuts the others of its agent short, when its overlap is known.
LEMMA SupersedeShorten ==
  ASSUME StoreInv, StoreInv', SupersedeInv, NEW k \in Jtis, Shorten(k)
  PROVE  SupersedeInv'
<1>0. /\ TypeOK /\ TypeOK' /\ LockInv /\ tx \in Tables /\ tx' \in Tables /\ db \in Tables
      /\ until \in [Jtis -> Int] /\ until' \in [Jtis -> Int] /\ k \in Sessions
      /\ pc[k] = "shortening" /\ lock = k /\ older' = older /\ target' = target
  BY DEF StoreInv, TypeInv, TypeOK, LockInv, Shorten, Sessions
<1>1. /\ db' = db
      /\ \A q \in Jtis : /\ tx'.cred[q].agent = tx.cred[q].agent
                         /\ tx'.cred[q].active = tx.cred[q].active
                         /\ tx'.cred[q].expires =
                              IF q \in OldCreds(k) /\ tx.cred[q].expires > until'[k]
                                THEN until'[k] ELSE tx.cred[q].expires
  BY ShortenWrites
<1>2. \A q \in Jtis \ {k} : until'[q] = until[q]
  <2>1. PICK o \in Asked : until' = [until EXCEPT ![k] = now + overlap(o)]
    BY DEF Shorten
  <2> QED BY <1>0, <2>1
<1>3. Open = {k} /\ Open' = {}
  <2>1. \A q \in Jtis : pc[q] = "shortening" => q = k
    BY <1>0 DEF LockInv, Sessions
  <2>2. pc' = [pc EXCEPT ![k] = "flushed"]
    BY DEF Shorten, Goto
  <2>3. \A q \in Jtis : pc'[q] # "shortening"
    BY <1>0, <2>1, <2>2 DEF TypeOK, Sessions
  <2> QED BY <1>0, <2>1, <2>3 DEF Open
<1>4. k \notin Issued(db) /\ tx.cred[k].agent = target[k]
  BY <1>0, <1>3 DEF StoreInv, IssueInv, SupersedeInv
<1>5. Issued(tx') = Issued(tx)
  BY <1>1 DEF Issued
<1>6. InOrder(tx', older')
  BY <1>0, <1>5, OrderKept DEF SupersedeInv
<1>7. CutShort(tx', older', until', Open')
  <2> SUFFICES ASSUME NEW a \in Agents, NEW i \in ActiveOf(tx', a), NEW j \in ActiveOf(tx', a),
                      Before(older, i, j)
               PROVE  j \in Rotations /\ tx'.cred[i].expires <= until'[j]
    BY <1>0 DEF CutShort
  <2>0. /\ i \in Jtis /\ j \in Jtis /\ i # j
        /\ i \in ActiveOf(tx, a) /\ j \in ActiveOf(tx, a)
    BY <1>1, BeforeItself DEF ActiveOf, Issued
  <2>1. j \in Rotations /\ (j \in Open \/ tx.cred[i].expires <= until[j])
    BY <2>0 DEF SupersedeInv, CutShort
  <2>2. tx.cred[i].expires \in Int /\ until'[k] \in Int /\ until[j] \in Int
    BY <1>0, <2>0 DEF Tables
  <2>3. CASE j = k
    <3>1. i \in OldCreds(k)
      BY <1>4, <2>0, <2>3 DEF OldCreds, ActiveOf
    <3>2. tx'.cred[i].expires = IF tx.cred[i].expires > until'[k]
                                  THEN until'[k] ELSE tx.cred[i].expires
      BY <1>1, <2>0, <3>1
    <3> QED BY <2>1, <2>2, <2>3, <3>2
  <2>4. CASE j # k
    <3>1. until'[j] = until[j] /\ tx.cred[i].expires <= until[j]
      BY <1>2, <1>3, <2>0, <2>1, <2>4
    <3>2. \/ tx'.cred[i].expires = until'[k] /\ tx.cred[i].expires > until'[k]
          \/ tx'.cred[i].expires = tx.cred[i].expires
      BY <1>1, <2>0
    <3> QED BY <2>1, <2>2, <3>1, <3>2
  <2> QED BY <2>3, <2>4
<1>8. InOrder(db', older') /\ CutShort(db', older', until', {})
  <2>1. \A j \in Issued(db) : until'[j] = until[j] /\ db.cred[j].expires <= db.cred[j].expires
    BY <1>0, <1>2, <1>4 DEF Tables, Issued
  <2>2. CutShort(db, older, until', {})
    <3>1. Shrinks(db, db, older, older, until, until', {}, {})
      BY <2>1 DEF Shrinks
    <3> QED BY <1>0, <3>1, CutKept DEF SupersedeInv
  <2> QED BY <1>0, <1>1, <2>2 DEF SupersedeInv
<1> QED BY <1>3, <1>6, <1>7, <1>8 DEF SupersedeInv

\* The other steps bring no credential, and end or lengthen none.
LEMMA SupersedeElse ==
  ASSUME StoreInv, StoreInv', SupersedeInv, [Next]_vars,
         \A k \in Jtis : ~InsertCred(k) /\ ~Shorten(k)
  PROVE  SupersedeInv'
<1>0. /\ TypeOK /\ TypeOK' /\ LockInv /\ tx \in Tables /\ tx' \in Tables /\ db \in Tables
      /\ db' \in Tables /\ until \in [Jtis -> Int]
  BY DEF StoreInv, TypeInv, TypeOK
<1>1. older' = older /\ until' = until
  <2>1. \A s, x : Register(s, x) \/ RotateSelect(s, x) \/ RevokeSelect(s, x) \/ CredSelect(s, x)
                  \/ Present(s, x) => older' = older /\ until' = until
    BY DEF Register, RotateSelect, RevokeSelect, CredSelect, Present
  <2>2. \A s : Sign(s) \/ LoadCreds(s) \/ FlushAgent(s) \/ FlushCred(s) \/ Touch(s) \/ Commit(s)
               \/ Fail(s) => older' = older /\ until' = until
    BY DEF Sign, LoadCreds, FlushAgent, FlushCred, Touch, Commit, Fail
  <2>3. \A s : CacheFresh(s) \/ CacheSelect(s) \/ CacheFill(s) \/ Verify(s) \/ LookUp(s)
               => older' = older /\ until' = until
    BY DEF CacheFresh, CacheSelect, CacheFill, Verify, LookUp
  <2>4. CacheAges \/ Tick \/ UNCHANGED vars => older' = older /\ until' = until
    BY DEF CacheAges, Tick, vars
  <2> QED BY <2>1, <2>2, <2>3, <2>4 DEF Next, Finished
<1>2. ASSUME NEW j \in Open' PROVE j \in Open /\ lock = j /\ ~Move(j)
  <2>0. j \in Jtis /\ j \in Sessions /\ j \notin Revokers \cup Auths /\ pc'[j] = "shortening"
    BY CredentialsAssumption DEF Open, Sessions
  <2>1. ~ (\/ \E a \in Agents : Register(j, a) \/ RotateSelect(j, a)
           \/ Sign(j) \/ Commit(j) \/ Fail(j))
    BY <1>0, <2>0 DEF Register, RotateSelect, Sign, Commit, Fail, Goto, TypeOK
  <2>2. ~Move(j)
    BY <2>0, <2>1 DEF Move, Revokers
  <2>3. pc[j] = "shortening"
    BY <1>0, <2>0, <2>2, MoveOrStill DEF Still
  <2> QED BY <2>0, <2>2, <2>3 DEF Open, StoreInv, LockInv
<1>3. \A j \in Open' : tx'.cred[j].agent = target'[j]
  <2>1. ASSUME NEW j \in Open' PROVE tx' = tx /\ target'[j] = target[j] /\ j \in Open
    BY <1>2, HolderKeeps DEF Still, Open, Sessions
  <2> QED BY <2>1 DEF SupersedeInv
<1>4. ASSUME NEW k \in Open, tx' = tx, tx # db PROVE k \in Open'
  <2>0. lock = k /\ k \in Sessions /\ k \in Jtis /\ pc[k] = "shortening"
    BY DEF StoreInv, LockInv, Sessions, Open
  <2>1. CASE ~Move(k)
    BY <2>0, <2>1, HolderKeeps DEF Still, Open
  <2>2. CASE Fail(k)
    BY <1>4, <2>0, <2>2 DEF Fail, RollbackTx
  <2>3. CASE Move(k) /\ ~Fail(k)
    BY <2>0, <2>3, CredentialsAssumption
       DEF Move, Register, RotateSelect, Start, Sign, Commit, Sessions, Jtis, Revokers
  <2> QED BY <2>1, <2>2, <2>3
<1>5. ASSUME NEW d \in {db, tx}
      PROVE  \A j \in Issued(d) : j \in Jtis /\ d.cred[j].expires <= d.cred[j].expires
  BY <1>0 DEF Tables, Issued
<1>6. InOrder(db', older) /\ CutShort(db', older, until, {})
  <2>1. CASE db' = db
    BY <2>1 DEF SupersedeInv
  <2>2. ASSUME NEW s \in Sessions, Commit(s) PROVE db' = tx /\ CutShort(tx, older, until, {})
    <3>1. pc[s] = "flushed" /\ lock = s /\ db' = tx
      BY <2>2 DEF Commit, CommitTx, View, StoreInv, LockInv
    <3>2. Open = {}
      BY <3>1 DEF StoreInv, LockInv, Open, Sessions
    <3> QED BY <3>1, <3>2 DEF SupersedeInv
  <2> QED BY <2>1, <2>2, DbForward DEF SupersedeInv
<1>7. InOrder(tx', older) /\ CutShort(tx', older, until, Open')
  <2>1. CASE tx' = db
    <3>1. Shrinks(db, db, older, older, until, until, {}, Open')
      BY <1>5 DEF Shrinks
    <3>2. CutShort(db, older, until, Open')
      BY <1>0, <3>1, CutKept DEF SupersedeInv
    <3> QED BY <2>1, <3>2 DEF SupersedeInv
  <2>2. CASE tx' = tx /\ tx # db
    <3>1. Shrinks(tx, tx, older, older, until, until, Open, Open')
      BY <1>4, <1>5, <2>2 DEF Shrinks
    <3>2. CutShort(tx, older, until, Open')
      BY <1>0, <3>1, CutKept DEF SupersedeInv
    <3> QED BY <2>2, <3>2 DEF SupersedeInv
  <2>3. ASSUME NEW s \in Registrations, NEW b \in Agents, Register(s, b), db.agent[b] = "absent"
        PROVE  InOrder(tx', older) /\ CutShort(tx', older, until, Open')
    <3>1. tx'.cred = db.cred
      BY <2>3, RegisterWrites
    <3>2. Issued(tx') = Issued(db)
      BY <3>1 DEF Issued
    <3>3. InOrder(tx', older)
      BY <3>2, OrderKept DEF SupersedeInv
    <3>4. Shrinks(db, tx', older, older, until, until, {}, Open')
      BY <1>5, <3>1, <3>2 DEF Shrinks
    <3> QED BY <1>0, <3>3, <3>4, CutKept DEF SupersedeInv
  <2>4. ASSUME NEW s \in Revokers, FlushAgent(s) \/ FlushCred(s)
        PROVE  InOrder(tx', older) /\ CutShort(tx', older, until, Open')
    <3>1. \A i \in Jtis : /\ tx'.cred[i].agent = tx.cred[i].agent
                          /\ tx'.cred[i].active => tx.cred[i].active
                          /\ tx'.cred[i].expires = tx.cred[i].expires
      BY <2>4, RevokeWrites
    <3>2. Issued(tx') = Issued(tx)
      BY <3>1 DEF Issued
    <3>3. InOrder(tx', older)
      BY <3>2, OrderKept DEF SupersedeInv
    <3>4. lock \in {None, s} /\ pc[s] = "flushing"
      BY <2>4 DEF FlushAgent, FlushCred, Write
    <3>5. Open = {}
      BY <3>4, CredentialsAssumption DEF StoreInv, LockInv, Open, Sessions
    <3>6. Shrinks(tx, tx', older, older, until, until, Open, Open')
      BY <1>5, <3>1, <3>2, <3>5 DEF Shrinks
    <3> QED BY <1>0, <3>3, <3>6, CutKept DEF SupersedeInv
  <2> QED BY <2>1, <2>2, <2>3, <2>4, OtherWrites
<1> QED BY <1>1, <1>3, <1>6, <1>7 DEF SupersedeInv

\* However many rotations of an agent race and whatever overlap each asks for,
\* its active credentials were issued one after the other, and a later one has
\* cut the earlier ones short: the only one of full length is the newest.
THEOREM SupersededCorrect == Spec => []Superseded
<1>1. Init => SupersedeInv
  BY DEF Init, SupersedeInv, InOrder, CutShort, ActiveOf, Issued, NoCred, Open, Sessions
<1>2. ASSUME StoreInv, AgentInv, SupersedeInv, [Next]_vars PROVE SupersedeInv'
  BY <1>2, StoreStep, SupersedeInsert, SupersedeShorten, SupersedeElse
<1>3. ASSUME SupersedeInv PROVE Superseded
  <2>1. \A i, j : Earlier(i, j) <=> Before(older, i, j)
    BY DEF Earlier, Before
  <2> QED BY <1>3, <2>1 DEF Superseded, SupersedeInv, InOrder, CutShort, ActiveOf
<1> QED BY <1>1, <1>2, <1>3, AgentCorrect, PTL DEF Spec

=============================================================================
