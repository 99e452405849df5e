---------------------------- MODULE Credentials ----------------------------
(***************************************************************************)
(* Agents and their JWT credentials: registration, rotation with an        *)
(* overlap, revocation of a credential or of an agent, and the             *)
(* authentication of proxied calls against the database and an in-process  *)
(* cache of revoked credentials.                                           *)
(*                                                                         *)
(* Code: acp/primitives/identity/service.py, with the handlers of          *)
(* acp/api/agents.py that call it and the expiry of                        *)
(* acp/primitives/identity/credentials.py.                                 *)
(*                                                                         *)
(* As in Budget: a session reads what is committed and, once it has the    *)
(* write lock, its own changes too.  Each handler is one action per        *)
(* stretch between two awaits.  Time counts hours.                         *)
(***************************************************************************)
EXTENDS Integers

CONSTANTS
  Agents,            \* agent ids
  Registrations,     \* calls of POST /api/agents/register ...
  Rotations,         \* ... of POST /api/agents/{id}/rotate
  AgentRevocations,  \* ... of POST /api/agents/{id}/revoke
  CredRevocations,   \* ... of POST /api/agents/credentials/{jti}/revoke
  Auths,             \* proxied calls, which authenticate_request checks
  Scenarios,         \* sets of calls that may come in one behaviour
  Lifetime,          \* jwt_default_expiry_hours
  Overlap,           \* jwt_rotation_overlap_hours
  Asked,             \* overlap_hours of a rotation's request; None when left out
  MaxTime,           \* bound on the clock
  None

\* A credential has the name of the session that issues it.
Jtis     == Registrations \cup Rotations
Revokers == AgentRevocations \cup CredRevocations
Sessions == Jtis \cup Revokers \cup Auths

ASSUME CredentialsAssumption ==
  /\ Registrations \cap Rotations = {}
  /\ AgentRevocations \cap CredRevocations = {}
  /\ Jtis \cap (Revokers \cup Auths) = {} /\ Revokers \cap Auths = {}
  /\ None \notin Sessions \cup Agents
  /\ Agents \cap Sessions = {}
  /\ \A calls \in Scenarios : calls \subseteq Sessions
  /\ Lifetime \in Nat /\ Overlap \in Nat /\ MaxTime \in Nat
  /\ Asked \subseteq Int \cup {None}

VARIABLES
  db,        \* committed agents (their status) and agent_credentials
  tx,        \* the same as the session with the write lock sees it
  lock,      \* that session
  now,       \* the clock, in hours
  exp,       \* the exp claim of each signed token
  cache,     \* _revocation_cache
  stale,     \* revocation_cache_ttl_seconds have passed since its refresh
  refresh,   \* _cache_lock: who refreshes, and the rows its SELECT returned
  pc,        \* where each session is
  target,    \* the agent or credential it is about
  loaded,    \* the credential rows a revocation has selected
  late,      \* history: what a rotation or a call is about was revoked when it began
  older,     \* history: the credentials issued before each one
  until      \* history: the end of the overlap of each rotation

vars == <<db, tx, lock, now, exp, cache, stale, refresh, pc, target, loaded, late, older, until>>

NoCred == [agent |-> None, active |-> FALSE, expires |-> 0]
NoRefresh == [by |-> None, rows |-> {}]

Init ==
  /\ db = [agent |-> [a \in Agents |-> "absent"], cred |-> [j \in Jtis |-> NoCred]]
  /\ tx = db
  /\ lock = None
  /\ now = 0
  /\ exp = [j \in Jtis |-> 0]
  /\ cache = {}
  /\ stale = TRUE
  /\ refresh = NoRefresh
  /\ \E calls \in Scenarios :
       pc = [s \in Sessions |-> IF s \in calls THEN "idle" ELSE "absent"]
  /\ target = [s \in Sessions |-> None]
  /\ loaded = [s \in Revokers |-> {}]
  /\ late = [s \in Rotations \cup Auths |-> FALSE]
  /\ older = [j \in Jtis |-> {}]
  /\ until = [j \in Jtis |-> 0]

Ends == {"done", "rejected", "failed"}

View(s) == IF lock = s THEN tx ELSE db

Issued(d)      == {j \in Jtis : d.cred[j].agent # None}
ActiveOf(d, a) == {j \in Issued(d) : d.cred[j].active /\ d.cred[j].agent = a}
Inactive(d)    == {j \in Issued(d) : ~d.cred[j].active}
Revoked(d)     == {a \in Agents : d.agent[a] = "revoked"}

\* The first write of a session takes the lock; later ones find it theirs.
Write(s, rows) ==
  /\ lock \in {None, s}
  /\ lock' = s
  /\ tx' = rows

\* get_db_dependency after a handler that returned, and after one that raised.
CommitTx(s)   == db' = View(s) /\ tx' = tx /\ lock' = IF lock = s THEN None ELSE lock
RollbackTx(s) ==
  /\ UNCHANGED db
  /\ IF lock = s THEN lock' = None /\ tx' = db ELSE UNCHANGED <<lock, tx>>

\* A session's first statement: what it is about, and whether a revocation of
\* that had committed by then.
Start(s, x) ==
  /\ pc[s] = "idle"
  /\ target' = [target EXCEPT ![s] = x]
  /\ late' = [r \in Rotations \cup Auths |->
               IF r = s THEN x \in Revoked(db) \cup Inactive(db) ELSE late[r]]

Goto(s, label) == pc' = [pc EXCEPT ![s] = label]

-----------------------------------------------------------------------------
(* Registration and rotation. *)

\* register_agent inserts the agent; an id that exists violates the primary key.
Register(s, a) ==
  /\ Start(s, a)
  /\ lock = None
  /\ IF db.agent[a] = "absent"
       THEN Write(s, [db EXCEPT !.agent[a] = "active"]) /\ Goto(s, "issuing")
       ELSE UNCHANGED <<tx, lock>> /\ Goto(s, "failed")
  /\ UNCHANGED <<db, now, exp, cache, stale, refresh, loaded, older, until>>

\* Deviation: rotation looks the agent up but not at its status.
RotateAnyStatus(s, a) ==
  /\ Start(s, a)
  /\ Goto(s, IF db.agent[a] # "absent" THEN "issuing" ELSE "rejected")
  /\ UNCHANGED <<db, tx, lock, now, exp, cache, stale, refresh, loaded, older, until>>

\* rotate_credential selects the agent: an unknown or revoked one is a 404.
RotateSelect(s, a) ==
  /\ Start(s, a)
  /\ Goto(s, IF db.agent[a] = "active" THEN "issuing" ELSE "rejected")
  /\ UNCHANGED <<db, tx, lock, now, exp, cache, stale, refresh, loaded, older, until>>

\* Deviation: the lifetime is added in seconds.
SignSeconds(j) ==
  /\ pc[j] = "issuing"
  /\ exp' = [exp EXCEPT ![j] = now + 3600 * Lifetime]
  /\ Goto(j, "signed")
  /\ UNCHANGED <<db, tx, lock, now, cache, stale, refresh, target, loaded, late, older, until>>

\* _issue_credential: create_agent_jwt signs the token ...
Sign(j) ==
  /\ pc[j] = "issuing"
  /\ exp' = [exp EXCEPT ![j] = now + Lifetime]
  /\ Goto(j, "signed")
  /\ UNCHANGED <<db, tx, lock, now, cache, stale, refresh, target, loaded, late, older, until>>

\* Deviation: the agent row is written too, as it was read.
InsertWithAgent(j) ==
  /\ pc[j] = "signed"
  /\ Write(j, [View(j) EXCEPT !.agent[target[j]] = "active", !.cred[j] =
                 [agent |-> target[j], active |-> TRUE, expires |-> exp[j]]])
  /\ older' = [older EXCEPT ![j] = Issued(View(j))]
  /\ Goto(j, IF j \in Rotations THEN "shortening" ELSE "flushed")
  /\ UNCHANGED <<db, now, exp, cache, stale, refresh, target, loaded, late, until>>

\* ... and the credential is inserted.
InsertCred(j) ==
  /\ pc[j] = "signed"
  /\ Write(j, [View(j) EXCEPT !.cred[j] =
                 [agent |-> target[j], active |-> TRUE, expires |-> exp[j]]])
  /\ older' = [older EXCEPT ![j] = Issued(View(j))]
  /\ Goto(j, IF j \in Rotations THEN "shortening" ELSE "flushed")
  /\ UNCHANGED <<db, now, exp, cache, stale, refresh, target, loaded, late, until>>

\* Deviation: old is taken to mean expiring before the new one.
OldCredsByExpiry(j) == {i \in ActiveOf(tx, target[j]) : tx.cred[i].expires < exp[j]}

\* The credentials that rotation shortens, selected after its own insert.
OldCreds(j) == ActiveOf(tx, target[j]) \ {j}

\* overlap_hours or the default: neither None nor 0 counts.
overlap(o) == IF o \in {None, 0} THEN Overlap ELSE o

\* Deviation: the end of the overlap is set, not a maximum.
ShortenAlways(j) ==
  /\ pc[j] = "shortening"
  /\ \E o \in Asked : until' = [until EXCEPT ![j] = now + overlap(o)]
  /\ Write(j, [View(j) EXCEPT !.cred =
       [i \in Jtis |-> IF i \in OldCreds(j)
                         THEN [@[i] EXCEPT !.expires = until'[j]] ELSE @[i]]])
  /\ Goto(j, "flushed")
  /\ UNCHANGED <<db, now, exp, cache, stale, refresh, target, loaded, late, older>>

\* They are to expire when the overlap that this request asked for is over.
Shorten(j) ==
  /\ pc[j] = "shortening"
  /\ \E o \in Asked : until' = [until EXCEPT ![j] = now + overlap(o)]
  /\ Write(j, [View(j) EXCEPT !.cred =
       [i \in Jtis |-> IF i \in OldCreds(j) /\ @[i].expires > until'[j]
                         THEN [@[i] EXCEPT !.expires = until'[j]] ELSE @[i]]])
  /\ Goto(j, "flushed")
  /\ UNCHANGED <<db, now, exp, cache, stale, refresh, target, loaded, late, older>>

-----------------------------------------------------------------------------
(* Revocation. *)

\* revoke_agent selects the agent, whatever its status ...
RevokeSelect(s, a) ==
  /\ Start(s, a)
  /\ Goto(s, IF db.agent[a] # "absent" THEN "selected" ELSE "rejected")
  /\ UNCHANGED <<db, tx, lock, now, exp, cache, stale, refresh, loaded, older, until>>

\* ... then its active credentials, which enter the cache at once ...
LoadCreds(s) ==
  /\ pc[s] = "selected"
  /\ loaded' = [loaded EXCEPT ![s] = ActiveOf(db, target[s])]
  /\ cache' = cache \cup loaded'[s]
  /\ Goto(s, "flushing")
  /\ UNCHANGED <<db, tx, lock, now, exp, stale, refresh, target, late, older, until>>

Deactivate(creds, js) ==
  [j \in Jtis |-> IF j \in js THEN [creds[j] EXCEPT !.active = FALSE] ELSE creds[j]]

\* Deviation: only the status of the agent is written.
FlushStatusOnly(s) ==
  /\ pc[s] = "flushing"
  /\ s \in AgentRevocations
  /\ Write(s, [View(s) EXCEPT !.agent[target[s]] = "revoked"])
  /\ Goto(s, "flushed")
  /\ UNCHANGED <<db, now, exp, cache, stale, refresh, target, loaded, late, older, until>>

\* ... and the flush writes its status and theirs.
FlushAgent(s) ==
  /\ pc[s] = "flushing"
  /\ s \in AgentRevocations
  /\ Write(s, [View(s) EXCEPT !.agent[target[s]] = "revoked",
                              !.cred = Deactivate(@, loaded[s])])
  /\ Goto(s, "flushed")
  /\ UNCHANGED <<db, now, exp, cache, stale, refresh, target, loaded, late, older, until>>

\* revoke_credential selects the credential ...
CredSelect(s, j) ==
  /\ Start(s, j)
  /\ IF j \in Issued(db)
       THEN loaded' = [loaded EXCEPT ![s] = {j}] /\ Goto(s, "flushing")
       ELSE loaded' = loaded /\ Goto(s, "rejected")
  /\ UNCHANGED <<db, tx, lock, now, exp, cache, stale, refresh, older, until>>

\* ... writes it, and puts it in the cache.
FlushCred(s) ==
  /\ pc[s] = "flushing"
  /\ s \in CredRevocations
  /\ Write(s, [View(s) EXCEPT !.cred = Deactivate(@, loaded[s])])
  /\ cache' = cache \cup loaded[s]
  /\ Goto(s, "flushed")
  /\ UNCHANGED <<db, now, exp, stale, refresh, target, loaded, late, older, until>>

-----------------------------------------------------------------------------
(* authenticate_request. *)

\* A caller presents a token it was given.
Present(s, j) ==
  /\ Start(s, j)
  /\ j \in Issued(db)
  /\ Goto(s, "presented")
  /\ UNCHANGED <<db, tx, lock, now, exp, cache, stale, refresh, loaded, older, until>>

\* _refresh_revocation_cache: a fresh cache is used as it is ...
CacheFresh(s) ==
  /\ pc[s] = "presented"
  /\ refresh.by = None
  /\ ~stale
  /\ Goto(s, "verifying")
  /\ UNCHANGED <<db, tx, lock, now, exp, cache, stale, refresh, target, loaded, late, older, until>>

\* ... a stale one is selected anew under _cache_lock ...
CacheSelect(s) ==
  /\ pc[s] = "presented"
  /\ refresh.by = None
  /\ stale
  /\ refresh' = [by |-> s, rows |-> Inactive(db)]
  /\ Goto(s, "refreshing")
  /\ UNCHANGED <<db, tx, lock, now, exp, cache, stale, target, loaded, late, older, until>>

\* ... and what the SELECT returned replaces it.
CacheFill(s) ==
  /\ pc[s] = "refreshing"
  /\ cache' = refresh.rows
  /\ stale' = FALSE
  /\ refresh' = NoRefresh
  /\ Goto(s, "verifying")
  /\ UNCHANGED <<db, tx, lock, now, exp, target, loaded, late, older, until>>

\* verify_agent_jwt and the look into the cache, with no await between them.
Verify(s) ==
  /\ pc[s] = "verifying"
  /\ Goto(s, IF exp[target[s]] < now \/ target[s] \in cache
               THEN "rejected" ELSE "looking")
  /\ UNCHANGED <<db, tx, lock, now, exp, cache, stale, refresh, target, loaded, late, older, until>>

\* Deviation: the cache is the only revocation check.
LookUpAny(s) ==
  /\ pc[s] = "looking"
  /\ Goto(s, "found")
  /\ UNCHANGED <<db, tx, lock, now, exp, cache, stale, refresh, target, loaded, late, older, until>>

\* The credential must be active in the database.
LookUp(s) ==
  /\ pc[s] = "looking"
  /\ Goto(s, IF db.cred[target[s]].active THEN "found" ELSE "rejected")
  /\ UNCHANGED <<db, tx, lock, now, exp, cache, stale, refresh, target, loaded, late, older, until>>

\* UPDATE agents SET last_seen_at takes the lock, and the call is accepted.
Touch(s) ==
  /\ pc[s] = "found"
  /\ Write(s, View(s))
  /\ Goto(s, "flushed")
  /\ UNCHANGED <<db, now, exp, cache, stale, refresh, target, loaded, late, older, until>>

-----------------------------------------------------------------------------
\* log_event and the commit of get_db_dependency or llm_proxy.
Commit(s) ==
  /\ pc[s] = "flushed"
  /\ CommitTx(s)
  /\ Goto(s, "done")
  /\ UNCHANGED <<now, exp, cache, stale, refresh, target, loaded, late, older, until>>

\* A statement or the commit fails, a wait for the lock among them: 500.
\* Neither the cache nor its entries are part of the transaction.
Fail(s) ==
  /\ pc[s] \notin Ends \cup {"absent", "idle"}
  /\ RollbackTx(s)
  /\ refresh' = IF refresh.by = s THEN NoRefresh ELSE refresh
  /\ Goto(s, "failed")
  /\ UNCHANGED <<now, exp, cache, stale, target, loaded, late, older, until>>

CacheAges ==
  /\ ~stale
  /\ stale' = TRUE
  /\ UNCHANGED <<db, tx, lock, now, exp, cache, refresh, pc, target, loaded, late, older, until>>

Tick ==
  /\ now < MaxTime
  /\ now' = now + 1
  /\ UNCHANGED <<db, tx, lock, exp, cache, stale, refresh, pc, target, loaded, late, older, until>>

Finished ==
  /\ \A s \in Sessions : \/ pc[s] \in Ends \cup {"absent"}
                         \/ s \in Auths /\ pc[s] = "idle"
  /\ UNCHANGED vars

Next ==
  \/ \E s \in Registrations, a \in Agents : Register(s, a)
  \/ \E s \in Rotations, a \in Agents : RotateSelect(s, a)
  \/ \E j \in Jtis : Sign(j) \/ InsertCred(j) \/ Shorten(j)
  \/ \E s \in AgentRevocations, a \in Agents : RevokeSelect(s, a)
  \/ \E s \in CredRevocations, j \in Jtis : CredSelect(s, j)
  \/ \E s \in Revokers : LoadCreds(s) \/ FlushAgent(s) \/ FlushCred(s)
  \/ \E s \in Auths, j \in Jtis : Present(s, j)
  \/ \E s \in Auths : CacheFresh(s) \/ CacheSelect(s) \/ CacheFill(s)
                      \/ Verify(s) \/ LookUp(s) \/ Touch(s)
  \/ \E s \in Sessions : Commit(s) \/ Fail(s)
  \/ CacheAges
  \/ Tick
  \/ Finished

Spec == Init /\ [][Next]_vars

-----------------------------------------------------------------------------
Hours == 0 .. MaxTime + Lifetime
Tables ==
  [agent : [Agents -> {"absent", "active", "revoked"}],
   cred  : [Jtis -> [agent : Agents \cup {None}, active : BOOLEAN, expires : Int]]]

\* The types of the tables, the tokens, the cache and the sessions.
TypeOK ==
  /\ db \in Tables /\ tx \in Tables
  /\ lock \in Sessions \cup {None}
  /\ now \in 0 .. MaxTime
  /\ exp \in [Jtis -> Hours]
  /\ cache \subseteq Jtis
  /\ stale \in BOOLEAN
  /\ refresh \in [by : Auths \cup {None}, rows : SUBSET Jtis]
  /\ pc \in [Sessions -> {"absent", "idle", "issuing", "signed", "shortening", "selected",
             "flushing", "flushed", "presented", "refreshing", "verifying", "looking", "found"} \cup Ends]
  /\ target \in [Sessions -> Agents \cup Jtis \cup {None}]
  /\ loaded \in [Revokers -> SUBSET Jtis]
  /\ late \in [Rotations \cup Auths -> BOOLEAN]
  /\ older \in [Jtis -> SUBSET Jtis]
  /\ until \in [Jtis -> Int]

Accepted == {s \in Auths : pc[s] \in {"flushed", "done"}}

\* However the cache is refreshed, aged or overwritten meanwhile, a call that
\* presents a credential whose revocation has committed is not accepted.
RevokedNeverAccepted == \A s \in Accepted : ~late[s]

\* A revocation is for ever: no registration, rotation or concurrent writer
\* brings an agent or a credential back.
RevocationPermanent ==
  [][/\ Revoked(db) \subseteq Revoked(db')
     /\ Inactive(db) \subseteq Inactive(db')]_db

\* The only credential a revoked agent keeps is that of a rotation that had
\* looked at the agent before its revocation committed.
StragglersOnly ==
  \A a \in Revoked(db) : \A j \in ActiveOf(db, a) :
    j \in Rotations /\ ~late[j]

\* i was issued before j, and what was issued before i was too.
Earlier(i, j) == older[i] \cup {i} \subseteq older[j] \ {j}

\* However many rotations of an agent race, its active credentials come one
\* after the other, and each is recorded to expire within the overlap that any
\* later rotation asked for: the only one not cut short is the newest.
Superseded ==
  \A a \in Agents : \A i, j \in ActiveOf(db, a) :
    /\ i = j \/ Earlier(i, j) \/ Earlier(j, i)
    /\ Earlier(i, j) => j \in Rotations /\ db.cred[i].expires <= until[j]

\* Rotation never lengthens a credential's life: the record's expiry only
\* comes forward, and stays within the token's.
ExpiryNeverGrows ==
  [][\A j \in Issued(db) : /\ db'.cred[j].expires <= db.cred[j].expires
                           /\ db'.cred[j].expires <= exp'[j]]_db
=============================================================================
