------------------------------ MODULE OrgKeys ------------------------------
(***************************************************************************)
(* The signing key of an organisation: every registration and rotation     *)
(* looks for the active key, replaces one that the present secret cannot   *)
(* decrypt, creates one where there is none, and signs a token with it.    *)
(*                                                                         *)
(* Code: _get_or_create_org_key and _issue_credential of                   *)
(* acp/primitives/identity/service.py, and the key encryption of           *)
(* acp/primitives/identity/credentials.py.                                 *)
(*                                                                         *)
(* One organisation; a key and a token have the name of the session that   *)
(* makes them.  Agents and the rows of their credentials are the subject   *)
(* of Credentials and are left out.                                        *)
(***************************************************************************)
EXTENDS Naturals, FiniteSets

CONSTANTS
  Registrations,  \* calls of POST /api/agents/register
  Rotations,      \* calls of POST /api/agents/{id}/rotate
  Secrets,        \* values of ACP_SECRET_KEY
  MaxRestarts,    \* bound on restarts of the process
  None

Issuers == Registrations \cup Rotations

ASSUME OrgKeysAssumption ==
  /\ Registrations \cap Rotations = {}
  /\ None \notin Issuers \cup Secrets
  /\ MaxRestarts \in Nat

VARIABLES
  secret,    \* the secret of the running process
  keys,      \* committed rows of rsa_key_pairs
  token,     \* the key that signed a token which was handed out
  lock,      \* the session that holds the write lock
  pc,        \* where each issuer is
  key,       \* the key it has chosen
  old,       \* the key it has found unusable
  restarts,  \* restarts so far
  raced      \* history: a session looked for the key while another replaced it

keyVars == <<secret, keys, token, lock, pc, key, old, restarts, raced>>

NoKey == [active |-> FALSE, secret |-> None]

KeyInit ==
  /\ secret \in Secrets
  /\ keys = [k \in Issuers |-> NoKey]
  /\ token = [j \in Issuers |-> None]
  /\ lock = None
  /\ pc = [j \in Issuers |-> "idle"]
  /\ key = [j \in Issuers |-> None]
  /\ old = [j \in Issuers |-> None]
  /\ restarts = 0
  /\ raced = FALSE

Ends == {"done", "failed"}

Goto(j, label) == pc' = [pc EXCEPT ![j] = label]
Release(j)     == lock' = IF lock = j THEN None ELSE lock
TakeLock(j)    == lock \in {None, j} /\ lock' = j

Created == {k \in Issuers : keys[k].secret # None}
Active  == {k \in Issuers : keys[k].active}

\* decrypt_private_key: AES-GCM under a key derived from the secret.
Decrypts(k) == keys[k].secret = secret

\* register_agent has inserted the agent before it asks for a key ...
BeginRegistration(j) ==
  /\ pc[j] = "idle"
  /\ lock = None
  /\ lock' = j
  /\ Goto(j, "selecting")
  /\ UNCHANGED <<secret, keys, token, key, old, restarts, raced>>

\* ... rotate_credential has only read an agent, which some registration made.
BeginRotation(j) ==
  /\ pc[j] = "idle"
  /\ \E i \in Registrations : pc[i] = "done"
  /\ Goto(j, "selecting")
  /\ UNCHANGED <<secret, keys, token, lock, key, old, restarts, raced>>

\* A session that has found no usable key and has not committed one yet.
Replacing(j) == pc[j] \in {"retiring", "creating", "created"} \/ (pc[j] = "signed" /\ key[j] = j)

\* The SELECT of the active key: scalar_one_or_none raises for two.
SelectKey(j) ==
  /\ pc[j] = "selecting"
  /\ \/ /\ Cardinality(Active) > 1
        /\ Goto(j, "failed")
        /\ Release(j)
        /\ UNCHANGED <<key, old>>
     \/ /\ Active = {}
        /\ Goto(j, "creating")
        /\ UNCHANGED <<lock, key, old>>
     \/ \E k \in Active :
          /\ Active = {k}
          /\ IF Decrypts(k)
               THEN key' = [key EXCEPT ![j] = k] /\ old' = old /\ Goto(j, "signing")
               ELSE old' = [old EXCEPT ![j] = k] /\ key' = key /\ Goto(j, "retiring")
          /\ UNCHANGED lock
  /\ raced' = (raced \/ \E i \in Issuers \ {j} : Replacing(i))
  /\ UNCHANGED <<secret, keys, token, restarts>>

\* is_active = False, flushed.
Retire(j) ==
  /\ pc[j] = "retiring"
  /\ TakeLock(j)
  /\ Goto(j, "creating")
  /\ UNCHANGED <<secret, keys, token, key, old, restarts, raced>>

\* Deviation: the old key stays active beside the new one.
CreateBeside(j) ==
  /\ pc[j] = "creating"
  /\ TakeLock(j)
  /\ key' = [key EXCEPT ![j] = j]
  /\ old' = [old EXCEPT ![j] = None]
  /\ Goto(j, "created")
  /\ UNCHANGED <<secret, keys, token, restarts, raced>>

\* generate_rsa_key_pair and the flush of the new row.
Create(j) ==
  /\ pc[j] = "creating"
  /\ TakeLock(j)
  /\ key' = [key EXCEPT ![j] = j]
  /\ Goto(j, "created")
  /\ UNCHANGED <<secret, keys, token, old, restarts, raced>>

\* create_agent_jwt and the flush of the credential's row.
Sign(j) ==
  /\ pc[j] \in {"signing", "created"}
  /\ TakeLock(j)
  /\ Goto(j, "signed")
  /\ UNCHANGED <<secret, keys, token, key, old, restarts, raced>>

\* Deviation: the new key is published, its predecessor is removed.
CommitRemoving(j) ==
  /\ pc[j] = "signed"
  /\ keys' = [k \in Issuers |-> IF k = old[j] THEN NoKey
              ELSE IF k = key[j] THEN [active |-> TRUE, secret |-> secret] ELSE keys[k]]
  /\ token' = [token EXCEPT ![j] = key[j]]
  /\ Release(j)
  /\ Goto(j, "done")
  /\ UNCHANGED <<secret, key, old, restarts, raced>>

\* The commit of the request; only then is the token in the answer.
Commit(j) ==
  /\ pc[j] = "signed"
  /\ keys' = [k \in Issuers |-> IF k = old[j] THEN [keys[k] EXCEPT !.active = FALSE]
              ELSE IF k = key[j] THEN [active |-> TRUE, secret |-> secret] ELSE keys[k]]
  /\ token' = [token EXCEPT ![j] = key[j]]
  /\ Release(j)
  /\ Goto(j, "done")
  /\ UNCHANGED <<secret, key, old, restarts, raced>>

\* Deviation: the session is neither committed nor closed.
FailHolding(j) ==
  /\ pc[j] \notin Ends \cup {"idle"}
  /\ Goto(j, "failed")
  /\ UNCHANGED <<secret, keys, token, lock, key, old, restarts, raced>>

\* A wait for the lock, a statement or the commit fails: everything rolls back.
Fail(j) ==
  /\ pc[j] \notin Ends \cup {"idle"}
  /\ Release(j)
  /\ Goto(j, "failed")
  /\ UNCHANGED <<secret, keys, token, key, old, restarts, raced>>

\* The process restarts, perhaps with another secret; the tables stay.
Restart ==
  /\ restarts < MaxRestarts
  /\ restarts' = restarts + 1
  /\ secret' \in Secrets
  /\ lock' = None
  /\ pc' = [j \in Issuers |-> IF pc[j] \in Ends \cup {"idle"} THEN pc[j] ELSE "failed"]
  /\ UNCHANGED <<keys, token, key, old, raced>>

Issue(j) == SelectKey(j) \/ Retire(j) \/ Create(j) \/ Sign(j) \/ Commit(j) \/ Fail(j)

KeyNext ==
  \/ \E j \in Registrations : BeginRegistration(j)
  \/ \E j \in Rotations : BeginRotation(j)
  \/ \E j \in Issuers : Issue(j)

-----------------------------------------------------------------------------
\* The types of the key table, the tokens and the issuers; the lock is held by an
\* issuer under way.
KeyTypeOK ==
  /\ secret \in Secrets
  /\ keys \in [Issuers -> [active : BOOLEAN, secret : Secrets \cup {None}]]
  /\ token \in [Issuers -> Issuers \cup {None}]
  /\ lock \in {j \in Issuers : pc[j] \notin Ends \cup {"idle"}} \cup {None}
  /\ pc \in [Issuers -> {"idle", "selecting", "retiring", "creating", "created", "signing",
                         "signed"} \cup Ends]
  /\ key \in [Issuers -> Issuers \cup {None}]
  /\ old \in [Issuers -> Issuers \cup {None}]
  /\ restarts \in 0 .. MaxRestarts
  /\ raced \in BOOLEAN

\* An organisation has one active key at a time, whatever becomes of the secret
\* and of the sessions, unless one looked for it while another was replacing it.
OneKeyUnlessRaced == raced \/ Cardinality(Active) <= 1

\* Every token that was handed out keeps the key it was signed with: the row is
\* committed, and no replacement, rollback or restart takes it away.
TokensKeepKeys == \A j \in Issuers : token[j] # None => token[j] \in Created
=============================================================================
