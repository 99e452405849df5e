---------------------------- MODULE TrustProofs ----------------------------
(***************************************************************************)
(* Proofs about OrgKeys and Trust.  A key of an organisation has one life: *)
(* it is created active by the session of its name, it may be retired, and *)
(* it never becomes active again; a session that signs with a key it has   *)
(* found leaves the key as it is.  KeyInv says so of every moment, and is  *)
(* enough for the two properties of the keys.  What a verifier or the      *)
(* attestation endpoint believes of a key was true once, and BeliefInv     *)
(* bounds how long ago.                                                    *)
(***************************************************************************)
EXTENDS Trust, FiniteSetTheorems, TLAPS

Signing(j)  == pc[j] \in {"signing", "signed"}
Creating(j) == pc[j] \in {"retiring", "creating", "created", "signed"}
Live        == [active |-> TRUE, secret |-> secret]

\* A row is written when its session commits, an active key can be decrypted by
\* some secret, and a token is handed out by a session that has committed.
RowInv ==
  /\ \A j \in Issuers : pc[j] # "done" => keys[j] = NoKey /\ token[j] = None
  /\ \A k \in Issuers : keys[k].active => keys[k].secret # None
  /\ TokensKeepKeys

\* What a session knows of the key it has found: one that it signs with is
\* active under the present secret; one that it replaces belongs to another
\* secret, so no session that runs at the same time signs with it.
FoundInv ==
  \A j \in Issuers :
    /\ pc[j] = "created" => key[j] = j
    /\ pc[j] = "signing" => key[j] \notin {None, j}
    /\ pc[j] = "signed" => key[j] # None
    /\ Signing(j) /\ key[j] # j => keys[key[j]] = Live
    /\ pc[j] \in {"idle", "selecting", "signing"} \/ (pc[j] = "signed" /\ key[j] # j) => old[j] = None
    /\ pc[j] = "retiring" => old[j] # None
    /\ Creating(j) /\ old[j] # None => keys[old[j]].secret \notin {None, secret}

\* Unless sessions have raced there is one at most that replaces a key, and
\* no other key is active than the one it replaces.
SoleInv ==
  ~raced =>
    /\ \A a, b \in Active : a = b
    /\ \A i, j \in Issuers : Replacing(i) /\ Replacing(j) => i = j
    /\ \A j \in Issuers : Replacing(j) => Active \subseteq {old[j]}

KeyInv == KeyTypeOK /\ RowInv /\ FoundInv /\ SoleInv

\* When keys were retired: none that is active or that does not exist yet.
RetiredInv ==
  \A k \in Issuers : /\ keys[k].active \/ keys[k].secret = None => retired[k] = Never
                     /\ retired[k] # Never => retired[k] <= now

\* A consumer under way, or done, is about a token that was handed out.
SubjectInv ==
  \A s \in Consumers : step[s] # "idle" => subject[s] # None /\ token[subject[s]] # None

\* What a verifier believes: the keys of its answer, and of the cache, were
\* active at the time at which their fetch began.
BeliefInv ==
  /\ \A v \in Verifications : step[v] \in {"fetching", "answered"} =>
       since[v] <= now /\ now <= since[v] + FetchTime
  /\ \A v \in Verifications : step[v] = "answered" =>
       \A k \in answer[v] : since[v] <= retired[k]
  /\ cache.expires <= now + TTL
  /\ \A k \in cache.keys : cache.expires <= retired[k] + FetchTime + TTL
  /\ \A v \in Verifications : since[v] <= now
  /\ BoundedTrust

\* What a response can still become: one that came in vain names a key that is
\* retired for good, and an accepted one has used its challenge up.
ResponseInv ==
  /\ \A p \in Responses :
       /\ step[p] \in {"selecting", "selected", "accepted"} => claimed[p] # None
       /\ step[p] = "accepted" => challenge[claimed[p]].state = "answered"
       /\ step[p] = "selecting" /\ hopeless[p] => token[subject[p]] \notin Active
       /\ step[p] = "selected" /\ hopeless[p] => token[subject[p]] \notin answer[p]
  /\ VerifiedInTime

Inv == KeyInv /\ TypeOK /\ RetiredInv /\ SubjectInv /\ BeliefInv /\ ResponseInv

-----------------------------------------------------------------------------
(* The keys. *)

\* At first there is no key.
LEMMA KeyTypesInit == KeyInit => KeyTypeOK
<1> USE OrgKeysAssumption
<1> SUFFICES ASSUME KeyInit PROVE KeyTypeOK
  OBVIOUS
<1>1. keys \in [Issuers -> [active : BOOLEAN, secret : Secrets \cup {None}]]
  BY DEF KeyInit, NoKey
<1>2. lock \in {j \in Issuers : pc[j] \notin Ends \cup {"idle"}} \cup {None}
  BY DEF KeyInit
<1>3. restarts \in 0 .. MaxRestarts
  BY DEF KeyInit, OrgKeysAssumption
<1>4. raced \in BOOLEAN
  BY DEF KeyInit
<1>5. QED
  BY <1>1, <1>2, <1>3, <1>4 DEF KeyInit, KeyTypeOK

\* A session keeps the types of the keys ...
LEMMA KeyTypesStep ==
  ASSUME KeyTypeOK, NEW j \in Issuers,
         BeginRegistration(j) \/ BeginRotation(j) \/ Issue(j)
  PROVE  KeyTypeOK'
<1> USE OrgKeysAssumption
<1>1. CASE BeginRegistration(j) \/ BeginRotation(j)
  BY <1>1 DEF BeginRegistration, BeginRotation, KeyTypeOK, Goto, Ends
<1>2. CASE SelectKey(j)
  <2>1. /\ pc[j] = "selecting" /\ UNCHANGED <<secret, keys, token, restarts>>
        /\ raced' \in BOOLEAN
    BY <1>2 DEF SelectKey, KeyTypeOK
  <2>2. CASE pc' = [pc EXCEPT ![j] = "failed"] /\ Release(j) /\ UNCHANGED <<key, old>>
    BY <2>1, <2>2 DEF KeyTypeOK, Release, Ends
  <2>3. CASE pc' = [pc EXCEPT ![j] = "creating"] /\ UNCHANGED <<lock, key, old>>
    BY <2>1, <2>3 DEF KeyTypeOK, Ends
  <2>4. ASSUME NEW k \in Active, key' = [key EXCEPT ![j] = k], UNCHANGED <<old, lock>>,
               pc' = [pc EXCEPT ![j] = "signing"]
        PROVE  KeyTypeOK'
    BY <2>1, <2>4 DEF KeyTypeOK, Ends, Active
  <2>5. ASSUME NEW k \in Active, old' = [old EXCEPT ![j] = k], UNCHANGED <<key, lock>>,
               pc' = [pc EXCEPT ![j] = "retiring"]
        PROVE  KeyTypeOK'
    BY <2>1, <2>5 DEF KeyTypeOK, Ends, Active
  <2>6. QED
    BY <1>2, <2>2, <2>3, <2>4, <2>5 DEF SelectKey, Goto
<1>3. CASE Retire(j) \/ Create(j) \/ Sign(j)
  <2>1. CASE Retire(j)
    BY <2>1 DEF Retire, KeyTypeOK, Goto, TakeLock, Ends
  <2>2. CASE Create(j)
    BY <2>2 DEF Create, KeyTypeOK, Goto, TakeLock, Ends
  <2>3. CASE Sign(j)
    BY <2>3 DEF Sign, KeyTypeOK, Goto, TakeLock, Ends
  <2>4. QED
    BY <1>3, <2>1, <2>2, <2>3
<1>4. CASE Commit(j)
  BY <1>4 DEF Commit, KeyTypeOK, Goto, Release, Ends
<1>5. CASE Fail(j)
  BY <1>5 DEF Fail, KeyTypeOK, Goto, Release, Ends
<1>6. QED
  BY <1>1, <1>2, <1>3, <1>4, <1>5 DEF Issue

\* ... and so does a restart.
LEMMA KeyTypesRestart ==
  ASSUME KeyTypeOK, Restart
  PROVE  KeyTypeOK'
BY OrgKeysAssumption DEF Restart, KeyTypeOK, Ends

\* At first nobody has found or made a key.
LEMMA KeyInvInit == KeyInit => KeyInv
<1> SUFFICES ASSUME KeyInit PROVE KeyInv
  OBVIOUS
<1>1. KeyTypeOK
  BY KeyTypesInit
<1>2. RowInv
  BY OrgKeysAssumption DEF KeyInit, RowInv, NoKey, TokensKeepKeys
<1>3. FoundInv
  BY DEF KeyInit, FoundInv, Signing, Creating
<1>4. SoleInv
  BY DEF KeyInit, SoleInv, Active, Replacing, NoKey
<1>5. QED
  BY <1>1, <1>2, <1>3, <1>4 DEF KeyInv

\* A session that is not finished, and that does not commit, changes no row.
LEMMA QuietRows ==
  ASSUME KeyInv, NEW j \in Issuers,
         BeginRegistration(j) \/ BeginRotation(j) \/ SelectKey(j) \/ Retire(j) \/ Create(j)
           \/ Sign(j) \/ Fail(j)
  PROVE  /\ RowInv'
         /\ keys' = keys /\ token' = token /\ secret' = secret
         /\ pc' = [pc EXCEPT ![j] = pc'[j]]
<1>1. keys' = keys /\ token' = token /\ secret' = secret
  BY DEF BeginRegistration, BeginRotation, SelectKey, Retire, Create, Sign, Fail
<1>2. pc' = [pc EXCEPT ![j] = pc'[j]] /\ pc[j] # "done"
  BY DEF BeginRegistration, BeginRotation, SelectKey, Retire, Create, Sign, Fail, Goto, KeyInv,
         KeyTypeOK, Ends
<1>3. \A i \in Issuers : pc'[i] # "done" => pc[i] # "done"
  BY <1>2 DEF KeyInv, KeyTypeOK
<1>4. RowInv'
  BY <1>1, <1>3 DEF KeyInv, RowInv, TokensKeepKeys, Created
<1>5. QED
  BY <1>1, <1>2, <1>4

\* A session that begins has found no key yet.
LEMMA BeginKeeps ==
  ASSUME KeyInv, NEW j \in Issuers, BeginRegistration(j) \/ BeginRotation(j)
  PROVE  FoundInv' /\ SoleInv'
<1>1. /\ pc[j] = "idle" /\ pc' = [pc EXCEPT ![j] = "selecting"]
      /\ UNCHANGED <<secret, keys, token, key, old, restarts, raced>>
  BY DEF BeginRegistration, BeginRotation, Goto
<1>2. FoundInv'
  BY <1>1 DEF KeyInv, KeyTypeOK, FoundInv, Signing, Creating, Live
<1>3. \A i \in Issuers : Replacing(i)' <=> Replacing(i)
  BY <1>1 DEF KeyInv, KeyTypeOK, Replacing
<1>4. SoleInv'
  BY <1>1, <1>3 DEF KeyInv, SoleInv, Active
<1>5. QED
  BY <1>2, <1>4

\* A session finds the active key, or that there is none it can use.
LEMMA SelectKeeps ==
  ASSUME KeyInv, NEW j \in Issuers, SelectKey(j)
  PROVE  FoundInv' /\ SoleInv'
<1> USE OrgKeysAssumption
<1>1. /\ pc[j] = "selecting" /\ UNCHANGED <<secret, keys, token, restarts>>
      /\ raced' = (raced \/ \E i \in Issuers \ {j} : Replacing(i))
      /\ old[j] = None /\ keys[j] = NoKey
  BY DEF SelectKey, KeyInv, FoundInv, RowInv
<1>2. CASE pc' = [pc EXCEPT ![j] = "failed"] /\ UNCHANGED <<key, old>>
  <2>1. FoundInv'
    BY <1>1, <1>2 DEF KeyInv, KeyTypeOK, FoundInv, Signing, Creating, Live
  <2>2. \A i \in Issuers : Replacing(i)' <=> Replacing(i)
    BY <1>1, <1>2 DEF KeyInv, KeyTypeOK, Replacing
  <2>3. SoleInv'
    BY <1>1, <1>2, <2>2 DEF KeyInv, SoleInv, Active
  <2>4. QED
    BY <2>1, <2>3
<1>3. CASE Active = {} /\ pc' = [pc EXCEPT ![j] = "creating"] /\ UNCHANGED <<key, old>>
  <2>1. FoundInv'
    BY <1>1, <1>3 DEF KeyInv, KeyTypeOK, FoundInv, Signing, Creating, Live
  <2>2. \A i \in Issuers \ {j} : Replacing(i)' <=> Replacing(i)
    BY <1>1, <1>3 DEF KeyInv, KeyTypeOK, Replacing
  <2>3. Active' = {}
    BY <1>1, <1>3 DEF Active
  <2>4. SoleInv'
    BY <1>1, <1>3, <2>2, <2>3 DEF SoleInv
  <2>5. QED
    BY <2>1, <2>4
<1>4. ASSUME NEW k \in Active, Active = {k}, Decrypts(k),
             key' = [key EXCEPT ![j] = k], old' = old, pc' = [pc EXCEPT ![j] = "signing"]
      PROVE  FoundInv' /\ SoleInv'
  <2>1. k \in Issuers /\ keys[k] = Live /\ k # j
    BY <1>1, <1>4 DEF Active, Decrypts, Live, KeyInv, KeyTypeOK, NoKey
  <2>2. FoundInv'
    BY <1>1, <1>4, <2>1 DEF KeyInv, KeyTypeOK, FoundInv, Signing, Creating, Live
  <2>3. \A i \in Issuers : Replacing(i)' <=> Replacing(i)
    BY <1>1, <1>4 DEF KeyInv, KeyTypeOK, Replacing
  <2>4. SoleInv'
    BY <1>1, <1>4, <2>3 DEF KeyInv, SoleInv, Active
  <2>5. QED
    BY <2>2, <2>4
<1>5. ASSUME NEW k \in Active, Active = {k}, ~Decrypts(k),
             old' = [old EXCEPT ![j] = k], key' = key, pc' = [pc EXCEPT ![j] = "retiring"]
      PROVE  FoundInv' /\ SoleInv'
  <2>1. k \in Issuers /\ keys[k].secret \notin {None, secret}
    BY <1>5 DEF Active, Decrypts, KeyInv, RowInv
  <2>2. FoundInv'
    BY <1>1, <1>5, <2>1 DEF KeyInv, KeyTypeOK, FoundInv, Signing, Creating, Live
  <2>3. \A i \in Issuers \ {j} : Replacing(i)' <=> Replacing(i)
    BY <1>1, <1>5 DEF KeyInv, KeyTypeOK, Replacing
  <2>4. Active' = {k} /\ old'[j] = k
    BY <1>1, <1>5 DEF Active, KeyInv, KeyTypeOK
  <2>5. SoleInv'
    BY <1>1, <2>3, <2>4 DEF SoleInv
  <2>6. QED
    BY <2>2, <2>5
<1>6. QED
  BY <1>2, <1>3, <1>4, <1>5 DEF SelectKey, Goto

\* A key is retired and another made by the holder of the lock.
LEMMA WorkKeeps ==
  ASSUME KeyInv, NEW j \in Issuers, Retire(j) \/ Create(j) \/ Sign(j) \/ Fail(j)
  PROVE  FoundInv' /\ SoleInv'
<1> USE OrgKeysAssumption
<1>1. UNCHANGED <<secret, keys, token, old, restarts, raced>>
  BY DEF Retire, Create, Sign, Fail
<1>2. \A i \in Issuers : Replacing(i)' => Replacing(i)
  <2>1. CASE Retire(j)
    BY <2>1 DEF Retire, Goto, KeyInv, KeyTypeOK, Replacing
  <2>2. CASE Create(j)
    BY <2>2 DEF Create, Goto, KeyInv, KeyTypeOK, Replacing
  <2>3. CASE Sign(j)
    BY <2>3 DEF Sign, Goto, KeyInv, KeyTypeOK, Replacing, FoundInv
  <2>4. CASE Fail(j)
    BY <2>4 DEF Fail, Goto, KeyInv, KeyTypeOK, Replacing
  <2>5. QED
    BY <2>1, <2>2, <2>3, <2>4
<1>3. SoleInv'
  BY <1>1, <1>2 DEF KeyInv, SoleInv, Active
<1>4. CASE Retire(j)
  <2>1. FoundInv'
    BY <1>1, <1>4 DEF Retire, Goto, KeyInv, KeyTypeOK, FoundInv, Signing, Creating, Live
  <2>2. QED
    BY <1>3, <2>1
<1>5. CASE Create(j)
  <2>1. FoundInv'
    BY <1>1, <1>5 DEF Create, Goto, KeyInv, KeyTypeOK, FoundInv, Signing, Creating, Live
  <2>2. QED
    BY <1>3, <2>1
<1>6. CASE Sign(j)
  <2>1. pc' = [pc EXCEPT ![j] = "signed"] /\ key' = key
    BY <1>6 DEF Sign, Goto
  <2>2. CASE pc[j] = "signing"
    <3>1. FoundInv'
      BY <1>1, <2>1, <2>2 DEF KeyInv, KeyTypeOK, FoundInv, Signing, Creating, Live
    <3>2. QED
      BY <1>3, <3>1
  <2>3. CASE pc[j] = "created"
    <3>1. key[j] = j /\ j # None
      BY <2>3 DEF KeyInv, FoundInv
    <3>2. \A i \in Issuers \ {j} : pc'[i] = pc[i]
      BY <2>1 DEF KeyInv, KeyTypeOK
    <3>3. FoundInv'
      BY <1>1, <2>1, <2>3, <3>1, <3>2 DEF KeyInv, KeyTypeOK, FoundInv, Signing, Creating, Live
    <3>4. QED
      BY <1>3, <3>3
  <2>4. QED
    BY <1>6, <2>2, <2>3 DEF Sign
<1>7. CASE Fail(j)
  <2>1. FoundInv'
    BY <1>1, <1>7 DEF Fail, Goto, KeyInv, KeyTypeOK, FoundInv, Signing, Creating, Live
  <2>2. QED
    BY <1>3, <2>1
<1>8. QED
  BY <1>4, <1>5, <1>6, <1>7

\* What a commit does to the rows: it retires the key the session has replaced,
\* adds its own, and leaves a key it has found as it is.
LEMMA CommitRows ==
  ASSUME KeyInv, NEW j \in Issuers, Commit(j)
  PROVE  /\ pc[j] = "signed" /\ pc' = [pc EXCEPT ![j] = "done"]
         /\ UNCHANGED <<secret, key, old, restarts, raced>>
         /\ key[j] \in Issuers
         /\ old[j] # key[j]
         /\ key[j] # j => keys' = keys /\ keys[key[j]] = Live
         /\ key[j] = j => keys[j] = NoKey
         /\ \A k \in Issuers : keys'[k] = IF k = old[j] THEN [keys[k] EXCEPT !.active = FALSE]
                                         ELSE IF k = key[j] THEN Live ELSE keys[k]
         /\ token' = [token EXCEPT ![j] = key[j]]
<1> USE OrgKeysAssumption
<1>1. /\ pc[j] = "signed" /\ pc' = [pc EXCEPT ![j] = "done"]
      /\ UNCHANGED <<secret, key, old, restarts, raced>>
      /\ token' = [token EXCEPT ![j] = key[j]]
      /\ keys' = [k \in Issuers |-> IF k = old[j] THEN [keys[k] EXCEPT !.active = FALSE]
                   ELSE IF k = key[j] THEN Live ELSE keys[k]]
  BY DEF Commit, Goto, Live
<1>2. key[j] \in Issuers
  BY <1>1 DEF KeyInv, KeyTypeOK, FoundInv
<1>3. key[j] # j => old[j] = None /\ keys[key[j]] = Live
  BY <1>1 DEF KeyInv, FoundInv, Signing
<1>4. keys[j] = NoKey
  BY <1>1 DEF KeyInv, RowInv
<1>5. old[j] # key[j]
  BY <1>1, <1>2, <1>3, <1>4 DEF KeyInv, FoundInv, Creating, NoKey
<1>6. key[j] # j => keys' = keys
  BY <1>1, <1>3 DEF KeyInv, KeyTypeOK
<1>7. QED
  BY <1>1, <1>2, <1>3, <1>4, <1>5, <1>6

\* A commit shows the key that the session made, and takes away those it replaced.
LEMMA CommitKeeps ==
  ASSUME KeyInv, NEW j \in Issuers, Commit(j)
  PROVE  RowInv' /\ FoundInv' /\ SoleInv'
<1> USE OrgKeysAssumption
<1>1. /\ pc[j] = "signed" /\ pc' = [pc EXCEPT ![j] = "done"]
      /\ UNCHANGED <<secret, key, old, restarts, raced>>
      /\ key[j] \in Issuers /\ old[j] # key[j]
      /\ token' = [token EXCEPT ![j] = key[j]]
  BY CommitRows
<1>2. ASSUME NEW k \in Issuers
      PROVE  /\ k \notin {old[j], key[j]} => keys'[k] = keys[k]
             /\ k = old[j] => keys'[k].active = FALSE /\ keys'[k].secret = keys[k].secret
             /\ k = key[j] => keys'[k] = Live /\ keys'[k].secret = secret
  <2>1. keys[k] \in [active : BOOLEAN, secret : Secrets \cup {None}]
    BY DEF KeyInv, KeyTypeOK
  <2> keys'[k] = IF k = old[j] THEN [keys[k] EXCEPT !.active = FALSE]
                 ELSE IF k = key[j] THEN Live ELSE keys[k]
    BY CommitRows
  <2>2. k \notin {old[j], key[j]} => keys'[k] = keys[k]
    OBVIOUS
  <2>3. k = old[j] => keys'[k] = [keys[k] EXCEPT !.active = FALSE]
    OBVIOUS
  <2>4. k = key[j] => keys'[k] = Live /\ keys'[k].secret = secret
    BY <1>1 DEF Live
  <2>5. QED
    BY <2>1, <2>2, <2>3, <2>4
<1>3. Live = [active |-> TRUE, secret |-> secret] /\ secret # None
  BY DEF Live, KeyInv, KeyTypeOK, OrgKeysAssumption
<1>4. key[j] # j => keys' = keys /\ keys[key[j]] = Live
  BY CommitRows
<1>5. key[j] = j => keys[j] = NoKey
  BY CommitRows
<1>6. old[j] # None => keys[old[j]].secret \notin {None, secret}
  BY <1>1 DEF KeyInv, FoundInv, Creating
<1>7. RowInv'
  <2>1. ASSUME NEW i \in Issuers, pc'[i] # "done"
        PROVE  keys'[i] = NoKey /\ token'[i] = None
    <3>1. i # j /\ pc[i] # "done" /\ keys[i] = NoKey /\ token[i] = None
      BY <1>1, <2>1 DEF KeyInv, KeyTypeOK, RowInv
    <3>2. token'[i] = None
      BY <1>1, <3>1 DEF KeyInv, KeyTypeOK
    <3>3. i # old[j] /\ i # key[j]
      BY <1>1, <1>3, <1>4, <1>6, <3>1 DEF NoKey
    <3>4. QED
      BY <1>2, <3>1, <3>2, <3>3
  <2>2. ASSUME NEW k \in Issuers, keys'[k].active
        PROVE  keys'[k].secret # None
    BY <1>2, <1>3, <2>2 DEF KeyInv, RowInv
  <2>3. ASSUME NEW i \in Issuers, token'[i] # None
        PROVE  token'[i] \in Created'
    <3>1. CASE i = j
      <4>1. token'[i] = key[j] /\ keys'[key[j]].secret # None
        BY <1>1, <1>2, <1>3, <3>1 DEF KeyInv, KeyTypeOK
      <4>2. QED
        BY <1>1, <4>1 DEF Created
    <3>2. CASE i # j
      <4>1. token'[i] = token[i] /\ token[i] \in Created
        BY <1>1, <2>3, <3>2 DEF KeyInv, KeyTypeOK, RowInv, TokensKeepKeys
      <4>2. QED
        BY <1>2, <1>3, <4>1 DEF Created
    <3>3. QED
      BY <3>1, <3>2
  <2>4. QED
    BY <2>1, <2>2, <2>3 DEF RowInv, TokensKeepKeys
<1>8. FoundInv'
  <2>1. ASSUME NEW i \in Issuers, Signing(i)', key[i] # i
        PROVE  keys'[key[i]] = Live
    <3>1. i # j /\ Signing(i) /\ keys[key[i]] = Live /\ key[i] \in Issuers
      BY <1>1, <2>1 DEF KeyInv, KeyTypeOK, FoundInv, Signing
    <3>2. key[i] # old[j]
      BY <1>3, <1>6, <3>1
    <3>3. QED
      BY <1>2, <3>1, <3>2
  <2>2. ASSUME NEW i \in Issuers, Creating(i)', old[i] # None
        PROVE  keys'[old[i]].secret \notin {None, secret}
    <3>1. /\ i # j /\ Creating(i) /\ old[i] \in Issuers
          /\ keys[old[i]].secret \notin {None, secret}
      BY <1>1, <2>2 DEF KeyInv, KeyTypeOK, FoundInv, Creating
    <3>2. keys'[old[i]].secret = keys[old[i]].secret
      <4>1. CASE key[j] = j
        <5>1. old[i] # key[j]
          BY <1>5, <3>1, <4>1 DEF NoKey
        <5>2. QED
          BY <1>2, <3>1, <5>1
      <4>2. CASE key[j] # j
        BY <1>4, <4>2
      <4>3. QED
        BY <4>1, <4>2
    <3>3. QED
      BY <3>1, <3>2
  <2>3. Live' = Live
    BY <1>1 DEF Live
  <2>4. QED
    BY <1>1, <2>1, <2>2, <2>3 DEF KeyInv, KeyTypeOK, FoundInv, Signing
<1>9. SoleInv'
  <2>1. SUFFICES ASSUME ~raced PROVE SoleInv'
    BY <1>1 DEF SoleInv
  <2>2. \A i \in Issuers : Replacing(i)' <=> i # j /\ Replacing(i)
    BY <1>1 DEF KeyInv, KeyTypeOK, Replacing
  <2>3. CASE key[j] # j
    <3>1. Active' = Active
      BY <1>4, <2>3 DEF Active
    <3>2. QED
      BY <1>1, <2>1, <2>2, <3>1 DEF KeyInv, SoleInv
  <2>4. CASE key[j] = j
    <3>1. Replacing(j) /\ Active \subseteq {old[j]}
      BY <1>1, <2>1, <2>4 DEF Replacing, KeyInv, SoleInv
    <3>2. \A i \in Issuers : ~Replacing(i)'
      BY <2>1, <2>2, <3>1 DEF KeyInv, SoleInv
    <3>3. Active' \subseteq {j}
      BY <1>1, <1>2, <2>4, <3>1 DEF Active
    <3>4. QED
      BY <3>2, <3>3 DEF SoleInv
  <2>5. QED
    BY <2>3, <2>4
<1>10. QED
  BY <1>7, <1>8, <1>9

\* A restart ends every session, and no row knows of it.
LEMMA RestartKeeps ==
  ASSUME KeyInv, Restart
  PROVE  RowInv' /\ FoundInv' /\ SoleInv'
<1>1. /\ UNCHANGED <<keys, token, key, old, raced>>
      /\ \A j \in Issuers : /\ pc'[j] \in Ends \cup {"idle"}
                            /\ pc'[j] \in {"idle", "done"} => pc[j] = pc'[j]
                            /\ pc[j] = "done" => pc'[j] = "done"
  BY DEF Restart, Ends
<1>2. RowInv'
  BY <1>1 DEF KeyInv, RowInv, TokensKeepKeys, Created
<1>3. FoundInv'
  BY <1>1 DEF KeyInv, FoundInv, Signing, Creating, Ends
<1>4. \A j \in Issuers : ~Replacing(j)'
  BY <1>1 DEF Replacing, Ends
<1>5. SoleInv'
  BY <1>1, <1>4 DEF KeyInv, SoleInv, Active
<1>6. QED
  BY <1>2, <1>3, <1>5

\* What is known of keys is kept by sessions and restarts.
LEMMA KeyInvStep ==
  ASSUME KeyInv, KeyNext \/ Restart
  PROVE  KeyInv'
<1>1. ASSUME NEW j \in Issuers, BeginRegistration(j) \/ BeginRotation(j)
      PROVE  KeyInv'
  BY <1>1, KeyTypesStep, QuietRows, BeginKeeps DEF KeyInv
<1>2. ASSUME NEW j \in Issuers, Issue(j)
      PROVE  KeyInv'
  <2>1. KeyTypeOK'
    BY <1>2, KeyTypesStep DEF KeyInv
  <2>2. CASE SelectKey(j)
    BY <2>1, <2>2, QuietRows, SelectKeeps DEF KeyInv
  <2>3. CASE Retire(j) \/ Create(j) \/ Sign(j) \/ Fail(j)
    BY <2>1, <2>3, QuietRows, WorkKeeps DEF KeyInv
  <2>4. CASE Commit(j)
    BY <2>1, <2>4, CommitKeeps DEF KeyInv
  <2>5. QED
    BY <1>2, <2>2, <2>3, <2>4 DEF Issue
<1>3. CASE Restart
  BY <1>3, KeyTypesRestart, RestartKeeps DEF KeyInv
<1>4. QED
  BY <1>1, <1>2, <1>3 DEF KeyNext, Issuers

\* What a key step leaves: a row that is written stays, a key that is retired
\* stays so, and a token that is handed out is handed out.
LEMMA KeysForward ==
  ASSUME KeyInv, KeyNext \/ Restart \/ UNCHANGED keyVars
  PROVE  /\ \A k \in Issuers : keys[k].secret # None =>
              keys'[k].secret # None /\ (keys'[k].active => keys[k].active)
         /\ \A k \in Issuers : keys'[k].active \/ keys'[k].secret = None =>
              keys[k].active \/ keys[k].secret = None
         /\ \A j \in Issuers : token[j] # None => token'[j] = token[j]
<1> USE OrgKeysAssumption
<1>1. CASE keys' = keys /\ token' = token
  BY <1>1
<1>2. ASSUME NEW j \in Issuers, Commit(j)
      PROVE  /\ \A k \in Issuers : keys[k].secret # None =>
                  keys'[k].secret # None /\ (keys'[k].active => keys[k].active)
             /\ \A k \in Issuers : keys'[k].active \/ keys'[k].secret = None =>
                  keys[k].active \/ keys[k].secret = None
             /\ \A i \in Issuers : token[i] # None => token'[i] = token[i]
  <2>1. RowInv /\ RowInv'
    BY <1>2, CommitKeeps DEF KeyInv
  <2>2. \A i \in Issuers : token[i] # None => token'[i] = token[i]
    BY <1>2, <2>1, CommitRows DEF RowInv, KeyInv, KeyTypeOK
  <2>3. CASE key[j] # j
    BY <1>2, <2>2, <2>3, CommitRows
  <2>4. ASSUME key[j] = j, NEW k \in Issuers
        PROVE  /\ keys[k].secret # None =>
                    keys'[k].secret # None /\ (keys'[k].active => keys[k].active)
               /\ keys'[k].active \/ keys'[k].secret = None =>
                    keys[k].active \/ keys[k].secret = None
    <3>1. keys[j].secret = None
      BY <1>2, <2>4, CommitRows DEF NoKey
    <3>2. CASE k = j
      BY <3>1, <3>2
    <3>3. CASE k # j /\ k = old[j]
      <4>1. keys'[k] = [keys[k] EXCEPT !.active = FALSE]
        BY <1>2, <3>3, CommitRows
      <4>2. keys'[k].active = FALSE /\ keys'[k].secret = keys[k].secret
        BY <4>1 DEF KeyInv, KeyTypeOK
      <4>3. QED
        BY <4>2
    <3>4. CASE k # j /\ k # old[j]
      <4>1. keys'[k] = keys[k]
        BY <1>2, <2>4, <3>4, CommitRows
      <4>2. QED
        BY <4>1
    <3>5. QED
      BY <3>2, <3>3, <3>4
  <2>5. CASE key[j] = j
    BY <2>2, <2>4, <2>5
  <2>6. QED
    BY <2>3, <2>5
<1>3. CASE Restart \/ UNCHANGED keyVars
  BY <1>1, <1>3 DEF Restart, keyVars
<1>4. ASSUME NEW j \in Issuers, BeginRegistration(j) \/ BeginRotation(j) \/ Issue(j), ~Commit(j)
      PROVE  keys' = keys /\ token' = token
  BY <1>4, QuietRows DEF Issue
<1>5. QED
  BY <1>1, <1>2, <1>3, <1>4 DEF KeyNext, Issuers, Issue

\* The steps of the consumers and of the clock are none of the keys' business.
LEMMA KeyInvNext ==
  ASSUME KeyInv, [Next]_vars
  PROVE  KeyInv' /\ (KeyNext \/ Restart \/ UNCHANGED keyVars)
<1>1. KeyNext \/ Restart \/ UNCHANGED keyVars
  BY DEF Next, KeyStep, ServerRestart, Lookup, Publish, Store, FetchFails, CreateChallenge,
         Respond, SelectActiveKey, Conclude, Tick, Finished, vars
<1>2. CASE UNCHANGED keyVars
  <2>1. KeyTypeOK'
    BY <1>2 DEF KeyInv, KeyTypeOK, keyVars
  <2>2. RowInv'
    BY <1>2 DEF KeyInv, RowInv, TokensKeepKeys, Created, keyVars
  <2>3. FoundInv'
    BY <1>2 DEF KeyInv, FoundInv, Signing, Creating, Live, keyVars
  <2>4. SoleInv'
    BY <1>2 DEF KeyInv, SoleInv, Active, Replacing, keyVars
  <2>5. QED
    BY <1>1, <2>1, <2>2, <2>3, <2>4 DEF KeyInv
<1>3. QED
  BY <1>1, <1>2, KeyInvStep

\* What is known of keys holds throughout.
LEMMA KeyInvHolds == Spec => []KeyInv
<1>1. Init => KeyInv
  BY KeyInvInit DEF Init
<1>2. KeyInv /\ [Next]_vars => KeyInv'
  BY KeyInvNext
<1>3. QED
  BY <1>1, <1>2, PTL DEF Spec

\* Every token that was handed out keeps the key it was signed with: its row is
\* committed, and no replacement, rollback or restart takes it away.
THEOREM TokensKeepKeysCorrect == Spec => []TokensKeepKeys
<1>1. KeyInv => TokensKeepKeys
  BY DEF KeyInv, RowInv
<1>2. QED
  BY <1>1, KeyInvHolds, PTL

\* An organisation has one active key at a time, whatever becomes of the secret
\* and of the sessions, unless one looked for it while another was replacing it.
THEOREM OneKeyUnlessRacedCorrect == Spec => []OneKeyUnlessRaced
<1>1. ASSUME KeyInv, ~raced
      PROVE  Cardinality(Active) <= 1
  <2>1. CASE Active = {}
    BY <2>1, FS_EmptySet
  <2>2. CASE Active # {}
    <3>1. PICK k \in Active : TRUE
      BY <2>2
    <3>2. Active = {k}
      BY <1>1, <3>1 DEF KeyInv, SoleInv
    <3>3. Cardinality({k}) = 1
      BY FS_Singleton
    <3>4. QED
      BY <3>2, <3>3
  <2>3. QED
    BY <2>1, <2>2
<1>2. KeyInv => OneKeyUnlessRaced
  BY <1>1 DEF OneKeyUnlessRaced
<1>3. QED
  BY <1>2, KeyInvHolds, PTL

-----------------------------------------------------------------------------
(* Their consumers. *)

\* At first nothing has been published, verified or asked.
LEMMA TypesInit == Init => TypeOK
<1> USE OrgKeysAssumption, TrustAssumption
<1> SUFFICES ASSUME Init PROVE TypeOK
  OBVIOUS
<1>1. KeyTypeOK
  BY KeyTypesInit DEF Init
<1>2. now \in Times /\ cache \in [keys : SUBSET Issuers, expires : 0 .. MaxTime + TTL]
  BY DEF Init, Times, NoEntry
<1>3. retired \in [Issuers -> 0 .. Never] /\ since \in [Consumers -> Times]
  BY DEF Init, Times, Never
<1>4. challenge \in [Challenges -> [state : {"none", "open", "expired", "answered", "lost"},
                                    expires : 0 .. MaxTime + ChallengeTTL]]
  BY DEF Init, NoChallenge
<1>5. hopeless \in [Responses -> BOOLEAN]
  BY DEF Init
<1>6. /\ calls \in Scenarios
      /\ step \in [Consumers -> {"idle", "fetching", "answered", "selecting", "selected",
                                 "accepted", "refused", "failed"}]
      /\ subject \in [Consumers -> Issuers \cup {None}]
      /\ answer \in [Consumers -> SUBSET Issuers]
      /\ claimed \in [Responses -> Challenges \cup {None}]
  BY DEF Init
<1>7. QED
  BY <1>1, <1>2, <1>3, <1>4, <1>5, <1>6 DEF TypeOK

\* Dropping expired challenges leaves a table of challenges.
LEMMA PrunedType ==
  ASSUME TypeOK
  PROVE  PrunedChallenges \in [Challenges ->
           [state : {"none", "open", "expired", "answered", "lost"},
            expires : 0 .. MaxTime + ChallengeTTL]]
BY DEF TypeOK, PrunedChallenges

\* A step of the keys keeps the types of their consumers.
LEMMA TypesKeyStep ==
  ASSUME TypeOK, KeyTypeOK', KeyStep
  PROVE  TypeOK'
<1>1. retired' \in [Issuers -> 0 .. Never]
  BY TrustAssumption DEF TypeOK, KeyStep, Never, Times
<1>2. UNCHANGED <<calls, now, cache, step, subject, answer, since, challenge, claimed, hopeless>>
  BY DEF KeyStep
<1>3. QED
  BY <1>1, <1>2 DEF TypeOK, Times

\* A restart keeps them.
LEMMA TypesRestart ==
  ASSUME TypeOK, KeyTypeOK', ServerRestart
  PROVE  TypeOK'
<1>1. challenge' \in [Challenges -> [state : {"none", "open", "expired", "answered", "lost"},
                                     expires : 0 .. MaxTime + ChallengeTTL]]
  BY DEF TypeOK, ServerRestart
<1>2. step' \in [Consumers -> {"idle", "fetching", "answered", "selecting", "selected",
                               "accepted", "refused", "failed"}]
  BY DEF TypeOK, ServerRestart
<1>3. UNCHANGED <<calls, now, retired, cache, subject, answer, since, claimed, hopeless>>
  BY DEF ServerRestart
<1>4. QED
  BY <1>1, <1>2, <1>3 DEF TypeOK, Times

\* A verification keeps them.
LEMMA TypesVerifier ==
  ASSUME TypeOK, KeyTypeOK', NEW v \in Verifications,
         (\E j \in Issuers : Lookup(v, j)) \/ Publish(v) \/ Store(v) \/ FetchFails(v)
  PROVE  TypeOK'
<1> USE TrustAssumption
<1>1. v \in Consumers
  BY DEF Consumers
<1>2. ASSUME NEW j \in Issuers, Lookup(v, j)
      PROVE  TypeOK'
  <2>1. /\ subject' = [subject EXCEPT ![v] = j] /\ since' = [since EXCEPT ![v] = now]
        /\ UNCHANGED <<calls, now, retired, answer, challenge, claimed, hopeless>>
    BY <1>2 DEF Lookup
  <2>2. cache' \in [keys : SUBSET Issuers, expires : 0 .. MaxTime + TTL]
    BY <1>2 DEF Lookup, TypeOK, NoEntry
  <2>3. \E label \in {"fetching", "accepted", "refused"} : step' = [step EXCEPT ![v] = label]
    BY <1>2 DEF Lookup, To, Verdict
  <2>4. QED
    BY <1>1, <2>1, <2>2, <2>3 DEF TypeOK, Times
<1>3. CASE Publish(v)
  BY <1>1, <1>3 DEF Publish, To, TypeOK, Times, Active
<1>4. CASE Store(v)
  <2>1. /\ since' = [since EXCEPT ![v] = now]
        /\ UNCHANGED <<calls, now, retired, subject, answer, challenge, claimed, hopeless>>
    BY <1>4 DEF Store
  <2>2. cache' \in [keys : SUBSET Issuers, expires : 0 .. MaxTime + TTL]
    BY <1>1, <1>4 DEF Store, TypeOK, Times
  <2>3. \E label \in {"accepted", "refused"} : step' = [step EXCEPT ![v] = label]
    BY <1>4 DEF Store, To, Verdict
  <2>4. QED
    BY <1>1, <2>1, <2>2, <2>3 DEF TypeOK, Times
<1>5. CASE FetchFails(v)
  BY <1>1, <1>5 DEF FetchFails, To, TypeOK, Times
<1>6. QED
  BY <1>2, <1>3, <1>4, <1>5

\* A response keeps them.
LEMMA TypesResponse ==
  ASSUME TypeOK, KeyTypeOK', NEW p \in Responses,
         (\E c \in Challenges, j \in Issuers : Respond(p, c, j)) \/ SelectActiveKey(p) \/ Conclude(p)
  PROVE  TypeOK'
<1> USE TrustAssumption
<1>1. p \in Consumers
  BY DEF Consumers
<1>2. ASSUME NEW c \in Challenges, NEW j \in Issuers, Respond(p, c, j)
      PROVE  TypeOK'
  <2>1. /\ subject' = [subject EXCEPT ![p] = j] /\ claimed' = [claimed EXCEPT ![p] = c]
        /\ UNCHANGED <<calls, now, retired, cache, answer, since>>
        /\ challenge' = PrunedChallenges
    BY <1>2 DEF Respond
  <2>2. \E label \in {"selecting", "refused"} : step' = [step EXCEPT ![p] = label]
    BY <1>2 DEF Respond, To
  <2>3. hopeless' \in [Responses -> BOOLEAN]
    <3>1. \E b \in BOOLEAN : hopeless' = [hopeless EXCEPT ![p] = b]
      <4> DEFINE b == \/ challenge[c].state # "open" \/ challenge[c].expires <= now
                      \/ \E q \in Responses : claimed[q] = c /\ step[q] = "accepted"
                      \/ token[j] \notin Active
      <4>1. hopeless' = [hopeless EXCEPT ![p] = b]
        BY <1>2 DEF Respond
      <4>2. b \in BOOLEAN
        OBVIOUS
      <4> HIDE DEF b
      <4>3. QED
        BY <4>1, <4>2
    <3>2. QED
      BY <3>1 DEF TypeOK
  <2>4. QED
    BY <1>1, <2>1, <2>2, <2>3, PrunedType DEF TypeOK, Times
<1>3. CASE SelectActiveKey(p)
  <2>1. answer' \in [Consumers -> SUBSET Issuers]
    BY <1>1, <1>3 DEF SelectActiveKey, TypeOK, Active
  <2>2. QED
    BY <1>1, <1>3, <2>1 DEF SelectActiveKey, To, TypeOK, Times
<1>4. CASE Conclude(p)
  <2>1. \E label \in {"accepted", "refused"} : step' = [step EXCEPT ![p] = label]
    BY <1>4 DEF Conclude, To, Verdict
  <2>2. challenge' \in [Challenges -> [state : {"none", "open", "expired", "answered", "lost"},
                                       expires : 0 .. MaxTime + ChallengeTTL]]
    <3> DEFINE Entries == [state : {"none", "open", "expired", "answered", "lost"},
                           expires : 0 .. MaxTime + ChallengeTTL]
    <3>1. challenge' = [c \in Challenges |-> IF c = claimed[p]
                         THEN [challenge[c] EXCEPT !.state = "answered"] ELSE challenge[c]]
      BY <1>4 DEF Conclude, TypeOK
    <3>2. \A c \in Challenges : [challenge[c] EXCEPT !.state = "answered"] \in Entries
      BY DEF TypeOK
    <3>3. \A c \in Challenges : challenge[c] \in Entries
      BY DEF TypeOK
    <3> HIDE DEF Entries
    <3>4. challenge' \in [Challenges -> Entries]
      BY <3>1, <3>2, <3>3
    <3>5. QED
      BY <3>4 DEF Entries
  <2>3. /\ since' = [since EXCEPT ![p] = now]
        /\ UNCHANGED <<calls, now, retired, cache, subject, answer, claimed, hopeless>>
    BY <1>4 DEF Conclude
  <2>4. QED
    BY <1>1, <2>1, <2>2, <2>3 DEF TypeOK, Times
<1>5. QED
  BY <1>2, <1>3, <1>4

\* Every step keeps them.
LEMMA TypesNext ==
  ASSUME KeyInv, TypeOK, [Next]_vars
  PROVE  TypeOK'
<1> USE TrustAssumption
<1>1. KeyTypeOK'
  BY KeyInvNext DEF KeyInv
<1>2. CASE KeyStep
  BY <1>1, <1>2, TypesKeyStep
<1>3. CASE ServerRestart
  BY <1>1, <1>3, TypesRestart
<1>4. ASSUME NEW v \in Verifications,
             (\E j \in Issuers : Lookup(v, j)) \/ Publish(v) \/ Store(v) \/ FetchFails(v)
      PROVE  TypeOK'
  BY <1>1, <1>4, TypesVerifier
<1>5. ASSUME NEW c \in Challenges, CreateChallenge(c)
      PROVE  TypeOK'
  <2>1. challenge' \in [Challenges -> [state : {"none", "open", "expired", "answered", "lost"},
                                       expires : 0 .. MaxTime + ChallengeTTL]]
    BY <1>5, PrunedType DEF CreateChallenge, TypeOK, Times
  <2>2. QED
    BY <1>1, <1>5, <2>1 DEF CreateChallenge, TypeOK, Times
<1>6. ASSUME NEW p \in Responses,
             (\E c \in Challenges, j \in Issuers : Respond(p, c, j))
               \/ SelectActiveKey(p) \/ Conclude(p)
      PROVE  TypeOK'
  BY <1>1, <1>6, TypesResponse
<1>7. CASE Tick
  BY <1>1, <1>7 DEF Tick, TypeOK, Times
<1>8. CASE UNCHANGED vars
  BY <1>1, <1>8 DEF vars, trustVars, TypeOK, Times
<1>9. QED
  BY <1>2, <1>3, <1>4, <1>5, <1>6, <1>7, <1>8 DEF Next, Finished

-----------------------------------------------------------------------------
\* A key step may retire a key now; nothing else is ever written to retired.
LEMMA RetiredStep ==
  ASSUME KeyInv, TypeOK, RetiredInv, [Next]_vars
  PROVE  /\ RetiredInv'
         /\ now' \in {now, now + 1}
         /\ now' = now \/ UNCHANGED <<keyVars, retired, cache, step, answer, since>>
         /\ \A k \in Issuers : retired'[k] \in {retired[k], now}
<1> USE TrustAssumption DEF Times, Never
<1>0. KeyInv' /\ TypeOK'
  BY KeyInvNext, TypesNext
<1>1. CASE KeyStep
  <2>1. now' = now /\ KeyNext
    BY <1>1 DEF KeyStep
  <2>2. \A k \in Issuers :
          retired'[k] = IF keys[k].active /\ ~keys'[k].active THEN now ELSE retired[k]
    BY <1>1 DEF KeyStep
  <2>3. \A k \in Issuers : retired'[k] \in {retired[k], now}
    BY <2>2
  <2>4. ASSUME NEW k \in Issuers, keys'[k].active \/ keys'[k].secret = None
        PROVE  retired'[k] = Never
    <3>1. keys[k].active \/ keys[k].secret = None
      BY <2>1, <2>4, KeysForward
    <3>2. ~(keys[k].active /\ ~keys'[k].active)
      BY <2>1, <2>4, KeysForward DEF KeyInv, RowInv
    <3>3. retired'[k] = retired[k]
      BY <2>2, <3>2
    <3>4. QED
      BY <3>1, <3>3 DEF RetiredInv
  <2>5. \A k \in Issuers : retired'[k] # Never => retired'[k] <= now
    BY <2>3 DEF RetiredInv, TypeOK
  <2>6. QED
    BY <2>1, <2>3, <2>4, <2>5 DEF RetiredInv
<1>2. CASE keys' = keys /\ retired' = retired /\ now' = now
  BY <1>2 DEF RetiredInv
<1>3. CASE Tick
  <2>1. keys' = keys /\ retired' = retired /\ now' = now + 1
    BY <1>3 DEF Tick, keyVars
  <2>2. RetiredInv'
    BY <2>1 DEF RetiredInv, TypeOK
  <2>3. QED
    BY <1>3, <2>1, <2>2 DEF Tick
<1>4. CASE ~KeyStep /\ ~Tick
  <2>1. keys' = keys /\ retired' = retired /\ now' = now
    BY <1>4 DEF Next, ServerRestart, Restart, Lookup, Publish, Store, FetchFails,
               CreateChallenge, Respond, SelectActiveKey, Conclude, Finished, vars, trustVars, keyVars
  <2>2. QED
    BY <1>2, <2>1
<1>5. QED
  BY <1>1, <1>3, <1>4

\* A token and the subject of a consumer are chosen once.
LEMMA SubjectNext ==
  ASSUME KeyInv, TypeOK, SubjectInv, [Next]_vars
  PROVE  SubjectInv'
<1> USE OrgKeysAssumption, TrustAssumption
<1>1. \A j \in Issuers : token[j] # None => token'[j] = token[j]
  BY KeyInvNext, KeysForward
<1>2. ASSUME \A s \in Consumers : /\ step'[s] # "idle" => step[s] # "idle"
                                  /\ subject'[s] = subject[s]
      PROVE  SubjectInv'
  BY <1>1, <1>2 DEF SubjectInv, TypeOK
<1>3. ASSUME NEW s \in Consumers, NEW j \in Issuers, token[j] # None, token' = token,
             subject' = [subject EXCEPT ![s] = j],
             \A r \in Consumers \ {s} : step'[r] = step[r]
      PROVE  SubjectInv'
  BY <1>3 DEF SubjectInv, TypeOK
<1>4. CASE KeyStep \/ Tick \/ UNCHANGED vars
  BY <1>2, <1>4 DEF KeyStep, Tick, vars, trustVars
<1>5. CASE ServerRestart
  BY <1>2, <1>5 DEF ServerRestart
<1>6. ASSUME NEW v \in Verifications, NEW j \in Issuers, Lookup(v, j)
      PROVE  SubjectInv'
  <2>1. /\ v \in Consumers /\ token[j] # None /\ token' = token
        /\ subject' = [subject EXCEPT ![v] = j]
    BY <1>6 DEF Lookup, Issued, Consumers, keyVars
  <2>2. \A r \in Consumers \ {v} : step'[r] = step[r]
    BY <1>6 DEF Lookup, To, TypeOK
  <2>3. QED
    BY <1>3, <2>1, <2>2
<1>7. ASSUME NEW v \in Verifications, Publish(v) \/ Store(v) \/ FetchFails(v)
      PROVE  SubjectInv'
  BY <1>2, <1>7 DEF Publish, Store, FetchFails, To, TypeOK, Consumers
<1>8. ASSUME NEW p \in Responses, NEW c \in Challenges, NEW j \in Issuers, Respond(p, c, j)
      PROVE  SubjectInv'
  <2>1. /\ p \in Consumers /\ token[j] # None /\ token' = token
        /\ subject' = [subject EXCEPT ![p] = j]
    BY <1>8 DEF Respond, Issued, Consumers, keyVars
  <2>2. \A r \in Consumers \ {p} : step'[r] = step[r]
    BY <1>8 DEF Respond, To, TypeOK
  <2>3. QED
    BY <1>3, <2>1, <2>2
<1>9. ASSUME NEW p \in Responses, SelectActiveKey(p) \/ Conclude(p)
      PROVE  SubjectInv'
  BY <1>2, <1>9 DEF SelectActiveKey, Conclude, To, TypeOK, Consumers
<1>10. ASSUME NEW c \in Challenges, CreateChallenge(c)
       PROVE  SubjectInv'
  BY <1>2, <1>10 DEF CreateChallenge
<1>11. QED
  BY <1>4, <1>5, <1>6, <1>7, <1>8, <1>9, <1>10 DEF Next, Finished

\* Beliefs survive every step in which no fetch begins, is answered or ends well.
LEMMA BeliefKeeps ==
  ASSUME KeyInv, TypeOK, RetiredInv, SubjectInv, BeliefInv, [Next]_vars, now' = now, cache' = cache,
         \A v \in Verifications : /\ step'[v] \in {step[v], "failed"}
                                  /\ subject'[v] = subject[v] /\ since'[v] = since[v]
                                  /\ answer'[v] = answer[v]
  PROVE  BeliefInv'
<1> USE TrustAssumption DEF Times, Never
<1>1. TypeOK' /\ \A k \in Issuers : retired'[k] \in {retired[k], now}
  BY TypesNext, RetiredStep
<1>2. \A v \in Verifications : v \in Consumers
  BY DEF Consumers
<1>3. ASSUME NEW v \in Verifications, step'[v] = "answered", NEW k \in answer'[v]
      PROVE  since'[v] <= retired'[k]
  <2>1. step[v] = "answered" /\ k \in answer[v] /\ k \in Issuers
    BY <1>2, <1>3 DEF TypeOK
  <2>2. since[v] <= retired[k] /\ since[v] <= now
    BY <2>1 DEF BeliefInv
  <2>3. QED
    BY <1>1, <2>1, <2>2
<1>4. ASSUME NEW k \in cache'.keys
      PROVE  cache'.expires <= retired'[k] + FetchTime + TTL
  <2>1. k \in Issuers /\ cache.expires <= retired[k] + FetchTime + TTL /\ cache.expires <= now + TTL
    BY <1>4 DEF BeliefInv, TypeOK
  <2>2. retired[k] \in 0 .. MaxTime + 1 /\ now \in 0 .. MaxTime
        /\ cache.expires \in 0 .. MaxTime + TTL
    BY <2>1 DEF TypeOK
  <2>3. QED
    BY <1>1, <2>1, <2>2
<1>5. ASSUME NEW v \in Verifications, step'[v] = "accepted"
      PROVE  since'[v] <= retired'[token'[subject'[v]]] + FetchTime + TTL
  <2>1. step[v] = "accepted" /\ since[v] <= now
    BY <1>5 DEF BeliefInv
  <2>2. subject[v] \in Issuers /\ token[subject[v]] # None
    BY <1>2, <2>1 DEF SubjectInv, TypeOK
  <2>3. token'[subject[v]] = token[subject[v]] /\ token[subject[v]] \in Issuers
    BY <2>2, KeyInvNext, KeysForward DEF TypeOK, KeyTypeOK
  <2>4. since[v] <= retired[token[subject[v]]] + FetchTime + TTL
    BY <2>1 DEF BeliefInv, BoundedTrust
  <2>5. retired[token[subject[v]]] \in 0 .. MaxTime + 1 /\ now \in 0 .. MaxTime
        /\ since[v] \in 0 .. MaxTime
    BY <1>2, <2>3 DEF TypeOK
  <2>6. QED
    BY <1>1, <2>1, <2>3, <2>4, <2>5
<1>6. cache'.expires <= now' + TTL
  BY DEF BeliefInv
<1>7. /\ \A v \in Verifications : step'[v] \in {"fetching", "answered"} =>
           since'[v] <= now' /\ now' <= since'[v] + FetchTime
      /\ \A v \in Verifications : since'[v] <= now'
  BY DEF BeliefInv
<1>8. QED
  BY <1>3, <1>4, <1>5, <1>6, <1>7 DEF BeliefInv, BoundedTrust

\* A look-up in the cache believes what the cache does.
LEMMA LookupBelief ==
  ASSUME KeyInv, TypeOK, RetiredInv, SubjectInv, BeliefInv,
         NEW v \in Verifications, NEW j \in Issuers, Lookup(v, j)
  PROVE  BeliefInv'
<1> USE TrustAssumption DEF Times, Never
<1>1. /\ v \in Consumers /\ token[j] # None /\ step[v] = "idle"
      /\ subject' = [subject EXCEPT ![v] = j] /\ since' = [since EXCEPT ![v] = now]
      /\ UNCHANGED <<token, now, retired, answer>>
  BY DEF Lookup, Issued, Consumers, keyVars
<1>2. \A w \in Verifications \ {v} : /\ w \in Consumers /\ step'[w] = step[w]
                                     /\ subject'[w] = subject[w] /\ since'[w] = since[w]
  BY DEF Lookup, To, TypeOK, Consumers
<1>3. subject'[v] = j /\ since'[v] = now /\ now \in 0 .. MaxTime
  BY <1>1 DEF TypeOK
<1>4. token[j] \in Issuers /\ retired[token[j]] \in 0 .. MaxTime + 1
  BY <1>1 DEF TypeOK, KeyTypeOK
<1>5. CASE now < cache.expires
  <2>1. cache' = cache /\ step'[v] = Verdict(j, cache.keys)
    BY <1>1, <1>5 DEF Lookup, To, TypeOK
  <2>2. step'[v] = "accepted" => token[j] \in cache.keys
    BY <2>1 DEF Verdict
  <2>3. step'[v] = "accepted" => now <= retired[token[j]] + FetchTime + TTL
    BY <1>3, <1>4, <1>5, <2>2 DEF BeliefInv, TypeOK
  <2>4. step'[v] \notin {"fetching", "answered"}
    BY <2>1 DEF Verdict
  <2>5. QED
    BY <1>1, <1>2, <1>3, <1>4, <2>1, <2>3, <2>4 DEF BeliefInv, BoundedTrust
<1>6. CASE ~(now < cache.expires)
  <2>1. cache' = NoEntry /\ step'[v] = "fetching"
    BY <1>1, <1>6 DEF Lookup, To, TypeOK
  <2>2. cache'.keys = {} /\ cache'.expires = 0
    BY <2>1 DEF NoEntry
  <2>3. QED
    BY <1>1, <1>2, <1>3, <1>4, <2>1, <2>2 DEF BeliefInv, BoundedTrust
<1>7. QED
  BY <1>5, <1>6

\* The gateway publishes what is true now, after the fetch began.
LEMMA PublishBelief ==
  ASSUME KeyInv, TypeOK, RetiredInv, SubjectInv, BeliefInv, NEW v \in Verifications, Publish(v)
  PROVE  BeliefInv'
<1> USE TrustAssumption DEF Times, Never
<1>1. /\ v \in Consumers /\ step[v] = "fetching"
      /\ step' = [step EXCEPT ![v] = "answered"] /\ answer' = [answer EXCEPT ![v] = Active]
      /\ UNCHANGED <<token, now, retired, cache, subject, since>>
  BY DEF Publish, To, Consumers, keyVars
<1>2. \A w \in Verifications \ {v} : w \in Consumers /\ step'[w] = step[w] /\ answer'[w] = answer[w]
  BY <1>1 DEF TypeOK, Consumers
<1>3. step'[v] = "answered" /\ answer'[v] = Active /\ since[v] \in 0 .. MaxTime
  BY <1>1 DEF TypeOK
<1>4. \A k \in Active : since[v] <= retired[k]
  BY <1>3 DEF RetiredInv, Active
<1>5. QED
  BY <1>1, <1>2, <1>3, <1>4 DEF BeliefInv, BoundedTrust

\* The cache is no newer than the document stored in it.
LEMMA StoreBelief ==
  ASSUME KeyInv, TypeOK, RetiredInv, SubjectInv, BeliefInv, NEW v \in Verifications, Store(v)
  PROVE  BeliefInv'
<1> USE TrustAssumption DEF Times, Never
<1>1. /\ v \in Consumers /\ step[v] = "answered"
      /\ cache' = [keys |-> answer[v], expires |-> now + TTL]
      /\ step' = [step EXCEPT ![v] = Verdict(subject[v], answer[v])]
      /\ since' = [since EXCEPT ![v] = now]
      /\ UNCHANGED <<token, now, retired, subject, answer>>
  BY DEF Store, To, Consumers, keyVars
<1>2. \A w \in Verifications \ {v} : w \in Consumers /\ step'[w] = step[w] /\ since'[w] = since[w]
  BY <1>1 DEF TypeOK, Consumers
<1>3. since'[v] = now /\ now \in 0 .. MaxTime /\ since[v] \in 0 .. MaxTime
  BY <1>1 DEF TypeOK
<1>4. now <= since[v] + FetchTime
  BY <1>1 DEF BeliefInv
<1>5. ASSUME NEW k \in answer[v]
      PROVE  now + TTL <= retired[k] + FetchTime + TTL
  <2>1. since[v] <= retired[k]
    BY <1>1 DEF BeliefInv
  <2>2. retired[k] \in 0 .. MaxTime + 1
    BY <1>1 DEF TypeOK
  <2>3. QED
    BY <1>3, <1>4, <2>1, <2>2
<1>6. step'[v] \in {"accepted", "refused"}
      /\ (step'[v] = "accepted" => token[subject[v]] \in answer[v])
  BY <1>1 DEF TypeOK, Verdict
<1>7. step'[v] = "accepted" => now <= retired[token[subject[v]]] + FetchTime + TTL
  <2>1. ASSUME step'[v] = "accepted"
        PROVE  now <= retired[token[subject[v]]] + FetchTime + TTL
    <3>1. token[subject[v]] \in answer[v] /\ token[subject[v]] \in Issuers
      BY <1>1, <1>6, <2>1 DEF TypeOK
    <3>2. retired[token[subject[v]]] \in 0 .. MaxTime + 1
      BY <3>1 DEF TypeOK
    <3>3. QED
      BY <1>3, <1>5, <3>1, <3>2
  <2>2. QED
    BY <2>1
<1>8. cache'.keys = answer[v] /\ cache'.expires = now + TTL
  BY <1>1
<1>9. QED
  BY <1>1, <1>2, <1>3, <1>5, <1>6, <1>7, <1>8 DEF BeliefInv, BoundedTrust

\* What a verifier believes was true when its fetch began, throughout.
LEMMA BeliefNext ==
  ASSUME KeyInv, TypeOK, RetiredInv, SubjectInv, BeliefInv, [Next]_vars
  PROVE  BeliefInv'
<1> USE TrustAssumption
<1>1. ASSUME NEW v \in Verifications, NEW j \in Issuers, Lookup(v, j)
      PROVE  BeliefInv'
  BY <1>1, LookupBelief
<1>2. ASSUME NEW v \in Verifications, Publish(v)
      PROVE  BeliefInv'
  BY <1>2, PublishBelief
<1>3. ASSUME NEW v \in Verifications, Store(v)
      PROVE  BeliefInv'
  BY <1>3, StoreBelief
<1>4. ASSUME NEW v \in Verifications, FetchFails(v)
      PROVE  BeliefInv'
  BY <1>4, BeliefKeeps DEF FetchFails, To, TypeOK, Consumers
<1>5. CASE KeyStep \/ UNCHANGED vars
  BY <1>5, BeliefKeeps DEF KeyStep, vars, trustVars
<1>6. CASE ServerRestart
  <2>1. \A v \in Verifications : step'[v] \in {step[v], "failed"}
    BY <1>6 DEF ServerRestart, Consumers
  <2>2. QED
    BY <1>6, <2>1, BeliefKeeps DEF ServerRestart
<1>7. ASSUME NEW c \in Challenges, CreateChallenge(c)
      PROVE  BeliefInv'
  BY <1>7, BeliefKeeps DEF CreateChallenge
<1>8. ASSUME NEW p \in Responses,
             (\E c \in Challenges, j \in Issuers : Respond(p, c, j))
               \/ SelectActiveKey(p) \/ Conclude(p)
      PROVE  BeliefInv'
  <2>1. \A v \in Verifications : v \in Consumers \ {p}
    BY DEF Consumers
  <2>2. now' = now /\ cache' = cache
    BY <1>8 DEF Respond, SelectActiveKey, Conclude
  <2>3. \A v \in Verifications : /\ step'[v] = step[v]
                                 /\ subject'[v] = subject[v] /\ since'[v] = since[v]
                                 /\ answer'[v] = answer[v]
    BY <1>8, <2>1 DEF Respond, SelectActiveKey, Conclude, To, TypeOK
  <2>4. QED
    BY <2>2, <2>3, BeliefKeeps
<1>9. CASE Tick
  <2>1. /\ now' = now + 1
        /\ \A v \in Verifications : step[v] \in {"fetching", "answered"} => now < since[v] + FetchTime
        /\ UNCHANGED <<token, retired, cache, step, subject, answer, since>>
    BY <1>9 DEF Tick, keyVars
  <2>2. now \in Nat /\ cache.expires \in Nat /\ \A v \in Verifications : since[v] \in Nat
    BY DEF TypeOK, Times, Consumers
  <2>3. QED
    BY <2>1, <2>2 DEF BeliefInv, BoundedTrust
<1>10. QED
  BY <1>1, <1>2, <1>3, <1>4, <1>5, <1>6, <1>7, <1>8, <1>9 DEF Next, Finished

\* A token that names a retired key names one for ever.
LEMMA StaysRetired ==
  ASSUME KeyInv, TypeOK, SubjectInv, [Next]_vars, NEW s \in Consumers, step[s] # "idle",
         token[subject[s]] \notin Active
  PROVE  token'[subject[s]] \notin Active'
<1>1. subject[s] \in Issuers /\ token[subject[s]] # None
  BY DEF SubjectInv, TypeOK
<1>2. token'[subject[s]] = token[subject[s]]
  BY <1>1, KeyInvNext, KeysForward
<1>3. token[subject[s]] \in Issuers /\ keys[token[subject[s]]].secret # None
  BY <1>1 DEF KeyInv, RowInv, TokensKeepKeys, Created
<1>4. ~keys'[token[subject[s]]].active
  BY <1>3, KeyInvNext, KeysForward DEF Active
<1>5. QED
  BY <1>2, <1>4 DEF Active

\* Where no response moves, only the keys and the challenges may have changed.
LEMMA ResponseKeeps ==
  ASSUME KeyInv, TypeOK, SubjectInv, ResponseInv, [Next]_vars,
         \A p \in Responses : /\ step'[p] \in {step[p], "failed"}
                              /\ subject'[p] = subject[p] /\ answer'[p] = answer[p],
         UNCHANGED <<claimed, hopeless>>,
         \A c \in Challenges : challenge[c].state = "answered" => challenge'[c].state = "answered"
  PROVE  ResponseInv'
<1> USE OrgKeysAssumption, TrustAssumption
<1>1. \A p \in Responses : p \in Consumers
  BY DEF Consumers
<1>2. ASSUME NEW p \in Responses, step'[p] # "failed"
      PROVE  step'[p] = step[p]
  BY <1>2
<1>3. ASSUME NEW p \in Responses, step'[p] = "accepted"
      PROVE  challenge'[claimed'[p]].state = "answered" /\ claimed'[p] # None /\ ~hopeless'[p]
  BY <1>2, <1>3 DEF ResponseInv, VerifiedInTime, TypeOK
<1>4. ASSUME NEW p \in Responses, step'[p] = "selecting", hopeless'[p]
      PROVE  token'[subject'[p]] \notin Active'
  BY <1>1, <1>2, <1>4, StaysRetired DEF ResponseInv
<1>5. ASSUME NEW p \in Responses, step'[p] = "selected", hopeless'[p]
      PROVE  token'[subject'[p]] \notin answer'[p]
  <2>1. step[p] = "selected" /\ hopeless[p] /\ token[subject[p]] \notin answer[p]
    BY <1>2, <1>5 DEF ResponseInv
  <2>2. token'[subject[p]] = token[subject[p]]
    BY <1>1, <2>1, KeyInvNext, KeysForward DEF SubjectInv, TypeOK
  <2>3. QED
    BY <2>1, <2>2
<1>6. \A p \in Responses : step'[p] \in {"selecting", "selected", "accepted"} => claimed'[p] # None
  BY <1>2 DEF ResponseInv
<1>7. QED
  BY <1>3, <1>4, <1>5, <1>6 DEF ResponseInv, VerifiedInTime

\* A response that finds its challenge has begun while it was open.
LEMMA RespondKeeps ==
  ASSUME KeyInv, TypeOK, SubjectInv, ResponseInv,
         NEW p \in Responses, NEW c \in Challenges, NEW j \in Issuers, Respond(p, c, j)
  PROVE  ResponseInv'
<1> USE OrgKeysAssumption, TrustAssumption
<1>1. /\ p \in Consumers /\ step[p] = "idle" /\ c # None
      /\ challenge' = PrunedChallenges
      /\ subject' = [subject EXCEPT ![p] = j] /\ claimed' = [claimed EXCEPT ![p] = c]
      /\ UNCHANGED <<keys, token, answer>>
  BY DEF Respond, Consumers, keyVars
<1>2. \A q \in Responses \ {p} : /\ step'[q] = step[q] /\ subject'[q] = subject[q]
                                 /\ claimed'[q] = claimed[q] /\ q \in Consumers
  BY <1>1 DEF Respond, To, TypeOK, Consumers
<1>3. \A q \in Responses \ {p} : hopeless'[q] <=> hopeless[q]
  BY DEF Respond, TypeOK
<1>4. subject'[p] = j /\ claimed'[p] = c
  BY <1>1 DEF TypeOK
<1>5. step'[p] = "refused" \/ (step'[p] = "selecting" /\ challenge'[c].state = "open")
  BY <1>1 DEF Respond, To, TypeOK
<1>6. \A d \in Challenges : /\ challenge[d].state = "answered" => challenge'[d].state = "answered"
                            /\ challenge'[d].state = "open" => challenge[d].state = "open"
                                                               /\ ~(challenge[d].expires <= now)
  BY <1>1 DEF PrunedChallenges, TypeOK
<1>7. hopeless'[p] => \/ challenge[c].state # "open" \/ challenge[c].expires <= now
                      \/ \E q \in Responses : claimed[q] = c /\ step[q] = "accepted"
                      \/ token[j] \notin Active
  BY DEF Respond, TypeOK
<1>8. step'[p] = "selecting" /\ hopeless'[p] => token[j] \notin Active
  <2>1. ASSUME step'[p] = "selecting"
        PROVE  challenge[c].state = "open" /\ ~(challenge[c].expires <= now)
    BY <1>5, <1>6, <2>1
  <2>2. ASSUME NEW q \in Responses, claimed[q] = c, step[q] = "accepted"
        PROVE  challenge[c].state = "answered"
    BY <2>2 DEF ResponseInv
  <2>3. QED
    BY <1>7, <2>1, <2>2
<1>9. Active' = Active
  BY <1>1 DEF Active
<1>10. ASSUME NEW q \in Responses
       PROVE  /\ step'[q] \in {"selecting", "selected", "accepted"} => claimed'[q] # None
              /\ step'[q] = "accepted" => challenge'[claimed'[q]].state = "answered"
              /\ step'[q] = "selecting" /\ hopeless'[q] => token'[subject'[q]] \notin Active'
              /\ step'[q] = "selected" /\ hopeless'[q] => token'[subject'[q]] \notin answer'[q]
              /\ step'[q] = "accepted" => ~hopeless'[q]
  <2>1. CASE q = p
    BY <1>1, <1>4, <1>5, <1>8, <1>9, <2>1
  <2>2. CASE q # p
    BY <1>1, <1>2, <1>3, <1>6, <1>9, <2>2 DEF ResponseInv, VerifiedInTime, TypeOK
  <2>3. QED
    BY <2>1, <2>2
<1>11. QED
  BY <1>10 DEF ResponseInv, VerifiedInTime

\* A response is verified with the key that is active then.
LEMMA SelectResponseKeeps ==
  ASSUME KeyInv, TypeOK, SubjectInv, ResponseInv, NEW p \in Responses, SelectActiveKey(p)
  PROVE  ResponseInv'
<1>1. /\ p \in Consumers /\ step[p] = "selecting"
      /\ step' = [step EXCEPT ![p] = "selected"]
      /\ UNCHANGED <<keys, token, subject, challenge, claimed, hopeless>>
      /\ \E seen \in {Active, {}} : answer' = [answer EXCEPT ![p] = seen]
  BY DEF SelectActiveKey, To, Consumers, keyVars
<1>2. \A q \in Responses \ {p} : step'[q] = step[q] /\ answer'[q] = answer[q] /\ q \in Consumers
  BY <1>1 DEF TypeOK, Consumers
<1>3. step'[p] = "selected" /\ answer'[p] \subseteq Active
  BY <1>1 DEF TypeOK
<1>4. Active' = Active
  BY <1>1 DEF Active
<1>5. QED
  BY <1>1, <1>2, <1>3, <1>4 DEF ResponseInv, VerifiedInTime

\* Removing the challenge changes no response that is under way.
LEMMA ConcludeKeeps ==
  ASSUME KeyInv, TypeOK, SubjectInv, ResponseInv, NEW p \in Responses, Conclude(p)
  PROVE  ResponseInv'
<1> USE OrgKeysAssumption, TrustAssumption
<1>1. /\ p \in Consumers /\ step[p] = "selected" /\ claimed[p] # None
      /\ step' = [step EXCEPT ![p] = Verdict(subject[p], answer[p])]
      /\ challenge' = [challenge EXCEPT ![claimed[p]].state = "answered"]
      /\ UNCHANGED <<keys, token, subject, answer, claimed, hopeless>>
  BY DEF Conclude, To, Consumers, keyVars, ResponseInv
<1>2. \A q \in Responses \ {p} : step'[q] = step[q] /\ q \in Consumers
  BY <1>1 DEF TypeOK, Consumers
<1>3. step'[p] \in {"accepted", "refused"}
      /\ (step'[p] = "accepted" => token[subject[p]] \in answer[p])
  BY <1>1 DEF TypeOK, Verdict
<1>4. claimed[p] \in Challenges /\ challenge'[claimed[p]].state = "answered"
  BY <1>1 DEF TypeOK
<1>5. \A c \in Challenges : challenge[c].state = "answered" => challenge'[c].state = "answered"
  BY <1>1, <1>4 DEF TypeOK
<1>6. Active' = Active
  BY <1>1 DEF Active
<1>7. ASSUME NEW q \in Responses
      PROVE  /\ step'[q] \in {"selecting", "selected", "accepted"} => claimed'[q] # None
             /\ step'[q] = "accepted" => challenge'[claimed'[q]].state = "answered"
             /\ step'[q] = "selecting" /\ hopeless'[q] => token'[subject'[q]] \notin Active'
             /\ step'[q] = "selected" /\ hopeless'[q] => token'[subject'[q]] \notin answer'[q]
             /\ step'[q] = "accepted" => ~hopeless'[q]
  <2>1. CASE q = p
    BY <1>1, <1>3, <1>4, <2>1 DEF ResponseInv
  <2>2. CASE q # p
    BY <1>1, <1>2, <1>5, <1>6, <2>2 DEF ResponseInv, VerifiedInTime, TypeOK
  <2>3. QED
    BY <2>1, <2>2
<1>8. QED
  BY <1>7 DEF ResponseInv, VerifiedInTime

\* No step verifies a response that was hopeless.
LEMMA ResponseNext ==
  ASSUME KeyInv, TypeOK, SubjectInv, ResponseInv, [Next]_vars
  PROVE  ResponseInv'
<1> USE TrustAssumption
<1>1. ASSUME NEW p \in Responses, NEW c \in Challenges, NEW j \in Issuers, Respond(p, c, j)
      PROVE  ResponseInv'
  BY <1>1, RespondKeeps
<1>2. ASSUME NEW p \in Responses, SelectActiveKey(p) \/ Conclude(p)
      PROVE  ResponseInv'
  BY <1>2, SelectResponseKeeps, ConcludeKeeps
<1>3. CASE KeyStep \/ Tick \/ UNCHANGED vars
  BY <1>3, ResponseKeeps DEF KeyStep, Tick, vars, trustVars
<1>4. CASE ServerRestart
  <2>1. \A p \in Responses : step'[p] \in {step[p], "failed"}
    BY <1>4 DEF ServerRestart, Consumers
  <2>2. \A c \in Challenges : challenge[c].state = "answered" => challenge'[c].state = "answered"
    BY <1>4 DEF ServerRestart
  <2>3. QED
    BY <1>4, <2>1, <2>2, ResponseKeeps DEF ServerRestart
<1>5. ASSUME NEW v \in Verifications,
             (\E j \in Issuers : Lookup(v, j)) \/ Publish(v) \/ Store(v) \/ FetchFails(v)
      PROVE  ResponseInv'
  <2>1. \A p \in Responses : p \in Consumers \ {v}
    BY DEF Consumers
  <2>2. UNCHANGED <<challenge, claimed, hopeless>>
    BY <1>5 DEF Lookup, Publish, Store, FetchFails
  <2>3. \A p \in Responses : /\ step'[p] = step[p]
                             /\ subject'[p] = subject[p] /\ answer'[p] = answer[p]
    BY <1>5, <2>1 DEF Lookup, Publish, Store, FetchFails, To, TypeOK
  <2>4. QED
    BY <2>2, <2>3, ResponseKeeps
<1>6. ASSUME NEW c \in Challenges, CreateChallenge(c)
      PROVE  ResponseInv'
  <2>1. /\ challenge[c].state = "none"
        /\ challenge' = [PrunedChallenges EXCEPT ![c] =
                           [state |-> "open", expires |-> now + ChallengeTTL]]
        /\ UNCHANGED <<step, subject, answer, claimed, hopeless>>
    BY <1>6 DEF CreateChallenge
  <2>2. \A d \in Challenges : challenge[d].state = "answered" => challenge'[d].state = "answered"
    BY <2>1 DEF PrunedChallenges
  <2>3. QED
    BY <2>1, <2>2, ResponseKeeps
<1>7. QED
  BY <1>1, <1>2, <1>3, <1>4, <1>5, <1>6 DEF Next, Finished

-----------------------------------------------------------------------------

\* Inv is an invariant.
LEMMA InvHolds == Spec => []Inv
<1>1. Init => Inv
  <2> USE TrustAssumption
  <2> SUFFICES ASSUME Init PROVE Inv
    OBVIOUS
  <2>1. KeyInv /\ TypeOK
    BY KeyInvInit, TypesInit DEF Init
  <2>2. RetiredInv
    BY DEF Init, RetiredInv
  <2>3. SubjectInv
    BY DEF Init, SubjectInv
  <2>4. BeliefInv
    BY DEF Init, BeliefInv, BoundedTrust, NoEntry, Consumers
  <2>5. ResponseInv
    BY DEF Init, ResponseInv, VerifiedInTime, Consumers
  <2>6. QED
    BY <2>1, <2>2, <2>3, <2>4, <2>5 DEF Inv
<1>2. Inv /\ [Next]_vars => Inv'
  BY KeyInvNext, TypesNext, RetiredStep, SubjectNext, BeliefNext, ResponseNext DEF Inv
<1>3. QED
  BY <1>1, <1>2, PTL DEF Spec

\* The clock, the cache, the consumers and the challenges, and with them the
\* keys and their sessions, keep their types.
THEOREM TypeCorrect == Spec => []TypeOK
<1>1. Inv => TypeOK
  BY DEF Inv
<1>2. QED
  BY <1>1, InvHolds, PTL

\* A verifier accepts the token of a retired key for the lifetime of its cache
\* and one fetch at most, in whatever order fetches are answered and stored.
THEOREM BoundedTrustCorrect == Spec => []BoundedTrust
<1>1. Inv => BoundedTrust
  BY DEF Inv, BeliefInv
<1>2. QED
  BY <1>1, InvHolds, PTL

\* The attestation endpoint verifies no response whose challenge was not open,
\* or whose key was not active, when it came.
THEOREM VerifiedInTimeCorrect == Spec => []VerifiedInTime
<1>1. Inv => VerifiedInTime
  BY DEF Inv, ResponseInv
<1>2. QED
  BY <1>1, InvHolds, PTL
=============================================================================
