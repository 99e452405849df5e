------------------------------- MODULE Trust -------------------------------
(***************************************************************************)
(* Who trusts the tokens of an organisation, and for how long: an external *)
(* verifier that caches the published keys, and the attestation endpoint   *)
(* that answers a challenge with the verification of a token.              *)
(*                                                                         *)
(* Code: sdk/ais_verify (verifier, _discover, _jwt), get_jwks of           *)
(* acp/primitives/identity/service.py, acp/api/attestations.py.            *)
(*                                                                         *)
(* A token is well formed and its claims are complete: what is left of its *)
(* verification is the key.  Its expiry is the subject of Credentials.     *)
(*                                                                         *)
(* The verifier is one that has an issuer URL.  One that was given a       *)
(* static JWKS never fetches: it trusts those keys as long as it lives,    *)
(* shares nothing with the gateway, and has no actions here.               *)
(***************************************************************************)
EXTENDS OrgKeys

CONSTANTS
  Verifications,  \* calls of one AgentVerifier.verify
  Challenges,     \* calls of POST /v1/attestations/challenge
  Responses,      \* calls of POST /v1/attestations
  Scenarios,      \* sets of calls that may come in one behaviour
  TTL,            \* jwks_cache_ttl
  FetchTime,      \* bound on the time a fetch takes, from its request to its answer:
                  \* an assumption on the network, httpx bounds each phase of it only
  ChallengeTTL,   \* _CHALLENGE_TTL
  MaxTime         \* bound on the clock

Consumers == Verifications \cup Responses

ASSUME TrustAssumption ==
  /\ Verifications \cap Responses = {}
  /\ None \notin Consumers \cup Challenges
  /\ \A s \in Scenarios : s \subseteq Issuers \cup Consumers
  /\ TTL \in Nat /\ FetchTime \in Nat /\ ChallengeTTL \in Nat /\ MaxTime \in Nat

VARIABLES
  calls,      \* the calls that come in this behaviour
  now,        \* the clock
  retired,    \* when a key was made inactive
  cache,      \* JWKSCache._store: the keys and when they expire
  step,       \* where each verification and each response is
  subject,    \* the token it is about
  answer,     \* the published keys that its fetch or its SELECT has seen
  since,      \* when it began to fetch, and later when it was decided
  challenge,  \* _challenges
  claimed,    \* the challenge a response is about
  hopeless    \* history: at its start the challenge or the key was not to be accepted

trustVars == <<calls, now, retired, cache, step, subject, answer, since, challenge, claimed,
               hopeless>>
vars == <<keyVars, trustVars>>

NoEntry     == [keys |-> {}, expires |-> 0]
NoChallenge == [state |-> "none", expires |-> 0]
Never       == MaxTime + 1

Init ==
  /\ KeyInit
  /\ calls \in Scenarios
  /\ now = 0
  /\ retired = [k \in Issuers |-> Never]
  /\ cache = NoEntry
  /\ step = [s \in Consumers |-> "idle"]
  /\ subject = [s \in Consumers |-> None]
  /\ answer = [s \in Consumers |-> {}]
  /\ since = [s \in Consumers |-> 0]
  /\ challenge = [c \in Challenges |-> NoChallenge]
  /\ claimed = [p \in Responses |-> None]
  /\ hopeless = [p \in Responses |-> FALSE]

To(s, label) == step' = [step EXCEPT ![s] = label]
Issued       == {j \in Issuers : token[j] # None}

-----------------------------------------------------------------------------
(* AgentVerifier.verify. *)

\* decode_and_verify: the key of the token's kid is in the document.
Verdict(j, document) == IF token[j] \in document THEN "accepted" ELSE "refused"

\* JWKSCache.get: an entry that has expired is dropped and fetched again; with a
\* live one the token is decided before the next await.
Lookup(v, j) ==
  /\ v \in calls /\ step[v] = "idle"
  /\ j \in Issued
  /\ subject' = [subject EXCEPT ![v] = j]
  /\ IF now < cache.expires
       THEN cache' = cache /\ To(v, Verdict(j, cache.keys))
       ELSE cache' = NoEntry /\ To(v, "fetching")
  /\ since' = [since EXCEPT ![v] = now]
  /\ UNCHANGED <<keyVars, calls, now, retired, answer, challenge, claimed, hopeless>>

\* Deviation: the document has every key there ever was.
PublishAll(v) ==
  /\ v \in Verifications /\ step[v] = "fetching"
  /\ answer' = [answer EXCEPT ![v] = Created]
  /\ To(v, "answered")
  /\ UNCHANGED <<keyVars, calls, now, retired, cache, subject, since, challenge, claimed, hopeless>>

\* jwks_public: the keys that are active and committed, in a database read.
Publish(v) ==
  /\ v \in Verifications /\ step[v] = "fetching"
  /\ answer' = [answer EXCEPT ![v] = Active]
  /\ To(v, "answered")
  /\ UNCHANGED <<keyVars, calls, now, retired, cache, subject, since, challenge, claimed, hopeless>>

\* The document arrives, replaces what is cached and decides the token.
Store(v) ==
  /\ v \in Verifications /\ step[v] = "answered"
  /\ cache' = [keys |-> answer[v], expires |-> now + TTL]
  /\ To(v, Verdict(subject[v], answer[v]))
  /\ since' = [since EXCEPT ![v] = now]
  /\ UNCHANGED <<keyVars, calls, now, retired, subject, answer, challenge, claimed, hopeless>>

\* The fetch fails or takes too long: JWKSError.
FetchFails(v) ==
  /\ v \in Verifications /\ step[v] \in {"fetching", "answered"}
  /\ To(v, "failed")
  /\ UNCHANGED <<keyVars, calls, now, retired, cache, subject, answer, since, challenge, claimed,
                 hopeless>>

-----------------------------------------------------------------------------
(* Challenge and response. *)

\* _prune_expired_challenges, which both endpoints begin with.
PrunedChallenges ==
  [c \in Challenges |-> IF challenge[c].state = "open" /\ challenge[c].expires <= now
                          THEN [challenge[c] EXCEPT !.state = "expired"] ELSE challenge[c]]

CreateChallenge(c) ==
  /\ calls \cap Responses # {}
  /\ challenge[c].state = "none"
  /\ challenge' = [PrunedChallenges EXCEPT ![c] =
                     [state |-> "open", expires |-> now + ChallengeTTL]]
  /\ UNCHANGED <<keyVars, calls, now, retired, cache, step, subject, answer, since, claimed, hopeless>>

\* 404 without a live challenge; 400 for a wrong nonce, a malformed assertion
\* or an empty signature, which leave the challenge open.
Respond(p, c, j) ==
  /\ p \in calls /\ step[p] = "idle"
  /\ j \in Issued /\ challenge[c].state # "none"
  /\ challenge' = PrunedChallenges
  /\ subject' = [subject EXCEPT ![p] = j]
  /\ claimed' = [claimed EXCEPT ![p] = c]
  /\ hopeless' = [hopeless EXCEPT ![p] =
       \/ challenge[c].state # "open" \/ challenge[c].expires <= now
       \/ \E q \in Responses : claimed[q] = c /\ step[q] = "accepted"
       \/ token[j] \notin Active]
  /\ To(p, "refused") \/ (challenge'[c].state = "open" /\ To(p, "selecting"))
  /\ UNCHANGED <<keyVars, calls, now, retired, cache, answer, since>>

\* The SELECT of the key of the assertion's kid, among the active ones; an
\* error is caught, and then no key is found.
SelectActiveKey(p) ==
  /\ p \in Responses /\ step[p] = "selecting"
  /\ \E seen \in {Active, {}} : answer' = [answer EXCEPT ![p] = seen]
  /\ To(p, "selected")
  /\ UNCHANGED <<keyVars, calls, now, retired, cache, subject, since, challenge, claimed, hopeless>>

\* Deviation: only a failed verification uses the challenge up.
ConcludeKeeping(p) ==
  /\ p \in Responses /\ step[p] = "selected"
  /\ IF token[subject[p]] \in answer[p]
       THEN To(p, "accepted") /\ UNCHANGED challenge
       ELSE To(p, "refused") /\ challenge' = [challenge EXCEPT ![claimed[p]].state = "answered"]
  /\ since' = [since EXCEPT ![p] = now]
  /\ UNCHANGED <<keyVars, calls, now, retired, cache, subject, answer, claimed, hopeless>>

\* verify_agent_jwt, and the challenge is used up, whatever the result.
Conclude(p) ==
  /\ p \in Responses /\ step[p] = "selected"
  /\ To(p, Verdict(subject[p], answer[p]))
  /\ since' = [since EXCEPT ![p] = now]
  /\ challenge' = [challenge EXCEPT ![claimed[p]].state = "answered"]
  /\ UNCHANGED <<keyVars, calls, now, retired, cache, subject, answer, claimed, hopeless>>

-----------------------------------------------------------------------------
\* No fetch takes longer than FetchTime.
Tick ==
  /\ now < MaxTime
  /\ \A v \in Verifications : step[v] \in {"fetching", "answered"} => now < since[v] + FetchTime
  /\ now' = now + 1
  /\ UNCHANGED <<keyVars, calls, retired, cache, step, subject, answer, since, challenge, claimed,
                 hopeless>>

\* A step of an issuer that comes; the clock records what it retires.
KeyStep ==
  /\ KeyNext
  /\ \A j \in Issuers \ calls : pc'[j] = "idle"
  /\ retired' = [k \in Issuers |-> IF keys[k].active /\ ~keys'[k].active THEN now ELSE retired[k]]
  /\ UNCHANGED <<calls, now, cache, step, subject, answer, since, challenge, claimed, hopeless>>

\* The challenges and the responses under way are lost with the process; the
\* verifier is another one.
ServerRestart ==
  /\ Restart
  /\ challenge' = [c \in Challenges |->
       IF challenge[c].state = "open" THEN [challenge[c] EXCEPT !.state = "lost"] ELSE challenge[c]]
  /\ step' = [s \in Consumers |->
       IF step[s] \in {"selecting", "selected", "fetching"} THEN "failed" ELSE step[s]]
  /\ UNCHANGED <<calls, now, retired, cache, subject, answer, since, claimed, hopeless>>

Finished ==
  /\ \A j \in Issuers \cap calls : pc[j] \in Ends \cup {"idle"}
  /\ \A s \in Consumers \cap calls : step[s] \in {"idle", "accepted", "refused", "failed"}
  /\ UNCHANGED vars

Next ==
  \/ KeyStep
  \/ ServerRestart
  \/ \E v \in Verifications : \/ \E j \in Issuers : Lookup(v, j)
                              \/ Publish(v) \/ Store(v) \/ FetchFails(v)
  \/ \E c \in Challenges : CreateChallenge(c)
  \/ \E p \in Responses : \/ \E c \in Challenges, j \in Issuers : Respond(p, c, j)
                          \/ SelectActiveKey(p) \/ Conclude(p)
  \/ Tick
  \/ Finished

Spec == Init /\ [][Next]_vars

-----------------------------------------------------------------------------
Times == 0 .. MaxTime

\* The types of the clock, the cache, the consumers and the challenges.
TypeOK ==
  /\ KeyTypeOK
  /\ calls \in Scenarios
  /\ now \in Times
  /\ retired \in [Issuers -> 0 .. Never]
  /\ cache \in [keys : SUBSET Issuers, expires : 0 .. MaxTime + TTL]
  /\ step \in [Consumers -> {"idle", "fetching", "answered", "selecting", "selected", "accepted",
                             "refused", "failed"}]
  /\ subject \in [Consumers -> Issuers \cup {None}]
  /\ answer \in [Consumers -> SUBSET Issuers]
  /\ since \in [Consumers -> Times]
  /\ challenge \in [Challenges -> [state : {"none", "open", "expired", "answered", "lost"},
                                   expires : 0 .. MaxTime + ChallengeTTL]]
  /\ claimed \in [Responses -> Challenges \cup {None}]
  /\ hopeless \in [Responses -> BOOLEAN]

\* A verifier that fetches its keys goes on trusting a retired one no longer than
\* its cache lives and one fetch may take, even when fetches overtake each other and an older
\* document replaces a newer one.
BoundedTrust ==
  \A v \in Verifications : step[v] = "accepted" =>
    since[v] <= retired[token[subject[v]]] + FetchTime + TTL

\* A response is verified only if its challenge was open and its key active when
\* it came: a challenge that has been answered, has expired or was lost in a
\* restart is of no more use, and neither is a retired key.
VerifiedInTime == \A p \in Responses : step[p] = "accepted" => ~hopeless[p]
=============================================================================
