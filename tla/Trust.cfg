\* A registration and two rotations under two secrets, with one restart; in one
\* scenario two verifications share a cache, in the other two responses race.
CONSTANTS
  v1 = v1
  v2 = v2
  p1 = p1
  p2 = p2
  Registrations = {g1}
  Rotations = {t1, t2}
  Verifications = {v1, v2}
  Challenges = {c1}
  Responses = {p1, p2}
  Scenarios <- MCScenarios
  Secrets = {s1, s2}
  MaxRestarts = 1
  TTL = 1
  FetchTime = 1
  ChallengeTTL = 1
  MaxTime = 3
  None = None
SPECIFICATION Spec
SYMMETRY Symmetric
INVARIANTS
  TypeOK
  OneKeyUnlessRaced
  TokensKeepKeys
  BoundedTrust
  VerifiedInTime
