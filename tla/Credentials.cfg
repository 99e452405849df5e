\* One agent: registered twice, rotated twice and revoked both ways; or registered
\* and rotated once while calls present its credentials and these are revoked.
CONSTANTS
  g1 = g1
  g2 = g2
  t1 = t1
  t2 = t2
  u1 = u1
  u2 = u2
  Agents = {agent}
  Registrations = {g1, g2}
  Rotations = {t1, t2}
  AgentRevocations = {v1}
  CredRevocations = {x1}
  Auths = {u1, u2}
  Scenarios <- MCScenarios
  Lifetime = 1
  Overlap = 0
  Asked <- MCAsked
  MaxTime = 2
  None = None
SPECIFICATION Spec
SYMMETRY Symmetric
INVARIANTS
  TypeOK
  StragglersOnly
  
  RevokedNeverAccepted
PROPERTIES
  RevocationPermanent
  ExpiryNeverGrows
