\* A demo seeding that may clear the log, an endpoint that writes before it logs,
\* a policy endpoint (or another that commits without the lock), a refused call
\* that wrote before it logged and one that did not (failed authentication).
CONSTANTS
  w1 = w1
  w2 = w2
  w3 = w3
  w4 = w4
  w5 = w5
  Writers = {w1, w2, w3, w4, w5}
  LockFirst = {w1, w2, w4}
  Rejecting = {w4, w5}
  Seeders = {w1}
  None = None
  MaxEvents = 2
SPECIFICATION FairSpec
INVARIANTS
  TypeOK
  ForksNamed
  AtomicWithWork
  TamperEvident
PROPERTY
  LockReleased
