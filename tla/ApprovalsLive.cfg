\* Liveness: two calls contend with one approver for the write lock.
CONSTANTS
  r1 = r1
  r2 = r2
  a1 = a1
  a2 = a2
  Requests = {r1, r2}
  Approvers = {a1}
  None = None
  Timer = Timer
  MaxCrashes = 1
SPECIFICATION FairSpec
PROPERTIES
  CallAnswered
  LockReleased
