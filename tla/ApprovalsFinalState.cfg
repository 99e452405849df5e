\* One decision is enough: it is answered before it is committed.
CONSTANTS
  r1 = r1
  r2 = r2
  a1 = a1
  a2 = a2
  Requests = {r1, r2}
  Approvers = {a1}
  None = None
  Timer = Timer
  MaxCrashes = 0
SPECIFICATION Spec
INVARIANT FinalStateReturned
