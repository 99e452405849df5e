\* Two calls, two approvers, one restart: decisions race each other and both timers.
CONSTANTS
  r1 = r1
  r2 = r2
  a1 = a1
  a2 = a2
  Requests = {r1, r2}
  Approvers = {a1, a2}
  None = None
  Timer = Timer
  MaxCrashes = 1
SPECIFICATION Spec
SYMMETRY Symmetric
INVARIANTS
  TypeOK
  ForwardGranted
  NoLostWakeup
  RowAccounted
PROPERTIES
  NothingReopened
  ImplementsGate
