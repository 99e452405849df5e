\* An allowed call and two approved ones in up to two traces, one of which is
\* replayed, navigated twice and shared.
CONSTANTS
  a1 = a1
  a2 = a2
  n1 = n1
  n2 = n2
  i1 = i1
  i2 = i2
  Allowed = {c1}
  Approved = {a1, a2}
  TraceIds = {i1, i2}
  Creations = {r1}
  Navigations = {n1, n2}
  Shares = {h1}
  Jumps <- MCJumps
  MaxTime = 1
  None = None
SPECIFICATION Spec
SYMMETRY Symmetric
INVARIANTS
  TypeOK
  TracesWhole
  ReplayShowsStep
