\* Two policies that writers of all three kinds change at once, while a proxied
\* call is decided by them.
CONSTANTS
  n1 = n1
  n2 = n2
  Creates = {n1, n2}
  Updates = {u1}
  Rollbacks = {k1}
  Targets = {1, 2}
  Calls = {c1}
  Bodies <- MCBodies
  Parsed <- MCParsed
  Globbed <- MCGlobbed
  Requests <- MCRequests
  LlmCalls <- MCLlmCalls
  DefaultAction = "deny"
  None = None
SPECIFICATION Spec
SYMMETRY CreateSymmetry
INVARIANTS
  TypeOK
  EngineAgrees
  SequentialHistory
  WritesRecorded
  AllowIsCurrent
PROPERTIES
  ChangeIsLocal
