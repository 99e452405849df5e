\* Two calls that policy allows and one that came through an approval, against
\* the budgets of an agent and of the organisation, while the latter is viewed.
CONSTANTS
  b1 = b1
  b2 = b2
  c1 = c1
  c2 = c2
  c3 = c3
  v1 = v1
  Budgets = {b1, b2}
  Calls = {c1, c2, c3}
  Approved = {c3}
  Viewers = {v1}
  Rolling = {}
  Applies <- MCApplies
  Cost <- MCCost
  Limit <- MCLimit
  Thresholds = {50, 100}
  Watched <- MCWatched
  Months = 2
  None = None
SPECIFICATION Spec
INVARIANTS
  TypeOK
  StopAtLimit
  OverspendBounded
  UsageExact
  AlertsOnce
PROPERTY
  StopIsFinal
