\* One budget with a rolling window, and calls that each reach its limit.
CONSTANTS
  b1 = b1
  b2 = b2
  c1 = c1
  c2 = c2
  c3 = c3
  v1 = v1
  Budgets = {b1}
  Calls = {c1, c2, c3}
  Approved = {}
  Viewers = {}
  Rolling = {b1}
  Applies <- OneApplies
  Cost <- OneCost
  Limit <- OneLimit
  Thresholds = {50, 100}
  Watched <- NoneWatched
  Months = 1
  None = None
SPECIFICATION Spec
INVARIANT OverspendBounded
