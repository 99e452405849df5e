\* Two policy endpoints: both read the last hash before they hold the lock.
CONSTANTS
  w1 = w1
  w2 = w2
  w3 = w3
  w4 = w4
  w5 = w5
  Writers = {w1, w2}
  LockFirst = {}
  Rejecting = {}
  Seeders = {}
  None = None
  MaxEvents = 1
SPECIFICATION Spec
INVARIANT ChainValid
