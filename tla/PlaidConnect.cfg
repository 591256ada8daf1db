SPECIFICATION Spec
CONSTANTS
  Items = {i1, i2, i3}
  NoItem = NoItem
  Requests = {r1, r2}
  WeeklyCap = 1
  Threshold = 1
  MaxFaults = 1
  MaxOps = 2
SYMMETRY Symmetric
CHECK_DEADLOCK FALSE
INVARIANT BreakerNeverStuck
INVARIANT ExchangedOnce
INVARIANT CapOverrun
PROPERTY ConnectionsAreWhole
