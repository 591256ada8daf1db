CONSTANTS
  Tasks = {h1, h2, g1}
  Sweeps = {}
  Items = {i1}
  Handlers = {h1, h2}
  GraceSweeps = {g1}
  RetentionDays = 1
  GraceDays = 1
  MaxFaults = 1
  MaxChanges = 2
  NoItem = NoItem
SPECIFICATION BillingFairSpec
INVARIANT ItemsFollowTier
INVARIANT ProfileFollowsStripe
PROPERTY GraceNeverExtended
PROPERTY EventsTakeEffect
