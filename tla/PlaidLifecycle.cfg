CONSTANTS
  Items = {i1, i2}
  Tasks = {p1, p2}
  Sweeps = {s1}
  RetentionDays = 1
  MaxFaults = 1
  NoItem = NoItem
SPECIFICATION FairSpec
INVARIANT TokensMatchItems
PROPERTY RetentionKept
PROPERTY ItemsMoveOn
