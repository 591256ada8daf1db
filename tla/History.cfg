SPECIFICATION Spec
CONSTANTS
  a1 = a1
  a2 = a2
  b1 = b1
  i1 = i1
  i2 = i2
  Accounts = {a1, b1}
  Items = {i1, i2}
  ItemOf <- MCItemOf
  Alts = {base, other}
  Checkpoints = {2}
  Workers = {w1, w2}
  None = none
  LastDay = 2
  MonthLength = 2
  NoopWindow = TRUE
  MaxJobs = 3
  MaxFaults = 1
SYMMETRY WorkersAlike
INVARIANTS PointsAreTraceable AnswersHold
PROPERTIES FinalPointWritten HistoryKept
CHECK_DEADLOCK FALSE
