CONSTANTS
  Screens = {bar, settings}
  u1 = u1
  u2 = u2
  o1 = o1
  o2 = o2
  o3 = o3
  o4 = o4
  x = x
  y = y
  z = z
  Uuids = {u1, u2}
  OwnIds = {o1, o2, o3, o4}
  NoId = NoId
  Name = Name
  Values = {x, y, z}
  None = None
  Moved = Moved
  Plans <- MCPlans
  Tables <- MCTables
  Layout <- MCLayout
  MaxRows = 3
  MaxRuns = 2
  MaxMishaps = 3
  MaxQueue = 2
SPECIFICATION SheetsSpec
SYMMETRY MCSymmetry
INVARIANT BackupIsOwed
INVARIANT ImportIsStable
CHECK_DEADLOCK FALSE
