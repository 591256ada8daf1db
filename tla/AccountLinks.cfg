CONSTANTS
  NoPersistent = NoPersistent
  None = None
  a = a
  b = b
  Entities = {e1, e2}
  OtherAlt = {e2}
  Accounts <- MCAccounts
  Keys = {k1, k2}
  Statements <- MCStatements
  Figures = {7}
  MaxGen = 2
  MaxEdits = 2
  MaxEvents = 1
  MaxVisits = 1
SPECIFICATION Spec
SYMMETRY MCSymmetry
INVARIANT LinksPointRight
INVARIANT InputStays
INVARIANT EffectsFollowList
CHECK_DEADLOCK FALSE
