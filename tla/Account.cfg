CONSTANTS
  Users = {u1, u2}
  Codes = {c1}
  Requests = {r1, r2}
  NoUser = NoUser
  MaxRequests = 4
  MaxGrants = 2
  MaxFaults = 1
SPECIFICATION Spec
SYMMETRY Symmetry
INVARIANT InvitesAreSpentOnce
INVARIANT PortalReaches
INVARIANT ConnectionIsLast
INVARIANT DeletedLeavesNothing
CHECK_DEADLOCK FALSE
