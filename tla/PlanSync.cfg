CONSTANTS
  Clients = {t1, t2}
  NoClient = NoClient
  Kinds = {"start", "push", "force", "pre_import"}
  Keep = 2
  MaxFaults = 1
  Browsers = {b1}
  MaxOpens = 2
  MaxChoices = 1
  MaxEvents = 3
  MaxInFlight = 2
SPECIFICATION Spec
SYMMETRY TabSymmetry
INVARIANT SavedIsKept
INVARIANT IndicatorIsTrue
INVARIANT TabsAgree
CHECK_DEADLOCK FALSE
