\* EventuallyImported needs fairness, and a specification with fairness no symmetry.
SPECIFICATION FairSpec
CONSTANTS
  Workers = {w1, w2}
  Txs = {t1, t2}
  Recent = {t2}
  Gone = 3
  LockSeconds = 2
  CooldownSeconds = 1
  MaxEvents = 2
  MaxFaults = 1
INVARIANT OverlapNeedsWindow
INVARIANT NothingIsSkipped
PROPERTY EventuallyImported
