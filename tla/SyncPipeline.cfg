CONSTANTS
  Workers = {w1, w2}
  Callers = {c1}
  Jobs = {j1, j2}
  Keys = {k1, k2}
  Delays = {0}
  MaxAttempts = 2
  MaxCrashes = 1
  NoJob = NoJob
  NoKey = NoKey
  Txs = {t1}
  Gone = 2
  Recent = {}
  LockSeconds = 5
  CooldownSeconds = 5
  MaxEvents = 1
  MaxFaults = 1
SPECIFICATION PipelineSpec
SYMMETRY Symmetry
INVARIANTS OverlapNeedsTwoKeys AnnouncedIsImported
