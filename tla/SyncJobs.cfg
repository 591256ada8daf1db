CONSTANTS
  Workers = {w1, w2}
  Callers = {c1}
  Jobs = {j1, j2}
  Keys = {k1, k2}
  Delays = {0, 30}
  MaxAttempts = 2
  MaxCrashes = 1
  NoJob = NoJob
  NoKey = NoKey
SPECIFICATION FairSpec
PROPERTIES QueuedJobsEnd RefinesJobQueue
