\* Three jobs, two of them with one key; polls of a worker do not overlap; no faults.
SPECIFICATION FairSpec
CONSTANTS
  j1 = j1  j2 = j2  j3 = j3  w1 = w1  w2 = w2  s1 = s1  s2 = s2
  Job = {j1, j2, j3}
  Worker = {w1, w2}
  PollSlot = {s1}
  RunSlot = {s1, s2}
  None = None
  JobKey <- KeyForTwo
  Priority <- SamePrio
  Requires <- GitNeeds
  Capabilities <- GitOnW2
  MaxRetries <- OneRetry
  MaxConcurrent = 1
  AttemptBound = 4
  Faults = {}
INVARIANT MaxConcurrentRespected
PROPERTY EveryJobSettles
