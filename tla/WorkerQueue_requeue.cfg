\* One worker with two slots and polls that do not overlap: a row that is requeued
\* is leased again by its worker before the finally block of its run.
SPECIFICATION Spec
CONSTANTS
  j1 = j1  j2 = j2  j3 = j3  w1 = w1  w2 = w2  s1 = s1  s2 = s2
  Job = {j1, j2, j3}
  Worker = {w1}
  PollSlot = {s1}
  RunSlot = {1, 2, 3}
  None = None
  JobKey <- NoKeys
  Priority <- SamePrio
  Requires <- NoNeeds
  Capabilities <- SandboxOnly
  MaxRetries <- OneRetry
  MaxConcurrent = 2
  AttemptBound = 4
  Faults = {}
INVARIANT MaxConcurrentRespected
