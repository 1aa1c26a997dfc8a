\* Two workers and overlapping polls contend for one job, with every fault.
SPECIFICATION Spec
CONSTANTS
  j1 = j1  j2 = j2  j3 = j3  w1 = w1  w2 = w2  s1 = s1  s2 = s2
  Job = {j1}
  Worker = {w1, w2}
  PollSlot = {s1, s2}
  RunSlot = {s1, s2}
  None = None
  JobKey <- NoKeys
  Priority <- SamePrio
  Requires <- NoNeeds
  Capabilities <- SandboxOnly
  MaxRetries <- OneRetry
  MaxConcurrent = 2
  AttemptBound = 4
  Faults = {"crash", "stop", "deadline", "dberror"}
INVARIANT NoDuplicateExecution
INVARIANT RetryBudget
INVARIANT QueueInv
PROPERTY ImplementsContract
