SPECIFICATION ClosureSpec
CONSTANTS
  Key = {k1}
  k1 = k1
  Worker = {w1}
  w1 = w1
  Call = {c1, e1, e2}
  c1 = c1
  e1 = e1
  e2 = e2
  Exec = {e1, e2}
  None = None
  Op = {"issue"}
  Overlap = TRUE
  DraftBound = 2
  MaxRetries = 1
  Mode = {"runDry", "runWrite", "unarmed"}
  Faults = {"abort", "timeout", "expire"}
CHECK_DEADLOCK FALSE
INVARIANT CompletedJobHasReceipt
INVARIANT RetriesWriteOnce
INVARIANT BlockedTaskIsExplained
INVARIANT RunningIsExecuted
INVARIANT ReceiptIsEarned
PROPERTY ClosureSettles
PROPERTY TokenOrder
