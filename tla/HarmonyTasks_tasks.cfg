CONSTANTS
  t1 = t1
  r1 = r1
  r2 = r2
  r3 = r3
  None = None
  Request = {r1, r2, r3}
  Task = {t1}
  Mode = {"serial", "overlap", "loop"}
  MaxRequests <- RequestsOf
  Routed <- RoutedTasks
  MaxRuns = 2
  MaxIterations = 3
  MaxConcurrent = 1
SPECIFICATION Spec
INVARIANT WaitsForDecision
INVARIANT AnalysedAfterApproval
INVARIANT KeyedAnalysisOnce
PROPERTY LoopEnds
CHECK_DEADLOCK FALSE
