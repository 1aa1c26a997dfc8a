\* Every part on its small instance.
SPECIFICATION FairSpec
\* Every part may come to rest: nothing has to be submitted or called.
CHECK_DEADLOCK FALSE
CONSTANTS
  t1 = t1  t2 = t2  a1 = a1  c1 = c1  c2 = c2  s1 = s1  s2 = s2
  k1 = k1  k2 = k2  k3 = k3  f1 = f1  f2 = f2  p1 = p1  p2 = p2
  b1 = b1  b2 = b2  x1 = x1  x2 = x2
  w1 = w1  w2 = w2  m1 = m1  g1 = g1  g2 = g2
  Parts = {"scheduler", "queue", "closure", "pipeline", "chat", "threads"}
  Task = {t1, t2}
  Agent = {a1}
  Caller = {c1, c2}
  LoopCaller = {c2}
  LoopTask = LoopTask
  None = None
  Levels = {1, 2}
  QueueLimit = 1
  RunningLimit = 2
  KeepLast = 1
  DailyLimit = 1
  AgentLimit = 1
  TaskLimit = 1
  RequestsPerMinute = 1
  TokensPerMinute = 2
  Estimates = {1}
  LoopEstimate = 1
  Usage = {1}
  Stored = {t1, t2}
  Server = {s1, s2}
  NoRow = NoRow
  Ranks = {1, 2}
  Page = 1
  Closure = {k1, k2, k3}
  File = {f1, f2}
  FileSets = {{f1}, {f2}, {f1, f2}}
  Old = Old
  Gone = Gone
  LintBreaking = {k1}
  TestBreaking = {k1}
  Deleting = {k2}
  SkippingTests = {k1}
  MaxAdds = 1
  Pipeline = {p1, p2}
  Branch = {b1, b2}
  Path = {x1, x2}
  NoBranch = NoBranch
  Original = Original
  SkipsCI = {p2}
  MaxRuns = 2
  RunPage = 1
  Subtask = {1, 2, 3}
  Limit = 2
  MaxTurns = 2
  MaxDbFailures = 2
  Thread = {1, 2}
  Speaker = {w1, w2}
  Moment = {m1}
  Member = {g1, g2}
  Pair <- AskerAndAsked
  Unused = Unused
  MaxSessions = 1
  MaxTurnsWritten = 3
INVARIANT OnePlace
INVARIANT LedgerAgrees
PROPERTY DependentsWait
INVARIANT CommittedWasChecked
PROPERTY MergedIsOwn
INVARIANT CompletedRunIsWhole
INVARIANT OneFailureIsRecorded
PROPERTY RequestEnds
INVARIANT TurnsInOrder
