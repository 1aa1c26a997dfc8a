SPECIFICATION Spec
CHECK_DEADLOCK FALSE
CONSTANTS
  Repositories <- AllRepositories
  Seeds <- AllSeeds
  Setup = 1
  Slots = {1, 2}
  Keys = {k1}
  None = None
  Missing = Missing
  MaxUses = 1
  MaxRequests = 3
  MaxFailures = 1
INVARIANT ParentsListTheirRecords
INVARIANT HistoryIsAccountedFor
INVARIANT ReviewerIsKept
