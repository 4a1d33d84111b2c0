SPECIFICATION Spec
CONSTANTS
  Kinds = {"items"}
  MatchWindow = 0
  ZombieAge = 1
  MaxRecords = 2
  MaxNow = 2
  MaxRuns = 2
  MaxActs = 2
INVARIANTS
  CancelledStops
CHECK_DEADLOCK FALSE
