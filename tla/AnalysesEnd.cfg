SPECIFICATION FairSpec
CONSTANTS
  Tasks = {t1, t2}
  Levels = {45}
  PoolSize = 1
  MaxMishaps = 1
  None = None
INVARIANTS
  StoresAgree
  AnnouncedIsSaved
PROPERTIES
  NothingIsRevived
  EveryAnalysisEnds
CHECK_DEADLOCK FALSE
