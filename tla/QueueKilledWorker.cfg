SPECIFICATION Spec
CONSTANTS
  u1 = u1  t1 = t1  t2 = t2  w1 = w1  w2 = w2  c1 = c1
  Tasks = {t1, t2}
  Users = {u1}
  UserOf <- Owners2
  Submitters = {s1}
  Cancellers = {}
  Workers = {w1}
  Cleaners = {c1}
  ProcessOf <- OneLoop
  UserLimit = 1
  GlobalLimit = 2
  Visibility = 1
  Batches = {b1}
  BatchSize = 2
  MaxTime = 2
  MaxCrashes = 1
  None = None
INVARIANTS UserLimitHolds NoDuplicates AnsweredBatchIsWhole
SYMMETRY TasksAlike
CHECK_DEADLOCK FALSE
