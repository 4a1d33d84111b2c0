SPECIFICATION Spec
CONSTANTS
  u1 = u1  t1 = t1  t2 = t2  w1 = w1  w2 = w2  c1 = c1
  Tasks = {t1, t2}
  Users = {u1}
  UserOf <- Owners2
  Submitters = {s1}
  Cancellers = {}
  Workers = {w1, w2}
  Cleaners = {}
  ProcessOf <- NoLoop
  UserLimit = 1
  GlobalLimit = 1
  Visibility = 1
  Batches = {}
  BatchSize = 1
  MaxTime = 0
  MaxCrashes = 0
  None = None
INVARIANT UserLimitHolds
CHECK_DEADLOCK FALSE
