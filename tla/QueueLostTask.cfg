SPECIFICATION Spec
CONSTANTS
  u1 = u1  t1 = t1  t2 = t2  w1 = w1  w2 = w2  c1 = c1
  Tasks = {t1}
  Users = {u1}
  UserOf <- Owners1
  Submitters = {s1}
  Cancellers = {}
  Workers = {w1}
  Cleaners = {c1}
  ProcessOf <- OneLoop
  UserLimit = 1
  GlobalLimit = 1
  Visibility = 1
  Batches = {}
  BatchSize = 1
  MaxTime = 3
  MaxCrashes = 1
  None = None
INVARIANT ProcessingIsWatched
CHECK_DEADLOCK FALSE
