SPECIFICATION WatchSpec
CONSTANTS
  f1 = f1
  f2 = f2
  w1 = w1
  w2 = w2
  t1 = t1
  t2 = t2
  t3 = t3
  Files = {f1}
  Waiters = {w1}
  Handles = {t1, t2}
  Unset = Unset
  MaxVersion = 3
  UnnamedEvents = FALSE
  ScanFailures = FALSE
PROPERTIES
  IdleMeansNothingScheduled
CHECK_DEADLOCK FALSE
