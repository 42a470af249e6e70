SPECIFICATION FairWatchSpec
CONSTANTS
  f1 = f1
  f2 = f2
  w1 = w1
  w2 = w2
  t1 = t1
  t2 = t2
  t3 = t3
  Files = {f1, f2}
  Waiters = {w1}
  Handles = {t1, t2, t3}
  Unset = Unset
  MaxVersion = 3
  UnnamedEvents = TRUE
  ScanFailures = TRUE
INVARIANTS
  OneScanAtATime
  PendingHasScan
  CloseIsFinal
PROPERTIES
  IdleOutsideScans
  GraphCatchesUp
  ComesToRest
  CallersReturn
CHECK_DEADLOCK FALSE
