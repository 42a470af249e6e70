SPECIFICATION CacheSpec
CONSTANTS
  s1 = s1
  s2 = s2
  f1 = f1
  f2 = f2
  a = a
  b = b
  bad = bad
  Scans = {s1, s2}
  Files = {f1, f2}
  Contents = {a, b, bad}
  Broken = {bad}
  Absent = Absent
  Reverts = FALSE
  CacheErrors = TRUE
  MaxEdits = 2
  ContinueOnError = {s1}
SYMMETRY Symmetry
INVARIANTS
  CacheIsHonest
  ResultsAreOfThisScan
  WarmAfterScan
CHECK_DEADLOCK FALSE
