SPECIFICATION CacheSpec
CONSTANTS
  s1 = s1
  s2 = s2
  f1 = f1
  f2 = f2
  a = a
  b = b
  bad = bad
  Scans = {s1, s2}
  Files = {f1}
  Contents = {a, b, bad}
  Broken = {bad}
  Absent = Absent
  Reverts = TRUE
  CacheErrors = FALSE
  MaxEdits = 2
  ContinueOnError = {s1}
INVARIANTS
  ResultsAreOfThisScan
  CacheIsHonest
CHECK_DEADLOCK FALSE
