SPECIFICATION StoreSpec
CONSTANTS
  s1 = s1
  s2 = s2
  w1 = w1
  w2 = w2
  c1 = c1
  c2 = c2
  server = server
  Writers = {w1}
  Calls = {c1}
  Instances = {server}
  InstanceOf <- OneServer
  Segs = {s1, s2}
  None = None
  ReadAttempts = 2
  MaxScans = 2
  Crashes = FALSE
  LockErrors = FALSE
  Rejects = FALSE
  DiskErrors = FALSE
  ReleaseErrors = FALSE
  OldStores = FALSE
  Deletes = TRUE
SYMMETRY Symmetry
PROPERTIES
  FreshAnswers
CHECK_DEADLOCK FALSE
