SPECIFICATION FairStoreSpec
CONSTANTS
  s1 = s1
  s2 = s2
  w1 = w1
  w2 = w2
  c1 = c1
  c2 = c2
  server = server
  Writers = {w1, w2}
  Calls = {c1}
  Instances = {server}
  InstanceOf <- OneServer
  Segs = {s1}
  None = None
  ReadAttempts = 2
  MaxScans = 2
  Crashes = TRUE
  LockErrors = TRUE
  Rejects = TRUE
  DiskErrors = TRUE
  ReleaseErrors = TRUE
  OldStores = TRUE
  Deletes = TRUE
PROPERTIES
  CallsSettle
  ScansEnd
CHECK_DEADLOCK FALSE
