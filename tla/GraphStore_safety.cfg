SPECIFICATION StoreSpec
CONSTANTS
  s1 = s1
  s2 = s2
  w1 = w1
  w2 = w2
  c1 = c1
  c2 = c2
  server = server
  Writers = {w1, w2}
  Calls = {c1, c2}
  Instances = {server}
  InstanceOf <- OneServer
  Segs = {s1, s2}
  None = None
  ReadAttempts = 2
  MaxScans = 2
  Crashes = TRUE
  LockErrors = TRUE
  Rejects = FALSE
  DiskErrors = FALSE
  ReleaseErrors = TRUE
  OldStores = FALSE
  Deletes = FALSE
SYMMETRY Symmetry
INVARIANTS
  HeadComplete
PROPERTIES
  GenerationsGrow
  UsesStoreLock
  RetryReadsNewer
  ImplementsSnapshotStore
CHECK_DEADLOCK FALSE
