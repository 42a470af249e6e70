SPECIFICATION StoreSpec
CONSTANTS
  s1 = s1
  s2 = s2
  w1 = w1
  w2 = w2
  c1 = c1
  c2 = c2
  server = server
  Writers = {w1, w2}
  Calls = {c1}
  Instances = {server}
  InstanceOf <- OneServer
  Segs = {s1}
  None = None
  ReadAttempts = 2
  MaxScans = 2
  Crashes = FALSE
  LockErrors = TRUE
  Rejects = FALSE
  DiskErrors = FALSE
  ReleaseErrors = FALSE
  OldStores = FALSE
  Deletes = FALSE
SYMMETRY Symmetry
PROPERTIES
  OnlyScansAreCommitted
CHECK_DEADLOCK FALSE
