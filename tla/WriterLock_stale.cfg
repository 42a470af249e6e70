SPECIFICATION PersistentLockSpec
CONSTANTS
  w1 = w1
  w2 = w2
  w3 = w3
  Procs = {w1, w2}
  None = None
  HostOf <- TwoHosts
  MaxPolls = 1
  Crashes = TRUE
  Exits = TRUE
  Ages = TRUE
  WriteErrors = TRUE
  UnlinkErrors = TRUE
PROPERTY
  StaleLockIsTakenOver
CHECK_DEADLOCK FALSE
