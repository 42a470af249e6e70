SPECIFICATION LockSpec
CONSTANTS
  w1 = w1
  w2 = w2
  w3 = w3
  Procs = {w1, w2, w3}
  None = None
  HostOf <- OneHost
  MaxPolls = 1
  Crashes = FALSE
  Exits = TRUE
  Ages = FALSE
  WriteErrors = FALSE
  UnlinkErrors = FALSE
INVARIANT
  MutualExclusion
CHECK_DEADLOCK FALSE
