CONSTANTS
  Names <- MCNames
  Scans <- MCExcluded
  Broken = Broken
  MaxRemovals = 1
SPECIFICATION Spec
INVARIANTS
  ExcludedPathsAreSkipped
CHECK_DEADLOCK FALSE
