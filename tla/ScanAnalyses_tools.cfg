SPECIFICATION Spec
CONSTANTS
  Files = {"a", "b", "c", "d"}
  FileOrder <- ABCD
  Names = {"f", "g", "m", "x", "A", "B", "C", "run", "constructor", "default", "ns", "get"}
  None = None
  Families <- AllProjects
  MaxDepth = 3
INVARIANTS
  CallsFollowBindings
  MethodsAreInherited
  UsedExportsAreNotReported
  CyclesAreTheGroups
  ImpactGrowsDownwards
ACTION_CONSTRAINT
  AskedOfItsFamily
CHECK_DEADLOCK FALSE
