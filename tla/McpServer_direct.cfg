SPECIFICATION McpSpec
CONSTANTS
  w1 = w1
  w2 = w2
  Walks = {w1}
  g1 = g1
  g2 = g2
  g3 = g3
  CallOf <- AccessCall
  ToolOf <- CallTools
  Graphs = {g3}
  Content <- GraphContent
  Limits = {1, 2}
  OtherLines <- NoLines
  MaxOthers = 0
  MaxScans = 0
  MaxFailures = 0
  DynamicLimit = 20
  Budget = 5
  DefaultLimit = 2
  MaxLimit = 3
  NoLimit = NoLimit
  NoCursor = NoCursor
INVARIANTS
  PagesCoverList
CHECK_DEADLOCK FALSE
