SPECIFICATION FairMcpSpec
CONSTANTS
  w1 = w1
  w2 = w2
  Walks = {w1, w2}
  g1 = g1
  g2 = g2
  g3 = g3
  CallOf <- WalkCalls
  ToolOf <- CallTools
  Graphs = {g1, g2}
  Content <- GraphContent
  Limits = {1, 2}
  OtherLines <- Lines
  MaxOthers = 1
  MaxScans = 1
  MaxFailures = 1
  DynamicLimit = 20
  Budget = 5
  DefaultLimit = 2
  MaxLimit = 2
  NoLimit = NoLimit
  NoCursor = NoCursor
INVARIANTS
  AnsweredInOrder
  PagesCoverList
PROPERTIES
  CursorsAdvance
  PagingEnds
CHECK_DEADLOCK FALSE
