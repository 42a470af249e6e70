SPECIFICATION EngineSpec
CONSTANTS
  Ids = {"f", "g", "h"}
  Labels = {"File", "Function"}
  Values = {"v"}
  Null = Null
  Types = {"DEFINES", "CALLS"}
  Table <- Joins
  IdPrefixes <- Nesting
  FileLabel = "File"
  MaxRels = 2
  Queries <- ToolQueries
  NoQuery = NoQuery
INVARIANTS
  GraphConsistent
  SegmentsAreLocal
  RowsAreTheMatches
