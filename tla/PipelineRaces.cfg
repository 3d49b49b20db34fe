CONSTANTS
  Clients = {c1, c2}
  Symbols = {"a"}
  Exchanges = {"NSE"}
  Home = "NSE"
  Days = {0, 1}
  Requests <- AllRequests
  MaxLog = 0
  Spans = {1}
  Orders <- OneSymbol
  Exchange = "NSE"
  Holidays = {}
  Malformed <- LatestDay
  SkipValidation = TRUE
  EveryDay = FALSE
  FirstDay = 0
SPECIFICATION FairPipelineSpec
INVARIANTS VersionsFollowBars InsertedRowsAreCommitted
PROPERTY RunsEnd
