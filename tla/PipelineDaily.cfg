CONSTANTS
  Clients = {c1}
  Symbols = {"a", "b"}
  Exchanges = {"NSE"}
  Home = "NSE"
  Days = {0, 1, 2, 3, 4, 5, 6, 7}
  Requests <- AllRequests
  MaxLog = 2
  Spans = {3}
  Orders <- TwoSymbols
  Exchange = "NSE"
  Holidays = {}
  Malformed <- MidWeek
  SkipValidation = FALSE
  EveryDay = TRUE
  FirstDay = 3
SPECIFICATION PipelineSpec
INVARIANTS StoredWithoutGaps LagIsBounded
