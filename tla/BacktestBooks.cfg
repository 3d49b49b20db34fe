CONSTANTS
  Symbols = {"a", "b"}
  Prices = {0, 3, 7}
  Configs <- CheapAndDear
  MaxDays = 3
  MaxRuns = 2
SPECIFICATION BacktestSpec
INVARIANTS
  BuySignalsNeverAbort
  BooksAgree
PROPERTIES
  TradingCostsOnly
CHECK_DEADLOCK FALSE
