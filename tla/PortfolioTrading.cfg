CONSTANTS
  Symbols = {"a", "b"}
  Prices = {4, 7}
  Weightings <- MCWeightings
  Targets <- MCTargets
  InitialCapital = 60
  TransactionCost = 10
  CashReserve = 5
  DriftThreshold = 3
  MaxPositionSize = 20
  RebalanceThreshold = 5
  ByThreshold = FALSE
  MaxOperations = 4
SPECIFICATION PortfolioSpec
INVARIANTS
  NeverOverdrawn
  AllocationsAreFunded
  NothingOverweight
PROPERTIES
  RebalanceCostsOnly
CHECK_DEADLOCK FALSE
