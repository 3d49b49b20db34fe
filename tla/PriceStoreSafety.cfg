CONSTANTS
  Clients = {c1, c2}
  Symbols = {a}
  Exchanges = {"NSE", "BSE"}
  Home = "NSE"
  Days = {1, 2, 3}
  Requests <- BothExchanges
  MaxLog = 3
SYMMETRY ClientSymmetry
SPECIFICATION StoreSpec
INVARIANTS StoresAreAtomic KeysAreUnique FlushedRowsAreSafe LogBalances
PROPERTY RowsSurvive
