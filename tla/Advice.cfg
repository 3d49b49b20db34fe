SPECIFICATION Spec
CONSTANTS
    None = None
    Markets <- MCMarkets
    Stocks <- MCStocks
    Followers <- MCFollowers
    MaxStocks = 5
    Capitals <- MCCapitals
    Configurations <- MCConfigurations
INVARIANTS
    GatedIsNeverBought
    CapitalIsHandedOutInOrder
    ApprovedOnlyOnSubCentStops
    AskingForLessKeepsApproval
CHECK_DEADLOCK FALSE
