SPECIFICATION Spec
CONSTANTS
    None = None
    Events = {}
    Reports = {}
    Kinds = {"income", "balance"}
    Days = {1, 2, 3}
    Prices <- MCPrices
    MaxStored = 3
    Queries = {}
    Portfolios = {}
    OptimizerConfigs <- MCOptimizerConfigs
    Allocations <- MCAllocations
    Limits <- MCLimits
    HasScipy = TRUE
    Step = 20
    Sizings <- MCSizings
    SizingConfigs <- MCSizingConfigs
    Universes = {}
    Rankings <- MCRankings
    Screens <- MCScreens
    States = {"trend"}
    RuleSets <- MCRuleSets
    RuleGroups <- MCRuleGroups
    Contexts = {}
    Cfg <- MCCfg
    Nobody = Nobody
    Models = {}
    Scores = {}
    RollingWindow = 2
    MinObservations = 2
    MaxEvaluations = 0
INVARIANTS
    SizesRespectCash
CHECK_DEADLOCK FALSE
