SPECIFICATION Spec
CONSTANTS
    None = None
    Events <- MCEvents
    Reports <- MCReports
    Kinds = {"income", "balance"}
    Days = {1, 2, 3}
    Prices <- MCPrices
    MaxStored = 4
    Nobody = Nobody
    Models = {"m", "n"}
    Scores <- MCScores
    RollingWindow = 2
    MinObservations = 2
    MaxEvaluations = 3
    Queries <- MCQueries
    Portfolios <- MCPortfolios
    OptimizerConfigs <- MCOptimizerConfigs
    Allocations <- MCAllocations
    Limits <- MCLimits
    HasScipy = TRUE
    Step = 20
    Sizings <- MCSizings
    SizingConfigs <- MCSizingConfigs
    Universes <- MCUniverses
    Rankings <- MCRankings
    Screens <- MCScreens
    States = {"trend"}
    RuleSets <- MCRuleSets
    RuleGroups <- MCRuleGroups
    Contexts <- MCContexts
    Cfg <- MCCfg
INVARIANTS
    OscillatorsStayInRange
    OptimizedWeightsAreReached
    RankingFollowsDominance
    AdaptiveScoreForgets
    BestIsKept
PROPERTIES
    PastAnswersStand
CHECK_DEADLOCK FALSE
