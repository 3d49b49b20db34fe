---------------------------- MODULE Calculations ----------------------------
(***************************************************************************)
(* The calculation packages as the services call them: each question is    *)
(* answered from its inputs alone, while the reference data lives in its   *)
(* tables and the intelligence platform compares its models.  No question  *)
(* reads the tables or the models, nor these each other, so as a bound one *)
(* question is asked, of a system that has stored nothing yet, and models  *)
(* are compared only beside empty tables.                                  *)
(***************************************************************************)
EXTENDS ReferenceData, Intelligence

CONSTANTS Queries,         \* research queries: see Factors
          Portfolios,      \* optimization requests: see Optimization
          OptimizerConfigs,
          Allocations,     \* one-call allocations
          Limits,          \* limits asked for, in percent
          HasScipy, Step,  \* see Optimization
          Sizings,         \* sequences of position requests: see Sizing
          SizingConfigs,
          Universes,       \* sequences of stocks: see Screening
          Rankings, States,
          Screens,         \* groups of conditions, nested ones included
          RuleSets,        \* sequences of rules: see Rules
          RuleGroups,      \* the groups of their conditions, nested ones included
          Contexts,        \* sequences of bars with their peers: see Signals
          Cfg

ASSUME GroupsAssumption ==
    /\ \A g \in Screens : g.groups \subseteq Screens
    /\ \A g \in RuleGroups : g.groups \subseteq RuleGroups
    /\ \A rules \in RuleSets : \A i \in DOMAIN rules : rules[i].when \in RuleGroups

Factors      == INSTANCE Factors
Optimization == INSTANCE Optimization WITH Absent <- None
Sizing       == INSTANCE Sizing WITH Absent <- None
Screening    == INSTANCE Screening WITH Groups <- Screens
Rules        == INSTANCE Rules WITH Groups <- RuleGroups
Signals      == INSTANCE Signals

ASSUME QueriesAssumption ==
    \A q \in Queries : /\ q.rows \in Seq(Factors!PriceRow)
                       /\ \A i \in DOMAIN q.requests : \A key \in DOMAIN q.requests[i].params :
                             q.requests[i].params[key] \in Int

ASSUME OptimizerAssumption ==
    /\ \A r \in Portfolios : r.mu \in Seq(Int) /\ (r.current # None => r.current \in Seq(Int))
    /\ \A c \in OptimizerConfigs : /\ {c.min, c.max} \subseteq Int /\ c.tolerance \in Nat
                                   /\ c.solvers \in Seq(Optimization!Solvers)

ASSUME RankingAssumption ==
    /\ \A universe \in Universes : universe \in Seq(Range(universe))
    /\ \A factors \in Rankings : factors \in Seq(Range(factors))
    /\ \A universe \in Universes, factors \in Rankings :
          \A stock \in Range(universe), factor \in Range(factors) :
             factor.lower \in BOOLEAN /\ stock[factor.field] \in Int \cup {None}

VARIABLES question, answer

vars == <<actions, statements, reply, champion, challengers, evaluations, learned, question, answer>>

NothingStored  == reference = <<<<>>, <<>>, None>>
NothingLearned == champion = Nobody /\ challengers = <<>> /\ evaluations = [m \in Models |-> <<>>]
                    /\ learned = [m \in Models |-> Nobody]

Idle == question = None
Answer(about, asked, result) ==
    /\ question' = [about |-> about, asked |-> asked]
    /\ answer' = result
    /\ UNCHANGED reference /\ UNCHANGED models

Init == ReferenceInit /\ ModelsInit /\ question = None /\ answer = None

StoreReferenceData ==
    Idle /\ NothingLearned /\ ReferenceNext /\ UNCHANGED <<question, answer>> /\ UNCHANGED models

CompareModels ==
    Idle /\ NothingStored /\ ModelsNext /\ UNCHANGED <<question, answer>> /\ UNCHANGED reference

\* ResearchService.analyze
Research == \E q \in Queries : Answer("factors", q, Factors!Analyze(q))

\* OptimizationEngine.optimize, then evaluate and rebalance with its weights.
OptimizePortfolio ==
    \E r \in Portfolios, c \in OptimizerConfigs : \E w \in Optimization!Optimize(r, c) :
        Answer("optimization", [request |-> r, config |-> c],
               IF w = None THEN None
               ELSE [weights |-> w, evaluation |-> Optimization!Evaluate(r, w),
                     trades |-> IF r.current = None THEN None
                                ELSE Optimization!Rebalance(r, w, c.tolerance)])

\* OptimizationEngine.allocate and risk_budget
Allocate ==
    \E q \in Allocations :
        LET a == Optimization!Allocate(q)
        IN Answer("allocation", q, [allocation |-> a, risk |-> Optimization!RiskBudget(a.weights)])

\* Constraints: which limits can be built for a request.
BuildConstraints ==
    \E r \in Portfolios, limit \in Limits, group \in {None, <<"a", "b">>} :
        Answer("constraints", [request |-> r, limit |-> limit, group |-> group],
               [weight |-> Optimization!WeightLimit(limit),
                group |-> Optimization!GroupExposure(group, [b |-> limit]),
                turnover |-> Optimization!TurnoverLimit(r, limit),
                risk |-> Optimization!RiskLimit(r, limit, limit),
                cardinality |-> Optimization!CardinalityLimit(r, limit)])

\* OptimizationEngine.frontier
BuildFrontier ==
    \E r \in Portfolios, points \in 1..3 :
        /\ Optimization!ValidRequest(r)
        /\ Answer("frontier", [request |-> r, points |-> points], Optimization!Frontier(r, points))

\* PositionSizingEngine.size_portfolio and validate
SizePortfolio ==
    \E requests \in Sizings, c \in SizingConfigs, method \in Sizing!Methods :
        LET sizes == Sizing!PortfolioSizes(c, requests, method)
        IN Answer("sizing", [requests |-> requests, config |-> c],
                  [allocation |-> sizes, violations |-> Sizing!ValidateSizes(c, sizes),
                   metrics |-> Sizing!SizingMetrics(c, sizes)])

\* allocate_by_risk_budget with equal budgets, and the changes that lead to it
\* from positions of a fixed value (rebalance_sizes).
RebudgetPortfolio ==
    \E requests \in Sizings, c \in SizingConfigs :
        LET held    == Sizing!PortfolioSizes(c, requests, "fixed_value")
            budgets == [i \in DOMAIN requests |-> [symbol |-> requests[i].symbol, weight |-> 1, risk |-> 1]]
            wanted  == Sizing!AllocateByRiskBudget(c, requests, budgets, Sizing!AvailableCash(c, requests))
        IN Answer("rebudgeting", [requests |-> requests, config |-> c],
                  [allocation |-> wanted,
                   changes |-> Sizing!RebalanceSizes(c, held.positions, wanted.positions)])

\* RankingEngine.rank
RankUniverse ==
    \E universe \in Universes, factors \in Rankings :
        /\ Screening!ValidWeights(factors)
        /\ universe # <<>>
        /\ Answer("ranking", [universe |-> universe, factors |-> factors],
                  [order |-> Screening!Rank(universe, factors),
                   statistics |-> Screening!RankingStats(
                       [i \in DOMAIN universe |-> Floor(Screening!TotalScore(universe, i, factors))])])

\* ScreenerEngine.evaluate_many
ScreenUniverse ==
    \E universe \in Universes, group \in Screens :
        Answer("screen", [universe |-> universe, group |-> group], Screening!ScreenMany(group, universe))

\* StrategyEngine.evaluate_and_rank
ApplyRules ==
    \E universe \in Universes, rules \in RuleSets :
        Answer("rules", [universe |-> universe, rules |-> rules],
               Rules!EvaluateAndRank(rules, universe))

\* The five analytics engines on one context
ScoreFacts ==
    \E ctx \in Contexts :
        Answer("facts", ctx,
               [trend |-> Signals!TrendFact(ctx), momentum |-> Signals!MomentumFact(ctx),
                volume |-> Signals!VolumeFact(ctx),
                strength |-> Signals!RelativeStrengthFact(ctx),
                volatility |-> IF Signals!VolatilityFails(ctx) THEN None ELSE Signals!VolatilityFact(ctx)])

Ask ==
    /\ Idle /\ NothingStored /\ NothingLearned
    /\ \/ Research
       \/ OptimizePortfolio \/ Allocate \/ BuildFrontier \/ BuildConstraints
       \/ SizePortfolio \/ RebudgetPortfolio
       \/ RankUniverse \/ ScreenUniverse \/ ApplyRules
       \/ ScoreFacts

Next == StoreReferenceData \/ CompareModels \/ Ask

Spec == Init /\ [][Next]_vars

-----------------------------------------------------------------------------
Asked(about) == ~Idle /\ question.about = about

\* RSI stays within 0 and 100 and, on bars whose close lies within their range, so
\* does %K, and %R within -100 and 0, however rows with gaps shift the windows.
Within(q, low, high) == AtLeast(q, low) /\ AtMost(q, high)
ClosesWithinRange(rows) ==
    \A i \in DOMAIN rows :
        None \notin {rows[i].low, rows[i].close, rows[i].high}
            => rows[i].low <= rows[i].close /\ rows[i].close <= rows[i].high
OscillatorsStayInRange ==
    Asked("factors") =>
        \A label \in DOMAIN answer.results :
            LET value == answer.results[label].value
            IN ~Factors!Failed(answer.results[label]) =>
                 /\ label[1] = "rsi" => Within(value, 0, 100)
                 /\ ClosesWithinRange(question.asked.rows) =>
                      /\ label[1] = "stochastic" => Within(value, 0, 100)
                      /\ label[1] = "williams_r" => Within(value, -100, 0)

\* An answer of the optimizer is a whole portfolio, whichever solver gave it, and
\* the trades that rebalance() derives from it lead from the present weights to
\* it, up to the tolerance and one hundredth of a percent for rounding.
OptimizedWeightsAreReached ==
    Asked("optimization") /\ answer # None =>
        LET r == question.asked.request
            w == answer.weights
            moved(i) == (IF i \in DOMAIN answer.trades.buys THEN answer.trades.buys[i] ELSE 0)
                        - (IF i \in DOMAIN answer.trades.sells THEN answer.trades.sells[i] ELSE 0)
        IN /\ Total(w) > 0 /\ Lowest(w) >= 0
           /\ answer.evaluation.status = "OPTIMAL"
           /\ answer.trades # None =>
                \A i \in DOMAIN w :
                    Abs((100 * r.current[i] + moved(i)) * Total(w) - 10000 * w[i])
                       <= (question.asked.config.tolerance + 1) * Total(w)

\* A stock that is at least as good as another in every factor of a ranking
\* (lacking none the other has) and better in one that counts is ranked before
\* it, although equal values share the rank of the first and weights differ.
AsGood(a, b, factor) ==
    \/ b[factor.field] = None
    \/ /\ a[factor.field] # None
       /\ IF factor.lower THEN a[factor.field] <= b[factor.field] ELSE a[factor.field] >= b[factor.field]
Better(a, b, factor) ==
    factor.weight > 0 /\ b[factor.field] # None /\ a[factor.field] # None /\ ~AsGood(b, a, factor)
RankingFollowsDominance ==
    Asked("ranking") =>
        \A x, y \in DOMAIN answer.order :
            LET a == question.asked.universe[answer.order[x]]
                b == question.asked.universe[answer.order[y]]
                factors == question.asked.factors
            IN /\ \A k \in DOMAIN factors : AsGood(a, b, factors[k])
               /\ \E k \in DOMAIN factors : Better(a, b, factors[k])
               => x < y

\* The sizes of a portfolio fit into the available cash (sizing/optimizer.py:23:
\* "Applies constraints, respects available cash").
SizesRespectCash ==
    Asked("sizing") /\ question.asked.requests # <<>> =>
        answer.allocation.total <= Sizing!AvailableCash(question.asked.config, question.asked.requests)
=============================================================================
