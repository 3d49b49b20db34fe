---------------------------- MODULE Optimization ----------------------------
(***************************************************************************)
(* The optimization package.  A portfolio is a sequence of shares, one for *)
(* each asset: the weight of an asset is its share of their sum, and no    *)
(* weights at all are a sequence of zeros.  A request r has the expected   *)
(* returns mu (percent), the covariances sigma, the present weights or     *)
(* Absent, and the sector of each asset; limits of the configuration c are *)
(* percent.  A solver that raises has no outcome; one that draws random    *)
(* numbers has many.                                                       *)
(***************************************************************************)
EXTENDS Ratios

CONSTANTS Absent,
          HasScipy,     \* whether scipy can be imported
          Step          \* percent between the random portfolios considered

Assets(r) == DOMAIN r.mu
Size(r)   == Len(r.mu)

PortfolioReturn(r, w) == Ratio(Total([i \in Assets(r) |-> w[i] * r.mu[i]]), Total(w))
Marginal(r, w) == [i \in Assets(r) |-> Total([j \in Assets(r) |-> w[j] * r.sigma[i][j]])]
PortfolioVariance(r, w) ==
    Ratio(Total([i \in Assets(r) |-> w[i] * Marginal(r, w)[i]]), Total(w) * Total(w))

-----------------------------------------------------------------------------
(* Objectives, as numbers to minimise *)

\* Excess over the risk-free rate, squared with its sign, over the variance.
MaxSharpe(r, w, rate) ==
    LET e == Total([i \in Assets(r) |-> w[i] * (r.mu[i] - rate)])
    IN Ratio(-e * Abs(e), Total([i \in Assets(r) |-> w[i] * Marginal(r, w)[i]]))
MaxSortino(r, w, rate) == MaxSharpe(r, w, rate)
MinVariance(r, w)      == PortfolioVariance(r, w)
BlackLitterman(r, w)   == PortfolioVariance(r, w)
MaxReturn(r, w)        == Ratio(-PortfolioReturn(r, w).num, PortfolioReturn(r, w).den)
Kelly(r, w) ==
    LET s == Total(w)  ret == Total([i \in Assets(r) |-> w[i] * r.mu[i]])
        var == Total([i \in Assets(r) |-> w[i] * Marginal(r, w)[i]])
    IN Ratio(var * 50 - ret * (100 * s + ret), s * (100 * s + ret))

\* Squared distance of the risk contributions from equal ones.
RiskParity(r, w) ==
    LET rc == [i \in Assets(r) |-> w[i] * Marginal(r, w)[i]]
        off == [i \in Assets(r) |-> Size(r) * rc[i] - Total(rc)]
    IN Ratio(Total([i \in Assets(r) |-> off[i] * off[i]]), 1)
HierarchicalRiskParity(r, w) == RiskParity(r, w)

Objectives == {"max_sharpe", "min_variance", "max_return", "max_sortino", "min_cvar",
               "risk_parity", "max_diversification", "kelly", "black_litterman", "hrp"}

\* Every objective function works out its objective, throws the number away and
\* returns a placeholder; with a single asset it raises.
HasValue(r) == Size(r) >= 2
Placeholder == 0

-----------------------------------------------------------------------------
(* Portfolio metrics *)

EffectiveN(w) ==
    LET squares == Total([i \in DOMAIN w |-> w[i] * w[i]])
    IN IF squares = 0 THEN Whole(0) ELSE Ratio(Total(w) * Total(w), squares)

Herfindahl(w) == Ratio(Total([i \in DOMAIN w |-> w[i] * w[i]]), Larger(1, Total(w) * Total(w)))

\* Half the sum of the changes of weight, in percent; 0 without present weights.
Turnover(r, w) ==
    IF r.current = Absent \/ Len(w) # Size(r) THEN Whole(0)
    ELSE Ratio(Total([i \in DOMAIN w |-> Abs(100 * w[i] - Total(w) * r.current[i])]), 2 * Total(w))

-----------------------------------------------------------------------------
(* Constraints *)

Between(w, i, low, high) == low * Total(w) <= 100 * w[i] /\ 100 * w[i] <= high * Total(w)

\* The request carries no configuration and no sector limits: what is checked
\* are the fixed bounds 0 and 90 percent, and that the weights add up to one.
ValidWeights(r, w) ==
    /\ Len(w) = Size(r)
    /\ Total(w) > 0
    /\ \A i \in DOMAIN w : Between(w, i, 0, 90)

IsFraction(limit) == limit \in 0..100
WeightLimit(limit) == IF IsFraction(limit) THEN "built" ELSE "invalid"
\* Only the limits of groups that some asset belongs to are looked at.
GroupExposure(group, limits) ==
    IF group = Absent THEN "invalid"
    ELSE IF \E g \in DOMAIN limits \cap {group[i] : i \in DOMAIN group} : ~IsFraction(limits[g])
         THEN "invalid" ELSE "built"
TurnoverLimit(r, limit) ==
    IF limit < 0 THEN "invalid"
    ELSE IF r.current # Absent /\ Len(r.current) # Size(r) THEN "insufficient" ELSE "built"
RiskLimit(r, limit, confidence) ==
    IF limit <= 0 \/ confidence \notin 1..99 THEN "invalid"
    ELSE IF Size(r) < 2 THEN "insufficient" ELSE "built"
CardinalityLimit(r, limit) == IF limit \in 1..Size(r) THEN "built" ELSE "invalid"

-----------------------------------------------------------------------------
(* Solvers *)

Equal(n) == [i \in 1..n |-> 1]
Particles(n) ==
    {w \in [1..n -> {k \in 0..100 : k % Step = 0}] : Total(w) = 100}

WithinBounds(c, w) == \A i \in DOMAIN w : Between(w, i, c.min, c.max)
WithinTurnover(r, c, w) ==
    r.current # Absent => AtMost(Turnover(r, w), c.turnover)

\* SLSQP starts from equal weights and, the objective being constant, ends
\* there when they are feasible, anywhere feasible when they are not.
QuadraticOptimization(r, c) ==
    IF ~HasScipy THEN {}
    ELSE IF WithinBounds(c, Equal(Size(r))) /\ WithinTurnover(r, c, Equal(Size(r)))
         THEN {Equal(Size(r))}
    ELSE {w \in Particles(Size(r)) : WithinBounds(c, w) /\ WithinTurnover(r, c, w)}

GradientBasedOptimization(r, c) == QuadraticOptimization(r, c)

\* The assets are taken in their order with the least weight of 5 percent, and
\* the weights so far are scaled to add up to one each time.
GreedyOptimization(r, c) ==
    LET n == Size(r)
    IN {IF c.max < 5 THEN Equal(n)
        ELSE [i \in 1..n |-> IF i = 1 THEN Power(20, n - 1) ELSE Power(20, n - i) * Power(21, i - 2)]}

\* The first point of every line search is weight zero, and none is better.
CoordinateDescent(r, c) == {[i \in Assets(r) |-> 0]}

\* A random portfolio is clipped to the bounds; of the local search remains the
\* first change of the first asset, made in place: one point up, two points down.
Clipped(c, w) == [i \in DOMAIN w |-> Clamp(w[i], c.min, c.max)]
Nudged(c, w) ==
    LET sum == Total(w)
    IN [i \in DOMAIN w |->
          IF i = 1 THEN Larger(c.min * sum, Smaller(c.max * sum, 100 * w[1] + sum) - 2 * sum)
          ELSE 100 * w[i]]
HeuristicOptimization(r, c) ==
    {IF c.iterations < 20 THEN Clipped(c, w) ELSE Nudged(c, Clipped(c, w)) : w \in Particles(Size(r))}

Solvers == {"quadratic", "gradient", "greedy", "coordinate", "heuristic"}
Solve(solver, r, c) ==
    CASE solver = "quadratic" -> QuadraticOptimization(r, c)
      [] solver = "gradient" -> GradientBasedOptimization(r, c)
      [] solver = "greedy" -> GreedyOptimization(r, c)
      [] solver = "coordinate" -> CoordinateDescent(r, c)
      [] solver = "heuristic" -> HeuristicOptimization(r, c)

-----------------------------------------------------------------------------
(* The engine *)

\* Every matrix of a request is positive semi-definite, so that check is left out.
Symmetric(r) == \A i, j \in Assets(r) : r.sigma[i][j] = r.sigma[j][i]
ValidRequest(r) ==
    /\ HasValue(r)
    /\ Len(r.sigma) = Size(r) /\ Symmetric(r)
    /\ r.current # Absent => Len(r.current) = Size(r)

AcceptedUnchecked(solver, r, c) == Solve(solver, r, c)     \* mutant
Accepted(solver, r, c) == {w \in Solve(solver, r, c) : ValidWeights(r, w)}
MayFail(solver, r, c)  == Solve(solver, r, c) = {} \/ Accepted(solver, r, c) # Solve(solver, r, c)

\* The first solver whose weights are accepted answers; Absent when none is.
Optimize(r, c) ==
    LET asked(k) == \A j \in 1..(k - 1) : MayFail(c.solvers[j], r, c)
        answers(k) == Accepted(c.solvers[k], r, c)
    IN IF ~ValidRequest(r) THEN {Absent}
       ELSE (UNION {answers(k) : k \in {j \in DOMAIN c.solvers : asked(j)}})
              \union (IF asked(Len(c.solvers) + 1) THEN {Absent} ELSE {})

\* Changes of weight beyond the tolerance, in hundredths of a percent.
WeightChange(r, w, i) == (10000 * w[i]) \div Total(w) - 100 * r.current[i]
Rebalance(r, w, tolerance) ==
    [buys  |-> [i \in {j \in Assets(r) : WeightChange(r, w, j) > tolerance} |-> WeightChange(r, w, i)],
     sells |-> [i \in {j \in Assets(r) : WeightChange(r, w, j) < -tolerance} |-> -WeightChange(r, w, i)]]

Evaluate(r, w) ==
    [status |-> IF ValidWeights(r, w) THEN "OPTIMAL" ELSE "UNKNOWN", value |-> Placeholder,
     effective_n |-> IF Len(w) = Size(r) THEN EffectiveN(w) ELSE Whole(0),
     turnover |-> IF Len(w) = Size(r) THEN Turnover(r, w) ELSE Whole(0)]

\* The configuration has no objective_type: after the optimization it raises.
Recommend(r, c) == Absent

\* Only failures of the frontier could be counted, and are not: the success
\* rate is one as soon as there is one success.
SuccessRate(successes, failures) == IF successes > 0 THEN 1 ELSE 0

-----------------------------------------------------------------------------
(* Allocation in one call: weights in percent *)

EqualWeight(n) == [i \in 1..n |-> 100 \div Larger(n, 1)]
\* Leverage is divided out again at the end.
VolatilityTarget(n) == EqualWeight(n)
InverseVolatility(vols) ==
    LET product == Total([i \in DOMAIN vols |-> 10000 \div vols[i]])
    IN [i \in DOMAIN vols |-> (100 * (10000 \div vols[i])) \div product]

\* Risk parity and Kelly are called with the arguments of the equal weights and
\* raise: the answer holds the expected returns for weights.  The cash reserve
\* is not kept back by the methods that do not raise.
Allocate(q) ==
    IF q.method \in {"risk_parity", "kelly"}
    THEN [status |-> "FAILED", weights |-> q.returns]
    ELSE [status |-> "SUCCESS",
          weights |-> [i \in DOMAIN q.returns |->
                          Smaller(q.max_weight, IF q.method = "vol_target"
                                                THEN VolatilityTarget(Len(q.returns))[i]
                                                ELSE EqualWeight(Len(q.returns))[i])]]

\* Squared portfolio risk and contributions under unit volatilities and no
\* correlation, as the engine asks for them.
RiskBudget(w) ==
    [risk |-> Total([i \in DOMAIN w |-> w[i] * w[i]]),
     contributions |-> [i \in DOMAIN w |-> w[i] * w[i]]]

\* A target is met within one percent; the targets add up to the whole.
ValidRiskBudget(targets, w) ==
    /\ Total(targets) = 100
    /\ \A i \in DOMAIN targets : i \in DOMAIN w /\ Abs(w[i] - targets[i]) <= 1

-----------------------------------------------------------------------------
(* Efficient frontier of uncorrelated assets *)

ReturnBounds(r) == <<Lowest(r.mu), Highest(r.mu)>>

\* Least variance at a target return; negative weights are cut to zero and the
\* rest is scaled up, so the target may be missed.
SolveTargetReturn(r, target) ==
    LET inv == [i \in Assets(r) |-> 3600 \div r.sigma[i][i]]
        a == Total(inv)
        b == Total([i \in Assets(r) |-> inv[i] * r.mu[i]])
        c == Total([i \in Assets(r) |-> inv[i] * r.mu[i] * r.mu[i]])
        raw == [i \in Assets(r) |-> inv[i] * (c - b * r.mu[i] + (a * r.mu[i] - b) * target)]
        cut == [i \in Assets(r) |-> Larger(0, raw[i])]
    IN IF a * c = b * b \/ Total(cut) = 0 THEN Equal(Size(r)) ELSE cut

Frontier(r, points) ==
    LET low == ReturnBounds(r)[1]  high == ReturnBounds(r)[2]
    IN [k \in 1..points |->
          SolveTargetReturn(r, IF points = 1 THEN low ELSE low + ((high - low) * (k - 1)) \div (points - 1))]
=============================================================================
