------------------------------- MODULE Sizing -------------------------------
(***************************************************************************)
(* The sizing package: what one request is worth under each of the ten     *)
(* methods, and the optimizer that fits several sizes into the exposure    *)
(* limit, the cash and the size limit.  Money is whole units; fractions of *)
(* the configuration c are percent, weights are hundredths of a percent;   *)
(* a number of shares is the value divided by the price.                   *)
(***************************************************************************)
EXTENDS Ratios, SequencesExt

CONSTANT Absent

Percent(p, amount) == (p * amount) \div 100
WeightIn(account, value) == IF account > 0 THEN (10000 * value) \div account ELSE 0

\* A value in whole lots.
Lots(c, value, price) ==
    IF c.lot > 1 /\ price > 0 THEN (value \div (price * c.lot)) * price * c.lot ELSE value

\* Without cash there is no cap; a position below the minimum is dropped.
ApplyRiskChecks(c, r, value) ==
    LET most   == Percent(c.max_position, r.cash)
        capped == IF most > 0 /\ value > most THEN most ELSE value
        kept   == IF capped < Percent(c.min_position, r.account) THEN 0 ELSE capped
    IN Lots(c, kept, r.price)

\* The size keeps the weight it had before the checks.
Sized(c, r, value, weight, risk) ==
    [symbol |-> r.symbol, value |-> ApplyRiskChecks(c, r, value), weight |-> weight,
     price |-> r.price, risk |-> risk]

Plain(c, r, value)    == Sized(c, r, value, WeightIn(r.account, value), 0)
Unsized(r)            == [symbol |-> r.symbol, value |-> 0, weight |-> 0, price |-> 0, risk |-> 0]
OfCash(c, r, percent) == Percent(percent, Larger(r.cash, 0))
Unless(r, size)       == IF size.value = 0 /\ size.weight = 0 THEN Unsized(r) ELSE size

FixedShares(c, r) == Plain(c, r, r.price)
FixedValue(c, r)  == Plain(c, r, IF r.cash > 0 THEN Smaller(c.fixed_value, r.cash) ELSE c.fixed_value)
FixedFractional(c, r) == Unless(r, Plain(c, r, OfCash(c, r, Smaller(c.max_position, 100))))

\* Without a volatility the risk cancels out: the whole account is asked for.
FixedRisk(c, r) ==
    LET risk  == Percent(c.risk, r.account)
        value == IF r.volatility > 0 THEN (100 * risk) \div r.volatility
                 ELSE IF c.risk > 0 THEN (100 * risk) \div c.risk ELSE 0
    IN IF r.price <= 0 THEN Unsized(r) ELSE Sized(c, r, value, WeightIn(r.account, value), risk)

PercentageOfEquity(c, r) ==
    LET percent == Smaller(c.max_position, 100)
    IN Sized(c, r, Percent(percent, IF r.portfolio > 0 THEN r.portfolio ELSE r.account), 100 * percent, 0)

\* p - q / b, in percent, times the fraction of it that is used.
KellyPercent(r, used) ==
    LET b == Ratio(r.avg_win, r.avg_loss)
    IN (used * (r.win_rate * b.num - (100 - r.win_rate) * b.den)) \div (100 * b.num)

KellyOf(c, r, used) ==
    IF r.win_rate <= 0 \/ r.win_rate >= 100 \/ r.avg_loss <= 0 \/ r.avg_win <= 0 THEN Unsized(r)
    ELSE Unless(r, Plain(c, r, OfCash(c, r, Larger(0, Smaller(KellyPercent(r, used), c.max_position)))))

Kelly(c, r)           == KellyOf(c, r, 100)
FractionalKelly(c, r) == KellyOf(c, r, c.kelly)

ATRSize(c, r) ==
    LET risk  == Percent(c.risk, r.account)
        value == (risk * r.price) \div (r.atr * c.atr_multiplier)
    IN IF r.atr <= 0 THEN Unsized(r) ELSE Sized(c, r, value, WeightIn(r.account, value), risk)

VolatilityShare(c, r, target) ==
    IF r.volatility <= 0 THEN Unsized(r)
    ELSE Plain(c, r, OfCash(c, r, Smaller((100 * target) \div r.volatility, c.max_position)))

VolatilityTargeting(c, r)   == VolatilityShare(c, r, c.vol_target)
EqualRiskContribution(c, r) == VolatilityShare(c, r, c.erc_target)

Methods == {"fixed_shares", "fixed_value", "fixed_fractional", "fixed_risk_per_trade",
            "percentage_of_equity", "kelly_criterion", "fractional_kelly", "atr_position_sizing",
            "volatility_targeting", "equal_risk_contribution"}

Calculate(c, r, method) ==
    CASE method = "fixed_shares"            -> FixedShares(c, r)
      [] method = "fixed_value"             -> FixedValue(c, r)
      [] method = "fixed_fractional"        -> FixedFractional(c, r)
      [] method = "fixed_risk_per_trade"    -> FixedRisk(c, r)
      [] method = "percentage_of_equity"    -> PercentageOfEquity(c, r)
      [] method = "kelly_criterion"         -> Kelly(c, r)
      [] method = "fractional_kelly"        -> FractionalKelly(c, r)
      [] method = "atr_position_sizing"     -> ATRSize(c, r)
      [] method = "volatility_targeting"    -> VolatilityTargeting(c, r)
      [] method = "equal_risk_contribution" -> EqualRiskContribution(c, r)

-----------------------------------------------------------------------------
(* The optimizer *)

Value(sizes) == Total([i \in DOMAIN sizes |-> sizes[i].value])
Risk(sizes)  == Total([i \in DOMAIN sizes |-> sizes[i].risk])

\* Every size times limit / total; the weight is taken before the lots.
ScaleSizings(c, sizes, limit, total) ==
    [i \in DOMAIN sizes |->
        LET s == sizes[i]
            value == (s.value * limit) \div total
        IN [s EXCEPT !.value = Lots(c, value, s.price), !.weight = WeightIn(c.account, value),
                     !.risk = (s.risk * limit) \div total]]

FitExposure(c, sizes) ==
    LET limit == Percent(c.exposure, c.account)
    IN IF Value(sizes) > limit THEN ScaleSizings(c, sizes, limit, Value(sizes)) ELSE sizes

FitCash(c, sizes, cash) ==
    IF Value(sizes) > cash THEN ScaleSizings(c, sizes, cash, Value(sizes)) ELSE sizes

\* A weight above the limit resets the value to the limit of the account.
Resize(c, s) ==
    LET over  == s.weight > 100 * c.max_position
        value == IF over THEN Percent(c.max_position, c.account) ELSE s.value
        whole == Lots(c, value, s.price)
    IN [s EXCEPT !.value = whole,
                 !.weight = IF c.lot > 1 /\ value > 0 THEN WeightIn(c.account, whole)
                            ELSE IF over THEN 100 * c.max_position ELSE s.weight,
                 !.risk = IF s.value > 0 THEN (s.risk * whole) \div s.value ELSE 0]

ApplyConstraintResizing(c, sizes) == [i \in DOMAIN sizes |-> Resize(c, sizes[i])]

\* Shares of the total risk, in percent; one unit stands in for no risk at all.
RiskBudgets(sizes) ==
    [i \in DOMAIN sizes |-> (100 * sizes[i].risk) \div (IF Risk(sizes) = 0 THEN 1 ELSE Risk(sizes))]

AllocationWarnings(c, sizes, exposure) ==
    (IF 10 * exposure > 900 * c.exposure THEN {<<"exposure">>} ELSE {})
      \union {<<"weight", s.symbol>> : s \in {x \in ToSet(sizes) : 10 * x.weight > 900 * c.max_position}}
      \union {<<"small", s.symbol>> : s \in {x \in ToSet(sizes) : 0 < x.value /\ x.value < c.min_trade}}

AllocationOf(c, sizes, cash) ==
    LET exposure == WeightIn(c.account, Value(sizes))
    IN [positions |-> sizes, total |-> Value(sizes), risk |-> Risk(sizes),
        cash |-> Larger(0, cash - Value(sizes)), reserve |-> Percent(c.reserve, c.account),
        exposure |-> exposure, budgets |-> RiskBudgets(sizes),
        warnings |-> AllocationWarnings(c, sizes, exposure)]

Optimize(c, sizes, cash) ==
    IF sizes = <<>>
    THEN [AllocationOf(c, <<>>, cash) EXCEPT !.reserve = Percent(c.reserve, cash)]
    ELSE AllocationOf(c, ApplyConstraintResizing(c, FitCash(c, FitExposure(c, sizes), cash)), cash)

\* budgets: a sequence of [symbol, weight, risk]; a symbol without a request is left out.
AllocateByRiskBudget(c, requests, budgets, cash) ==
    LET weights == Total([i \in DOMAIN budgets |-> budgets[i].weight])
        asked(b) == {i \in DOMAIN requests : requests[i].symbol = b.symbol}
        share(b) == Smaller((b.weight * cash) \div weights, Percent(c.max_position, cash))
        size(b)  == LET r == requests[CHOOSE i \in asked(b) : \A j \in asked(b) : j <= i]
                    IN [symbol |-> b.symbol, value |-> Lots(c, share(b), r.price), price |-> r.price,
                        weight |-> WeightIn(c.account, share(b)), risk |-> b.risk]
        known == SelectSeq(budgets, LAMBDA b : asked(b) # {})
    IN IF weights <= 0 THEN [AllocationOf(c, <<>>, cash) EXCEPT !.reserve = 0]
       ELSE Optimize(c, [i \in DOMAIN known |-> size(known[i])], cash)

\* The cash of a portfolio is that of its first request that has any.
AvailableCash(c, requests) ==
    LET some == SelectSeq(requests, LAMBDA r : r.cash > 0)
    IN IF some = <<>> THEN c.account ELSE some[1].cash

PortfolioSizes(c, requests, method) ==
    IF requests = <<>> THEN [AllocationOf(c, <<>>, 0) EXCEPT !.reserve = 0]
    ELSE Optimize(c, [i \in DOMAIN requests |-> Calculate(c, requests[i], method)],
                  AvailableCash(c, requests))

\* The changes from current to target; a symbol that is no longer targeted is not sold.
RebalanceSizes(c, current, target) ==
    LET old(s) == {i \in DOMAIN current : current[i].symbol = s.symbol}
        last(s) == current[CHOOSE i \in old(s) : \A j \in old(s) : j <= i]
        changed == SelectSeq(target, LAMBDA s : old(s) = {} \/ s.value # last(s).value)
        change(s) == IF old(s) = {} THEN s
                     ELSE [s EXCEPT !.value = s.value - last(s).value, !.risk = s.risk - last(s).risk]
        all == AllocationOf(c, [i \in DOMAIN changed |-> change(changed[i])], c.account)
    IN [all EXCEPT !.budgets = <<>>,
          !.warnings = IF all.exposure > 100 * c.exposure THEN {"exceeds"} ELSE {}]

-----------------------------------------------------------------------------
(* Constraints *)

PositionViolations(c, s, sector, held) ==
    (IF s.weight > 100 * c.max_position THEN {"max_position_size"} ELSE {})
      \union (IF 0 < s.weight /\ s.weight < 100 * c.min_position THEN {"min_position_size"} ELSE {})
      \union (IF sector # Absent /\ held + s.weight > 100 * c.sector THEN {"max_sector_exposure"} ELSE {})
      \union (IF c.lot > 1 /\ s.value > 0 /\ s.value % (s.price * c.lot) # 0 THEN {"round_lot"} ELSE {})
      \union (IF 0 < s.value /\ s.value < c.min_trade THEN {"min_trade_value"} ELSE {})

AllocationViolations(c, a) ==
    (IF a.exposure > 100 * c.exposure THEN {"max_portfolio_exposure"} ELSE {})
      \union (IF a.cash < Percent(c.reserve, c.account) THEN {"cash_reserve"} ELSE {})

\* The engine passes no sector, so the sector limit is never checked.
ValidateSizes(c, a) ==
    AllocationViolations(c, a)
      \union UNION {PositionViolations(c, s, Absent, 0) : s \in ToSet(a.positions)}

SizingMetrics(c, a) ==
    LET weights == [i \in DOMAIN a.positions |-> a.positions[i].weight]
    IN IF weights = <<>> THEN [positions |-> 0, cash |-> WeightIn(c.account, a.cash)]
       ELSE [positions |-> Len(weights), cash |-> WeightIn(c.account, a.cash),
             largest |-> Highest(weights), smallest |-> Lowest(weights), average |-> Mean(weights),
             concentration |-> Total([i \in DOMAIN weights |-> (weights[i] * weights[i]) \div 10000])]
=============================================================================
