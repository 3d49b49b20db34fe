------------------------------ MODULE Decision ------------------------------
(***************************************************************************)
(* From the five assessments of a stock to an order: the composite score   *)
(* and recommendation, the trade plan, the risk check, and the allocation  *)
(* of capital over several stocks.  Prices are thousandths, confidences    *)
(* hundredths of a point, position sizes percent of the capital, amounts   *)
(* of capital hundredths of its unit.                                      *)
(***************************************************************************)
EXTENDS Patterns

-----------------------------------------------------------------------------
(* Composite *)

Sources == <<"market", "rs", "trend", "pattern", "volume">>
SourceWeight == [market |-> 15, rs |-> 20, trend |-> 25, pattern |-> 20, volume |-> 20]

\* The score of a source in PerPoint-ths; a missing one counts as zero.
Raw(r, source) ==
    IF ~Known(r[source]) THEN 0
    ELSE IF source = "pattern" THEN Points(r.pattern.score) ELSE r[source].score

Weighted(r, source) == SourceWeight[source] * Raw(r, source)
Overall(r) == Total([i \in DOMAIN Sources |-> Weighted(r, Sources[i])])
OverallAtLeast(r, points) == Overall(r) >= 100 * Points(points)
InHundredths(weighted) == (2 * weighted + PerPoint) \div (2 * PerPoint)

CompositeWarnings(r) ==
    UNION {IF Known(r[s]) THEN r[s].warnings ELSE {"missing " \o s} :
             s \in {Sources[i] : i \in DOMAIN Sources}}

ByScore(r) ==
    CASE OverallAtLeast(r, 95) -> "STRONG_BUY"
      [] ~OverallAtLeast(r, 95) /\ OverallAtLeast(r, 85) -> "BUY"
      [] ~OverallAtLeast(r, 85) /\ OverallAtLeast(r, 75) -> "WATCHLIST"
      [] ~OverallAtLeast(r, 75) /\ OverallAtLeast(r, 60) -> "MONITOR"
      [] OTHER -> "AVOID"

Hopeful == {"STRONG_BUY", "BUY", "WATCHLIST"}
BearMarket(r)  == Known(r.market) /\ r.market.class = "Bear"
BrokenTrend(r) == Known(r.trend) /\ r.trend.quality = "Broken"
WeakSource(r, source) == Raw(r, source) < Points(40)

\* Mutant: the market closes no gate.
ApplyGatingOfStock(r) ==
    LET rec == ByScore(r)
    IN IF BrokenTrend(r) /\ rec \in Hopeful THEN "MONITOR"
       ELSE IF (WeakSource(r, "pattern") \/ WeakSource(r, "rs")) /\ rec = "STRONG_BUY" THEN "BUY"
       ELSE rec
ApplyGating(r) ==
    LET rec == ByScore(r)
    IN IF (BearMarket(r) \/ BrokenTrend(r)) /\ rec \in Hopeful THEN "MONITOR"
       ELSE IF (WeakSource(r, "pattern") \/ WeakSource(r, "rs")) /\ rec = "STRONG_BUY" THEN "BUY"
       ELSE rec

CapRecommendation(r, rec) ==
    IF ~OverallAtLeast(r, 60) /\ rec \notin {"AVOID", "MONITOR"} THEN "AVOID"
    ELSE IF ~OverallAtLeast(r, 75) /\ rec \in {"STRONG_BUY", "BUY"} THEN "WATCHLIST"
    ELSE rec

\* Percent of the capital; the gates do not reach it.
PositionSize(r) ==
    LET size == Graded(Overall(r), << <<100 * Points(95), 25>>, <<100 * Points(90), 20>>,
                   <<100 * Points(85), 15>>, <<100 * Points(75), 10>>, <<100 * Points(60), 5>> >>, 0)
    IN IF Raw(r, "rs") < Points(50) THEN Smaller(10, size) ELSE size

\* Squared coefficient of variation below (p / 20)^2, over whole points.
SpreadBelow(scores, p) ==
    LET sum == Total(scores)
        squares == Total([i \in DOMAIN scores |-> scores[i] * scores[i]])
    IN 400 * (Len(scores) * squares - sum * sum) < p * p * sum * sum

CompositeConfidence(r) ==
    LET raws    == [i \in DOMAIN Sources |-> Raw(r, Sources[i])]
        present == Pick(raws, {i \in DOMAIN raws : raws[i] > 0})
        whole   == [i \in DOMAIN present |-> present[i] \div PerPoint]
        spread  == IF Len(present) < 3 \/ (SpreadBelow(whole, 6) /\ ~SpreadBelow(whole, 3)) THEN 0
                   ELSE IF SpreadBelow(whole, 3) THEN 1000
                   ELSE IF SpreadBelow(whole, 10) THEN -1000 ELSE -2000
        weak    == Count(present, LAMBDA x : x < Points(40))
    IN IF present = <<>> THEN 0
       ELSE Clamp(Total(present) \div (3 * Len(present)) + spread - 500 * weak
                    - 200 * Cardinality(CompositeWarnings(r)), 0, 10000)

InvestmentGrade(r) ==
    Graded(Overall(r) \div (100 * PerPoint),
           << <<95, "A+">>, <<90, "A">>, <<85, "A-">>, <<80, "B+">>, <<75, "B">>,
              <<70, "B-">>, <<60, "C">>, <<50, "D">> >>, "F")

Composite(r) ==
    [overall |-> InHundredths(Overall(r)),
     part |-> [s \in DOMAIN SourceWeight |-> InHundredths(Weighted(r, s))],
     recommendation |-> CapRecommendation(r, ApplyGating(r)),
     position_size |-> PositionSize(r), grade |-> InvestmentGrade(r),
     confidence |-> CompositeConfidence(r), warnings |-> CompositeWarnings(r)]

-----------------------------------------------------------------------------
(* Trade plan *)

Cents(x) == ((x + 5) \div 10) * 10

Entry(p) == IF ~Known(p) THEN None ELSE IF Known(p.breakout) THEN p.breakout ELSE p.pivot

Stop(p) ==
    IF ~Known(p) THEN None
    ELSE IF Known(p.stop) THEN p.stop
    ELSE IF Known(Entry(p)) THEN (95 * Entry(p)) \div 100 ELSE None

\* The stop that survives: one that is not below the entry is dropped.
ValidStop(p) ==
    IF Known(Entry(p)) /\ Known(Stop(p)) /\ ~(Stop(p) < Entry(p)) THEN None ELSE Stop(p)

HasRisk(p) == Known(Entry(p)) /\ Known(ValidStop(p))
RiskOf(p)  == Entry(p) - ValidStop(p)

\* Prices at one, two and three times the risk above the entry.
Targets(p) == IF HasRisk(p) THEN [k \in 1..3 |-> Cents(Entry(p) + k * RiskOf(p))] ELSE <<>>

\* In hundredths, from the first target; the mutant takes the second.
RiskRewardRatioOfSecond(p) ==
    IF ~HasRisk(p) THEN None
    ELSE (200 * (Targets(p)[2] - Entry(p)) + RiskOf(p)) \div (2 * RiskOf(p))
RiskRewardRatio(p) ==
    IF ~HasRisk(p) THEN None
    ELSE (200 * (Targets(p)[1] - Entry(p)) + RiskOf(p)) \div (2 * RiskOf(p))

TradeQuality(c, p) ==
    LET rr == IF Known(p) /\ Known(p.risk_reward) THEN p.risk_reward ELSE RiskRewardRatio(p)
        rec == c.recommendation
    IN CASE rec = "AVOID" -> "Reject" [] rec = "MONITOR" -> "D" [] rec = "WATCHLIST" -> "C"
         [] OTHER -> IF Known(rr) THEN Graded(rr, << <<300, "A+">>, <<250, "A">>, <<200, "B">> >>, "C")
                     ELSE IF rec = "STRONG_BUY" THEN "A" ELSE "B"

\* Two of the seven items are worded so that their failure still counts as
\* passed when the checklist is read back.
ChecklistPassed(c, p) ==
    2 + Count(<<c.part.market >= 1000, c.part.rs >= 1400, Known(p) /\ p.score >= 50,
                c.part.volume >= 1400, Known(ValidStop(p))>>, LAMBDA ok : ok)

ExecutionStatus(c, p) ==
    IF c.recommendation = "AVOID" \/ ~Known(ValidStop(p)) \/ ~Known(Entry(p)) THEN "REJECT"
    ELSE IF /\ c.recommendation \in {"STRONG_BUY", "BUY"}
            /\ Known(RiskRewardRatio(p)) /\ RiskRewardRatio(p) >= 200
         THEN "READY" ELSE "WAIT"

TradeConfidence(c, p) ==
    LET blended == IF Known(p) THEN (7 * c.confidence + 300 * p.confidence) \div 10 ELSE c.confidence
        checked == (8 * blended) \div 10 + (2000 * ChecklistPassed(c, p)) \div 7
    IN CASE ExecutionStatus(c, p) = "REJECT" -> (3 * checked) \div 10
         [] ExecutionStatus(c, p) = "WAIT" -> (7 * checked) \div 10
         [] ExecutionStatus(c, p) = "READY" -> checked

TradeFlags(c, p) ==
    {IF Known(Entry(p)) THEN "VALID_ENTRY" ELSE "INVALID_ENTRY",
     IF Known(ValidStop(p)) THEN "VALID_STOP" ELSE "INVALID_STOP"}
      \cup (IF Known(RiskRewardRatio(p)) THEN {"VALID_RISK_REWARD"} ELSE {})
      \cup (IF c.position_size > 0 THEN {"VALID_POSITION_SIZE"} ELSE {})
      \cup (IF HasRisk(p) THEN {"VALID_TARGET"} ELSE {})

TradePlan(c, p) ==
    [entry |-> Entry(p), stop |-> ValidStop(p), targets |-> Targets(p),
     ratio |-> RiskRewardRatio(p), quality |-> TradeQuality(c, p),
     status |-> ExecutionStatus(c, p), confidence |-> Clamp(TradeConfidence(c, p), 0, 10000),
     flags |-> TradeFlags(c, p)]

-----------------------------------------------------------------------------
(* Risk check *)

StopIsValid(plan) == Known(plan.stop) /\ Known(plan.entry) /\ plan.stop < plan.entry
PositionIsValid(c) == c.position_size > 0
RatioIsValid(plan) == Known(plan.ratio) /\ plan.ratio >= 200

CapitalAtRisk(plan) ==
    IF Known(plan.entry) /\ Known(plan.stop) /\ plan.entry > plan.stop
    THEN Cents(plan.entry - plan.stop) ELSE None

\* Position size times the risk of ONE share, in ten-thousandths of a cent's unit.
MaximumLoss(c, plan) ==
    IF Known(CapitalAtRisk(plan)) /\ CapitalAtRisk(plan) > 0
    THEN (c.position_size * CapitalAtRisk(plan)) \div 10 ELSE None

SharesToBuy(c, plan) ==
    IF Known(MaximumLoss(c, plan)) THEN MaximumLoss(c, plan) \div (10 * CapitalAtRisk(plan)) ELSE 0

ExposureClass(size, steps) ==
    IF size <= 5 THEN steps[1] ELSE IF size <= 10 THEN steps[2]
    ELSE IF size <= 20 THEN steps[3] ELSE steps[4]

\* Rank of the grade, from very low (1) to very high (5) and reject (6); the limits are 2, 5, 10 and 20 of the currency.
RiskGrade(plan) ==
    IF plan.status = "REJECT" \/ ~Known(CapitalAtRisk(plan)) THEN 6
    ELSE 1 + Count(<<2000, 5000, 10000, 20000>>, LAMBDA limit : CapitalAtRisk(plan) > limit)

RejectionReason(c, plan) ==
    IF plan.status # "READY" THEN "TRADE_NOT_READY"
    ELSE IF ~Known(plan.entry) THEN "INVALID_ENTRY" ELSE IF ~Known(plan.stop) THEN "MISSING_STOP"
    ELSE IF ~StopIsValid(plan) THEN "INVALID_STOP" ELSE IF ~RatioIsValid(plan) THEN "LOW_RISK_REWARD"
    ELSE IF c.position_size > 20 THEN "HIGH_EXPOSURE" ELSE "NONE"

ExecutionAllowed(c, plan) ==
    plan.status = "READY" /\ StopIsValid(plan) /\ PositionIsValid(c) /\ RatioIsValid(plan)

RiskConfidence(c, plan) ==
    LET valid == Count(<<StopIsValid(plan), PositionIsValid(c), RatioIsValid(plan)>>, LAMBDA ok : ok)
        conf  == (7 * ((plan.confidence + c.confidence) \div 2)) \div 10 + 1000 * valid
    IN Clamp(IF ExecutionAllowed(c, plan) THEN conf ELSE (3 * conf) \div 10, 0, 10000)

RiskCheck(c, plan) ==
    [size |-> c.position_size, at_risk |-> CapitalAtRisk(plan), loss |-> MaximumLoss(c, plan),
     shares |-> SharesToBuy(c, plan), grade |-> RiskGrade(plan),
     exposure |-> ExposureClass(c.position_size, <<"LOW", "NORMAL", "HIGH", "EXCESSIVE">>),
     portfolio |-> ExposureClass(c.position_size, <<"LOW", "MODERATE", "HIGH", "CRITICAL">>),
     allowed |-> ExecutionAllowed(c, plan), reason |-> RejectionReason(c, plan),
     confidence |-> RiskConfidence(c, plan)]

-----------------------------------------------------------------------------
(* The chain: EvaluationPipeline.run *)

Evaluated(input) ==
    [market |-> MarketRegime(input.market), rs |-> RelativeStrength(input.rs),
     trend |-> TrendQuality(input.trend), pattern |-> BestPattern(input.pattern),
     volume |-> VolumeStrength(input.volume)]

Advised(r) ==
    LET c == Composite(r)
        plan == TradePlan(c, r.pattern)
    IN [assessed |-> r, composite |-> c, plan |-> plan, risk |-> RiskCheck(c, plan)]

Chain(input) == Advised(Evaluated(input))

-----------------------------------------------------------------------------
(* Allocation of capital.  A candidate is a symbol (numbered in the order  *)
(* of the names) and its risk check.                                       *)

Before(a, b) ==
    \/ a.risk.confidence > b.risk.confidence
    \/ /\ a.risk.confidence = b.risk.confidence
       /\ \/ a.risk.grade < b.risk.grade
          \/ a.risk.grade = b.risk.grade /\ a.symbol < b.symbol

Ranked(candidates) ==
    LET allowed == {i \in DOMAIN candidates : candidates[i].risk.allowed}
    IN At(candidates, Ordered(allowed, [i \in allowed |->
           {j \in allowed : Before(candidates[j], candidates[i])}]))

\* Capital taken by the first i candidates in turn; the last one that finds
\* some left gets the rest, and the ones after it get no position.  The mutant
\* gives everybody what was asked for.
DeployedInFull(ranked, capital) ==
    LET taken[i \in 0..Len(ranked)] ==
            IF i = 0 THEN 0 ELSE taken[i - 1] + ranked[i].risk.size * capital
    IN taken
Deployed(ranked, capital) ==
    LET taken[i \in 0..Len(ranked)] ==
            IF i = 0 THEN 0
            ELSE Smaller(100 * capital, taken[i - 1] + ranked[i].risk.size * capital)
    IN taken

AllocateCapital(ranked, capital) ==
    LET taken == Deployed(ranked, capital)
        offers == [i \in DOMAIN ranked |->
                     [symbol |-> ranked[i].symbol, rank |-> i, amount |-> taken[i] - taken[i - 1],
                      shares |-> ranked[i].risk.shares, at_risk |-> ranked[i].risk.at_risk,
                      confidence |-> ranked[i].risk.confidence]]
    IN Pick(offers, {i \in DOMAIN offers : offers[i].amount > 0})

Amounts(positions) == [i \in DOMAIN positions |-> positions[i].amount]

\* 100 for equal amounts, 0 for everything in one of several positions.
Diversification(positions, capital) ==
    LET n   == Len(positions)
        hhi == Total([i \in DOMAIN positions |->
                        (positions[i].amount \div capital) * (positions[i].amount \div capital)])
    IN IF n = 0 THEN 0 ELSE IF n = 1 THEN 50
       ELSE Clamp((100 * (10000 - hhi) * n) \div (10000 * (n - 1)), 0, 100)

\* Average risk of one share, where 20 of the currency is 100; the return
\* score is the same number, taken from the same field.
PortfolioRisk(positions) ==
    IF positions = <<>> THEN 0
    ELSE Clamp(Total([i \in DOMAIN positions |-> positions[i].at_risk])
                 \div (200 * Len(positions)), 0, 100)

PortfolioOf(candidates, capital) ==
    LET ranked    == Ranked(candidates)
        positions == IF capital > 0 THEN AllocateCapital(ranked, capital) ELSE <<>>
        deployed  == Total(Amounts(positions))
    IN [capital |-> capital, positions |-> positions, deployed |-> deployed,
        cash |-> 100 * capital - deployed,
        rejected |-> Len(candidates) - Len(ranked), risk |-> PortfolioRisk(positions),
        diversification |-> Diversification(positions, capital)]
=============================================================================
