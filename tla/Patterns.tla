------------------------------ MODULE Patterns ------------------------------
(***************************************************************************)
(* Chart patterns: five detectors score the same snapshot and the engine   *)
(* keeps the best.  Prices are in thousandths, the dry-up ratio in         *)
(* hundredths, the volatility in percent; scores are whole points.         *)
(***************************************************************************)
EXTENDS Assessment

Fraction(points, tenths) == (points * tenths) \div 10

\* (a - b) / base in percent is below p, for a positive base.
Percent(a, b, base, p) == 100 * (a - b) < p * base

Score100(parts) == Clamp(Sum(parts), 0, 100)

\* Fifty, bonuses, and five less for each warning.
PatternConfidence(bonus, parts) ==
    ClampConfidence(50 + bonus - 5 * Cardinality(Warnings(parts)))

Earned(condition, bonus) == IF condition THEN bonus ELSE 0

Pattern(name, s, parts, bonus) ==
    [name |-> name, score |-> Score100(parts), confidence |-> PatternConfidence(bonus, parts),
     pivot |-> s.pivot, breakout |-> None, stop |-> None, risk_reward |-> None,
     warnings |-> Warnings(parts)]

\* Range of the highs and lows over the price.
RangeBelow(s, p) == Percent(Highest(s.highs), Lowest(s.lows), s.price, p)
NoRange(s) == s.highs = <<>> \/ s.lows = <<>>

RangePart(s, missing, tight, moderate, wide) ==
    IF NoRange(s) THEN Missing(missing)
    ELSE IF s.price = 0 THEN Silent(0)
    ELSE IF RangeBelow(s, 8) THEN Silent(tight)
    ELSE IF RangeBelow(s, 15) THEN Silent(moderate) ELSE Part(5, {wide})

VolatilityPart(s, low, high) ==
    IF ~Known(s.volatility) THEN Silent(0)
    ELSE IF s.volatility < low THEN Silent(25)
    ELSE IF s.volatility < high THEN Silent(15) ELSE Part(5, {"high volatility"})

-----------------------------------------------------------------------------
(* Volatility contraction pattern *)

Contraction(s) ==
    LET cc == s.contractions  vol == s.volatility
        counted == IF ~Known(cc) THEN Silent(0)
                   ELSE IF cc >= 4 THEN Silent(35) ELSE IF cc >= 2 THEN Silent(Fraction(35, 6))
                   ELSE Part(Fraction(35, 2), {"immature"})
    IN IF ~Known(cc) /\ ~Known(vol) THEN Missing("contraction data")
       ELSE IF Known(vol) /\ vol < 15 THEN Part(Smaller(35, counted.points + 10), counted.warnings)
       ELSE IF Known(vol) /\ vol > 30
            THEN Part(Larger(0, counted.points - 5), counted.warnings \cup {"high volatility"})
       ELSE counted

VCPVolume(s) ==
    IF ~Known(s.dryup) THEN Missing("dry-up data")
    ELSE IF s.dryup < 50 THEN Silent(20) ELSE IF s.dryup < 70 THEN Silent(Fraction(20, 7))
    ELSE Part(Fraction(20, 3), {"weak dry-up"})

VCPBreakout(s) ==
    LET within(p) == WithinOfHigh(s.price, s.pivot, p)
    IN IF ~Known(s.pivot) \/ s.pivot = 0 THEN Missing("pivot")
       ELSE IF within(2) THEN Silent(20) ELSE IF within(5) THEN Silent(Fraction(20, 7))
       ELSE IF within(10) THEN Silent(Fraction(20, 4)) ELSE Missing("far from pivot")

VCPTrend(s) ==
    IF ~Known(s.trend_quality) THEN Silent(0)
    ELSE IF s.trend_quality >= 70 THEN Silent(15)
    ELSE IF s.trend_quality >= 50 THEN Silent(Fraction(15, 6)) ELSE Missing("poor trend")

VCPStrength(s) ==
    Silent(IF ~Known(s.rs) THEN 0 ELSE Graded(s.rs, << <<70, 10>>, <<50, 5>> >>, 0))

ATR(s) == IF Known(s.atr) THEN s.atr ELSE 0
PivotStop(s) == IF Known(s.pivot) THEN s.pivot - (3 * ATR(s)) \div 2 ELSE None
PivotBreakout(s) == IF Known(s.pivot) THEN s.pivot + ATR(s) \div 10 ELSE None

\* Reward over risk in hundredths, measured from the later of price and breakout.
VCPRiskReward(s) ==
    LET entry  == Larger(s.price, PivotBreakout(s))
        risk   == entry - PivotStop(s)
        reward == PivotBreakout(s) - entry + (PivotBreakout(s) - s.price)
    IN IF ~Known(s.pivot) THEN None
       ELSE IF PivotStop(s) = 0 \/ risk <= 0 THEN None ELSE (100 * reward) \div risk

VCP(s) ==
    LET contraction == Contraction(s)  volume == VCPVolume(s)  breakout == VCPBreakout(s)
        parts == <<contraction, volume, breakout, VCPTrend(s), VCPStrength(s)>>
        bonus == Earned(contraction.points >= 28, 15) + Earned(volume.points >= 14, 10)
                   + Earned(breakout.points >= 14, 10)
                   + Earned(Known(s.trend_quality) /\ s.trend_quality >= 70, 10)
                   + Earned(Known(s.rs) /\ s.rs >= 70, 5)
    IN [Pattern("VCP", s, parts, bonus) EXCEPT
          !.breakout = PivotBreakout(s), !.stop = PivotStop(s), !.risk_reward = VCPRiskReward(s)]

-----------------------------------------------------------------------------
(* The other four *)

FlatBase(s) ==
    LET range == RangePart(s, "range data", 40, 25, "wide range")
        near(p) == WithinOfHigh(s.price, s.high_52w, p)
        proximity == IF ~Known(s.high_52w) \/ s.high_52w = 0 THEN Silent(0)
                     ELSE IF near(5) THEN Silent(35) ELSE IF near(10) THEN Silent(25)
                     ELSE IF near(20) THEN Silent(10) ELSE Missing("far from high")
    IN Pattern("FlatBase", s, <<range, proximity, VolatilityPart(s, 12, 20)>>,
               Graded(range.points, << <<35, 20>>, <<20, 10>> >>, 0))

Resistance(s) ==
    LET top == Highest(s.highs)
        touches == Count(s.highs, LAMBDA h : Percent(top, h, top, 2))
    IN IF Len(s.highs) < 3 THEN Missing("resistance data")
       ELSE IF touches >= 3 THEN Silent(40) ELSE IF touches >= 2 THEN Silent(25)
       ELSE Part(5, {"no resistance"})

\* The average of the later half against that of the earlier half.
HigherLows(s) ==
    LET n == Len(s.lows)  h == n \div 2
        first == h * Total(SubSeq(s.lows, h + 1, n))
        second == (n - h) * Total(SubSeq(s.lows, 1, h))
    IN IF n < 3 THEN Missing("lows data")
       ELSE IF first > second THEN Silent(35) ELSE IF first = second THEN Silent(20)
       ELSE Missing("none hl")

AscendingTriangle(s) ==
    LET resistance == Resistance(s)  lows == HigherLows(s)
    IN Pattern("AscendingTriangle", s, <<resistance, lows, VolatilityPart(s, 15, 25)>>,
               Earned(resistance.points >= 30, 15) + Earned(lows.points >= 25, 15))

Cup(s) ==
    LET n == Len(s.closes)  m == n \div 2
        first == Total(SubSeq(s.closes, 1, m)) \div m
        last  == Total(SubSeq(s.closes, m + 1, n)) \div (n - m)
        rim(p) == 100 * Abs(first - last) < p * first
        depth == first - Lowest(s.closes)
        deeper(p) == 100 * depth > p * first
        shallower(p) == 100 * depth < p * first
    IN IF n < 5 THEN Missing("cup data")
       ELSE IF rim(5) /\ deeper(10) /\ shallower(35) THEN Silent(40)
       ELSE IF rim(10) /\ shallower(40) THEN Silent(25) ELSE Part(5, {"weak cup"})

Handle(s) ==
    LET below(p) == Percent(s.pivot, s.price, s.pivot, p)
    IN IF ~Known(s.pivot) \/ s.price = 0 THEN Silent(0)
       ELSE IF s.pivot > s.price /\ below(10) THEN Silent(35) ELSE IF below(15) THEN Silent(20)
       ELSE IF below(25) THEN Part(5, {"deep handle"}) ELSE Missing("handle too deep")

HandleVolume(s) ==
    IF ~Known(s.dryup) THEN Silent(0)
    ELSE IF s.dryup < 60 THEN Silent(25) ELSE IF s.dryup < 80 THEN Silent(15)
    ELSE Part(5, {"weak handle volume"})

CupHandle(s) ==
    LET cup == Cup(s)  handle == Handle(s)
    IN [Pattern("CupHandle", s, <<cup, handle, HandleVolume(s)>>,
                Earned(cup.points >= 30, 15) + Earned(handle.points >= 20, 10)) EXCEPT
          !.breakout = IF Known(s.pivot) THEN (101 * s.pivot) \div 100 ELSE None,
          !.stop = PivotStop(s)]

Advance(s) ==
    LET start == s.closes[1]  gained(p) == 100 * (Highest(s.closes) - start) >= p * start
    IN IF Len(s.closes) < 5 THEN Missing("advance data") ELSE IF start = 0 THEN Silent(0)
       ELSE IF gained(30) THEN Silent(40) ELSE IF gained(20) THEN Silent(25)
       ELSE Part(5, {"weak advance"})

Retracement(s) ==
    LET peak == Highest(s.closes)  below(p) == Percent(peak, s.price, peak, p)
    IN IF s.closes = <<>> THEN Silent(0) ELSE IF peak = 0 THEN Silent(0)
       ELSE IF below(10) THEN Silent(25) ELSE IF below(20) THEN Silent(15)
       ELSE Part(5, {"deep retracement"})

HighTightFlag(s) ==
    LET advance == Advance(s)  flag == RangePart(s, "flag data", 35, 20, "loose flag")
    IN Pattern("HighTightFlag", s, <<advance, flag, Retracement(s)>>,
               Earned(advance.points >= 30, 15) + Earned(flag.points >= 20, 10))

-----------------------------------------------------------------------------
NoPattern(s) ==
    [name |-> "Unknown", score |-> 0, confidence |-> 0, pivot |-> None, breakout |-> None,
     stop |-> None, risk_reward |-> None, warnings |-> {"no pattern"}]

\* A detector that divides by a zero pivot is left out.
Detected(s) ==
    LET zeroPivot == s.pivot = 0 /\ s.price # 0
    IN <<VCP(s), FlatBase(s), AscendingTriangle(s)>>
         \o (IF zeroPivot THEN <<>> ELSE <<CupHandle(s)>>) \o <<HighTightFlag(s)>>

\* The first of those with the highest score.
BestOf(all, found) ==
    all[CHOOSE i \in found : \A j \in found :
          \/ all[i].score > all[j].score
          \/ all[i].score = all[j].score /\ i <= j]

BestPattern(s) ==
    LET all   == Detected(s)
        found == {i \in DOMAIN all : all[i].score > 0}
    IN IF found = {} THEN NoPattern(s) ELSE BestOf(all, found)
=============================================================================
