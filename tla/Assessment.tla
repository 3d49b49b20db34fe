----------------------------- MODULE Assessment -----------------------------
(***************************************************************************)
(* The four scorers that look at one stock and its market before a trade   *)
(* is planned: market regime, relative strength, trend quality, volume.    *)
(* Each one adds up parts.  A part is its points and the warnings it       *)
(* raises; warnings matter because their number lowers the confidence.     *)
(* Points are counted in PerPoint-ths, so every fraction the code          *)
(* multiplies a maximum by (1/3, 3/4, 0.67 ...) is exact.                  *)
(***************************************************************************)
EXTENDS Ratios, TLC

CONSTANT None       \* an absent optional value

Known(x)  == x # None
PerPoint  == 300
Points(n) == PerPoint * n

Part(points, warnings) == [points |-> points, warnings |-> warnings]
Silent(points)  == Part(points, {})
Missing(warning) == Part(0, {warning})

Sum(parts) == Total([i \in DOMAIN parts |-> parts[i].points])
Warnings(parts) == UNION {parts[i].warnings : i \in DOMAIN parts}

\* The value of the first step <<threshold, value>> that x reaches.
Graded(x, steps, otherwise) ==
    LET reached == {i \in DOMAIN steps : x >= steps[i][1]}
    IN IF reached = {} THEN otherwise
       ELSE steps[CHOOSE i \in reached : \A j \in reached : i <= j][2]

KnownOf(s) == Pick(s, {i \in DOMAIN s : Known(s[i])})

\* (high - price) / high in percent is at most p, for a positive high.
WithinOfHigh(price, high, p) == 100 * (high - price) <= p * high

ClampConfidence(x) == Clamp(x, 0, 100)

-----------------------------------------------------------------------------
(* Market regime *)

\* A reading that earns its points when it passes a test.
Reading(value, Passes(_), points, warning) ==
    IF ~Known(value) THEN Missing(warning)
    ELSE Silent(IF Passes(value) THEN Points(points) ELSE 0)

RegimeTrend(m) ==
    << Reading(m.nifty.sma200, LAMBDA v : m.nifty.price > v, 15, "nifty sma200"),
       Reading(m.midcap.sma200, LAMBDA v : m.midcap.price > v, 10, "midcap sma200"),
       Reading(m.smallcap.sma200, LAMBDA v : m.smallcap.price > v, 10, "smallcap sma200"),
       Reading(m.nifty.ema20, LAMBDA v : m.nifty.price > v, 5, "nifty ema20"),
       Reading(m.nifty.ema50, LAMBDA v : m.nifty.price > v, 5, "nifty ema50") >>

RegimeMomentum(m) ==
    << Reading(m.nifty.rsi14, LAMBDA v : v > 55, 5, "nifty rsi14"),
       Reading(m.nifty.macd_bullish, LAMBDA v : v, 5, "nifty macd") >>

RegimeBreadth(m) ==
    << Reading(m.above_50dma, LAMBDA v : v > 60, 15, "breadth 50"),
       Reading(m.above_200dma, LAMBDA v : v > 50, 20, "breadth 200") >>

RegimeVix(m) ==
    << IF ~Known(m.vix) THEN Missing("vix")
       ELSE Silent(CASE m.vix < 15 -> Points(5) [] m.vix > 25 -> Points(-5)
                     [] OTHER -> 0) >>

RegimeOf(score) ==
    Graded(score, << <<Points(90), "Strong Bull">>, <<Points(75), "Bull">>,
                     <<Points(55), "Neutral">>, <<Points(35), "Weak">> >>, "Bear")

MarketRegime(m) ==
    LET parts == RegimeTrend(m) \o RegimeMomentum(m) \o RegimeBreadth(m) \o RegimeVix(m)
        score == Clamp(Sum(parts), 0, Points(100))
        warnings == Warnings(parts)
    IN [score |-> score, class |-> RegimeOf(score), warnings |-> warnings,
        confidence |-> ClampConfidence(100 - 5 * Cardinality(warnings))]

-----------------------------------------------------------------------------
(* Relative strength.  A peer is a record of returns in percent, or None.  *)

Horizons == <<"m1", "m3", "m6", "y1">>
HorizonWeight == [m1 |-> 1, m3 |-> 2, m6 |-> 3, y1 |-> 4]

HorizonsOf(peer) == Pick(Horizons, {i \in DOMAIN Horizons : Known(peer[Horizons[i]])})

\* The average over the horizons that have a return.
WeightedReturn(peer) ==
    LET hs == HorizonsOf(peer)
    IN Ratio(Total([i \in DOMAIN hs |-> HorizonWeight[hs[i]] * peer[hs[i]]]),
             Total([i \in DOMAIN hs |-> HorizonWeight[hs[i]]]))

\* All points for a lead of more than 20%, two thirds above 10, a third above 0.
LeadPoints(ours, theirs, points) ==
    LET lead(p) == ours.num * theirs.den - theirs.num * ours.den > p * ours.den * theirs.den
    IN CASE lead(20) -> Points(points)
         [] ~lead(20) /\ lead(10) -> (Points(points) * 67) \div 100
         [] ~lead(10) /\ lead(0) -> (Points(points) * 33) \div 100
         [] OTHER -> 0

VsBenchmark(stock, peer, points) ==
    Silent(IF HorizonsOf(stock) = <<>> \/ HorizonsOf(peer) = <<>> THEN 0
           ELSE LeadPoints(WeightedReturn(stock), WeightedReturn(peer), points))

DistanceFromHigh(s) ==
    IF ~Known(s.price) \/ ~Known(s.high_52w) \/ s.high_52w = 0 THEN Silent(0)
    ELSE LET near(p) == WithinOfHigh(s.price, s.high_52w, p)
         IN Silent(IF near(5) THEN Points(20) ELSE IF near(10) THEN Points(15)
                   ELSE IF near(20) THEN Points(10) ELSE 0)

\* The lead over the market in the last month against the lead over a year.
RelativeMomentum(s) ==
    LET values == {s.stock.m1, s.stock.y1, s.market.m1, s.market.y1}
        acceleration == (s.stock.m1 - s.market.m1) - (s.stock.y1 - s.market.y1)
    IN IF None \in values THEN Silent(0)
       ELSE Silent(IF acceleration > 5 THEN Points(10)
                   ELSE IF acceleration > -5 THEN Points(5) ELSE 0)

Peer(s, peer, points, warning) ==
    IF ~Known(peer) THEN Missing(warning) ELSE VsBenchmark(s.stock, peer, points)

ShortHistory(s) ==
    IF Known(s.history) /\ s.history < 50 THEN {"short history " \o ToString(s.history)} ELSE {}

MissingReturns(s) ==
    {"no returns " \o who : who \in {w \in {"stock", "market"} : s[w].m1 = None /\ s[w].y1 = None}}

LeadershipOf(score) ==
    Graded(score, << <<Points(90), "Leader">>, <<Points(75), "Strong">>,
                     <<Points(55), "Average">>, <<Points(35), "Weak">> >>, "Laggard")

\* The industry's part is reported from third place, which is its place only
\* when the sector has a part too.
RelativeStrength(s) ==
    LET market   == VsBenchmark(s.stock, s.market, 30)
        sector   == Peer(s, s.sector, 25, "no sector")
        industry == Peer(s, s.industry, 15, "no industry")
        parts    == <<market, sector, industry, DistanceFromHigh(s), RelativeMomentum(s)>>
        warnings == Warnings(parts) \cup ShortHistory(s) \cup MissingReturns(s)
        score    == Clamp(Sum(parts), 0, Points(100))
    IN [score |-> score, leadership |-> LeadershipOf(score), warnings |-> warnings,
        market |-> market.points, sector |-> sector.points,
        industry |-> IF Known(s.sector) THEN industry.points ELSE 0,
        high |-> DistanceFromHigh(s).points, momentum |-> RelativeMomentum(s).points,
        confidence |-> ClampConfidence(100 - 5 * Cardinality(warnings)
                         - (IF Known(s.history) /\ s.history < 100 THEN 10 ELSE 0))]

-----------------------------------------------------------------------------
(* Trend quality.  averages and slopes: EMA20, EMA50, SMA150, SMA200.      *)

Alignment(t) ==
    LET avg == KnownOf(t.averages)
        aligned == Cardinality({i \in 1..Len(avg) - 1 : avg[i] > avg[i + 1]})
    IN IF Len(avg) < 2 THEN Missing("averages for alignment")
       ELSE Silent((Points(20) * aligned) \div (Len(avg) - 1))

PricePosition(t) ==
    LET avg == KnownOf(t.averages)
    IN IF avg = <<>> THEN Missing("averages for position")
       ELSE Silent((Points(15) * Count(avg, LAMBDA v : t.price > v)) \div Len(avg))

Slopes(t) ==
    LET known == KnownOf(t.slopes)
        falling == IF Known(t.slopes[4]) /\ t.slopes[4] < 0 THEN {"falling sma200"} ELSE {}
    IN IF known = <<>> THEN Missing("slopes")
       ELSE Part((Points(20) * Count(known, LAMBDA v : v > 0)) \div Len(known), falling)

Structure(t) ==
    LET value(x) == IF Known(x) THEN x ELSE 0
        none == {w \in {"hh", "hl"} : t[w] = 0}
    IN IF ~Known(t.hh) /\ ~Known(t.hl) THEN Missing("structure")
       ELSE Part(Smaller(Points(20), Points(4 * (value(t.hh) + value(t.hl)))),
                 {"none " \o w : w \in none})

Persistence(t) ==
    Silent(IF ~Known(t.age) THEN 0
           ELSE Points(Graded(t.age, << <<120, 10>>, <<60, 8>>, <<20, 5>>, <<1, 2>> >>, 0)))

HighProximity(t) ==
    LET near(p) == WithinOfHigh(t.price, t.high_52w, p)
    IN Silent(IF ~Known(t.high_52w) \/ t.high_52w = 0 THEN 0
              ELSE Points(IF near(5) THEN 15 ELSE IF near(10) THEN 12
                          ELSE IF near(20) THEN 8 ELSE IF near(35) THEN 4 ELSE 0))

\* More than 20% above the EMA20.
Extended(t) ==
    LET ema20 == t.averages[1]
    IN Known(ema20) /\ ema20 > 0 /\ 100 * (t.price - ema20) > 20 * ema20

QualityOf(score, worst) ==
    Graded(score, << <<Points(90), "Exceptional">>, <<Points(75), "Strong">>,
                     <<Points(55), "Healthy">>, <<Points(35), "Weak">> >>, worst)

TrendStage(t, quality) ==
    CASE quality = "Broken" -> "Broken"
      [] quality # "Broken" /\ ~Known(t.age) -> "Established"
      [] OTHER -> IF t.age < 20 THEN "Early" ELSE IF t.age <= 120 THEN "Established"
                  ELSE IF Extended(t) THEN "Extended" ELSE "Late"

\* What full, partial or no points add to the confidence.
Bonus(points, full, high, low) == IF points >= full THEN high ELSE IF points > 0 THEN low ELSE 0

TrendQuality(t) ==
    LET align == Alignment(t)  slope == Slopes(t)
        struct == Structure(t)  persist == Persistence(t)
        parts == <<align, PricePosition(t), slope, struct, persist, HighProximity(t)>>
        warnings == Warnings(parts)
                      \cup (IF Extended(t) THEN {"extended"} ELSE {})
                      \cup (IF Known(t.history) /\ t.history < 100
                            THEN {"short history " \o ToString(t.history)} ELSE {})
        score == Clamp(Sum(parts), 0, Points(100))
        quality == QualityOf(score, "Broken")
    IN [score |-> score, quality |-> quality, stage |-> TrendStage(t, quality),
        warnings |-> warnings,
        confidence |-> ClampConfidence(
            50 + Bonus(align.points, Points(20), 15, 5) + Bonus(slope.points, Points(20), 15, 5)
               + Bonus(struct.points, Points(16), 10, 3) + Bonus(persist.points, Points(8), 10, 3)
               - 4 * Cardinality(warnings)
               - (IF Known(t.history) /\ t.history < 200 THEN 5 ELSE 0))]

-----------------------------------------------------------------------------
(* Volume.  Ratios of volumes are compared in tenths.                      *)

HasAverage(v) == Known(v.average) /\ v.average > 0
Tenths(x, average) == (10 * x) \div average

RVol(v) ==
    LET rvol == IF Known(v.rvol) THEN v.rvol ELSE Tenths(v.volume, v.average)
    IN IF ~Known(v.rvol) /\ ~(v.volume > 0 /\ HasAverage(v)) THEN Missing("volume history")
       ELSE Silent(Points(Graded(rvol, << <<20, 20>>, <<15, 16>>, <<12, 12>>, <<10, 8>> >>, 4)))

BreakoutVolume(v) ==
    LET bv == v.breakout  cp == v.close_position  tq == v.trend_quality
        traded == Known(bv) /\ bv > 0
        ratio  == Tenths(bv, v.average)
        volume == IF ~traded THEN Silent(0) ELSE IF ~HasAverage(v) THEN Silent(Points(5))
                  ELSE IF ratio >= 20 THEN Silent(Points(10)) ELSE IF ratio >= 15 THEN Silent(Points(7))
                  ELSE Part(Points(3), {"weak breakout"})
        judged(x, warning) == IF ~Known(x) THEN Silent(0) ELSE IF x >= 70 THEN Silent(Points(5))
                  ELSE IF x >= 50 THEN Silent(Points(3)) ELSE Missing(warning)
        confirmed == (Known(tq) /\ tq >= 70)
        unconfirmed == IF ~Known(bv) /\ ~Known(cp) /\ ~confirmed THEN {"unconfirmed"} ELSE {}
        parts == <<volume, judged(cp, "weak close"), judged(tq, "poor trend")>>
    IN Part(Smaller(Points(20), Sum(parts)), Warnings(parts) \cup unconfirmed)

DryUp(v) ==
    LET below(p) == 10 * v.consolidation < p * v.average
    IN Silent(IF ~Known(v.consolidation) \/ ~Known(v.average) \/ v.average = 0 THEN 0
              ELSE Points(IF below(5) THEN 15 ELSE IF below(7) THEN 10
                          ELSE IF below(9) THEN 5 ELSE 0))

Accumulation(v) ==
    LET days  == Graded(v.accumulation, << <<6, 12>>, <<3, 8>>, <<1, 4>> >>, 0)
        close == IF Known(v.close_position)
                 THEN Graded(v.close_position, << <<70, 4>>, <<50, 2>> >>, 0) ELSE 0
        vol   == IF ~(v.volume > 0 /\ HasAverage(v)) THEN 0
                 ELSE IF v.volume > v.average THEN 4
                 ELSE IF 10 * v.volume > 8 * v.average THEN 2 ELSE 0
    IN IF ~Known(v.accumulation) THEN Silent(0)
       ELSE Part(Points(Smaller(20, days + close + vol)),
                 IF v.accumulation < 1 THEN {"no accumulation"} ELSE {})

Distribution(v) ==
    Silent(IF ~Known(v.distribution) THEN 0
           ELSE Points(Graded(v.distribution, << <<4, 15>>, <<2, 10>>, <<1, 5>> >>, 0)))

\* Two points for each of five agreeing signs.
Institutional(rvol, breakout, dryup, accum, distrib) ==
    Points(2 * Count(<<rvol.points >= Points(12), breakout.points >= Points(14),
                       dryup.points >= Points(10), accum.points >= Points(12),
                       distrib.points <= Points(5)>>, LAMBDA sign : sign))

VolumeStrength(v) ==
    LET rvol == RVol(v)  breakout == BreakoutVolume(v)  dryup == DryUp(v)
        accum == Accumulation(v)  distrib == Distribution(v)
        warnings == Warnings(<<rvol, breakout, accum>>)
        score == Clamp(Sum(<<rvol, breakout, dryup, accum>>) - distrib.points
                         + Institutional(rvol, breakout, dryup, accum, distrib),
                       0, Points(100))
        contradictory == accum.points >= Points(8) /\ Known(v.distribution) /\ v.distribution >= 2
    IN [score |-> score, quality |-> QualityOf(score, "Poor"), warnings |-> warnings,
        confidence |-> ClampConfidence(
            50 + Graded(rvol.points, << <<Points(16), 10>>, <<Points(12), 5>> >>, 0)
               + Graded(breakout.points, << <<Points(14), 10>>, <<Points(10), 5>> >>, 0)
               + Graded(accum.points, << <<Points(12), 10>>, <<Points(8), 5>> >>, 0)
               - 4 * Cardinality(warnings) - (IF contradictory THEN 10 ELSE 0))]
=============================================================================
