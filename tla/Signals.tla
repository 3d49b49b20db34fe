------------------------------ MODULE Signals -------------------------------
(***************************************************************************)
(* The five analytics engines of src/backend/analytics: each one scores    *)
(* its signals over a context (sequences of bars, oldest first), blends    *)
(* the available ones and turns the blend into a state and a confidence.   *)
(* Scores are hundredths in -100..100; states are -2..2 (very weak or      *)
(* strong bearish ... very strong or strong bullish), 0 neutral.           *)
(***************************************************************************)
EXTENDS Ratios

CONSTANT Cfg    \* windows and thresholds (the *Config dataclasses)

Unavailable == [score |-> 0, available |-> FALSE]
Signal(score) == [score |-> Clamp(score, -100, 100), available |-> TRUE]

Closes(bars)  == [i \in DOMAIN bars |-> bars[i].close]
Volumes(bars) == [i \in DOMAIN bars |-> bars[i].volume]
Back(s, k) == s[Len(s) - k]        \* s[-(k+1)]

\* Change over a base in hundredths; 0 for a zero base (_pct).
Pct(change, base) == IF base = 0 THEN 0 ELSE (100 * change) \div Abs(base)

-----------------------------------------------------------------------------
(* Trend *)

\* Averages (in hundredths) exist only over enough values.
Covers(values, p) == p >= 1 /\ Len(values) >= p

EMA(values, p) ==
    LET next[i \in p..Len(values)] ==
            IF i = p THEN (100 * Total(SubSeq(values, 1, p))) \div p
            ELSE (200 * values[i] + (p - 1) * next[i - 1]) \div (p + 1)
    IN next[Len(values)]

SMA(values, p) == (100 * Total(LastOf(values, p))) \div p

MovingAverageAlignment(ctx) ==
    LET closes == Closes(ctx.prices)
        short  == EMA(closes, Cfg.ema_short)
        mid    == EMA(closes, Cfg.ema_mid)
        long   == SMA(closes, Cfg.sma_long)
        price  == 100 * Back(closes, 0)
        checks == <<short > mid, mid > long, price > short, price > long>>
    IN IF ~(\A p \in {Cfg.ema_short, Cfg.ema_mid, Cfg.sma_long} : Covers(closes, p))
       THEN Unavailable
       ELSE Signal(50 * Count(checks, LAMBDA c : c) - 100)

HigherHighsLows(ctx) ==
    LET bars  == LastOf(ctx.prices, Cfg.structure)
        moves == 2..Len(bars)
        hh == Cardinality({i \in moves : bars[i].high > bars[i-1].high})
        lh == Cardinality({i \in moves : bars[i].high < bars[i-1].high})
        hl == Cardinality({i \in moves : bars[i].low > bars[i-1].low})
        ll == Cardinality({i \in moves : bars[i].low < bars[i-1].low})
    IN IF Len(bars) < 3 THEN Unavailable
       ELSE Signal(IF hh + lh + hl + ll = 0 THEN 0
                   ELSE (100 * (hh + hl - lh - ll)) \div (hh + lh + hl + ll))

SlopeDirection(ctx) ==
    LET closes == Closes(ctx.prices)
        window == Smaller(Cfg.slope, Len(closes) - 1)
    IN IF window < 2 \/ Back(closes, window) = 0 THEN Unavailable
       ELSE Signal(5 * Pct(Back(closes, 0) - Back(closes, window), Back(closes, window)))

\* How many of the latest values in a row lie on the same side as the last.
RunLength(s, OnSide(_)) ==
    LET run[i \in 0..Len(s)] == IF i = 0 \/ ~OnSide(s[i]) THEN 0 ELSE 1 + run[i - 1]
    IN run[Len(s)]

TrendPersistence(ctx) ==
    LET closes   == Closes(ctx.prices)
        baseline == IF Covers(closes, Cfg.sma_long) THEN SMA(closes, Cfg.sma_long)
                    ELSE IF Covers(closes, Cfg.ema_mid) /\ EMA(closes, Cfg.ema_mid) # 0
                         THEN EMA(closes, Cfg.ema_mid)
                         ELSE 100 * Back(closes, 0)
        above    == 100 * Back(closes, 0) >= baseline
        run      == RunLength(closes, LAMBDA v : (100 * v >= baseline) = above)
        strength == Smaller(100, (100 * run) \div Larger(1, Cfg.persistence))
    IN IF Len(closes) < 2 THEN Unavailable
       ELSE Signal(IF above THEN strength ELSE -strength)

-----------------------------------------------------------------------------
(* Momentum *)

RateOfChange(ctx) ==
    LET closes == Closes(ctx.prices)
        Roc(n) == Pct(Back(closes, 0) - Back(closes, n), Back(closes, n))
    IN IF Len(closes) < Cfg.roc_long + 1
          \/ Back(closes, Cfg.roc_short) = 0 \/ Back(closes, Cfg.roc_long) = 0
       THEN Unavailable
       ELSE Signal(3 * Roc(Cfg.roc_short) + 2 * Roc(Cfg.roc_long))

PriceAcceleration(ctx) ==
    LET closes == Closes(ctx.prices)
        w      == Cfg.acceleration
        Slope(from) == Pct(Back(closes, from) - Back(closes, from + w), Back(closes, from + w))
    IN IF Len(closes) < 2 * w + 1 THEN Unavailable
       ELSE Signal(20 * (Slope(0) - Slope(w)))

MomentumPersistence(ctx) ==
    LET closes  == Closes(ctx.prices)
        returns == [i \in 1..Len(closes) - 1 |-> closes[i + 1] - closes[i]]
        up      == Total(returns) >= 0
        run     == RunLength(returns, LAMBDA r : IF up THEN r > 0 ELSE r < 0)
        strength == Smaller(100, (100 * run) \div Larger(1, Cfg.momentum_persistence))
    IN IF Len(closes) < 2 THEN Unavailable
       ELSE Signal(IF up THEN strength ELSE -strength)

BreakoutContinuation(ctx) ==
    LET bars == ctx.prices
        window == SubSeq(bars, Len(bars) - Cfg.breakout, Len(bars) - 1)
        last == bars[Len(bars)].close
    IN IF Len(bars) < Cfg.breakout + 2 THEN Unavailable
       ELSE IF last > Highest([i \in DOMAIN window |-> window[i].high]) THEN Signal(70)
       ELSE IF last < Lowest([i \in DOMAIN window |-> window[i].low]) THEN Signal(-70)
       ELSE Signal(0)

-----------------------------------------------------------------------------
(* Volume *)

RelativeVolume(ctx) ==
    LET vols == Volumes(ctx.prices)
        avg  == Total(LastOf(vols, Cfg.relative_volume))
        n    == Smaller(Len(vols), Cfg.relative_volume)
    IN IF Len(vols) < 2 \/ avg = 0 THEN Unavailable
       ELSE Signal((100 * n * Back(vols, 0)) \div avg - 100)

VolumeTrend(ctx) ==
    LET vols    == Volumes(ctx.prices)
        w       == Cfg.volume_trend
        recent  == Total(LastOf(vols, w))
        earlier == Total(LastOf(vols, 2 * w)) - recent
    IN IF Len(vols) < 2 * w \/ earlier = 0 THEN Unavailable
       ELSE Signal((100 * recent) \div earlier - 100)

AccumulationDistribution(ctx) ==
    LET window == LastOf(ctx.prices, Cfg.accumulation)
        total  == Total(Tail(Volumes(window)))
        up     == Total([i \in 1..Len(window) - 1 |->
                      IF window[i + 1].close > window[i].close THEN window[i + 1].volume ELSE 0])
    IN IF Len(ctx.prices) < 2 \/ total = 0 THEN Unavailable
       ELSE Signal((200 * up) \div total - 100)

VolumeConsistency(ctx) ==
    LET window == LastOf(Volumes(ctx.prices), Cfg.consistency)
    IN IF Len(ctx.prices) < 2 \/ Total(window) = 0 THEN Unavailable
       ELSE Signal(100 - (200 * Len(window) * Deviation(window)) \div Total(window))

-----------------------------------------------------------------------------
(* Volatility: returns and deviations in basis points. *)

Returns(closes) ==
    [i \in 1..Len(closes) - 1 |->
        IF closes[i] = 0 THEN 0 ELSE (10000 * (closes[i + 1] - closes[i])) \div closes[i]]

HVBaseline == 120
HVScore(rets) == Clamp((100 * (Deviation(rets) - HVBaseline)) \div HVBaseline, -100, 100)

HistoricalVolatility(ctx) ==
    LET rets == Returns(Closes(ctx.prices))
    IN IF Len(rets) < Cfg.hv THEN Unavailable ELSE Signal(HVScore(LastOf(rets, Cfg.hv)))

VolatilityTrend(ctx) ==
    LET rets    == Returns(Closes(ctx.prices))
        w       == Cfg.vol_trend
        recent  == Deviation(LastOf(rets, w))
        earlier == Deviation(SubSeq(rets, Len(rets) - 2 * w + 1, Len(rets) - w))
    IN IF Len(rets) < 2 * w THEN Unavailable
       ELSE IF earlier = 0 THEN Signal(IF recent > 0 THEN 100 ELSE 0)
       ELSE Signal((100 * (recent - earlier)) \div earlier)

RangeExpansion(ctx) ==
    LET bars   == SelectSeq(LastOf(ctx.prices, Cfg.range), LAMBDA b : b.close # 0)
        ranges == [i \in DOMAIN bars |-> (10000 * (bars[i].high - bars[i].low)) \div bars[i].close]
    IN IF Len(ctx.prices) < Cfg.range \/ ranges = <<>> THEN Unavailable
       ELSE Signal((100 * (Mean(ranges) - 200)) \div 200)

VolatilityPersistence(ctx) ==
    LET rets   == Returns(Closes(ctx.prices))
        scores == [i \in 1..Len(rets) - Cfg.hv + 1 |-> HVScore(SubSeq(rets, i, i + Cfg.hv - 1))]
    IN IF Len(rets) < Cfg.hv THEN Unavailable ELSE Signal(Mean(scores))

-----------------------------------------------------------------------------
(* Relative strength *)

\* Return over a window in hundredths, when there is one.
HasReturn(closes, w) == Len(closes) >= w + 1 /\ Back(closes, w) # 0
WindowReturn(closes, w) == Pct(Back(closes, 0) - Back(closes, w), Back(closes, w))

Outperformance(ctx, peer) ==
    LET ours   == Closes(ctx.prices)
        theirs == Closes(peer)
    IN IF ~HasReturn(ours, Cfg.rs) \/ ~HasReturn(theirs, Cfg.rs) THEN Unavailable
       ELSE Signal((100 * (WindowReturn(ours, Cfg.rs) - WindowReturn(theirs, Cfg.rs))) \div 15)

BenchmarkOutperformance(ctx) == Outperformance(ctx, ctx.benchmark)
SectorLeadership(ctx)        == Outperformance(ctx, ctx.sector)
IndustryLeadership(ctx)      == Outperformance(ctx, ctx.industry)

\* The windows are taken from the OLDEST bar of each series: with series of
\* different lengths they pair different sessions.
RelativeMomentumPersistence(ctx) ==
    LET ours   == Closes(ctx.prices)
        theirs == Closes(ctx.benchmark)
        pw     == Cfg.rs_persistence
        n      == Smaller(Len(ours), Len(theirs))
        Ret(s, end) == Pct(s[end] - s[end - pw], s[end - pw])
        wins   == Cardinality({e \in pw + 1..n : Ret(ours, e) > Ret(theirs, e)})
    IN IF n < pw + 1 THEN Unavailable
       ELSE Signal((200 * wins) \div (n - pw) - 100)

-----------------------------------------------------------------------------
(* Evaluation and scoring: the same code in each of the five packages. *)

\* Weighted blend, pairwise agreement in hundredths, and the conflict flag.
Evaluate(outputs, weights) ==
    LET avail  == {i \in DOMAIN outputs : outputs[i].available}
        Weigh(i) == IF i \in avail THEN weights[i] ELSE 0
        wsum   == Total([i \in DOMAIN outputs |-> Weigh(i)])
        blend  == Total([i \in DOMAIN outputs |-> Weigh(i) * outputs[i].score])
        views  == {i \in avail : Abs(outputs[i].score) >= 5}
        pairs  == {p \in views \X views : p[1] < p[2]}
        same   == {p \in pairs : (outputs[p[1]].score > 0) = (outputs[p[2]].score > 0)}
        agree  == IF Cardinality(views) < 2 THEN Whole(100)
                  ELSE Ratio(100 * Cardinality(same), Cardinality(pairs))
        total  == Len(outputs)
    IN IF avail = {}
       THEN [combined |-> Whole(0), agreement |-> Whole(0), available |-> 0,
             total |-> total, conflict |-> TRUE]
       ELSE [combined  |-> IF wsum = 0 THEN Whole(0) ELSE ClampRatio(Ratio(blend, wsum), -100, 100),
             agreement |-> agree, available |-> Cardinality(avail),
             total |-> total, conflict |-> Below(agree, 50)]

StateFromScore(q) ==
    CASE AtLeast(q, 60) -> 2
      [] AtLeast(q, 20) /\ Below(q, 60) -> 1
      [] Above(q, -20) /\ Below(q, 20) -> 0
      [] Above(q, -60) /\ AtMost(q, -20) -> -1
      [] AtMost(q, -60) -> -2

\* One level toward neutral.
Downgrade(state) == IF state < 0 THEN state + 1 ELSE IF state > 0 THEN state - 1 ELSE 0

\* State and confidence (hundredths of the 0..100 scale rounded down).
Score(r) ==
    LET raw == (50 + Abs(r.combined.num) \div (2 * r.combined.den))
                 * Floor(r.agreement) * r.available
        cap == (50 * r.available) \div r.total
        state == StateFromScore(r.combined)
    IN [state |-> IF r.conflict THEN Downgrade(state) ELSE state,
        confidence |-> IF r.total = 0 THEN 0
                       ELSE Clamp(IF r.conflict THEN Smaller(raw \div (100 * r.total), cap)
                             ELSE raw \div (100 * r.total), 0, 100),
        combined |-> r.combined]

\* Signals, blend and fact of each engine; every package has its own copy of
\* the evaluator and of the scorer.
TrendSignals(ctx) ==
    <<MovingAverageAlignment(ctx), HigherHighsLows(ctx), SlopeDirection(ctx), TrendPersistence(ctx)>>
MomentumSignals(ctx) ==
    <<RateOfChange(ctx), PriceAcceleration(ctx), MomentumPersistence(ctx), BreakoutContinuation(ctx)>>
VolumeSignals(ctx) ==
    <<RelativeVolume(ctx), VolumeTrend(ctx), AccumulationDistribution(ctx), VolumeConsistency(ctx)>>
VolatilitySignals(ctx) ==
    <<HistoricalVolatility(ctx), VolatilityTrend(ctx), RangeExpansion(ctx), VolatilityPersistence(ctx)>>
RelativeStrengthSignals(ctx) ==
    <<BenchmarkOutperformance(ctx), SectorLeadership(ctx), IndustryLeadership(ctx),
      RelativeMomentumPersistence(ctx)>>

TrendBlend(ctx)            == Evaluate(TrendSignals(ctx), <<35, 25, 25, 15>>)
MomentumBlend(ctx)         == Evaluate(MomentumSignals(ctx), <<30, 25, 20, 25>>)
VolumeBlend(ctx)           == Evaluate(VolumeSignals(ctx), <<30, 25, 25, 20>>)
VolatilityBlend(ctx)       == Evaluate(VolatilitySignals(ctx), <<30, 25, 25, 20>>)
RelativeStrengthBlend(ctx) == Evaluate(RelativeStrengthSignals(ctx), <<30, 25, 25, 20>>)

TrendFact(ctx)            == Score(TrendBlend(ctx))
MomentumFact(ctx)         == Score(MomentumBlend(ctx))
VolumeFact(ctx)           == Score(VolumeBlend(ctx))
RelativeStrengthFact(ctx) == Score(RelativeStrengthBlend(ctx))
\* The volatility engine raises without prices (_check_preconditions).
VolatilityFails(ctx)      == ctx.prices = <<>>
VolatilityFact(ctx)       == Score(VolatilityBlend(ctx))
=============================================================================
