------------------------------ MODULE MCAdvice ------------------------------
EXTENDS Advice

Index(price, avg) == [price |-> price, sma200 |-> avg, ema20 |-> avg, ema50 |-> avg,
                      rsi14 |-> 60, macd_bullish |-> TRUE]
StrongMarket == [nifty |-> Index(110, 100), midcap |-> [price |-> 110, sma200 |-> 100],
                 smallcap |-> [price |-> 110, sma200 |-> 100],
                 above_50dma |-> 70, above_200dma |-> 60, vix |-> 12]
BearishMarket == [StrongMarket EXCEPT !.nifty = Index(90, 100), !.above_50dma = 20,
                    !.above_200dma = 20, !.midcap.price = 90, !.smallcap = [price |-> 90, sma200 |-> None], !.vix = 30]
MixedMarket == [StrongMarket EXCEPT !.above_200dma = None, !.vix = 20, !.nifty.macd_bullish = FALSE]
\* Bear, but only just.
SlippingMarket == [StrongMarket EXCEPT !.nifty.ema20 = 120, !.nifty.ema50 = 120, !.midcap.price = 90,
                     !.smallcap.sma200 = None, !.above_50dma = 40, !.above_200dma = 40]
MCMarkets == {StrongMarket, BearishMarket, SlippingMarket, MixedMarket}

Returns(a, b, c, d) == [m1 |-> a, m3 |-> b, m6 |-> c, y1 |-> d]
StrongRs == [stock |-> Returns(40, 40, 40, 40), market |-> Returns(1, 2, 5, 8),
             sector |-> Returns(2, 4, 6, 10), industry |-> Returns(3, 5, 9, 12),
             price |-> 99, high_52w |-> 100, history |-> 250]
FairRs == [StrongRs EXCEPT !.stock = Returns(8, 12, 15, None), !.price = 88, !.history = 90]
WeakRs == [StrongRs EXCEPT !.stock = Returns(-5, -2, None, -10), !.sector = None, !.price = 60, !.history = 40]

StrongTrend == [averages |-> <<104, 102, 101, 100>>, slopes |-> <<2, 2, 1, 1>>, price |-> 110,
                hh |-> 4, hl |-> 3, age |-> 90, high_52w |-> 112, history |-> 250]
OldTrend    == [StrongTrend EXCEPT !.averages = <<90, 88, 86, None>>, !.age = 130]
BrokenTrendOf == [averages |-> <<90, 95, 100, 105>>, slopes |-> <<-2, -1, -1, -1>>, price |-> 80,
                hh |-> 0, hl |-> 0, age |-> None, high_52w |-> 150, history |-> 80]

TightPattern == [price |-> 100003, highs |-> <<101000, 100500, 100800>>, lows |-> <<98000, 99000, 99500>>,
                 closes |-> <<99000, 99500, 99900, 100001, 100003>>, pivot |-> 100003, high_52w |-> 101000,
                 volatility |-> 10, atr |-> 2, contractions |-> 4, dryup |-> 40, trend_quality |-> 90, rs |-> 90]
RealPattern  == [TightPattern EXCEPT !.atr = 1500]
CupPattern   == [price |-> 95000, highs |-> <<100000, 90000, 98000>>, lows |-> <<96000, 80000, 94000>>,
                 closes |-> <<100000, 90000, 85000, 92000, 98000, 99000>>, pivot |-> 100000, high_52w |-> 120000,
                 volatility |-> 35, atr |-> None, contractions |-> None, dryup |-> 55, trend_quality |-> 40, rs |-> None]
BareSnapshot == [price |-> 50000, highs |-> <<>>, lows |-> <<>>, closes |-> <<>>, pivot |-> None,
                 high_52w |-> None, volatility |-> None, atr |-> None, contractions |-> None,
                 dryup |-> None, trend_quality |-> None, rs |-> None]

StrongVolume == [rvol |-> 22, volume |-> 200, average |-> 100, breakout |-> 220, close_position |-> 80,
                 trend_quality |-> 80, consolidation |-> 40, accumulation |-> 6, distribution |-> 0]
FairVolume   == [StrongVolume EXCEPT !.rvol = 13, !.accumulation = 1, !.consolidation = 80]
WeakVolume   == [rvol |-> None, volume |-> 50, average |-> 100, breakout |-> 120, close_position |-> 30,
                 trend_quality |-> 30, consolidation |-> None, accumulation |-> 3, distribution |-> 4]

Leader == [rs |-> StrongRs, trend |-> StrongTrend, pattern |-> TightPattern, volume |-> StrongVolume]
MCStocks ==
    {[Leader EXCEPT !.pattern = p] : p \in {TightPattern, RealPattern, CupPattern, BareSnapshot}}
      \union {[Leader EXCEPT !.rs = r, !.trend = t] : r \in {StrongRs, FairRs}, t \in {OldTrend, BrokenTrendOf}}
      \union {[Leader EXCEPT !.rs = r, !.volume = WeakVolume] : r \in {FairRs, WeakRs}}
      \union {[Leader EXCEPT !.volume = FairVolume]}
      \union {[rs |-> WeakRs, trend |-> BrokenTrendOf, pattern |-> BareSnapshot, volume |-> WeakVolume]}

MCCapitals == {-500, 0, 1000}

MCFollowers == {Leader, [Leader EXCEPT !.volume = FairVolume]}

Lenient == [allow_bear |-> TRUE, allow_extended |-> TRUE, min_composite |-> 0, min_confidence |-> 0,
            min_pattern |-> 0, min_volume |-> 0, min_trend |-> 0, min_rs |-> 0,
            require_pattern |-> FALSE, ignore_pattern |-> TRUE, strong_trend |-> FALSE]
Default == [Lenient EXCEPT !.allow_bear = FALSE, !.allow_extended = FALSE, !.min_composite = 70,
            !.min_confidence = 60, !.min_pattern = 60, !.min_volume = 60, !.ignore_pattern = FALSE]
Picky == [Default EXCEPT !.min_composite = 92, !.min_trend = 80, !.min_rs = 80,
          !.require_pattern = TRUE, !.strong_trend = TRUE]
Refused == [Lenient EXCEPT !.min_confidence = 120]
MCConfigurations == {Lenient, Default, Picky, Refused}
=============================================================================
