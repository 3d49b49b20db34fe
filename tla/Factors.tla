------------------------------ MODULE Factors ------------------------------
(***************************************************************************)
(* The factors, the factor engine and the research service.  A row of      *)
(* prices has the fields close, high, low and volume, each a number or     *)
(* None; a row's position in the table stands for its date.  A request     *)
(* names a factor and gives some of its parameters.  A factor answers with *)
(* a value, a signal and the row it speaks of, or with the error result.   *)
(***************************************************************************)
EXTENDS Ratios

CONSTANT None

PriceRow == [close : Int \cup {None}, high : Int \cup {None},
             low : Int \cup {None}, volume : Int \cup {None}]

\* The rows that have all of the fields, and a field of given rows.
RowsWith(rows, fields) == InOrder({i \in DOMAIN rows : \A f \in fields : rows[i][f] # None})
Column(rows, at, field) == [k \in DOMAIN at |-> rows[at[k]][field]]
Newest(s) == s[Len(s)]

\* Exponential mean that starts at the first value and gives each new one the
\* weight a / b.
Ewm(s, a, b) ==
    LET scaled[n \in 1..Len(s)] ==
            IF n = 1 THEN s[1] ELSE (b - a) * scaled[n - 1] + a * Power(b, n - 2) * s[n]
    IN Ratio(scaled[Len(s)], Power(b, Len(s) - 1))

\* Where a whole number stands to a value, and the signals named for it.
Towards(x, q, above, below) ==
    IF Below(q, x) THEN above ELSE IF Above(q, x) THEN below ELSE "NEUTRAL"

Result(value, signal, row) == [value |-> value, signal |-> signal, row |-> row]
Error == Result(None, "NEUTRAL", None)
Failed(result) == result.value = None

-----------------------------------------------------------------------------
(* Price factors *)

\* The shape the moving averages share: of a value computed from the closing
\* prices, what the last of them says.
CloseAgainst(rows, p, Average(_)) ==
    LET at == RowsWith(rows, {"close"})  closes == Column(rows, at, "close")
    IN IF Len(closes) < p.period THEN Error
       ELSE Result(Average(closes),
                   Towards(Newest(closes), Average(closes), "BULLISH", "BEARISH"), Newest(at))

SMA(rows, p) == CloseAgainst(rows, p, LAMBDA c : Ratio(Total(LastOf(c, p.period)), p.period))
EMA(rows, p) == CloseAgainst(rows, p, LAMBDA c : Ewm(c, 2, p.period + 1))
WMA(rows, p) ==
    CloseAgainst(rows, p,
        LAMBDA c : Ratio(Total([k \in 1..p.period |-> k * LastOf(c, p.period)[k]]),
                         (p.period * (p.period + 1)) \div 2))

\* The window has the rows with close and volume; the close it is compared to,
\* and the row reported, are the last ones with a close.
VWMA(rows, p) ==
    LET at == RowsWith(rows, {"close"})
        both == LastOf(RowsWith(rows, {"close", "volume"}), p.period)
        traded == Total(Column(rows, both, "volume"))
        value == Ratio(Total([k \in DOMAIN both |-> rows[both[k]].close * rows[both[k]].volume]), traded)
    IN IF Len(both) < p.period \/ traded <= 0 THEN Error
       ELSE Result(value, Towards(rows[Newest(at)].close, value, "BULLISH", "BEARISH"), Newest(at))

Bars == {"high", "low", "close"}
Most(a, b, c) == Larger(a, Larger(b, c))

\* Mean of the true ranges of the window; the signal is about the last range.
ATR(rows, p) ==
    LET at == RowsWith(rows, Bars)
        range == [k \in 1..(Len(at) - 1) |->
                    LET day == rows[at[k + 1]]  before == rows[at[k]].close
                    IN Most(day.high - day.low, Abs(day.high - before), Abs(day.low - before))]
        value == Ratio(Total(LastOf(range, p.period)), p.period)
    IN IF Len(at) < p.period + 1 THEN Error
       ELSE Result(value, Towards(Newest(range), value, "BULLISH", "BEARISH"), Newest(at))

\* A close outside the middle by more than the given number of population
\* standard deviations is read against its direction.
BollingerBands(rows, p) ==
    LET at == RowsWith(rows, {"close"})
        window == LastOf(Column(rows, at, "close"), p.period)
        sum == Total(window)
        spread == p.period * Total([k \in DOMAIN window |-> window[k] * window[k]]) - sum * sum
        off == p.period * Newest(window) - sum
    IN IF Len(at) < p.period THEN Error
       ELSE Result(Ratio(sum, p.period),
                   IF off * off <= p.std_multiplier * p.std_multiplier * spread THEN "NEUTRAL"
                   ELSE IF off > 0 THEN "BEARISH" ELSE "BULLISH", Newest(at))

-----------------------------------------------------------------------------
(* Momentum factors *)

\* Wilder means of gains and losses.  Without any movement the value is 0 / 0,
\* not a number, and neither extreme.
RSI(rows, p) ==
    LET at == RowsWith(rows, {"close"})  c == Column(rows, at, "close")
        gains  == [k \in 1..(Len(c) - 1) |-> Larger(0, c[k + 1] - c[k])]
        losses == [k \in 1..(Len(c) - 1) |-> Larger(0, c[k] - c[k + 1])]
        gain == Ewm(gains, 1, p.period).num
        loss == Ewm(losses, 1, p.period).num
        value == Ratio(100 * gain, gain + loss)
    IN IF Len(c) < p.period + 1 THEN Error
       ELSE Result(value, IF Above(value, 70) THEN "BEARISH"
                          ELSE IF Below(value, 30) THEN "BULLISH" ELSE "NEUTRAL", Newest(at))

MACD(rows, p) ==
    LET at == RowsWith(rows, {"close"})  c == Column(rows, at, "close")
        den == Power((p.fast_period + 1) * (p.slow_period + 1), Len(c) - 1)
        mean(n, period) == LET e == Ewm(SubSeq(c, 1, n), 2, period + 1) IN e.num * (den \div e.den)
        line == [n \in DOMAIN c |-> mean(n, p.fast_period) - mean(n, p.slow_period)]
    IN IF Len(c) < p.slow_period + p.signal_period THEN Error
       ELSE Result(Ratio(Newest(line), den),
                   Towards(Newest(line), Ewm(line, 2, p.signal_period + 1), "BULLISH", "BEARISH"),
                   Newest(at))

ROC(rows, p) ==
    LET at == RowsWith(rows, {"close"})  c == Column(rows, at, "close")
        previous == c[Len(c) - p.period]
        value == Ratio(100 * (Newest(c) - previous), previous)
    IN IF Len(c) < p.period + 1 THEN Error
       ELSE IF previous = 0 THEN Error
       ELSE Result(value, Towards(0, value, "BEARISH", "BULLISH"), Newest(at))

\* A window without range is read as a close at its high.  The mutant's window
\* ends before the last close.
WilliamsRBefore(rows, p) ==
    LET all == RowsWith(rows, Bars)
        at == LastOf(SubSeq(all, 1, Len(all) - 1), p.period)
        high == Highest(Column(rows, at, "high"))
        low  == Lowest(Column(rows, at, "low"))
        value == IF high = low THEN Whole(0)
                 ELSE Ratio(-100 * (high - rows[Newest(all)].close), high - low)
    IN IF Len(at) < p.period THEN Error
       ELSE Result(value, IF Above(value, -20) THEN "BEARISH"
                          ELSE IF Below(value, -80) THEN "BULLISH" ELSE "NEUTRAL", Newest(all))
WilliamsR(rows, p) ==
    LET at == LastOf(RowsWith(rows, Bars), p.period)
        high == Highest(Column(rows, at, "high"))
        low  == Lowest(Column(rows, at, "low"))
        value == IF high = low THEN Whole(0)
                 ELSE Ratio(-100 * (high - rows[Newest(at)].close), high - low)
    IN IF Len(at) < p.period THEN Error
       ELSE Result(value, IF Above(value, -20) THEN "BEARISH"
                          ELSE IF Below(value, -80) THEN "BULLISH" ELSE "NEUTRAL", Newest(at))

\* Windows without range are dropped, so the value may be that of an older row
\* than the one reported.
StochasticOscillator(rows, p) ==
    LET at == RowsWith(rows, Bars)
        window(k) == SubSeq(at, k - p.k_period + 1, k)
        high(k) == Highest(Column(rows, window(k), "high"))
        low(k)  == Lowest(Column(rows, window(k), "low"))
        ranged  == {k \in p.k_period..Len(at) : high(k) # low(k)}
        last    == CHOOSE k \in ranged : \A j \in ranged : j <= k
        value   == Ratio(100 * (rows[at[last]].close - low(last)), high(last) - low(last))
    IN IF Len(at) < p.k_period + p.smooth \/ ranged = {} THEN Error
       ELSE Result(value, IF Above(value, 80) THEN "BEARISH"
                          ELSE IF Below(value, 20) THEN "BULLISH" ELSE "NEUTRAL", Newest(at))

-----------------------------------------------------------------------------
(* The registry: the classes register themselves when they are imported *)

Periodic == {"sma", "ema", "wma", "vwma", "atr", "rsi", "roc", "williams_r"}
FactorNames == Periodic \union {"bollinger_bands", "macd", "stochastic"}

Defaults(name) ==
    CASE name \in {"sma", "ema", "wma", "vwma"} -> [period |-> 20]
      [] name \in {"atr", "rsi", "williams_r"}  -> [period |-> 14]
      [] name = "roc" -> [period |-> 12]
      [] name = "bollinger_bands" -> [period |-> 20, std_multiplier |-> 2]
      [] name = "macd" -> [fast_period |-> 12, slow_period |-> 26, signal_period |-> 9]
      [] name = "stochastic" -> [k_period |-> 14, d_period |-> 3, smooth |-> 3]

\* The parameters of a request, the defaults for those it does not give.
Parameters(name, params) ==
    [key \in DOMAIN params \cup DOMAIN Defaults(name) |->
        IF key \in DOMAIN params THEN params[key] ELSE Defaults(name)[key]]

\* The constructor accepts only parameters it knows, all of them positive.
Constructible(name, params) ==
    LET p == Parameters(name, params)
    IN /\ DOMAIN params \subseteq DOMAIN Defaults(name)
       /\ \A key \in DOMAIN p : p[key] > 0
       /\ name = "macd" => p.slow_period > p.fast_period

Compute(name, params, rows) ==
    LET p == Parameters(name, params)
    IN CASE name = "sma"  -> SMA(rows, p)
         [] name = "ema"  -> EMA(rows, p)
         [] name = "wma"  -> WMA(rows, p)
         [] name = "vwma" -> VWMA(rows, p)
         [] name = "atr"  -> ATR(rows, p)
         [] name = "bollinger_bands" -> BollingerBands(rows, p)
         [] name = "rsi"  -> RSI(rows, p)
         [] name = "macd" -> MACD(rows, p)
         [] name = "roc"  -> ROC(rows, p)
         [] name = "williams_r" -> WilliamsR(rows, p)
         [] name = "stochastic" -> StochasticOscillator(rows, p)

-----------------------------------------------------------------------------
(* The factor engine *)

\* Name and first period of a request; the other parameters do not show.
Label(req) ==
    LET given == DOMAIN req.params
    IN IF "period" \in given THEN <<req.factor, req.params.period>>
       ELSE IF "k_period" \in given THEN <<req.factor, req.params.k_period>>
       ELSE IF "fast_period" \in given THEN <<req.factor, req.params.fast_period>>
       ELSE <<req.factor>>

\* The first request of each label is run; later ones, and those of unknown
\* factors, are errors.
Validated(requests) ==
    {i \in DOMAIN requests :
        /\ requests[i].factor \in FactorNames
        /\ \A j \in 1..(i - 1) : Label(requests[j]) # Label(requests[i])}

Calculate(rows, requests) ==
    LET run == {i \in Validated(requests) : Constructible(requests[i].factor, requests[i].params)}
    IN [results |-> [label \in {Label(requests[i]) : i \in run} |->
                       LET i == CHOOSE j \in run : Label(requests[j]) = label
                       IN Compute(requests[i].factor, requests[i].params, rows)],
        errors |-> DOMAIN requests \ run]

-----------------------------------------------------------------------------
(* The research service judges the symbol, the period and the interval of a  *)
(* query, then what the provider did: "raises", "nothing", or a table that   *)
(* may lack a column.                                                        *)

ErrorResult(stage, rows) == [stage |-> stage, rows |-> rows, results |-> <<>>, errors |-> {}, warned |-> None]
Completed(rows, done) ==
    [stage |-> "done", rows |-> Len(rows), results |-> done.results, errors |-> done.errors, warned |-> None]

\* The first request that repeats a label, if any: the warning names only it.
Repeated(requests) ==
    LET again == {i \in DOMAIN requests : \E j \in 1..(i - 1) : Label(requests[j]) = Label(requests[i])}
    IN IF again = {} THEN None ELSE CHOOSE i \in again : \A j \in again : i <= j

Analyze(q) ==
    LET outcome ==
            IF q.provider = "raises" THEN ErrorResult("(download)", 0)
            ELSE IF q.provider = "nothing" \/ q.rows = <<>> THEN ErrorResult("(data)", 0)
            ELSE IF ~q.columns THEN ErrorResult("(data)", Len(q.rows))
            ELSE Completed(q.rows, Calculate(q.rows, q.requests))
    IN IF ~q.symbol \/ ~q.period \/ ~q.interval THEN ErrorResult("(input)", 0)
       ELSE [outcome EXCEPT !.warned = Repeated(q.requests)]
=============================================================================
