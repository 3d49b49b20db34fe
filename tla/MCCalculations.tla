--------------------------- MODULE MCCalculations ---------------------------
(* Questions and reference data for TLC. *)
EXTENDS Calculations

\* Reference data: a split reported by two providers, a dividend, a rights issue;
\* a year's report, a restatement of it, a quarter, and batches that repeat a key.
Split(provider) == [type |-> "split", day |-> 3, provider |-> provider, ratio |-> 2, cash |-> None]
Dividend == [type |-> "dividend", day |-> 2, provider |-> "p", ratio |-> None, cash |-> 1]
RightsIssue == [type |-> "rights", day |-> 3, provider |-> "p", ratio |-> 3, cash |-> None]
MCEvents == {<<Split("p")>>, <<Dividend, Split("q")>>, <<Split("p"), Split("p")>>, <<RightsIssue>>}

Report(kind, quarter, from, figure) ==
    [kind |-> kind, period |-> IF quarter = 0 THEN "annual" ELSE "quarterly", year |-> 1,
     quarter |-> quarter, provider |-> "p", reported |-> 1, filed |-> 1, from |-> from,
     to |-> None, figure |-> figure]
Yearly == Report("income", 0, None, 10)
MCReports == {<<Yearly>>, <<[Yearly EXCEPT !.from = 3, !.figure = 20]>>,
              <<[Yearly EXCEPT !.to = 2, !.provider = "q"], Report("income", 2, 2, 7)>>,
              <<Report("balance", 0, 2, 5), Report("balance", 0, 2, 6)>>}
MCPrices == <<[day |-> 1, close |-> 10, volume |-> 4], [day |-> 2, close |-> 9, volume |-> 5],
              [day |-> 3, close |-> 5, volume |-> 8]>>

\* Factors: three tables with flat, jumping and missing bars, every factor with
\* short and default periods, and requests that share a label or are invalid.
Bar(close, high, low, volume) == [close |-> close, high |-> high, low |-> low, volume |-> volume]
FlatBar == Bar(5, 5, 5, 2)
FactorTables == {<<FlatBar, FlatBar, FlatBar, FlatBar, FlatBar>>,
                 <<Bar(5, 6, 4, 1), Bar(9, 9, 5, 2), Bar(8, 9, 7, 0), Bar(3, 8, 2, 3), Bar(4, 4, 3, 1)>>,
                 <<Bar(5, 6, 4, 1), FlatBar, Bar(7, None, 6, 2), Bar(6, 8, 6, None), Bar(None, 4, 3, 1), Bar(9, 9, 7, 0)>>,
                 <<Bar(9, 9, 1, 1), FlatBar, FlatBar, FlatBar>>,
                 <<FlatBar>>, <<>>}
Req(name, params) == [factor |-> name, params |-> params]
ShortRequests(n) ==
    <<Req("sma", [period |-> n]), Req("ema", [period |-> n]), Req("wma", [period |-> n]),
      Req("vwma", [period |-> n]), Req("atr", [period |-> n]), Req("rsi", [period |-> n]),
      Req("roc", [period |-> n]), Req("williams_r", [period |-> n]),
      Req("bollinger_bands", [period |-> n, std_multiplier |-> 1]),
      Req("macd", [fast_period |-> 1, slow_period |-> 2, signal_period |-> n]),
      Req("stochastic", [k_period |-> n, smooth |-> 1])>>
OddRequests ==
    <<Req("macd", [fast_period |-> 2, slow_period |-> 1]), Req("macd", [fast_period |-> 2, slow_period |-> 3]),
      Req("sma", <<>>), Req("sma", [period |-> 0]), Req("volume", <<>>), Req("roc", [smooth |-> 1]),
      Req("stochastic", <<>>), Req("stochastic", [smooth |-> 2])>>
GoodQuery == [symbol |-> TRUE, period |-> TRUE, interval |-> TRUE, provider |-> "table", columns |-> TRUE,
              rows |-> <<FlatBar>>, requests |-> OddRequests]
MCQueries ==
    {[GoodQuery EXCEPT !.rows = t, !.requests = r] :
        t \in FactorTables, r \in {ShortRequests(1), ShortRequests(2), ShortRequests(3), OddRequests, <<>>}}
    \cup {[GoodQuery EXCEPT !.symbol = FALSE], [GoodQuery EXCEPT !.interval = FALSE],
          [GoodQuery EXCEPT !.provider = "raises"], [GoodQuery EXCEPT !.provider = "nothing"],
          [GoodQuery EXCEPT !.columns = FALSE]}

\* Optimization: two to three assets, with and without present weights.
Uncorrelated == <<<<4, 0, 0>>, <<0, 9, 0>>, <<0, 0, 36>>>>
Correlated   == <<<<4, 2, 0>>, <<2, 9, 1>>, <<0, 1, 36>>>>
MCPortfolios ==
    {[mu |-> <<2, 5, 9>>, sigma |-> s, current |-> w] :
        s \in {Uncorrelated, Correlated}, w \in {None, <<40, 40, 20>>, <<0, 0, 100>>}}
    \cup {[mu |-> <<5, 5>>, sigma |-> <<<<4, 0>>, <<0, 4>>>>, current |-> None],
          [mu |-> <<5>>, sigma |-> <<<<4>>>>, current |-> None],
          [mu |-> <<2, 5, 9>>, sigma |-> Correlated, current |-> <<50, 50>>]}
Config(max, turnover, solvers) ==
    [min |-> 0, max |-> max, turnover |-> turnover, iterations |-> 1000, tolerance |-> 100, solvers |-> solvers]
AllSolvers == <<"quadratic", "gradient", "greedy", "coordinate", "heuristic">>
MCOptimizerConfigs ==
    {Config(max, t, s) : max \in {10, 60, 100}, t \in {20, 100},
        s \in {AllSolvers, <<"coordinate", "greedy", "heuristic">>, <<"coordinate", "quadratic">>, <<"heuristic">>}}
    \cup {[Config(100, 100, <<"heuristic">>) EXCEPT !.iterations = 10]}
MCAllocations ==
    {[method |-> m, returns |-> r, max_weight |-> w] :
        m \in {"equal_weight", "vol_target", "risk_parity", "kelly"}, r \in {<<2, 5>>, <<1, 2, 3, 4>>}, w \in {30, 100}}

\* Sizing: accounts with all, little or no cash; two symbols; whole lots or not.
Position(symbol, price, cash) ==
    [symbol |-> symbol, price |-> price, cash |-> cash, account |-> 1000, portfolio |-> 900,
     volatility |-> 20, atr |-> 2, win_rate |-> 60, avg_win |-> 2, avg_loss |-> 1]
Unknown == [Position("b", 5, 1000) EXCEPT !.volatility = 0, !.atr = 0, !.win_rate = 0]
MCSizings == {<<>>, <<Unknown>>, <<[Unknown EXCEPT !.cash = 100]>>,
              <<Position("a", 10, 0), Position("b", 7, 0)>>}
    \cup {<<Position("a", 10, cash), Position("b", 7, cash), [Unknown EXCEPT !.symbol = "c"]>> : cash \in {100, 1000}}
SizingConfig == [account |-> 1000, max_position |-> 20, min_position |-> 1, lot |-> 1, fixed_value |-> 300,
                 risk |-> 1, kelly |-> 50, atr_multiplier |-> 2, vol_target |-> 15, erc_target |-> 10,
                 exposure |-> 90, reserve |-> 10, min_trade |-> 20, sector |-> 30]
MCSizingConfigs == {SizingConfig, [SizingConfig EXCEPT !.lot = 5, !.exposure = 30]}

\* Ranking and screening: every universe of three stocks over two fields.
StocksOf == [pe : {1, 2, None}, growth : {3, 5}, trend : {"Up"}]
MCUniverses == [1..3 -> StocksOf] \cup {<<>>}
Factor(field, weight, method, lower) == [field |-> field, weight |-> weight, method |-> method, lower |-> lower]
MCRankings ==
    {<<Factor("pe", w, m, TRUE), Factor("growth", 100 - w, m, FALSE)>> : w \in {30, 100}, m \in {"PERCENTILE", "MINMAX"}}
    \cup {<<Factor("pe", 30, "MINMAX", TRUE)>>,
          Screening!NormalizeWeights(<<Factor("pe", 1, "MINMAX", TRUE), Factor("growth", 3, "PERCENTILE", FALSE)>>)}
Condition(field, op, value, negate) == [field |-> field, op |-> op, value |-> value, negate |-> negate]
Group(conditions, groups, op) == [conditions |-> conditions, groups |-> groups, op |-> op]
Cheap == Condition("pe", "LTE", 1, FALSE)
Either == Group({Cheap, Condition("growth", "GT", 3, FALSE)}, {}, "OR")
MCScreens == {Group({}, {}, "AND"), Either, Group({Condition("trend", "EQ", "Up", TRUE)}, {Either}, "NOT"),
              Group({Condition("growth", "BETWEEN", <<3, 4>>, FALSE)}, {Either}, "AND")}

\* Rules: none, one to sell that nothing ever triggers alone, two of one name,
\* and weights that add up to nothing.
Rule(name, field, op, value, signal, weight) == Rules!CreateRule(name, field, op, value, signal, weight)
MCRuleSets ==
    {<<>>, <<Rule("cheap", "pe", "LTE", 1, "STRONG_BUY", 2), Rule("slow", "growth", "LT", 5, "SELL", 1)>>,
     <<Rule("x", "pe", "EQ", 2, "BUY", 1), Rule("x", "growth", "IN", {3}, "STRONG_SELL", 3)>>,
     <<Rule("flat", "trend", "NEQ", "Down", "HOLD", 0)>>}
When(field, op, value) ==
    [op |-> "AND", negate |-> FALSE, groups |-> {},
     conditions |-> {[field |-> field, op |-> op, value |-> value]}]
MCRuleGroups == {When("pe", "LTE", 1), When("growth", "LT", 5), When("pe", "EQ", 2),
                 When("growth", "IN", {3}), When("trend", "NEQ", "Down")}
MCLimits == {-1, 0, 2, 60, 101}

\* Signals: rising, falling, flat and short series against each other.
Days4(a, b, c, d) == <<Bar(a, a + 1, a - 1, 2), Bar(b, b + 1, b - 1, 3), Bar(c, c + 1, c - 1, 1), Bar(d, d + 1, d - 1, 4)>>
Series == {Days4(10, 11, 13, 14), Days4(14, 13, 11, 10), Days4(10, 10, 10, 10), Days4(10, 14, 9, 13),
           <<Bar(10, 11, 9, 2)>>, <<>>}
MCContexts == {[prices |-> p, benchmark |-> b, sector |-> b, industry |-> <<>>] : p \in Series, b \in Series}
MCCfg == [ema_short |-> 2, ema_mid |-> 3, sma_long |-> 4, structure |-> 4, slope |-> 3, persistence |-> 4,
          roc_short |-> 1, roc_long |-> 3, acceleration |-> 1, momentum_persistence |-> 3, breakout |-> 2,
          relative_volume |-> 3, volume_trend |-> 2, accumulation |-> 4, consistency |-> 4, hv |-> 2,
          vol_trend |-> 1, range |-> 3, rs |-> 2, rs_persistence |-> 2]

\* Models: a loss and two scores a tenth apart; with that of a model nobody evaluated, 0.
MCScores == {-40, 60, 66}
=============================================================================
