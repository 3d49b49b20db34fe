------------------------------- MODULE Advice -------------------------------
(***************************************************************************)
(* One round of advice: stocks are put through the evaluation pipeline one *)
(* after the other in the same market, a strategy judges the last of them, *)
(* and the portfolio engine spreads the capital over those the risk engine *)
(* approved.                                                               *)
(***************************************************************************)
EXTENDS Strategies

CONSTANTS Markets,          \* market snapshots
          Stocks,           \* snapshots [rs, trend, pattern, volume] of a stock
          Followers,        \* those of them that may come after the first
          MaxStocks,        \* stocks of one round
          Capitals,         \* available capital
          Configurations    \* strategy configurations

\* What the snapshots hold of numbers, or None: EMA20 to SMA200 and their
\* slopes, the counts of swings, pivot and ATR; and the minimums that
\* StrategyConfig declares.
ASSUME AdviceAssumption ==
    /\ \A stock \in Stocks \cup Followers :
         /\ {stock.trend.averages, stock.trend.slopes} \subseteq Seq(Int \cup {None})
         /\ {stock.trend.hh, stock.trend.hl, stock.pattern.pivot, stock.pattern.atr}
              \subseteq Int \cup {None}
    /\ MaxStocks \in Nat
    /\ Capitals \subseteq Int
    /\ \A cfg \in Configurations :
         {cfg.min_composite, cfg.min_confidence, cfg.min_pattern, cfg.min_volume,
          cfg.min_trend, cfg.min_rs} \subseteq Int

VARIABLES market, analysed, verdict, portfolio

vars == <<market, analysed, verdict, portfolio>>

Init ==
    /\ market \in Markets
    /\ analysed = <<>>
    /\ verdict = None
    /\ portfolio = None

EvaluateStock ==
    \E stock \in IF analysed = <<>> THEN Stocks ELSE Followers :
        /\ portfolio = None
        /\ Len(analysed) < MaxStocks
        /\ analysed' = Append(analysed,
              Chain([market |-> market, rs |-> stock.rs, trend |-> stock.trend,
                     pattern |-> stock.pattern, volume |-> stock.volume]))
        /\ verdict' = None
        /\ UNCHANGED <<market, portfolio>>

\* StrategyEngine.evaluate on the stock at hand.
Judge ==
    \E type \in StrategyTypes, cfg \in Configurations :
        /\ portfolio = None
        /\ Len(analysed) = 1
        /\ verdict' = [type |-> type, cfg |-> cfg, says |-> Verdict(type, analysed[1], cfg)]
        /\ UNCHANGED <<market, analysed, portfolio>>

\* PortfolioEngine.evaluate.
BuildPortfolio ==
    \E capital \in Capitals :
        /\ portfolio = None
        /\ analysed # <<>>
        /\ portfolio' =
              PortfolioOf([i \in DOMAIN analysed |-> [symbol |-> i, risk |-> analysed[i].risk]], capital)
        /\ UNCHANGED <<market, analysed, verdict>>

Next == EvaluateStock \/ Judge \/ BuildPortfolio
Spec == Init /\ [][Next]_vars

-----------------------------------------------------------------------------
Positions == IF Known(portfolio) THEN portfolio.positions ELSE <<>>

\* No capital goes to a stock in a bear market or with a broken trend: the gate
\* of the composite engine (MONITOR at best) holds through trade plan, risk
\* check and portfolio, although the position size itself is not gated.
GatedIsNeverBought ==
    \A i \in DOMAIN Positions :
        LET r == analysed[Positions[i].symbol].assessed
        IN ~BearMarket(r) /\ ~BrokenTrend(r)

\* The capital is handed out exactly once: what the positions take and the cash
\* that is left add up, no position takes more than its stock's own size, and a
\* stock is left out only when those ranked before it have used everything up.
\* (Capital below zero is flagged INVALID_CAPITAL and comes back as the cash.)
CapitalIsHandedOutInOrder ==
    LET size(i) == analysed[Positions[i].symbol].risk.size * portfolio.capital
        allowed == {s \in DOMAIN analysed : analysed[s].risk.allowed}
        bought  == {Positions[i].symbol : i \in DOMAIN Positions}
    IN Known(portfolio) /\ portfolio.capital >= 0 =>
         /\ portfolio.cash >= 0
         /\ portfolio.cash + Total(Amounts(Positions)) = 100 * portfolio.capital
         /\ \A i \in DOMAIN Positions :
              /\ Positions[i].amount <= size(i)
              /\ Positions[i].amount < size(i) => i = Len(Positions) /\ portfolio.cash = 0
         /\ bought # allowed => portfolio.cash = 0

\* The first target lies one risk above the entry, so the reward is one risk but
\* for rounding to cents, and the two risks that execution needs are reached
\* only by a stop less than a cent below the entry.
ApprovedOnlyOnSubCentStops ==
    \A i \in DOMAIN analysed :
        analysed[i].risk.allowed => RiskOf(analysed[i].assessed.pattern) < 10

\* cfg asks for at least what weaker asks for.
Stricter(cfg, weaker) ==
    /\ \A f \in {"min_composite", "min_confidence", "min_pattern", "min_volume", "min_trend", "min_rs"} :
          cfg[f] >= weaker[f]
    /\ \A f \in {"allow_bear", "allow_extended", "ignore_pattern"} : cfg[f] => weaker[f]
    /\ \A f \in {"require_pattern", "strong_trend"} : weaker[f] => cfg[f]

\* A strategy that approves a stock still approves it under every configuration
\* that asks for less (and is valid), whichever gate comes last in its list.
AskingForLessKeepsApproval ==
    Known(verdict) /\ verdict.says.approved =>
        \A weaker \in Configurations :
            ValidConfiguration(weaker) /\ Stricter(verdict.cfg, weaker) =>
                Verdict(verdict.type, analysed[1], weaker).approved
=============================================================================
