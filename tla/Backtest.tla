------------------------------ MODULE Backtest ------------------------------
(***************************************************************************)
(* backend/backtesting: BacktestEngine.run replaying dates through a       *)
(* strategy, the Broker that fills its orders and the Portfolio that keeps *)
(* cash and holdings.                                                      *)
(*                                                                         *)
(* An engine made by BacktestFactory holds one broker and one portfolio    *)
(* for its whole life; a bare BacktestEngine() makes new ones for each run.*)
(* An exception raised while orders execute leaves run() and keeps what    *)
(* the portfolio did until then.                                           *)
(*                                                                         *)
(* Prices are whole numbers and money is counted in thousandths of their   *)
(* unit, so every cost below is exact: `rate` is the sum of the broker's   *)
(* cost rates in thousandths of the traded value.                          *)
(***************************************************************************)
EXTENDS Integers, Sequences, FiniteSets, Functions, SequencesExt

CONSTANTS Symbols,   \* every symbol some backtest names
          Prices,    \* the closing prices a bar may have
          Configs,   \* the configurations: [symbols, capital, rate]
          MaxDays,   \* bound: the dates of one run
          MaxRuns    \* bound: the runs of one engine

ASSUME BacktestAssumption ==
  /\ IsFiniteSet(Symbols)
  /\ Prices \subseteq Nat
  /\ MaxDays \in Nat /\ MaxRuns \in Nat
  /\ \A c \in Configs : /\ c.symbols \in Seq(Symbols) /\ c.symbols # <<>>
                        /\ c.capital \in Nat \ {0}
                        /\ c.rate \in 0..1000

\* The multiple of the price _generate_buy_orders sets aside for a share.
Reserve == 1010

VARIABLES engine,     \* what the engine was made with: [own, config]
          config,     \* the configuration of the running definition
          phase,      \* where run() is: "idle", "date" or "orders"
          runs, day,  \* runs started; dates replayed in this one
          cash,       \* Portfolio._cash
          holdings,   \* Portfolio._holdings: symbol -> [quantity, average_cost]
          bars,       \* Portfolio._market_prices, the prices of the date
          realized,   \* Portfolio._total_realized_pnl
          orders,     \* the orders of the date still to execute
          costs,      \* total_commission + total_slippage of the run
          trades,     \* the trades of the run
          outcome,    \* how the last run ended: "none", "result" or "no cash"
          opening     \* the portfolio at the start of the run: [worth, realized]

portfolio == <<cash, holdings, bars, realized>>
backtestVars == <<engine, config, phase, runs, day, portfolio, orders, costs,
                  trades, outcome, opening>>

Signals == {"BUY", "SELL", "HOLD"}
NoHoldings == [s \in Symbols |-> [quantity |-> 0, average_cost |-> 0]]

\* Portfolio.holdings: the symbols with shares.
Held == {s \in Symbols : holdings[s].quantity > 0}

\* Broker(config).calculate_transaction_cost: the broker of the factory's
\* configuration, or of the definition's when the engine has none.
Rate == IF engine.own THEN engine.config.rate ELSE config.rate
Cost(quantity, price) == quantity * price * Rate

\* Portfolio._calculate_holdings_value and total_equity: a symbol without a
\* bar on the date counts at its average cost.
PriceOf(s) == IF s \in DOMAIN bars THEN bars[s] ELSE holdings[s].average_cost
TotalEquity ==
  cash + SumFunctionOnSet([s \in Symbols |-> 1000 * holdings[s].quantity * PriceOf(s)], Held)

\* What the shares held were bought for.
BookValue(h) == SumFunction([s \in Symbols |-> 1000 * h[s].quantity * h[s].average_cost])

BacktestInit ==
  /\ engine \in [own : BOOLEAN, config : Configs]
  /\ config = engine.config
  /\ phase = "idle" /\ runs = 0 /\ day = 0
  /\ cash = 1000 * engine.config.capital
  /\ holdings = NoHoldings
  /\ bars = <<>>
  /\ realized = 0
  /\ orders = <<>> /\ costs = 0 /\ trades = <<>>
  /\ outcome = "none"
  /\ opening = [worth |-> cash, realized |-> 0]

\* run(definition): the engine's own broker and portfolio, or new ones.
StartRun(definition) ==
  /\ phase = "idle" /\ runs < MaxRuns
  /\ runs' = runs + 1
  /\ config' = definition
  /\ phase' = "date" /\ day' = 0
  /\ orders' = <<>> /\ costs' = 0 /\ trades' = <<>>
  /\ outcome' = "none"
  /\ IF engine.own
     THEN UNCHANGED portfolio
     ELSE /\ cash' = 1000 * definition.capital
          /\ holdings' = NoHoldings
          /\ bars' = <<>>
          /\ realized' = 0
  /\ opening' = [worth |-> cash' + BookValue(holdings'), realized |-> realized']
  /\ UNCHANGED engine

\* The bars of a date: a close for some of the run's symbols, one at least,
\* for the dates are those of the bars; a bar without a close counts as 0.
DateBars == UNION {[D -> Prices] : D \in SUBSET ToSet(config.symbols) \ {{}}}

\* _generate_buy_orders: for each symbol of the configuration with a price
\* and no shares, as many shares as what is left of the cash pays for.  In the
\* mutant, every symbol finds all of the cash.
Affordable(available, s, prices) ==
  IF s \in DOMAIN prices /\ prices[s] > 0 /\ s \notin Held
  THEN available \div (Reserve * prices[s]) ELSE 0
BuyOrdersFromAllCash(prices) ==
  FoldLeft(LAMBDA list, s :
             LET n == Affordable(cash, s, prices)
             IN  IF n = 0 THEN list
                 ELSE Append(list, [side |-> "BUY", symbol |-> s, quantity |-> n]),
           <<>>, config.symbols)
Purchase(acc, s, prices) ==
  LET n == Affordable(acc.available, s, prices)
  IN  IF n = 0 THEN acc
      ELSE [list |-> Append(acc.list, [side |-> "BUY", symbol |-> s, quantity |-> n]),
            available |-> acc.available - n * Reserve * prices[s]]
BuyOrders(prices) ==
  LET made[n \in 0 .. Len(config.symbols)] ==
        IF n = 0 THEN [list |-> <<>>, available |-> cash]
        ELSE Purchase(made[n - 1], config.symbols[n], prices)
  IN  made[Len(config.symbols)].list

\* _generate_sell_orders: everything held that has a price on the date.  (The
\* order of the list does not matter: it is that of the first purchases.)
SellOrdersOf(sold) ==
  LET list == SetToSeq(sold)
  IN  [i \in DOMAIN list |->
         [side |-> "SELL", symbol |-> list[i], quantity |-> holdings[list[i]].quantity]]
SellOrders(prices) == SellOrdersOf({s \in Held : s \in DOMAIN prices /\ prices[s] > 0})

\* The next date: the prices replace those of the date before, the strategy
\* answers, and its answer becomes orders.
ReplayDate(prices, signal) ==
  /\ phase = "date" /\ day < MaxDays
  /\ day' = day + 1
  /\ bars' = prices
  /\ orders' = CASE signal = "BUY"  -> BuyOrders(prices)
                 [] signal = "SELL" -> SellOrders(prices)
                 [] OTHER           -> <<>>
  /\ phase' = "orders"
  /\ UNCHANGED <<engine, config, runs, cash, holdings, realized, costs, trades, outcome, opening>>

\* strategy_fn raises: run() ends there, with the prices of the date set.
StrategyRaises(prices) ==
  /\ phase = "date" /\ day < MaxDays
  /\ bars' = prices
  /\ phase' = "idle" /\ outcome' = "error"
  /\ UNCHANGED <<engine, config, runs, day, cash, holdings, realized, orders, costs, trades, opening>>

\* A market order fills at the price of the date.  The mutant sells at cost.
FillAtCost(order) ==
  IF order.side = "SELL" THEN holdings[order.symbol].average_cost ELSE bars[order.symbol]
FillPrice(order) == bars[order.symbol]

\* Broker._execute_buy raises when the shares and their costs exceed the cash;
\* the exception ends the run.  The mutant forgets the costs.
TotalCost(order) == 1000 * order.quantity * FillPrice(order)
                      + Cost(order.quantity, FillPrice(order))
NotEnoughCash(order) == TotalCost(order) > cash

BuyAborts ==
  /\ phase = "orders" /\ orders # <<>>
  /\ Head(orders).side = "BUY" /\ NotEnoughCash(Head(orders))
  /\ phase' = "idle" /\ outcome' = "no cash" /\ orders' = <<>>
  /\ UNCHANGED <<engine, config, runs, day, portfolio, costs, trades, opening>>

\* execute_order fills the order and Portfolio.buy books it.  A sold out holding starts again from the new price.
Buy ==
  /\ phase = "orders" /\ orders # <<>>
  /\ LET o == Head(orders)
         p == FillPrice(o)
         h == holdings[o.symbol]
         total == h.quantity + o.quantity
     IN  /\ o.side = "BUY" /\ ~NotEnoughCash(o)
         /\ cash' = cash - TotalCost(o)
         /\ holdings' = [holdings EXCEPT ![o.symbol] =
              [quantity |-> total,
               average_cost |-> (h.average_cost * h.quantity + p * o.quantity) \div total]]
         /\ costs' = costs + Cost(o.quantity, p)
  /\ orders' = Tail(orders)
  /\ UNCHANGED <<engine, config, phase, runs, day, bars, realized, trades, outcome, opening>>

\* Portfolio.sell: the proceeds less the costs; the profit is measured against
\* the average cost, which does not contain the costs of the purchase.  The
\* engine adds the trade.  The mutant's profit ignores the costs of the sale.
GrossProfit(h, quantity, price) == 1000 * (price - h.average_cost) * quantity
Profit(h, quantity, price) ==
  1000 * (price - h.average_cost) * quantity - Cost(quantity, price)
Sell ==
  /\ phase = "orders" /\ orders # <<>>
  /\ LET o == Head(orders)
         p == FillPrice(o)
         h == holdings[o.symbol]
         charge == Cost(o.quantity, p)
     IN  /\ o.side = "SELL" /\ h.quantity >= o.quantity
         /\ cash' = cash + 1000 * o.quantity * p - charge
         /\ realized' = realized + Profit(h, o.quantity, p)
         /\ holdings' = [holdings EXCEPT ![o.symbol].quantity = @ - o.quantity]
         /\ costs' = costs + charge
         /\ trades' = Append(trades, [symbol |-> o.symbol, quantity |-> o.quantity, price |-> p])
  /\ orders' = Tail(orders)
  /\ UNCHANGED <<engine, config, phase, runs, day, bars, outcome, opening>>

\* The equity point of the date, worth TotalEquity; then the next date.
DateEnds ==
  /\ phase = "orders" /\ orders = <<>>
  /\ phase' = "date"
  /\ UNCHANGED <<engine, config, runs, day, portfolio, orders, costs, trades, outcome, opening>>

\* No date is left: the metrics and the result.
RunEnds ==
  /\ phase = "date" /\ day > 0
  /\ phase' = "idle" /\ outcome' = "result"
  /\ UNCHANGED <<engine, config, runs, day, portfolio, orders, costs, trades, opening>>

BacktestNext ==
  \/ \E definition \in Configs : StartRun(definition)
  \/ \E prices \in DateBars : \/ StrategyRaises(prices)
                              \/ \E signal \in Signals : ReplayDate(prices, signal)
  \/ BuyAborts \/ Buy \/ Sell \/ DateEnds \/ RunEnds

BacktestSpec == BacktestInit /\ [][BacktestNext]_backtestVars

------------------------------------------------------------------------------
(* What the backtest promises.                                             *)

\* The orders of one BUY signal share the cash of the date: with costs below
\* the 1% that order generation sets aside, every one of them is paid for, in
\* whatever order and at whatever prices, so a backtest never dies of
\* InsufficientCashError.  (Costs of the default configuration: 0.16%.)
BuySignalsNeverAbort == outcome = "no cash" => 1000 + Rate >= Reserve

\* Engine and portfolio keep separate books: the statistics add up the costs
\* order by order, the portfolio its cash and profit.  They agree at every
\* point of a run: what the portfolio is worth at cost has changed by the
\* realized profit and by the costs of the purchases, which no profit contains.
BooksAgree ==
  LET costsOfSales == SumFunction([i \in DOMAIN trades |-> Cost(trades[i].quantity, trades[i].price)])
  IN  cash + BookValue(holdings) - opening.worth
        = (realized - opening.realized) - (costs - costsOfSales)

\* Orders trade at the prices of their own date: executing one changes the
\* portfolio's total equity by its costs and nothing else.
TradingCostsOnly ==
  [][phase = "orders" => TotalEquity' = TotalEquity - (costs' - costs)]_backtestVars

=============================================================================
