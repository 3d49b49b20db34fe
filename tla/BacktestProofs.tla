---------------------------- MODULE BacktestProofs ----------------------------
(***************************************************************************)
(* What Backtest promises for any symbols, prices and configurations, over *)
(* any number of runs and dates.  An order is a promise about a state that *)
(* the orders before it have changed by the time it executes: the induction*)
(* carries that what is left of the list fits the prices of the date, that *)
(* it buys nothing that is held at another cost, and that the cash covers  *)
(* what order generation set aside for it.                                 *)
(***************************************************************************)
EXTENDS Backtest, FoldLemmas

Order == [side : {"BUY", "SELL"}, symbol : Symbols, quantity : Nat \ {0}]
Holdings == [Symbols -> [quantity : Nat, average_cost : Nat]]
Trade == [symbol : Symbols, quantity : Nat, price : Nat]
PriceTables == UNION {[D -> Nat] : D \in SUBSET Symbols}

BooksTypeOK ==
  /\ engine \in [own : BOOLEAN, config : Configs] /\ config \in Configs
  /\ phase \in {"idle", "date", "orders"}
  /\ outcome \in {"none", "result", "no cash", "error"}
  /\ cash \in Nat
  /\ holdings \in Holdings
  /\ bars \in PriceTables
  /\ realized \in Int /\ costs \in Nat
  /\ orders \in Seq(Order)
  /\ trades \in Seq(Trade)
  /\ opening \in [worth : Int, realized : Int]

\* Every order has a price of its date, and a purchase adds to no shares that
\* cost something else: average_cost truncates, but never in a backtest.
Fits(o, prices, h) ==
  /\ o.symbol \in DOMAIN prices
  /\ o.side = "BUY" => \/ h[o.symbol].quantity = 0
                       \/ h[o.symbol].average_cost = prices[o.symbol]
OrdersFit ==
  phase = "orders" => \A i \in 1 .. Len(orders) : Fits(orders[i], bars, holdings)

\* Costs that order generation does not set enough aside for.
Dear(rate) == 1000 + rate >= Reserve

\* What order generation sets aside for a list of orders.
SetAside(o, prices) ==
  IF o.side = "BUY" THEN o.quantity * Reserve * prices[o.symbol] ELSE 0
Outlay(list, prices) ==
  SumFunctionOnSet([i \in 1 .. Len(list) |-> SetAside(list[i], prices)], 1 .. Len(list))

OrdersCovered ==
  phase = "orders" /\ ~Dear(Rate) => Outlay(orders, bars) <= cash

BacktestInv ==
  /\ BooksTypeOK
  /\ OrdersFit
  /\ OrdersCovered
  /\ BuySignalsNeverAbort
  /\ BooksAgree

------------------------------------------------------------------------------
(* Arithmetic, prices and sums.                                            *)

LEMMA ProductsOrdered ==
  ASSUME NEW a \in Nat, NEW b \in Int, NEW c \in Int, b <= c
  PROVE  a * b <= a * c
OBVIOUS

LEMMA ProductIsNat == ASSUME NEW a \in Nat, NEW b \in Nat PROVE a * b \in Nat
OBVIOUS

\* What is bought of an amount does not cost more than the amount.
LEMMA Affords ==
  ASSUME NEW a \in Nat, NEW d \in Nat \ {0}
  PROVE  /\ a \div d \in Nat
         /\ (a \div d) * d <= a
OBVIOUS

\* A purchase of shares at the price of those that are there, or of the first
\* shares, leaves the price as their average cost.
LEMMA AverageOfEqual ==
  ASSUME NEW p \in Nat, NEW n \in Nat \ {0} PROVE (p * n) \div n = p
OBVIOUS

\* What n shares at the price p are worth.
Worth(n, p) == 1000 * n * p

LEMMA WorthIsNat == ASSUME NEW n \in Nat, NEW p \in Nat PROVE Worth(n, p) \in Nat
BY DEF Worth

LEMMA WorthOfSum ==
  ASSUME NEW n \in Nat, NEW m \in Nat, NEW p \in Nat
  PROVE  Worth(n + m, p) = Worth(n, p) + Worth(m, p)
BY DEF Worth

LEMMA DifferenceInWorth ==
  ASSUME NEW n \in Nat, NEW p \in Nat, NEW a \in Nat
  PROVE  1000 * (p - a) * n = Worth(n, p) - Worth(n, a)
<1>1. PICK x \in Int, y \in Int, z \in Int : x = n * p /\ y = n * a /\ z = (p - a) * n
  OBVIOUS
<1>2. z = x - y
  BY <1>1
<1>3. Worth(n, p) = 1000 * x /\ Worth(n, a) = 1000 * y
  BY <1>1 DEF Worth
<1>4. 1000 * (p - a) * n = 1000 * z
  BY <1>1
<1> QED BY <1>2, <1>3, <1>4

LEMMA WorthOfNone == ASSUME NEW p \in Nat PROVE Worth(0, p) = 0
BY DEF Worth

LEMMA ConfigFacts ==
  ASSUME NEW c \in Configs
  PROVE  /\ c.symbols \in Seq(Symbols) /\ Len(c.symbols) \in Nat
         /\ \A n \in 1 .. Len(c.symbols) : c.symbols[n] \in Symbols
         /\ c.capital \in Nat
         /\ c.rate \in 0 .. 1000
<1>1. c.symbols \in Seq(Symbols) /\ c.capital \in Nat /\ c.rate \in 0 .. 1000
  BY BacktestAssumption
<1> DEFINE q == c.symbols
<1> HIDE DEF q
<1>2. q \in Seq(Symbols) => Len(q) \in Nat /\ \A n \in 1 .. Len(q) : q[n] \in Symbols
  OBVIOUS
<1> QED BY <1>1, <1>2 DEF q

LEMMA BarsArePrices ==
  ASSUME config \in Configs, NEW prices \in DateBars
  PROVE  prices \in PriceTables
<1>1. Prices \subseteq Nat /\ config.symbols \in Seq(Symbols)
  BY BacktestAssumption
<1>2. ToSet(config.symbols) \subseteq Symbols
  BY <1>1 DEF ToSet
<1>3. PICK D \in SUBSET ToSet(config.symbols) : prices \in [D -> Prices]
  BY DEF DateBars
<1>4. prices \in [D -> Nat] /\ D \in SUBSET Symbols
  BY <1>1, <1>2, <1>3
<1> QED BY <1>4 DEF PriceTables

LEMMA PriceOfDate ==
  ASSUME NEW prices \in PriceTables, NEW s \in DOMAIN prices
  PROVE  s \in Symbols /\ prices[s] \in Nat
BY DEF PriceTables

\* Holdings at cost, and their value at the prices of a date.
LEMMA BookAfterTrade ==
  ASSUME NEW h \in Holdings, NEW g \in Holdings, NEW s \in Symbols,
         \A x \in Symbols \ {s} : g[x] = h[x]
  PROVE  /\ BookValue(g) = BookValue(h) - Worth(h[s].quantity, h[s].average_cost)
                                        + Worth(g[s].quantity, g[s].average_cost)
         /\ BookValue(h) \in Int
<1> DEFINE v == [x \in Symbols |-> 1000 * h[x].quantity * h[x].average_cost]
           w == [x \in Symbols |-> 1000 * g[x].quantity * g[x].average_cost]
<1>1. \A x \in Symbols : v[x] \in Int /\ w[x] \in Int
  BY DEF Holdings
<1>2. \A x \in Symbols \ {s} : v[x] = w[x]
  OBVIOUS
<1>3. /\ v[s] = Worth(h[s].quantity, h[s].average_cost)
      /\ w[s] = Worth(g[s].quantity, g[s].average_cost)
  BY DEF Worth
<1>4. /\ BookValue(h) = SumFunctionOnSet(v, Symbols)
      /\ BookValue(g) = SumFunctionOnSet(w, Symbols)
  BY DEF BookValue, SumFunction
<1> HIDE DEF v, w
<1>5. IsFiniteSet(Symbols)
  BY BacktestAssumption
<1>6. /\ SumFunctionOnSet(w, Symbols) = SumFunctionOnSet(v, Symbols) - v[s] + w[s]
      /\ SumFunctionOnSet(v, Symbols) \in Int
  BY <1>1, <1>2, <1>5, SumAfterChange
<1> QED BY <1>3, <1>4, <1>6

LEMMA BookIsInt == ASSUME NEW h \in Holdings PROVE BookValue(h) \in Int
<1> DEFINE v == [x \in Symbols |-> 1000 * h[x].quantity * h[x].average_cost]
<1>1. \A x \in Symbols : v[x] \in Int
  BY DEF Holdings
<1>2. BookValue(h) = SumFunctionOnSet(v, Symbols)
  BY DEF BookValue, SumFunction
<1> HIDE DEF v
<1> QED BY <1>1, <1>2, BacktestAssumption, SumOfIntegers

\* The outlay of a list grows with an order and shrinks with its first.
LEMMA SetAsideIsNat ==
  ASSUME NEW o \in Order, NEW prices \in PriceTables, o.symbol \in DOMAIN prices
  PROVE  SetAside(o, prices) \in Nat
<1>1. prices[o.symbol] \in Nat
  BY PriceOfDate
<1> QED BY <1>1 DEF SetAside, Order, Reserve

LEMMA OutlayOfAppend ==
  ASSUME NEW prices \in PriceTables, NEW list \in Seq(Order), NEW o \in Order,
         \A i \in 1 .. Len(list) : list[i].symbol \in DOMAIN prices,
         o.symbol \in DOMAIN prices
  PROVE  /\ Outlay(Append(list, o), prices) = Outlay(list, prices) + SetAside(o, prices)
         /\ Outlay(list, prices) \in Int
<1> DEFINE n == Len(list)
           longer == Append(list, o)
           v == [i \in 1 .. n |-> SetAside(list[i], prices)]
           w == [i \in 1 .. n + 1 |-> SetAside(longer[i], prices)]
<1>1. /\ n \in Nat /\ Len(longer) = n + 1
      /\ \A i \in 1 .. n : longer[i] = list[i] /\ list[i] \in Order
      /\ longer[n + 1] = o
  OBVIOUS
<1>2. \A i \in 1 .. n + 1 : longer[i] \in Order /\ longer[i].symbol \in DOMAIN prices
  BY <1>1
<1> HIDE DEF n, longer
<1>3. \A i \in 1 .. n : v[i] = w[i]
  BY <1>1
<1>4. \A i \in 1 .. n + 1 : w[i] \in Int
  BY <1>1, <1>2, SetAsideIsNat
<1>5. w[n + 1] = SetAside(o, prices)
  BY <1>1
<1>6. /\ Outlay(longer, prices) = SumFunctionOnSet(w, 1 .. n + 1)
      /\ Outlay(list, prices) = SumFunctionOnSet(v, 1 .. n)
  BY <1>1 DEF Outlay, n
<1> HIDE DEF v, w
<1>7. /\ SumFunctionOnSet(w, 1 .. n + 1) = SumFunctionOnSet(v, 1 .. n) + w[n + 1]
      /\ SumFunctionOnSet(v, 1 .. n) \in Int
  BY <1>1, <1>3, <1>4, SumOfAppend
<1> QED BY <1>5, <1>6, <1>7 DEF longer

LEMMA OutlayOfTail ==
  ASSUME NEW prices \in PriceTables, NEW list \in Seq(Order), list # <<>>,
         \A i \in 1 .. Len(list) : list[i].symbol \in DOMAIN prices
  PROVE  /\ Outlay(list, prices) = SetAside(Head(list), prices) + Outlay(Tail(list), prices)
         /\ Outlay(Tail(list), prices) \in Nat
         /\ SetAside(Head(list), prices) \in Nat
<1> DEFINE rest == Tail(list)
           n == Len(rest)
           v == [i \in 1 .. n + 1 |-> SetAside(list[i], prices)]
           w == [i \in 1 .. n |-> SetAside(rest[i], prices)]
<1>1. /\ n \in Nat /\ Len(list) = n + 1
      /\ \A i \in 1 .. n : rest[i] = list[i + 1]
      /\ \A i \in 1 .. n + 1 : list[i] \in Order
      /\ list[1] = Head(list)
  OBVIOUS
<1> HIDE DEF n, rest
<1>2. \A i \in 1 .. n + 1 : v[i] \in Nat
  BY <1>1, SetAsideIsNat
<1>3. \A i \in 1 .. n : w[i] = v[i + 1] /\ w[i] \in Nat
  BY <1>1, <1>2
<1>4. /\ Outlay(list, prices) = SumFunctionOnSet(v, 1 .. n + 1)
      /\ Outlay(rest, prices) = SumFunctionOnSet(w, 1 .. n)
  BY <1>1 DEF Outlay, n
<1>5. v[1] = SetAside(Head(list), prices)
  BY <1>1
<1> HIDE DEF v, w
<1>6. SumFunctionOnSet(v, 1 .. n + 1) = v[1] + SumFunctionOnSet(w, 1 .. n)
  <2>1. \A i \in 1 .. n + 1 : v[i] \in Int
    BY <1>2
  <2> QED BY <1>1, <1>3, <2>1, SumOfTail
<1>7. SumFunctionOnSet(w, 1 .. n) \in Nat
  <2>1. IsFiniteSet(1 .. n)
    BY <1>1, FS_Interval
  <2> QED BY <1>3, <2>1, SumOfNaturals
<1>8. v[1] \in Nat
  BY <1>1, <1>2
<1> QED BY <1>4, <1>5, <1>6, <1>7, <1>8 DEF rest

------------------------------------------------------------------------------
(* Order generation.                                                       *)

\* What a list of purchases and the cash left over are while _generate_buy_orders
\* walks the symbols.
FineList(acc, prices) ==
  /\ acc.list \in Seq(Order) /\ acc.available \in Nat
  /\ \A i \in 1 .. Len(acc.list) :
       /\ acc.list[i].symbol \in DOMAIN prices
       /\ holdings[acc.list[i].symbol].quantity = 0
  /\ Outlay(acc.list, prices) \in Int
  /\ Outlay(acc.list, prices) + acc.available = cash

LEMMA PurchaseIsFine ==
  ASSUME BooksTypeOK, NEW prices \in PriceTables, NEW acc, FineList(acc, prices),
         NEW s \in Symbols
  PROVE  FineList(Purchase(acc, s, prices), prices)
<1> DEFINE n == Affordable(acc.available, s, prices)
           o == [side |-> "BUY", symbol |-> s, quantity |-> n]
           longer == Append(acc.list, o)
           left == acc.available - n * Reserve * prices[s]
<1>1. CASE n = 0
  BY <1>1 DEF Purchase
<1>2. CASE n # 0
  <2>1. /\ s \in DOMAIN prices /\ prices[s] > 0 /\ s \notin Held
        /\ n = acc.available \div (Reserve * prices[s])
    BY <1>2 DEF Affordable
  <2>2. prices[s] \in Nat
    BY <2>1, PriceOfDate
  <2>3. holdings[s].quantity = 0
    <3>1. holdings[s] \in [quantity : Nat, average_cost : Nat]
      BY DEF BooksTypeOK, Holdings
    <3>2. holdings[s].quantity \in Nat
      BY <3>1
    <3> QED BY <2>1, <3>2 DEF Held
  <2>4. Reserve * prices[s] \in Nat \ {0} /\ acc.available \in Nat
    BY <2>1, <2>2 DEF Reserve, FineList
  <2>5. n \in Nat /\ n * (Reserve * prices[s]) <= acc.available
    <3> DEFINE d == Reserve * prices[s]
    <3>1. d \in Nat \ {0} /\ n = acc.available \div d
      BY <2>1, <2>4
    <3> HIDE DEF d, n
    <3>2. n \in Nat /\ n * d <= acc.available
      BY <2>4, <3>1, Affords
    <3> QED BY <3>2 DEF d
  <2>6. o \in Order
    BY <1>2, <2>5 DEF Order
  <2>7. SetAside(o, prices) = n * Reserve * prices[s]
    BY DEF SetAside
  <2> HIDE DEF n
  <2>8. n * Reserve * prices[s] \in Nat /\ left \in Nat
    BY <2>2, <2>4, <2>5 DEF Reserve
  <2>9. /\ Purchase(acc, s, prices).list = longer
        /\ Purchase(acc, s, prices).available = left
    BY <1>2 DEF Purchase, n
  <2>10. /\ Outlay(longer, prices) = Outlay(acc.list, prices) + SetAside(o, prices)
         /\ Outlay(acc.list, prices) \in Int
    <3>1. acc.list \in Seq(Order) /\ \A i \in 1 .. Len(acc.list) : acc.list[i].symbol \in DOMAIN prices
      BY DEF FineList
    <3>2. o.symbol \in DOMAIN prices
      BY <2>1
    <3> HIDE DEF o
    <3> QED BY <2>6, <3>1, <3>2, OutlayOfAppend
  <2>11. \A i \in 1 .. Len(longer) :
           /\ longer[i].symbol \in DOMAIN prices
           /\ holdings[longer[i].symbol].quantity = 0
    BY <2>1, <2>3, <2>6 DEF FineList
  <2>12. longer \in Seq(Order)
    BY <2>6 DEF FineList
  <2> HIDE DEF o, longer
  <2>13. /\ Outlay(longer, prices) \in Int
         /\ Outlay(longer, prices) + left = cash
    BY <2>7, <2>8, <2>10 DEF FineList
  <2> HIDE DEF left
  <2> QED BY <2>8, <2>9, <2>11, <2>12, <2>13 DEF FineList
<1> QED BY <1>1, <1>2

\* The recursion over the symbols has a solution, and each of its values is fine.
Start == [list |-> <<>>, available |-> cash]
Making(f, prices, N) ==
  f = [n \in 0 .. N |-> IF n = 0 THEN Start
                        ELSE Purchase(f[n - 1], config.symbols[n], prices)]

LEMMA MakingExists ==
  ASSUME NEW prices, NEW N \in Nat
  PROVE  \E f : Making(f, prices, N)
<1> DEFINE T == {n \in Nat : ~ \E f : Making(f, prices, n)}
<1> SUFFICES ASSUME T # {} PROVE FALSE
  OBVIOUS
<1>1. PICK n \in T : \A m \in T : n <= m
  <2>1. T \in SUBSET Nat
    OBVIOUS
  <2> HIDE DEF T
  <2> QED BY <2>1, LeastElement
<1>2. CASE n = 0
  <2> DEFINE f == [k \in 0 .. 0 |-> Start]
  <2>1. Making(f, prices, 0)
    BY DEF Making
  <2> QED BY <1>1, <1>2, <2>1
<1>3. CASE n # 0
  <2>1. n - 1 \in Nat /\ ~(n <= n - 1) /\ n \in Nat
    BY <1>3
  <2>2. PICK f : Making(f, prices, n - 1)
    BY <1>1, <2>1
  <2> DEFINE g == [k \in 0 .. n |-> IF k = n THEN Purchase(f[n - 1], config.symbols[n], prices)
                                    ELSE f[k]]
  <2>3. \A k \in 0 .. n - 1 : g[k] = f[k]
    BY <2>1
  <2>4. \A k \in 0 .. n : g[k] = IF k = 0 THEN Start
                                 ELSE Purchase(g[k - 1], config.symbols[k], prices)
    <3>1. g[n] = Purchase(f[n - 1], config.symbols[n], prices) /\ g[n - 1] = f[n - 1]
      BY <2>1, <2>3
    <3>2. \A k \in 0 .. n - 1 : f[k] = IF k = 0 THEN Start
                                       ELSE Purchase(f[k - 1], config.symbols[k], prices)
      BY <2>2 DEF Making
    <3>3. \A k \in 1 .. n - 1 : g[k - 1] = f[k - 1]
      BY <2>1, <2>3
    <3> HIDE DEF g
    <3> QED BY <1>3, <2>1, <2>3, <3>1, <3>2, <3>3
  <2>5. Making(g, prices, n)
    <3>1. g = [k \in 0 .. n |-> g[k]]
      OBVIOUS
    <3> HIDE DEF g
    <3> QED BY <2>4, <3>1 DEF Making
  <2> QED BY <1>1, <2>5
<1> QED BY <1>2, <1>3

LEMMA MadeIsFine ==
  ASSUME BooksTypeOK, NEW prices \in PriceTables, NEW f,
         Making(f, prices, Len(config.symbols))
  PROVE  FineList(f[Len(config.symbols)], prices)
<1> DEFINE N == Len(config.symbols)
           T == {n \in 0 .. N : ~ FineList(f[n], prices)}
<1>1. N \in Nat /\ \A n \in 1 .. N : config.symbols[n] \in Symbols
  <2>1. config \in Configs
    BY DEF BooksTypeOK
  <2> QED BY <2>1, ConfigFacts
<1> HIDE DEF N
<1> SUFFICES ASSUME T # {} PROVE FALSE
  BY <1>1 DEF N
<1>2. PICK n \in T : \A m \in T : n <= m
  <2>1. T \in SUBSET Nat
    OBVIOUS
  <2> HIDE DEF T
  <2> QED BY <2>1, LeastElement
<1>3. CASE n = 0
  <2>1. f[0] = Start
    BY <1>1, <1>2, <1>3 DEF Making, N
  <2>2. Outlay(<<>>, prices) = 0
    <3>1. 1 .. Len(<<>>) = {}
      OBVIOUS
    <3> QED BY <3>1, SumOfNothing DEF Outlay
  <2>3. FineList(Start, prices)
    <3>1. cash \in Nat
      BY DEF BooksTypeOK, Holdings
    <3>2. Start.list = <<>> /\ Start.available = cash
      BY DEF Start
    <3>3. <<>> \in Seq(Order) /\ 1 .. Len(<<>>) = {}
      OBVIOUS
    <3> QED BY <2>2, <3>1, <3>2, <3>3 DEF FineList
  <2> QED BY <1>2, <1>3, <2>1, <2>3
<1>4. CASE n # 0
  <2>1. n - 1 \in 0 .. N /\ ~(n <= n - 1) /\ n \in 1 .. N
    BY <1>1, <1>2, <1>4
  <2>2. FineList(f[n - 1], prices)
    BY <1>2, <2>1
  <2>3. f[n] = Purchase(f[n - 1], config.symbols[n], prices)
    BY <1>4, <2>1 DEF Making, N
  <2>4. FineList(f[n], prices)
    BY <1>1, <2>1, <2>2, <2>3, PurchaseIsFine
  <2> QED BY <1>2, <2>4
<1> QED BY <1>3, <1>4

\* The orders of a BUY signal: each has a price, buys what is not held, and the
\* cash covers what all of them set aside.
LEMMA BuyOrdersAreFine ==
  ASSUME BooksTypeOK, NEW prices \in PriceTables
  PROVE  /\ BuyOrders(prices) \in Seq(Order)
         /\ \A i \in 1 .. Len(BuyOrders(prices)) :
              /\ BuyOrders(prices)[i].symbol \in DOMAIN prices
              /\ holdings[BuyOrders(prices)[i].symbol].quantity = 0
         /\ Outlay(BuyOrders(prices), prices) <= cash
<1> DEFINE N == Len(config.symbols)
           made == CHOOSE f : f = [n \in 0 .. N |->
                     IF n = 0 THEN [list |-> <<>>, available |-> cash]
                     ELSE Purchase(f[n - 1], config.symbols[n], prices)]
<1>1. N \in Nat
  <2>1. config \in Configs
    BY DEF BooksTypeOK
  <2> QED BY <2>1, ConfigFacts
<1>2. Making(made, prices, N)
  <2>1. \E f : f = [n \in 0 .. N |->
                 IF n = 0 THEN [list |-> <<>>, available |-> cash]
                 ELSE Purchase(f[n - 1], config.symbols[n], prices)]
    <3>1. PICK f : Making(f, prices, N)
      BY <1>1, MakingExists
    <3> QED BY <3>1, Zenon DEF Making, Start
  <2>2. made = [n \in 0 .. N |->
           IF n = 0 THEN [list |-> <<>>, available |-> cash]
           ELSE Purchase(made[n - 1], config.symbols[n], prices)]
    BY <2>1, Zenon
  <2> QED BY <2>2, Zenon DEF Making, Start
<1>3. BuyOrders(prices) = made[N].list
  BY DEF BuyOrders
<1> HIDE DEF made
<1>4. FineList(made[N], prices)
  BY <1>2, MadeIsFine
<1>5. /\ made[N].available \in Nat /\ cash \in Nat
      /\ Outlay(made[N].list, prices) \in Int
      /\ Outlay(made[N].list, prices) + made[N].available = cash
  BY <1>4 DEF FineList, BooksTypeOK
<1> QED BY <1>3, <1>4, <1>5 DEF FineList

LEMMA SoldIsListed ==
  ASSUME NEW sold \in SUBSET Symbols
  PROVE  SetToSeq(sold) \in [1 .. Cardinality(sold) -> sold] /\ Cardinality(sold) \in Nat
<1>1. IsFiniteSet(sold)
  BY BacktestAssumption, FS_Subset
<1>2. Cardinality(sold) \in Nat
  BY <1>1, FS_CardinalityType
<1>3. ExistsBijection(1 .. Cardinality(sold), sold)
  BY <1>1, <1>2, FS_CountingElements, FS_NatBijection
<1>4. \E f \in [1 .. Cardinality(sold) -> sold] : IsInjective(f)
  BY <1>3 DEF ExistsBijection, Bijection, Injection, IsInjective
<1>5. SetToSeq(sold) \in [1 .. Cardinality(sold) -> sold]
  BY <1>4 DEF SetToSeq
<1> QED BY <1>2, <1>5

LEMMA SellOrdersAreFine ==
  ASSUME BooksTypeOK, NEW prices \in PriceTables
  PROVE  /\ SellOrders(prices) \in Seq(Order)
         /\ \A i \in 1 .. Len(SellOrders(prices)) :
              /\ SellOrders(prices)[i].side = "SELL"
              /\ SellOrders(prices)[i].symbol \in DOMAIN prices
         /\ Outlay(SellOrders(prices), prices) = 0
<1> DEFINE sold == {s \in Held : s \in DOMAIN prices /\ prices[s] > 0}
           N == Cardinality(sold)
           list == SetToSeq(sold)
           os == SellOrders(prices)
<1>1. sold \in SUBSET Symbols /\ \A s \in sold : s \in DOMAIN prices /\ s \in Held
  BY DEF Held
<1> HIDE DEF sold
<1>2. list \in [1 .. N -> sold] /\ N \in Nat
  BY <1>1, SoldIsListed
<1>3. os = [i \in 1 .. N |-> [side |-> "SELL", symbol |-> list[i],
                              quantity |-> holdings[list[i]].quantity]]
  BY <1>2 DEF SellOrders, SellOrdersOf, sold
<1> HIDE DEF N, list, os
<1>4. \A s \in sold : holdings[s].quantity \in Nat \ {0}
  <2>1. ASSUME NEW s \in sold PROVE holdings[s].quantity \in Nat \ {0}
    <3>1. holdings[s] \in [quantity : Nat, average_cost : Nat]
      BY <1>1 DEF BooksTypeOK, Holdings
    <3> QED BY <1>1, <3>1 DEF Held
  <2> QED BY <2>1
<1>5. \A i \in 1 .. N : /\ os[i] \in Order /\ os[i].side = "SELL"
                        /\ os[i].symbol \in DOMAIN prices
  <2>1. ASSUME NEW i \in 1 .. N
        PROVE  os[i] \in Order /\ os[i].side = "SELL" /\ os[i].symbol \in DOMAIN prices
    <3>1. list[i] \in sold
      BY <1>2
    <3>2. os[i] = [side |-> "SELL", symbol |-> list[i], quantity |-> holdings[list[i]].quantity]
      BY <1>3
    <3> QED BY <1>1, <1>4, <3>1, <3>2 DEF Order
  <2> QED BY <2>1
<1>6. os \in Seq(Order) /\ Len(os) = N
  <2>1. os \in [1 .. N -> Order]
    BY <1>3, <1>5
  <2> QED BY <1>2, <2>1
<1>7. Outlay(os, prices) = 0
  <2> DEFINE v == [i \in 1 .. N |-> SetAside(os[i], prices)]
  <2>1. \A i \in 1 .. N : v[i] = 0
    BY <1>5 DEF SetAside
  <2>2. Outlay(os, prices) = SumFunctionOnSet(v, 1 .. N)
    BY <1>6 DEF Outlay
  <2> HIDE DEF v
  <2>3. IsFiniteSet(1 .. N)
    BY <1>2, FS_Interval
  <2>4. SumFunctionOnSet(v, 1 .. N) = SumFunctionOnSet(v, {})
    <3>1. /\ {} \in SUBSET (1 .. N)
          /\ \A i \in 1 .. N : v[i] \in Int
          /\ \A i \in (1 .. N) \ {} : v[i] = 0
      BY <2>1
    <3> QED BY <2>3, <3>1, SumOverSupport
  <2> QED BY <2>2, <2>4, SumOfNothing
<1> QED BY <1>5, <1>6, <1>7 DEF os

------------------------------------------------------------------------------
(* Filling an order.                                                       *)

LEMMA RateFacts == ASSUME BooksTypeOK PROVE Rate \in Nat /\ Rate <= 1000
<1>1. config \in Configs /\ engine.config \in Configs
  BY DEF BooksTypeOK, Holdings
<1>2. \A c \in Configs : c.rate \in Nat /\ c.rate <= 1000
  <2>1. ASSUME NEW c \in Configs PROVE c.rate \in Nat /\ c.rate <= 1000
    <3>1. PICK r : r = c.rate
      OBVIOUS
    <3>2. c.rate \in 0 .. 1000
      BY ConfigFacts
    <3>3. r \in 0 .. 1000
      BY <3>1, <3>2, Zenon
    <3>4. r \in Nat /\ r <= 1000
      BY <3>3
    <3> QED BY <3>1, <3>4, Zenon
  <2> QED BY <2>1
<1>3. Rate = engine.config.rate \/ Rate = config.rate
  BY Zenon DEF Rate
<1> QED BY <1>1, <1>2, <1>3

LEMMA CostFacts ==
  ASSUME BooksTypeOK, NEW n \in Nat, NEW p \in Nat
  PROVE  /\ Cost(n, p) \in Nat
         /\ Cost(n, p) <= Worth(n, p)
         /\ ~Dear(Rate) => Worth(n, p) + Cost(n, p) <= n * Reserve * p
<1> DEFINE r == Rate
           a == n * p
<1>1. r \in Nat /\ r <= 1000 /\ a \in Nat
  BY RateFacts, ProductIsNat
<1>2. Cost(n, p) = a * r
  BY DEF Cost
<1>3. Worth(n, p) = a * 1000 /\ n * Reserve * p = a * 1010
  BY DEF Reserve, Worth
<1>4. Rate = r
  OBVIOUS
<1> HIDE DEF r, a
<1>5. a * r \in Nat /\ a * r <= a * 1000
  BY <1>1, ProductIsNat, ProductsOrdered
<1>6. r < 10 => a * r <= a * 10
  BY <1>1, ProductsOrdered
<1>7. ~Dear(r) => r < 10
  BY <1>1 DEF Dear, Reserve
<1> QED BY <1>1, <1>2, <1>3, <1>4, <1>5, <1>6, <1>7

LEMMA PriceOfOrder ==
  ASSUME NEW o
  PROVE  TotalCost(o) = Worth(o.quantity, FillPrice(o)) + Cost(o.quantity, FillPrice(o))
BY DEF TotalCost, Worth

\* The order at the head of the list: o, for n shares of s at price p.
NextFill(o, s, n, p) ==
  /\ phase = "orders" /\ orders # <<>>
  /\ o = Head(orders) /\ o \in Order
  /\ s = o.symbol /\ s \in DOMAIN bars /\ p = bars[s]
  /\ n = o.quantity
  /\ Tail(orders) \in Seq(Order)

LEMMA NextOrder ==
  ASSUME BooksTypeOK, OrdersFit, phase = "orders", orders # <<>>
  PROVE  \E o \in Order, s \in Symbols, n \in Nat \ {0}, p \in Nat :
           /\ NextFill(o, s, n, p)
           /\ holdings[s] \in [quantity : Nat, average_cost : Nat]
           /\ o.side = "BUY" => holdings[s].quantity = 0 \/ holdings[s].average_cost = p
<1>1. orders \in Seq(Order) /\ bars \in PriceTables
  BY DEF BooksTypeOK, Holdings
<1>2. PICK o \in Order : o = Head(orders) /\ o = orders[1] /\ 1 \in 1 .. Len(orders)
  BY <1>1
<1>3. o.symbol \in DOMAIN bars
  BY <1>2 DEF OrdersFit, Fits
<1>4. bars[o.symbol] \in Nat
  BY <1>1, <1>3, PriceOfDate
<1>5. o.symbol \in Symbols /\ o.quantity \in Nat \ {0}
  BY DEF Order
<1>6. holdings[o.symbol] \in [quantity : Nat, average_cost : Nat]
  BY <1>5 DEF BooksTypeOK, Holdings
<1>7. o.side = "BUY" => \/ holdings[o.symbol].quantity = 0
                        \/ holdings[o.symbol].average_cost = bars[o.symbol]
  BY <1>2 DEF OrdersFit, Fits
<1>8. Tail(orders) \in Seq(Order)
  BY <1>1
<1>9. NextFill(o, o.symbol, o.quantity, bars[o.symbol])
  BY <1>2, <1>3, <1>8 DEF NextFill
<1> QED BY <1>4, <1>5, <1>6, <1>7, <1>9

\* What Buy does with it: v is the value of the shares, c what trading them
\* costs, q shares at a each were there before.
BuyFills(o, s, n, p, v, c, q, a) ==
  /\ NextFill(o, s, n, p) /\ o.side = "BUY"
  /\ v = Worth(n, p) /\ c = Cost(n, p) /\ v + c <= cash
  /\ cash' = cash - (v + c)
  /\ costs' = costs + c
  /\ q = holdings[s].quantity /\ a = holdings[s].average_cost
  /\ q = 0 \/ a = p
  /\ holdings' \in Holdings
  /\ \A x \in Symbols \ {s} : holdings'[x] = holdings[x]
  /\ holdings'[s].quantity = q + n /\ holdings'[s].average_cost = p
  /\ orders' = Tail(orders)

LEMMA BuyEffect ==
  ASSUME BooksTypeOK, OrdersFit, Buy
  PROVE  \E o \in Order, s \in Symbols, n \in Nat \ {0}, p, v, c, q, a \in Nat :
           BuyFills(o, s, n, p, v, c, q, a)
<1>1. phase = "orders" /\ orders # <<>> /\ orders' = Tail(orders)
  BY DEF Buy
<1>2. PICK o \in Order, s \in Symbols, n \in Nat \ {0}, p \in Nat :
        /\ NextFill(o, s, n, p)
        /\ holdings[s] \in [quantity : Nat, average_cost : Nat]
        /\ o.side = "BUY" => holdings[s].quantity = 0 \/ holdings[s].average_cost = p
  BY <1>1, NextOrder
<1>3. PICK q \in Nat, a \in Nat : q = holdings[s].quantity /\ a = holdings[s].average_cost
  BY <1>2
<1>4. PICK v \in Nat, c \in Nat : v = Worth(n, p) /\ c = Cost(n, p)
  BY CostFacts, WorthIsNat
<1>5. o = Head(orders) /\ s = o.symbol /\ n = o.quantity /\ p = bars[s]
  BY <1>2 DEF NextFill
<1>6. FillPrice(o) = p /\ TotalCost(o) = v + c
  <2>1. FillPrice(o) = p
    BY <1>5 DEF FillPrice
  <2>2. TotalCost(o) = Worth(n, p) + Cost(n, p)
    BY <1>5, <2>1, PriceOfOrder, Zenon
  <2> QED BY <1>4, <2>1, <2>2, Zenon
<1>7. /\ o.side = "BUY" /\ ~(v + c > cash)
      /\ cash' = cash - (v + c)
      /\ costs' = costs + c
  BY <1>4, <1>5, <1>6, Zenon DEF Buy, NotEnoughCash
<1>8. holdings' = [holdings EXCEPT ![s] =
                     [quantity |-> q + n, average_cost |-> (a * q + p * n) \div (q + n)]]
  BY <1>3, <1>5, <1>6, Zenon DEF Buy
<1>9. cash \in Nat
  BY DEF BooksTypeOK
<1>10. q = 0 \/ a = p
  BY <1>2, <1>3, <1>7
<1>11. (a * q + p * n) \div (q + n) = p
  <2> DEFINE total == q + n
  <2>1. total \in Nat \ {0} /\ a * q + p * n = p * total
    BY <1>10
  <2> HIDE DEF total
  <2>2. (p * total) \div total = p
    BY <2>1, AverageOfEqual
  <2> QED BY <2>1, <2>2 DEF total
<1>12. /\ holdings' \in Holdings
       /\ \A x \in Symbols \ {s} : holdings'[x] = holdings[x]
       /\ holdings'[s].quantity = q + n
       /\ holdings'[s].average_cost = p
  <2> DEFINE r == [quantity |-> q + n, average_cost |-> p]
  <2>1. r \in [quantity : Nat, average_cost : Nat] /\ r.quantity = q + n /\ r.average_cost = p
    OBVIOUS
  <2>2. holdings' = [holdings EXCEPT ![s] = r] /\ holdings \in Holdings
    BY <1>8, <1>11 DEF BooksTypeOK, Holdings
  <2> HIDE DEF r
  <2> QED BY <2>1, <2>2 DEF Holdings
<1>13. v + c <= cash
  BY <1>7, <1>9
<1>14. BuyFills(o, s, n, p, v, c, q, a)
  BY <1>1, <1>2, <1>3, <1>4, <1>7, <1>10, <1>12, <1>13, Zenon DEF BuyFills
<1> QED BY <1>14

\* What Sell does with it.
SellFills(o, s, n, p, v, c, q, a) ==
  /\ NextFill(o, s, n, p) /\ o.side = "SELL"
  /\ v = Worth(n, p) /\ c = Cost(n, p) /\ c <= v
  /\ cash' = cash + v - c
  /\ realized' = realized + (v - Worth(n, a) - c)
  /\ costs' = costs + c
  /\ trades' = Append(trades, [symbol |-> s, quantity |-> n, price |-> p])
  /\ q = holdings[s].quantity /\ a = holdings[s].average_cost /\ n <= q
  /\ holdings' \in Holdings
  /\ \A x \in Symbols \ {s} : holdings'[x] = holdings[x]
  /\ holdings'[s].quantity = q - n /\ holdings'[s].average_cost = a
  /\ orders' = Tail(orders)

LEMMA SellEffect ==
  ASSUME BooksTypeOK, OrdersFit, Sell
  PROVE  \E o \in Order, s \in Symbols, n \in Nat \ {0}, p, v, c, q, a \in Nat :
           SellFills(o, s, n, p, v, c, q, a)
<1>1. phase = "orders" /\ orders # <<>> /\ orders' = Tail(orders)
  BY DEF Sell
<1>2. PICK o \in Order, s \in Symbols, n \in Nat \ {0}, p \in Nat :
        /\ NextFill(o, s, n, p)
        /\ holdings[s] \in [quantity : Nat, average_cost : Nat]
  BY <1>1, NextOrder
<1>3. PICK q \in Nat, a \in Nat : q = holdings[s].quantity /\ a = holdings[s].average_cost
  BY <1>2
<1>4. PICK v \in Nat, c \in Nat : v = Worth(n, p) /\ c = Cost(n, p) /\ c <= v
  BY CostFacts, WorthIsNat
<1>5. o = Head(orders) /\ s = o.symbol /\ n = o.quantity /\ p = bars[s]
  BY <1>2 DEF NextFill
<1>6. FillPrice(o) = p
  BY <1>5 DEF FillPrice
<1>7. /\ o.side = "SELL" /\ holdings[s].quantity >= n
      /\ cash' = cash + v - c
  <2>1. o.side = "SELL" /\ holdings[o.symbol].quantity >= o.quantity
    BY <1>5 DEF Sell
  <2>2. cash' = cash + 1000 * o.quantity * FillPrice(o) - Cost(o.quantity, FillPrice(o))
    BY <1>5 DEF Sell
  <2>3. 1000 * o.quantity * FillPrice(o) = Worth(o.quantity, FillPrice(o))
    BY DEF Worth
  <2>4. PICK x : x = 1000 * o.quantity * FillPrice(o)
    OBVIOUS
  <2>5. cash' = cash + x - Cost(n, p)
    BY <1>5, <1>6, <2>2, <2>4
  <2>6. x = Worth(n, p)
    BY <1>5, <1>6, <2>3, <2>4
  <2>7. cash' = cash + v - c
    BY <1>4, <2>5, <2>6
  <2> QED BY <1>5, <2>1, <2>7
<1>8. /\ realized' = realized + Profit(holdings[s], n, p)
      /\ costs' = costs + Cost(n, p)
  BY <1>5, <1>6 DEF Sell
<1>9. trades' = Append(trades, [symbol |-> s, quantity |-> n, price |-> p])
  BY <1>5, <1>6 DEF Sell
<1>10. holdings' = [holdings EXCEPT ![s] = [holdings[s] EXCEPT !.quantity = q - n]]
  BY <1>3, <1>5 DEF Sell
<1>11. n <= q
  BY <1>3, <1>7
<1>12. Profit(holdings[s], n, p) = v - Worth(n, a) - c
  <2>1. PICK g : g = 1000 * (p - a) * n
    OBVIOUS
  <2>2. Profit(holdings[s], n, p) = g - Cost(n, p)
    BY <1>3, <2>1 DEF Profit
  <2>3. g = Worth(n, p) - Worth(n, a)
    BY <2>1, DifferenceInWorth
  <2> QED BY <1>4, <2>2, <2>3
<1>13. /\ holdings' \in Holdings
       /\ \A x \in Symbols \ {s} : holdings'[x] = holdings[x]
       /\ holdings'[s].quantity = q - n
       /\ holdings'[s].average_cost = a
  <2> DEFINE r == [holdings[s] EXCEPT !.quantity = q - n]
  <2>1. r \in [quantity : Nat, average_cost : Nat] /\ r.quantity = q - n /\ r.average_cost = a
    BY <1>2, <1>3, <1>11
  <2>2. holdings' = [holdings EXCEPT ![s] = r] /\ holdings \in Holdings
    BY <1>10 DEF BooksTypeOK
  <2> HIDE DEF r
  <2> QED BY <2>1, <2>2 DEF Holdings
<1>14. /\ cash' = cash + v - c /\ costs' = costs + c
       /\ realized' = realized + (v - Worth(n, a) - c)
  BY <1>4, <1>7, <1>8, <1>12, Zenon
<1>15. SellFills(o, s, n, p, v, c, q, a)
  BY <1>1, <1>2, <1>3, <1>4, <1>7, <1>9, <1>11, <1>13, <1>14, Zenon DEF SellFills
<1> QED BY <1>15

------------------------------------------------------------------------------
(* The invariant.                                                          *)

LEMMA InitIsTyped == BacktestInit => BooksTypeOK
<1> SUFFICES ASSUME BacktestInit PROVE BooksTypeOK
  OBVIOUS
<1>1. engine.config \in Configs /\ engine \in [own : BOOLEAN, config : Configs]
  BY DEF BacktestInit
<1>2. cash \in Nat
  <2>1. engine.config.capital \in Nat
    BY <1>1, ConfigFacts
  <2> QED BY <2>1 DEF BacktestInit
<1>3. holdings \in Holdings
  BY DEF BacktestInit, NoHoldings, Holdings
<1>4. bars \in PriceTables
  <2>1. bars \in [{} -> Nat]
    BY DEF BacktestInit
  <2> QED BY <2>1 DEF PriceTables
<1>5. opening \in [worth : Int, realized : Int]
  BY <1>2 DEF BacktestInit
<1>6. orders \in Seq(Order) /\ trades \in Seq(Trade)
  BY DEF BacktestInit
<1> QED BY <1>1, <1>2, <1>3, <1>4, <1>5, <1>6 DEF BacktestInit, BooksTypeOK, Holdings

\* Every step keeps the types: the cash stays a natural number because a
\* purchase is checked against it and no sale costs more than it brings.
LEMMA TypesKept ==
  ASSUME BooksTypeOK, OrdersFit, [BacktestNext]_backtestVars
  PROVE  BooksTypeOK'
<1>0. /\ cash \in Nat /\ costs \in Nat /\ realized \in Int /\ bars \in PriceTables
      /\ holdings \in Holdings /\ trades \in Seq(Trade)
  BY DEF BooksTypeOK
<1>1. CASE UNCHANGED backtestVars
  BY <1>1 DEF backtestVars, portfolio, BooksTypeOK
<1>2. ASSUME NEW definition \in Configs, StartRun(definition)
      PROVE  BooksTypeOK'
  <2>0. \/ UNCHANGED portfolio
        \/ /\ cash' = 1000 * definition.capital
           /\ holdings' = NoHoldings
           /\ bars' = <<>>
           /\ realized' = 0
    BY <1>2, Zenon DEF StartRun
  <2>1. cash' \in Nat
    <3>1. definition.capital \in Nat
      BY ConfigFacts
    <3> QED BY <1>0, <2>0, <3>1 DEF portfolio
  <2>2. holdings' \in Holdings
    <3>1. NoHoldings \in Holdings
      BY DEF NoHoldings, Holdings
    <3> QED BY <1>0, <2>0, <3>1 DEF portfolio
  <2>3. bars' \in PriceTables
    <3>1. <<>> \in [{} -> Nat]
      OBVIOUS
    <3>2. <<>> \in PriceTables
      BY <3>1 DEF PriceTables
    <3> QED BY <1>0, <2>0, <3>2 DEF portfolio
  <2>4. realized' \in Int
    BY <1>0, <2>0 DEF portfolio
  <2>5. opening' \in [worth : Int, realized : Int]
    <3>1. BookValue(holdings') \in Int
      BY <2>2, BookIsInt
    <3>2. opening' = [worth |-> cash' + BookValue(holdings'), realized |-> realized']
      BY <1>2 DEF StartRun
    <3> QED BY <2>1, <2>4, <3>1, <3>2
  <2>6. /\ phase' = "date" /\ outcome' = "none" /\ costs' = 0
        /\ orders' \in Seq(Order) /\ trades' \in Seq(Trade)
        /\ config' \in Configs /\ engine' = engine
    BY <1>2 DEF StartRun
  <2> QED BY <2>1, <2>2, <2>3, <2>4, <2>5, <2>6 DEF BooksTypeOK
<1>3. ASSUME NEW prices \in DateBars, StrategyRaises(prices)
      PROVE  BooksTypeOK'
  <2>1. prices \in PriceTables
    BY BarsArePrices DEF BooksTypeOK
  <2> QED BY <1>3, <2>1 DEF StrategyRaises, BooksTypeOK
<1>4. ASSUME NEW prices \in DateBars, NEW signal \in Signals, ReplayDate(prices, signal)
      PROVE  BooksTypeOK'
  <2>1. prices \in PriceTables
    BY BarsArePrices DEF BooksTypeOK
  <2>2. orders' \in Seq(Order)
    BY <1>4, <2>1, BuyOrdersAreFine, SellOrdersAreFine DEF ReplayDate
  <2> QED BY <1>4, <2>1, <2>2 DEF ReplayDate, BooksTypeOK
<1>5. CASE BuyAborts
  <2>1. /\ UNCHANGED <<engine, config, cash, holdings, bars, realized, costs, trades, opening>>
        /\ phase' = "idle" /\ outcome' = "no cash" /\ orders' = <<>>
    BY <1>5 DEF BuyAborts, portfolio
  <2>2. /\ engine' \in [own : BOOLEAN, config : Configs] /\ config' \in Configs
        /\ opening' \in [worth : Int, realized : Int]
    BY <2>1 DEF BooksTypeOK
  <2>3. /\ cash' \in Nat /\ costs' \in Nat /\ realized' \in Int /\ bars' \in PriceTables
        /\ holdings' \in Holdings /\ trades' \in Seq(Trade)
    BY <1>0, <2>1
  <2>4. orders' \in Seq(Order)
    <3>1. <<>> \in Seq(Order)
      OBVIOUS
    <3> QED BY <2>1, <3>1, Zenon
  <2> QED BY <2>1, <2>2, <2>3, <2>4 DEF BooksTypeOK
<1>6. CASE Buy
  <2>1. PICK o \in Order, s \in Symbols, n \in Nat \ {0}, p, v, c, q, a \in Nat :
          BuyFills(o, s, n, p, v, c, q, a)
    BY <1>6, BuyEffect
  <2>2. v + c <= cash /\ cash' = cash - (v + c) /\ costs' = costs + c
    BY <2>1 DEF BuyFills
  <2>3. cash' \in Nat /\ costs' \in Nat
    BY <1>0, <2>2
  <2>4. holdings' \in Holdings /\ orders' \in Seq(Order)
    BY <2>1 DEF BuyFills, NextFill
  <2> QED BY <1>6, <2>3, <2>4 DEF Buy, BooksTypeOK
<1>7. CASE Sell
  <2>1. PICK o \in Order, s \in Symbols, n \in Nat \ {0}, p, v, c, q, a \in Nat :
          SellFills(o, s, n, p, v, c, q, a)
    BY <1>7, SellEffect
  <2>2. c <= v /\ cash' = cash + v - c /\ costs' = costs + c
    BY <2>1 DEF SellFills
  <2>3. cash' \in Nat /\ costs' \in Nat
    BY <1>0, <2>2
  <2>4. holdings' \in Holdings /\ orders' \in Seq(Order)
    BY <2>1 DEF SellFills, NextFill
  <2>5. realized' \in Int
    <3>1. v - Worth(n, a) - c \in Int
      BY WorthIsNat
    <3>2. realized' = realized + (v - Worth(n, a) - c)
      BY <2>1 DEF SellFills
    <3> QED BY <1>0, <3>1, <3>2
  <2>6. trades' \in Seq(Trade)
    <3>1. [symbol |-> s, quantity |-> n, price |-> p] \in Trade
      BY DEF Trade
    <3> QED BY <1>0, <2>1, <3>1 DEF SellFills
  <2> QED BY <1>7, <2>3, <2>4, <2>5, <2>6 DEF Sell, BooksTypeOK
<1>8. CASE DateEnds
  BY <1>8 DEF DateEnds, portfolio, BooksTypeOK
<1>9. CASE RunEnds
  BY <1>9 DEF RunEnds, portfolio, BooksTypeOK
<1> QED BY <1>1, <1>2, <1>3, <1>4, <1>5, <1>6, <1>7, <1>8, <1>9 DEF BacktestNext

\* A step that executes no order and starts no date leaves no list to execute.
LEMMA OtherSteps ==
  ASSUME [BacktestNext]_backtestVars
  PROVE  \/ UNCHANGED <<engine, config, phase, cash, holdings, bars, realized, orders,
                        costs, trades, outcome, opening>>
         \/ \E definition \in Configs : StartRun(definition)
         \/ \E prices \in DateBars, signal \in Signals : ReplayDate(prices, signal)
         \/ Buy \/ Sell
         \/ /\ BuyAborts
            /\ UNCHANGED <<engine, config, cash, holdings, bars, realized, costs, trades, opening>>
            /\ phase' = "idle"
         \/ /\ UNCHANGED <<engine, config, cash, holdings, realized, costs, trades, opening>>
            /\ phase' \in {"idle", "date"} /\ outcome' \in {outcome, "error", "result"}
            /\ phase = "orders" => bars' = bars
<1>1. ASSUME NEW prices \in DateBars, StrategyRaises(prices)
      PROVE  /\ UNCHANGED <<engine, config, cash, holdings, realized, costs, trades, opening>>
             /\ phase' \in {"idle", "date"} /\ outcome' \in {outcome, "error", "result"}
             /\ phase # "orders"
  BY <1>1 DEF StrategyRaises
<1>2. ASSUME DateEnds \/ RunEnds
      PROVE  /\ UNCHANGED <<engine, config, cash, holdings, realized, costs, trades, opening>>
             /\ phase' \in {"idle", "date"} /\ outcome' \in {outcome, "error", "result"}
             /\ bars' = bars
  BY <1>2 DEF DateEnds, RunEnds, portfolio
<1>3. BuyAborts =>
        /\ UNCHANGED <<engine, config, cash, holdings, bars, realized, costs, trades, opening>>
        /\ phase' = "idle"
  BY DEF BuyAborts, portfolio
<1>4. UNCHANGED backtestVars =>
        UNCHANGED <<engine, config, phase, cash, holdings, bars, realized, orders,
                    costs, trades, outcome, opening>>
  BY DEF backtestVars, portfolio
<1> QED BY <1>1, <1>2, <1>3, <1>4 DEF BacktestNext

\* Orders still fit the prices and the holdings after the one before them.
LEMMA FitKept ==
  ASSUME BooksTypeOK, OrdersFit, [BacktestNext]_backtestVars, holdings' \in Holdings
  PROVE  OrdersFit'
<1>1. CASE UNCHANGED <<phase, orders, bars, holdings>>
  BY <1>1 DEF OrdersFit
<1>2. CASE phase' # "orders"
  BY <1>2 DEF OrdersFit
<1>3. ASSUME NEW prices \in DateBars, NEW signal \in Signals, ReplayDate(prices, signal)
      PROVE  OrdersFit'
  <2>1. prices \in PriceTables
    BY BarsArePrices DEF BooksTypeOK
  <2>2. bars' = prices /\ holdings' = holdings
        /\ orders' \in {BuyOrders(prices), SellOrders(prices), <<>>}
    BY <1>3 DEF ReplayDate
  <2>3. \A i \in 1 .. Len(BuyOrders(prices)) : Fits(BuyOrders(prices)[i], prices, holdings)
    BY <2>1, BuyOrdersAreFine DEF Fits
  <2>4. \A i \in 1 .. Len(SellOrders(prices)) : Fits(SellOrders(prices)[i], prices, holdings)
    BY <2>1, SellOrdersAreFine DEF Fits
  <2>5. 1 .. Len(<<>>) = {}
    OBVIOUS
  <2> QED BY <2>2, <2>3, <2>4, <2>5 DEF OrdersFit
<1>4. ASSUME NEW s \in Symbols, phase = "orders", orders # <<>>,
             UNCHANGED <<phase, bars>>, orders' = Tail(orders),
             \A x \in Symbols \ {s} : holdings'[x] = holdings[x],
             \/ holdings'[s].average_cost = bars[s]
             \/ /\ holdings'[s].average_cost = holdings[s].average_cost
                /\ holdings[s].quantity # 0
      PROVE  OrdersFit'
  <2>1. orders \in Seq(Order)
    BY DEF BooksTypeOK
  <2>2. ASSUME NEW i \in 1 .. Len(Tail(orders))
        PROVE  Fits(Tail(orders)[i], bars, holdings')
    <3>1. /\ i + 1 \in 1 .. Len(orders) /\ orders[i + 1] \in Order
          /\ Tail(orders)[i] = orders[i + 1]
      BY <1>4, <2>1
    <3>2. PICK o \in Order : o = orders[i + 1]
      BY <3>1
    <3>3. Fits(o, bars, holdings) /\ o.symbol \in Symbols
      BY <1>4, <3>1, <3>2 DEF OrdersFit, Order
    <3>4. Fits(o, bars, holdings')
      BY <1>4, <3>3 DEF Fits
    <3> QED BY <3>1, <3>2, <3>4
  <2>3. \A i \in 1 .. Len(orders') : Fits(orders'[i], bars', holdings')
    BY <1>4, <2>2
  <2> QED BY <2>3 DEF OrdersFit
<1>5. CASE Buy
  <2>1. PICK o \in Order, s \in Symbols, n \in Nat \ {0}, p, v, c, q, a \in Nat :
          BuyFills(o, s, n, p, v, c, q, a)
    BY <1>5, BuyEffect
  <2>2. UNCHANGED <<phase, bars>>
    BY <1>5 DEF Buy
  <2>3. /\ phase = "orders" /\ orders # <<>> /\ orders' = Tail(orders)
        /\ \A x \in Symbols \ {s} : holdings'[x] = holdings[x]
        /\ holdings'[s].average_cost = bars[s]
    BY <2>1 DEF BuyFills, NextFill
  <2> QED BY <1>4, <2>2, <2>3
<1>6. CASE Sell
  <2>1. PICK o \in Order, s \in Symbols, n \in Nat \ {0}, p, v, c, q, a \in Nat :
          SellFills(o, s, n, p, v, c, q, a)
    BY <1>6, SellEffect
  <2>2. UNCHANGED <<phase, bars>>
    BY <1>6 DEF Sell
  <2>3. /\ phase = "orders" /\ orders # <<>> /\ orders' = Tail(orders)
        /\ \A x \in Symbols \ {s} : holdings'[x] = holdings[x]
        /\ holdings'[s].average_cost = holdings[s].average_cost
        /\ n <= holdings[s].quantity
    BY <2>1 DEF SellFills, NextFill
  <2>4. holdings[s].quantity \in Nat
    BY DEF BooksTypeOK, Holdings
  <2>5. holdings[s].quantity # 0
    BY <2>3, <2>4
  <2> QED BY <1>4, <2>2, <2>3, <2>5
<1>7. ASSUME NEW definition \in Configs, StartRun(definition) PROVE OrdersFit'
  BY <1>2, <1>7 DEF StartRun
<1> QED BY <1>1, <1>2, <1>3, <1>5, <1>6, <1>7, OtherSteps

LEMMA RateStays == ASSUME UNCHANGED <<engine, config>> PROVE Rate' = Rate
BY DEF Rate

\* The cash covers what is left of the list, at rates below what is set aside.
LEMMA CoveredKept ==
  ASSUME BooksTypeOK, OrdersFit, OrdersCovered, [BacktestNext]_backtestVars
  PROVE  OrdersCovered'
<1>0. cash \in Nat /\ orders \in Seq(Order) /\ bars \in PriceTables
  BY DEF BooksTypeOK
<1>1. CASE UNCHANGED <<engine, config, phase, orders, bars, cash>>
  BY <1>1, RateStays DEF OrdersCovered
<1>2. CASE phase' # "orders"
  BY <1>2 DEF OrdersCovered
<1>3. ASSUME NEW prices \in DateBars, NEW signal \in Signals, ReplayDate(prices, signal)
      PROVE  OrdersCovered'
  <2>1. prices \in PriceTables
    BY BarsArePrices DEF BooksTypeOK
  <2>2. bars' = prices /\ cash' = cash
        /\ orders' \in {BuyOrders(prices), SellOrders(prices), <<>>}
    BY <1>3 DEF ReplayDate
  <2>3. Outlay(BuyOrders(prices), prices) <= cash
    BY <2>1, BuyOrdersAreFine
  <2>4. Outlay(SellOrders(prices), prices) <= cash
    BY <1>0, <2>1, SellOrdersAreFine
  <2>5. Outlay(<<>>, prices) <= cash
    <3>1. 1 .. Len(<<>>) = {}
      OBVIOUS
    <3>2. Outlay(<<>>, prices) = 0
      BY <3>1, SumOfNothing DEF Outlay
    <3> QED BY <1>0, <3>2
  <2>6. Outlay(orders', prices) <= cash
    BY <2>2, <2>3, <2>4, <2>5
  <2>7. Outlay(orders', bars') <= cash'
    BY <2>2, <2>6
  <2> QED BY <2>7 DEF OrdersCovered
<1>4. ASSUME phase = "orders", orders # <<>>
      PROVE  /\ Outlay(orders, bars) = SetAside(Head(orders), bars) + Outlay(Tail(orders), bars)
             /\ Outlay(Tail(orders), bars) \in Nat
             /\ SetAside(Head(orders), bars) \in Nat
  <2>1. \A i \in 1 .. Len(orders) : orders[i].symbol \in DOMAIN bars
    BY <1>4 DEF OrdersFit, Fits
  <2> QED BY <1>0, <1>4, <2>1, OutlayOfTail
<1>5. CASE Buy
  <2>1. PICK o \in Order, s \in Symbols, n \in Nat \ {0}, p, v, c, q, a \in Nat :
          BuyFills(o, s, n, p, v, c, q, a)
    BY <1>5, BuyEffect
  <2>2. UNCHANGED <<engine, config, bars>>
    BY <1>5 DEF Buy
  <2>3. phase = "orders" /\ orders # <<>> /\ orders' = Tail(orders)
    BY <2>1 DEF BuyFills, NextFill
  <2>4. SetAside(Head(orders), bars) = n * Reserve * p
    BY <2>1 DEF BuyFills, NextFill, SetAside
  <2>5. v = Worth(n, p) /\ c = Cost(n, p) /\ cash' = cash - (v + c)
    BY <2>1 DEF BuyFills
  <2>6. ~Dear(Rate) => v + c <= SetAside(Head(orders), bars)
    <3>1. ~Dear(Rate) => Worth(n, p) + Cost(n, p) <= n * Reserve * p
      BY CostFacts
    <3> QED BY <2>4, <2>5, <3>1, Zenon
  <2>7. ~Dear(Rate) => Outlay(Tail(orders), bars) <= cash'
    <3> SUFFICES ASSUME ~Dear(Rate) PROVE Outlay(Tail(orders), bars) <= cash'
      OBVIOUS
    <3>1. v + c <= SetAside(Head(orders), bars)
      BY <2>6
    <3>2. Outlay(orders, bars) <= cash
      BY <2>3 DEF OrdersCovered
    <3>3. PICK x \in Nat, y \in Nat : x = SetAside(Head(orders), bars) /\ y = Outlay(Tail(orders), bars)
      BY <1>4, <2>3
    <3>4. x + y <= cash /\ v + c <= x
      BY <1>4, <2>3, <3>1, <3>2, <3>3, Zenon
    <3>5. y <= cash'
      BY <1>0, <2>5, <3>4
    <3> QED BY <3>3, <3>5, Zenon
  <2>8. Rate' = Rate
    BY <2>2, RateStays
  <2> QED BY <2>2, <2>3, <2>7, <2>8 DEF OrdersCovered
<1>6. CASE Sell
  <2>1. PICK o \in Order, s \in Symbols, n \in Nat \ {0}, p, v, c, q, a \in Nat :
          SellFills(o, s, n, p, v, c, q, a)
    BY <1>6, SellEffect
  <2>2. UNCHANGED <<engine, config, bars>>
    BY <1>6 DEF Sell
  <2>3. phase = "orders" /\ orders # <<>> /\ orders' = Tail(orders)
    BY <2>1 DEF SellFills, NextFill
  <2>4. c <= v /\ cash' = cash + v - c
    BY <2>1 DEF SellFills
  <2>5. ~Dear(Rate) => Outlay(Tail(orders), bars) <= cash'
    BY <1>0, <1>4, <2>3, <2>4 DEF OrdersCovered
  <2>6. Rate' = Rate
    BY <2>2, RateStays
  <2> QED BY <2>2, <2>3, <2>5, <2>6 DEF OrdersCovered
<1>7. ASSUME NEW definition \in Configs, StartRun(definition) PROVE OrdersCovered'
  BY <1>2, <1>7 DEF StartRun
<1> QED BY <1>1, <1>2, <1>3, <1>5, <1>6, <1>7, OtherSteps

LEMMA AbortMeansDear ==
  /\ BuySignalsNeverAbort <=> (outcome = "no cash" => Dear(Rate))
  /\ BuySignalsNeverAbort' <=> (outcome' = "no cash" => Dear(Rate'))
BY DEF BuySignalsNeverAbort, Dear

\* Hence no purchase of a BUY signal is refused at such rates.
LEMMA AbortsExplained ==
  ASSUME BooksTypeOK, OrdersFit, OrdersCovered, BuySignalsNeverAbort,
         [BacktestNext]_backtestVars
  PROVE  BuySignalsNeverAbort'
<1>1. CASE UNCHANGED <<engine, config>> /\ outcome' \in {outcome, "error", "result"}
  <2>1. Rate' = Rate
    BY <1>1, RateStays
  <2>2. outcome' = "no cash" => outcome = "no cash"
    BY <1>1
  <2> QED BY <2>1, <2>2, AbortMeansDear
<1>2. ASSUME NEW definition \in Configs, StartRun(definition) PROVE BuySignalsNeverAbort'
  BY <1>2 DEF StartRun, BuySignalsNeverAbort
<1>3. ASSUME NEW prices, NEW signal, ReplayDate(prices, signal) PROVE BuySignalsNeverAbort'
  BY <1>1, <1>3 DEF ReplayDate
<1>4. CASE Buy \/ Sell
  BY <1>1, <1>4 DEF Buy, Sell
<1>5. CASE BuyAborts
  <2>1. phase = "orders" /\ orders # <<>>
    BY <1>5 DEF BuyAborts
  <2>2. PICK o \in Order, s \in Symbols, n \in Nat \ {0}, p \in Nat : NextFill(o, s, n, p)
    BY <2>1, NextOrder
  <2>3. o = Head(orders) /\ s = o.symbol /\ n = o.quantity /\ p = bars[s]
    BY <2>2 DEF NextFill
  <2>4. o.side = "BUY" /\ Worth(n, p) + Cost(n, p) > cash
    <3>1. FillPrice(o) = p
      BY <2>3 DEF FillPrice
    <3>2. TotalCost(o) = Worth(n, p) + Cost(n, p)
      BY <2>3, <3>1, PriceOfOrder, Zenon
    <3>3. o.side = "BUY" /\ TotalCost(o) > cash
      BY <1>5, <2>3 DEF BuyAborts, NotEnoughCash
    <3> QED BY <3>2, <3>3, Zenon
  <2>5. SetAside(o, bars) = n * Reserve * p
    BY <2>3, <2>4 DEF SetAside
  <2>6. PICK price \in Nat : price = Worth(n, p) + Cost(n, p)
    <3>1. Worth(n, p) \in Nat /\ Cost(n, p) \in Nat
      BY CostFacts, WorthIsNat
    <3> QED BY <3>1
  <2>7. ~Dear(Rate) => price <= SetAside(o, bars)
    BY <2>5, <2>6, CostFacts
  <2>8. /\ Outlay(orders, bars) = SetAside(o, bars) + Outlay(Tail(orders), bars)
        /\ Outlay(Tail(orders), bars) \in Nat
        /\ SetAside(o, bars) \in Nat
    <3>1. \A i \in 1 .. Len(orders) : orders[i].symbol \in DOMAIN bars
      BY <2>1 DEF OrdersFit, Fits
    <3>2. orders \in Seq(Order) /\ bars \in PriceTables
      BY DEF BooksTypeOK
    <3> QED BY <2>1, <2>3, <3>1, <3>2, OutlayOfTail
  <2>9. cash \in Nat /\ price > cash
    BY <2>4, <2>6 DEF BooksTypeOK
  <2>10. Dear(Rate)
    BY <2>1, <2>7, <2>8, <2>9, RateFacts DEF OrdersCovered
  <2>11. Rate' = Rate
    BY <1>5, RateStays DEF BuyAborts
  <2> QED BY <2>10, <2>11, AbortMeansDear
<1> QED BY <1>1, <1>2, <1>3, <1>4, <1>5, OtherSteps

------------------------------------------------------------------------------
(* The two sets of books.                                                  *)

\* The costs of a list of trades at a rate, and the books in terms of it.
CostsOfSales(ts, rate) ==
  SumFunctionOnSet([i \in 1 .. Len(ts) |-> ts[i].quantity * ts[i].price * rate], 1 .. Len(ts))
Agreed(c, h, r, k, ts, rate, op) ==
  c + BookValue(h) - op.worth = (r - op.realized) - (k - CostsOfSales(ts, rate))

LEMMA CostsOfNone == ASSUME NEW rate PROVE CostsOfSales(<<>>, rate) = 0
<1>1. 1 .. Len(<<>>) = {}
  OBVIOUS
<1> QED BY <1>1, SumOfNothing DEF CostsOfSales

LEMMA CostsOfAppend ==
  ASSUME NEW ts \in Seq(Trade), NEW t \in Trade, NEW rate \in Nat
  PROVE  /\ CostsOfSales(Append(ts, t), rate)
              = CostsOfSales(ts, rate) + t.quantity * t.price * rate
         /\ CostsOfSales(ts, rate) \in Int
<1> DEFINE n == Len(ts)
           longer == Append(ts, t)
           v == [i \in 1 .. n |-> ts[i].quantity * ts[i].price * rate]
           w == [i \in 1 .. n + 1 |-> longer[i].quantity * longer[i].price * rate]
<1>1. /\ n \in Nat /\ Len(longer) = n + 1
      /\ \A i \in 1 .. n : longer[i] = ts[i]
      /\ \A i \in 1 .. n + 1 : longer[i] \in Trade
      /\ longer[n + 1] = t
  OBVIOUS
<1> HIDE DEF n, longer
<1>2. \A i \in 1 .. n : v[i] = w[i]
  BY <1>1
<1>3. \A i \in 1 .. n + 1 : w[i] \in Int
  <2>1. ASSUME NEW i \in 1 .. n + 1 PROVE w[i] \in Int
    <3>1. PICK q \in Nat, p \in Nat : q = longer[i].quantity /\ p = longer[i].price
      BY <1>1 DEF Trade
    <3>2. w[i] = q * p * rate
      BY <3>1
    <3>3. q * p * rate \in Int
      OBVIOUS
    <3> QED BY <3>2, <3>3, Zenon
  <2> QED BY <2>1
<1>4. w[n + 1] = t.quantity * t.price * rate
  BY <1>1
<1>5. /\ CostsOfSales(longer, rate) = SumFunctionOnSet(w, 1 .. n + 1)
      /\ CostsOfSales(ts, rate) = SumFunctionOnSet(v, 1 .. n)
  BY <1>1 DEF CostsOfSales, n
<1> HIDE DEF v, w
<1>6. /\ SumFunctionOnSet(w, 1 .. n + 1) = SumFunctionOnSet(v, 1 .. n) + w[n + 1]
      /\ SumFunctionOnSet(v, 1 .. n) \in Int
  BY <1>1, <1>2, <1>3, SumOfAppend
<1> QED BY <1>4, <1>5, <1>6, Zenon DEF longer

LEMMA BooksAreAgreed ==
  ASSUME trades \in Seq(Trade)
  PROVE  BooksAgree <=> Agreed(cash, holdings, realized, costs, trades, Rate, opening)
<1> DEFINE v == [i \in DOMAIN trades |-> Cost(trades[i].quantity, trades[i].price)]
<1>1. DOMAIN trades = 1 .. Len(trades)
  OBVIOUS
<1>2. v = [i \in 1 .. Len(trades) |-> trades[i].quantity * trades[i].price * Rate]
  BY <1>1 DEF Cost
<1>3. SumFunction(v) = CostsOfSales(trades, Rate)
  BY <1>2 DEF SumFunction, CostsOfSales
<1> QED BY <1>3 DEF BooksAgree, Agreed

LEMMA NextBooksAreAgreed ==
  ASSUME trades' \in Seq(Trade)
  PROVE  BooksAgree' <=> Agreed(cash', holdings', realized', costs', trades', Rate', opening')
<1> DEFINE v == [i \in DOMAIN trades' |-> trades'[i].quantity * trades'[i].price * Rate']
<1>1. DOMAIN trades' = 1 .. Len(trades')
  OBVIOUS
<1>2. v = [i \in 1 .. Len(trades') |-> trades'[i].quantity * trades'[i].price * Rate']
  BY <1>1
<1>3. SumFunction(v) = CostsOfSales(trades', Rate')
  BY <1>2 DEF SumFunction, CostsOfSales
<1> QED BY <1>3 DEF BooksAgree, Agreed, Cost

LEMMA BooksKept ==
  ASSUME BooksTypeOK, BooksTypeOK', OrdersFit, BooksAgree, [BacktestNext]_backtestVars
  PROVE  BooksAgree'
<1>0. /\ cash \in Nat /\ costs \in Nat /\ realized \in Int /\ holdings \in Holdings
      /\ trades \in Seq(Trade) /\ opening \in [worth : Int, realized : Int]
  BY DEF BooksTypeOK
<1>1. Agreed(cash, holdings, realized, costs, trades, Rate, opening)
  BY <1>0, BooksAreAgreed
<1>2. SUFFICES Agreed(cash', holdings', realized', costs', trades', Rate', opening')
  <2>1. trades' \in Seq(Trade)
    BY DEF BooksTypeOK
  <2> QED BY <2>1, NextBooksAreAgreed
<1>3. CASE UNCHANGED <<engine, config, cash, holdings, realized, costs, trades, opening>>
  BY <1>1, <1>3, RateStays
<1>4. ASSUME NEW definition \in Configs, StartRun(definition)
      PROVE  Agreed(cash', holdings', realized', costs', trades', Rate', opening')
  <2>1. cash' \in Int /\ realized' \in Int /\ BookValue(holdings') \in Int
    <3>1. cash' \in Nat /\ realized' \in Int /\ holdings' \in Holdings
      BY DEF BooksTypeOK
    <3> QED BY <3>1, BookIsInt
  <2>2. /\ trades' = <<>> /\ costs' = 0
        /\ opening' = [worth |-> cash' + BookValue(holdings'), realized |-> realized']
    BY <1>4 DEF StartRun
  <2>3. CostsOfSales(trades', Rate') = 0
    BY <2>2, CostsOfNone
  <2> QED BY <2>1, <2>2, <2>3 DEF Agreed
<1>5. ASSUME NEW prices, NEW signal, ReplayDate(prices, signal)
      PROVE  Agreed(cash', holdings', realized', costs', trades', Rate', opening')
  BY <1>3, <1>5 DEF ReplayDate
<1>6. Rate \in Nat
  BY RateFacts
<1>7. CASE Buy
  <2>1. PICK o \in Order, s \in Symbols, n \in Nat \ {0}, p, v, c, q, a \in Nat :
          BuyFills(o, s, n, p, v, c, q, a)
    BY <1>7, BuyEffect
  <2>2. UNCHANGED <<engine, config, realized, trades, opening>>
    BY <1>7 DEF Buy
  <2>3. /\ v = Worth(n, p) /\ (q = 0 \/ a = p)
        /\ cash' = cash - (v + c) /\ costs' = costs + c
        /\ q = holdings[s].quantity /\ a = holdings[s].average_cost
        /\ holdings' \in Holdings /\ \A x \in Symbols \ {s} : holdings'[x] = holdings[x]
        /\ holdings'[s].quantity = q + n /\ holdings'[s].average_cost = p
    BY <2>1 DEF BuyFills
  <2>4. /\ BookValue(holdings') = BookValue(holdings) - Worth(q, a) + Worth(q + n, p)
        /\ BookValue(holdings) \in Int
    <3>1. PICK g \in Holdings : g = holdings'
      BY <2>3, Zenon
    <3>2. /\ \A x \in Symbols \ {s} : g[x] = holdings[x]
          /\ q + n = g[s].quantity /\ p = g[s].average_cost
      BY <2>3, <3>1
    <3>3. /\ BookValue(g) = BookValue(holdings)
                - Worth(holdings[s].quantity, holdings[s].average_cost)
                + Worth(g[s].quantity, g[s].average_cost)
          /\ BookValue(holdings) \in Int
      BY <1>0, <3>2, BookAfterTrade
    <3> QED BY <2>3, <3>1, <3>2, <3>3
  <2>5. BookValue(holdings') = BookValue(holdings) + v
    <3>1. Worth(q + n, p) = Worth(q, p) + Worth(n, p)
      BY WorthOfSum
    <3>2. Worth(q, p) = Worth(q, a)
      BY <2>3, WorthOfNone
    <3>3. Worth(q, p) \in Nat
      BY WorthIsNat
    <3> QED BY <2>3, <2>4, <3>1, <3>2, <3>3
  <2>6. CostsOfSales(trades', Rate') = CostsOfSales(trades, Rate)
    BY <2>2, RateStays
  <2>7. CostsOfSales(trades, Rate) \in Int
    <3>1. [symbol |-> s, quantity |-> 0, price |-> 0] \in Trade
      BY DEF Trade
    <3> QED BY <1>0, <1>6, <3>1, CostsOfAppend
  <2>8. opening.worth \in Int /\ opening.realized \in Int /\ opening' = opening
        /\ realized' = realized
    BY <1>0, <2>2
  <2>9. cash + BookValue(holdings) - opening.worth
          = (realized - opening.realized) - (costs - CostsOfSales(trades, Rate))
    BY <1>1 DEF Agreed
  <2>10. cash' + BookValue(holdings') - opening.worth
           = (realized' - opening.realized) - (costs' - CostsOfSales(trades', Rate'))
    <3> DEFINE B == BookValue(holdings)
               C == CostsOfSales(trades, Rate)
               W == opening.worth
               R == opening.realized
    <3>1. B \in Int /\ C \in Int /\ W \in Int /\ R \in Int
      BY <2>4, <2>7, <2>8
    <3>2. cash + B - W = (realized - R) - (costs - C)
      BY <2>9
    <3> HIDE DEF B, C, W, R
    <3>3. (cash - (v + c)) + (B + v) - W = (realized - R) - ((costs + c) - C)
      BY <1>0, <3>1, <3>2
    <3> QED BY <2>3, <2>5, <2>6, <2>8, <3>3, Zenon DEF B, C, W, R
  <2> QED BY <2>8, <2>10, Zenon DEF Agreed
<1>8. CASE Sell
  <2>1. PICK o \in Order, s \in Symbols, n \in Nat \ {0}, p, v, c, q, a \in Nat :
          SellFills(o, s, n, p, v, c, q, a)
    BY <1>8, SellEffect
  <2>2. UNCHANGED <<engine, config, opening>>
    BY <1>8 DEF Sell
  <2>3. PICK w \in Nat : w = Worth(n, a)
    BY WorthIsNat
  <2>4. /\ cash' = cash + v - c /\ costs' = costs + c /\ realized' = realized + (v - w - c)
        /\ q = holdings[s].quantity /\ a = holdings[s].average_cost /\ n <= q
        /\ holdings' \in Holdings /\ \A x \in Symbols \ {s} : holdings'[x] = holdings[x]
        /\ holdings'[s].quantity = q - n /\ holdings'[s].average_cost = a
    BY <2>1, <2>3, Zenon DEF SellFills
  <2>5. /\ BookValue(holdings') = BookValue(holdings) - Worth(q, a) + Worth(q - n, a)
        /\ BookValue(holdings) \in Int
    <3>1. PICK g \in Holdings : g = holdings'
      BY <2>4, Zenon
    <3>2. /\ \A x \in Symbols \ {s} : g[x] = holdings[x]
          /\ q - n = g[s].quantity /\ a = g[s].average_cost
      BY <2>4, <3>1
    <3>3. /\ BookValue(g) = BookValue(holdings)
                - Worth(holdings[s].quantity, holdings[s].average_cost)
                + Worth(g[s].quantity, g[s].average_cost)
          /\ BookValue(holdings) \in Int
      BY <1>0, <3>2, BookAfterTrade
    <3> QED BY <2>4, <3>1, <3>2, <3>3
  <2>6. BookValue(holdings') = BookValue(holdings) - w
    <3>1. q - n \in Nat /\ q = n + (q - n)
      BY <2>4
    <3>2. Worth(n + (q - n), a) = Worth(n, a) + Worth(q - n, a)
      BY <3>1, WorthOfSum
    <3>3. Worth(q, a) = Worth(n, a) + Worth(q - n, a) /\ Worth(q - n, a) \in Nat
      BY <3>1, <3>2, WorthIsNat
    <3> QED BY <2>3, <2>5, <3>3
  <2>7. /\ CostsOfSales(trades', Rate') = CostsOfSales(trades, Rate) + c
        /\ CostsOfSales(trades, Rate) \in Int
    <3> DEFINE t == [symbol |-> s, quantity |-> n, price |-> p]
    <3>1. t \in Trade /\ t.quantity = n /\ t.price = p
      BY DEF Trade
    <3>2. trades' = Append(trades, t) /\ c = Cost(n, p)
      BY <2>1 DEF SellFills
    <3> HIDE DEF t
    <3>3. /\ CostsOfSales(Append(trades, t), Rate)
               = CostsOfSales(trades, Rate) + t.quantity * t.price * Rate
          /\ CostsOfSales(trades, Rate) \in Int
      BY <1>0, <1>6, <3>1, CostsOfAppend
    <3>4. c = t.quantity * t.price * Rate
      BY <3>1, <3>2, Zenon DEF Cost
    <3>5. Rate' = Rate
      BY <2>2, RateStays
    <3> QED BY <3>2, <3>3, <3>4, <3>5, Zenon
  <2>8. opening.worth \in Int /\ opening.realized \in Int /\ opening' = opening
    BY <1>0, <2>2
  <2>9. cash + BookValue(holdings) - opening.worth
          = (realized - opening.realized) - (costs - CostsOfSales(trades, Rate))
    BY <1>1 DEF Agreed
  <2>10. cash' + BookValue(holdings') - opening.worth
           = (realized' - opening.realized) - (costs' - CostsOfSales(trades', Rate'))
    <3> DEFINE B == BookValue(holdings)
               C == CostsOfSales(trades, Rate)
               W == opening.worth
               R == opening.realized
    <3>1. B \in Int /\ C \in Int /\ W \in Int /\ R \in Int
      BY <2>5, <2>7, <2>8
    <3>2. cash + B - W = (realized - R) - (costs - C)
      BY <2>9
    <3> HIDE DEF B, C, W, R
    <3>3. (cash + v - c) + (B - w) - W = ((realized + (v - w - c)) - R) - ((costs + c) - (C + c))
      BY <1>0, <3>1, <3>2
    <3> QED BY <2>4, <2>6, <2>7, <3>3, Zenon DEF B, C, W, R
  <2> QED BY <2>8, <2>10, Zenon DEF Agreed
<1> QED BY <1>3, <1>4, <1>5, <1>7, <1>8, OtherSteps

LEMMA BooksAgreeAtFirst == BacktestInit => BooksAgree
<1> SUFFICES ASSUME BacktestInit PROVE BooksAgree
  OBVIOUS
<1>1. BooksTypeOK
  BY InitIsTyped
<1>2. /\ cash \in Nat /\ realized = 0 /\ costs = 0 /\ trades = <<>>
      /\ holdings = NoHoldings /\ holdings \in Holdings
      /\ opening = [worth |-> cash, realized |-> 0]
  BY <1>1 DEF BacktestInit, BooksTypeOK
<1>3. BookValue(holdings) = 0
  <2> DEFINE v == [x \in Symbols |-> 1000 * holdings[x].quantity * holdings[x].average_cost]
  <2>1. \A x \in Symbols : v[x] = 0
    BY <1>2 DEF NoHoldings
  <2>2. BookValue(holdings) = SumFunctionOnSet(v, Symbols)
    BY DEF BookValue, SumFunction
  <2> HIDE DEF v
  <2>3. SumFunctionOnSet(v, Symbols) = SumFunctionOnSet(v, {})
    <3>1. /\ {} \in SUBSET Symbols
          /\ \A x \in Symbols : v[x] \in Int
          /\ \A x \in Symbols \ {} : v[x] = 0
      BY <2>1
    <3>2. IsFiniteSet(Symbols)
      BY BacktestAssumption
    <3> QED BY <3>1, <3>2, SumOverSupport
  <2> QED BY <2>2, <2>3, SumOfNothing
<1>4. CostsOfSales(trades, Rate) = 0
  BY <1>2, CostsOfNone
<1>5. Agreed(cash, holdings, realized, costs, trades, Rate, opening)
  BY <1>2, <1>3, <1>4 DEF Agreed
<1>6. trades \in Seq(Trade)
  BY <1>1 DEF BooksTypeOK
<1> QED BY <1>5, <1>6, BooksAreAgreed

------------------------------------------------------------------------------
(* What trading costs.                                                     *)

\* The worth of the shares at the prices of a date, summed over those held.
Shares(h, b) ==
  SumFunctionOnSet([s \in Symbols |->
                      1000 * h[s].quantity * (IF s \in DOMAIN b THEN b[s] ELSE h[s].average_cost)],
                   {s \in Symbols : h[s].quantity > 0})

LEMMA EquityIsCashAndShares == TotalEquity = cash + Shares(holdings, bars)
BY DEF TotalEquity, PriceOf, Held, Shares

LEMMA NextEquityIsCashAndShares == TotalEquity' = cash' + Shares(holdings', bars')
BY DEF TotalEquity, PriceOf, Held, Shares

\* What is not held counts nothing, so the sum may go over all symbols.
LEMMA SharesOverAll ==
  ASSUME NEW h \in Holdings, NEW b \in PriceTables, NEW v,
         v = [s \in Symbols |->
                1000 * h[s].quantity * (IF s \in DOMAIN b THEN b[s] ELSE h[s].average_cost)]
  PROVE  /\ Shares(h, b) = SumFunctionOnSet(v, Symbols)
         /\ \A x \in Symbols : v[x] \in Int
<1> DEFINE T == {s \in Symbols : h[s].quantity > 0}
<1>1. ASSUME NEW x \in Symbols
      PROVE  v[x] \in Int /\ (x \notin T => v[x] = 0)
  <2>1. PICK q \in Nat, a \in Nat : q = h[x].quantity /\ a = h[x].average_cost
    BY DEF Holdings
  <2>2. PICK p \in Nat : p = IF x \in DOMAIN b THEN b[x] ELSE h[x].average_cost
    BY <2>1, PriceOfDate
  <2>3. v[x] = Worth(q, p)
    BY <2>1, <2>2 DEF Worth
  <2>4. x \notin T => q = 0
    BY <2>1
  <2> QED BY <2>3, <2>4, WorthIsNat, WorthOfNone
<1>2. Shares(h, b) = SumFunctionOnSet(v, T)
  BY DEF Shares
<1>3. T \in SUBSET Symbols
  OBVIOUS
<1> HIDE DEF T
<1>4. SumFunctionOnSet(v, Symbols) = SumFunctionOnSet(v, T)
  <2>1. \A x \in Symbols : v[x] \in Int
    BY <1>1
  <2>2. \A x \in Symbols \ T : v[x] = 0
    BY <1>1
  <2>3. IsFiniteSet(Symbols)
    BY BacktestAssumption
  <2> QED BY <1>3, <2>1, <2>2, <2>3, SumOverSupport
<1> QED BY <1>1, <1>2, <1>4

LEMMA SharesAfterTrade ==
  ASSUME NEW h \in Holdings, NEW g \in Holdings, NEW b \in PriceTables,
         NEW s \in Symbols, s \in DOMAIN b,
         \A x \in Symbols \ {s} : g[x] = h[x]
  PROVE  /\ Shares(g, b) = Shares(h, b) - Worth(h[s].quantity, b[s]) + Worth(g[s].quantity, b[s])
         /\ Shares(h, b) \in Int
<1> DEFINE v == [x \in Symbols |->
                   1000 * h[x].quantity * (IF x \in DOMAIN b THEN b[x] ELSE h[x].average_cost)]
           w == [x \in Symbols |->
                   1000 * g[x].quantity * (IF x \in DOMAIN b THEN b[x] ELSE g[x].average_cost)]
<1>1. /\ Shares(h, b) = SumFunctionOnSet(v, Symbols)
      /\ \A x \in Symbols : v[x] \in Int
  BY SharesOverAll
<1>2. /\ Shares(g, b) = SumFunctionOnSet(w, Symbols)
      /\ \A x \in Symbols : w[x] \in Int
  BY SharesOverAll
<1>3. \A x \in Symbols \ {s} : v[x] = w[x]
  OBVIOUS
<1>4. v[s] = Worth(h[s].quantity, b[s]) /\ w[s] = Worth(g[s].quantity, b[s])
  BY DEF Worth
<1> HIDE DEF v, w
<1>5. IsFiniteSet(Symbols)
  BY BacktestAssumption
<1>6. /\ SumFunctionOnSet(w, Symbols) = SumFunctionOnSet(v, Symbols) - v[s] + w[s]
      /\ SumFunctionOnSet(v, Symbols) \in Int
  BY <1>1, <1>2, <1>3, <1>5, SumAfterChange
<1> QED BY <1>1, <1>2, <1>4, <1>6

LEMMA CashAndSharesPayTheCosts ==
  ASSUME BooksTypeOK, OrdersFit, phase = "orders", [BacktestNext]_backtestVars
  PROVE  cash' + Shares(holdings', bars') = (cash + Shares(holdings, bars)) - (costs' - costs)
<1>0. /\ cash \in Nat /\ costs \in Nat /\ holdings \in Holdings /\ bars \in PriceTables
  BY DEF BooksTypeOK
<1>2. CASE UNCHANGED <<cash, holdings, bars, costs>>
  <2>1. Shares(holdings, bars) \in Int
    <3> DEFINE v == [s \in Symbols |-> 1000 * holdings[s].quantity *
                       (IF s \in DOMAIN bars THEN bars[s] ELSE holdings[s].average_cost)]
    <3>1. /\ Shares(holdings, bars) = SumFunctionOnSet(v, Symbols)
          /\ \A x \in Symbols : v[x] \in Int
      BY <1>0, SharesOverAll
    <3> HIDE DEF v
    <3> QED BY <3>1, BacktestAssumption, SumOfIntegers
  <2> QED BY <1>0, <1>2, <2>1
<1>3. CASE Buy
  <2>1. PICK o \in Order, s \in Symbols, n \in Nat \ {0}, p, v, c, q, a \in Nat :
          BuyFills(o, s, n, p, v, c, q, a)
    BY <1>3, BuyEffect
  <2>2. bars' = bars
    BY <1>3 DEF Buy
  <2>3. /\ v = Worth(n, p) /\ s \in DOMAIN bars /\ p = bars[s]
        /\ cash' = cash - (v + c) /\ costs' = costs + c
        /\ q = holdings[s].quantity
        /\ holdings' \in Holdings /\ \A x \in Symbols \ {s} : holdings'[x] = holdings[x]
        /\ holdings'[s].quantity = q + n
    BY <2>1 DEF BuyFills, NextFill
  <2>4. /\ Shares(holdings', bars) = Shares(holdings, bars) - Worth(q, p) + Worth(q + n, p)
        /\ Shares(holdings, bars) \in Int
    <3>1. PICK g \in Holdings : g = holdings'
      BY <2>3, Zenon
    <3>2. (\A x \in Symbols \ {s} : g[x] = holdings[x]) /\ q + n = g[s].quantity
      BY <2>3, <3>1
    <3>3. /\ Shares(g, bars) = Shares(holdings, bars)
                - Worth(holdings[s].quantity, bars[s]) + Worth(g[s].quantity, bars[s])
          /\ Shares(holdings, bars) \in Int
      BY <1>0, <2>3, <3>2, SharesAfterTrade
    <3> QED BY <2>3, <3>1, <3>2, <3>3
  <2>5. Worth(q + n, p) = Worth(q, p) + v /\ Worth(q, p) \in Nat
    <3>1. Worth(q + n, p) = Worth(q, p) + Worth(n, p)
      BY WorthOfSum
    <3>2. Worth(q, p) \in Nat
      BY WorthIsNat
    <3> QED BY <2>3, <3>1, <3>2
  <2>6. Shares(holdings', bars') = Shares(holdings, bars) + v
    BY <2>2, <2>4, <2>5
  <2> QED BY <1>0, <2>3, <2>4, <2>6
<1>4. CASE Sell
  <2>1. PICK o \in Order, s \in Symbols, n \in Nat \ {0}, p, v, c, q, a \in Nat :
          SellFills(o, s, n, p, v, c, q, a)
    BY <1>4, SellEffect
  <2>2. bars' = bars
    BY <1>4 DEF Sell
  <2>3. /\ v = Worth(n, p) /\ s \in DOMAIN bars /\ p = bars[s]
        /\ cash' = cash + v - c /\ costs' = costs + c
        /\ q = holdings[s].quantity /\ n <= q
        /\ holdings' \in Holdings /\ \A x \in Symbols \ {s} : holdings'[x] = holdings[x]
        /\ holdings'[s].quantity = q - n
    BY <2>1 DEF SellFills, NextFill
  <2>4. /\ Shares(holdings', bars) = Shares(holdings, bars) - Worth(q, p) + Worth(q - n, p)
        /\ Shares(holdings, bars) \in Int
    <3>1. PICK g \in Holdings : g = holdings'
      BY <2>3, Zenon
    <3>2. (\A x \in Symbols \ {s} : g[x] = holdings[x]) /\ q - n = g[s].quantity
      BY <2>3, <3>1
    <3>3. /\ Shares(g, bars) = Shares(holdings, bars)
                - Worth(holdings[s].quantity, bars[s]) + Worth(g[s].quantity, bars[s])
          /\ Shares(holdings, bars) \in Int
      BY <1>0, <2>3, <3>2, SharesAfterTrade
    <3> QED BY <2>3, <3>1, <3>2, <3>3
  <2>5. Worth(q, p) = v + Worth(q - n, p) /\ Worth(q - n, p) \in Nat
    <3>1. q - n \in Nat /\ q = n + (q - n)
      BY <2>3
    <3>2. Worth(n + (q - n), p) = Worth(n, p) + Worth(q - n, p)
      BY <3>1, WorthOfSum
    <3> QED BY <2>3, <3>1, <3>2, WorthIsNat
  <2>6. Shares(holdings', bars') = Shares(holdings, bars) - v
    BY <2>2, <2>4, <2>5
  <2> QED BY <1>0, <2>3, <2>4, <2>6
<1>5. ~ \E definition \in Configs : StartRun(definition)
  BY DEF StartRun
<1>6. ~ \E prices \in DateBars, signal \in Signals : ReplayDate(prices, signal)
  BY DEF ReplayDate
<1> QED BY <1>2, <1>3, <1>4, <1>5, <1>6, OtherSteps

LEMMA OrdersCostTheirCosts ==
  ASSUME BooksTypeOK, OrdersFit, phase = "orders", [BacktestNext]_backtestVars
  PROVE  TotalEquity' = TotalEquity - (costs' - costs)
<1>1. PICK e : e = cash + Shares(holdings, bars)
  OBVIOUS
<1>2. TotalEquity = e
  BY <1>1, EquityIsCashAndShares, Zenon
<1>3. cash' + Shares(holdings', bars') = e - (costs' - costs)
  <2>1. cash' + Shares(holdings', bars') = (cash + Shares(holdings, bars)) - (costs' - costs)
    BY CashAndSharesPayTheCosts
  <2> QED BY <1>1, <2>1
<1>4. TotalEquity' = e - (costs' - costs)
  BY <1>3, NextEquityIsCashAndShares, Zenon
<1> QED BY <1>2, <1>4, Zenon

------------------------------------------------------------------------------
(* The theorems.                                                           *)

LEMMA InitIsSound == BacktestInit => BacktestInv
<1> SUFFICES ASSUME BacktestInit PROVE BacktestInv
  OBVIOUS
<1>1. phase = "idle" /\ outcome = "none"
  BY DEF BacktestInit
<1>2. OrdersFit /\ OrdersCovered /\ BuySignalsNeverAbort
  BY <1>1 DEF OrdersFit, OrdersCovered, BuySignalsNeverAbort
<1> QED BY <1>2, InitIsTyped, BooksAgreeAtFirst DEF BacktestInv

LEMMA StepIsSound == BacktestInv /\ [BacktestNext]_backtestVars => BacktestInv'
<1> SUFFICES ASSUME BacktestInv, [BacktestNext]_backtestVars PROVE BacktestInv'
  OBVIOUS
<1>1. BooksTypeOK /\ OrdersFit /\ OrdersCovered /\ BuySignalsNeverAbort /\ BooksAgree
  BY DEF BacktestInv
<1>2. BooksTypeOK'
  BY <1>1, TypesKept
<1>3. OrdersFit'
  <2>1. holdings' \in Holdings
    BY <1>2 DEF BooksTypeOK
  <2> QED BY <1>1, <2>1, FitKept
<1>4. OrdersCovered'
  BY <1>1, CoveredKept
<1>5. BuySignalsNeverAbort'
  BY <1>1, AbortsExplained
<1>6. BooksAgree'
  BY <1>1, <1>2, BooksKept
<1> QED BY <1>2, <1>3, <1>4, <1>5, <1>6 DEF BacktestInv

\* The types and the fit of the orders hold over any number of runs and dates.
THEOREM BacktestInvariant == BacktestSpec => []BacktestInv
<1>1. BacktestInit => BacktestInv
  BY InitIsSound
<1>2. BacktestInv /\ [BacktestNext]_backtestVars => BacktestInv'
  BY StepIsSound
<1> QED BY <1>1, <1>2, PTL DEF BacktestSpec

\* With costs below what order generation sets aside for them, no backtest
\* dies of an order that its cash does not cover, whatever was signalled before.
THEOREM SignalsAreAlwaysPaidFor == BacktestSpec => []BuySignalsNeverAbort
<1>1. BacktestInv => BuySignalsNeverAbort
  BY DEF BacktestInv
<1> QED BY <1>1, BacktestInvariant, PTL

\* The engine's statistics and the portfolio's books tell the same story at
\* every point of every run.
THEOREM BooksAlwaysAgree == BacktestSpec => []BooksAgree
<1>1. BacktestInv => BooksAgree
  BY DEF BacktestInv
<1> QED BY <1>1, BacktestInvariant, PTL

\* Executing an order moves money between cash and shares at the price of its
\* date: the equity falls by the costs of the order and by nothing else.
THEOREM ExecutionCostsItsCosts == BacktestSpec => TradingCostsOnly
<1>1. BacktestInv /\ [BacktestNext]_backtestVars
        => [phase = "orders" => TotalEquity' = TotalEquity - (costs' - costs)]_backtestVars
  BY OrdersCostTheirCosts DEF BacktestInv
<1> QED BY <1>1, BacktestInvariant, PTL DEF BacktestSpec, TradingCostsOnly

==============================================================================
