---------------------------- MODULE PortfolioProofs ----------------------------
(***************************************************************************)
(* What the portfolio engine promises for any symbols, prices, weightings, *)
(* targets and configurations, over any number of operations.              *)
(***************************************************************************)
EXTENDS Portfolio, FoldLemmas

Position == [open : BOOLEAN, quantity : Nat, price : Nat]
Pending  == [symbol : Symbols, amount : Nat]
Action   == [symbol : Symbols, type : {"BUY", "SELL"}, quantity : Nat, drift : Nat]
Move     == [symbol : Symbols, quantity : Nat, moved : Nat]
PriceTable == [Symbols -> Nat]

PortfolioTypeOK ==
  /\ cash \in Nat
  /\ positions \in [Symbols -> Position]
  /\ allocations \in Seq(Pending)
  /\ task \in [kind : {"idle", "allocations", "rebalance"}, list : Seq(Pending) \cup Seq(Action),
               prices : PriceTable, available : Int]
  /\ task.kind = "allocations" => task.list \in Seq(Pending)
  /\ task.kind = "rebalance" => task.list \in Seq(Action)
  /\ executed \in Seq(Move)
  /\ operations \in Nat
  /\ plan \in [equity : Nat, target : [Symbols -> Nat], fresh : BOOLEAN, cashOnly : BOOLEAN]

\* A symbol without a position has no shares; every action has a price; while a
\* rebalance at fresh prices runs, the positions are valued at its prices.
NothingUnopened == \A s \in Symbols : ~positions[s].open => positions[s].quantity = 0
ActionsPriced ==
  task.kind = "rebalance" =>
    \A i \in 1 .. Len(task.list) : task.prices[task.list[i].symbol] > 0
StaysFresh ==
  task.kind = "rebalance" /\ plan.fresh =>
    \A s \in Symbols : positions[s].open => positions[s].price = task.prices[s]

PortfolioInv ==
  /\ PortfolioTypeOK
  /\ NothingUnopened
  /\ ActionsPriced
  /\ StaysFresh
  /\ NeverOverdrawn

------------------------------------------------------------------------------
(* Arithmetic.                                                             *)

\* What is bought of an amount does not cost more than the amount, and one more
\* would.
LEMMA Affords ==
  ASSUME NEW a \in Nat, NEW d \in Nat \ {0}
  PROVE  /\ a \div d \in Nat
         /\ (a \div d) * d <= a
         /\ a < (a \div d) * d + d
OBVIOUS

LEMMA ProductsOrdered ==
  ASSUME NEW a \in Nat, NEW b \in Int, NEW c \in Int, b <= c
  PROVE  a * b <= a * c
OBVIOUS

LEMMA FactorsOrdered ==
  ASSUME NEW a \in Nat, NEW b \in Nat, NEW d \in Nat, a * d < b * d
  PROVE  a < b
<1> SUFFICES ASSUME b <= a PROVE FALSE
  OBVIOUS
<1>1. d * b <= d * a
  BY ProductsOrdered
<1>2. d * b = b * d /\ d * a = a * d /\ a * d \in Nat /\ b * d \in Nat
  OBVIOUS
<1> QED BY <1>1, <1>2

LEMMA CostIsNat == ASSUME NEW n \in Nat, NEW p \in Nat PROVE CostOf(n, p) \in Nat
<1>1. TransactionCost \in Nat
  BY PortfolioAssumption
<1> QED BY <1>1 DEF CostOf

LEMMA ProceedsIsNat == ASSUME NEW n \in Nat, NEW p \in Nat PROVE ProceedsOf(n, p) \in Nat
<1>1. 1000 - TransactionCost \in Nat
  BY PortfolioAssumption
<1> DEFINE keep == 1000 - TransactionCost
<1> HIDE DEF keep
<1>2. n * p * keep \in Nat
  BY <1>1 DEF keep
<1> QED BY <1>2 DEF ProceedsOf, keep

\* What n shares at the price p are worth: what buying them costs and selling
\* them brings differs from it by the transaction cost.
Worth(n, p) == 1000 * n * p

LEMMA WorthIsNat ==
  ASSUME NEW n \in Nat, NEW p \in Nat
  PROVE  /\ Worth(n, p) \in Nat
         /\ Worth(0, p) = 0
BY DEF Worth

LEMMA WorthOfSum ==
  ASSUME NEW n \in Nat, NEW m \in Nat, NEW p \in Nat
  PROVE  Worth(n + m, p) = Worth(n, p) + Worth(m, p)
BY DEF Worth

LEMMA CostIsWorthAndFee ==
  ASSUME NEW n \in Nat, NEW p \in Nat
  PROVE  /\ CostOf(n, p) = Worth(n, p) + TransactionCost * (n * p)
         /\ ProceedsOf(n, p) = Worth(n, p) - TransactionCost * (n * p)
<1>1. PICK x \in Nat : x = n * p
  OBVIOUS
<1>2. TransactionCost \in Int
  BY PortfolioAssumption
<1>3. Worth(n, p) = 1000 * x
  BY <1>1 DEF Worth
<1>4. CostOf(n, p) = x * (1000 + TransactionCost) /\ ProceedsOf(n, p) = x * (1000 - TransactionCost)
  BY <1>1 DEF CostOf, ProceedsOf
<1>5. /\ x * (1000 + TransactionCost) = 1000 * x + TransactionCost * x
      /\ x * (1000 - TransactionCost) = 1000 * x - TransactionCost * x
  BY <1>2
<1> QED BY <1>1, <1>3, <1>4, <1>5

\* _execute_buy never buys more than it was asked for nor than the cash pays for.
LEMMA BoughtIsPaid ==
  ASSUME cash \in Nat, NEW n \in Nat, NEW p \in Nat \ {0}
  PROVE  /\ Bought(n, p) \in Nat
         /\ Bought(n, p) <= n
         /\ CostOf(Bought(n, p), p) <= cash
<1> DEFINE d == p * (1000 + TransactionCost)
           m == cash \div d
<1>1. CostOf(n, p) \in Nat
  BY CostIsNat
<1>2. CASE CostOf(n, p) <= cash
  BY <1>2 DEF Bought
<1>3. CASE ~(CostOf(n, p) <= cash)
  <2>1. Bought(n, p) = m
    BY <1>3 DEF Bought
  <2>2. d \in Nat \ {0}
    <3>1. 1000 + TransactionCost \in Nat \ {0}
      BY PortfolioAssumption
    <3> DEFINE k == 1000 + TransactionCost
    <3> HIDE DEF k
    <3>2. p * k \in Nat \ {0}
      BY <3>1 DEF k
    <3> QED BY <3>2 DEF k
  <2>3. /\ CostOf(n, p) = n * d
        /\ \A x \in Nat : CostOf(x, p) = x * d
    <3>1. TransactionCost \in Nat
      BY PortfolioAssumption
    <3>2. \A x \in Nat : CostOf(x, p) = x * d
      BY <3>1 DEF CostOf
    <3> QED BY <3>2
  <2> HIDE DEF d
  <2>4. m \in Nat /\ m * d <= cash
    BY <2>2, Affords
  <2> HIDE DEF m
  <2>5. m < n
    <3>1. m * d < n * d
      <4>1. m * d \in Nat
        BY <2>2, <2>4
      <4> QED BY <1>1, <1>3, <2>3, <2>4, <4>1
    <3> QED BY <2>2, <2>4, <3>1, FactorsOrdered
  <2> QED BY <2>1, <2>3, <2>4, <2>5
<1> QED BY <1>2, <1>3

------------------------------------------------------------------------------
(* Equity.                                                                 *)

Portfolios == [Symbols -> Position]
EquityOf(c, h) == c + SumFunctionOnSet([s \in Symbols |-> Worth(h[s].quantity, h[s].price)], Symbols)

LEMMA PositionFacts ==
  ASSUME NEW h \in Portfolios, NEW s \in Symbols
  PROVE  h[s].open \in BOOLEAN /\ h[s].quantity \in Nat /\ h[s].price \in Nat
<1>1. h[s] \in Position
  BY DEF Portfolios
<1> QED BY <1>1 DEF Position

LEMMA EquityNow == TotalEquity = EquityOf(cash, positions)
<1> DEFINE v == [s \in Symbols |-> 1000 * positions[s].quantity * positions[s].price]
<1>1. TotalEquity = cash + SumFunctionOnSet(v, Symbols)
  BY DEF TotalEquity, Value, SumFunction
<1>2. v = [s \in Symbols |-> Worth(positions[s].quantity, positions[s].price)]
  BY DEF Worth
<1> QED BY <1>1, <1>2, Zenon DEF EquityOf

LEMMA EquityThen == TotalEquity' = EquityOf(cash', positions')
<1> DEFINE v == [s \in Symbols |-> 1000 * positions'[s].quantity * positions'[s].price]
<1>1. TotalEquity' = cash' + SumFunctionOnSet(v, Symbols)
  BY DEF TotalEquity, Value, SumFunction
<1>2. v = [s \in Symbols |-> Worth(positions'[s].quantity, positions'[s].price)]
  BY DEF Worth
<1> QED BY <1>1, <1>2, Zenon DEF EquityOf

LEMMA EquityIsNat ==
  ASSUME NEW c \in Nat, NEW h \in Portfolios
  PROVE  EquityOf(c, h) \in Nat
<1> DEFINE v == [s \in Symbols |-> Worth(h[s].quantity, h[s].price)]
<1>1. \A s \in Symbols : v[s] \in Nat
  BY PositionFacts, WorthIsNat
<1>2. EquityOf(c, h) = c + SumFunctionOnSet(v, Symbols)
  BY DEF EquityOf
<1> HIDE DEF v
<1>3. SumFunctionOnSet(v, Symbols) \in Nat
  BY <1>1, PortfolioAssumption, SumOfNaturals
<1> QED BY <1>2, <1>3

\* A trade in one symbol moves the equity by the change of its value and of the
\* cash.
LEMMA EquityAfterTrade ==
  ASSUME NEW c \in Int, NEW e \in Int, NEW h \in Portfolios, NEW g \in Portfolios,
         NEW s \in Symbols, \A x \in Symbols \ {s} : g[x] = h[x]
  PROVE  /\ EquityOf(e, g) = EquityOf(c, h) - c + e
                             - Worth(h[s].quantity, h[s].price) + Worth(g[s].quantity, g[s].price)
         /\ EquityOf(c, h) \in Int
<1> DEFINE v == [x \in Symbols |-> Worth(h[x].quantity, h[x].price)]
           w == [x \in Symbols |-> Worth(g[x].quantity, g[x].price)]
<1>1. \A x \in Symbols : v[x] \in Int /\ w[x] \in Int
  <2>1. ASSUME NEW x \in Symbols
        PROVE  /\ Worth(h[x].quantity, h[x].price) \in Nat
               /\ Worth(g[x].quantity, g[x].price) \in Nat
    BY PositionFacts, WorthIsNat
  <2> QED BY <2>1
<1>2. \A x \in Symbols \ {s} : v[x] = w[x]
  OBVIOUS
<1>3. v[s] = Worth(h[s].quantity, h[s].price) /\ w[s] = Worth(g[s].quantity, g[s].price)
  OBVIOUS
<1>4. /\ EquityOf(c, h) = c + SumFunctionOnSet(v, Symbols)
      /\ EquityOf(e, g) = e + SumFunctionOnSet(w, Symbols)
  BY DEF EquityOf
<1>5. v[s] \in Int /\ w[s] \in Int
  BY <1>1
<1> HIDE DEF v, w
<1>6. /\ SumFunctionOnSet(w, Symbols) = SumFunctionOnSet(v, Symbols) - v[s] + w[s]
      /\ SumFunctionOnSet(v, Symbols) \in Int
  <2>1. IsFiniteSet(Symbols)
    BY PortfolioAssumption
  <2> QED BY <1>1, <1>2, <2>1, SumAfterChange
<1> QED BY <1>3, <1>4, <1>5, <1>6

------------------------------------------------------------------------------
(* Lists of allocations and of actions.                                    *)

LEMMA TailFacts ==
  ASSUME NEW S, NEW list \in Seq(S), list # <<>>
  PROVE  /\ Head(list) \in S /\ Tail(list) \in Seq(S)
         /\ 1 \in 1 .. Len(list) /\ list[1] = Head(list)
         /\ \A i \in 1 .. Len(Tail(list)) : Tail(list)[i] = list[i + 1] /\ i + 1 \in 1 .. Len(list)
OBVIOUS

\* The prices of a call; weights and targets are naturals.
LEMMA InputFacts ==
  /\ PriceMaps \subseteq PriceTable
  /\ Targets \subseteq [Symbols -> Nat]
<1>1. Prices \cup {0} \subseteq Nat /\ Targets \subseteq [Symbols -> Nat]
  BY PortfolioAssumption
<1> DEFINE P == Prices \cup {0}
<1> HIDE DEF P
<1>2. [Symbols -> P] \subseteq [Symbols -> Nat]
  BY <1>1 DEF P
<1> QED BY <1>1, <1>2 DEF PriceMaps, PriceTable, P

LEMMA TypeFacts ==
  ASSUME PortfolioTypeOK
  PROVE  /\ cash \in Nat /\ positions \in Portfolios
         /\ TotalEquity \in Nat
         /\ \A s \in Symbols : Value(s) \in Nat
<1>1. cash \in Nat /\ positions \in Portfolios
  BY DEF PortfolioTypeOK, Portfolios
<1>2. TotalEquity \in Nat
  BY <1>1, EquityNow, EquityIsNat
<1>3. ASSUME NEW s \in Symbols PROVE Value(s) \in Nat
  <2>1. positions[s].quantity \in Nat /\ positions[s].price \in Nat
    BY <1>1, PositionFacts
  <2>2. Value(s) = Worth(positions[s].quantity, positions[s].price)
    BY DEF Value, Worth
  <2> QED BY <2>1, <2>2, WorthIsNat
<1> QED BY <1>1, <1>2, <1>3

\* What a symbol misses of its target, and the shares that makes.
LEMMA MissingFacts ==
  ASSUME PortfolioTypeOK, NEW target \in Targets, NEW prices \in PriceMaps,
         NEW s \in Symbols
  PROVE  /\ target[s] \in Nat /\ prices[s] \in Nat
         /\ target[s] * TotalEquity \in Nat
         /\ Missing(s, target) = target[s] * TotalEquity - 100 * Value(s)
         /\ Missing(s, target) \in Int
         /\ AbsMissing(s, target) \in Nat
         /\ prices[s] > 0 => Quantity(s, target, prices) \in Nat
<1>1. target[s] \in Nat /\ prices[s] \in Nat
  BY InputFacts DEF PriceTable
<1>2. TotalEquity \in Nat /\ Value(s) \in Nat
  BY TypeFacts
<1>3. target[s] * TotalEquity \in Nat
  BY <1>1, <1>2
<1>4. Missing(s, target) = target[s] * TotalEquity - 100 * Value(s)
  BY DEF Missing
<1>5. Missing(s, target) \in Int
  BY <1>2, <1>3, <1>4
<1>6. AbsMissing(s, target) \in Nat
  BY <1>5 DEF AbsMissing
<1>7. ASSUME prices[s] > 0 PROVE Quantity(s, target, prices) \in Nat
  <2>1. 100000 * prices[s] \in Nat \ {0}
    BY <1>1, <1>7
  <2> QED BY <1>6, <2>1, Affords DEF Quantity
<1> QED BY <1>1, <1>3, <1>4, <1>5, <1>6, <1>7

LEMMA ActionsFacts ==
  ASSUME PortfolioTypeOK, NEW target \in Targets, NEW prices \in PriceMaps
  PROVE  /\ IsFiniteSet(Actions(target, prices))
         /\ Actions(target, prices) \subseteq Action
         /\ \A a \in Actions(target, prices) : prices[a.symbol] > 0
         /\ \A a, b \in Actions(target, prices) : a.symbol = b.symbol => a = b
<1> DEFINE A == Actions(target, prices)
           Made(s) == [symbol |-> s, type |-> ActionType(s, target, prices),
                       quantity |-> Quantity(s, target, prices), drift |-> AbsMissing(s, target)]
           f == [a \in A |-> a.symbol]
<1>1. \A a \in A : \E s \in Symbols :
        prices[s] > 0 /\ ActionType(s, target, prices) # "HOLD" /\ a = Made(s)
  BY DEF Actions
<1>2. ASSUME NEW a \in A
      PROVE  /\ a \in Action /\ prices[a.symbol] > 0
             /\ a.symbol \in Symbols /\ a = Made(a.symbol)
  <2>1. PICK s \in Symbols : prices[s] > 0 /\ ActionType(s, target, prices) # "HOLD" /\ a = Made(s)
    BY <1>1
  <2>2. Quantity(s, target, prices) \in Nat /\ AbsMissing(s, target) \in Nat
    BY <2>1, MissingFacts
  <2>3. ActionType(s, target, prices) \in {"BUY", "SELL"}
    BY <2>1 DEF ActionType
  <2>4. a.symbol = s
    BY <2>1
  <2> QED BY <2>1, <2>2, <2>3, <2>4 DEF Action
<1>3. f \in Injection(A, Symbols)
  <2>1. f \in [A -> Symbols]
    BY <1>2
  <2>2. \A a, b \in A : f[a] = f[b] => a = b
    BY <1>2
  <2> HIDE DEF f, A
  <2> QED BY <2>1, <2>2 DEF Injection, IsInjective
<1>4. IsFiniteSet(A)
  BY <1>3, PortfolioAssumption, FS_Injection
<1>5. \A a, b \in A : a.symbol = b.symbol => a = b
  BY <1>2
<1> QED BY <1>2, <1>4, <1>5

\* A sorted list names every action once.
LEMMA SortedFacts ==
  ASSUME NEW A, IsFiniteSet(A), NEW list \in SortedByDrift(A)
  PROVE  /\ list \in Seq(A)
         /\ \A i, j \in 1 .. Len(list) : i < j => list[i] # list[j]
         /\ \A a \in A : \E i \in 1 .. Len(list) : list[i] = a
<1> DEFINE n == Cardinality(A)
<1>1. n \in Nat
  BY FS_CardinalityType
<1>2. list \in [1 .. n -> A] /\ \A i, j \in 1 .. n : i < j => list[i] # list[j]
  BY DEF SortedByDrift
<1> HIDE DEF n
<1>3. list \in Seq(A) /\ Len(list) = n
  BY <1>1, <1>2
<1>4. list \in Injection(1 .. n, A)
  <2>1. ASSUME NEW i \in 1 .. n, NEW j \in 1 .. n, list[i] = list[j] PROVE i = j
    <3>1. ~(i < j) /\ ~(j < i)
      BY <1>2, <2>1
    <3> QED BY <1>1, <3>1
  <2> QED BY <1>2, <2>1 DEF Injection, IsInjective
<1>5. IsFiniteSet(1 .. n) /\ Cardinality(1 .. n) = Cardinality(A)
  BY <1>1, FS_Interval DEF n
<1>6. list \in Surjection(1 .. n, A)
  BY <1>4, <1>5, FS_Injection
<1>7. \A a \in A : \E i \in 1 .. n : list[i] = a
  BY <1>6 DEF Surjection
<1> QED BY <1>2, <1>3, <1>7

------------------------------------------------------------------------------
(* Positions.                                                              *)

LEMMA OpenedFacts ==
  ASSUME positions \in Portfolios, NEW s \in Symbols, NEW n \in Nat, NEW p \in Nat
  PROVE  /\ Opened(s, n, p) \in Portfolios
         /\ Opened(s, n, p)[s].open
         /\ Opened(s, n, p)[s].quantity = IF positions[s].open THEN positions[s].quantity + n ELSE n
         /\ Opened(s, n, p)[s].price = IF positions[s].open THEN positions[s].price ELSE p
         /\ \A x \in Symbols \ {s} : Opened(s, n, p)[x] = positions[x]
<1>1. \A x \in Symbols : positions[x] \in Position
  BY DEF Portfolios
<1>2. positions[s].quantity + n \in Nat /\ positions[s].price \in Nat
  BY PositionFacts
<1>3. CASE positions[s].open
  <2>1. Opened(s, n, p) = [positions EXCEPT ![s].quantity = @ + n]
    BY <1>3 DEF Opened
  <2> QED BY <1>1, <1>2, <1>3, <2>1 DEF Portfolios, Position
<1>4. CASE ~positions[s].open
  <2>1. Opened(s, n, p) = [positions EXCEPT ![s] = [open |-> TRUE, quantity |-> n, price |-> p]]
    BY <1>4 DEF Opened
  <2> QED BY <1>1, <1>4, <2>1 DEF Portfolios, Position
<1> QED BY <1>3, <1>4

LEMMA FilterFacts ==
  ASSUME PortfolioTypeOK, NEW a \in Action
  PROVE  /\ Allowed(a) \in Nat /\ Allowed(a) <= a.quantity
         /\ StillAvailable(a) \in Int
<1>1. task.available \in Int
  BY DEF PortfolioTypeOK
<1>2. a.quantity \in Nat
  BY DEF Action
<1>3. PICK k \in Nat : k = Scaled /\ k # 0
  BY DEF Scaled
<1>4. PICK m \in Int : m = k * a.quantity
  BY <1>2, <1>3
<1>5. StillAvailable(a) \in Int
  BY <1>1, <1>3, <1>4 DEF StillAvailable
<1>6. ASSUME task.available > 0, ~(m <= task.available)
      PROVE  task.available \div k \in Nat /\ task.available \div k <= a.quantity
  <2> DEFINE n == task.available \div k
  <2>1. n \in Nat /\ n * k <= task.available
    BY <1>1, <1>3, <1>6, Affords
  <2> HIDE DEF n
  <2>2. n * k < a.quantity * k
    BY <1>1, <1>2, <1>3, <1>4, <1>6, <2>1
  <2>3. n < a.quantity
    BY <1>2, <1>3, <2>1, <2>2, FactorsOrdered
  <2> QED BY <1>2, <2>1, <2>3 DEF n
<1> QED BY <1>1, <1>2, <1>3, <1>4, <1>5, <1>6 DEF Allowed
------------------------------------------------------------------------------
(* The invariant: operations that start.                                   *)

LEMMA StartFacts ==
  ASSUME PortfolioTypeOK, Start
  PROVE  operations' \in Nat /\ task = Idle /\ task.kind = "idle"
BY DEF PortfolioTypeOK, Start, Idle

LEMMA IdleIsFine ==
  /\ NoPosition \in Position
  /\ Idle \in [kind : {"idle", "allocations", "rebalance"}, list : Seq(Pending) \cup Seq(Action),
               prices : PriceTable, available : Int]
  /\ Idle.kind = "idle"
  /\ NoPlan \in [equity : Nat, target : [Symbols -> Nat], fresh : BOOLEAN, cashOnly : BOOLEAN]
<1>1. <<>> \in Seq(Pending)
  OBVIOUS
<1>2. [s \in Symbols |-> 0] \in [Symbols -> Nat]
  OBVIOUS
<1> QED BY <1>1, <1>2 DEF NoPosition, Position, Idle, PriceTable, NoPlan

LEMMA WeightFacts ==
  ASSUME NEW w \in [symbol : Symbols, weight : 0 .. 100]
  PROVE  w.symbol \in Symbols /\ w.weight \in Nat
OBVIOUS

LEMMA AmountFacts ==
  ASSUME PortfolioTypeOK, NEW weighting \in Weightings, NEW prices \in PriceMaps
  PROVE  /\ weighting \in Seq([symbol : Symbols, weight : 0 .. 100])
         /\ \A i \in 1 .. Len(weighting) :
              /\ weighting[i].symbol \in Symbols /\ weighting[i].weight \in Nat
              /\ Amount(weighting[i], prices) \in Nat
              /\ Amount(weighting[i], prices)
                   <= TotalEquity * (100 - CashReserve) * weighting[i].weight
<1>1. weighting \in Seq([symbol : Symbols, weight : 0 .. 100])
  BY PortfolioAssumption
<1>2. ASSUME NEW i \in 1 .. Len(weighting)
      PROVE  /\ weighting[i].symbol \in Symbols /\ weighting[i].weight \in Nat
             /\ Amount(weighting[i], prices) \in Nat
             /\ Amount(weighting[i], prices)
                  <= TotalEquity * (100 - CashReserve) * weighting[i].weight
  <2>1. weighting[i] \in [symbol : Symbols, weight : 0 .. 100]
    <3> DEFINE W == [symbol : Symbols, weight : 0 .. 100]
    <3> HIDE DEF W
    <3>1. weighting \in Seq(W)
      BY <1>1 DEF W
    <3>2. weighting[i] \in W
      BY <3>1
    <3> QED BY <3>2 DEF W
  <2>2. weighting[i].symbol \in Symbols /\ weighting[i].weight \in Nat
    BY <2>1, WeightFacts
  <2>3. TotalEquity \in Nat /\ 100 - CashReserve \in Nat
    BY TypeFacts, PortfolioAssumption
  <2> DEFINE share == 100 - CashReserve
             amount == TotalEquity * share * weighting[i].weight
  <2> HIDE DEF share
  <2>4. amount \in Nat
    <3>1. share \in Nat
      BY <2>3 DEF share
    <3> QED BY <2>2, <2>3, <3>1
  <2>5. Amount(weighting[i], prices) = amount \/ Amount(weighting[i], prices) = 0
    BY DEF Amount, share
  <2> QED BY <2>2, <2>4, <2>5 DEF share
<1> QED BY <1>1, <1>2

LEMMA OperationKeepsInv ==
  ASSUME PortfolioInv,
         \/ CreatePortfolio
         \/ \E prices \in PriceMaps :
              \/ \E weighting \in Weightings : Allocate(weighting, prices)
              \/ ExecuteAllocations(prices)
              \/ UpdateMarketValues(prices)
  PROVE  PortfolioInv'
<1>1. PortfolioTypeOK
  BY DEF PortfolioInv
<1>2. CASE CreatePortfolio
  <2>1. operations' \in Nat /\ task.kind = "idle"
    BY <1>1, <1>2, StartFacts DEF CreatePortfolio
  <2>2. /\ cash' \in Nat /\ positions' \in [Symbols -> Position]
        /\ \A s \in Symbols : positions'[s].quantity = 0
    BY <1>2, IdleIsFine, PortfolioAssumption DEF CreatePortfolio, NoPosition
  <2>3. plan' = NoPlan /\ UNCHANGED <<allocations, task, executed>>
    BY <1>2 DEF CreatePortfolio
  <2>4. PortfolioTypeOK'
    BY <1>1, <2>1, <2>2, <2>3, IdleIsFine DEF PortfolioTypeOK
  <2> QED BY <2>1, <2>2, <2>3, <2>4
          DEF PortfolioInv, NothingUnopened, ActionsPriced, StaysFresh, NeverOverdrawn
<1>3. ASSUME NEW prices \in PriceMaps, NEW weighting \in Weightings, Allocate(weighting, prices)
      PROVE  PortfolioInv'
  <2>1. operations' \in Nat /\ task.kind = "idle"
    BY <1>1, <1>3, StartFacts DEF Allocate
  <2>2. allocations' \in Seq(Pending)
    <3>1. DOMAIN weighting = 1 .. Len(weighting) /\ Len(weighting) \in Nat
      BY <1>1, AmountFacts
    <3>2. allocations' = [i \in 1 .. Len(weighting) |->
             [symbol |-> weighting[i].symbol, amount |-> Amount(weighting[i], prices)]]
      BY <1>3, <3>1 DEF Allocate
    <3>3. allocations' \in [1 .. Len(weighting) -> Pending]
      BY <1>1, <3>2, AmountFacts DEF Pending
    <3> QED BY <3>1, <3>3
  <2>3. /\ UNCHANGED <<cash, positions, task, executed>>
        /\ plan' = [plan EXCEPT !.cashOnly = \A s \in Symbols : positions[s].quantity = 0]
    BY <1>3 DEF Allocate
  <2>4. PortfolioTypeOK'
    BY <1>1, <2>1, <2>2, <2>3 DEF PortfolioTypeOK
  <2> QED BY <2>1, <2>3, <2>4
          DEF PortfolioInv, NothingUnopened, ActionsPriced, StaysFresh, NeverOverdrawn
<1>4. ASSUME NEW prices \in PriceMaps, ExecuteAllocations(prices) PROVE PortfolioInv'
  <2>1. operations' \in Nat
    BY <1>1, <1>4, StartFacts DEF ExecuteAllocations
  <2>2. /\ task' = [kind |-> "allocations", list |-> allocations, prices |-> prices, available |-> 0]
        /\ UNCHANGED <<cash, positions, allocations, executed, plan>>
    BY <1>4 DEF ExecuteAllocations
  <2>3. PortfolioTypeOK'
    BY <1>1, <2>1, <2>2, InputFacts DEF PortfolioTypeOK
  <2> QED BY <2>2, <2>3
          DEF PortfolioInv, NothingUnopened, ActionsPriced, StaysFresh, NeverOverdrawn
<1>5. ASSUME NEW prices \in PriceMaps, UpdateMarketValues(prices) PROVE PortfolioInv'
  <2>1. operations' \in Nat /\ task.kind = "idle"
    BY <1>1, <1>5, StartFacts DEF UpdateMarketValues
  <2>2. ASSUME NEW s \in Symbols
        PROVE  /\ positions'[s] \in Position
               /\ positions'[s].open = positions[s].open
               /\ positions'[s].quantity = positions[s].quantity
    <3>1. positions[s] \in Position /\ prices[s] \in Nat
      BY <1>1, InputFacts DEF PortfolioTypeOK, PriceTable
    <3>2. \/ positions'[s] = positions[s]
          \/ positions'[s] = [positions[s] EXCEPT !.price = prices[s]]
      BY <1>5 DEF UpdateMarketValues
    <3> QED BY <3>1, <3>2 DEF Position
  <2>3. positions' \in [Symbols -> Position]
    <3>1. positions' = [s \in Symbols |-> positions'[s]]
      BY <1>5 DEF UpdateMarketValues
    <3> QED BY <2>2, <3>1
  <2>4. UNCHANGED <<cash, allocations, task, executed, plan>>
    BY <1>5 DEF UpdateMarketValues
  <2>5. PortfolioTypeOK'
    BY <1>1, <2>1, <2>3, <2>4 DEF PortfolioTypeOK
  <2>6. NeverOverdrawn' /\ NothingUnopened'
    BY <2>2, <2>4 DEF PortfolioInv, NeverOverdrawn, NothingUnopened
  <2> QED BY <2>1, <2>4, <2>5, <2>6 DEF PortfolioInv, ActionsPriced, StaysFresh
<1> QED BY <1>2, <1>3, <1>4, <1>5

LEMMA RebalanceKeepsInv ==
  ASSUME PortfolioInv, NEW prices \in PriceMaps, NEW target \in Targets,
         Rebalance(target, prices)
  PROVE  PortfolioInv'
<1>1. PortfolioTypeOK
  BY DEF PortfolioInv
<1>2. operations' \in Nat
  BY <1>1, StartFacts DEF Rebalance
<1>3. PICK list \in SortedByDrift(Actions(target, prices)) :
        task' = [kind |-> "rebalance", list |-> list, prices |-> prices,
                 available |-> 100 * cash - CashReserve * TotalEquity]
  BY DEF Rebalance
<1>4. /\ list \in Seq(Action)
      /\ \A i \in 1 .. Len(list) : prices[list[i].symbol] > 0
  <2>1. list \in Seq(Actions(target, prices))
    BY <1>1, ActionsFacts, SortedFacts
  <2>2. \A i \in 1 .. Len(list) : list[i] \in Actions(target, prices)
    BY <2>1
  <2> QED BY <1>1, <2>1, <2>2, ActionsFacts
<1>5. 100 * cash - CashReserve * TotalEquity \in Int /\ TotalEquity \in Nat
  <2>1. cash \in Nat /\ TotalEquity \in Nat /\ CashReserve \in Nat
    BY <1>1, TypeFacts, PortfolioAssumption
  <2> QED BY <2>1
<1>6. /\ executed' = <<>>
      /\ plan' = [equity |-> TotalEquity, target |-> target, cashOnly |-> FALSE,
                  fresh |-> \A s \in Symbols : positions[s].open => positions[s].price = prices[s]]
      /\ UNCHANGED <<cash, positions, allocations>>
  BY DEF Rebalance
<1>7. PortfolioTypeOK'
  <2>1. task' \in [kind : {"idle", "allocations", "rebalance"}, list : Seq(Pending) \cup Seq(Action),
                   prices : PriceTable, available : Int]
    BY <1>3, <1>4, <1>5, InputFacts
  <2>2. plan' \in [equity : Nat, target : [Symbols -> Nat], fresh : BOOLEAN, cashOnly : BOOLEAN]
    BY <1>5, <1>6, InputFacts
  <2>3. executed' \in Seq(Move)
    BY <1>6
  <2> QED BY <1>1, <1>2, <1>3, <1>4, <1>6, <2>1, <2>2, <2>3 DEF PortfolioTypeOK
<1>8. StaysFresh' /\ ActionsPriced'
  BY <1>3, <1>4, <1>6 DEF StaysFresh, ActionsPriced
<1>9. NeverOverdrawn' /\ NothingUnopened'
  BY <1>6 DEF PortfolioInv, NeverOverdrawn, NothingUnopened
<1> QED BY <1>7, <1>8, <1>9 DEF PortfolioInv
------------------------------------------------------------------------------
(* The invariant: trades and the steps between them.                       *)

\* What every purchase and every sale of shares does.  A position valued at the
\* price of the trade stays so, and a position that is opened is.
BuysShares(s, n, p) ==
  /\ cash' = cash - CostOf(n, p) /\ cash' \in Nat
  /\ positions' \in Portfolios
  /\ \A x \in Symbols \ {s} : positions'[x] = positions[x]
  /\ positions'[s].quantity = positions[s].quantity + n
  /\ ~positions'[s].open => positions'[s].quantity = 0
  /\ (positions[s].open => positions[s].price = p)
       => (positions'[s].open => positions'[s].price = p)

SellsShares(s, n, p) ==
  /\ cash' = cash + ProceedsOf(n, p) /\ cash' \in Nat
  /\ positions' \in Portfolios
  /\ \A x \in Symbols \ {s} : positions'[x] = positions[x]
  /\ n <= positions[s].quantity
  /\ positions'[s].quantity = positions[s].quantity - n
  /\ ~positions'[s].open => positions'[s].quantity = 0
  /\ (positions[s].open => positions[s].price = p)
       => (positions'[s].open => positions'[s].price = p)

LEMMA OpeningBuys ==
  ASSUME PortfolioInv, NEW s \in Symbols, NEW n \in Nat, NEW p \in Nat,
         CostOf(n, p) <= cash, cash' = cash - CostOf(n, p),
         positions' = Opened(s, n, p)
  PROVE  BuysShares(s, n, p)
<1>1. cash \in Nat /\ positions \in Portfolios
  BY TypeFacts DEF PortfolioInv
<1>2. cash' \in Nat
  <2>1. CostOf(n, p) \in Nat
    BY CostIsNat
  <2> QED BY <1>1, <2>1
<1>3. positions[s].quantity \in Nat /\ (~positions[s].open => positions[s].quantity = 0)
  BY <1>1, PositionFacts DEF PortfolioInv, NothingUnopened
<1>4. /\ positions' \in Portfolios
      /\ positions'[s].open
      /\ positions'[s].quantity = IF positions[s].open THEN positions[s].quantity + n ELSE n
      /\ positions'[s].price = IF positions[s].open THEN positions[s].price ELSE p
      /\ \A x \in Symbols \ {s} : positions'[x] = positions[x]
  BY <1>1, OpenedFacts
<1> QED BY <1>2, <1>3, <1>4 DEF BuysShares

LEMMA TaskFacts ==
  ASSUME PortfolioTypeOK, task.list # <<>>
  PROVE  /\ task.prices \in PriceTable
         /\ task.kind = "allocations" => Head(task.list) \in Pending /\ Tail(task.list) \in Seq(Pending)
         /\ task.kind = "rebalance" => Head(task.list) \in Action /\ Tail(task.list) \in Seq(Action)
         /\ task' = [task EXCEPT !.list = Tail(@)] =>
              /\ task' \in [kind : {"idle", "allocations", "rebalance"},
                            list : {Tail(task.list)}, prices : PriceTable, available : Int]
              /\ task'.kind = task.kind /\ task'.list = Tail(task.list)
              /\ task'.prices = task.prices
<1>1. /\ task \in [kind : {"idle", "allocations", "rebalance"}, list : Seq(Pending) \cup Seq(Action),
                   prices : PriceTable, available : Int]
      /\ task.kind = "allocations" => task.list \in Seq(Pending)
      /\ task.kind = "rebalance" => task.list \in Seq(Action)
  BY DEF PortfolioTypeOK
<1>2. task.prices \in PriceTable
  BY <1>1
<1>3. task.kind = "allocations" => Head(task.list) \in Pending /\ Tail(task.list) \in Seq(Pending)
  BY <1>1, TailFacts
<1>4. task.kind = "rebalance" => Head(task.list) \in Action /\ Tail(task.list) \in Seq(Action)
  BY <1>1, TailFacts
<1>5. ASSUME task' = [task EXCEPT !.list = Tail(@)]
      PROVE  /\ task' \in [kind : {"idle", "allocations", "rebalance"},
                           list : {Tail(task.list)}, prices : PriceTable, available : Int]
             /\ task'.kind = task.kind /\ task'.list = Tail(task.list)
             /\ task'.prices = task.prices
  BY <1>1, <1>5
<1> QED BY <1>2, <1>3, <1>4, <1>5

LEMMA TakenFacts ==
  ASSUME PortfolioTypeOK, task.kind = "rebalance", task.list # <<>>, TakeAction
  PROVE  /\ Head(task.list) \in Action /\ Tail(task.list) \in Seq(Action)
         /\ task.prices \in PriceTable
         /\ task' \in [kind : {"idle", "allocations", "rebalance"},
                       list : {Tail(task.list)}, prices : PriceTable, available : Int]
         /\ task'.kind = "rebalance" /\ task'.list = Tail(task.list)
         /\ task'.prices = task.prices
<1>1. task \in [kind : {"idle", "allocations", "rebalance"}, list : Seq(Pending) \cup Seq(Action),
                prices : PriceTable, available : Int]
  BY DEF PortfolioTypeOK
<1>2. Head(task.list) \in Action /\ Tail(task.list) \in Seq(Action)
  BY TaskFacts
<1>3. PICK k \in Int : k = StillAvailable(Head(task.list))
  BY <1>2, FilterFacts
<1>4. task' = [task EXCEPT !.list = Tail(@), !.available = k]
  BY <1>3 DEF TakeAction
<1> QED BY <1>1, <1>2, <1>3, <1>4

LEMMA AllocationKeepsInv ==
  ASSUME PortfolioInv, SkipAllocation \/ BuyAllocation \/ AllocationRaises
  PROVE  PortfolioInv'
<1>1. PortfolioTypeOK /\ task.kind = "allocations" /\ task.list # <<>>
  BY DEF PortfolioInv, SkipAllocation, BuyAllocation, AllocationRaises, NextAllocation
<1>2. UNCHANGED <<allocations, executed, operations, plan>>
  BY DEF SkipAllocation, BuyAllocation, AllocationRaises
<1>3. CASE AllocationRaises
  <2>1. task' = Idle /\ UNCHANGED <<cash, positions>>
    BY <1>3 DEF AllocationRaises
  <2>2. PortfolioTypeOK'
    BY <1>1, <1>2, <2>1, IdleIsFine DEF PortfolioTypeOK
  <2> QED BY <1>2, <2>1, <2>2, IdleIsFine
          DEF PortfolioInv, NothingUnopened, ActionsPriced, StaysFresh, NeverOverdrawn
<1>4. ASSUME task' = [task EXCEPT !.list = Tail(@)],
             cash' \in Nat, positions' \in [Symbols -> Position], NothingUnopened'
      PROVE  PortfolioInv'
  <2>1. /\ task' \in [kind : {"idle", "allocations", "rebalance"},
                      list : {Tail(task.list)}, prices : PriceTable, available : Int]
        /\ Tail(task.list) \in Seq(Pending)
        /\ task'.kind = "allocations" /\ task'.list = Tail(task.list)
    BY <1>1, <1>4, TaskFacts
  <2>2. PortfolioTypeOK'
    BY <1>1, <1>2, <1>4, <2>1 DEF PortfolioTypeOK
  <2>3. \A s \in Symbols : positions'[s].quantity \in Nat
    BY <1>4 DEF Position
  <2>4. NeverOverdrawn'
    BY <1>2, <1>4, <2>3 DEF PortfolioInv, NeverOverdrawn
  <2> QED BY <1>4, <2>1, <2>2, <2>4 DEF PortfolioInv, ActionsPriced, StaysFresh
<1>5. CASE SkipAllocation
  <2>1. task' = [task EXCEPT !.list = Tail(@)] /\ UNCHANGED <<cash, positions>>
    BY <1>5 DEF SkipAllocation
  <2>2. NothingUnopened'
    BY <2>1 DEF PortfolioInv, NothingUnopened
  <2> QED BY <1>1, <1>4, <2>1, <2>2 DEF PortfolioTypeOK
<1>6. CASE BuyAllocation
  <2> DEFINE a == Head(task.list)
             p == task.prices[a.symbol]
  <2>1. a \in Pending /\ task.prices \in PriceTable
    BY <1>1, TaskFacts
  <2>2. a.symbol \in Symbols /\ a.amount \in Nat /\ p \in Nat
    BY <2>1 DEF Pending, PriceTable
  <2>3. Shares(a) > 0 /\ CostOf(Shares(a), p) <= cash
    BY <1>6 DEF BuyAllocation
  <2>4. Shares(a) \in Nat
    <3>1. CASE p = 0
      BY <3>1 DEF Shares
    <3>2. CASE p # 0
      <4>1. 10000000 * p \in Nat \ {0}
        BY <2>2, <3>2, SMT
      <4>2. Shares(a) = a.amount \div (10000000 * p)
        BY <3>2, SMT DEF Shares
      <4> QED BY <2>2, <4>1, <4>2, Affords, SMT
    <3> QED BY <3>1, <3>2
  <2>5. /\ cash' = cash - CostOf(Shares(a), p) /\ positions' = Opened(a.symbol, Shares(a), p)
        /\ task' = [task EXCEPT !.list = Tail(@)]
    BY <1>6 DEF BuyAllocation
  <2>6. BuysShares(a.symbol, Shares(a), p)
    <3> HIDE DEF a, p
    <3> QED BY <2>2, <2>3, <2>4, <2>5, OpeningBuys
  <2>7. cash' \in Nat /\ positions' \in [Symbols -> Position] /\ NothingUnopened'
    BY <2>6 DEF BuysShares, Portfolios, PortfolioInv, NothingUnopened
  <2> QED BY <1>4, <2>5, <2>7
<1> QED BY <1>3, <1>5, <1>6
HeadOf == Head(task.list)
PriceNow == task.prices[HeadOf.symbol]

LEMMA NextActionFacts ==
  ASSUME PortfolioInv, NEW type, NextAction(type)
  PROVE  /\ PortfolioTypeOK /\ task.kind = "rebalance" /\ task.list # <<>>
         /\ HeadOf \in Action /\ HeadOf.symbol \in Symbols /\ HeadOf.quantity \in Nat
         /\ HeadOf.type = type
         /\ PriceNow \in Nat \ {0}
<1>1. PortfolioTypeOK /\ task.kind = "rebalance" /\ task.list # <<>> /\ HeadOf.type = type
  BY DEF PortfolioInv, NextAction, HeadOf
<1>2. task.list \in Seq(Action) /\ task.prices \in PriceTable /\ HeadOf \in Action
  BY <1>1, TaskFacts DEF PortfolioTypeOK, HeadOf
<1>3. HeadOf.symbol \in Symbols /\ HeadOf.quantity \in Nat
  BY <1>2 DEF Action
<1>4. PriceNow > 0
  <2>1. 1 \in 1 .. Len(task.list) /\ task.list[1] = HeadOf
    BY <1>1, <1>2, TailFacts DEF HeadOf
  <2> QED BY <1>1, <2>1 DEF PortfolioInv, ActionsPriced, PriceNow
<1>5. PriceNow \in Nat
  BY <1>2, <1>3 DEF PriceTable, PriceNow
<1> QED BY <1>1, <1>2, <1>3, <1>4, <1>5

LEMMA BuyFacts ==
  ASSUME PortfolioInv, ExecuteBuy
  PROVE  \E n \in Nat :
           /\ BuysShares(HeadOf.symbol, n, PriceNow)
           /\ n <= HeadOf.quantity
           /\ \E m \in Nat : /\ n <= m
                             /\ executed' = Append(executed, [symbol |-> HeadOf.symbol,
                                                              quantity |-> m, moved |-> n])
<1> DEFINE m == Allowed(HeadOf)
           n == Bought(m, PriceNow)
<1>1. NextAction("BUY")
  BY DEF ExecuteBuy
<1>2. /\ PortfolioTypeOK /\ HeadOf \in Action /\ HeadOf.symbol \in Symbols
      /\ HeadOf.quantity \in Nat /\ PriceNow \in Nat \ {0}
  BY <1>1, NextActionFacts
<1>3. /\ cash' = cash - CostOf(n, PriceNow)
      /\ positions' = IF n = 0 /\ CostOf(m, PriceNow) > cash
                      THEN positions ELSE Opened(HeadOf.symbol, n, PriceNow)
      /\ executed' = Append(executed, [symbol |-> HeadOf.symbol, quantity |-> m, moved |-> n])
  BY DEF ExecuteBuy, HeadOf, PriceNow, Executed
<1>4. m \in Nat /\ m <= HeadOf.quantity
  BY <1>2, FilterFacts
<1> HIDE DEF m
<1>5. cash \in Nat /\ positions \in Portfolios
  BY <1>2, TypeFacts
<1>6. n \in Nat /\ n <= m /\ CostOf(n, PriceNow) <= cash
  BY <1>2, <1>4, <1>5, BoughtIsPaid
<1> HIDE DEF n
<1>7. BuysShares(HeadOf.symbol, n, PriceNow)
  <2>1. CASE positions' = Opened(HeadOf.symbol, n, PriceNow)
    BY <1>2, <1>3, <1>6, <2>1, OpeningBuys
  <2>2. CASE n = 0 /\ positions' = positions
    <3>1. CostOf(n, PriceNow) \in Nat
      BY <1>2, <1>6, CostIsNat
    <3>2. positions[HeadOf.symbol].quantity \in Nat
      BY <1>2, <1>5, PositionFacts
    <3>3. cash' \in Nat /\ cash' = cash - CostOf(n, PriceNow)
      BY <1>3, <1>5, <1>6, <3>1
    <3>4. ~positions[HeadOf.symbol].open => positions[HeadOf.symbol].quantity = 0
      BY <1>2 DEF PortfolioInv, NothingUnopened
    <3>5. positions[HeadOf.symbol].quantity = positions[HeadOf.symbol].quantity + n
      BY <2>2, <3>2
    <3> QED BY <1>5, <2>2, <3>3, <3>4, <3>5 DEF BuysShares
  <2> QED BY <1>3, <2>1, <2>2
<1>8. n <= HeadOf.quantity
  BY <1>2, <1>4, <1>6
<1> QED BY <1>3, <1>4, <1>6, <1>7, <1>8

LEMMA SellFacts ==
  ASSUME PortfolioInv, ExecuteSell
  PROVE  \E n \in Nat :
           /\ SellsShares(HeadOf.symbol, n, PriceNow)
           /\ n = HeadOf.quantity \/ n = positions[HeadOf.symbol].quantity
           /\ n <= HeadOf.quantity
           /\ executed' = Append(executed, [symbol |-> HeadOf.symbol,
                                            quantity |-> HeadOf.quantity, moved |-> n])
<1> DEFINE s == HeadOf.symbol
           held == positions[s].quantity
           n == Sold(HeadOf.quantity, held)
<1>1. NextAction("SELL")
  BY DEF ExecuteSell
<1>2. PortfolioTypeOK /\ s \in Symbols /\ HeadOf.quantity \in Nat /\ PriceNow \in Nat \ {0}
  BY <1>1, NextActionFacts
<1>3. /\ cash' = cash + ProceedsOf(n, PriceNow)
      /\ positions' = IF n = 0 THEN positions
                      ELSE [positions EXCEPT ![s] = [open |-> TRUE, quantity |-> held - n,
                                                     price |-> PriceNow]]
      /\ executed' = Append(executed, [symbol |-> s, quantity |-> HeadOf.quantity, moved |-> n])
  BY DEF ExecuteSell, HeadOf, PriceNow, Executed
<1>4. cash \in Nat /\ positions \in Portfolios
  BY <1>2, TypeFacts
<1>5. held \in Nat
  BY <1>2, <1>4, PositionFacts
<1>6. ~positions[s].open => held = 0
  BY <1>2 DEF PortfolioInv, NothingUnopened
<1> HIDE DEF s
<1>7. /\ n \in Nat /\ n <= held /\ n <= HeadOf.quantity
      /\ n = HeadOf.quantity \/ n = held
  BY <1>2, <1>5 DEF Sold
<1> HIDE DEF n
<1>8. SellsShares(s, n, PriceNow)
  <2>1. cash' \in Nat
    <3>1. ProceedsOf(n, PriceNow) \in Nat
      BY <1>2, <1>7, ProceedsIsNat
    <3> QED BY <1>3, <1>4, <3>1
  <2>2. CASE n = 0
    BY <1>2, <1>3, <1>4, <1>5, <1>6, <1>7, <2>1, <2>2 DEF SellsShares
  <2>3. CASE n # 0
    <3> DEFINE left == [open |-> TRUE, quantity |-> held - n, price |-> PriceNow]
    <3>1. positions' = [positions EXCEPT ![s] = left]
      BY <1>3, <2>3
    <3>2. left \in Position
      BY <1>2, <1>5, <1>7 DEF Position
    <3>3. left.open /\ left.quantity = held - n /\ left.price = PriceNow
      OBVIOUS
    <3> HIDE DEF left
    <3>4. positions' \in Portfolios
      BY <1>4, <3>1, <3>2 DEF Portfolios
    <3>5. positions'[s] = left /\ \A x \in Symbols \ {s} : positions'[x] = positions[x]
      BY <1>2, <1>4, <3>1 DEF Portfolios
    <3> QED BY <1>3, <1>7, <2>1, <3>3, <3>4, <3>5 DEF SellsShares
  <2> QED BY <2>2, <2>3
<1> QED BY <1>3, <1>7, <1>8 DEF s

LEMMA ActionKeepsInv ==
  ASSUME PortfolioInv, DropAction \/ ExecuteBuy \/ ExecuteSell
  PROVE  PortfolioInv'
<1>1. NextAction("BUY") \/ NextAction("SELL")
  BY DEF DropAction, ExecuteBuy, ExecuteSell
<1>2. /\ PortfolioTypeOK /\ task.kind = "rebalance" /\ task.list # <<>>
      /\ HeadOf \in Action /\ HeadOf.symbol \in Symbols /\ HeadOf.quantity \in Nat
      /\ PriceNow \in Nat \ {0}
  BY <1>1, NextActionFacts
<1>3. TakeAction /\ UNCHANGED <<allocations, operations, plan>>
  BY DEF DropAction, ExecuteBuy, ExecuteSell
<1>4. /\ Tail(task.list) \in Seq(Action)
      /\ task' \in [kind : {"idle", "allocations", "rebalance"},
                    list : {Tail(task.list)}, prices : PriceTable, available : Int]
      /\ task'.kind = "rebalance" /\ task'.list = Tail(task.list)
      /\ task'.prices = task.prices
  BY <1>2, <1>3, TakenFacts
<1>5. ActionsPriced'
  <2>1. \A i \in 1 .. Len(Tail(task.list)) :
          Tail(task.list)[i] = task.list[i + 1] /\ i + 1 \in 1 .. Len(task.list)
    BY <1>2, TailFacts DEF PortfolioTypeOK
  <2>2. \A i \in 1 .. Len(task.list) : task.prices[task.list[i].symbol] > 0
    BY <1>2 DEF PortfolioInv, ActionsPriced
  <2>3. \A i \in 1 .. Len(Tail(task.list)) : task.prices[Tail(task.list)[i].symbol] > 0
    BY <2>1, <2>2
  <2> QED BY <1>4, <2>3 DEF ActionsPriced
<1>6. ASSUME cash' \in Nat, positions' \in Portfolios, NothingUnopened', StaysFresh',
             executed' \in Seq(Move), \A i \in DOMAIN executed' : executed'[i].moved <= executed'[i].quantity
      PROVE  PortfolioInv'
  <2>1. PortfolioTypeOK'
    BY <1>2, <1>3, <1>4, <1>6 DEF PortfolioTypeOK, Portfolios
  <2>2. \A s \in Symbols : positions'[s].quantity \in Nat
    BY <1>6, PositionFacts
  <2>3. NeverOverdrawn'
    BY <1>6, <2>2 DEF NeverOverdrawn
  <2> QED BY <1>5, <1>6, <2>1, <2>3 DEF PortfolioInv
<1>7. ASSUME NEW n \in Nat, NEW m \in Nat, n <= m,
             executed' = Append(executed, [symbol |-> HeadOf.symbol, quantity |-> m, moved |-> n])
      PROVE  /\ executed' \in Seq(Move)
             /\ \A i \in DOMAIN executed' : executed'[i].moved <= executed'[i].quantity
  <2> DEFINE e == [symbol |-> HeadOf.symbol, quantity |-> m, moved |-> n]
  <2>1. e \in Move /\ e.moved <= e.quantity
    BY <1>2, <1>7 DEF Move
  <2>2. executed \in Seq(Move) /\ \A i \in DOMAIN executed : executed[i].moved <= executed[i].quantity
    BY <1>2 DEF PortfolioInv, PortfolioTypeOK, NeverOverdrawn
  <2>3. executed' = Append(executed, e)
    BY <1>7
  <2> HIDE DEF e
  <2> QED BY <2>1, <2>2, <2>3
\* A trade at the price of the action keeps positions opened and fresh.
<1>8. ASSUME positions' \in Portfolios,
             \A x \in Symbols \ {HeadOf.symbol} : positions'[x] = positions[x],
             ~positions'[HeadOf.symbol].open => positions'[HeadOf.symbol].quantity = 0,
             (positions[HeadOf.symbol].open => positions[HeadOf.symbol].price = PriceNow)
               => (positions'[HeadOf.symbol].open => positions'[HeadOf.symbol].price = PriceNow)
      PROVE  NothingUnopened' /\ StaysFresh'
  <2>1. NothingUnopened'
    BY <1>8 DEF PortfolioInv, NothingUnopened
  <2>2. ASSUME plan.fresh, NEW s \in Symbols, positions'[s].open PROVE positions'[s].price = task.prices[s]
    <3>1. \A x \in Symbols : positions[x].open => positions[x].price = task.prices[x]
      BY <1>2, <2>2 DEF PortfolioInv, StaysFresh
    <3> QED BY <1>2, <1>8, <2>2, <3>1 DEF PriceNow
  <2>3. StaysFresh'
    BY <1>3, <1>4, <2>2 DEF StaysFresh
  <2> QED BY <2>1, <2>3
<1>9. CASE DropAction
  <2>1. UNCHANGED <<cash, positions, executed>>
    BY <1>9 DEF DropAction
  <2>2. cash' \in Nat /\ positions' \in Portfolios
    BY <1>2, <2>1, TypeFacts
  <2>3. NothingUnopened' /\ StaysFresh'
    BY <1>2, <1>3, <1>4, <2>1 DEF PortfolioInv, NothingUnopened, StaysFresh
  <2> QED BY <1>2, <1>6, <2>1, <2>2, <2>3 DEF PortfolioInv, PortfolioTypeOK, NeverOverdrawn
<1>10. CASE ExecuteBuy
  <2>1. PICK n \in Nat :
          /\ BuysShares(HeadOf.symbol, n, PriceNow)
          /\ \E m \in Nat : /\ n <= m
                            /\ executed' = Append(executed, [symbol |-> HeadOf.symbol,
                                                             quantity |-> m, moved |-> n])
    BY <1>10, BuyFacts
  <2>2. NothingUnopened' /\ StaysFresh'
    BY <1>8, <2>1 DEF BuysShares
  <2> QED BY <1>6, <1>7, <2>1, <2>2 DEF BuysShares
<1>11. CASE ExecuteSell
  <2>1. PICK n \in Nat :
          /\ SellsShares(HeadOf.symbol, n, PriceNow)
          /\ n <= HeadOf.quantity
          /\ executed' = Append(executed, [symbol |-> HeadOf.symbol,
                                           quantity |-> HeadOf.quantity, moved |-> n])
    BY <1>11, SellFacts
  <2>2. NothingUnopened' /\ StaysFresh'
    BY <1>8, <2>1 DEF SellsShares
  <2> QED BY <1>2, <1>6, <1>7, <2>1, <2>2 DEF SellsShares
<1> QED BY <1>9, <1>10, <1>11

LEMMA ReturnKeepsInv == ASSUME PortfolioInv, Returns PROVE PortfolioInv'
<1>1. /\ task' = Idle /\ plan' = [plan EXCEPT !.cashOnly = FALSE]
      /\ UNCHANGED <<cash, positions, allocations, executed, operations>>
  BY DEF Returns
<1>2. PortfolioTypeOK'
  BY <1>1, IdleIsFine DEF PortfolioInv, PortfolioTypeOK
<1> QED BY <1>1, <1>2, IdleIsFine
        DEF PortfolioInv, NothingUnopened, ActionsPriced, StaysFresh, NeverOverdrawn

LEMMA PortfolioInitInv == PortfolioInit => PortfolioInv
<1> SUFFICES ASSUME PortfolioInit PROVE PortfolioInv
  OBVIOUS
<1>1. /\ cash = 1000 * InitialCapital /\ positions = [s \in Symbols |-> NoPosition]
      /\ allocations = <<>> /\ task = Idle /\ executed = <<>> /\ operations = 0 /\ plan = NoPlan
  BY DEF PortfolioInit
<1>2. cash \in Nat
  BY <1>1, PortfolioAssumption
<1>3. PortfolioTypeOK
  BY <1>1, <1>2, IdleIsFine DEF PortfolioTypeOK
<1>4. \A s \in Symbols : positions[s].quantity = 0
  BY <1>1 DEF NoPosition
<1> QED BY <1>1, <1>2, <1>3, <1>4, IdleIsFine
        DEF PortfolioInv, NothingUnopened, ActionsPriced, StaysFresh, NeverOverdrawn

LEMMA PortfolioStep == PortfolioInv /\ [PortfolioNext]_portfolioVars => PortfolioInv'
<1> SUFFICES ASSUME PortfolioInv, [PortfolioNext]_portfolioVars PROVE PortfolioInv'
  OBVIOUS
<1>1. CASE UNCHANGED portfolioVars
  BY <1>1 DEF PortfolioInv, portfolioVars, PortfolioTypeOK, NothingUnopened, ActionsPriced,
              StaysFresh, NeverOverdrawn
<1>2. ASSUME NEW prices \in PriceMaps, NEW target \in Targets, Rebalance(target, prices)
      PROVE  PortfolioInv'
  BY <1>2, RebalanceKeepsInv
<1> QED BY <1>1, <1>2, OperationKeepsInv, AllocationKeepsInv, ActionKeepsInv, ReturnKeepsInv
        DEF PortfolioNext

\* The cash and the holdings never go below zero and no trade moves more shares
\* than the action reported says, whatever _execute_buy and _execute_sell are
\* asked for and at whatever prices.
THEOREM NeverOverdrawnAlways == PortfolioSpec => []NeverOverdrawn
<1>1. PortfolioSpec => []PortfolioInv
  BY PortfolioInitInv, PortfolioStep, PTL DEF PortfolioSpec
<1>2. PortfolioInv => NeverOverdrawn
  BY DEF PortfolioInv
<1> QED BY <1>1, <1>2, PTL
------------------------------------------------------------------------------
(* What a rebalance costs.                                                 *)

\* A fresh position is worth its shares at the price of the rebalance.
LEMMA FreshWorth ==
  ASSUME NEW h \in Portfolios, NEW s \in Symbols, NEW p \in Nat,
         h[s].open => h[s].price = p, ~h[s].open => h[s].quantity = 0
  PROVE  Worth(h[s].quantity, h[s].price) = Worth(h[s].quantity, p)
<1>1. h[s].quantity \in Nat /\ h[s].price \in Nat /\ h[s].open \in BOOLEAN
  BY PositionFacts
<1>2. CASE h[s].open
  BY <1>2
<1>3. CASE ~h[s].open
  BY <1>1, <1>3, WorthIsNat
<1> QED BY <1>1, <1>2, <1>3

\* The shares a trade in one symbol moves, valued at its price.
LEMMA MovedByTrade ==
  ASSUME positions \in Portfolios, positions' \in Portfolios, task.prices \in PriceTable,
         NEW s \in Symbols, NEW n \in Nat,
         \A x \in Symbols \ {s} : positions'[x] = positions[x],
         \/ positions'[s].quantity = positions[s].quantity + n
         \/ positions'[s].quantity = positions[s].quantity - n
  PROVE  SumFunction([x \in Symbols |-> SharesMoved(x) * task.prices[x]]) = n * task.prices[s]
<1> DEFINE v == [x \in Symbols |-> SharesMoved(x) * task.prices[x]]
<1>1. positions[s].quantity \in Nat /\ task.prices[s] \in Nat
  BY PositionFacts DEF PriceTable
<1>2. SharesMoved(s) = n
  BY <1>1 DEF SharesMoved
<1>3. ASSUME NEW x \in Symbols \ {s} PROVE SharesMoved(x) * task.prices[x] = 0
  <2>1. positions[x].quantity \in Nat /\ task.prices[x] \in Nat
    BY PositionFacts DEF PriceTable
  <2>2. SharesMoved(x) = 0
    BY <2>1 DEF SharesMoved
  <2> QED BY <2>1, <2>2
<1>4. PICK m \in Nat : m = n * task.prices[s]
  BY <1>1
<1>5. v[s] = m /\ \A x \in Symbols \ {s} : v[x] = 0
  BY <1>2, <1>3, <1>4
<1>6. SumFunction(v) = SumFunctionOnSet(v, Symbols)
  BY DEF SumFunction
<1> HIDE DEF v
<1>7. IsFiniteSet(Symbols) /\ IsFiniteSet({s}) /\ \A x \in Symbols : v[x] \in Int
  <2>1. IsFiniteSet(Symbols) /\ IsFiniteSet({s})
    BY PortfolioAssumption, FS_Singleton
  <2>2. \A x \in Symbols : v[x] \in Int
    BY <1>4, <1>5
  <2> QED BY <2>1, <2>2
<1>8. SumFunctionOnSet(v, Symbols) = SumFunctionOnSet(v, {s})
  BY <1>5, <1>7, SumOverSupport
<1>9. SumFunctionOnSet(v, {s}) = v[s] + SumFunctionOnSet(v, {})
  <2>1. {s} \ {s} = {} /\ \A x \in {s} : v[x] \in Int
    BY <1>7
  <2>2. \A x \in {s} : SumFunctionOnSet(v, {s}) = v[x] + SumFunctionOnSet(v, {s} \ {x})
    BY <1>7, <2>1, SumByElement
  <2> QED BY <2>1, <2>2
<1>10. SumFunctionOnSet(v, {}) = 0
  BY SumOfNothing
<1>11. SumFunction(v) = m
  BY <1>5, <1>6, <1>8, <1>9, <1>10
<1> QED BY <1>4, <1>11 DEF v

LEMMA NothingMoved ==
  ASSUME positions \in Portfolios, task.prices \in PriceTable, UNCHANGED positions
  PROVE  SumFunction([x \in Symbols |-> SharesMoved(x) * task.prices[x]]) = 0
<1> DEFINE v == [x \in Symbols |-> SharesMoved(x) * task.prices[x]]
<1>1. ASSUME NEW x \in Symbols PROVE SharesMoved(x) * task.prices[x] = 0
  <2>1. positions[x].quantity \in Nat /\ task.prices[x] \in Nat
    BY PositionFacts DEF PriceTable
  <2>2. SharesMoved(x) = 0
    BY <2>1 DEF SharesMoved
  <2> QED BY <2>1, <2>2
<1>2. \A x \in Symbols : v[x] = 0
  BY <1>1
<1>3. SumFunction(v) = SumFunctionOnSet(v, Symbols)
  BY DEF SumFunction
<1> HIDE DEF v
<1>4. SumFunctionOnSet(v, Symbols) = SumFunctionOnSet(v, {})
  <2>1. IsFiniteSet(Symbols) /\ {} \in SUBSET Symbols
    BY PortfolioAssumption
  <2> QED BY <1>2, <2>1, SumOverSupport
<1>5. SumFunction(v) = 0
  BY <1>3, <1>4, SumOfNothing
<1> QED BY <1>5 DEF v

\* The equity after a trade at the price of a fresh position.
LEMMA EquityAfterFreshTrade ==
  ASSUME PortfolioInv, NEW s \in Symbols, NEW n \in Nat, NEW p \in Nat,
         positions[s].open => positions[s].price = p,
         BuysShares(s, n, p) \/ SellsShares(s, n, p)
  PROVE  /\ TotalEquity' = TotalEquity - TransactionCost * (n * p)
         /\ \A x \in Symbols \ {s} : positions'[x] = positions[x]
         /\ positions' \in Portfolios
         /\ \/ positions'[s].quantity = positions[s].quantity + n
            \/ positions'[s].quantity = positions[s].quantity - n
<1> DEFINE q == positions[s].quantity
           r == positions'[s].quantity
<1>1. cash \in Nat /\ positions \in Portfolios
  BY TypeFacts DEF PortfolioInv
<1>2. /\ cash' \in Nat /\ positions' \in Portfolios
      /\ \A x \in Symbols \ {s} : positions'[x] = positions[x]
  BY DEF BuysShares, SellsShares
<1>3. Worth(positions[s].quantity, positions[s].price) = Worth(q, p)
  <2>1. ~positions[s].open => positions[s].quantity = 0
    BY DEF PortfolioInv, NothingUnopened
  <2> QED BY <1>1, <2>1, FreshWorth
<1>4. Worth(positions'[s].quantity, positions'[s].price) = Worth(r, p)
  <2>1. ~positions'[s].open => positions'[s].quantity = 0
    BY DEF BuysShares, SellsShares
  <2>2. positions'[s].open => positions'[s].price = p
    BY DEF BuysShares, SellsShares
  <2> QED BY <1>2, <2>1, <2>2, FreshWorth
<1>5. /\ EquityOf(cash', positions') = EquityOf(cash, positions) - cash + cash'
                                       - Worth(q, p) + Worth(r, p)
      /\ EquityOf(cash, positions) \in Int
  <2>1. cash \in Int /\ cash' \in Int
    BY <1>1, <1>2
  <2> QED BY <1>1, <1>2, <1>3, <1>4, <2>1, EquityAfterTrade
<1>6. q \in Nat /\ r \in Nat
  BY <1>1, <1>2, PositionFacts
<1>7. Worth(q, p) \in Nat /\ Worth(r, p) \in Nat /\ Worth(n, p) \in Nat
  BY <1>6, WorthIsNat
<1>8. PICK fee \in Int : fee = TransactionCost * (n * p)
  BY PortfolioAssumption
<1>9. ASSUME (cash' - cash) + (Worth(r, p) - Worth(q, p)) = -fee
      PROVE  TotalEquity' = TotalEquity - fee
  <2>1. /\ TotalEquity' = TotalEquity - cash + cash' - Worth(q, p) + Worth(r, p)
        /\ TotalEquity \in Int
    BY <1>5, EquityNow, EquityThen
  <2> HIDE DEF q, r
  <2> QED BY <1>1, <1>2, <1>7, <1>9, <2>1
<1>10. CASE BuysShares(s, n, p)
  <2>1. cash' = cash - CostOf(n, p) /\ r = q + n
    BY <1>10 DEF BuysShares
  <2> HIDE DEF q, r
  <2>2. Worth(r, p) = Worth(q, p) + Worth(n, p)
    BY <1>6, <2>1, WorthOfSum
  <2>3. CostOf(n, p) = Worth(n, p) + fee
    BY <1>8, CostIsWorthAndFee
  <2>4. (cash' - cash) + (Worth(r, p) - Worth(q, p)) = -fee
    BY <1>1, <1>7, <2>1, <2>2, <2>3
  <2> QED BY <1>2, <1>8, <1>9, <2>1, <2>4 DEF q, r
<1>11. CASE SellsShares(s, n, p)
  <2>1. cash' = cash + ProceedsOf(n, p) /\ r = q - n /\ n <= q
    BY <1>11 DEF SellsShares
  <2> HIDE DEF q, r
  <2>2. Worth(q, p) = Worth(r, p) + Worth(n, p)
    <3>1. q = r + n
      BY <1>6, <2>1
    <3> QED BY <1>6, <3>1, WorthOfSum
  <2>3. ProceedsOf(n, p) = Worth(n, p) - fee
    BY <1>8, CostIsWorthAndFee
  <2>4. (cash' - cash) + (Worth(r, p) - Worth(q, p)) = -fee
    BY <1>1, <1>7, <2>1, <2>2, <2>3
  <2> QED BY <1>2, <1>8, <1>9, <2>1, <2>4 DEF q, r
<1> QED BY <1>10, <1>11

LEMMA RebalanceSteps ==
  ASSUME PortfolioInv, [PortfolioNext]_portfolioVars, task.kind = "rebalance"
  PROVE  DropAction \/ ExecuteBuy \/ ExecuteSell \/ Returns \/ UNCHANGED portfolioVars
<1>1. ~Start
  BY IdleIsFine DEF Start
<1> QED BY <1>1 DEF PortfolioNext, CreatePortfolio, Allocate, ExecuteAllocations, UpdateMarketValues,
            Rebalance, SkipAllocation, BuyAllocation, AllocationRaises, NextAllocation

LEMMA RebalanceCost ==
  ASSUME PortfolioInv, [PortfolioNext]_portfolioVars, task.kind = "rebalance", plan.fresh
  PROVE  TotalEquity' = TotalEquity
           - TransactionCost * SumFunction([s \in Symbols |-> SharesMoved(s) * task.prices[s]])
<1> DEFINE moved == SumFunction([s \in Symbols |-> SharesMoved(s) * task.prices[s]])
<1>1. cash \in Nat /\ positions \in Portfolios /\ task.prices \in PriceTable /\ TotalEquity \in Nat
  <2>1. task.prices \in PriceTable
    BY DEF PortfolioInv, PortfolioTypeOK
  <2> QED BY <2>1, TypeFacts DEF PortfolioInv
<1>2. \A s \in Symbols : positions[s].open => positions[s].price = task.prices[s]
  BY DEF PortfolioInv, StaysFresh
<1>3. CASE UNCHANGED <<cash, positions>>
  <2>1. TotalEquity' = TotalEquity
    BY <1>3, EquityNow, EquityThen
  <2>2. moved = 0
    BY <1>1, <1>3, NothingMoved
  <2> HIDE DEF moved
  <2>3. TotalEquity' = TotalEquity - TransactionCost * moved
    BY <1>1, <2>1, <2>2, PortfolioAssumption
  <2> QED BY <2>3 DEF moved
<1>4. ASSUME NEW s \in Symbols, NEW n \in Nat, NEW p \in Nat \ {0}, p = task.prices[s],
             BuysShares(s, n, p) \/ SellsShares(s, n, p)
      PROVE  TotalEquity' = TotalEquity - TransactionCost * moved
  <2>1. /\ TotalEquity' = TotalEquity - TransactionCost * (n * p)
        /\ \A x \in Symbols \ {s} : positions'[x] = positions[x]
        /\ positions' \in Portfolios
        /\ \/ positions'[s].quantity = positions[s].quantity + n
           \/ positions'[s].quantity = positions[s].quantity - n
    <3>1. positions[s].open => positions[s].price = p
      BY <1>2, <1>4
    <3> QED BY <1>4, <3>1, EquityAfterFreshTrade
  <2>2. moved = n * p
    BY <1>1, <1>4, <2>1, MovedByTrade
  <2> HIDE DEF moved
  <2> QED BY <2>1, <2>2
<1>5. CASE ExecuteBuy
  <2>1. NextAction("BUY")
    BY <1>5 DEF ExecuteBuy
  <2>2. HeadOf.symbol \in Symbols /\ PriceNow \in Nat \ {0} /\ PriceNow = task.prices[HeadOf.symbol]
    BY <2>1, NextActionFacts DEF PriceNow
  <2>3. PICK n \in Nat : BuysShares(HeadOf.symbol, n, PriceNow)
    BY <1>5, BuyFacts
  <2> QED BY <1>4, <2>2, <2>3
<1>6. CASE ExecuteSell
  <2>1. NextAction("SELL")
    BY <1>6 DEF ExecuteSell
  <2>2. HeadOf.symbol \in Symbols /\ PriceNow \in Nat \ {0} /\ PriceNow = task.prices[HeadOf.symbol]
    BY <2>1, NextActionFacts DEF PriceNow
  <2>3. PICK n \in Nat : SellsShares(HeadOf.symbol, n, PriceNow)
    BY <1>6, SellFacts
  <2> QED BY <1>4, <2>2, <2>3
<1> QED BY <1>3, <1>5, <1>6, RebalanceSteps DEF DropAction, Returns, portfolioVars

\* Each trade of a rebalance at fresh prices costs the transaction cost and
\* nothing else, whether the reserve or the cash cut it or not.
THEOREM RebalanceCostsItsFees == PortfolioSpec => RebalanceCostsOnly
<1>1. PortfolioInv /\ [PortfolioNext]_portfolioVars
        => [task.kind = "rebalance" /\ plan.fresh =>
              TotalEquity' = TotalEquity
                - TransactionCost * SumFunction([s \in Symbols |-> SharesMoved(s) * task.prices[s]])]_portfolioVars
  BY RebalanceCost
<1> QED BY <1>1, PortfolioInitInv, PortfolioStep, PTL DEF PortfolioSpec, RebalanceCostsOnly
------------------------------------------------------------------------------
(* Allocations of a portfolio that is all cash.                            *)

\* Amounts are scaled by this against the money of the model.
Unit == 10000000

LEMMA UnitIsNat == Unit \in Nat \ {0}
BY SMT DEF Unit

\* The reserve pays for the transaction costs.
Cheap == (100 - CashReserve) * (1000 + TransactionCost) <= 100000

\* The amounts of a list of allocations, and that the cash pays for them with
\* their costs.
Promised(list) ==
  SumFunctionOnSet([i \in 1 .. Len(list) |-> list[i].amount], 1 .. Len(list))
Backed(list, c) == Promised(list) * (1000 + TransactionCost) <= Unit * c

AllocationsBacked ==
  Cheap /\ plan.cashOnly =>
    /\ task.kind # "rebalance"
    /\ task.kind = "idle" => Backed(allocations, cash)
    /\ task.kind = "allocations" => Backed(task.list, cash)

FundingInv == AllocationsBacked /\ AllocationsAreFunded

LEMMA PromisedIsNat == ASSUME NEW list \in Seq(Pending) PROVE Promised(list) \in Nat
<1> DEFINE n == Len(list)
           v == [i \in 1 .. n |-> list[i].amount]
<1>1. n \in Nat /\ \A i \in 1 .. n : v[i] \in Nat
  <2>1. n \in Nat /\ \A i \in 1 .. n : list[i] \in Pending
    OBVIOUS
  <2>2. \A a \in Pending : a.amount \in Nat
    BY DEF Pending
  <2> QED BY <2>1, <2>2
<1>2. Promised(list) = SumFunctionOnSet(v, 1 .. n)
  BY DEF Promised
<1> HIDE DEF n, v
<1>3. IsFiniteSet(1 .. n)
  BY <1>1, FS_Interval
<1> QED BY <1>1, <1>2, <1>3, SumOfNaturals

LEMMA PromisedOfTail ==
  ASSUME NEW list \in Seq(Pending), list # <<>>
  PROVE  Promised(list) = Head(list).amount + Promised(Tail(list))
<1> DEFINE rest == Tail(list)
           n == Len(rest)
           v == [i \in 1 .. n + 1 |-> list[i].amount]
           w == [i \in 1 .. n |-> rest[i].amount]
<1>1. /\ n \in Nat /\ Len(list) = n + 1
      /\ \A i \in 1 .. n : rest[i] = list[i + 1]
      /\ \A i \in 1 .. n + 1 : list[i] \in Pending
      /\ list[1] = Head(list)
  OBVIOUS
<1> HIDE DEF n, rest
<1>2. \A i \in 1 .. n + 1 : v[i] \in Int
  BY <1>1 DEF Pending
<1>3. \A i \in 1 .. n : w[i] = v[i + 1]
  BY <1>1
<1>4. /\ Promised(list) = SumFunctionOnSet(v, 1 .. n + 1)
      /\ Promised(rest) = SumFunctionOnSet(w, 1 .. n)
      /\ v[1] = Head(list).amount
  BY <1>1 DEF Promised, n
<1> HIDE DEF v, w
<1>5. SumFunctionOnSet(v, 1 .. n + 1) = v[1] + SumFunctionOnSet(w, 1 .. n)
  BY <1>1, <1>2, <1>3, SumOfTail
<1> QED BY <1>4, <1>5 DEF rest

\* What is all cash is worth its cash.
LEMMA CashOnlyEquity ==
  ASSUME PortfolioTypeOK, \A s \in Symbols : positions[s].quantity = 0
  PROVE  TotalEquity = cash
<1> DEFINE v == [s \in Symbols |-> Worth(positions[s].quantity, positions[s].price)]
<1>1. cash \in Nat /\ positions \in Portfolios
  BY TypeFacts
<1>2. \A s \in Symbols : v[s] = 0
  <2>1. ASSUME NEW s \in Symbols PROVE Worth(positions[s].quantity, positions[s].price) = 0
    <3>1. positions[s].price \in Nat
      BY <1>1, PositionFacts
    <3> QED BY <3>1, WorthIsNat
  <2> QED BY <2>1
<1>3. TotalEquity = cash + SumFunctionOnSet(v, Symbols)
  BY EquityNow DEF EquityOf
<1> HIDE DEF v
<1>4. SumFunctionOnSet(v, Symbols) = SumFunctionOnSet(v, {})
  <2>1. IsFiniteSet(Symbols) /\ {} \in SUBSET Symbols
    BY PortfolioAssumption
  <2> QED BY <1>2, <2>1, SumOverSupport
<1> QED BY <1>1, <1>3, <1>4, SumOfNothing

\* allocate() promises no more than the equity above the reserve.
LEMMA AllocatedIsBacked ==
  ASSUME PortfolioInv, NEW prices \in PriceMaps, NEW weighting \in Weightings,
         Allocate(weighting, prices), Cheap, \A s \in Symbols : positions[s].quantity = 0
  PROVE  Backed(allocations', cash)
<1> DEFINE n == Len(weighting)
           share == 100 - CashReserve
           K == 1000 + TransactionCost
           c == cash * share
           v == [i \in 1 .. n |-> Amount(weighting[i], prices)]
           w == [i \in 1 .. n |-> weighting[i].weight]
<1>1. PortfolioTypeOK
  BY DEF PortfolioInv
<1>2. cash \in Nat /\ TotalEquity = cash
  BY <1>1, TypeFacts, CashOnlyEquity
<1>3. share \in Nat /\ K \in Nat
  BY PortfolioAssumption
<1>4. n \in Nat /\ DOMAIN weighting = 1 .. n
  BY <1>1, AmountFacts
<1>5. \A i \in 1 .. n : v[i] \in Nat /\ w[i] \in Nat /\ v[i] <= c * w[i]
  BY <1>1, <1>2, AmountFacts
<1>6. Promised(allocations') = SumFunctionOnSet(v, 1 .. n)
  <2>1. allocations' = [i \in 1 .. n |-> [symbol |-> weighting[i].symbol,
                                          amount |-> Amount(weighting[i], prices)]]
    BY <1>4 DEF Allocate
  <2>2. Len(allocations') = n
    BY <1>4, <2>1
  <2>3. [i \in 1 .. n |-> allocations'[i].amount] = v
    BY <2>1
  <2> QED BY <2>2, <2>3 DEF Promised
<1>7. SumFunctionOnSet(w, 1 .. n) <= 100
  <2>1. SumFunction([i \in DOMAIN weighting |-> weighting[i].weight]) <= 100
    BY PortfolioAssumption
  <2> QED BY <1>4, <2>1 DEF SumFunction
<1>8. c \in Nat
  BY <1>2, <1>3
<1> HIDE DEF v, w, n
<1>9. SumFunctionOnSet(v, 1 .. n) \in Nat /\ SumFunctionOnSet(w, 1 .. n) \in Nat
  <2>1. IsFiniteSet(1 .. n)
    BY <1>4, FS_Interval
  <2> QED BY <1>5, <2>1, SumOfNaturals
<1>10. SumFunctionOnSet(v, 1 .. n) <= c * SumFunctionOnSet(w, 1 .. n)
  <2> HIDE DEF c
  <2>1. IsFiniteSet(1 .. n)
    BY <1>4, FS_Interval
  <2> QED BY <1>5, <1>8, <2>1, SumsOrdered
<1>11. Promised(allocations') \in Nat /\ Promised(allocations') <= c * 100
  <2> HIDE DEF c
  <2>1. c * SumFunctionOnSet(w, 1 .. n) <= c * 100
    BY <1>7, <1>8, <1>9, ProductsOrdered
  <2>2. c * SumFunctionOnSet(w, 1 .. n) \in Nat /\ c * 100 \in Nat
    BY <1>8, <1>9
  <2> QED BY <1>6, <1>9, <1>10, <2>1, <2>2
<1>12. share * K <= 100000
  BY SMT DEF Cheap
<1> HIDE DEF share, K
<1>13. K * Promised(allocations') <= K * (c * 100)
  <2> HIDE DEF c
  <2> QED BY <1>3, <1>8, <1>11, ProductsOrdered
<1>14. K * (c * 100) = (cash * 100) * (share * K)
  BY <1>2, <1>3
<1>15. (cash * 100) * (share * K) <= Unit * cash
  <2>1. cash * 100 \in Nat /\ share * K \in Int
    BY <1>2, <1>3
  <2>2. (cash * 100) * (share * K) <= (cash * 100) * 100000
    BY <1>12, <2>1, ProductsOrdered, SMT
  <2> QED BY <1>2, <2>2, SMT DEF Unit
<1>16. Promised(allocations') * K = K * Promised(allocations') /\ K * Promised(allocations') \in Nat
  BY <1>3, <1>11
<1>17. (cash * 100) * (share * K) \in Nat /\ Unit * cash \in Nat
  BY <1>2, <1>3, UnitIsNat
<1>18. Promised(allocations') * K <= Unit * cash
  <2> DEFINE lhs == Promised(allocations') * K
             mid == (cash * 100) * (share * K)
             rhs == Unit * cash
  <2>1. lhs \in Nat /\ mid \in Nat /\ rhs \in Nat /\ lhs <= mid /\ mid <= rhs
    BY <1>13, <1>14, <1>15, <1>16, <1>17
  <2> HIDE DEF lhs, mid, rhs
  <2>2. lhs <= rhs
    BY <2>1
  <2> QED BY <2>2 DEF lhs, rhs
<1> QED BY <1>18 DEF Backed, K

\* A purchase costs no more than its allocation with the costs on top.
LEMMA SharesAreBacked ==
  ASSUME NEW list \in Seq(Pending), list # <<>>, NEW c \in Nat, Backed(list, c),
         NEW p \in Nat, NEW x \in Nat, x * (Unit * p) <= Head(list).amount
  PROVE  /\ CostOf(x, p) <= c
         /\ Backed(Tail(list), c - CostOf(x, p))
<1> DEFINE K == 1000 + TransactionCost
           A == Head(list).amount
           rest == Promised(Tail(list))
<1>1. Head(list) \in Pending /\ Tail(list) \in Seq(Pending)
  BY TailFacts
<1>2. K \in Nat /\ A \in Nat /\ rest \in Nat
  <2>1. K \in Nat
    BY PortfolioAssumption
  <2>2. A \in Nat
    BY <1>1 DEF Pending
  <2>3. rest \in Nat
    BY <1>1, PromisedIsNat
  <2> QED BY <2>1, <2>2, <2>3
<1>3. Promised(list) = A + rest
  BY PromisedOfTail
<1>4. (A + rest) * K <= Unit * c
  BY <1>3 DEF Backed
<1>5. CostOf(x, p) = x * p * K /\ CostOf(x, p) \in Nat
  BY CostIsNat DEF CostOf
<1> HIDE DEF K, A, rest
<1>6. PICK y \in Nat, z \in Nat, t \in Nat : y = x * p /\ z = A * K /\ t = rest * K
  BY <1>2
<1>7. x * (Unit * p) = Unit * y
  BY <1>6, SMT DEF Unit
<1>8. K * (Unit * y) <= K * A
  <2>1. Unit * y <= A
    BY <1>7 DEF A
  <2>2. Unit * y \in Int
    BY <1>6, UnitIsNat
  <2> QED BY <1>2, <2>1, <2>2, ProductsOrdered
<1>9. PICK u \in Nat : u = y * K
  BY <1>2, <1>6
<1>10. K * (Unit * y) = Unit * u /\ K * A = z
  BY <1>2, <1>6, <1>9, SMT DEF Unit
<1>11. CostOf(x, p) = u
  BY <1>5, <1>6, <1>9
<1>12. (A + rest) * K = z + t
  BY <1>2, <1>6
<1>13. Unit * u <= z /\ z + t <= Unit * c
  BY <1>4, <1>8, <1>10, <1>12
<1>14. u <= c /\ t <= Unit * (c - u)
  <2>1. u \in Nat /\ z \in Nat /\ t \in Nat /\ c \in Nat
    BY <1>6, <1>9
  <2> QED BY <1>13, <2>1, SMT DEF Unit
<1> QED BY <1>6, <1>11, <1>14 DEF Backed, K, rest

LEMMA SharesFacts ==
  ASSUME PortfolioTypeOK, task.kind = "allocations", task.list # <<>>,
         Shares(Head(task.list)) > 0
  PROVE  LET a == Head(task.list)
             p == task.prices[a.symbol]
         IN  /\ task.list \in Seq(Pending) /\ p \in Nat
             /\ Shares(a) \in Nat /\ Shares(a) * (Unit * p) <= a.amount
<1> DEFINE a == Head(task.list)
           p == task.prices[a.symbol]
<1>1. task.list \in Seq(Pending) /\ a \in Pending /\ task.prices \in PriceTable
  BY TaskFacts DEF PortfolioTypeOK
<1>2. a.amount \in Nat /\ p \in Nat
  BY <1>1 DEF Pending, PriceTable
<1>3. p # 0 /\ Shares(a) = a.amount \div (Unit * p)
  BY SMT DEF Shares, Unit
<1>4. Unit * p \in Nat \ {0}
  BY <1>2, <1>3, SMT DEF Unit
<1> HIDE DEF p, a
<1>5. Shares(a) \in Nat /\ Shares(a) * (Unit * p) <= a.amount
  BY <1>2, <1>3, <1>4, Affords
<1> QED BY <1>1, <1>2, <1>5 DEF a, p

LEMMA AllocateKeepsFunding ==
  ASSUME PortfolioInv, NEW prices \in PriceMaps, NEW weighting \in Weightings,
         Allocate(weighting, prices)
  PROVE  FundingInv'
<1>1. /\ outcome' = "none" /\ UNCHANGED <<cash, task>>
      /\ plan' = [plan EXCEPT !.cashOnly = \A s \in Symbols : positions[s].quantity = 0]
  BY DEF Allocate
<1>2. task.kind = "idle"
  BY StartFacts DEF Allocate, PortfolioInv
<1>3. plan'.cashOnly => \A s \in Symbols : positions[s].quantity = 0
  <2> DEFINE all == \A s \in Symbols : positions[s].quantity = 0
  <2>1. plan' = [plan EXCEPT !.cashOnly = all]
    BY <1>1
  <2> HIDE DEF all
  <2>2. plan \in [equity : Nat, target : [Symbols -> Nat], fresh : BOOLEAN, cashOnly : BOOLEAN]
    BY DEF PortfolioInv, PortfolioTypeOK
  <2>3. plan'.cashOnly = all
    BY <2>1, <2>2
  <2> QED BY <2>3 DEF all
<1>4. ASSUME Cheap, plan'.cashOnly PROVE Backed(allocations', cash')
  <2>1. Backed(allocations', cash)
    BY <1>3, <1>4, AllocatedIsBacked
  <2> QED BY <1>1, <2>1
<1>5. AllocationsBacked'
  BY <1>1, <1>2, <1>4 DEF AllocationsBacked
<1> QED BY <1>1, <1>5 DEF FundingInv, AllocationsAreFunded

LEMMA ExecutionKeepsFunding ==
  ASSUME PortfolioInv, FundingInv, SkipAllocation \/ BuyAllocation \/ AllocationRaises
  PROVE  FundingInv'
<1> DEFINE a == Head(task.list)
           p == task.prices[a.symbol]
<1>1. PortfolioTypeOK /\ task.kind = "allocations" /\ task.list # <<>> /\ cash \in Nat
  BY TypeFacts DEF PortfolioInv, SkipAllocation, BuyAllocation, AllocationRaises, NextAllocation
<1>2. task.list \in Seq(Pending) /\ UNCHANGED plan
  BY <1>1 DEF PortfolioTypeOK, SkipAllocation, BuyAllocation, AllocationRaises
<1>3. Cheap /\ plan.cashOnly => Backed(task.list, cash)
  BY <1>1 DEF FundingInv, AllocationsBacked
<1>4. ASSUME Shares(a) > 0, Cheap, plan.cashOnly
      PROVE  /\ CostOf(Shares(a), p) <= cash
             /\ Backed(Tail(task.list), cash - CostOf(Shares(a), p))
  <2>1. p \in Nat /\ Shares(a) \in Nat /\ Shares(a) * (Unit * p) <= a.amount
    BY <1>1, <1>4, SharesFacts
  <2> HIDE DEF p
  <2> QED BY <1>1, <1>2, <1>3, <1>4, <2>1, SharesAreBacked
<1>5. CASE AllocationRaises
  <2>1. Shares(a) > 0 /\ CostOf(Shares(a), p) > cash
    BY <1>5 DEF AllocationRaises
  <2>2. CostOf(Shares(a), p) \in Nat
    <3>1. p \in Nat /\ Shares(a) \in Nat
      BY <1>1, <2>1, SharesFacts
    <3> HIDE DEF p
    <3> QED BY <3>1, CostIsNat
  <2> HIDE DEF p
  <2>3. ~(Cheap /\ plan.cashOnly)
    BY <1>1, <1>4, <2>1, <2>2
  <2>4. AllocationsBacked'
    BY <1>2, <2>3 DEF AllocationsBacked
  <2>5. AllocationsAreFunded'
    <3>1. ~plan'.cashOnly \/ ~Cheap
      BY <1>2, <2>3
    <3>2. ~Cheap => (100 - CashReserve) * (1000 + TransactionCost) > 100000
      <4>1. (100 - CashReserve) * (1000 + TransactionCost) \in Int
        BY PortfolioAssumption, SMT
      <4> QED BY <4>1, SMT DEF Cheap
    <3> QED BY <3>1, <3>2, SMT DEF AllocationsAreFunded
  <2> QED BY <2>4, <2>5 DEF FundingInv
<1>6. ASSUME task' = [task EXCEPT !.list = Tail(@)], UNCHANGED outcome,
             Cheap /\ plan.cashOnly => Backed(Tail(task.list), cash')
      PROVE  FundingInv'
  <2>1. task'.kind = "allocations" /\ task'.list = Tail(task.list)
    BY <1>1, <1>6, TaskFacts
  <2>2. AllocationsBacked'
    BY <1>2, <1>6, <2>1 DEF AllocationsBacked
  <2>3. AllocationsAreFunded'
    BY <1>2, <1>6, SMT DEF FundingInv, AllocationsAreFunded
  <2> QED BY <2>2, <2>3 DEF FundingInv
<1>7. CASE SkipAllocation
  <2>1. task' = [task EXCEPT !.list = Tail(@)] /\ UNCHANGED <<outcome, cash>>
    BY <1>7 DEF SkipAllocation
  <2>2. ASSUME Cheap, plan.cashOnly PROVE Backed(Tail(task.list), cash)
    <3>1. Backed(task.list, cash) /\ a \in Pending /\ Tail(task.list) \in Seq(Pending)
      BY <1>2, <1>1, <1>3, <2>2, TailFacts
    <3>2. Promised(task.list) = a.amount + Promised(Tail(task.list))
      BY <1>1, <1>2, PromisedOfTail
    <3>3. a.amount \in Nat /\ Promised(Tail(task.list)) \in Nat
      BY <3>1, PromisedIsNat DEF Pending
    <3> DEFINE K == 1000 + TransactionCost
               rest == Promised(Tail(task.list))
    <3>4. K \in Nat
      BY PortfolioAssumption
    <3>5. (a.amount + rest) * K <= Unit * cash
      BY <3>1, <3>2 DEF Backed
    <3> HIDE DEF K, rest, a
    <3>6. PICK x \in Nat, y \in Nat, z \in Nat : x = a.amount * K /\ y = rest * K /\ z = Unit * cash
      BY <1>1, <3>3, <3>4, UnitIsNat DEF rest
    <3>7. (a.amount + rest) * K = x + y
      BY <3>3, <3>4, <3>6 DEF rest
    <3>8. y <= z
      BY <3>5, <3>6, <3>7
    <3> QED BY <3>6, <3>8 DEF Backed, K, rest
  <2> QED BY <1>6, <2>1, <2>2
<1>8. CASE BuyAllocation
  <2>1. /\ task' = [task EXCEPT !.list = Tail(@)] /\ UNCHANGED outcome
        /\ Shares(a) > 0 /\ cash' = cash - CostOf(Shares(a), p)
    BY <1>8 DEF BuyAllocation
  <2>2. Cheap /\ plan.cashOnly => Backed(Tail(task.list), cash')
    BY <1>4, <2>1
  <2> QED BY <1>6, <2>1, <2>2
<1> QED BY <1>5, <1>7, <1>8

LEMMA FundingStep ==
  PortfolioInv /\ FundingInv /\ [PortfolioNext]_portfolioVars => FundingInv'
<1> SUFFICES ASSUME PortfolioInv, FundingInv, [PortfolioNext]_portfolioVars PROVE FundingInv'
  OBVIOUS
<1>1. PortfolioTypeOK
  BY DEF PortfolioInv
<1>2. CASE UNCHANGED portfolioVars
  BY <1>2, SMT DEF portfolioVars, FundingInv, AllocationsBacked, AllocationsAreFunded
<1>3. CASE CreatePortfolio
  <2>1. plan'.cashOnly = FALSE
    BY <1>3 DEF CreatePortfolio, NoPlan
  <2> QED BY <2>1, SMT DEF FundingInv, AllocationsBacked, AllocationsAreFunded
<1>4. ASSUME NEW prices \in PriceMaps, NEW weighting \in Weightings, Allocate(weighting, prices)
      PROVE  FundingInv'
  BY <1>4, AllocateKeepsFunding
<1>5. ASSUME NEW prices \in PriceMaps, ExecuteAllocations(prices) PROVE FundingInv'
  <2>1. /\ task' = [kind |-> "allocations", list |-> allocations, prices |-> prices, available |-> 0]
        /\ outcome' = "none" /\ UNCHANGED <<cash, plan>>
    BY <1>5 DEF ExecuteAllocations
  <2>2. task.kind = "idle"
    BY <1>1, <1>5, StartFacts DEF ExecuteAllocations
  <2>3. AllocationsBacked'
    BY <2>1, <2>2 DEF FundingInv, AllocationsBacked
  <2> QED BY <2>1, <2>3, SMT DEF FundingInv, AllocationsAreFunded
<1>6. ASSUME NEW prices \in PriceMaps, UpdateMarketValues(prices) PROVE FundingInv'
  <2>1. outcome' = "none" /\ UNCHANGED <<cash, allocations, task, plan>>
    BY <1>6 DEF UpdateMarketValues
  <2>2. AllocationsBacked'
    BY <2>1 DEF FundingInv, AllocationsBacked
  <2> QED BY <2>1, <2>2, SMT DEF FundingInv, AllocationsAreFunded
<1>7. ASSUME NEW prices \in PriceMaps, NEW target \in Targets, Rebalance(target, prices)
      PROVE  FundingInv'
  <2>1. plan'.cashOnly = FALSE
    BY <1>7 DEF Rebalance
  <2> QED BY <2>1, SMT DEF FundingInv, AllocationsBacked, AllocationsAreFunded
<1>8. CASE DropAction \/ ExecuteBuy \/ ExecuteSell
  <2>1. NextAction("BUY") \/ NextAction("SELL")
    BY <1>8 DEF DropAction, ExecuteBuy, ExecuteSell
  <2>2. task.kind = "rebalance" /\ UNCHANGED <<plan, outcome>>
    BY <1>8, <2>1 DEF NextAction, DropAction, ExecuteBuy, ExecuteSell
  <2>3. ~(Cheap /\ plan.cashOnly)
    BY <2>2 DEF FundingInv, AllocationsBacked
  <2>4. AllocationsBacked'
    BY <2>2, <2>3 DEF AllocationsBacked
  <2>5. AllocationsAreFunded'
    BY <2>2, SMT DEF FundingInv, AllocationsAreFunded
  <2> QED BY <2>4, <2>5 DEF FundingInv
<1>9. CASE Returns
  <2>1. plan' = [plan EXCEPT !.cashOnly = FALSE]
    BY <1>9 DEF Returns
  <2>2. plan'.cashOnly = FALSE
    BY <1>1, <2>1 DEF PortfolioTypeOK
  <2> QED BY <2>2, SMT DEF FundingInv, AllocationsBacked, AllocationsAreFunded
<1> QED BY <1>2, <1>3, <1>4, <1>5, <1>6, <1>7, <1>8, <1>9, ExecutionKeepsFunding DEF PortfolioNext

\* Allocations computed on a portfolio that is all cash are paid for in full, at
\* whatever prices they are executed, when the reserve covers the transaction
\* costs: execute_allocations does not raise half way.
THEOREM AllocationsArePaidFor == PortfolioSpec => []AllocationsAreFunded
<1>1. PortfolioInit => FundingInv
  <2> SUFFICES ASSUME PortfolioInit PROVE FundingInv
    OBVIOUS
  <2>1. plan.cashOnly = FALSE
    BY DEF PortfolioInit, NoPlan
  <2> QED BY <2>1, SMT DEF FundingInv, AllocationsBacked, AllocationsAreFunded
<1>2. FundingInv => AllocationsAreFunded
  BY DEF FundingInv
<1> QED BY <1>1, <1>2, PortfolioInitInv, PortfolioStep, FundingStep, PTL DEF PortfolioSpec
------------------------------------------------------------------------------
(* Weights after a rebalance.                                              *)

\* The value of n shares, in the money of the model and percent.
Percents(n, p) == 100000 * n * p

\* h shares at the price p are worth less than a share more than the target t.
LightAt(h, p, t) == Percents(h, p) < t + Percents(1, p)

\* What an action still has to do: a purchase of q shares does not overshoot, a
\* sale of q shares leaves less than a share too much.
DueAt(type, q, h, p, t) ==
  IF type = "BUY" THEN Percents(h, p) + Percents(q, p) <= t
                  ELSE Percents(h, p) < t + Percents(q, p) + Percents(1, p)

\* Every symbol with a price is light or waits for its sale; no symbol waits for
\* two actions.
Goal(pl, s) == pl.target[s] * pl.equity
Balanced(list, h, prices, pl) ==
  /\ \A s \in Symbols : prices[s] > 0 =>
       \/ LightAt(h[s].quantity, prices[s], Goal(pl, s))
       \/ \E i \in 1 .. Len(list) : list[i].symbol = s /\ list[i].type = "SELL"
  /\ \A i \in 1 .. Len(list) :
       LET s == list[i].symbol
       IN  DueAt(list[i].type, list[i].quantity, h[s].quantity, prices[s], Goal(pl, s))
  /\ \A i, j \in 1 .. Len(list) : i < j => list[i].symbol # list[j].symbol

StaysBalanced ==
  task.kind = "rebalance" /\ plan.fresh => Balanced(task.list, positions, task.prices, plan)

LEMMA WorthInPercent ==
  ASSUME NEW p \in Nat, NEW n \in Nat
  PROVE  100 * Worth(n, p) = Percents(n, p)
<1>1. PICK x \in Nat : x = n * p
  OBVIOUS
<1>2. Worth(n, p) = 1000 * x /\ Percents(n, p) = 100000 * x
  BY <1>1, SMT DEF Worth, Percents
<1> QED BY <1>1, <1>2, SMT

LEMMA PercentsOfLots ==
  ASSUME NEW p \in Nat \ {0}
  PROVE  Percents(1, p) \in Nat \ {0} /\ Percents(0, p) = 0
BY SMT DEF Percents

LEMMA LotInPercent == ASSUME NEW p \in Nat PROVE 100000 * p = Percents(1, p)
BY SMT DEF Percents

LEMMA PercentsAreNat == ASSUME NEW p \in Nat, NEW n \in Nat PROVE Percents(n, p) \in Nat
<1>1. PICK x \in Nat : x = n * p
  OBVIOUS
<1>2. Percents(n, p) = 100000 * x
  BY <1>1, SMT DEF Percents
<1> QED BY <1>2, SMT


LEMMA PercentsFacts ==
  ASSUME NEW p \in Nat, NEW n \in Nat, NEW m \in Nat
  PROVE  /\ n * Percents(1, p) = Percents(n, p)
         /\ Percents(n + m, p) = Percents(n, p) + Percents(m, p)
<1>1. PICK x \in Nat, y \in Nat : x = n * p /\ y = m * p
  OBVIOUS
<1>2. Percents(n, p) = 100000 * x /\ Percents(m, p) = 100000 * y
  BY <1>1, SMT DEF Percents
<1>3. (n + m) * p = x + y
  BY <1>1
<1>4. Percents(n + m, p) = 100000 * (x + y)
  <2>1. n + m \in Nat
    OBVIOUS
  <2> DEFINE k == n + m
  <2> HIDE DEF k
  <2>2. Percents(k, p) = 100000 * (k * p)
    BY <2>1, SMT DEF Percents, k
  <2> QED BY <1>3, <2>2, SMT DEF k
<1>5. n * Percents(1, p) = 100000 * x
  <2>1. Percents(1, p) = 100000 * p
    BY SMT DEF Percents
  <2>2. n * (100000 * p) = 100000 * (n * p)
    BY SMT
  <2> QED BY <1>1, <2>1, <2>2, SMT
<1> QED BY <1>1, <1>2, <1>4, <1>5, SMT

LEMMA PercentsOrdered ==
  ASSUME NEW p \in Nat, NEW n \in Nat, NEW m \in Nat, n <= m
  PROVE  Percents(n, p) <= Percents(m, p)
<1>1. m - n \in Nat /\ m = n + (m - n)
  OBVIOUS
<1>2. Percents(m, p) = Percents(n, p) + Percents(m - n, p)
  BY <1>1, PercentsFacts
<1>3. Percents(n, p) \in Nat /\ Percents(m - n, p) \in Nat
  BY <1>1, PercentsAreNat
<1> QED BY <1>2, <1>3

LEMMA BoughtIsLight ==
  ASSUME NEW p \in Nat \ {0}, NEW h \in Nat, NEW q \in Nat, NEW t \in Nat,
         DueAt("BUY", q, h, p, t), NEW n \in Nat, n <= q
  PROVE  LightAt(h + n, p, t)
<1>1. Percents(h + n, p) = Percents(h, p) + Percents(n, p) /\ Percents(n, p) <= Percents(q, p)
  BY PercentsFacts, PercentsOrdered
<1>2. /\ Percents(h, p) \in Nat /\ Percents(n, p) \in Nat /\ Percents(q, p) \in Nat
      /\ Percents(1, p) \in Nat \ {0}
  BY PercentsAreNat, PercentsOfLots
<1>3. Percents(h, p) + Percents(q, p) <= t
  BY DEF DueAt
<1> DEFINE a == Percents(h, p)
           b == Percents(n, p)
           c == Percents(q, p)
           d == Percents(1, p)
<1>4. a \in Nat /\ b \in Nat /\ c \in Nat /\ d \in Nat \ {0} /\ b <= c /\ a + c <= t
  BY <1>1, <1>2, <1>3
<1> HIDE DEF a, b, c, d
<1>5. a + b < t + d
  BY <1>4
<1> QED BY <1>1, <1>5 DEF LightAt, a, b, d

LEMMA SoldIsLight ==
  ASSUME NEW p \in Nat \ {0}, NEW h \in Nat, NEW q \in Nat, NEW t \in Nat,
         DueAt("SELL", q, h, p, t), NEW n \in Nat, n <= h, n = q \/ n = h
  PROVE  LightAt(h - n, p, t)
<1>1. /\ Percents(h, p) \in Nat /\ Percents(q, p) \in Nat /\ Percents(0, p) = 0
      /\ Percents(1, p) \in Nat \ {0}
  BY PercentsAreNat, PercentsOfLots
<1>2. CASE n = h
  <2>1. h - n = 0
    BY <1>2
  <2>2. LightAt(0, p, t)
    BY <1>1, SMT DEF LightAt
  <2> QED BY <2>1, <2>2
<1>3. CASE n = q
  <2> DEFINE r == h - n
             a == Percents(r, p)
             c == Percents(q, p)
             d == Percents(1, p)
  <2>1. r \in Nat /\ r + q = h
    BY <1>3
  <2> HIDE DEF r
  <2>2. Percents(r + q, p) = a + c /\ a \in Nat
    BY <2>1, PercentsFacts, PercentsAreNat
  <2>3. Percents(h, p) < t + c + d
    BY DEF DueAt
  <2>4. a + c < t + c + d /\ c \in Nat /\ d \in Nat
    BY <1>1, <2>1, <2>2, <2>3
  <2> HIDE DEF a, c, d
  <2>5. a < t + d
    BY <2>2, <2>4
  <2> QED BY <2>5 DEF LightAt, r, a, d
<1> QED BY <1>2, <1>3

\* What generate_actions plans: a position that is held or bought is light, what
\* it plans is due.
LEMMA PlannedFacts ==
  ASSUME PortfolioInv, NEW target \in Targets, NEW prices \in PriceMaps, NEW s \in Symbols,
         prices[s] > 0, positions[s].open => positions[s].price = prices[s]
  PROVE  LET h == positions[s].quantity
             t == target[s] * TotalEquity
             type == ActionType(s, target, prices)
         IN  /\ type # "SELL" => LightAt(h, prices[s], t)
             /\ type # "HOLD" => DueAt(type, Quantity(s, target, prices), h, prices[s], t)
             /\ type \in {"HOLD", "BUY", "SELL"}
<1> DEFINE h == positions[s].quantity
           p == prices[s]
           t == target[s] * TotalEquity
           M == Missing(s, target)
           A == AbsMissing(s, target)
           q == Quantity(s, target, prices)
           lot == Percents(1, p)
<1>1. /\ p \in Nat \ {0} /\ t \in Nat /\ M = t - 100 * Value(s) /\ A \in Nat
  BY MissingFacts DEF PortfolioInv
<1>2. positions \in Portfolios /\ h \in Nat /\ positions[s].price \in Nat
  BY TypeFacts, PositionFacts DEF PortfolioInv
<1>3. Value(s) = Worth(h, p)
  <2>1. Value(s) = Worth(h, positions[s].price)
    BY DEF Value, Worth
  <2>2. ~positions[s].open => positions[s].quantity = 0
    BY DEF PortfolioInv, NothingUnopened
  <2> QED BY <1>1, <1>2, <2>1, <2>2, FreshWorth
<1>4. q = A \div lot
  <2>1. 100000 * p = lot
    BY <1>1, LotInPercent, SMT
  <2> QED BY <2>1, SMT DEF Quantity
<1>5. M = t - Percents(h, p)
  BY <1>1, <1>2, <1>3, WorthInPercent
<1>6. A = IF M < 0 THEN -M ELSE M
  BY DEF AbsMissing
<1>7. /\ M = 0 \/ q = 0 \/ ActionType(s, target, prices) # "HOLD"
      /\ ActionType(s, target, prices) = "BUY" => M > 0
      /\ ActionType(s, target, prices) = "SELL" => ~(M > 0)
      /\ ActionType(s, target, prices) \in {"HOLD", "BUY", "SELL"}
  BY DEF ActionType
<1> DEFINE type == ActionType(s, target, prices)
<1> HIDE DEF h, p, t, M, A, q, lot, type
<1>8. lot \in Nat \ {0} /\ lot = Percents(1, p)
  BY <1>1, PercentsOfLots DEF lot
<1>9. q \in Nat /\ q * lot <= A /\ A < q * lot + lot
  BY <1>1, <1>4, <1>8, Affords
<1>10. q * lot = Percents(q, p)
  BY <1>1, <1>8, <1>9, PercentsFacts
<1>11. Percents(h, p) \in Nat /\ Percents(q, p) \in Nat
  BY <1>1, <1>2, <1>9, PercentsAreNat DEF h
<1>12. M = 0 \/ q = 0 \/ M > 0 => LightAt(h, p, t)
  <2>1. CASE M = 0 \/ M > 0
    BY <1>1, <1>5, <1>8, <1>11, <2>1, SMT DEF LightAt
  <2>2. CASE q = 0
    <3>1. q * lot = 0
      <4>1. 0 * lot = 0
        BY <1>8
      <4> QED BY <2>2, <4>1
    <3> DEFINE worth == Percents(h, p)
    <3>2. worth \in Nat /\ M = t - worth
      BY <1>5, <1>11
    <3> HIDE DEF worth
    <3>3. worth < t + lot
      <4>1. A \in Nat /\ t \in Nat /\ lot \in Nat
        BY <1>1, <1>8
      <4>2. A < lot
        BY <1>9, <3>1, <4>1
      <4> QED BY <1>6, <3>2, <4>1, <4>2
    <3> QED BY <1>8, <3>3 DEF LightAt, worth
  <2> QED BY <2>1, <2>2
<1>13. M > 0 => Percents(h, p) + Percents(q, p) <= t
  BY <1>1, <1>5, <1>6, <1>8, <1>9, <1>10, <1>11, SMT
<1>14. ~(M > 0) => Percents(h, p) < t + Percents(q, p) + Percents(1, p)
  BY <1>1, <1>5, <1>6, <1>8, <1>9, <1>10, <1>11, SMT
<1>15. type # "SELL" => LightAt(h, p, t)
  BY <1>7, <1>12 DEF type
<1>16. type # "HOLD" => DueAt(type, q, h, p, t)
  BY <1>7, <1>13, <1>14 DEF DueAt, type
<1> QED BY <1>7, <1>15, <1>16 DEF h, p, t, q, type

\* A list of actions over positions, with prices for all of its symbols.
LEMMA BalanceAfterAction ==
  ASSUME NEW list \in Seq(Action), list # <<>>, NEW h \in Portfolios, NEW g \in Portfolios,
         NEW prices \in PriceTable, NEW pl, Balanced(list, h, prices, pl),
         \A x \in Symbols \ {Head(list).symbol} : g[x] = h[x],
         LightAt(g[Head(list).symbol].quantity, prices[Head(list).symbol],
                 Goal(pl, Head(list).symbol))
  PROVE  Balanced(Tail(list), g, prices, pl)
<1> DEFINE rest == Tail(list)
           first == Head(list)
<1>1. /\ rest \in Seq(Action) /\ first = list[1] /\ 1 \in 1 .. Len(list)
      /\ \A i \in 1 .. Len(rest) : rest[i] = list[i + 1] /\ i + 1 \in 1 .. Len(list)
  BY TailFacts
<1>2. \A i \in 1 .. Len(list) : i # 1 => i - 1 \in 1 .. Len(rest) /\ rest[i - 1] = list[i]
  <2>1. Len(rest) = Len(list) - 1 /\ Len(list) \in Nat
    OBVIOUS
  <2> HIDE DEF rest
  <2> QED BY <1>1, <2>1
<1>3. \A i \in 1 .. Len(list) : list[i] \in Action /\ list[i].symbol \in Symbols
  <2>1. \A i \in 1 .. Len(list) : list[i] \in Action
    OBVIOUS
  <2> QED BY <2>1 DEF Action
<1> HIDE DEF rest, first
<1>4. \A i \in 1 .. Len(rest) : rest[i].symbol # first.symbol
  <2>1. ASSUME NEW i \in 1 .. Len(rest) PROVE rest[i].symbol # first.symbol
    <3>1. 1 < i + 1 /\ i + 1 \in 1 .. Len(list) /\ rest[i] = list[i + 1]
      <4>1. i \in Nat /\ i >= 1
        OBVIOUS
      <4>2. 1 < i + 1
        BY <4>1
      <4> QED BY <1>1, <4>2
    <3>2. \A k \in 1 .. Len(list) : 1 < k => list[1].symbol # list[k].symbol
      BY <1>1 DEF Balanced
    <3> QED BY <1>1, <3>1, <3>2
  <2> QED BY <2>1
<1>5. ASSUME NEW s \in Symbols, prices[s] > 0
      PROVE  \/ LightAt(g[s].quantity, prices[s], Goal(pl, s))
             \/ \E i \in 1 .. Len(rest) : rest[i].symbol = s /\ rest[i].type = "SELL"
  <2>1. CASE s = first.symbol
    BY <2>1 DEF first
  <2>2. CASE s # first.symbol
    <3>1. g[s] = h[s]
      BY <2>2 DEF first
    <3>2. ASSUME NEW i \in 1 .. Len(list), list[i].symbol = s, list[i].type = "SELL"
          PROVE  \E j \in 1 .. Len(rest) : rest[j].symbol = s /\ rest[j].type = "SELL"
      <4>1. i # 1
        BY <1>1, <2>2, <3>2
      <4> QED BY <1>2, <3>2, <4>1
    <3>3. \/ LightAt(h[s].quantity, prices[s], Goal(pl, s))
          \/ \E i \in 1 .. Len(list) : list[i].symbol = s /\ list[i].type = "SELL"
      BY <1>5 DEF Balanced
    <3> QED BY <3>1, <3>2, <3>3
  <2> QED BY <2>1, <2>2
<1>6. ASSUME NEW i \in 1 .. Len(rest)
      PROVE  LET s == rest[i].symbol
             IN  DueAt(rest[i].type, rest[i].quantity, g[s].quantity, prices[s], Goal(pl, s))
  <2>1. rest[i] = list[i + 1] /\ i + 1 \in 1 .. Len(list)
    BY <1>1
  <2>2. g[rest[i].symbol] = h[rest[i].symbol]
    BY <1>3, <1>4, <2>1 DEF first
  <2>3. LET s == list[i + 1].symbol
        IN  DueAt(list[i + 1].type, list[i + 1].quantity, h[s].quantity, prices[s], Goal(pl, s))
    BY <2>1 DEF Balanced
  <2> QED BY <2>1, <2>2, <2>3
<1>7. ASSUME NEW i \in 1 .. Len(rest), NEW j \in 1 .. Len(rest), i < j
      PROVE  rest[i].symbol # rest[j].symbol
  <2>1. /\ rest[i] = list[i + 1] /\ i + 1 \in 1 .. Len(list)
        /\ rest[j] = list[j + 1] /\ j + 1 \in 1 .. Len(list)
    BY <1>1
  <2>2. i + 1 < j + 1
    BY <1>7
  <2> QED BY <2>1, <2>2 DEF Balanced
<1> QED BY <1>5, <1>6, <1>7 DEF Balanced, rest

\* What generate_actions plans at fresh prices is balanced.
LEMMA PlanIsBalanced ==
  ASSUME PortfolioInv, NEW target \in Targets, NEW prices \in PriceMaps,
         \A s \in Symbols : positions[s].open => positions[s].price = prices[s],
         NEW list \in SortedByDrift(Actions(target, prices)),
         NEW pl, pl.target = target, pl.equity = TotalEquity
  PROVE  Balanced(list, positions, prices, pl)
<1> DEFINE A == Actions(target, prices)
           type(s) == ActionType(s, target, prices)
           q(s) == Quantity(s, target, prices)
<1>1. /\ IsFiniteSet(A) /\ \A a \in A : prices[a.symbol] > 0
      /\ \A a, b \in A : a.symbol = b.symbol => a = b
  BY ActionsFacts DEF PortfolioInv
<1>2. /\ \A a \in A : a.symbol \in Symbols /\ type(a.symbol) # "HOLD"
                      /\ a.type = type(a.symbol) /\ a.quantity = q(a.symbol)
      /\ \A s \in Symbols : prices[s] > 0 /\ type(s) # "HOLD" =>
           \E a \in A : a.symbol = s /\ a.type = type(s)
  <2> DEFINE Made(s) == [symbol |-> s, type |-> type(s), quantity |-> q(s), drift |-> AbsMissing(s, target)]
  <2>1. A = {Made(s) : s \in {x \in Symbols : prices[x] > 0 /\ type(x) # "HOLD"}}
    BY DEF Actions
  <2>2. \A s \in Symbols : Made(s).symbol = s /\ Made(s).type = type(s) /\ Made(s).quantity = q(s)
    OBVIOUS
  <2> HIDE DEF A, type, q, Made
  <2> QED BY <2>1, <2>2
<1>3. \A s \in Symbols : Goal(pl, s) = target[s] * TotalEquity
  BY DEF Goal
<1>4. ASSUME NEW s \in Symbols, prices[s] > 0
      PROVE  /\ type(s) # "SELL" => LightAt(positions[s].quantity, prices[s], Goal(pl, s))
             /\ type(s) # "HOLD" => DueAt(type(s), q(s), positions[s].quantity, prices[s], Goal(pl, s))
  BY <1>3, <1>4, PlannedFacts
<1> HIDE DEF A, type, q
<1>5. /\ list \in Seq(A)
      /\ \A i, j \in 1 .. Len(list) : i < j => list[i] # list[j]
      /\ \A a \in A : \E i \in 1 .. Len(list) : list[i] = a
  BY <1>1, SortedFacts DEF A
<1>6. \A i \in 1 .. Len(list) : list[i] \in A
  BY <1>5
<1>7. ASSUME NEW s \in Symbols, prices[s] > 0
      PROVE  \/ LightAt(positions[s].quantity, prices[s], Goal(pl, s))
             \/ \E i \in 1 .. Len(list) : list[i].symbol = s /\ list[i].type = "SELL"
  <2>1. CASE type(s) # "SELL"
    BY <1>4, <1>7, <2>1
  <2>2. CASE type(s) = "SELL"
    <3>1. PICK a \in A : a.symbol = s /\ a.type = "SELL"
      BY <1>2, <1>7, <2>2
    <3> QED BY <1>5, <3>1
  <2> QED BY <2>1, <2>2
<1>8. ASSUME NEW i \in 1 .. Len(list)
      PROVE  LET s == list[i].symbol
             IN  DueAt(list[i].type, list[i].quantity, positions[s].quantity, prices[s], Goal(pl, s))
  <2>1. list[i] \in A
    BY <1>6
  <2>2. /\ list[i].symbol \in Symbols /\ type(list[i].symbol) # "HOLD"
        /\ list[i].type = type(list[i].symbol) /\ list[i].quantity = q(list[i].symbol)
        /\ prices[list[i].symbol] > 0
    BY <1>1, <1>2, <2>1
  <2> QED BY <1>4, <2>2
<1>9. ASSUME NEW i \in 1 .. Len(list), NEW j \in 1 .. Len(list), i < j
      PROVE  list[i].symbol # list[j].symbol
  <2>1. list[i] \in A /\ list[j] \in A /\ list[i] # list[j]
    BY <1>5, <1>6, <1>9
  <2> QED BY <1>1, <2>1
<1> QED BY <1>7, <1>8, <1>9 DEF Balanced

\* An action of a balanced list makes its symbol light: a purchase by no more
\* than was planned, a sale by what was planned or by everything.
LEMMA ActionKeepsBalance ==
  ASSUME PortfolioInv, StaysBalanced, plan.fresh, DropAction \/ ExecuteBuy \/ ExecuteSell
  PROVE  Balanced(task.list, positions, task.prices, plan)
           => Balanced(Tail(task.list), positions', task.prices, plan)
<1> DEFINE s == HeadOf.symbol
           h == positions[s].quantity
           t == Goal(plan, s)
<1>1. NextAction("BUY") \/ NextAction("SELL")
  BY DEF DropAction, ExecuteBuy, ExecuteSell
<1>2. /\ PortfolioTypeOK /\ task.kind = "rebalance" /\ task.list # <<>>
      /\ HeadOf \in Action /\ s \in Symbols /\ HeadOf.quantity \in Nat /\ PriceNow \in Nat \ {0}
  BY <1>1, NextActionFacts
<1>3. task.list \in Seq(Action) /\ positions \in Portfolios /\ h \in Nat /\ task.prices \in PriceTable
  BY <1>2, TypeFacts, TaskFacts, PositionFacts DEF PortfolioTypeOK
<1>4. Balanced(task.list, positions, task.prices, plan)
  BY <1>2 DEF StaysBalanced
<1>5. DueAt(HeadOf.type, HeadOf.quantity, h, PriceNow, t)
  <2>1. 1 \in 1 .. Len(task.list) /\ task.list[1] = HeadOf
    BY <1>2, <1>3, TailFacts DEF HeadOf
  <2> QED BY <1>4, <2>1 DEF Balanced, PriceNow
<1>6. t \in Nat
  <2>1. plan.target \in [Symbols -> Nat] /\ plan.equity \in Nat
    BY <1>2 DEF PortfolioTypeOK
  <2>2. plan.target[s] \in Nat
    BY <1>2, <2>1
  <2> QED BY <2>1, <2>2 DEF Goal
<1>7. ASSUME positions' \in Portfolios, \A x \in Symbols \ {s} : positions'[x] = positions[x],
             LightAt(positions'[s].quantity, PriceNow, t)
      PROVE  Balanced(Tail(task.list), positions', task.prices, plan)
  BY <1>2, <1>3, <1>4, <1>7, BalanceAfterAction DEF HeadOf, PriceNow
<1> HIDE DEF s, t
<1>8. CASE DropAction
  <2>1. HeadOf.type = "BUY" /\ positions' = positions
    BY <1>8, NextActionFacts DEF DropAction
  <2>2. PICK n \in Nat : n = 0
    OBVIOUS
  <2>3. LightAt(positions'[s].quantity, PriceNow, t)
    <3>1. n <= HeadOf.quantity /\ h + n = h
      BY <1>2, <1>3, <2>2
    <3> HIDE DEF h
    <3>2. LightAt(h + n, PriceNow, t)
      BY <1>2, <1>3, <1>5, <1>6, <2>1, <3>1, BoughtIsLight
    <3> QED BY <2>1, <3>1, <3>2 DEF h
  <2> QED BY <1>3, <1>7, <2>1, <2>3
<1>9. CASE ExecuteBuy
  <2>1. HeadOf.type = "BUY"
    BY <1>9, NextActionFacts DEF ExecuteBuy
  <2>2. PICK n \in Nat : BuysShares(s, n, PriceNow) /\ n <= HeadOf.quantity
    BY <1>9, BuyFacts DEF s
  <2>3. positions'[s].quantity = h + n
    BY <2>2 DEF BuysShares
  <2>4. LightAt(h + n, PriceNow, t)
    <3> HIDE DEF h
    <3> QED BY <1>2, <1>3, <1>5, <1>6, <2>1, <2>2, BoughtIsLight
  <2> QED BY <1>7, <2>2, <2>3, <2>4 DEF BuysShares
<1>10. CASE ExecuteSell
  <2>1. HeadOf.type = "SELL"
    BY <1>10, NextActionFacts DEF ExecuteSell
  <2>2. PICK n \in Nat : SellsShares(s, n, PriceNow) /\ (n = HeadOf.quantity \/ n = h)
    BY <1>10, SellFacts DEF s
  <2>3. positions'[s].quantity = h - n /\ n <= h
    BY <2>2 DEF SellsShares
  <2>4. LightAt(h - n, PriceNow, t)
    <3> HIDE DEF h
    <3> QED BY <1>2, <1>3, <1>5, <1>6, <2>1, <2>2, <2>3, SoldIsLight
  <2> QED BY <1>7, <2>2, <2>3, <2>4 DEF SellsShares
<1> QED BY <1>8, <1>9, <1>10

LEMMA BalanceStep ==
  PortfolioInv /\ StaysBalanced /\ [PortfolioNext]_portfolioVars => StaysBalanced'
<1> SUFFICES ASSUME PortfolioInv, StaysBalanced, [PortfolioNext]_portfolioVars,
                    task'.kind = "rebalance", plan'.fresh
             PROVE  Balanced(task'.list, positions', task'.prices, plan')
  BY DEF StaysBalanced
<1>1. CASE UNCHANGED portfolioVars
  <2>1. UNCHANGED <<task, plan, positions>>
    BY <1>1 DEF portfolioVars
  <2> QED BY <2>1 DEF StaysBalanced
<1>2. CASE DropAction \/ ExecuteBuy \/ ExecuteSell
  <2>1. NextAction("BUY") \/ NextAction("SELL")
    BY <1>2 DEF DropAction, ExecuteBuy, ExecuteSell
  <2>2. PortfolioTypeOK /\ task.kind = "rebalance" /\ task.list # <<>>
    BY <2>1, NextActionFacts
  <2>3. TakeAction /\ UNCHANGED plan
    BY <1>2 DEF DropAction, ExecuteBuy, ExecuteSell
  <2>4. task'.list = Tail(task.list) /\ task'.prices = task.prices
    BY <2>2, <2>3, TakenFacts
  <2>5. Balanced(task.list, positions, task.prices, plan)
    BY <2>2, <2>3 DEF StaysBalanced
  <2>6. Balanced(Tail(task.list), positions', task.prices, plan)
    BY <1>2, <2>3, <2>5, ActionKeepsBalance
  <2> QED BY <2>3, <2>4, <2>6
<1>3. ASSUME NEW prices \in PriceMaps, NEW target \in Targets, Rebalance(target, prices)
      PROVE  Balanced(task'.list, positions', task'.prices, plan')
  <2>1. PICK list \in SortedByDrift(Actions(target, prices)) :
          task' = [kind |-> "rebalance", list |-> list, prices |-> prices,
                   available |-> 100 * cash - CashReserve * TotalEquity]
    BY <1>3 DEF Rebalance
  <2>2. task'.list = list /\ task'.prices = prices
    BY <2>1
  <2> DEFINE fresh == \A s \in Symbols : positions[s].open => positions[s].price = prices[s]
  <2>3. plan' = [equity |-> TotalEquity, target |-> target, cashOnly |-> FALSE, fresh |-> fresh]
        /\ UNCHANGED positions
    BY <1>3 DEF Rebalance
  <2> HIDE DEF fresh
  <2>4. plan'.target = target /\ plan'.equity = TotalEquity /\ fresh
    BY <2>3
  <2>5. PICK pl : pl = plan'
    OBVIOUS
  <2>6. Balanced(list, positions, prices, pl)
    BY <2>4, <2>5, PlanIsBalanced DEF fresh
  <2> QED BY <2>2, <2>3, <2>5, <2>6
<1>4. Start /\ UNCHANGED task => FALSE
  BY StartFacts DEF PortfolioInv
<1>5. CASE Returns
  BY <1>5, IdleIsFine DEF Returns
<1>6. CASE SkipAllocation \/ BuyAllocation \/ AllocationRaises
  <2>1. task.kind = "allocations" /\ task.list # <<>>
    BY <1>6 DEF SkipAllocation, BuyAllocation, AllocationRaises, NextAllocation
  <2>2. task' = Idle \/ task' = [task EXCEPT !.list = Tail(@)]
    BY <1>6 DEF SkipAllocation, BuyAllocation, AllocationRaises
  <2> QED BY <2>1, <2>2, IdleIsFine, TaskFacts DEF PortfolioInv
<1>7. ~CreatePortfolio
  BY <1>4 DEF CreatePortfolio
<1>8. ASSUME NEW prices \in PriceMaps
      PROVE  /\ ~UpdateMarketValues(prices) /\ ~ExecuteAllocations(prices)
             /\ \A weighting \in Weightings : ~Allocate(weighting, prices)
  BY <1>4 DEF UpdateMarketValues, ExecuteAllocations, Allocate
<1> QED BY <1>1, <1>2, <1>3, <1>5, <1>6, <1>7, <1>8 DEF PortfolioNext

\* When a rebalance at fresh prices has run, no symbol it had a price for is
\* worth a whole share more than its target.
THEOREM NothingEndsOverweight == PortfolioSpec => []NothingOverweight
<1>1. PortfolioInit => StaysBalanced
  BY IdleIsFine DEF PortfolioInit, StaysBalanced
<1>2. PortfolioInv /\ StaysBalanced => NothingOverweight
  <2> SUFFICES ASSUME PortfolioInv, StaysBalanced, task.kind = "rebalance", task.list = <<>>,
                      plan.fresh, NEW s \in Symbols, task.prices[s] > 0
               PROVE  100 * Value(s) < plan.target[s] * plan.equity + 100000 * task.prices[s]
    BY DEF NothingOverweight
  <2> DEFINE h == positions[s].quantity
             p == task.prices[s]
  <2>1. 1 .. Len(task.list) = {}
    OBVIOUS
  <2>2. LightAt(h, p, Goal(plan, s))
    BY <2>1 DEF StaysBalanced, Balanced
  <2>3. p \in Nat /\ positions \in Portfolios /\ h \in Nat /\ positions[s].price \in Nat
    <3>1. task.prices \in PriceTable
      BY DEF PortfolioInv, PortfolioTypeOK
    <3> QED BY <3>1, TypeFacts, PositionFacts DEF PortfolioInv, PriceTable
  <2>4. Value(s) = Worth(h, p)
    <3>1. Value(s) = Worth(h, positions[s].price)
      BY DEF Value, Worth
    <3>2. /\ ~positions[s].open => positions[s].quantity = 0
          /\ positions[s].open => positions[s].price = p
      BY DEF PortfolioInv, NothingUnopened, StaysFresh
    <3> QED BY <2>3, <3>1, <3>2, FreshWorth
  <2> HIDE DEF h, p
  <2>5. 100 * Value(s) = Percents(h, p) /\ 100000 * p = Percents(1, p)
    BY <2>3, <2>4, WorthInPercent, LotInPercent, SMT
  <2>6. 100 * Value(s) < Goal(plan, s) + 100000 * p
    BY <2>2, <2>5, SMT DEF LightAt
  <2> QED BY <2>6, SMT DEF Goal, p
<1> QED BY <1>1, <1>2, PortfolioInitInv, PortfolioStep, BalanceStep, PTL DEF PortfolioSpec
==============================================================================
