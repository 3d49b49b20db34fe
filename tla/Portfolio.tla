------------------------------ MODULE Portfolio ------------------------------
(***************************************************************************)
(* backend/portfolio: PortfolioEngine with its PositionManager and its     *)
(* Rebalancer.  A caller allocates capital, executes the allocations -     *)
(* perhaps later and at other prices -, updates market values and          *)
(* rebalances.  Orders execute one by one, and one that cannot be paid     *)
(* raises in the middle of execute_allocations.                            *)
(*                                                                         *)
(* Prices are whole numbers; money is counted in thousandths of their      *)
(* unit, weights in percent, the transaction cost in thousandths, so every *)
(* truncation below is the int() of the code.  Average costs and profits   *)
(* steer nothing here and are left out.                                    *)
(***************************************************************************)
EXTENDS Integers, Sequences, FiniteSets, Functions

CONSTANTS Symbols,
          Prices,           \* the market prices
          Weightings,       \* what calculate_weights may answer: sequences of [symbol, weight]
                            \* that validate_weights accepts, of symbols named once
          Targets,          \* the target_allocations of rebalance(): [Symbols -> percent]
          InitialCapital, TransactionCost, CashReserve, DriftThreshold,
          MaxPositionSize, RebalanceThreshold,   \* of PortfolioConfig
          ByThreshold,      \* rebalance_frequency is THRESHOLD or DRIFT
          MaxOperations     \* bound: the operations of one behaviour

ASSUME PortfolioAssumption ==
  /\ IsFiniteSet(Symbols)
  /\ Prices \subseteq Nat \ {0}
  /\ Weightings \subseteq Seq([symbol : Symbols, weight : 0..100])
  /\ \A w \in Weightings : SumFunction([i \in DOMAIN w |-> w[i].weight]) <= 100
  /\ Targets \subseteq [Symbols -> Nat]
  /\ InitialCapital \in Nat /\ MaxOperations \in Nat
  /\ TransactionCost \in 0..1000
  /\ CashReserve \in 0..100
  /\ DriftThreshold \in Nat /\ MaxPositionSize \in Nat /\ RebalanceThreshold \in Nat
  /\ ByThreshold \in BOOLEAN

VARIABLES cash,         \* PortfolioEngine._cash
          positions,    \* PositionManager._positions: [open, quantity, price]
          allocations,  \* the list allocate() returned last, with its scaled amounts
          task,         \* the operation under way: [kind, list, prices, available]
          outcome,      \* how the last operation ended, "none" if it has nothing to tell
          executed,     \* the list rebalance() returns; `moved` is what happened
          operations,   \* operations started
          plan          \* what the operation under way was planned on

portfolioVars == <<cash, positions, allocations, task, outcome,
                   executed, operations, plan>>

NoPosition == [open |-> FALSE, quantity |-> 0, price |-> 0]
Idle       == [kind |-> "idle", list |-> <<>>, prices |-> [s \in Symbols |-> 0], available |-> 0]
NoPlan     == [equity |-> 0, target |-> [s \in Symbols |-> 0], fresh |-> FALSE, cashOnly |-> FALSE]

\* A prices argument; 0 stands for a symbol without one.
PriceMaps == [Symbols -> Prices \cup {0}]

\* Position values and total equity, at the prices the positions were given
\* last, and the cost of buying and the proceeds of selling (the mutant's
\* without the transaction cost).
Value(s)             == 1000 * positions[s].quantity * positions[s].price
TotalEquity          == cash + SumFunction([s \in Symbols |-> Value(s)])
CostOf(n, price)     == n * price * (1000 + TransactionCost)
GrossProceeds(n, price) == n * price * 1000
ProceedsOf(n, price) == n * price * (1000 - TransactionCost)

PortfolioInit ==
  /\ cash = 1000 * InitialCapital
  /\ positions = [s \in Symbols |-> NoPosition]
  /\ allocations = <<>>
  /\ task = Idle
  /\ outcome = "none" /\ executed = <<>>
  /\ operations = 0
  /\ plan = NoPlan

Start == /\ task = Idle
         /\ operations < MaxOperations
         /\ operations' = operations + 1

\* create_portfolio on an engine that has one already.
CreatePortfolio ==
  /\ Start
  /\ cash' = 1000 * InitialCapital
  /\ positions' = [s \in Symbols |-> NoPosition]
  /\ plan' = NoPlan
  /\ outcome' = "none"
  /\ UNCHANGED <<allocations, task, executed>>

\* allocate: a share of the total equity - not of the cash - less the reserve
\* for each symbol that buys one share at least.  Amounts are scaled by 10000;
\* an allocation left out of the list has amount 0 here.  The mutant forgets
\* the reserve.
FullAmount(w, prices) ==
  LET amount == TotalEquity * 100 * w.weight
      price  == prices[w.symbol]
  IN  IF price > 0 /\ amount \div (10000000 * price) > 0 THEN amount ELSE 0
Amount(w, prices) ==
  LET amount == TotalEquity * (100 - CashReserve) * w.weight
      price  == prices[w.symbol]
  IN  IF price > 0 /\ amount \div (10000000 * price) > 0 THEN amount ELSE 0
Allocate(weighting, prices) ==
  /\ Start
  /\ allocations' = [i \in DOMAIN weighting |->
                       [symbol |-> weighting[i].symbol, amount |-> Amount(weighting[i], prices)]]
  /\ plan' = [plan EXCEPT !.cashOnly = \A s \in Symbols : positions[s].quantity = 0]
  /\ outcome' = "none"
  /\ UNCHANGED <<cash, positions, task, executed>>

\* PositionManager.open_position and add_to_position: a symbol that had a
\* position before keeps the price that position was given last.
Opened(s, n, price) ==
  IF positions[s].open
  THEN [positions EXCEPT ![s].quantity = @ + n]
  ELSE [positions EXCEPT ![s] = [open |-> TRUE, quantity |-> n, price |-> price]]

\* execute_allocations walks the list with the prices of now.
ExecuteAllocations(prices) ==
  /\ Start
  /\ task' = [kind |-> "allocations", list |-> allocations, prices |-> prices, available |-> 0]
  /\ outcome' = "none"
  /\ UNCHANGED <<cash, positions, allocations, executed, plan>>

NextAllocation == /\ task.kind = "allocations"
                  /\ task.list # <<>>
Shares(a) == IF task.prices[a.symbol] = 0 THEN 0
             ELSE a.amount \div (10000000 * task.prices[a.symbol])

SkipAllocation ==
  /\ NextAllocation
  /\ Shares(Head(task.list)) = 0
  /\ task' = [task EXCEPT !.list = Tail(@)]
  /\ UNCHANGED <<cash, positions, allocations, outcome, executed, operations, plan>>

BuyAllocation ==
  /\ NextAllocation
  /\ LET a == Head(task.list)
         price == task.prices[a.symbol]
     IN  /\ Shares(a) > 0
         /\ CostOf(Shares(a), price) <= cash
         /\ cash' = cash - CostOf(Shares(a), price)
         /\ positions' = Opened(a.symbol, Shares(a), price)
  /\ task' = [task EXCEPT !.list = Tail(@)]
  /\ UNCHANGED <<allocations, outcome, executed, operations, plan>>

\* InsufficientFundsError: what was bought before stays bought.
AllocationRaises ==
  /\ NextAllocation
  /\ LET a == Head(task.list)
     IN  Shares(a) > 0 /\ CostOf(Shares(a), task.prices[a.symbol]) > cash
  /\ task' = Idle
  /\ outcome' = "InsufficientFundsError"
  /\ UNCHANGED <<cash, positions, allocations, executed, operations, plan>>

\* update_market_values: the symbols with a price and a position.
UpdateMarketValues(prices) ==
  /\ Start
  /\ positions' = [s \in Symbols |->
       IF positions[s].open /\ prices[s] > 0
       THEN [positions[s] EXCEPT !.price = prices[s]] ELSE positions[s]]
  /\ outcome' = "none"
  /\ UNCHANGED <<cash, allocations, task, executed, plan>>

\* should_rebalance by threshold: a weight too far from max_position_size.  By
\* period the first call and then the clock decide; a call that is not due
\* changes nothing.
ShouldRebalance ==
  ByThreshold =>
    \E s \in Symbols :
      /\ positions[s].quantity > 0
      /\ LET off == 100 * Value(s) - MaxPositionSize * TotalEquity
         IN  off > RebalanceThreshold * TotalEquity \/ -off > RebalanceThreshold * TotalEquity

\* generate_actions: by how much a position misses its target (scaled by 100),
\* the shares that makes at the price, and what to do about it.  The mutant
\* measures weights in the initial capital.
MissingOfCapital(s, target) == target[s] * 1000 * InitialCapital - 100 * Value(s)
Missing(s, target) == target[s] * TotalEquity - 100 * Value(s)
AbsMissing(s, target) == IF Missing(s, target) < 0 THEN -Missing(s, target) ELSE Missing(s, target)
Quantity(s, target, prices) == AbsMissing(s, target) \div (100000 * prices[s])
ActionType(s, target, prices) ==
  IF \/ Missing(s, target) = 0
     \/ /\ AbsMissing(s, target) < DriftThreshold * TotalEquity
        /\ Quantity(s, target, prices) = 0
  THEN "HOLD" ELSE IF Missing(s, target) > 0 THEN "BUY" ELSE "SELL"

\* The symbols come out of a set and are sorted by drift, the largest first:
\* equal drifts stand in any order.  filter_actions drops the HOLDs.
Actions(target, prices) ==
  {[symbol |-> s, type |-> ActionType(s, target, prices),
    quantity |-> Quantity(s, target, prices), drift |-> AbsMissing(s, target)] :
     s \in {x \in Symbols : prices[x] > 0 /\ ActionType(x, target, prices) # "HOLD"}}
SortedByDrift(actions) ==
  {list \in [1..Cardinality(actions) -> actions] :
     \A i, j \in 1..Cardinality(actions) :
       i < j => list[i] # list[j] /\ list[i].drift >= list[j].drift}

\* rebalance() up to its loop.  filter_actions starts from the cash above the
\* reserve.
Rebalance(target, prices) ==
  /\ Start
  /\ ShouldRebalance
  /\ \E list \in SortedByDrift(Actions(target, prices)) :
       task' = [kind |-> "rebalance", list |-> list, prices |-> prices,
                available |-> 100 * cash - CashReserve * TotalEquity]
  /\ executed' = <<>>
  /\ outcome' = "none"
  /\ plan' = [equity |-> TotalEquity, target |-> target, cashOnly |-> FALSE,
              fresh |-> \A s \in Symbols :
                          positions[s].open => positions[s].price = prices[s]]
  /\ UNCHANGED <<cash, positions, allocations>>

\* filter_actions, for the action the loop comes to: it reads nothing that
\* executing the actions before it changes, so the two passes are one here.
\* The cost of a BUY is quantity * target_value / (target_weight * equity):
\* the number of shares, whatever they cost.  (available is scaled by 100.)
Scaled == 100 * 1000
Allowed(action) ==
  IF action.type = "SELL" \/ Scaled * action.quantity <= task.available
  THEN action.quantity
  ELSE IF task.available > 0 THEN task.available \div Scaled ELSE 0
Dropped(action) ==
  /\ action.type = "BUY"
  /\ Scaled * action.quantity > task.available
  /\ Allowed(action) = 0
StillAvailable(action) ==
  IF action.type = "BUY" /\ Scaled * action.quantity <= task.available
  THEN task.available - Scaled * action.quantity
  ELSE task.available

NextAction(type) == /\ task.kind = "rebalance"
                    /\ task.list # <<>>
                    /\ Head(task.list).type = type
TakeAction == task' = [task EXCEPT !.list = Tail(@), !.available = StillAvailable(Head(task.list))]
Executed(n, moved) ==
  executed' = Append(executed, [symbol |-> Head(task.list).symbol, quantity |-> n, moved |-> moved])

DropAction ==
  /\ NextAction("BUY")
  /\ Dropped(Head(task.list))
  /\ TakeAction
  /\ UNCHANGED <<cash, positions, allocations, outcome, executed, operations, plan>>

\* _execute_buy: what the cash does not pay for is cut; nothing at all is
\* bought when it does not pay for one share.  The action counts as executed
\* as it was.  The mutant compares the cash with the price alone.
BoughtByPrice(n, price) ==
  IF n * price * 1000 <= cash THEN n ELSE cash \div (price * 1000)
Bought(n, price) ==
  IF CostOf(n, price) <= cash THEN n ELSE cash \div (price * (1000 + TransactionCost))
ExecuteBuy ==
  /\ NextAction("BUY")
  /\ LET a == Head(task.list)
         price == task.prices[a.symbol]
         n == Bought(Allowed(a), price)
     IN  /\ ~Dropped(a)
         /\ cash' = cash - CostOf(n, price)
         /\ positions' = IF n = 0 /\ CostOf(Allowed(a), price) > cash
                         THEN positions ELSE Opened(a.symbol, n, price)
         /\ Executed(Allowed(a), n)
  /\ TakeAction
  /\ UNCHANGED <<allocations, outcome, operations, plan>>

\* _execute_sell and reduce_position: never more than is held.
Sold(quantity, held) == IF quantity <= held THEN quantity ELSE held
ExecuteSell ==
  /\ NextAction("SELL")
  /\ LET a == Head(task.list)
         price == task.prices[a.symbol]
         held == positions[a.symbol].quantity
         n == Sold(a.quantity, held)
     IN  /\ cash' = cash + ProceedsOf(n, price)
         /\ positions' = IF n = 0 THEN positions
                         ELSE [positions EXCEPT ![a.symbol] =
                                 [open |-> TRUE, quantity |-> held - n, price |-> price]]
         /\ Executed(a.quantity, n)
  /\ TakeAction
  /\ UNCHANGED <<allocations, outcome, operations, plan>>

\* The list is done and the operation returns.
Returns ==
  /\ task.kind # "idle" /\ task.list = <<>>
  /\ task' = Idle
  /\ outcome' = task.kind
  /\ plan' = [plan EXCEPT !.cashOnly = FALSE]
  /\ UNCHANGED <<cash, positions, allocations, executed, operations>>

PortfolioNext ==
  \/ CreatePortfolio
  \/ \E prices \in PriceMaps :
       \/ \E weighting \in Weightings : Allocate(weighting, prices)
       \/ ExecuteAllocations(prices)
       \/ UpdateMarketValues(prices)
       \/ \E target \in Targets : Rebalance(target, prices)
  \/ SkipAllocation \/ BuyAllocation \/ AllocationRaises
  \/ DropAction \/ ExecuteBuy \/ ExecuteSell
  \/ Returns

PortfolioSpec == PortfolioInit /\ [][PortfolioNext]_portfolioVars

------------------------------------------------------------------------------
(* What the portfolio engine promises.                                     *)

\* The cash never goes below zero: not by allocations computed at other
\* prices or executed twice, not by the buys of a rebalance that come before
\* the sells that were to pay for them.  Nor are shares sold that are not held,
\* or more of a symbol moved than the action reported says, although actions are
\* computed at other prices than they are executed at.
NeverOverdrawn ==
  /\ cash >= 0
  /\ \A s \in Symbols : positions[s].quantity >= 0
  /\ \A i \in DOMAIN executed : executed[i].moved <= executed[i].quantity

\* execute_allocations has no rollback: an InsufficientFundsError half way
\* leaves the first positions bought.  That cannot happen to allocations of a
\* portfolio that was all cash, at whatever prices they are executed, as long
\* as the reserve pays for the transaction costs.
AllocationsAreFunded ==
  outcome = "InsufficientFundsError" /\ plan.cashOnly =>
    (100 - CashReserve) * (1000 + TransactionCost) > 100000

\* Shares in a symbol, valued at the price of the rebalance.
SharesMoved(s) == LET d == positions'[s].quantity - positions[s].quantity
                  IN  IF d < 0 THEN -d ELSE d

\* A rebalance at the prices the positions are valued at moves value between
\* cash and shares; each of its trades costs the transaction cost and nothing
\* else, whether it was cut or not.
RebalanceCostsOnly ==
  [][task.kind = "rebalance" /\ plan.fresh =>
       TotalEquity' = TotalEquity
         - TransactionCost * SumFunction([s \in Symbols |-> SharesMoved(s) * task.prices[s]])]_portfolioVars

\* ... and when it has run, no symbol it had a price for is worth a whole share
\* more than its target: sells are never cut and buys never overshoot, though
\* the cash decides how much of them happens.
NothingOverweight ==
  task.kind = "rebalance" /\ task.list = <<>> /\ plan.fresh =>
    \A s \in Symbols : task.prices[s] > 0 =>
      100 * Value(s) < plan.target[s] * plan.equity + 100000 * task.prices[s]

=============================================================================
