# ZIME in TLA+

This directory specifies ZIME (`backend/`) in TLA+: the parts that keep state as
state machines, the packages that only compute as operators over small data. TLC
checks both on small instances, and TLAPS proves the properties of `Scheduler`,
`PriceStore`, `MarketPipeline`, `Recommendation`, `Backtest`, `Portfolio`, `Advice` and
`Calculations` for all values of the constants. `PROJECT.json` lists every run, mutant,
theorem, hazard and the source lines each definition stands for; this file says
what they mean.

Run a configuration with `tlc -config <X>.cfg <MC module>.tla`, a proof with
`tlapm <Module>Proofs.tla`.

## The system

ZIME is a single Python code base: market data is fetched daily, checked,
adjusted and stored; analytics, factors, screening and ranking are computed from
it; strategies, portfolios and back-tests are built on those. Some parts keep
state, order steps or can fail half way; most are arithmetic over one series or one
data frame, where the hard questions are what happens at a threshold, with a
missing value, to the next step of a chain of packages, or to the total of
amounts that are cut one after the other.

| Component | State it keeps | Operations | Interacts with |
|---|---|---|---|
| `orchestration` (job scheduler) | jobs, dependency graph, statuses, cancelled and paused sets, handlers, results of the last run, attempt history | `register_job`, `schedule`, `cancel`, `pause`, `resume`, `run`, `status_of`, `results` | calls job handlers, which may call back |
| `storage/postgresql` | tables `symbols`, `daily_prices`, `dataset_versions`, `update_logs`; a session per client | `store`, `retrieve`, `delete`, `exists` | called by the pipeline and by operators, several processes at once |
| `pipeline` | the reports of the run in progress | `run`, `run_many`, `run_incremental`, `run_full_history` | data engine, validators, corporate actions, `store` |
| `data`, `providers` | authentication token, retry counters | `get_data`, `fetch` | the Upstox API (external) |
| `data_quality` | none | rules over a list of bars | pipeline |
| `corporate_actions` | a table of actions with a unique key | `store`, `store_batch`, `validate_batch`, `adjust` as of a day | pipeline |
| `fundamentals` | tables of statements and their revisions | `store_batch`, `retrieve_as_of`, `latest_snapshot`, aggregates | factors |
| `recommendation`, `cache`, `analytics` execution | a dictionary behind a lock; a registry; a thread pool | `analyze`, `get`, `set`, `invalidate`, `register`, `unregister` | analytics engines |
| `analytics` engines (trend, momentum, volume, relative strength, volatility) | none | score the signals of one context | recommendation |
| `regime`, `relative_strength`, `trend`, `patterns`, `volume`, `composite`, `trade`, `risk`, `portfolio/portfolio_engine.py` | none | one chain from market and stock to capital | strategies |
| `strategy` | none | six strategies over the result of the chain; a rule engine | |
| `screener`, `ranking` | none | nested filters; weighted, normalised factors | |
| `sizing`, `optimization` | none (counters) | sizes and weights under limits; several solvers in turn | |
| `factors`, `engines`, `services/research_service.py` | a registry | one research query: factors over a table of bars | providers |
| `intelligence` | champion, challengers, evaluation histories, learned scores | register, evaluate, check, promote, learn | |
| `backtesting` | cash, holdings, market prices, realized profit of a portfolio; the statistics of a run | `run` over dates: signal, orders, fills | strategies |
| `portfolio` | cash, positions with their last prices, the last rebalance | `allocate`, `execute_allocations`, `update_market_values`, `rebalance` | weighting strategies |
| `volatility`, `simulation`, the rest of `risk` | none | estimators, Monte Carlo, VaR: statistics | |
| `api`, `cli`, `app`, `reporting`, `core` | none | request handling, formatting, configuration | all of the above |

What is hard in it, and what makes each part correct:

* **Scheduler.** A job may be executed only after everything it depends on has
  succeeded, although dependencies fail, are cancelled, are paused or are
  skipped ahead of their turn, and although handlers call back into the
  scheduler. Status, result and history must tell the same story, also after a
  run that ended in an exception. The order must be topological and the cycle
  verdict exact.
* **Store.** `store()` writes four tables; it must be all or nothing for every
  failure point, and concurrent clients must not produce two rows for one date
  or two rows for one version. `delete()` works on the rows its statement found while
  others store and delete. Acknowledgements get lost.
* **Pipeline.** A run reads the clock twice, uses a version string that changes
  at midnight, and a window that overlaps what is stored is refused whole. Records
  that do not convert are skipped silently. What is stored must nevertheless have no
  other gaps and must not fall behind, and a report must not claim rows that are not
  there.
* **Back-test.** The orders of one signal are sized together and paid one by one; an
  exception between two of them leaves `run`, and an engine may keep its portfolio.
  The cash must cover every order, and the books of engine and portfolio - cash,
  profit, costs - must agree at every point.
* **Portfolio.** Capital is allocated from the equity and spent from the cash, later
  and at other prices; a rebalance truncates, filters and cuts orders, buys first or
  sells first as the drifts fall. Nothing may be overdrawn, no value may appear, and
  no position may stay above its target.
* **Recommendations.** The cache key holds only part of what an answer was computed
  from, threads finish in any order, two clients may compute the same key at once,
  and the registry may change between running the engines and scoring their facts.
  Every answer must be one that a single thread could have given.
* **Reference data.** Statements are restated and batches overlap. What was answered
  as of a day must stay the answer as of that day.
* **The chain of advice.** Nine packages hand results to each other; a gate in one
  must hold through all that follow, and capital must be handed out exactly once.
* **Sizes, weights, ranks, signals.** Limits are applied one after the other, solvers
  are tried in turn, values tie or are missing, windows shift where rows have gaps.
* **Models.** Scores may be negative, models unevaluated or registered twice, and
  learned weights outlive the window they were made for.

## Modules

| Module | What it is |
|---|---|
| `DependencyGraph` | graph operators of `dependency_graph.py`: roots, released nodes, cycles, reachability of skips |
| `Scheduler` | the scheduler, one action per public operation, per iteration of the sort, per branch of the loop of `run`, per outcome of an attempt |
| `JobRun` | what a run promises, without any order: the abstract specification `Scheduler` implements |
| `SchedulerProofs` | theorems about `Scheduler`: the order of the sort, the loop, what a run leaves behind, and that it implements `JobRun` |
| `PriceStore` | `PostgreSQLRepository` over a READ COMMITTED database, one action per database round trip of `store()` and `delete()` |
| `MarketPipeline` | runs of `MarketPipeline` by several processes over one `PriceStore` (it extends that module), with a calendar, crashes and an administrator who deletes |
| `MarketPipelineProofs` | theorems about `PriceStore`, and on top of them those about `MarketPipeline` |
| `Backtest` | `BacktestEngine.run` with its `Broker` and `Portfolio`, one action per date, order and outcome |
| `BacktestProofs` | theorems about `Backtest` |
| `FoldLemmas` | what the other proof modules need of recursive functions, of sums over finite sets and over sequences, and of the operators of `Ratios` that put members in an order or pick some of them |
| `Portfolio` | `PortfolioEngine` with `PositionManager` and `Rebalancer`, one action per operation and per order of its loops |
| `PortfolioProofs` | theorems about `Portfolio` |
| `Recommendation` | `RecommendationEngine.analyze` by several clients over one `MemoryCache`, one registry and a pool of threads |
| `RecommendationProofs` | theorems about `Recommendation` |
| `Ratios` | fractions and integer sequences: the arithmetic of the modules below |
| `Assessment`, `Patterns`, `Decision` | the chain of advice as operators, each module extending the one before: market regime, relative strength, trend, volume; five pattern detectors; composite, trade plan, risk check, capital |
| `Strategies` | the six strategies and the evaluation pipeline |
| `Advice` | one round of advice: extends `Strategies` with stocks that come one after the other, a strategy's verdict, and a portfolio |
| `AdviceProofs` | theorems about `Advice` and the modules under it |
| `Signals` | the signals, scorers and evaluators of the five analytics engines |
| `Factors` | the eleven factors, the factor engine and `ResearchService.analyze` |
| `Optimization`, `Sizing`, `Screening`, `Rules` | the packages of these names (`Screening` with `ranking`; `Rules` is the rule engine of `strategy`) |
| `ReferenceData` | the repositories of corporate actions and fundamentals, retrieval as of a day, price adjustment |
| `Intelligence` | champion-challenger selector, learning engine and the engine around them |
| `Calculations` | composes the last two with `Factors`, `Optimization`, `Sizing`, `Screening`, `Rules` and `Signals`: the questions a caller can ask and the reference data and models beside them |
| `CalculationsProofs` | theorems about `Calculations` |
| `MC...` | instances for TLC |

### Scheduler

`jobs`, `deps`, `status`, `cancelled`, `paused`, `handlers`, `results`, `history`
are the fields of `Scheduler`, `DependencyGraph`, `JobRegistry` and
`HistoryStore`; `queue`, `sorted` the locals of `topological_order`; `order`,
`turn`, `failed` those of `run`; `attempt` that of `RetryExecutor.execute`.
`phase` is where the single thread is. A handler's attempt is a state
(`phase = "attempt"`): while it lasts, every public operation other than `run`
is enabled (`ApiStep`), because handlers are arbitrary callables. The attempt ends
in one of four ways: success, a retryable exception with attempts left, one
without, or an exception the policy does not retry, which leaves `run` through
`Raise` and keeps whatever results there are. `Reached` states what
`_propagate_skip` computes as the least set closed under open dependents, so the
recursion of the code is not repeated.

### PriceStore

A request is a listing, a set of dates and a version string; prices and volumes
play no part. The provider is always the same one (the pipeline's), so the key of
a price row is listing and date. `stage[c]` is where client `c` is in its
transaction. In `store()`: after the symbol lookup (`found`, `missing`), after the
insert of a symbol (`ready`), after the flush of the unit of work (`flushed`). An
insert waits for an uncommitted insert of the same key (`InsertSymbol`, `FlushRows`)
and fails on a committed one (`SymbolRaceLost`, `FlushDuplicate`). The flush takes
all keys of a request in one step: the statements of one flush are not told apart.
In `delete()`: after the DELETE statement took its snapshot (`erasing`) and after it
returned (`erased`). `doomed[c]` are the rows of the snapshot; the DELETE waits for
another one that holds some of them and then skips those that are gone
(`EraseRows`). Rows another client commits after the snapshot are not in it and
stay. A row being deleted is there for everybody else until `CommitDelete`, and an
insert of its key waits for that (`Refused`, `FlushRows`). `Abort` may happen at every
stage, `CommitUnacknowledged` is a commit, of a store or a delete, whose answer is lost.
`retrieve`, `delete` and `exists` look the symbol up on one exchange (`Home`).

### MarketPipeline

`run[c]` is what the loop of `run_many` is doing, or how its last run ended. Stages 1
to 5 touch nothing shared. For one symbol they are one action whose outcome is a
failed report (`FetchFails`, `ValidationFails`), an empty record set
(`NothingToPersist`) or a call of `store()` (`Persist`). `Payloads` is what the
provider may return: the trading days of the window, the same without today's
bar, or nothing, which is also what a failed request turns into. `Converted` is what
`_convert_to_bars` makes of it: records that raise are skipped, any of those that
`Malformed` names, and neither the provider, whose own validator only leaves a note in
the metadata, nor a later stage reports it. `fetched[c]` is the count of the payload, the
count of inserted rows that of the bars handed to `store()`. Of validation only the rule
that a weekday may not be missing is modelled, on the bars that were converted, so it
does not see a day skipped at the edge of the window; any other issue, a date that comes
twice among them, is the nondeterministic `ValidationFails`. Days are numbers from a
Monday.

### Backtest

`cash`, `holdings`, `bars`, `realized` are the fields of the back-testing
`Portfolio`; `orders`, `costs`, `trades` the locals of `run`. `engine` says whether
broker and portfolio were given to the constructor (as `BacktestFactory` does) or
are made by each run. A date is `ReplayDate` - prices, signal, orders -, one `Buy`,
`BuyAborts` or `Sell` per order, and `DateEnds`. Money is counted in thousandths of
the price unit, so costs in thousandths of the traded value are exact integers and
`int()` is `\div`; the floating-point rounding of the code is not modelled. The
strategy is any function: signals are arbitrary. The engine buys only what it does
not hold, so the average cost is always the last purchase price and its division is
exact.

### Portfolio

`cash` and `positions` (shares and the price a position was given last) are the
state; `task` is the loop of `execute_allocations` or `rebalance` under way.
`allocations` is the list `allocate` returned to a caller, who may execute it
whenever and as often as it likes. `generate_actions` collects symbols in a set and
sorts by drift, so equal drifts come in any order (`SortedByDrift`). `filter_actions`
reads nothing that executing actions changes; its pass is fused with the loop of
`rebalance`, and `task.available` is its local. `plan` remembers what an operation
was planned on and is read by properties only.

### Recommendation

`clock`, `cache`, `hits`, `misses` are the fields of `MemoryCache`, `registry` the
ordered dictionary of `AnalyticsRegistry`. An analysis is `Lookup`, `StartPipeline`,
one `FinishTask` per engine - any of the first `Workers` unfinished ones -,
`ScoreFacts`, which reads the registry again, and `StoreResult`. `data` is what a
client builds its context from: the day is in the key, the revision is not. `by`,
`stored` and `invalidations` of an entry are read by properties only. `Facts` is any
function of engine and context, `Raises` among its values.

### Advice and the modules under it

Nothing is kept between two stocks, so each package is an operator of its input and a
round is a sequence of results. Scores are counted in fractions that make every
factor of the code an integer (`PerPoint`), prices in thousandths; a comparison with a
threshold is exact, rounding to cents is modelled where the code rounds
(`trade_engine.py`). An absent input is `None`, as in the code. Warnings are sets,
because their number lowers the confidence; reasons and notes are left out.

### Calculations and the modules under it

A question is asked and its answer computed in one step, since nothing is shared. No
question reads the tables or the models, so as a bound one question is asked, of a
system that has stored nothing yet, and models are compared only beside empty tables.
Powers, exponential means and the scores of a ranking are exact fractions (`Ratios`),
compared by multiplying out; a deviation is a square root rounded down (`Root`), unless
a comparison with it is one of squares (`BollingerBands`). `Optimization` models what each solver
does with its constraints and in which order solvers are tried: a solver that raises
has no outcome, one that draws random numbers has many, on a grid of `Step` percent.
`numpy` and `scipy` are not looked into; the covariances of the instances are positive
definite, so that the matrix inversions of the code succeed.

`Intelligence` has one action per method of the engine that changes state. An
evaluation is its composite score, any of `Scores`; `EvaluateRaises` is the evaluation
that fails after it has registered its model.

## Runs

| Run | Bounds | What it shows |
|---|---|---|
| `scheduler_graphs` | 3 jobs, each with any of the 8 dependency sets, 1 run, 1 attempt | `RunsOnlyAfterDependencies`, `OrderRespectsDependencies`, `CycleVerdictExact`, `SkipHasCause`, `DeferralIsolates`, `ResultsAreFinal` for every graph on three jobs, self loops and cycles included |
| `scheduler_runs` | chain of 3 jobs whose ids are not in order, 2 runs, up to 2 attempts, a job without attempts, 2 handler types | `ThreeBooksAgree` (status, result and history), `RetriesFollowFailures`, `RunEnds`, and the refinement `Promise` of `JobRun` |
| `price_store` | 2 clients, 1 symbol on 2 exchanges, 2 overlapping date sets and 2 versions on the one `delete()` is bound to, one dataset on the other, no delete begins once the log has 3 rows | `StoresAreAtomic`, `KeysAreUnique`, `FlushedRowsAreSafe`, `LogBalances`, `RowsSurvive` |
| `duplicate_means_version` | as `price_store` | finding: a store is refused as a duplicate although its version is not on record |
| `pipeline_daily` | 1 process, 2 symbols, 8 days from Monday to Monday, a window of 3 days, two days of one symbol whose record may not convert, no delete begins once the log has 2 rows | `StoredWithoutGaps`, `LagIsBounded` |
| `pipeline_races` | 2 processes, 1 new symbol, 2 days, of which the last may not convert, no deletes, no validation | `VersionsFollowBars`, `InsertedRowsAreCommitted`, `RunsEnd` |
| `advice` | 4 markets, 10 stocks of which 2 may come second to fifth, capital of 1000, 0 and -500, 4 configurations of 6 strategies | `GatedIsNeverBought`, `CapitalIsHandedOutInOrder`, `ApprovedOnlyOnSubCentStops`, `AskingForLessKeepsApproval` |
| `recommendation_cache` | 2 clients, 2 threads, 2 engines that may also be registered under another name, 2 days, 2 revisions, time to live 1 of 2, 3 lookups, 1 change | `AnswersAreSequential`, `AnswersAreFresh` |
| `calculations` | tables of up to 6 bars with gaps, 2 or 3 assets, up to 3 positions, every universe of 3 stocks over 2 fields, 4 rows of reference data, 2 models with 3 evaluations | `OscillatorsStayInRange`, `OptimizedWeightsAreReached`, `RankingFollowsDominance`, `PastAnswersStand`, `AdaptiveScoreForgets`, `BestIsKept` |
| `sizes_respect_cash` | the sizings of `calculations` | finding: the sizes of a portfolio exceed its available cash |
| `backtest_books` | 2 runs of up to 3 dates, 2 symbols, closes 0, 3, 7 or none, costs of 0.2%, 0.9% and 1.6% | `BuySignalsNeverAbort`, `BooksAgree`, `TradingCostsOnly` |
| `portfolio_trading` | 4 operations, 2 symbols, prices 4, 7 or none, 3 targets (one of 130%), cost 1%, reserve 5% | `NeverOverdrawn`, `AllocationsAreFunded`, `NothingOverweight`, `RebalanceCostsOnly` |

Every property of a passing run has a mutant in `PROJECT.json`: a definition of the
model with a plausible bug in it, under which TLC finds the property violated.

Some results are worth a word. `ApprovedOnlyOnSubCentStops`: the trade engine measures
the reward to a first target one risk away and then asks for two, so the risk check
approves only stocks whose stop rounds to the entry. `GatedIsNeverBought` holds because
the composite recommendation passes through trade plan and risk check; no strategy
ever meets an approved stock in a bear market, which makes the bear gates of the
strategies idle. `AdaptiveScoreForgets`: the weights the learning engine carries along
cancel out, the adaptive score is the sum of squares over the sum of the positive
recent scores. `sizes_respect_cash`: without cash the cap of a position is zero and is
skipped, and the last step of the optimizer may raise a size from the account again.
`duplicate_means_version`: `store()` turns every unique violation into
`DuplicateDatasetError`, which its docstring keeps for a version that already exists; an
overlapping date, or a symbol another client has just inserted, gives the same answer.
`StoredWithoutGaps` leaves out the days of `Malformed` because the code does: a record
skipped at the edge of a window is missed by no rule, and the later windows that hold its
day are refused for the other days they hold, so the day is never stored.
`RowsSurvive` says which rows a delete removes, not that the listing is empty after it:
what another client stored between the DELETE and its commit is still there.

Why the bounds are enough. Three jobs are the least for a diamond-free graph in
which a job has both a direct and a transitive dependency, two dependents, or a
cycle of any length up to three; two runs are the least in which something of an
earlier run can leak into a later one. Two clients are the least for a race, two
overlapping date sets with two versions make each unique constraint fail alone and
together; three log rows are a dataset on
each exchange and one more that is stored or deleted before a delete. Eight days contain a weekend and a window shorter than the time that
can pass; the two days whose record may be skipped are the first, the last, an inner
day and all that is left of some window. Two runs with different portfolios behind them show what one leaves to the
other; costs below and above the 1% that order generation sets aside make
`InsufficientCashError` impossible and possible. Four operations are an allocation,
its execution, a change of prices and a rebalance. Two clients, two revisions and two
days let an entry be computed from older data, or under another key, than the lookup
that it answers; three lookups are two computations and a hit on either; one change is
enough to come between any two steps of an analysis (its two clients are symmetric).
Five stocks use up any capital before the last. Four rows of reference data are two
revisions of a period with two others before or after. Three evaluations are one more
than the window of the learning engine. `LastDay`, `MaxLog`, `MaxRuns`, `MaxDays`,
`MaxOperations`, `MaxTime`, `MaxDay`, `MaxRevision`, `MaxChanges`, `MaxLookups`,
`MaxStocks`, `MaxStored` and `MaxEvaluations` are the only bounds; each is a guard. The deadlock check
is off where a bound or the end of the calendar stops everything.

**Fairness.** `FairSpec` (scheduler): weak fairness of the steps of `run`, since a
called function keeps executing and handlers return; nothing is assumed of the
public operations. `FairPipelineSpec`: weak fairness of the steps of a run and of
its transaction, strong fairness of the steps that wait for another
transaction's rows (PostgreSQL wakes a waiter whenever the holder ends; weak
fairness would let others retake the key for ever). Crashes, aborts, days and new
runs are never assumed to happen. `RunsEnd` is checked without deletes (`MaxLog` is 0),
which would multiply the states; the third waiting step, `EraseRows`, has the same
fairness.

`pipeline_daily` assumes a disciplined operator (`EveryDay`): the day does not end
before each symbol has gone through the persist stage without a database error,
and neither a run nor a delete spans midnight. Both are needed. Without the first, a day without a
run ages the window past the last stored day. Without the second, a run that
crosses midnight stores yesterday's window under today's version, and today's own
run is refused as a duplicate. Without holidays: `_rule_missing_days` takes every
weekday for a trading day, so a window with a weekday holiday inside never passes
validation.

## Proofs

`SchedulerProofs` proves, for any job ids, graphs, policies and callbacks,
`TypeOK`, `OrderRespectsDependencies`, `RunsOnlyAfterDependencies` and
`ResultsAreFinal`. `RunsOnlyAfterDependencies` is not inductive: before it
executes a job the loop looks only at the set `failed`, which says nothing of a
dependency that was deferred. `SchedulerInv` adds (1) the order lists
dependencies first - itself the outcome of an invariant of the sort, `SortInv`:
sorted and queued nodes are disjoint lists without repetition, and a queued node
waits for sorted nodes only; (2) `LoopInv`: `failed` is exactly the set of jobs with
a result other than success, and each job whose turn passed without a result
left a result on all of its dependents; (3) dependencies of a registered job never
change, so callbacks are harmless. `ReadyJob` combines them.

Its second part builds on `SchedulerInv` and proves the rest of what the runs
check of the scheduler. `BooksInv` states `ThreeBooksAgree` job by job: the job of the
running attempt is the only one whose status may run ahead of its results.
`TriesInv` says of every history that each attempt follows the failure it retries, and
that the attempt under way is the next number. `CycleVerdictExact` has two directions.
A verdict "cycle" needs `CompleteInv`: a node whose dependencies are all sorted is
sorted or queued, so when the queue runs dry the nodes left over form a `Knot`.
Conversely, an order contains no knot, because the first job of the knot in the order
would have to come after another job of it.
`CauseInv` follows a skip to the lost dependency behind it and keeps every dependent of
a deferred job from having had its turn, which gives `SkipHasCause` and
`DeferralIsolates`. `SchedulerPromise` is the refinement: the concrete state of a
job determines its `Fate` in `JobRun`, and each of the actions of `Scheduler` is shown
to be one abstract step (a run starts, a set of jobs is resolved, a run ends) or a
stutter; the steps of the sort and of failed attempts are stutters.

`MarketPipelineProofs` begins with the store and proves, for any clients, symbols, dates and requests,
`StoreTypeOK`, `StoresAreAtomic`, `KeysAreUnique`, `FlushedRowsAreSafe` and
`RowsSurvive`. The first four are inductive together: `Committed` adds rows under a
key that `FlushedRowsAreSafe` says nobody has, `StoresAreAtomic` says that a row
with a version string has a version row with that string (so the key would be
taken), and the unique keys keep other flushed transactions safe. That they hold with
deletes of several round trips needs `DoomedInv`: what a DELETE has found are whole
versions of one listing on `Home`, so that a version is erased whole or not at all; and
once it has returned, its rows are still there and no other one's, so that they are
counted once. The pipeline needs in addition (`StoredOnRecord`) that a client told
"stored" finds its version on record.
`LogBalances` adds the sizes of a log up by a recursive function. The library's
induction theorems cannot be used here, so its existence, its uniqueness and the effect
of one more entry are each proved by the least number for which they would fail
(`LeastElement`).

It then shows that each step of the pipeline except `Crash` is a
step of the store or leaves it alone, so that `StoreInv` and `StoredOnRecord` hold under the
pipeline too (`PipelineStores`). `HandedInv` says what a transaction of the persist
stage carries: bars of the symbol at hand that are trading days, no later than the
version and no more than were fetched. It gives `VersionsFollowBars` and
`InsertedRowsAreCommitted`. `DailyInv` is the argument for the operator's discipline.
Under `EveryDay`, the window a run works with is
the window of today (`InWindow`), a symbol carried through the persist stage today has a
stored day at the window's edge or later (`covered`, `Recent`), and any other symbol
had that yesterday (`Lagging`); midnight may pass only when all symbols are covered. A
delete under way leaves nothing or what was stored today (`DoomedByToday`). This is
`LagIsBounded`. With a single span (every run goes back as far) the days stored, and those
of each version, have no holes but days of `Malformed` (`GapInv`): the bars handed over
close up with what is stored, and a delete leaves nothing or one version. From this
follows `StoredWithoutGaps`. Both theorems carry the
assumption `EveryDay`; without it TLC finds the gap described above. Weekday holidays do
not matter to the proof.

`BacktestProofs` proves, for any finite set of symbols, any prices, configurations, dates
and runs, `BuySignalsNeverAbort`, `BooksAgree` and `TradingCostsOnly`. An order
is made from a state that the orders before it have changed when it executes, so two
facts about the whole rest of the list are inductive with the types: `OrdersFit` (each
order has a price of its date, and a purchase adds to no shares of a different cost, so
`average_cost` never truncates in a backtest) and `OrdersCovered` (at costs below the
reserve, the cash covers what order generation set aside for the orders to come).
`BuyOrdersAreFine` establishes the second from the recursion over the configuration's
symbols; `BuyEffect` and `SellEffect` say once what an executed order does to cash, costs,
profit and holdings, and every later lemma uses them. The equity and the book value
are sums over a finite set. `FoldLemmas` proves what the other proofs need of such
sums (that they are integers, do not depend on the order of summation, change by one
term when one term changes and need only be taken over the non-zero terms), each by
the smallest subset for which it would fail, because the library's induction over
finite sets is out of the provers' reach.

`PortfolioProofs` proves, for any finite set of symbols, any prices, targets and
configurations, and any number of operations, `NeverOverdrawn`, `RebalanceCostsOnly`,
`AllocationsAreFunded` and `NothingOverweight`. `PortfolioInv` is inductive for the first
two: types, no shares without a position, a price behind every action of a rebalance,
and, while a rebalance at fresh prices runs, positions valued at its prices (a purchase
sets the price of a position, so it must set the one it has). The other two are promises
about positions later in a list. `FundingInv`: with a reserve that covers the costs, the
cash covers all amounts still to be spent with their costs, from the moment `allocate`
returns them to the last purchase, whatever is executed at whatever prices
(`AllocatedIsBacked` begins it with the weights, which sum to at most 100%). `StaysBalanced`:
between two actions of a rebalance, every symbol with a price is either within a share of
its target or still waits for its sale; each waiting purchase would not overshoot and each
waiting sale would leave less than a share too much; and no symbol waits twice, so an
action finds the shares it was computed for.

`RecommendationProofs` proves, for any clients, threads, engines, facts, weights and
registries, `AnswersAreSequential` and `AnswersAreFresh`. Neither is inductive: an
answer may come from a cache entry, and an entry from an analysis that began long
ago. `RecommendationInv` says that (1) a running analysis has exactly the facts and
errors of the tasks that are done, whichever they are (`Gathered`, kept by
`OneMoreGathered` whatever task ends next, and equal to the one-thread result when all
are done: `AllGathered`); (2) a scored result, an entry and an answer are each explained
by a context, an order and a list of names, which differ only if the registry was
changed; (3) an entry lies under the key of the context it was made from, expires a
time to live after it was stored, and is none that an invalidation should have removed.

`CalculationsProofs` proves, for any reference data, models, scores and questions, the
invariants and action properties of the run `calculations`. Three are about what is kept:
`PastAnswersStand`, `AdaptiveScoreForgets` and `BestIsKept`. `TablesInv`: the tables hold
rows of the batches that were offered and grow at their end only, so the rows visible on
a day before the new ones are the same rows at the same places; what is retrieved, put
in the order of its periods, aggregated or multiplied is then the same
(`LaterStatementsUnseen`, `LaterActionsUnseen`); a deletion that leaves as many rows as
there were deletes none (`NothingDeleted`). `LearningInv`: what is kept of a model are integer scores, naturals for weights, and the adaptive
score those scores have by themselves. An update keeps it because, with a positive score
in the window, the weights are made anew from it (`WeighedByItself`; of a first score
the weight is one, `FirstScore`), and without one any natural weights, however many and
whatever they were made for, yield nothing above zero (`NothingPositive`). `RivalsInv` is type correctness of champion and challengers; the rest
of `BestIsKept` is that the best of a list is reached (`HighestIsReached`). `FoldLemmas`
holds what these need of the operators of `Ratios`: existence and typing of recursive
sums (`SteppingExists`, `SumsOfIntegers`), and that `Ordered` lists a finite set once, in
the given order (`OrderedEnumerates`, `OrderedByOrder`), from which follows what `Pick`
and `InOrder` return.

The other theorems of `CalculationsProofs` are about a single answer: `AnswerInv` says
what it was computed from, the rest are lemmas about the computation.
`RankingFollowsDominance`: both normalisations give a higher share to a higher
value, by its distance from the lowest or by its place (`SpreadOut`, `RankedByCount`); preferring low values
turns it round (`Complement`); the total is a sum of fractions of which one grows and none
falls (`TotalsFollow`, `PlusKeepsOrder`); and a list in the order of the totals keeps
`Better` stocks first (`RankFollows`). `OptimizedWeightsAreReached`: every solver
returns integer weights, one per asset, or nothing (`SolvedWeights`); the first result that
passes `validate_weights` is the answer, whichever solvers raised or were refused before
it; and the trades are the differences of the weights rounded down, of which those within
the tolerance are left out (`TradesReach`).
`OscillatorsStayInRange`: a fraction of `0 <= x <= d` lies between 0 and 100%
(`PartWithin`); the means of gains and losses are naturals whatever the closes are
(`MeanOfNaturals`), and a close lies between the lowest low and the highest high of any
window that contains it (`RangeHolds`), whichever rows the gaps have left in the window.
The window is at least one row long because constructors refuse other parameters
(`ParametersOfConstructed`).

`AdviceProofs` proves, for any markets, stocks, capital and configurations, the four
invariants of the run `advice`. `AdviceInv` says that every stock went through the chain,
that the portfolio was made of all of them, and that the verdict is that of a strategy on
the first. What remains is about the chain itself. `GatedIsNeverBought`: a bear market or
a broken trend makes the composite recommendation AVOID, which no later package turns
into anything that is allowed to execute. `CapitalIsHandedOutInOrder`: the cut of a
position is the least of its size and of what the positions before it have left, so the
running sum stops at the capital; negative capital is handed to nobody.
`ApprovedOnlyOnSubCentStops` follows the rounding of entry, stop and first target to cents:
with a risk of a cent or more after rounding, twice the risk is out of reach.
`AskingForLessKeepsApproval` compares the gates of each strategy one by one. All of them
need numbers to be numbers - scores with a varying number of parts, a confidence that
depends on how many warnings there are -, which is most of the module.

The assumptions are the ones in the modules: `ConstantsAssumption` (job ids are
finitely many numbers, policies are naturals) and `StoreAssumption` (requests are
non-empty and have finitely many dates), `PipelineAssumption` (the days of the model are
an interval, spans are naturals, and whatever the pipeline may hand to the store is
one of the store's requests), `BacktestAssumption` (finitely many symbols, natural
prices, rates between 0 and 100%), `PortfolioAssumption` (finitely many symbols, positive
prices, a reserve and a cost between 0 and 100%, and weightings whose weights sum to at
most 100%: `validate_weights` refuses any other, up to the 0.1% it grants floating-point
sums, provided the caller of `allocate` names no symbol twice), `RecommendationAssumption` (the time to live
and the revisions are naturals, and there is a first day), `ReferenceAssumption` (batches
are lists of rows whose days and years are integers), `ScoresAssumption` and
`WindowAssumption` (scores are integers; the window and the least number of observations
are positive), `AdviceAssumption` (averages, slopes and prices of a stock are integers or
missing, capital and the minimums of a configuration are integers), `QueriesAssumption` (a
table is a list of rows of integers with gaps, parameters are integers),
`OptimizerAssumption` (expected returns and present weights are lists of integers,
tolerances are naturals, solvers are known ones), `RankingAssumption` (values are integers
or missing) and `GroupsAssumption` (the groups of a group are among the groups). TLC
evaluates each of them on the runs. The theorems hold for every value of the bounds (`MaxLog`, `MaxRuns`,
`MaxDays`...), so the bounds hide nothing from them.

Model-checked only: liveness (`RunEnds`, `RunsEnd`), which needs `ENABLED`. Every other
property of a passing run is stated by a theorem. What a recursive definition computes is
proved only as far as least counterexamples reach: that a sum is an integer or that it
keeps an order, not what it is for every list.

## Not modelled

`run()` called from inside a handler; schema creation and the connection pool;
dataset types other than daily prices (they go through the same statements);
serialisation and checksums; limit and stop orders, which the back-testing engine
never places; constraint checks and metrics of portfolios; the normalisers of
corporate actions and fundamentals; CVaR, liquidity and the views of Black-Litterman;
the statistical regime detectors; ensembles, confidence and metrics of
`intelligence`; volatility models, VaR, stress tests and simulation, which are
statistics over return series or random numbers without an order of steps to check;
authentication with and parsing of the provider; the quality scores of
`data_quality`; configuration, formatting, HTTP and the command line. `PROJECT.json`
has a line per component.

Some behaviour is modelled as it is and claimed by no property, because nothing in the
repository says what it should be: weekday holidays count as missing days and fail
every window around them; `delete()` leaves the version behind, so that it cannot be
stored again on the same day; a retrieval with a version filters on a column that does
not exist; a held symbol without a bar is valued at its cost; a position bought again
keeps its old price until the next update; series of unequal length are paired from
their first bars; checklist items count as passed unless they contain "NOT" or "weak";
a missing number is 0 to a screen; one stock whose comparison raises ends the screen of
all; the objective functions of `optimization/objectives.py` return a constant;
`recommend()` raises after every successful optimization; a symbol that is no longer
targeted is never sold by `rebalance_sizes`; factor labels collide; a split reported by
two providers is applied twice; dividends are not adjusted for later splits; a
statement may be effective before it was filed; a model is challenger and champion
at once after `register_champion`.

## Plan

1. `DataEngine` with authentication, composed with `MarketPipeline`.
2. The normalisers of `corporate_actions` and `fundamentals`.
