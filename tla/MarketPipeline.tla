---------------------------- MODULE MarketPipeline ----------------------------
(***************************************************************************)
(* backend/pipeline: MarketPipeline.run_many and its incremental and full  *)
(* history forms, PipelineExecutor's six stages and the report, run by     *)
(* several clients over one PriceStore while the calendar advances.        *)
(*                                                                         *)
(* Fetch, validate, normalise, corporate actions and data quality touch no *)
(* shared state: for one symbol they are one action that ends in a failed  *)
(* report, in an empty record set or in the records handed to store().     *)
(***************************************************************************)
EXTENDS PriceStore

CONSTANTS
  Spans,          \* numbers of days run_incremental / run_full_history go back
  Orders,         \* the symbol tuples runs are started with; <<>> for None
  Exchange,       \* the exchange the runs ask for
  Holidays,       \* weekdays without trading
  Malformed,      \* symbols and days whose record the provider may send in a
                  \* form that does not convert to a bar
  SkipValidation, \* PipelineConfig.skip_validation
  EveryDay,       \* TRUE: the operator lets no day pass without a run, and
                  \* lets no run and no delete go past midnight
  FirstDay        \* the date of the first run

LastDay == CHOOSE d \in Days : \A e \in Days : e <= d

\* Days are numbered from a Monday; 5 and 6 modulo 7 are the weekend.
Weekday(d) == d % 7 \notin {5, 6}
TradingDays == {d \in Days : Weekday(d) /\ d \notin Holidays}

\* The calendar has no holes, and whatever records the persist stage can hand
\* to store() is a request.
ASSUME PipelineAssumption ==
  /\ \E first, last \in Days : Days = first .. last
  /\ Spans \subseteq Nat
  /\ Orders \subseteq Seq(Symbols)
  /\ Exchange \in Exchanges
  /\ Holidays \subseteq Days
  /\ Malformed \subseteq [symbol : Symbols, day : Days]
  /\ SkipValidation \in BOOLEAN /\ EveryDay \in BOOLEAN
  /\ FirstDay \in Days
  /\ [listing : [symbol : Symbols, exchange : {Exchange}],
      dates : SUBSET TradingDays, version : Days] \subseteq Requests

VARIABLES
  today,   \* date.today()
  run,     \* per client: what run_many is doing, or the PipelineReport.status
           \* its last run ended in
  todo,    \* per client: the symbols still to process
  from,    \* per client: start_date of the run
  to,      \* per client: end_date of the run
  fetched, \* per client: records_fetched of the symbol being persisted
  reports, \* per client: symbol_reports
  covered  \* symbols a run of today has carried through the persist stage

pipeline == <<today, run, todo, from, to, fetched, reports, covered>>
pipelineVars == <<storeVars, pipeline>>

PipelineInit ==
  /\ StoreInit
  /\ today = FirstDay
  /\ run = [c \in Clients |-> "idle"]
  /\ todo = [c \in Clients |-> <<>>]
  /\ from = [c \in Clients |-> FirstDay] /\ to = [c \in Clients |-> FirstDay]
  /\ fetched = [c \in Clients |-> 0]
  /\ reports = [c \in Clients |-> <<>>]
  /\ covered = {}

Running(c) == run[c] \in {"symbol", "persist"}

FirstOf(S)  == CHOOSE d \in S : \A e \in S : d <= e
LatestOf(S) == CHOOSE d \in S : \A e \in S : e <= d

\* _rule_missing_days: no weekday is missing between the first and last bar.
\* (The rule knows no holidays.)
NoMissingDays(bars) ==
  bars = {} \/ \A d \in FirstOf(bars) .. LatestOf(bars) : Weekday(d) => d \in bars

------------------------------------------------------------------------------
\* date.today() moves on, whatever the clients are doing.
Tick ==
  /\ today < LastDay
  /\ EveryDay => /\ covered = Symbols
                 /\ \A c \in Clients : ~Running(c) /\ stage[c] = "idle"
  /\ today' = today + 1
  /\ covered' = {}
  /\ UNCHANGED <<storeVars, run, todo, from, to, fetched, reports>>

\* run_incremental / run_full_history / run_many. "symbols or ()": None and
\* an empty tuple both mean no symbol.
RunMany(c, symbolsAsked, span) ==
  /\ ~Running(c)
  /\ stage[c] = "idle"
  /\ run' = [run EXCEPT ![c] = "symbol"]
  /\ todo' = [todo EXCEPT ![c] = symbolsAsked]
  /\ from' = [from EXCEPT ![c] = today - span]
  /\ to' = [to EXCEPT ![c] = today]
  /\ reports' = [reports EXCEPT ![c] = <<>>]
  /\ UNCHANGED <<storeVars, today, fetched, covered>>

\* The records the provider may answer with: the trading days of the window,
\* without the last one while its bar is not published, or nothing at all,
\* which is also what UpstoxProvider makes of a failed request.
Window(c) == {d \in TradingDays : from[c] <= d /\ d <= to[c]}
Payloads(c) == {Window(c), Window(c) \ {to[c]}, {}}

\* _convert_to_bars: a record whose conversion raises is skipped, and nothing
\* is reported.  (The provider hands on records its own validator has refused.)
Converted(c, payload) ==
  {payload \ bad : bad \in SUBSET {d \in payload : [symbol |-> Head(todo[c]), day |-> d] \in Malformed}}

InSymbol(c) == run[c] = "symbol" /\ todo[c] # <<>>

Report(c, ok, records, inserted) ==
  /\ reports' = [reports EXCEPT ![c] =
       Append(@, [symbol |-> Head(todo[c]), ok |-> ok, fetched |-> records,
                  inserted |-> inserted])]
  /\ todo' = [todo EXCEPT ![c] = Tail(@)]
  /\ run' = [run EXCEPT ![c] = "symbol"]

\* Stage 1 fails: the request is rejected or the provider raises.
FetchFails(c) ==
  /\ InSymbol(c)
  /\ Report(c, FALSE, 0, 0)
  /\ UNCHANGED <<storeVars, today, from, to, fetched, covered>>

\* Stage 2 finds an issue in the bars that were converted - a day is missing
\* between them, a price is out of range - or stage 3, which runs without
\* validation too, meets a bar without a date.
ValidationFails(c, payload) ==
  /\ payload # {}
  /\ Report(c, FALSE, Cardinality(payload), 0)
  /\ UNCHANGED <<storeVars, today, from, to, fetched, covered>>

\* Stage 6 without records, whether none came or none was converted: success,
\* and store() is not called.
NothingToPersist(c, payload) ==
  /\ {} \in Converted(c, payload)
  /\ Report(c, TRUE, Cardinality(payload), 0)
  /\ UNCHANGED <<storeVars, today, from, to, fetched, covered>>

\* What the persist stage asks store() for.
Asked(c, bars, version) ==
  [listing |-> [symbol |-> Head(todo[c]), exchange |-> Exchange],
   dates |-> bars, version |-> version]

HandOver(c, payload, bars, version) ==
  /\ bars \in Converted(c, payload) \ {{}}
  /\ SkipValidation \/ NoMissingDays(bars)
  /\ BeginStore(c, Asked(c, bars, version))
  /\ run' = [run EXCEPT ![c] = "persist"]
  /\ fetched' = [fetched EXCEPT ![c] = Cardinality(payload)]
  /\ UNCHANGED <<today, todo, from, to, reports, covered>>

\* Mutants: the version names the week, or the start of the window.
PersistWeekly(c, payload, bars) == HandOver(c, payload, bars, today \div 7)
PersistFromStart(c, payload, bars) ==
  bars # {} /\ HandOver(c, payload, bars, FirstOf(bars))

\* Stages 1 to 5 succeed, or stage 4 or 5 fails and is ignored; stage 6
\* calls store() with a version made of the symbol and date.today() - read
\* again here, after the window was computed.
Persist(c, payload, bars) == HandOver(c, payload, bars, today)

\* Mutant: a duplicate counts as inserted.
PersistedAnyway(c) ==
  /\ run[c] = "persist" /\ stage[c] = "idle"
  /\ LET ok == reply[c] # "error"
     IN  Report(c, ok, fetched[c], IF ok THEN Cardinality(req[c].dates) ELSE 0)
  /\ covered' = covered \cup {Head(todo[c])}
  /\ UNCHANGED <<storeVars, today, from, to, fetched>>

\* The answer of store(): its exceptions are caught by the persist stage.
Persisted(c) ==
  /\ run[c] = "persist" /\ stage[c] = "idle"
  /\ LET ok == reply[c] = "stored"
     IN  Report(c, ok, fetched[c], IF ok THEN Cardinality(req[c].dates) ELSE 0)
  /\ covered' = IF reply[c] # "error" /\ to[c] = today
                THEN covered \cup {Head(todo[c])} ELSE covered
  /\ UNCHANGED <<storeVars, today, from, to, fetched>>

\* PipelineReportGenerator.generate
RunReported(c) ==
  LET failed == \E k \in DOMAIN reports[c] : ~reports[c][k].ok
      succeeded == \E k \in DOMAIN reports[c] : reports[c][k].ok
  IN  /\ run[c] = "symbol" /\ todo[c] = <<>>
      /\ run' = [run EXCEPT ![c] =
           CASE ~failed -> "success" [] failed /\ ~succeeded -> "failed"
             [] OTHER -> "partial"]
      /\ UNCHANGED <<storeVars, today, todo, from, to, fetched, reports, covered>>

DatabaseStep(c) == (StoreStep(c) \/ StoreFault(c)) /\ UNCHANGED pipeline

\* The process dies: its transaction is rolled back, its reports are lost.
Crash(c) ==
  /\ Running(c)
  /\ run' = [run EXCEPT ![c] = "idle"]
  /\ todo' = [todo EXCEPT ![c] = <<>>]
  /\ reports' = [reports EXCEPT ![c] = <<>>]
  /\ Answer(c, "none")
  /\ UNCHANGED <<tables, req, today, from, to, fetched, covered>>

\* Somebody calls delete(); its later round trips are database steps.
Administer(c) ==
  /\ ~Running(c)
  /\ \E s \in Symbols : BeginDelete(c, s)
  /\ UNCHANGED pipeline

\* One symbol whose fetch succeeded, up to the persist stage.
ProcessSymbol(c) ==
  /\ InSymbol(c)
  /\ \E payload \in Payloads(c) :
       \/ ValidationFails(c, payload) \/ NothingToPersist(c, payload)
       \/ \E bars \in Converted(c, payload) : Persist(c, payload, bars)

PipelineNext ==
  \/ Tick
  \/ \E c \in Clients :
       \/ \E o \in Orders : \E n \in Spans : RunMany(c, o, n)
       \/ FetchFails(c) \/ ProcessSymbol(c)
       \/ Persisted(c) \/ RunReported(c)
       \/ DatabaseStep(c) \/ Crash(c)
       \/ Administer(c)

PipelineSpec == PipelineInit /\ [][PipelineNext]_pipelineVars

\* A run is a loop over stages that return: a client keeps going.  One that
\* waits for the rows of another transaction is woken each time such a
\* transaction ends, and does not lose the race for them for ever.
RunStep(c) ==
  \/ FetchFails(c) \/ ProcessSymbol(c) \/ Persisted(c) \/ RunReported(c)
  \/ StoreStep(c) /\ UNCHANGED pipeline
FairPipelineSpec ==
  /\ PipelineSpec
  /\ \A c \in Clients : /\ WF_pipelineVars(RunStep(c))
                        /\ SF_pipelineVars(LockingStep(c) /\ UNCHANGED pipeline)

------------------------------------------------------------------------------
(* What the pipeline promises.                                             *)

Stored(s) == {p.date : p \in {q \in prices : q.listing = [symbol |-> s, exchange |-> Exchange]}}

\* A store whose window overlaps what is stored is rolled back whole, so
\* rows arrive only when a window collides with none of them.  With a run on
\* every day, and whatever failures, crashes, late bars and deletes, the only
\* trading days left out are those whose record was skipped.  (They stay out:
\* the later windows that hold them are refused.)
StoredWithoutGaps ==
  \A s \in Symbols : \A d \in TradingDays :
    /\ Stored(s) # {} /\ FirstOf(Stored(s)) < d /\ d < LatestOf(Stored(s))
    /\ d \notin Stored(s)
    => [symbol |-> s, day |-> d] \in Malformed

\* ... and what is stored is never further behind than the window is long.
LagIsBounded ==
  \A s \in Symbols : Stored(s) # {} =>
    \E n \in Spans : today <= LatestOf(Stored(s)) + n + 1

\* A report that counts inserted rows has a committed version of that size
\* behind it, whoever else was writing, and counts no more than were fetched
\* (fewer, when records were skipped); a failed one counts none.
InsertedRowsAreCommitted ==
  \A c \in Clients : \A k \in DOMAIN reports[c] :
    LET r == reports[c][k]
    IN  /\ r.inserted > 0 =>
             /\ r.ok /\ r.inserted <= r.fetched
             /\ \E v \in versions : /\ v.listing.symbol = r.symbol
                                   /\ Cardinality(v.dates) = r.inserted
        /\ ~r.ok => r.inserted = 0

\* A version string never names a day before its bars, although the window
\* and the version read the clock separately and midnight may fall between.
VersionsFollowBars ==
  \A v \in versions : v.version <= today /\ \A d \in v.dates : d <= v.version

\* Every run ends in a report (or dies): it waits for ever neither on its
\* own stages nor on the transactions of another process.
RunsEnd == \A c \in Clients : Running(c) ~> ~Running(c)

==============================================================================
