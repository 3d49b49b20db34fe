--------------------------- MODULE ReferenceData ----------------------------
(***************************************************************************)
(* Corporate actions and fundamental statements of one company: the two    *)
(* repositories, point-in-time retrieval, and the adjustment of raw prices.*)
(* A corporate action has a type, an effective day, a provider, a ratio    *)
(* and a cash amount (None when absent); a statement has a kind, a period  *)
(* type, a year, a quarter (0 for none), a provider, the days it was filed *)
(* and is effective from and to (None for open), and a figure.             *)
(***************************************************************************)
EXTENDS Ratios, SequencesExt

CONSTANTS None,
          Events,       \* batches of corporate actions clients store
          Reports,      \* batches of statements clients store
          Kinds,        \* statement types
          Days,         \* days a question may be asked as of
          Prices,       \* raw prices: a sequence of [day, close, volume]
          MaxStored     \* bound: rows of either table

ASSUME ReferenceAssumption ==
    /\ Days \subseteq Int \ {None}
    /\ \A batch \in Events : /\ batch \in Seq(Range(batch))
                             /\ \A a \in Range(batch) : a.day \in Int
    /\ \A batch \in Reports : /\ batch \in Seq(Range(batch))
                              /\ \A s \in Range(batch) :
                                    /\ "from" \in DOMAIN s /\ s.from \in Int \cup {None}
                                    /\ {s.year, s.quarter, s.filed} \subseteq Int

VARIABLES actions,      \* table corporate_actions, in order of insertion
          statements,   \* the statement tables, in order of insertion
          reply         \* what the last call returned or raised

reference == <<actions, statements, reply>>

-----------------------------------------------------------------------------
(* Validation *)

ValidAction(a) ==
    /\ a.ratio # None => /\ a.ratio > 0
                         /\ (a.type \in {"split", "bonus"} => a.ratio # 1)
    /\ a.cash # None => a.cash >= 0
    /\ a.type \in {"rights", "buyback"} => a.ratio # None \/ a.cash # None

ValidStatement(s) ==
    /\ s.year \in 1..9999 /\ s.quarter \in 0..4
    /\ s.filed >= s.reported
    /\ s.from # None /\ s.to # None => s.to >= s.from
    /\ s.kind = "shareholding" => s.figure <= 100

\* Records of a batch that pass, the first of each identity only.  The identity
\* of an action leaves out its provider, that of a statement its kind.
FirstOfEach(batch, Valid(_), Identity(_)) ==
    {i \in DOMAIN batch :
        /\ Valid(batch[i])
        /\ \A j \in 1..(i - 1) : Valid(batch[j]) => Identity(batch[j]) # Identity(batch[i])}

ValidateActions(batch) ==
    FirstOfEach(batch, ValidAction, LAMBDA a : <<a.type, a.day>>)
ValidateStatements(batch) ==
    FirstOfEach(batch, ValidStatement, LAMBDA s : <<s.period, s.year, s.quarter, s.provider>>)

-----------------------------------------------------------------------------
(* The repositories *)

ActionKey(a) == <<a.type, a.day, a.provider>>
StatementKey(s) == <<s.kind, s.period, s.year, s.quarter, s.provider, s.from>>
EffectiveFrom(s) == IF s.from = None THEN s.filed ELSE s.from
Row(s) == [s EXCEPT !.from = EffectiveFrom(s)]

\* One transaction: a row whose key is taken, in the table or earlier in the
\* batch, raises and leaves nothing of the batch.
Insert(table, batch, Key(_)) ==
    LET all == table \o batch
    IN IF \A i, j \in DOMAIN all : Key(all[i]) = Key(all[j]) => i = j
       THEN [table |-> all, reply |-> Len(batch)]
       ELSE [table |-> table, reply |-> "DuplicateError"]

ReferenceInit == actions = <<>> /\ statements = <<>> /\ reply = None

\* store and store_batch of CorporateActionRepository.
StoreActions ==
    \E batch \in Events :
        LET done == Insert(actions, batch, ActionKey)
        IN /\ Len(actions) + Len(batch) <= MaxStored
           /\ actions' = done.table
           /\ reply' = done.reply
           /\ UNCHANGED statements

\* store and store_batch of FundamentalRepository.
StoreStatements ==
    \E batch \in Reports :
        LET done == Insert(statements, [i \in DOMAIN batch |-> Row(batch[i])], StatementKey)
        IN /\ Len(statements) + Len(batch) <= MaxStored
           /\ statements' = done.table
           /\ reply' = done.reply
           /\ UNCHANGED actions

DeleteStatements ==
    \E kind \in Kinds :
        /\ statements' = Pick(statements, {i \in DOMAIN statements : statements[i].kind # kind})
        /\ reply' = Len(statements) - Len(statements')
        /\ UNCHANGED actions

ReferenceNext == StoreActions \/ StoreStatements \/ DeleteStatements

-----------------------------------------------------------------------------
(* Retrieval; rows the order of a query leaves open come as inserted. *)

Exists(type, day, provider) ==
    \E i \in DOMAIN actions : ActionKey(actions[i]) = <<type, day, provider>>

GetForSymbol ==
    Ordered(DOMAIN actions, [i \in DOMAIN actions |->
        {j \in DOMAIN actions : \/ actions[j].day < actions[i].day
                                \/ actions[j].day = actions[i].day /\ j < i}])

Earlier(s, t) == s.year < t.year \/ (s.year = t.year /\ s.quarter < t.quarter)
InPeriodOrder(rows, places) ==
    At(rows, Ordered(places, [i \in places |->
        {j \in places : \/ Earlier(rows[j], rows[i])
                        \/ ~Earlier(rows[i], rows[j]) /\ j < i}]))

Retrieve(table, kind) == InPeriodOrder(table, {i \in DOMAIN table : table[i].kind = kind})

\* The mutant goes by the day of filing.
VisibleWhenFiled(s, day) == s.filed <= day /\ (s.to = None \/ s.to >= day)
VisibleOn(s, day) == s.from <= day /\ (s.to = None \/ s.to >= day)

\* One row for each period: the revision effective last, the first of equals.
Period(s) == <<s.period, s.year, s.quarter>>
LatestRevisionPerPeriod(rows) ==
    LET superseded(i) == \E j \in DOMAIN rows :
            /\ Period(rows[j]) = Period(rows[i])
            /\ \/ rows[j].from > rows[i].from
               \/ rows[j].from = rows[i].from /\ j < i
    IN InPeriodOrder(rows, {i \in DOMAIN rows : ~superseded(i)})

RetrieveAsOf(table, kind, day) ==
    LatestRevisionPerPeriod(InPeriodOrder(table,
        {i \in DOMAIN table : table[i].kind = kind /\ VisibleOn(table[i], day)}))

\* The first of the rows with the greatest year and quarter.
MostRecent(rows) ==
    rows[CHOOSE i \in DOMAIN rows : \A j \in DOMAIN rows :
            ~Earlier(rows[i], rows[j]) /\ (~Earlier(rows[j], rows[i]) => i <= j)]

\* Without a day all revisions are looked at, those not yet effective too.
RowsFor(table, kind, day) ==
    IF day = None THEN Retrieve(table, kind) ELSE RetrieveAsOf(table, kind, day)
LatestSnapshot(table, day) ==
    [kind \in {k \in Kinds : RowsFor(table, k, day) # <<>>} |-> MostRecent(RowsFor(table, kind, day))]

\* One figure for each year: that of its last row.
FigurePerYear(rows) ==
    LET last(year) == CHOOSE i \in DOMAIN rows :
            rows[i].year = year /\ \A j \in DOMAIN rows : rows[j].year = year => j <= i
    IN [year \in {rows[i].year : i \in DOMAIN rows} |-> rows[last(year)].figure]
Aggregate(table, kind, day) == FigurePerYear(RowsFor(table, kind, day))

-----------------------------------------------------------------------------
(* Adjustment *)

\* How many new shares one old share became; 1 for what does not split.
SharesFor(a) ==
    IF a.type \in {"split", "bonus"} /\ a.ratio # None /\ a.ratio > 0 THEN a.ratio ELSE 1
ApplyDividend(a) == IF a.type = "dividend" /\ a.cash # None /\ a.cash >= 0 THEN a.cash ELSE 0

\* The actions of AdjustmentRequest that concern a bar of the given day.
Concerning(stored, trade_day, day) ==
    Pick(stored, {i \in DOMAIN stored : /\ trade_day < stored[i].day
                                        /\ day = None \/ stored[i].day <= day})

CumulativeShares(as) ==
    LET upTo[i \in 0..Len(as)] == IF i = 0 THEN 1 ELSE upTo[i - 1] * SharesFor(as[i])
    IN upTo[Len(as)]
CumulativeDividend(as) == Total([i \in DOMAIN as |-> ApplyDividend(as[i])])

\* Raw prices divided by the shares, dividends taken off only afterwards.
AdjustPrices(stored, day) ==
    [i \in DOMAIN Prices |->
        LET as == Concerning(stored, Prices[i].day, day)
        IN [close |-> Ratio(Prices[i].close, CumulativeShares(as)),
            adjusted |-> Ratio(Prices[i].close - CumulativeShares(as) * CumulativeDividend(as),
                               CumulativeShares(as)),
            volume |-> Prices[i].volume * CumulativeShares(as)]]

-----------------------------------------------------------------------------
\* What was answered as of a day stays the answer as of that day, whatever is
\* stored that takes effect later: no restatement, split or dividend reaches back
\* to before it was effective (retrieve_as_of, AdjustmentRequest.as_of).
EffectiveOnlyAfter(day) ==
    /\ \A i \in DOMAIN actions' : i \notin DOMAIN actions => actions'[i].day > day
    /\ \A i \in DOMAIN statements' : i \notin DOMAIN statements => statements'[i].from > day
    /\ Len(statements') >= Len(statements)
Changed == <<actions, statements>>' # <<actions, statements>>
AnswersStand(day) ==
    /\ \A kind \in Kinds :
          /\ RetrieveAsOf(statements', kind, day) = RetrieveAsOf(statements, kind, day)
          /\ Aggregate(statements', kind, day) = Aggregate(statements, kind, day)
    /\ LatestSnapshot(statements', day) = LatestSnapshot(statements, day)
    /\ AdjustPrices(actions', day) = AdjustPrices(actions, day)
PastAnswersStand ==
    [][\A day \in Days : Changed /\ EffectiveOnlyAfter(day) => AnswersStand(day)]_<<actions, statements>>
=============================================================================
