-------------------------- MODULE CalculationsProofs --------------------------
(***************************************************************************)
(* What Calculations promises for any reference data, any models and       *)
(* scores, and any questions.                                              *)
(*                                                                         *)
(* TablesInv types the tables, which grow at their end or lose rows: what  *)
(* is visible on a day stays where it is.  LearningInv types what the      *)
(* learning engine keeps of a model and states its adaptive score.         *)
(* RivalsInv types champion and challengers.                               *)
(* AnswerInv states what a question was answered from; what the answer     *)
(* then promises follows from lemmas about the calculation itself: that a  *)
(* ranking's normalisations and sums keep the order of its values, that    *)
(* the trades make up the difference of the weights, and that an average   *)
(* of gains, or a close, is a part of the range it is divided by.          *)
(***************************************************************************)
EXTENDS Calculations, FoldLemmas

------------------------------------------------------------------------------
(* Reference data: the tables hold rows of the batches that were stored.   *)

ActionRows    == UNION {Range(batch) : batch \in Events}
StatementRows == UNION {{Row(s) : s \in Range(batch)} : batch \in Reports}

TablesInv == actions \in Seq(ActionRows) /\ statements \in Seq(StatementRows)

LEMMA ActionRowType == ASSUME NEW a \in ActionRows PROVE a.day \in Int
  BY ReferenceAssumption DEF ActionRows

LEMMA StatementRowType ==
  ASSUME NEW s \in StatementRows
  PROVE  s.from \in Int /\ s.year \in Int /\ s.quarter \in Int
<1>1. PICK batch \in Reports : \E r \in Range(batch) : s = Row(r)
  BY DEF StatementRows
<1>2. PICK r \in Range(batch) : s = Row(r)
  BY <1>1
<1>3. /\ "from" \in DOMAIN r /\ r.from \in Int \cup {None}
      /\ r.year \in Int /\ r.quarter \in Int /\ r.filed \in Int
  BY ReferenceAssumption
<1>4. EffectiveFrom(r) \in Int
  BY <1>3 DEF EffectiveFrom
<1>5. s.from = EffectiveFrom(r) /\ s.year = r.year /\ s.quarter = r.quarter
  BY <1>2, <1>3 DEF Row
<1> QED BY <1>3, <1>4, <1>5

\* What a batch becomes before it is inserted.
LEMMA BatchesOfRows ==
  /\ \A batch \in Events : batch \in Seq(ActionRows)
  /\ \A batch \in Reports : [i \in DOMAIN batch |-> Row(batch[i])] \in Seq(StatementRows)
<1>1. ASSUME NEW batch \in Events PROVE batch \in Seq(ActionRows)
  <2>1. batch \in Seq(Range(batch))
    BY ReferenceAssumption
  <2>2. \A i \in DOMAIN batch : batch[i] \in ActionRows
    BY DEF ActionRows, Range
  <2> QED BY <2>1, <2>2
<1>2. ASSUME NEW batch \in Reports PROVE [i \in DOMAIN batch |-> Row(batch[i])] \in Seq(StatementRows)
  <2>1. batch \in Seq(Range(batch))
    BY ReferenceAssumption
  <2>2. DOMAIN batch = 1 .. Len(batch) /\ Len(batch) \in Nat
    BY <2>1
  <2>3. \A i \in DOMAIN batch : Row(batch[i]) \in StatementRows
    BY DEF StatementRows, Range
  <2> QED BY <2>2, <2>3
<1> QED BY <1>1, <1>2

\* What Insert returns is the table, or the table with the batch at its end.
LEMMA InsertedRows ==
  ASSUME NEW table, NEW batch, NEW Key(_)
  PROVE  Insert(table, batch, Key).table \in {table, table \o batch}
  BY DEF Insert

LEMMA ConcatIsSequence ==
  ASSUME NEW V, NEW s \in Seq(V), NEW t \in Seq(V)
  PROVE  s \o t \in Seq(V)
  OBVIOUS

LEMMA PickOfRows ==
  ASSUME NEW V, NEW s \in Seq(V), NEW P \in SUBSET DOMAIN s
  PROVE  /\ IsFiniteSet(P) /\ P \in SUBSET Int
         /\ Pick(s, P) \in Seq(V)
         /\ Len(Pick(s, P)) = Cardinality(P)
<1>1. DOMAIN s = 1 .. Len(s) /\ Len(s) \in Nat /\ IsFiniteSet(1 .. Len(s))
  BY FS_Interval
<1>2. IsFiniteSet(P) /\ P \in SUBSET Int
  BY <1>1, FS_Subset
<1>3. \A i \in P : s[i] \in V
  BY <1>1
<1> QED BY <1>2, <1>3, PickIsSequence

\* Questions leave the tables and the models alone.
LEMMA AskingChangesNothing ==
  ASSUME Ask PROVE UNCHANGED reference /\ UNCHANGED models
  BY DEF Ask, Research, OptimizePortfolio, Allocate, BuildFrontier, BuildConstraints,
     SizePortfolio, RebudgetPortfolio, RankUniverse, ScreenUniverse, ApplyRules, ScoreFacts, Answer

LEMMA TablesInductive == TablesInv /\ [Next]_vars => TablesInv'
<1> SUFFICES ASSUME TablesInv, [Next]_vars PROVE TablesInv'
  OBVIOUS
<1>1. CASE StoreActions
  <2>1. PICK batch \in Events : actions' = Insert(actions, batch, ActionKey).table
    BY <1>1 DEF StoreActions
  <2>2. actions' = actions \/ actions' = actions \o batch
    BY <2>1, InsertedRows
  <2>3. batch \in Seq(ActionRows) /\ statements' = statements
    BY <1>1, BatchesOfRows DEF StoreActions
  <2>4. actions' \in Seq(ActionRows)
    BY <2>2, <2>3, ConcatIsSequence DEF TablesInv
  <2> QED BY <2>3, <2>4 DEF TablesInv
<1>2. CASE StoreStatements
  <2>1. PICK batch \in Reports :
          statements' = Insert(statements, [i \in DOMAIN batch |-> Row(batch[i])], StatementKey).table
    BY <1>2 DEF StoreStatements
  <2> DEFINE rows == [i \in DOMAIN batch |-> Row(batch[i])]
  <2>2. statements' = statements \/ statements' = statements \o rows
    BY <2>1, InsertedRows
  <2>3. rows \in Seq(StatementRows) /\ actions' = actions
    BY <1>2, BatchesOfRows DEF StoreStatements
  <2> HIDE DEF rows
  <2>4. statements' \in Seq(StatementRows)
    BY <2>2, <2>3, ConcatIsSequence DEF TablesInv
  <2> QED BY <2>3, <2>4 DEF TablesInv
<1>3. CASE DeleteStatements
  <2>1. PICK kind \in Kinds :
          statements' = Pick(statements, {i \in DOMAIN statements : statements[i].kind # kind})
    BY <1>3 DEF DeleteStatements
  <2> DEFINE P == {i \in DOMAIN statements : statements[i].kind # kind}
  <2>2. P \in SUBSET DOMAIN statements /\ statements \in Seq(StatementRows)
    BY DEF TablesInv
  <2> HIDE DEF P
  <2>3. Pick(statements, P) \in Seq(StatementRows)
    BY <2>2, PickOfRows
  <2> QED BY <1>3, <2>1, <2>3 DEF TablesInv, DeleteStatements, P
<1>4. CASE UNCHANGED reference
  BY <1>4 DEF TablesInv, reference
<1> QED
  <2>1. CASE StoreReferenceData
    BY <2>1, <1>1, <1>2, <1>3 DEF StoreReferenceData, ReferenceNext
  <2>2. CASE CompareModels
    BY <2>2, <1>4 DEF CompareModels
  <2>3. CASE Ask
    BY <2>3, <1>4, AskingChangesNothing
  <2>4. CASE UNCHANGED vars
    BY <2>4, <1>4 DEF vars, reference
  <2> QED BY <2>1, <2>2, <2>3, <2>4 DEF Next

\* Rows are put in the order of their periods.
PeriodsBefore(rows, places) ==
  [i \in places |-> {j \in places : \/ Earlier(rows[j], rows[i])
                                    \/ ~Earlier(rows[i], rows[j]) /\ j < i}]

LEMMA PeriodsAreOrdered ==
  ASSUME NEW table \in Seq(StatementRows), NEW P \in SUBSET DOMAIN table
  PROVE  IsOrderOf(PeriodsBefore(table, P), P)
<1> DEFINE before == PeriodsBefore(table, P)
<1>1. \A i \in P : /\ i \in Int /\ table[i].year \in Int /\ table[i].quarter \in Int
  <2> TAKE i \in P
  <2>1. i \in Int /\ table[i] \in StatementRows
    OBVIOUS
  <2> QED BY <2>1, StatementRowType
<1>2. \A i, j \in P : j \in before[i] <=> \/ Earlier(table[j], table[i])
                                          \/ ~Earlier(table[i], table[j]) /\ j < i
  BY DEF PeriodsBefore
<1>3. \A i \in P : before[i] \in SUBSET P
  BY DEF PeriodsBefore
<1> HIDE DEF before
<1>4. \A i \in P : i \notin before[i]
  BY <1>1, <1>2 DEF Earlier
<1>5. \A i, j \in P : i # j => j \in before[i] \/ i \in before[j]
  BY <1>1, <1>2 DEF Earlier
<1>6. \A i, j, k \in P : k \in before[j] /\ j \in before[i] => k \in before[i]
  BY <1>1, <1>2 DEF Earlier
<1> QED BY <1>3, <1>4, <1>5, <1>6 DEF IsOrderOf, before

LEMMA PeriodOrderOfAgreeing ==
  ASSUME NEW table \in Seq(StatementRows), NEW more, NEW P \in SUBSET DOMAIN table,
         \A i \in P : more[i] = table[i]
  PROVE  InPeriodOrder(more, P) = InPeriodOrder(table, P)
<1> DEFINE order == Ordered(P, PeriodsBefore(table, P))
<1>1. PeriodsBefore(more, P) = PeriodsBefore(table, P)
  BY DEF PeriodsBefore
<1>2. InPeriodOrder(more, P) = At(more, order) /\ InPeriodOrder(table, P) = At(table, order)
  BY <1>1, Zenon DEF InPeriodOrder, PeriodsBefore
<1>3. IsFiniteSet(P)
  BY PickOfRows
<1>4. IsOrderOf(PeriodsBefore(table, P), P)
  BY PeriodsAreOrdered
<1>5. order \in [1 .. Cardinality(P) -> P]
  BY <1>3, <1>4, OrderedEnumerates
<1> HIDE DEF order
<1> QED BY <1>2, <1>5 DEF At

\* Rows that are not effective yet are not retrieved.
LEMMA LaterStatementsUnseen ==
  ASSUME NEW table \in Seq(StatementRows), NEW rows \in Seq(StatementRows),
         NEW day \in Int, \A i \in DOMAIN rows : rows[i].from > day, NEW kind
  PROVE  RetrieveAsOf(table \o rows, kind, day) = RetrieveAsOf(table, kind, day)
<1> DEFINE more == table \o rows
           P == {i \in DOMAIN table : table[i].kind = kind /\ VisibleOn(table[i], day)}
           Q == {i \in DOMAIN more : more[i].kind = kind /\ VisibleOn(more[i], day)}
<1>1. \A i \in DOMAIN table : i \in DOMAIN more /\ more[i] = table[i]
  OBVIOUS
<1>2. \A i \in DOMAIN more : i \notin DOMAIN table => ~VisibleOn(more[i], day)
  <2> TAKE i \in DOMAIN more
  <2> HAVE i \notin DOMAIN table
  <2>1. i - Len(table) \in DOMAIN rows /\ more[i] = rows[i - Len(table)]
    OBVIOUS
  <2>2. rows[i - Len(table)] \in StatementRows
    BY <2>1
  <2>3. rows[i - Len(table)].from \in Int /\ rows[i - Len(table)].from > day
    BY <2>1, <2>2, StatementRowType
  <2> QED BY <2>1, <2>3 DEF VisibleOn
<1>3. Q = P
  BY <1>1, <1>2
<1>4. InPeriodOrder(more, P) = InPeriodOrder(table, P)
  <2>1. P \in SUBSET DOMAIN table /\ \A i \in P : more[i] = table[i]
    BY <1>1
  <2> HIDE DEF P, more
  <2> QED BY <2>1, PeriodOrderOfAgreeing
<1> QED BY <1>3, <1>4, Zenon DEF RetrieveAsOf

LEMMA LaterActionsUnseen ==
  ASSUME NEW stored \in Seq(ActionRows), NEW batch \in Seq(ActionRows),
         NEW day \in Int \ {None}, \A i \in DOMAIN batch : batch[i].day > day
  PROVE  AdjustPrices(stored \o batch, day) = AdjustPrices(stored, day)
<1> DEFINE more == stored \o batch
<1>1. ASSUME NEW trade_day PROVE Concerning(more, trade_day, day) = Concerning(stored, trade_day, day)
  <2> DEFINE P == {i \in DOMAIN stored : trade_day < stored[i].day /\ (day = None \/ stored[i].day <= day)}
             Q == {i \in DOMAIN more : trade_day < more[i].day /\ (day = None \/ more[i].day <= day)}
  <2>1. \A i \in DOMAIN stored : i \in DOMAIN more /\ more[i] = stored[i]
    OBVIOUS
  <2>2. \A i \in DOMAIN more : i \notin DOMAIN stored => ~(more[i].day <= day)
    <3> TAKE i \in DOMAIN more
    <3> HAVE i \notin DOMAIN stored
    <3>1. i - Len(stored) \in DOMAIN batch /\ more[i] = batch[i - Len(stored)]
      OBVIOUS
    <3>2. batch[i - Len(stored)] \in ActionRows
      BY <3>1
    <3>3. batch[i - Len(stored)].day \in Int /\ batch[i - Len(stored)].day > day
      BY <3>1, <3>2, ActionRowType
    <3> QED BY <3>1, <3>3
  <2>3. Q = P
    BY <2>1, <2>2
  <2>4. IsFiniteSet(P) /\ P \in SUBSET Int /\ \A i \in P : more[i] = stored[i]
    <3>1. P \in SUBSET DOMAIN stored
      OBVIOUS
    <3> HIDE DEF P, more
    <3> QED BY <2>1, <3>1, PickOfRows
  <2>5. Pick(more, P) = Pick(stored, P)
    <3> HIDE DEF P, more
    <3> QED BY <2>4, PickOfAgreeing
  <2>6. Concerning(more, trade_day, day) = Pick(more, Q) /\ Concerning(stored, trade_day, day) = Pick(stored, P)
    BY DEF Concerning
  <2> HIDE DEF P, Q, more
  <2> QED BY <2>3, <2>5, <2>6
<1> HIDE DEF more
<1>2. AdjustPrices(more, day) = AdjustPrices(stored, day)
  BY <1>1, Zenon DEF AdjustPrices
<1> QED BY <1>2 DEF more

\* What the questions about a day make of what they retrieve.
LEMMA AnswersFromRetrieval ==
  ASSUME NEW day \in Int \ {None}, NEW table, NEW more,
         \A kind \in Kinds : RetrieveAsOf(more, kind, day) = RetrieveAsOf(table, kind, day)
  PROVE  /\ \A kind \in Kinds : Aggregate(more, kind, day) = Aggregate(table, kind, day)
         /\ LatestSnapshot(more, day) = LatestSnapshot(table, day)
<1>1. \A kind \in Kinds : RowsFor(more, kind, day) = RowsFor(table, kind, day)
  BY DEF RowsFor
<1>2. ASSUME NEW kind \in Kinds PROVE Aggregate(more, kind, day) = Aggregate(table, kind, day)
  BY <1>1 DEF Aggregate
<1> DEFINE Reported(rows) == {k \in Kinds : RowsFor(rows, k, day) # <<>>}
<1>3. Reported(more) = Reported(table)
  BY <1>1
<1>4. [kind \in Reported(more) |-> MostRecent(RowsFor(more, kind, day))]
        = [kind \in Reported(table) |-> MostRecent(RowsFor(table, kind, day))]
  BY <1>1, <1>3
<1>5. LatestSnapshot(more, day) = LatestSnapshot(table, day)
  BY <1>4, Zenon DEF LatestSnapshot
<1> QED BY <1>2, <1>5

LEMMA StatementAnswersStand ==
  ASSUME TablesInv, NEW rows \in Seq(StatementRows), NEW day \in Days,
         statements' \in {statements, statements \o rows}, EffectiveOnlyAfter(day)
  PROVE  /\ \A kind \in Kinds :
               /\ RetrieveAsOf(statements', kind, day) = RetrieveAsOf(statements, kind, day)
               /\ Aggregate(statements', kind, day) = Aggregate(statements, kind, day)
         /\ LatestSnapshot(statements', day) = LatestSnapshot(statements, day)
<1>1. CASE statements' = statements
  BY <1>1
<1>2. CASE statements' = statements \o rows
  <2>1. statements \in Seq(StatementRows) /\ day \in Int \ {None}
    BY ReferenceAssumption DEF TablesInv
  <2>2. ASSUME NEW i \in DOMAIN rows PROVE rows[i].from > day
    <3>1. /\ Len(statements) + i \in DOMAIN (statements \o rows)
          /\ Len(statements) + i \notin DOMAIN statements
          /\ (statements \o rows)[Len(statements) + i] = rows[i]
      BY <2>1
    <3>2. \A k \in DOMAIN statements' : k \notin DOMAIN statements => statements'[k].from > day
      BY DEF EffectiveOnlyAfter
    <3> QED BY <1>2, <3>1, <3>2
  <2>3. \A kind \in Kinds : RetrieveAsOf(statements \o rows, kind, day) = RetrieveAsOf(statements, kind, day)
    BY <2>1, <2>2, LaterStatementsUnseen
  <2>4. \A kind \in Kinds : RetrieveAsOf(statements', kind, day) = RetrieveAsOf(statements, kind, day)
    BY <1>2, <2>3
  <2> QED BY <2>1, <2>4, AnswersFromRetrieval
<1> QED BY <1>1, <1>2

LEMMA AdjustmentsStand ==
  ASSUME TablesInv, NEW batch \in Seq(ActionRows), NEW day \in Days,
         actions' \in {actions, actions \o batch}, EffectiveOnlyAfter(day)
  PROVE  AdjustPrices(actions', day) = AdjustPrices(actions, day)
<1>1. CASE actions' = actions
  BY <1>1
<1>2. CASE actions' = actions \o batch
  <2>1. actions \in Seq(ActionRows) /\ day \in Int \ {None}
    BY ReferenceAssumption DEF TablesInv
  <2>2. ASSUME NEW i \in DOMAIN batch PROVE batch[i].day > day
    <3>1. /\ Len(actions) + i \in DOMAIN (actions \o batch)
          /\ Len(actions) + i \notin DOMAIN actions
          /\ (actions \o batch)[Len(actions) + i] = batch[i]
      BY <2>1
    <3>2. \A k \in DOMAIN actions' : k \notin DOMAIN actions => actions'[k].day > day
      BY DEF EffectiveOnlyAfter
    <3> QED BY <1>2, <3>1, <3>2
  <2>3. AdjustPrices(actions \o batch, day) = AdjustPrices(actions, day)
    BY <2>1, <2>2, LaterActionsUnseen
  <2> QED BY <1>2, <2>3
<1> QED BY <1>1, <1>2

\* Statements that are only deleted are as many as before if none is.
LEMMA NothingDeleted ==
  ASSUME TablesInv, NEW P \in SUBSET DOMAIN statements,
         statements' = Pick(statements, P), Len(statements') >= Len(statements)
  PROVE  statements' = statements
<1>1. /\ statements \in Seq(StatementRows) /\ Len(statements) \in Nat
      /\ DOMAIN statements = 1 .. Len(statements)
  BY DEF TablesInv
<1>2. Cardinality(P) >= Len(statements) /\ IsFiniteSet(P)
  BY <1>1, PickOfRows
<1>3. IsFiniteSet(1 .. Len(statements)) /\ Cardinality(1 .. Len(statements)) = Len(statements)
  <2>1. 1 \in Int /\ Len(statements) \in Int
    BY <1>1
  <2>2. /\ IsFiniteSet(1 .. Len(statements))
        /\ Cardinality(1 .. Len(statements)) = IF 1 > Len(statements) THEN 0 ELSE Len(statements) - 1 + 1
    BY <2>1, FS_Interval
  <2> QED BY <1>1, <2>2
<1>4. P \in SUBSET (1 .. Len(statements)) /\ Cardinality(P) \in Nat
  BY <1>1, <1>2, FS_CardinalityType
<1>5. Cardinality(P) <= Cardinality(1 .. Len(statements))
  BY <1>3, <1>4, FS_Subset
<1>6. Cardinality(P) = Cardinality(1 .. Len(statements))
  BY <1>1, <1>2, <1>3, <1>4, <1>5
<1>7. P = DOMAIN statements
  BY <1>1, <1>3, <1>4, <1>6, FS_Subset
<1> QED BY <1>1, <1>7, PickOfAll

\* No step reaches back behind the day from which it takes effect.
LEMMA StepsDoNotReachBack ==
  ASSUME TablesInv, [Next]_vars, NEW day \in Days, Changed, EffectiveOnlyAfter(day)
  PROVE  AnswersStand(day)
<1>1. <<>> \in Seq(StatementRows) /\ <<>> \in Seq(ActionRows)
  OBVIOUS
<1>2. CASE StoreActions
  <2>1. PICK batch \in Events : actions' = Insert(actions, batch, ActionKey).table
    BY <1>2 DEF StoreActions
  <2>2. actions' \in {actions, actions \o batch} /\ batch \in Seq(ActionRows)
    BY <2>1, InsertedRows, BatchesOfRows
  <2>3. statements' = statements
    BY <1>2 DEF StoreActions
  <2>4. AdjustPrices(actions', day) = AdjustPrices(actions, day)
    BY <2>2, AdjustmentsStand
  <2> QED BY <2>3, <2>4 DEF AnswersStand
<1>3. CASE StoreStatements
  <2>1. PICK batch \in Reports :
          statements' = Insert(statements, [i \in DOMAIN batch |-> Row(batch[i])], StatementKey).table
    BY <1>3 DEF StoreStatements
  <2> DEFINE rows == [i \in DOMAIN batch |-> Row(batch[i])]
  <2>2. statements' \in {statements, statements \o rows} /\ rows \in Seq(StatementRows)
    BY <2>1, InsertedRows, BatchesOfRows
  <2> HIDE DEF rows
  <2>3. actions' = actions
    BY <1>3 DEF StoreStatements
  <2>4. /\ \A kind \in Kinds :
              /\ RetrieveAsOf(statements', kind, day) = RetrieveAsOf(statements, kind, day)
              /\ Aggregate(statements', kind, day) = Aggregate(statements, kind, day)
        /\ LatestSnapshot(statements', day) = LatestSnapshot(statements, day)
    BY <2>2, StatementAnswersStand
  <2> QED BY <2>3, <2>4 DEF AnswersStand
<1>4. CASE DeleteStatements
  <2>1. PICK kind \in Kinds :
          statements' = Pick(statements, {i \in DOMAIN statements : statements[i].kind # kind})
    BY <1>4 DEF DeleteStatements
  <2> DEFINE P == {i \in DOMAIN statements : statements[i].kind # kind}
  <2>2. P \in SUBSET DOMAIN statements /\ statements' = Pick(statements, P)
    BY <2>1
  <2>3. Len(statements') >= Len(statements)
    BY DEF EffectiveOnlyAfter
  <2> HIDE DEF P
  <2>4. statements' = statements
    BY <2>2, <2>3, NothingDeleted
  <2> QED BY <1>4, <2>4 DEF DeleteStatements, Changed
<1>5. CASE UNCHANGED reference
  BY <1>5 DEF reference, Changed
<1> QED
  <2>1. CASE StoreReferenceData
    BY <2>1, <1>2, <1>3, <1>4 DEF StoreReferenceData, ReferenceNext
  <2>2. CASE CompareModels
    BY <2>2, <1>5 DEF CompareModels
  <2>3. CASE Ask
    BY <2>3, <1>5, AskingChangesNothing
  <2>4. CASE UNCHANGED vars
    BY <2>4, <1>5 DEF vars, reference
  <2> QED BY <2>1, <2>2, <2>3, <2>4 DEF Next

LEMMA TablesInvariant == Spec => []TablesInv
<1>1. Init => TablesInv
  BY DEF Init, ReferenceInit, TablesInv
<1>2. TablesInv /\ [Next]_vars => TablesInv'
  BY TablesInductive
<1> QED BY <1>1, <1>2, PTL DEF Spec

\* What was answered as of a day stays the answer as of that day, whatever is stored
\* that takes effect later: for all batches of statements and corporate actions,
\* restatements and batches that are refused included.
THEOREM HistoryIsNotRewritten == Spec => PastAnswersStand
<1> DEFINE Standing == \A day \in Days : Changed /\ EffectiveOnlyAfter(day) => AnswersStand(day)
<1>1. TablesInv /\ [Next]_vars => [Standing]_<<actions, statements>>
  BY StepsDoNotReachBack
<1>2. Spec => [][Standing]_<<actions, statements>>
  <2> HIDE DEF Standing
  <2> QED BY <1>1, TablesInvariant, PTL DEF Spec
<1> QED BY <1>2, PTL DEF PastAnswersStand

------------------------------------------------------------------------------
(* Learning.                                                               *)

Weighting == [parts : Seq(Nat), of : Nat \ {0}]

\* What the learning engine may keep of a model.
Learnt(l) ==
  /\ l.scores \in Seq(Int) /\ l.scores # <<>>
  /\ l.weights \in Weighting
  /\ Same(l.adaptive, SelfWeighted(l.scores))

LearningInv ==
  /\ learned = [m \in Models |-> learned[m]]
  /\ \A m \in Models : learned[m] # Nobody => Learnt(learned[m])

Positives(recent) == [i \in DOMAIN recent |-> Positive(recent[i])]

LEMMA PositivesType ==
  ASSUME NEW recent \in Seq(Int)
  PROVE  /\ Positives(recent) \in Seq(Nat) /\ Len(Positives(recent)) = Len(recent)
         /\ \A i \in 1 .. Len(recent) : Positives(recent)[i] \in Nat /\ recent[i] <= Positives(recent)[i]
         /\ Total(Positives(recent)) \in Nat
<1>1. DOMAIN recent = 1 .. Len(recent) /\ Len(recent) \in Nat /\ \A i \in 1 .. Len(recent) : recent[i] \in Int
  OBVIOUS
<1>2. \A i \in 1 .. Len(recent) : Positive(recent[i]) \in Nat /\ recent[i] <= Positive(recent[i])
  BY <1>1 DEF Positive, Larger
<1>3. /\ Positives(recent) \in Seq(Nat) /\ Len(Positives(recent)) = Len(recent)
      /\ \A i \in 1 .. Len(recent) : Positives(recent)[i] \in Nat /\ recent[i] <= Positives(recent)[i]
  BY <1>1, <1>2 DEF Positives
<1>4. Total(Positives(recent)) \in Nat
  BY <1>1, <1>3, TotalOfNaturals
<1> QED BY <1>3, <1>4

\* No positive score: the weights that are carried along do not matter.
LEMMA NothingPositive ==
  ASSUME NEW recent \in Seq(Int), recent # <<>>, NEW weights \in Weighting,
         Total(Positives(recent)) = 0
  PROVE  Same(ComputeAdaptiveScore(recent, weights), Whole(0))
<1> DEFINE R == Len(recent)
           parts == LastOf(weights.parts, R)
           k == Smaller(R, Len(parts))
           paired == [i \in 1 .. k |-> recent[i] * parts[i]]
           whole == Total(parts)
           q == IF whole = 0 THEN Ratio(Total(recent), 100 * R) ELSE Ratio(Total(paired), 100 * whole)
<1>1. R \in Nat \ {0} /\ \A i \in 1 .. R : recent[i] \in Int
  OBVIOUS
<1>2. \A i \in 1 .. R : recent[i] <= 0
  <2> TAKE i \in 1 .. R
  <2>1. /\ Len(Positives(recent)) = R /\ (\A j \in 1 .. R : Positives(recent)[j] \in Nat)
        /\ recent[i] <= Positives(recent)[i]
    BY PositivesType
  <2>2. Positives(recent)[i] <= Total(Positives(recent))
    BY <1>1, <2>1, TotalBoundsEach
  <2>3. recent[i] \in Int /\ Positives(recent)[i] \in Nat
    BY <1>1, <2>1
  <2> QED BY <2>1, <2>2, <2>3
<1>3. weights.parts \in Seq(Nat)
  BY DEF Weighting
<1>4. parts \in Seq(Nat)
  BY <1>1, <1>3, LastOfType
<1>5. whole \in Nat
  <2>1. Len(parts) \in Nat /\ \A i \in 1 .. Len(parts) : parts[i] \in Nat
    BY <1>4
  <2> QED BY <2>1, TotalOfNaturals
<1>6. k \in Nat /\ k <= R /\ k <= Len(parts)
  <2>1. Len(parts) \in Nat
    BY <1>4
  <2> HIDE DEF R, parts
  <2> QED BY <1>1, <2>1 DEF Smaller
<1>7. Total(paired) \in Int /\ Total(paired) <= 0
  <2>1. ASSUME NEW i \in 1 .. k PROVE paired[i] \in Int /\ paired[i] <= 0
    <3>1. recent[i] \in Int /\ recent[i] <= 0 /\ parts[i] \in Nat
      <4> HIDE DEF k, parts, R
      <4>1. i \in 1 .. R /\ i \in 1 .. Len(parts)
        BY <1>1, <1>4, <1>6
      <4> QED BY <1>1, <1>2, <1>4, <4>1
    <3>2. recent[i] * parts[i] \in Int /\ recent[i] * parts[i] <= 0
      BY <3>1
    <3> QED BY <3>2
  <2>2. Len(paired) = k
    <3> HIDE DEF k
    <3> QED BY <1>6
  <2> HIDE DEF paired, k
  <2> QED BY <1>6, <2>1, <2>2, TotalNotPositive
<1>8. Total(recent) \in Int /\ Total(recent) <= 0
  BY <1>1, <1>2, TotalNotPositive
<1>9. q.num \in Int /\ q.den \in Int /\ q.num <= 0 /\ q.den > 0
  <2> HIDE DEF whole, paired, R
  <2> QED BY <1>1, <1>5, <1>7, <1>8 DEF Ratio
<1>10. ComputeAdaptiveScore(recent, weights) = ClampRatio(q, 0, 1)
  BY Zenon DEF ComputeAdaptiveScore
<1> HIDE DEF q
<1>11. ~Above(q, 1)
  BY <1>9 DEF Above
<1>12. ClampRatio(q, 0, 1) = IF Below(q, 0) THEN Whole(0) ELSE q
  BY <1>11 DEF ClampRatio
<1>13. Same(ClampRatio(q, 0, 1), Whole(0))
  BY <1>9, <1>12 DEF Same, Whole, Ratio, Below, AtLeast
<1> QED BY <1>10, <1>13

\* Fresh weights: each positive score weighs itself.
LEMMA WeighedByItself ==
  ASSUME NEW recent \in Seq(Int), NEW weights, weights.parts = Positives(recent),
         Total(Positives(recent)) # 0
  PROVE  ComputeAdaptiveScore(recent, weights) =
           ClampRatio(Ratio(Total([i \in DOMAIN recent |-> Positive(recent[i]) * recent[i]]),
                            100 * Total(Positives(recent))), 0, 1)
<1> DEFINE R == Len(recent)
           parts == LastOf(weights.parts, R)
           paired == 1 .. Smaller(R, Len(parts))
           s == [i \in paired |-> recent[i] * parts[i]]
           t == [i \in DOMAIN recent |-> Positive(recent[i]) * recent[i]]
<1>1. R \in Nat /\ DOMAIN recent = 1 .. R /\ \A i \in 1 .. R : recent[i] \in Int
  OBVIOUS
<1>2. Positives(recent) \in Seq(Nat) /\ Len(Positives(recent)) = R
  BY PositivesType
<1>3. parts = Positives(recent)
  BY <1>2, LastOfAll
<1>4. paired = 1 .. R
  BY <1>1, <1>2, <1>3 DEF Smaller
<1>5. ASSUME NEW i \in 1 .. R PROVE s[i] = t[i] /\ t[i] \in Int
  <2>1. parts[i] = Positive(recent[i]) /\ recent[i] \in Int
    BY <1>1, <1>3 DEF Positives
  <2>2. Positive(recent[i]) \in Int
    BY <2>1 DEF Positive, Larger
  <2>3. s[i] = recent[i] * parts[i] /\ t[i] = Positive(recent[i]) * recent[i]
    BY <1>1, <1>4
  <2> HIDE DEF s, t, parts, R
  <2> QED BY <2>1, <2>2, <2>3
<1>6. Len(s) = R /\ Len(t) = R
  <2> HIDE DEF R, parts, paired
  <2> QED BY <1>1, <1>4
<1>7. Total(s) = Total(t)
  <2> HIDE DEF s, t, R
  <2> QED BY <1>1, <1>5, <1>6, TotalsAgree
<1>8. ComputeAdaptiveScore(recent, weights) =
        ClampRatio(IF Total(parts) = 0 THEN Ratio(Total(recent), 100 * R)
                   ELSE Ratio(Total(s), 100 * Total(parts)), 0, 1)
  BY Zenon DEF ComputeAdaptiveScore
<1> HIDE DEF s, t, parts, R, paired
<1> QED BY <1>3, <1>7, <1>8 DEF t

\* The first score, whose weight is one.
LEMMA FirstScore ==
  ASSUME NEW score \in Int, score > 0, NEW weights, weights.parts = << 1 >>
  PROVE  Same(ComputeAdaptiveScore(<<score>>, weights),
              ClampRatio(Ratio(Total([i \in DOMAIN <<score>> |-> Positive(<<score>>[i]) * <<score>>[i]]),
                               100 * Total(Positives(<<score>>))), 0, 1))
<1> DEFINE recent == <<score>>
           parts == LastOf(weights.parts, Len(recent))
           s == [i \in 1 .. Smaller(Len(recent), Len(parts)) |-> recent[i] * parts[i]]
           t == [i \in DOMAIN recent |-> Positive(recent[i]) * recent[i]]
           e == Ratio(Total(t), 100 * Total(Positives(recent)))
           q == Ratio(score, 100)
<1>1. Len(recent) = 1 /\ recent[1] = score /\ DOMAIN recent = 1 .. 1
  OBVIOUS
<1>2. parts = << 1 >>
  <2>1. Len(<< 1 >>) = 1 /\ << 1 >> \in Seq(Nat)
    OBVIOUS
  <2> HIDE DEF recent
  <2> QED BY <1>1, <2>1, LastOfAll
<1>3. Positive(score) = score
  BY DEF Positive, Larger
<1>4. Total(parts) = 1
  <2>1. Len(parts) = 1 /\ parts[1] = 1
    BY <1>2
  <2> HIDE DEF parts
  <2> QED BY <2>1, TotalOfOne
<1>5. Total(Positives(recent)) = score
  <2>1. Len(Positives(recent)) = 1 /\ Positives(recent)[1] = score
    <3> HIDE DEF recent
    <3> QED BY <1>1, <1>3 DEF Positives
  <2> HIDE DEF recent
  <2> QED BY <2>1, TotalOfOne
<1>6. Total(t) = score * score
  <2>1. Len(t) = 1 /\ t[1] = score * score
    <3> HIDE DEF recent
    <3> QED BY <1>1, <1>3
  <2>2. score * score \in Int
    OBVIOUS
  <2> HIDE DEF t
  <2> QED BY <2>1, <2>2, TotalOfOne
<1>7. Total(s) = score
  <2>1. Smaller(Len(recent), Len(parts)) = 1
    BY <1>1, <1>2 DEF Smaller
  <2>2. Len(s) = 1 /\ s[1] = score
    <3>1. parts[1] = 1
      BY <1>2
    <3> HIDE DEF recent, parts
    <3> QED BY <1>1, <2>1, <3>1
  <2> HIDE DEF s
  <2> QED BY <2>2, TotalOfOne
<1>8. ComputeAdaptiveScore(recent, weights) = ClampRatio(q, 0, 1)
  <2>1. ComputeAdaptiveScore(recent, weights) =
          ClampRatio(IF Total(parts) = 0 THEN Ratio(Total(recent), 100 * Len(recent))
                     ELSE Ratio(Total(s), 100 * Total(parts)), 0, 1)
    BY Zenon DEF ComputeAdaptiveScore
  <2> HIDE DEF s, parts, recent
  <2> QED BY <1>4, <1>7, <2>1
<1>9. /\ q = [num |-> score, den |-> 100]
      /\ e = [num |-> score * score, den |-> 100 * score]
  <2> HIDE DEF t, recent
  <2> QED BY <1>5, <1>6 DEF Ratio
<1>10. Same(ClampRatio(q, 0, 1), ClampRatio(e, 0, 1))
  <2> HIDE DEF q, e
  <2>1. ~Below(q, 0)
    BY <1>9 DEF Below, AtLeast
  <2>2. score * score \in Int /\ score * score >= 0
    OBVIOUS
  <2>3. ~Below(e, 0)
    BY <1>9, <2>2 DEF Below, AtLeast
  <2>4. Above(q, 1) <=> score > 100
    BY <1>9 DEF Above
  <2>5. Above(e, 1) <=> score > 100
    <3>1. score * score > 100 * score <=> score > 100
      OBVIOUS
    <3>2. 1 * (100 * score) = 100 * score
      OBVIOUS
    <3> QED BY <1>9, <3>1, <3>2 DEF Above
  <2>6. CASE score > 100
    BY <2>4, <2>5, <2>6 DEF ClampRatio, Same, Whole, Ratio
  <2>7. CASE ~(score > 100)
    <3>1. ClampRatio(q, 0, 1) = q /\ ClampRatio(e, 0, 1) = e
      BY <2>1, <2>3, <2>4, <2>5, <2>7 DEF ClampRatio
    <3>2. score * (100 * score) = (score * score) * 100
      OBVIOUS
    <3> QED BY <1>9, <3>1, <3>2 DEF Same
  <2> QED BY <2>6, <2>7
<1> HIDE DEF t, e, q
<1> QED BY <1>8, <1>10 DEF e, t

\* What update() makes of scores and weights of those kinds is of them as well.
LEMMA UpdateLearns ==
  ASSUME NEW l, l # Nobody => Learnt(l), NEW score \in Int
  PROVE  Learnt(Update(l, score))
<1> DEFINE scores == IF l = Nobody THEN <<score>> ELSE Append(l.scores, score)
           recent == LastOf(scores, RollingWindow)
           sum == Total(Positives(recent))
           weights == IF l = Nobody THEN [parts |-> << 1 >>, of |-> 1] ELSE ComputeWeights(l.weights, recent)
           fresh == ClampRatio(Ratio(Total([i \in DOMAIN recent |-> Positive(recent[i]) * recent[i]]), 100 * sum), 0, 1)
<1>1. scores \in Seq(Int) /\ scores # <<>>
  BY DEF Learnt
<1>2. recent \in Seq(Int) /\ recent # <<>>
  <2>1. Len(scores) \in Nat \ {0}
    BY <1>1
  <2> HIDE DEF scores
  <2>2. RollingWindow \in Nat \ {0}
    BY WindowAssumption
  <2>3. recent \in Seq(Int) /\ Len(recent) = Smaller(RollingWindow, Len(scores))
    BY <1>1, <2>2, LastOfType
  <2>4. Len(recent) # 0
    BY <2>1, <2>2, <2>3 DEF Smaller
  <2> HIDE DEF recent
  <2> QED BY <2>3, <2>4
<1>3. sum \in Nat
  BY <1>2, PositivesType
<1>4. /\ l # Nobody /\ sum = 0 => weights = [parts |-> Append(l.weights.parts, l.weights.of), of |-> l.weights.of]
      /\ l # Nobody /\ sum # 0 => weights = [parts |-> Positives(recent), of |-> sum]
  <2> HIDE DEF recent
  <2> QED BY DEF ComputeWeights, Positives
<1>5. weights \in Weighting
  <2>1. CASE l = Nobody
    BY <2>1 DEF Weighting
  <2>2. CASE l # Nobody /\ sum = 0
    <3>1. l.weights.parts \in Seq(Nat) /\ l.weights.of \in Nat \ {0}
      BY <2>2 DEF Learnt, Weighting
    <3>2. Append(l.weights.parts, l.weights.of) \in Seq(Nat)
      BY <3>1
    <3> HIDE DEF weights, sum
    <3>3. weights = [parts |-> Append(l.weights.parts, l.weights.of), of |-> l.weights.of]
      BY <1>4, <2>2
    <3> QED BY <3>1, <3>2, <3>3 DEF Weighting
  <2>3. CASE l # Nobody /\ sum # 0
    <3>1. Positives(recent) \in Seq(Nat)
      BY <1>2, PositivesType
    <3> HIDE DEF weights, sum, recent
    <3> QED BY <1>3, <1>4, <2>3, <3>1 DEF Weighting
  <2> QED BY <2>1, <2>2, <2>3
<1>6. Update(l, score) = [scores |-> scores, weights |-> weights, decay |-> Trend(LastOf(scores, MinObservations)),
                          adaptive |-> ComputeAdaptiveScore(recent, weights)]
  BY Zenon DEF Update
<1>7. SelfWeighted(scores) = IF sum = 0 THEN Whole(0) ELSE fresh
  BY Zenon DEF SelfWeighted, Positives
<1>8. Same(ComputeAdaptiveScore(recent, weights), SelfWeighted(scores))
  <2>1. CASE sum = 0
    <3>1. Same(ComputeAdaptiveScore(recent, weights), Whole(0))
      <4> HIDE DEF recent, weights
      <4> QED BY <1>2, <1>5, <2>1, NothingPositive
    <3> HIDE DEF sum, recent, weights, scores, fresh
    <3> QED BY <1>7, <2>1, <3>1
  <2>2. CASE sum # 0 /\ l # Nobody
    <3>1. weights.parts = Positives(recent)
      <4> HIDE DEF sum, recent, weights
      <4> QED BY <1>4, <2>2
    <3>2. ComputeAdaptiveScore(recent, weights) = fresh
      <4> HIDE DEF recent, weights
      <4> QED BY <1>2, <2>2, <3>1, WeighedByItself
    <3> HIDE DEF sum, recent, weights, scores, fresh
    <3> QED BY <1>7, <2>2, <3>2 DEF Same
  <2>3. CASE sum # 0 /\ l = Nobody
    <3>1. scores = <<score>> /\ weights.parts = << 1 >>
      BY <2>3
    <3>2. recent = <<score>>
      <4>1. RollingWindow \in Nat \ {0}
        BY WindowAssumption
      <4> HIDE DEF scores
      <4>2. scores \in Seq(Int) /\ Len(scores) = 1 /\ scores[1] = score
        <5>1. Len(<<score>>) = 1 /\ <<score>>[1] = score
          OBVIOUS
        <5> QED BY <1>1, <3>1, <5>1
      <4>3. Len(recent) = Smaller(RollingWindow, 1)
        BY <4>1, <4>2, LastOfType
      <4>4. Len(recent) = 1
        BY <4>1, <4>3 DEF Smaller
      <4>5. \A i \in 1 .. Len(recent) : recent[i] = scores[Len(scores) - Len(recent) + i]
        BY <4>1, <4>2, LastOfType
      <4> HIDE DEF recent
      <4>6. recent[1] = score
        BY <4>2, <4>4, <4>5
      <4> QED BY <1>2, <4>4, <4>6
    <3>3. score > 0
      <4>1. Len(Positives(recent)) = 1 /\ Positives(recent)[1] = Positive(score)
        BY <3>2 DEF Positives
      <4>2. Positive(score) \in Int
        BY DEF Positive, Larger
      <4>3. sum = Positive(score)
        <5> HIDE DEF recent
        <5> QED BY <4>1, <4>2, TotalOfOne
      <4> HIDE DEF sum
      <4> QED BY <2>3, <4>3 DEF Positive, Larger
    <3> HIDE DEF weights
    <3>4. Same(ComputeAdaptiveScore(<<score>>, weights),
              ClampRatio(Ratio(Total([i \in DOMAIN <<score>> |-> Positive(<<score>>[i]) * <<score>>[i]]),
                               100 * Total(Positives(<<score>>))), 0, 1))
      BY <3>1, <3>3, FirstScore
    <3>5. Same(ComputeAdaptiveScore(recent, weights), fresh)
      <4> HIDE DEF recent
      <4> QED BY <3>2, <3>4
    <3> HIDE DEF sum, recent, scores, fresh
    <3> QED BY <1>7, <2>3, <3>5
  <2> QED BY <2>1, <2>2, <2>3
<1> HIDE DEF scores, weights, recent
<1> QED BY <1>1, <1>5, <1>6, <1>8 DEF Learnt

\* What a step learns about each model.
LEMMA LearningSteps ==
  ASSUME LearningInv, [Next]_vars
  PROVE  \/ learned' = learned
         \/ \E name \in Models, score \in Scores :
               learned' = [learned EXCEPT ![name] = Update(learned[name], score)]
<1>1. CASE CompareModels
  BY <1>1 DEF CompareModels, ModelsNext, Evaluate, UpdateLearning, RegisterChampion, RegisterChallenger,
     UnregisterChallenger, EvaluateRaises, PromoteChallenger
<1>2. CASE StoreReferenceData
  BY <1>2 DEF StoreReferenceData, models
<1>3. CASE Ask
  BY <1>3, AskingChangesNothing DEF models
<1>4. CASE UNCHANGED vars
  BY <1>4 DEF vars
<1> QED BY <1>1, <1>2, <1>3, <1>4 DEF Next

LEMMA LearningInductive == LearningInv /\ [Next]_vars => LearningInv'
<1> SUFFICES ASSUME LearningInv, [Next]_vars PROVE LearningInv'
  OBVIOUS
<1>1. CASE learned' = learned
  BY <1>1 DEF LearningInv
<1>2. ASSUME NEW name \in Models, NEW score \in Scores,
             learned' = [learned EXCEPT ![name] = Update(learned[name], score)]
      PROVE  LearningInv'
  <2>1. score \in Int /\ (learned[name] # Nobody => Learnt(learned[name]))
    BY ScoresAssumption DEF LearningInv
  <2>2. Learnt(Update(learned[name], score))
    BY <2>1, UpdateLearns
  <2>3. DOMAIN learned = Models
    BY DEF LearningInv
  <2>4. \A m \in Models : learned'[m] = IF m = name THEN Update(learned[name], score) ELSE learned[m]
    BY <1>2, <2>3
  <2>5. learned' = [m \in Models |-> learned'[m]]
    BY <1>2, <2>3
  <2>6. \A m \in Models : learned'[m] # Nobody => Learnt(learned'[m])
    BY <2>2, <2>4 DEF LearningInv
  <2> QED BY <2>5, <2>6 DEF LearningInv
<1> QED BY <1>1, <1>2, LearningSteps

\* The adaptive score depends on the recent scores alone, for any window, any
\* scores, and however many of them the carried weights were made for.
THEOREM AdaptiveScoresForget == Spec => []AdaptiveScoreForgets
<1>1. Init => LearningInv
  BY DEF Init, ModelsInit, LearningInv
<1>2. LearningInv => AdaptiveScoreForgets
  BY DEF LearningInv, Learnt, AdaptiveScoreForgets
<1> QED BY <1>1, <1>2, LearningInductive, PTL DEF Spec

------------------------------------------------------------------------------
(* Selection.                                                              *)

ModelRecord == [name : Models, score : Int]

RivalsInv ==
  /\ champion = Nobody \/ champion \in ModelRecord
  /\ challengers \in Seq(ModelRecord)

LEMMA ModelType ==
  ASSUME NEW name \in Models, NEW score \in Int
  PROVE  Model(name, score) \in ModelRecord
  BY DEF Model, ModelRecord

LEMMA RegisteredType ==
  ASSUME RivalsInv, NEW name \in Models
  PROVE  Registered(name) \in Seq(ModelRecord)
<1>1. Model(name, Unevaluated) \in ModelRecord
  BY ModelType DEF Unevaluated
<1> QED BY <1>1 DEF RivalsInv, Registered

LEMMA ComparingKeepsTypes ==
  ASSUME RivalsInv, ModelsNext PROVE RivalsInv'
<1>1. /\ champion = Nobody \/ champion \in ModelRecord
      /\ challengers \in Seq(ModelRecord) /\ Scores \subseteq Int /\ Unevaluated \in Int
  BY ScoresAssumption DEF RivalsInv, Unevaluated
<1>2. ASSUME NEW name \in Models, NEW score \in Scores, Evaluate(name, score) PROVE RivalsInv'
  <2> DEFINE known == Registered(name)
  <2>1. known \in Seq(ModelRecord) /\ Model(name, score) \in ModelRecord
    BY <1>1, RegisteredType, ModelType
  <2>2. challengers' = [i \in DOMAIN known |-> IF known[i].name = name THEN Model(name, score) ELSE known[i]]
    BY <1>2 DEF Evaluate
  <2> HIDE DEF known
  <2>3. challengers' \in Seq(ModelRecord)
    BY <2>1, <2>2
  <2>4. champion' = Nobody \/ champion' \in ModelRecord
    BY <1>1, <1>2, <2>1 DEF Evaluate
  <2> QED BY <2>3, <2>4 DEF RivalsInv
<1>3. ASSUME NEW name \in Models, NEW score \in Scores, UpdateLearning(name, score) PROVE RivalsInv'
  BY <1>1, <1>3 DEF UpdateLearning, RivalsInv
<1>4. ASSUME NEW name \in Models, NEW score \in Scores \union {Unevaluated}, RegisterChampion(name, score)
      PROVE  RivalsInv'
  <2>1. Model(name, score) \in ModelRecord
    BY <1>1, ModelType
  <2> QED BY <1>1, <1>4, <2>1 DEF RegisterChampion, RivalsInv
<1>5. ASSUME NEW name \in Models, NEW supplied \in Scores \union {Nobody}, RegisterChallenger(name, supplied)
      PROVE  RivalsInv'
  <2> DEFINE new == Model(name, IF supplied = Nobody THEN Unevaluated ELSE supplied)
  <2>1. new \in ModelRecord
    BY <1>1, ModelType
  <2>2. challengers' = Append(challengers, new) /\ champion' = champion
    BY <1>5 DEF RegisterChallenger
  <2> HIDE DEF new
  <2>3. challengers' \in Seq(ModelRecord)
    BY <1>1, <2>1, <2>2
  <2> QED BY <1>1, <2>2, <2>3 DEF RivalsInv
<1>6. ASSUME NEW name \in Models PROVE Pick(challengers, DOMAIN challengers \ Named(name)) \in Seq(ModelRecord)
  BY <1>1, PickOfRows
<1>7. ASSUME NEW name \in Models, UnregisterChallenger(name) PROVE RivalsInv'
  BY <1>1, <1>6, <1>7 DEF UnregisterChallenger, RivalsInv
<1>8. ASSUME NEW name \in Models, EvaluateRaises(name) PROVE RivalsInv'
  <2>1. Registered(name) \in Seq(ModelRecord)
    BY RegisteredType
  <2> QED BY <1>1, <1>8, <2>1 DEF EvaluateRaises, RivalsInv
<1>9. ASSUME NEW name \in Models, PromoteChallenger(name) PROVE RivalsInv'
  <2>1. PICK i \in DOMAIN challengers : champion' = challengers[i]
    BY <1>9 DEF PromoteChallenger
  <2>2. champion' \in ModelRecord
    BY <1>1, <2>1
  <2> QED BY <1>6, <1>9, <2>2 DEF PromoteChallenger, RivalsInv
<1> QED BY <1>2, <1>3, <1>4, <1>5, <1>7, <1>8, <1>9 DEF ModelsNext

LEMMA RivalsInductive == RivalsInv /\ [Next]_vars => RivalsInv'
<1> SUFFICES ASSUME RivalsInv, [Next]_vars PROVE RivalsInv'
  OBVIOUS
<1>1. CASE CompareModels
  BY <1>1, ComparingKeepsTypes DEF CompareModels
<1>2. CASE UNCHANGED models
  BY <1>2 DEF RivalsInv, models
<1>3. CASE StoreReferenceData
  BY <1>2, <1>3 DEF StoreReferenceData
<1>4. CASE Ask
  BY <1>2, <1>4, AskingChangesNothing
<1>5. CASE UNCHANGED vars
  BY <1>2, <1>5 DEF vars, models
<1> QED BY <1>1, <1>3, <1>4, <1>5 DEF Next

\* The candidates of a champion that is no challenger.
LEMMA CandidatesOfChampion ==
  ASSUME RivalsInv, champion # Nobody, ~Challenging(champion.name)
  PROVE  Candidates = <<champion>> \o challengers
<1>1. \A i \in DOMAIN challengers : challengers[i].name # champion.name
  BY DEF Challenging, Named
<1>2. {i \in DOMAIN challengers : ~IsChampion(challengers[i].name)} = DOMAIN challengers
  BY <1>1 DEF IsChampion
<1>3. Pick(challengers, DOMAIN challengers) = challengers
  BY PickOfAll DEF RivalsInv
<1> QED BY <1>2, <1>3, Zenon DEF Candidates

LEMMA TheBestIsKept == RivalsInv => BestIsKept
<1> SUFFICES ASSUME RivalsInv, champion # Nobody, champion.score >= 0, ~Challenging(champion.name),
                    SelectBest = champion.name
             PROVE  CheckReplacement = Nobody
  BY DEF BestIsKept
<1> DEFINE C == Candidates
           best == Highest([i \in DOMAIN C |-> C[i].score])
           I == {i \in 1 .. Len(C) : C[i].score = best}
<1>1. C = <<champion>> \o challengers
  BY CandidatesOfChampion
<1>2. champion \in ModelRecord /\ challengers \in Seq(ModelRecord) /\ <<champion>> \in Seq(ModelRecord)
  BY DEF RivalsInv
<1>3. /\ C \in Seq(ModelRecord) /\ Len(C) = Len(challengers) + 1 /\ Len(challengers) \in Nat
      /\ C[1] = champion /\ \A i \in 1 .. Len(challengers) : C[i + 1] = challengers[i]
  BY <1>1, <1>2
<1> HIDE DEF C
<1>4. \A i \in 1 .. Len(C) : C[i].score \in Int
  <2> TAKE i \in 1 .. Len(C)
  <2>1. C[i] \in ModelRecord
    BY <1>3
  <2> QED BY <2>1 DEF ModelRecord
<1>5. PICK k \in 1 .. Len(C) : best = C[k].score /\ \A i \in 1 .. Len(C) : C[i].score <= best
  <2> DEFINE s == [i \in DOMAIN C |-> C[i].score]
             n == Len(C)
  <2>1. n \in Nat \ {0} /\ DOMAIN s = 1 .. n /\ \A i \in 1 .. n : s[i] \in Int /\ s[i] = C[i].score
    BY <1>3, <1>4
  <2> HIDE DEF s, n
  <2>2. \E k \in 1 .. n : Highest(s) = s[k] /\ \A i \in 1 .. n : s[i] <= s[k]
    BY <2>1, HighestIsReached
  <2>3. \E k \in 1 .. n : best = C[k].score /\ \A i \in 1 .. n : C[i].score <= best
    <3>1. best = Highest(s)
      BY DEF s
    <3> HIDE DEF best
    <3> QED BY <2>1, <2>2, <3>1
  <2> QED BY <2>3 DEF n
<1> HIDE DEF best
<1>6. PICK m \in I : SelectInSeq(C, LAMBDA c : c.score = best) = m
  <2>1. I # {} /\ I \in SUBSET Nat
    BY <1>3, <1>5
  <2>2. PICK j \in I : \A i \in I : j <= i
    <3> HIDE DEF I
    <3> QED BY <2>1, LeastElement
  <2>3. Min(I) \in I
    <3> HIDE DEF I
    <3> QED BY <2>2 DEF Min
  <2>4. SelectInSeq(C, LAMBDA c : c.score = best) = Min(I)
    BY <2>1 DEF SelectInSeq
  <2> QED BY <2>3, <2>4
<1>7. C[m].name = champion.name
  <2>1. C # <<>>
    BY <1>3
  <2>2. SelectBest = C[SelectInSeq(C, LAMBDA c : c.score = best)].name
    BY <2>1, Zenon DEF SelectBest, best, C
  <2> QED BY <1>6, <2>2
<1>8. m = 1
  <2> SUFFICES ASSUME m # 1 PROVE FALSE
    OBVIOUS
  <2>1. m - 1 \in 1 .. Len(challengers) /\ C[m] = challengers[m - 1]
    BY <1>3
  <2>2. m - 1 \in DOMAIN challengers
    BY <1>2, <2>1
  <2> QED BY <1>7, <2>1, <2>2 DEF Challenging, Named
<1>9. \A i \in 1 .. Len(challengers) : challengers[i].score <= champion.score
  <2>1. best = champion.score
    BY <1>3, <1>6, <1>8
  <2> TAKE i \in 1 .. Len(challengers)
  <2>2. i + 1 \in 1 .. Len(C) /\ C[i + 1] = challengers[i]
    BY <1>3
  <2> QED BY <1>5, <2>1, <2>2
<1>10. \A i \in 1 .. Len(challengers) : ~Beats(challengers[i].score, champion.score)
  <2> TAKE i \in 1 .. Len(challengers)
  <2>1. challengers[i] \in ModelRecord
    BY <1>2
  <2>2. challengers[i].score \in Int /\ champion.score \in Int
    BY <1>2, <2>1 DEF ModelRecord
  <2>3. challengers[i].score <= champion.score
    BY <1>9
  <2> QED BY <2>2, <2>3 DEF Beats
<1>11. SelectInSeq(challengers, LAMBDA c : Beats(c.score, champion.score)) = 0
  BY <1>10 DEF SelectInSeq
<1> QED BY <1>11 DEF CheckReplacement

\* While the best candidate is the champion, none replaces it: for any models and
\* scores, however they were registered, evaluated and promoted.
THEOREM TheChampionStays == Spec => []BestIsKept
<1>1. Init => RivalsInv
  BY DEF Init, ModelsInit, RivalsInv
<1> QED BY <1>1, RivalsInductive, TheBestIsKept, PTL DEF Spec

------------------------------------------------------------------------------
(* Instances: an operator of Screening is that of Calculations.             *)

LEMMA Bridges ==
  /\ \A S, before : Screening!Ordered(S, before) = Ordered(S, before)
  /\ \A s, places : Screening!Pick(s, places) = Pick(s, places)
  /\ \A s : Screening!Total(s) = Total(s)
  /\ \A p, q : Screening!More(p, q) <=> More(p, q)
  /\ \A p, q : Screening!Plus(p, q) = Plus(p, q)
  /\ \A n, q : Screening!Times(n, q) = Times(n, q)
  /\ \A n, d : Screening!Ratio(n, d) = Ratio(n, d)
  /\ \A n : Screening!Whole(n) = Whole(n)
  /\ \A s : Screening!Highest(s) = Highest(s) /\ Screening!Lowest(s) = Lowest(s)
  /\ \A S : Screening!Cardinality(S) = Cardinality(S)
<1>1. \A S, before : Screening!Ordered(S, before) = Ordered(S, before)
  BY Zenon DEF Ordered, Screening!Ordered, Cardinality, Screening!Cardinality
<1>2. \A s, places : Screening!Pick(s, places) = Pick(s, places)
  BY <1>1, Zenon DEF Pick, At, InOrder, Screening!Pick, Screening!At, Screening!InOrder
<1>3. \A s : Screening!Total(s) = Total(s)
  BY Zenon DEF Total, Screening!Total
<1>4. \A p, q : Screening!More(p, q) <=> More(p, q)
  BY Zenon DEF More, Screening!More
<1>5. \A p, q : Screening!Plus(p, q) = Plus(p, q)
  BY Zenon DEF Plus, Screening!Plus
<1>6. \A n, q : Screening!Times(n, q) = Times(n, q)
  BY Zenon DEF Times, Screening!Times
<1>7. \A n, d : Screening!Ratio(n, d) = Ratio(n, d)
  BY Zenon DEF Ratio, Screening!Ratio
<1>8. \A n : Screening!Whole(n) = Whole(n)
  BY Zenon DEF Whole, Screening!Whole, Ratio, Screening!Ratio
<1>9. \A s : Screening!Highest(s) = Highest(s) /\ Screening!Lowest(s) = Lowest(s)
  BY Zenon DEF Highest, Screening!Highest, Lowest, Screening!Lowest
<1>10. \A S : Screening!Cardinality(S) = Cardinality(S)
  BY Zenon DEF Cardinality, Screening!Cardinality
<1> QED BY <1>1, <1>2, <1>3, <1>4, <1>5, <1>6, <1>7, <1>8, <1>9, <1>10, Zenon

------------------------------------------------------------------------------
(* Fractions.                                                               *)

Fractions == {q \in [num : Int, den : Int] : q.den > 0}

LEMMA FractionFields ==
  /\ \A q \in Fractions : q.num \in Int /\ q.den \in Int /\ q.den > 0
  /\ \A n \in Int, d \in Int : d > 0 =>
       /\ [num |-> n, den |-> d] \in Fractions
       /\ Ratio(n, d) = [num |-> n, den |-> d]
BY DEF Fractions, Ratio

\* Inequalities may be multiplied by what is above zero, and divided by it.
LEMMA Scaled ==
  \A a, b, c \in Int : c > 0 => (a <= b <=> a * c <= b * c) /\ (a < b <=> a * c < b * c)
<1> SUFFICES ASSUME NEW a \in Int, NEW b \in Int, NEW c \in Int, c > 0
             PROVE  (a <= b <=> a * c <= b * c) /\ (a < b <=> a * c < b * c)
  OBVIOUS
<1>1. a <= b => a * c <= b * c
  OBVIOUS
<1>2. a < b => a * c < b * c
  OBVIOUS
<1>3. b < a => b * c < a * c
  OBVIOUS
<1>4. b <= a => b * c <= a * c
  OBVIOUS
<1>5. a * c \in Int /\ b * c \in Int
  OBVIOUS
<1> DEFINE x == a * c
           y == b * c
<1> HIDE DEF x, y
<1>6. /\ a <= b => x <= y
      /\ a < b => x < y
      /\ b < a => y < x
      /\ b <= a => y <= x
      /\ x \in Int /\ y \in Int
  BY <1>1, <1>2, <1>3, <1>4, <1>5 DEF x, y
<1>7. (a <= b <=> x <= y) /\ (a < b <=> x < y)
  BY <1>6
<1> QED BY <1>7 DEF x, y

\* More is an order: at least as much as what is at least as much, and more when
\* one of the two is more.
LEMMA MoreIsTransitive ==
  ASSUME NEW p \in Fractions, NEW q \in Fractions, NEW r \in Fractions
  PROVE  /\ More(p, q) => ~More(q, p)
         /\ ~More(p, p)
         /\ ~More(q, p) /\ ~More(r, q) => ~More(r, p)
         /\ More(p, q) /\ ~More(r, q) => More(p, r)
         /\ ~More(q, p) /\ More(q, r) => More(p, r)
<1> DEFINE a == p.num
           b == p.den
           c == q.num
           d == q.den
           e == r.num
           f == r.den
<1>1. /\ a \in Int /\ b \in Int /\ c \in Int /\ d \in Int /\ e \in Int /\ f \in Int
      /\ b > 0 /\ d > 0 /\ f > 0
  BY FractionFields
<1>2. /\ More(p, q) <=> c * b < a * d
      /\ More(q, p) <=> a * d < c * b
      /\ More(q, r) <=> e * d < c * f
      /\ More(r, q) <=> c * f < e * d
      /\ More(p, r) <=> e * b < a * f
      /\ More(r, p) <=> a * f < e * b
      /\ More(p, p) <=> a * b < a * b
  BY <1>1 DEF More
<1> HIDE DEF a, b, c, d, e, f
<1> DEFINE u == a * d
           v == c * b
           x == c * f
           y == e * d
           g == a * f
           h == e * b
<1>3. u \in Int /\ v \in Int /\ x \in Int /\ y \in Int /\ g \in Int /\ h \in Int /\ a * b \in Int
  BY <1>1
<1>4. u * f = g * d /\ v * f = x * b /\ y * b = h * d
  BY <1>1
<1>5. /\ More(p, q) <=> v < u
      /\ More(q, p) <=> u < v
      /\ More(q, r) <=> y < x
      /\ More(r, q) <=> x < y
      /\ More(p, r) <=> h < g
      /\ More(r, p) <=> g < h
  BY <1>2
<1>6. ~More(p, p)
  BY <1>2, <1>3
<1> HIDE DEF u, v, x, y, g, h
<1>7. /\ (v <= u <=> v * f <= u * f) /\ (v < u <=> v * f < u * f)
      /\ (y <= x <=> y * b <= x * b) /\ (y < x <=> y * b < x * b)
      /\ (h <= g <=> h * d <= g * d) /\ (h < g <=> h * d < g * d)
  BY <1>1, <1>3, Scaled
<1> DEFINE uf == u * f
           vf == v * f
           yb == y * b
<1>8. /\ (v <= u <=> vf <= uf) /\ (v < u <=> vf < uf)
      /\ (y <= x <=> yb <= vf) /\ (y < x <=> yb < vf)
      /\ (h <= g <=> yb <= uf) /\ (h < g <=> yb < uf)
      /\ uf \in Int /\ vf \in Int /\ yb \in Int
  BY <1>1, <1>3, <1>4, <1>7
<1> HIDE DEF uf, vf, yb
<1>9. /\ More(p, q) => ~More(q, p)
      /\ v <= u /\ y <= x => h <= g
      /\ v < u /\ y <= x => h < g
      /\ v <= u /\ y < x => h < g
  BY <1>3, <1>5, <1>8
<1> QED BY <1>3, <1>5, <1>6, <1>9

\* Sums and multiples keep the order.
LEMMA PlusKeepsOrder ==
  ASSUME NEW p \in Fractions, NEW p2 \in Fractions, NEW q \in Fractions, NEW q2 \in Fractions,
         ~More(p2, p), ~More(q2, q)
  PROVE  /\ Plus(p, q) \in Fractions /\ Plus(p2, q2) \in Fractions
         /\ ~More(Plus(p2, q2), Plus(p, q))
         /\ More(p, p2) \/ More(q, q2) => More(Plus(p, q), Plus(p2, q2))
<1> DEFINE a == p.num * p2.den
           b == p2.num * p.den
           c == q.num * q2.den
           d == q2.num * q.den
           u == q.den * q2.den
           v == p.den * p2.den
           s == Plus(p, q)
           t == Plus(p2, q2)
<1>1. /\ p.num \in Int /\ p.den \in Int /\ p.den > 0 /\ p2.num \in Int /\ p2.den \in Int /\ p2.den > 0
      /\ q.num \in Int /\ q.den \in Int /\ q.den > 0 /\ q2.num \in Int /\ q2.den \in Int /\ q2.den > 0
  BY FractionFields
<1>2. ASSUME NEW x \in Int, NEW y \in Int, x > 0, y > 0 PROVE x * y \in Int /\ x * y > 0
  BY <1>2
<1>3. u \in Int /\ u > 0 /\ v \in Int /\ v > 0
  BY <1>1, <1>2
<1>4. a \in Int /\ b \in Int /\ c \in Int /\ d \in Int
  BY <1>1
<1>5. /\ s.num = p.num * q.den + q.num * p.den /\ s.den = p.den * q.den
      /\ t.num = p2.num * q2.den + q2.num * p2.den /\ t.den = p2.den * q2.den
      /\ s = [num |-> s.num, den |-> s.den] /\ t = [num |-> t.num, den |-> t.den]
  BY Zenon DEF Plus
<1>6. /\ s.num \in Int /\ s.den \in Int /\ s.den > 0
      /\ t.num \in Int /\ t.den \in Int /\ t.den > 0
  BY <1>1, <1>2, <1>5
<1>7. s \in Fractions /\ t \in Fractions
  <2> HIDE DEF s, t
  <2> QED BY <1>5, <1>6, FractionFields, Zenon
<1>8. s.num * t.den = a * u + c * v
  BY <1>1, <1>5
<1>9. t.num * s.den = b * u + d * v
  BY <1>1, <1>5
<1>10. /\ More(p, p2) <=> b < a
       /\ More(p2, p) <=> a < b
       /\ More(q, q2) <=> d < c
       /\ More(q2, q) <=> c < d
       /\ More(s, t) <=> b * u + d * v < a * u + c * v
       /\ More(t, s) <=> a * u + c * v < b * u + d * v
  BY <1>8, <1>9 DEF More
<1> HIDE DEF a, b, c, d, u, v, s, t
<1>11. /\ (b <= a <=> b * u <= a * u) /\ (b < a <=> b * u < a * u)
       /\ (d <= c <=> d * v <= c * v) /\ (d < c <=> d * v < c * v)
  BY <1>3, <1>4, Scaled
<1> DEFINE au == a * u
           bu == b * u
           cv == c * v
           dv == d * v
<1>12. au \in Int /\ bu \in Int /\ cv \in Int /\ dv \in Int
  BY <1>3, <1>4
<1>13. b <= a /\ d <= c
  BY <1>4, <1>10
<1>14. /\ bu <= au /\ dv <= cv /\ (b < a => bu < au) /\ (d < c => dv < cv)
       /\ (More(s, t) <=> bu + dv < au + cv)
       /\ (More(t, s) <=> au + cv < bu + dv)
  BY <1>10, <1>11, <1>13
<1> HIDE DEF au, bu, cv, dv
<1>15. ~More(t, s) /\ (b < a \/ d < c => More(s, t))
  BY <1>12, <1>14
<1> QED BY <1>7, <1>10, <1>15 DEF s, t

LEMMA TimesKeepsOrder ==
  ASSUME NEW n \in Nat, NEW q \in Fractions, NEW q2 \in Fractions, ~More(q2, q)
  PROVE  /\ Times(n, q) \in Fractions /\ Times(n, q2) \in Fractions
         /\ ~More(Times(n, q2), Times(n, q))
         /\ n > 0 /\ More(q, q2) => More(Times(n, q), Times(n, q2))
<1> DEFINE c == q.num * q2.den
           d == q2.num * q.den
<1>1. /\ q.num \in Int /\ q.den \in Int /\ q.den > 0 /\ q2.num \in Int /\ q2.den \in Int /\ q2.den > 0
  BY FractionFields
<1>2. /\ Times(n, q) = [num |-> n * q.num, den |-> q.den]
      /\ Times(n, q2) = [num |-> n * q2.num, den |-> q2.den]
  BY DEF Times
<1>3. n * q.num \in Int /\ n * q2.num \in Int
  BY <1>1
<1>4. Times(n, q) \in Fractions /\ Times(n, q2) \in Fractions
  BY <1>1, <1>2, <1>3, FractionFields, Zenon
<1>5. /\ (n * q.num) * q2.den = c * n
      /\ (n * q2.num) * q.den = d * n
      /\ c \in Int /\ d \in Int
  BY <1>1
<1>6. /\ More(q, q2) <=> d < c
      /\ More(q2, q) <=> c < d
      /\ More(Times(n, q), Times(n, q2)) <=> d * n < c * n
      /\ More(Times(n, q2), Times(n, q)) <=> c * n < d * n
  BY <1>2, <1>5 DEF More
<1> HIDE DEF c, d
<1>7. CASE n > 0
  <2>1. /\ c <= d <=> c * n <= d * n
        /\ d <= c <=> d * n <= c * n
        /\ d < c <=> d * n < c * n
        /\ c < d <=> c * n < d * n
    BY <1>5, <1>7, Scaled
  <2> QED BY <1>4, <1>6, <2>1
<1>8. CASE n = 0
  <2>1. c * n = 0 /\ d * n = 0
    BY <1>5, <1>8
  <2> QED BY <1>4, <1>6, <1>8, <2>1
<1> QED BY <1>7, <1>8

------------------------------------------------------------------------------
(* Scores of one factor.                                                    *)

Share(q) == q \in Fractions /\ 0 <= q.num /\ q.num <= q.den

\* i is the first place of its value.
FirstOf(s, i) == i \in DOMAIN s /\ \A k \in DOMAIN s : s[k] = s[i] => i <= k

LEMMA SpreadOut ==
  ASSUME NEW s \in Seq(Int), NEW i \in DOMAIN s, NEW j \in DOMAIN s, s[j] <= s[i]
  PROVE  LET r == Screening!MinMax(s)
         IN /\ Share(r[i]) /\ Share(r[j])
            /\ ~More(r[j], r[i])
            /\ s[j] < s[i] => More(r[i], r[j])
<1> DEFINE n == Len(s)
           r == Screening!MinMax(s)
<1>1. n \in Nat /\ DOMAIN s = 1 .. n /\ n # 0 /\ n \in Nat \ {0} /\ \A k \in 1 .. n : s[k] \in Int
  BY DOMAIN s = 1 .. n
<1>2. PICK h \in 1 .. n : Highest(s) = s[h] /\ \A k \in 1 .. n : s[k] <= s[h]
  <2> HIDE DEF n
  <2> QED BY <1>1, HighestIsReached
<1>3. PICK l \in 1 .. n : Lowest(s) = s[l] /\ \A k \in 1 .. n : s[k] >= s[l]
  <2> HIDE DEF n
  <2> QED BY <1>1, LowestIsReached
<1> DEFINE low == s[l]
           d == s[h] - s[l]
<1>4. Screening!Spread(s) = d /\ Screening!Lowest(s) = low
  BY <1>2, <1>3, Bridges, Zenon DEF Screening!Spread
<1>5. \A k \in DOMAIN s : r[k] = IF d = 0 THEN Ratio(1, 2) ELSE Ratio(s[k] - low, d)
  <2> HIDE DEF d, low
  <2> QED BY <1>4, Bridges, Zenon DEF Screening!MinMax
<1>6. /\ low \in Int /\ d \in Int /\ d >= 0 /\ s[i] \in Int /\ s[j] \in Int
      /\ low <= s[i] /\ low <= s[j] /\ s[i] - low <= d /\ s[j] - low <= d
  BY <1>1, <1>2, <1>3
<1> HIDE DEF d, low, r
<1>7. CASE d = 0
  <2>1. r[i] = [num |-> 1, den |-> 2] /\ r[j] = [num |-> 1, den |-> 2]
    BY <1>5, <1>7, FractionFields
  <2>2. s[i] = s[j]
    BY <1>6, <1>7
  <2> QED BY <2>1, <2>2, <1>6 DEF Share, Fractions, More, r
<1>8. CASE d > 0
  <2>1. r[i] = [num |-> s[i] - low, den |-> d] /\ r[j] = [num |-> s[j] - low, den |-> d]
    BY <1>5, <1>6, <1>8, FractionFields
  <2>2. Share(r[i]) /\ Share(r[j])
    BY <2>1, <1>6, <1>8 DEF Share, Fractions
  <2> DEFINE x == s[i] - low
             y == s[j] - low
  <2>3. x \in Int /\ y \in Int /\ y <= x /\ (s[j] < s[i] => y < x)
    BY <1>6
  <2>4. (More(r[j], r[i]) <=> x * d < y * d) /\ (More(r[i], r[j]) <=> y * d < x * d)
    BY <2>1, <1>6 DEF More
  <2> HIDE DEF x, y
  <2>5. (y <= x <=> y * d <= x * d) /\ (y < x <=> y * d < x * d) /\ (x < y <=> x * d < y * d)
    BY <2>3, <1>6, <1>8, Scaled
  <2>6. ~(x < y)
    BY <2>3
  <2>7. ~More(r[j], r[i]) /\ (s[j] < s[i] => More(r[i], r[j]))
    BY <2>3, <2>4, <2>5, <2>6
  <2> QED BY <2>2, <2>7 DEF r
<1> QED BY <1>6, <1>7, <1>8

LEMMA RankedByCount ==
  ASSUME NEW s \in Seq(Int), NEW i, NEW j, FirstOf(s, i), FirstOf(s, j), s[j] <= s[i]
  PROVE  LET r == Screening!Percentile(s)
         IN /\ Share(r[i]) /\ Share(r[j])
            /\ ~More(r[j], r[i])
            /\ s[j] < s[i] => More(r[i], r[j])
<1> DEFINE n == Len(s)
           r == Screening!Percentile(s)
           B(k) == {l \in DOMAIN s : s[l] < s[k] \/ (s[l] = s[k] /\ l < k)}
           b == [k \in DOMAIN s |-> Cardinality(B(k))]
<1>1. /\ n \in Nat /\ DOMAIN s = 1 .. n /\ i \in 1 .. n /\ j \in 1 .. n
      /\ \A k \in 1 .. n : s[k] \in Int
  BY DOMAIN s = 1 .. n DEF FirstOf
<1>2. \A k \in DOMAIN s : r[k] = IF n < 2 THEN Whole(1) ELSE Ratio(b[k], n - 1)
  <2>1. ASSUME NEW k \in DOMAIN s PROVE Screening!Cardinality(B(k)) = b[k]
    <3>1. b[k] = Cardinality(B(k))
      OBVIOUS
    <3> HIDE DEF b, B
    <3> QED BY <3>1, Bridges, Zenon
  <2>2. \A k \in DOMAIN s :
          r[k] = IF n < 2 THEN Screening!Whole(1) ELSE Screening!Ratio(Screening!Cardinality(B(k)), n - 1)
    BY Zenon DEF Screening!Percentile
  <2> HIDE DEF b, B, r, n
  <2> TAKE k \in DOMAIN s
  <2>3. Screening!Whole(1) = Whole(1) /\ Screening!Ratio(b[k], n - 1) = Ratio(b[k], n - 1)
    BY Bridges, Zenon
  <2> QED BY <2>1, <2>2, <2>3, Zenon
<1>20. Whole(1) = [num |-> 1, den |-> 1]
  BY DEF Whole, Ratio
<1>3. ASSUME NEW k \in 1 .. n
      PROVE  /\ IsFiniteSet(B(k)) /\ b[k] \in Nat /\ b[k] <= n - 1
             /\ b[k] = Cardinality(B(k))
  <2>1. IsFiniteSet(1 .. n) /\ Cardinality(1 .. n) = n
    <3>1. n \in Int /\ 1 \in Int /\ n >= 1 /\ n - 1 + 1 = n
      BY <1>1
    <3> HIDE DEF n, b, B, r
    <3> QED BY <3>1, FS_Interval
  <2>2. B(k) \in SUBSET ((1 .. n) \ {k})
    BY <1>1
  <2>3. IsFiniteSet((1 .. n) \ {k}) /\ Cardinality((1 .. n) \ {k}) = n - 1
    BY <2>1, FS_RemoveElement
  <2>4. b[k] = Cardinality(B(k))
    BY <1>1
  <2> HIDE DEF b, B
  <2>5. IsFiniteSet(B(k)) /\ Cardinality(B(k)) <= n - 1 /\ Cardinality(B(k)) \in Nat
    BY <2>2, <2>3, FS_Subset, FS_CardinalityType
  <2> QED BY <2>4, <2>5
<1>4. CASE i = j
  <2>1. r[i] \in Fractions /\ 0 <= r[i].num /\ r[i].num <= r[i].den
    <3>1. CASE n < 2
      <4>1. r[i] = [num |-> 1, den |-> 1]
        <5> HIDE DEF r, b, n
        <5> QED BY <3>1, <1>1, <1>2, <1>20
      <4> QED BY <4>1 DEF Fractions
    <3>2. CASE n >= 2
      <4>1. r[i] = [num |-> b[i], den |-> n - 1]
        <5>1. b[i] \in Int /\ n - 1 \in Int /\ n - 1 > 0
          <6> HIDE DEF r, b, B, n
          <6> QED BY <1>1, <1>3, <3>2
        <5>2. Ratio(b[i], n - 1) = [num |-> b[i], den |-> n - 1]
          <6> HIDE DEF b, n
          <6> QED BY <5>1, FractionFields
        <5> HIDE DEF r, b, n
        <5> QED BY <3>2, <5>2, <1>1, <1>2
      <4>2. b[i] \in Nat /\ b[i] <= n - 1
        BY <1>1, <1>3
      <4> HIDE DEF r, b
      <4> QED BY <4>1, <4>2, <3>2, <1>1 DEF Fractions
    <3> QED BY <3>1, <3>2, <1>1
  <2> HIDE DEF r
  <2>2. ~More(r[i], r[i])
    BY <2>1, MoreIsTransitive
  <2> QED BY <2>1, <2>2, <1>4, <1>1 DEF Share, r
<1>5. CASE i # j
  <2>1. s[j] < s[i] /\ n >= 2
    BY <1>1, <1>5 DEF FirstOf
  <2>2. B(j) \in SUBSET (B(i) \ {j}) /\ j \in B(i)
    <3>1. j \in B(i)
      BY <2>1, <1>1
    <3>2. ASSUME NEW l \in DOMAIN s, s[l] < s[j] \/ (s[l] = s[j] /\ l < j) PROVE l \in B(i) /\ l # j
      <4>1. s[l] < s[i] /\ l # j
        BY <2>1, <1>1, <3>2
      <4> QED BY <4>1
    <3> QED BY <3>1, <3>2
  <2>3. /\ IsFiniteSet(B(i)) /\ IsFiniteSet(B(j)) /\ b[i] = Cardinality(B(i)) /\ b[j] = Cardinality(B(j))
        /\ b[i] \in Nat /\ b[j] \in Nat /\ b[i] <= n - 1 /\ b[j] <= n - 1
    BY <1>1, <1>3
  <2> HIDE DEF B
  <2>4. b[j] < b[i]
    <3>1. IsFiniteSet(B(i) \ {j}) /\ Cardinality(B(i) \ {j}) = Cardinality(B(i)) - 1
      BY <2>2, <2>3, FS_RemoveElement
    <3>2. Cardinality(B(j)) <= Cardinality(B(i) \ {j})
      BY <3>1, <2>2, FS_Subset
    <3> HIDE DEF b
    <3> QED BY <2>3, <3>1, <3>2
  <2> HIDE DEF b, r
  <2>5. r[i] = [num |-> b[i], den |-> n - 1] /\ r[j] = [num |-> b[j], den |-> n - 1]
    <3> HIDE DEF n
    <3>1. /\ n - 1 \in Int /\ n - 1 > 0 /\ ~(n < 2) /\ b[i] \in Int /\ b[j] \in Int
          /\ i \in DOMAIN s /\ j \in DOMAIN s
      BY <1>1, <2>1, <2>3
    <3>2. r[i] = Ratio(b[i], n - 1) /\ r[j] = Ratio(b[j], n - 1)
      BY <1>2, <3>1, Zenon
    <3>3. /\ Ratio(b[i], n - 1) = [num |-> b[i], den |-> n - 1]
          /\ Ratio(b[j], n - 1) = [num |-> b[j], den |-> n - 1]
      BY <3>1, FractionFields
    <3> QED BY <3>2, <3>3, Zenon
  <2> DEFINE x == b[i]
             y == b[j]
             d == n - 1
  <2>6. x \in Int /\ y \in Int /\ d \in Int /\ d > 0 /\ y < x
    BY <1>1, <2>1, <2>3, <2>4
  <2>7. (More(r[j], r[i]) <=> x * d < y * d) /\ (More(r[i], r[j]) <=> y * d < x * d)
    BY <2>5, <2>6 DEF More
  <2>8. Share(r[i]) /\ Share(r[j])
    BY <2>3, <2>5, <2>6 DEF Share, Fractions
  <2> HIDE DEF x, y, d
  <2>9. (y < x <=> y * d < x * d) /\ (x < y <=> x * d < y * d)
    BY <2>6, Scaled
  <2>10. ~More(r[j], r[i]) /\ More(r[i], r[j])
    BY <2>6, <2>7, <2>9
  <2> QED BY <2>8, <2>10 DEF r
<1> QED BY <1>4, <1>5

\* Either method follows the values.
LEMMA NormalizedByValue ==
  ASSUME NEW s \in Seq(Int), NEW i, NEW j, FirstOf(s, i), FirstOf(s, j), s[j] <= s[i],
         NEW factor
  PROVE  LET r == IF factor.method = "PERCENTILE" THEN Screening!Percentile(s) ELSE Screening!MinMax(s)
         IN /\ Share(r[i]) /\ Share(r[j])
            /\ ~More(r[j], r[i])
            /\ s[j] < s[i] => More(r[i], r[j])
            /\ DOMAIN r = DOMAIN s
<1>1. i \in DOMAIN s /\ j \in DOMAIN s
  BY DEF FirstOf
<1>2. DOMAIN Screening!Percentile(s) = DOMAIN s /\ DOMAIN Screening!MinMax(s) = DOMAIN s
  BY Zenon DEF Screening!Percentile, Screening!MinMax
<1>3. CASE factor.method = "PERCENTILE"
  BY <1>2, <1>3, RankedByCount
<1>4. CASE factor.method # "PERCENTILE"
  BY <1>1, <1>2, <1>4, SpreadOut
<1> QED BY <1>3, <1>4

\* Of one minus a share.
LEMMA Complement ==
  ASSUME NEW p, NEW q, Share(p), Share(q)
  PROVE  LET c(x) == Ratio(x.den - x.num, x.den)
         IN /\ Share(c(p)) /\ Share(c(q))
            /\ More(c(p), c(q)) <=> More(q, p)
<1>1. /\ p.num \in Int /\ p.den \in Int /\ p.den > 0 /\ 0 <= p.num /\ p.num <= p.den
      /\ q.num \in Int /\ q.den \in Int /\ q.den > 0 /\ 0 <= q.num /\ q.num <= q.den
  BY FractionFields DEF Share
<1> DEFINE c(x) == Ratio(x.den - x.num, x.den)
<1>2. /\ c(p) = [num |-> p.den - p.num, den |-> p.den]
      /\ c(q) = [num |-> q.den - q.num, den |-> q.den]
  BY <1>1, FractionFields
<1>3. Share(c(p)) /\ Share(c(q))
  <2> HIDE DEF c
  <2> QED BY <1>1, <1>2 DEF Share, Fractions
<1>4. More(c(p), c(q)) <=> (p.den - p.num) * q.den > (q.den - q.num) * p.den
  <2> HIDE DEF c
  <2> QED BY <1>2 DEF More
<1>5. /\ (p.den - p.num) * q.den = p.den * q.den - p.num * q.den
      /\ (q.den - q.num) * p.den = p.den * q.den - q.num * p.den
      /\ p.den * q.den \in Int /\ p.num * q.den \in Int /\ q.num * p.den \in Int
  BY <1>1
<1> DEFINE u == p.den * q.den
           v == p.num * q.den
           w == q.num * p.den
<1>6. /\ More(c(p), c(q)) <=> u - v > u - w
      /\ More(q, p) <=> w > v
      /\ u \in Int /\ v \in Int /\ w \in Int
  BY <1>4, <1>5 DEF More
<1> HIDE DEF u, v, w, c
<1>7. More(c(p), c(q)) <=> More(q, p)
  BY <1>6
<1> QED BY <1>3, <1>7 DEF c

LEMMA NormalizedByPreference ==
  ASSUME NEW s \in Seq(Int), NEW i, NEW j, FirstOf(s, i), FirstOf(s, j),
         NEW factor, factor.lower \in BOOLEAN
  PROVE  LET r == Screening!NormalizeFactor(s, factor)
         IN /\ Share(r[i])
            /\ (IF factor.lower THEN s[i] <= s[j] ELSE s[i] >= s[j]) => ~More(r[j], r[i])
            /\ (IF factor.lower THEN s[i] < s[j] ELSE s[i] > s[j]) => More(r[i], r[j])
<1> DEFINE m == IF factor.method = "PERCENTILE" THEN Screening!Percentile(s) ELSE Screening!MinMax(s)
           r == Screening!NormalizeFactor(s, factor)
<1>1. i \in DOMAIN s /\ j \in DOMAIN s /\ s[i] \in Int /\ s[j] \in Int
  BY DEF FirstOf
<1>2. /\ Share(m[i]) /\ Share(m[j]) /\ DOMAIN m = DOMAIN s
      /\ s[j] <= s[i] => ~More(m[j], m[i])
      /\ s[i] <= s[j] => ~More(m[i], m[j])
      /\ s[j] < s[i] => More(m[i], m[j])
      /\ s[i] < s[j] => More(m[j], m[i])
  <2>1. CASE s[j] <= s[i]
    <3>1. /\ Share(m[i]) /\ Share(m[j]) /\ DOMAIN m = DOMAIN s
          /\ ~More(m[j], m[i])
          /\ s[j] < s[i] => More(m[i], m[j])
      <4> HIDE DEF r
      <4> QED BY <2>1, NormalizedByValue
    <3>2. s[i] <= s[j] => s[i] = s[j] /\ i = j
      BY <1>1, <2>1 DEF FirstOf
    <3> HIDE DEF m, r
    <3> QED BY <1>1, <2>1, <3>1, <3>2
  <2>2. CASE s[i] <= s[j]
    <3>1. /\ Share(m[i]) /\ Share(m[j]) /\ DOMAIN m = DOMAIN s
          /\ ~More(m[i], m[j])
          /\ s[i] < s[j] => More(m[j], m[i])
      <4> HIDE DEF r
      <4> QED BY <2>2, NormalizedByValue
    <3>2. s[j] <= s[i] => s[i] = s[j] /\ i = j
      BY <1>1, <2>2 DEF FirstOf
    <3> HIDE DEF m, r
    <3> QED BY <1>1, <2>2, <3>1, <3>2
  <2> HIDE DEF m, r
  <2> QED BY <1>1, <2>1, <2>2
<1>3. r = Screening!Directed(m, factor)
  BY Zenon DEF Screening!NormalizeFactor
<1> HIDE DEF m, r
<1>4. CASE factor.lower = TRUE
  <2>1. r = [k \in DOMAIN m |-> Screening!Ratio(m[k].den - m[k].num, m[k].den)]
    BY <1>3, <1>4, Zenon DEF Screening!Directed
  <2>2. /\ r[i] = Screening!Ratio(m[i].den - m[i].num, m[i].den)
        /\ r[j] = Screening!Ratio(m[j].den - m[j].num, m[j].den)
    BY <1>1, <1>2, <2>1
  <2>3. /\ r[i] = Ratio(m[i].den - m[i].num, m[i].den)
        /\ r[j] = Ratio(m[j].den - m[j].num, m[j].den)
    BY <2>2, Bridges, Zenon
  <2>4. Share(r[i]) /\ (More(r[i], r[j]) <=> More(m[j], m[i]))
    BY <1>2, <2>3, Complement
  <2>5. More(r[j], r[i]) <=> More(m[i], m[j])
    BY <1>2, <2>3, Complement
  <2> QED BY <1>1, <1>2, <1>4, <2>4, <2>5 DEF r
<1>5. CASE factor.lower = FALSE
  <2>1. r = m
    BY <1>3, <1>5, Zenon DEF Screening!Directed
  <2> QED BY <1>1, <1>2, <1>5, <2>1 DEF r
<1> QED BY <1>4, <1>5

\* The values of one field, and the score that goes by the first of them.

FirstPlaceOf(s, v) ==
  LET places == {p \in DOMAIN s : s[p] = v}
  IN CHOOSE p \in places : \A q \in places : p <= q

LEMMA FirstPlaceIsFirst ==
  ASSUME NEW s \in Seq(Int), NEW v, \E k \in DOMAIN s : s[k] = v
  PROVE  FirstOf(s, FirstPlaceOf(s, v)) /\ s[FirstPlaceOf(s, v)] = v
<1> DEFINE places == {p \in DOMAIN s : s[p] = v}
           first == CHOOSE p \in places : \A q \in places : p <= q
<1>1. places \in SUBSET Nat /\ places # {}
  BY DOMAIN s = 1 .. Len(s)
<1>2. \E p \in places : \A q \in places : p <= q
  <2> HIDE DEF places
  <2> QED BY <1>1, LeastElement
<1>3. first \in places /\ \A q \in places : first <= q
  <2> HIDE DEF places
  <2> QED BY <1>2, Zenon
<1> HIDE DEF first
<1>4. FirstOf(s, first) /\ s[first] = v
  BY <1>3 DEF FirstOf
<1> QED BY <1>4 DEF first, FirstPlaceOf

ScoredBy(universe, factor, s, i) ==
  LET v == universe[i][factor.field]
      score == Screening!FactorScore(universe, i, factor)
  IN IF v = None THEN score = [num |-> 0, den |-> 1]
     ELSE \E f : FirstOf(s, f) /\ s[f] = v /\ score = Screening!NormalizeFactor(s, factor)[f]

LEMMA ScoredByFirst ==
  ASSUME NEW universe, NEW n \in Nat, DOMAIN universe = 1 .. n, NEW factor,
         \A k \in 1 .. n : universe[k][factor.field] \in Int \cup {None}
  PROVE  \E s \in Seq(Int) : \A i \in 1 .. n : ScoredBy(universe, factor, s, i)
<1> DEFINE all == [k \in DOMAIN universe |-> universe[k][factor.field]]
           P == {k \in DOMAIN all : all[k] # None}
           s == Pick(all, P)
<1>1. /\ IsFiniteSet(P) /\ P \in SUBSET Int /\ \A k \in P : all[k] \in Int
  <2>1. IsFiniteSet(1 .. n) /\ P \in SUBSET (1 .. n)
    BY FS_Interval
  <2>2. IsFiniteSet(P)
    <3> HIDE DEF P
    <3> QED BY <2>1, FS_Subset
  <2> QED BY <2>1, <2>2
<1>2. \A i \in 1 .. n : all[i] = universe[i][factor.field] /\ (all[i] # None <=> i \in P)
  OBVIOUS
<1>3. Screening!Pick(all, P) = s
  <2> HIDE DEF all, P
  <2> QED BY Bridges, Zenon
<1>4. \A i : Screening!FactorScore(universe, i, factor)
              = IF all[i] = None THEN Screening!Whole(0)
                ELSE Screening!NormalizeFactor(s, factor)[FirstPlaceOf(s, all[i])]
  <2> DEFINE t == Screening!Pick(all, P)
  <2>1. \A i : Screening!FactorScore(universe, i, factor)
              = IF all[i] = None THEN Screening!Whole(0)
                ELSE Screening!NormalizeFactor(t, factor)[FirstPlaceOf(t, all[i])]
    BY Zenon DEF Screening!FactorScore, FirstPlaceOf
  <2>2. t = s
    BY <1>3
  <2> HIDE DEF t, s, all, P
  <2> QED BY <2>1, <2>2
<1>5. s \in Seq(Int) /\ \A i \in P : \E k \in DOMAIN s : s[k] = all[i]
  <2> HIDE DEF all, P
  <2>1. /\ s \in Seq(Int) /\ Len(s) = Cardinality(P)
        /\ \A k \in 1 .. Cardinality(P) : s[k] = all[InOrder(P)[k]]
    BY <1>1, PickIsSequence
  <2>2. \A i \in P : \E k \in 1 .. Cardinality(P) : InOrder(P)[k] = i
    BY <1>1, PlacesInOrder
  <2>3. DOMAIN s = 1 .. Cardinality(P)
    BY <2>1
  <2> HIDE DEF s
  <2> QED BY <2>1, <2>2, <2>3
<1>6. Screening!Whole(0) = [num |-> 0, den |-> 1]
  <2>1. Screening!Whole(0) = Whole(0)
    BY Bridges, Zenon
  <2> QED BY <2>1 DEF Whole, Ratio
<1> HIDE DEF all, P, s
<1>7. ASSUME NEW i \in P PROVE FirstOf(s, FirstPlaceOf(s, all[i])) /\ s[FirstPlaceOf(s, all[i])] = all[i]
  <2>1. \E k \in DOMAIN s : s[k] = all[i]
    BY <1>5
  <2> QED BY <1>5, <2>1, FirstPlaceIsFirst
<1>8. ASSUME NEW i \in 1 .. n PROVE ScoredBy(universe, factor, s, i)
  <2>1. CASE i \in P
    <3>1. universe[i][factor.field] = all[i] /\ all[i] # None
      BY <1>2, <2>1
    <3>2. Screening!FactorScore(universe, i, factor)
            = Screening!NormalizeFactor(s, factor)[FirstPlaceOf(s, all[i])]
      BY <1>4, <3>1
    <3> QED BY <1>7, <2>1, <3>1, <3>2, Zenon DEF ScoredBy
  <2>2. CASE i \notin P
    <3>1. universe[i][factor.field] = None /\ all[i] = None
      BY <1>2, <2>2
    <3>2. Screening!FactorScore(universe, i, factor) = [num |-> 0, den |-> 1]
      BY <1>4, <1>6, <3>1
    <3> QED BY <3>1, <3>2, Zenon DEF ScoredBy
  <2> QED BY <2>1, <2>2
<1> QED BY <1>5, <1>8, Zenon

LEMMA ScoresFollow ==
  ASSUME NEW universe, NEW n \in Nat, DOMAIN universe = 1 .. n, NEW factor,
         factor.lower \in BOOLEAN,
         \A k \in 1 .. n : universe[k][factor.field] \in Int \cup {None},
         NEW i \in 1 .. n, NEW j \in 1 .. n
  PROVE  LET p == Screening!FactorScore(universe, i, factor)
             q == Screening!FactorScore(universe, j, factor)
             a == universe[i]
             b == universe[j]
         IN /\ p \in Fractions
            /\ AsGood(a, b, factor) => ~More(q, p)
            /\ Better(a, b, factor) => More(p, q)
<1> DEFINE p == Screening!FactorScore(universe, i, factor)
           q == Screening!FactorScore(universe, j, factor)
           v == universe[i][factor.field]
           w == universe[j][factor.field]
           zero == [num |-> 0, den |-> 1]
<1>1. PICK s \in Seq(Int) : \A k \in 1 .. n : ScoredBy(universe, factor, s, k)
  BY ScoredByFirst
<1>2. v \in Int \cup {None} /\ w \in Int \cup {None}
  OBVIOUS
<1>3. /\ AsGood(universe[i], universe[j], factor)
           <=> \/ w = None
               \/ v # None /\ (IF factor.lower THEN v <= w ELSE v >= w)
      /\ AsGood(universe[j], universe[i], factor)
           <=> \/ v = None
               \/ w # None /\ (IF factor.lower THEN w <= v ELSE w >= v)
  BY DEF AsGood
<1>4. Better(universe[i], universe[j], factor)
        => w # None /\ v # None /\ ~AsGood(universe[j], universe[i], factor)
  BY DEF Better
<1>5. IF v = None THEN p = zero
      ELSE \E f : FirstOf(s, f) /\ s[f] = v /\ p = Screening!NormalizeFactor(s, factor)[f]
  BY <1>1, Zenon DEF ScoredBy
<1>6. IF w = None THEN q = zero
      ELSE \E f : FirstOf(s, f) /\ s[f] = w /\ q = Screening!NormalizeFactor(s, factor)[f]
  BY <1>1, Zenon DEF ScoredBy
<1>7. Share(zero)
  BY DEF Share, Fractions
<1> HIDE DEF p, q, v, w
<1>8. v # None => Share(p)
  <2> SUFFICES ASSUME v # None PROVE Share(p)
    OBVIOUS
  <2>1. PICK f : FirstOf(s, f) /\ s[f] = v /\ p = Screening!NormalizeFactor(s, factor)[f]
    BY <1>5
  <2> QED BY <2>1, NormalizedByPreference
<1>9. Share(p)
  BY <1>5, <1>7, <1>8
<1>10. CASE w = None
  <2>1. q = zero /\ ~More(q, p)
    <3>1. q = zero
      BY <1>6, <1>10
    <3>2. p.num \in Int /\ p.den \in Int /\ 0 <= p.num
      BY <1>9, FractionFields DEF Share
    <3> QED BY <3>1, <3>2 DEF More
  <2> QED BY <1>4, <1>9, <1>10, <2>1 DEF Share, p, q
<1>11. CASE w # None /\ v = None
  BY <1>3, <1>4, <1>9, <1>11 DEF Share, p, q
<1>12. CASE w # None /\ v # None
  <2>1. PICK f : FirstOf(s, f) /\ s[f] = v /\ p = Screening!NormalizeFactor(s, factor)[f]
    BY <1>5, <1>12
  <2>2. PICK g : FirstOf(s, g) /\ s[g] = w /\ q = Screening!NormalizeFactor(s, factor)[g]
    BY <1>6, <1>12
  <2>3. /\ (IF factor.lower THEN s[f] <= s[g] ELSE s[f] >= s[g]) => ~More(q, p)
        /\ (IF factor.lower THEN s[f] < s[g] ELSE s[f] > s[g]) => More(p, q)
    BY <2>1, <2>2, NormalizedByPreference
  <2>4. v \in Int /\ w \in Int
    BY <1>2, <1>12
  <2>5. /\ AsGood(universe[i], universe[j], factor) => ~More(q, p)
        /\ Better(universe[i], universe[j], factor) => More(p, q)
    BY <1>3, <1>4, <1>12, <2>1, <2>2, <2>3, <2>4
  <2> QED BY <1>9, <2>5 DEF Share, p, q
<1> QED BY <1>10, <1>11, <1>12

------------------------------------------------------------------------------
(* Total scores.                                                            *)

Term(universe, i, factors, k) ==
  Times(factors[k].weight, Screening!FactorScore(universe, i, factors[k]))
ScoresUpTo(universe, i, factors) ==
  CHOOSE f : f = [k \in 0 .. Len(factors) |->
                    IF k = 0 THEN Screening!Whole(0)
                    ELSE Screening!Plus(f[k - 1],
                           Screening!Times(factors[k].weight, Screening!FactorScore(universe, i, factors[k])))]

LEMMA PlusOfFractions ==
  ASSUME NEW p \in Fractions, NEW q \in Fractions PROVE Plus(p, q) \in Fractions
<1>1. ~More(p, p) /\ ~More(q, q)
  BY MoreIsTransitive
<1> QED BY <1>1, PlusKeepsOrder

LEMMA ScoresAddUp ==
  ASSUME NEW universe, NEW i, NEW factors, NEW n \in Nat, Len(factors) = n,
         \A k \in 1 .. n : Term(universe, i, factors, k) \in Fractions
  PROVE  LET f == ScoresUpTo(universe, i, factors)
         IN /\ f[0] = [num |-> 0, den |-> 1]
            /\ \A k \in 1 .. n : f[k] = Plus(f[k - 1], Term(universe, i, factors, k))
            /\ \A k \in 0 .. n : f[k] \in Fractions
            /\ Screening!TotalScore(universe, i, factors) = f[n]
<1> DEFINE T(k) == Term(universe, i, factors, k)
           zero == [num |-> 0, den |-> 1]
           step == [k \in 1 .. n |-> [x \in Fractions |-> Plus(x, T(k))]]
           f == ScoresUpTo(universe, i, factors)
<1>1. step \in [1 .. n -> [Fractions -> Fractions]]
  <2>1. \A k \in 1 .. n : \A x \in Fractions : Plus(x, T(k)) \in Fractions
    BY PlusOfFractions
  <2> HIDE DEF T
  <2> QED BY <2>1
<1>2. zero \in Fractions
  BY DEF Fractions
<1>3. PICK g \in [0 .. n -> Fractions] : Stepping(g, n, zero, step)
  <2> HIDE DEF step, zero
  <2> QED BY <1>1, <1>2, SteppingExists
<1>4. ASSUME NEW k \in 1 .. n PROVE g[k] = Plus(g[k - 1], T(k))
  <2>1. k - 1 \in 0 .. n /\ g[k - 1] \in Fractions
    OBVIOUS
  <2>2. step[k] = [x \in Fractions |-> Plus(x, T(k))] /\ g[k] = step[k][g[k - 1]]
    BY <1>3 DEF Stepping
  <2> HIDE DEF T, step
  <2> QED BY <2>1, <2>2
<1>5. g[0] = zero
  BY <1>3 DEF Stepping
<1>6. \A k : /\ T(k) = Screening!Times(factors[k].weight, Screening!FactorScore(universe, i, factors[k]))
             /\ \A x : Screening!Plus(x, T(k)) = Plus(x, T(k))
  BY Bridges, Zenon DEF Term
<1>7. Screening!Whole(0) = zero
  <2>1. Screening!Whole(0) = Whole(0)
    BY Bridges, Zenon
  <2> QED BY <2>1 DEF Whole, Ratio
<1> DEFINE Rest(h, k) == IF k = 0 THEN zero ELSE Plus(h[k - 1], T(k))
<1>8. \A h, k : (IF k = 0 THEN Screening!Whole(0)
                 ELSE Screening!Plus(h[k - 1],
                        Screening!Times(factors[k].weight, Screening!FactorScore(universe, i, factors[k]))))
                = Rest(h, k)
  <2> TAKE h, k
  <2>1. T(k) = Screening!Times(factors[k].weight, Screening!FactorScore(universe, i, factors[k]))
    BY <1>6
  <2>2. Screening!Plus(h[k - 1], T(k)) = Plus(h[k - 1], T(k))
    BY <1>6
  <2> HIDE DEF T, zero
  <2> QED BY <1>7, <2>1, <2>2, Zenon
<1>9. \A h : h = [k \in 0 .. n |-> Rest(h, k)]
             <=> h = [k \in 0 .. Len(factors) |->
                    IF k = 0 THEN Screening!Whole(0)
                    ELSE Screening!Plus(h[k - 1],
                           Screening!Times(factors[k].weight, Screening!FactorScore(universe, i, factors[k])))]
  <2> TAKE h
  <2> HIDE DEF Rest
  <2> QED BY <1>8
<1>10. g = [k \in 0 .. n |-> Rest(g, k)]
  <2>1. ASSUME NEW k \in 0 .. n PROVE g[k] = Rest(g, k)
    <3>1. CASE k = 0
      <4> HIDE DEF T, zero
      <4> QED BY <1>5, <3>1
    <3>2. CASE k # 0
      <4>1. k \in 1 .. n
        BY <3>2
      <4> HIDE DEF T, zero
      <4> QED BY <1>4, <3>2, <4>1
    <3> QED BY <3>1, <3>2
  <2> HIDE DEF Rest
  <2> QED BY <2>1
<1>11. f = [k \in 0 .. n |-> Rest(f, k)]
  <2>1. g = [k \in 0 .. Len(factors) |->
                    IF k = 0 THEN Screening!Whole(0)
                    ELSE Screening!Plus(g[k - 1],
                           Screening!Times(factors[k].weight, Screening!FactorScore(universe, i, factors[k])))]
    BY <1>9, <1>10
  <2>2. f = [k \in 0 .. Len(factors) |->
                    IF k = 0 THEN Screening!Whole(0)
                    ELSE Screening!Plus(f[k - 1],
                           Screening!Times(factors[k].weight, Screening!FactorScore(universe, i, factors[k])))]
    BY <2>1, Zenon DEF ScoresUpTo
  <2> HIDE DEF f, Rest
  <2> QED BY <2>2, <1>9
<1> HIDE DEF f
<1>12. f[0] = zero /\ \A k \in 1 .. n : f[k] = Plus(f[k - 1], T(k))
  <2> HIDE DEF T, zero
  <2>1. f[0] = Rest(f, 0)
    <3> HIDE DEF Rest
    <3> QED BY <1>11
  <2>2. ASSUME NEW k \in 1 .. n PROVE f[k] = Plus(f[k - 1], T(k))
    <3>1. f[k] = Rest(f, k) /\ k # 0
      <4>1. k \in 0 .. n /\ k # 0
        OBVIOUS
      <4> HIDE DEF Rest
      <4> QED BY <1>11, <4>1
    <3> QED BY <3>1
  <2> QED BY <2>1, <2>2
<1>13. \A k \in 0 .. n : f[k] \in Fractions
  <2> DEFINE G == {k \in 0 .. n : f[k] \in Fractions}
  <2>1. 0 \in G
    BY <1>2, <1>12
  <2>2. ASSUME NEW k \in 0 .. n - 1, k \in G PROVE k + 1 \in G
    <3>1. k + 1 \in 1 .. n /\ (k + 1) - 1 = k /\ k + 1 \in 0 .. n
      OBVIOUS
    <3>2. f[k + 1] = Plus(f[k], T(k + 1)) /\ f[k] \in Fractions /\ T(k + 1) \in Fractions
      BY <1>12, <2>2, <3>1
    <3> HIDE DEF T
    <3> QED BY <3>1, <3>2, PlusOfFractions
  <2> HIDE DEF G
  <2>3. \A k \in 0 .. n : k \in G
    BY <2>1, <2>2, UpToInduction
  <2> QED BY <2>3 DEF G
<1>14. Screening!TotalScore(universe, i, factors) = f[n]
  BY Zenon DEF Screening!TotalScore, ScoresUpTo, f
<1> QED BY <1>12, <1>13, <1>14 DEF f

LEMMA TotalsFollow ==
  ASSUME NEW universe, NEW i, NEW j, NEW factors, NEW n \in Nat, Len(factors) = n,
         \A k \in 1 .. n : /\ Term(universe, i, factors, k) \in Fractions
                           /\ Term(universe, j, factors, k) \in Fractions
                           /\ ~More(Term(universe, j, factors, k), Term(universe, i, factors, k)),
         \E k \in 1 .. n : More(Term(universe, i, factors, k), Term(universe, j, factors, k))
  PROVE  More(Screening!TotalScore(universe, i, factors), Screening!TotalScore(universe, j, factors))
<1>a. LET f == ScoresUpTo(universe, i, factors)
      IN /\ f[0] = [num |-> 0, den |-> 1]
         /\ \A k \in 1 .. n : f[k] = Plus(f[k - 1], Term(universe, i, factors, k))
         /\ \A k \in 0 .. n : f[k] \in Fractions
         /\ Screening!TotalScore(universe, i, factors) = f[n]
  BY SMTT(30), ScoresAddUp
<1>b. LET f == ScoresUpTo(universe, j, factors)
      IN /\ f[0] = [num |-> 0, den |-> 1]
         /\ \A k \in 1 .. n : f[k] = Plus(f[k - 1], Term(universe, j, factors, k))
         /\ \A k \in 0 .. n : f[k] \in Fractions
         /\ Screening!TotalScore(universe, j, factors) = f[n]
  BY SMTT(30), ScoresAddUp
<1> DEFINE f == ScoresUpTo(universe, i, factors)
           g == ScoresUpTo(universe, j, factors)
           a(k) == Term(universe, i, factors, k)
           b(k) == Term(universe, j, factors, k)
           zero == [num |-> 0, den |-> 1]
<1>1. /\ f[0] = zero
      /\ \A k \in 1 .. n : f[k] = Plus(f[k - 1], a(k))
      /\ \A k \in 0 .. n : f[k] \in Fractions
      /\ Screening!TotalScore(universe, i, factors) = f[n]
  BY <1>a, Zenon
<1>2. /\ g[0] = zero
      /\ \A k \in 1 .. n : g[k] = Plus(g[k - 1], b(k))
      /\ \A k \in 0 .. n : g[k] \in Fractions
      /\ Screening!TotalScore(universe, j, factors) = g[n]
  BY <1>b, Zenon
<1>3. PICK m \in 1 .. n : More(a(m), b(m))
  OBVIOUS
<1>4. \A k \in 1 .. n : a(k) \in Fractions /\ b(k) \in Fractions /\ ~More(b(k), a(k))
  OBVIOUS
<1> HIDE DEF f, g, a, b
<1> DEFINE G == {k \in 0 .. n : ~More(g[k], f[k]) /\ (m <= k => More(f[k], g[k]))}
<1>5. 0 \in G
  BY <1>1, <1>2, MoreIsTransitive
<1>6. ASSUME NEW k \in 0 .. n - 1, k \in G PROVE k + 1 \in G
  <2>1. k + 1 \in 1 .. n /\ (k + 1) - 1 = k /\ k + 1 \in 0 .. n /\ k \in 0 .. n
    OBVIOUS
  <2>2. f[k + 1] = Plus(f[k], a(k + 1)) /\ g[k + 1] = Plus(g[k], b(k + 1))
    BY <1>1, <1>2, <2>1
  <2>3. ~More(g[k], f[k]) /\ (m <= k => More(f[k], g[k]))
    BY <1>6
  <2>4. /\ f[k] \in Fractions /\ g[k] \in Fractions
        /\ a(k + 1) \in Fractions /\ b(k + 1) \in Fractions /\ ~More(b(k + 1), a(k + 1))
    BY <1>1, <1>2, <1>4, <2>1
  <2>5. /\ ~More(g[k + 1], f[k + 1])
        /\ More(f[k], g[k]) \/ More(a(k + 1), b(k + 1)) => More(f[k + 1], g[k + 1])
    BY <2>2, <2>3, <2>4, PlusKeepsOrder
  <2>6. m <= k + 1 => m <= k \/ m = k + 1
    OBVIOUS
  <2> QED BY <1>3, <2>1, <2>3, <2>5, <2>6
<1>7. n \in G
  <2>1. \A k \in 0 .. n : k \in G
    <3> HIDE DEF G
    <3> QED BY <1>5, <1>6, UpToInduction
  <2> QED BY <2>1
<1> QED BY <1>1, <1>2, <1>7

------------------------------------------------------------------------------
(* Ranking.                                                                 *)

TotalsOf(universe, factors) == [i \in DOMAIN universe |-> Screening!TotalScore(universe, i, factors)]
ScoredBefore(score, S) ==
  [i \in S |-> {j \in S : More(score[j], score[i]) \/ (~More(score[i], score[j]) /\ j < i)}]

LEMMA ScoresAreOrdered ==
  ASSUME NEW n \in Nat, NEW score, \A i \in 1 .. n : score[i] \in Fractions
  PROVE  IsOrderOf(ScoredBefore(score, 1 .. n), 1 .. n)
<1> DEFINE S == 1 .. n
           before == ScoredBefore(score, S)
<1>1. \A x, y \in S : y \in before[x] <=> (More(score[y], score[x]) \/ (~More(score[x], score[y]) /\ y < x))
  BY DEF ScoredBefore
<1>2. \A x \in S : before[x] \in SUBSET S
  BY DEF ScoredBefore
<1>3. \A x \in S : x \in Int /\ score[x] \in Fractions
  OBVIOUS
<1> HIDE DEF before, S
<1>4. ASSUME NEW x \in S PROVE x \notin before[x]
  <2>1. ~More(score[x], score[x]) /\ ~(x < x)
    BY <1>3, MoreIsTransitive
  <2> QED BY <1>1, <2>1
<1>5. ASSUME NEW x \in S, NEW y \in S, x # y PROVE y \in before[x] \/ x \in before[y]
  <2>1. x < y \/ y < x
    BY <1>3, <1>5
  <2> QED BY <1>1, <2>1
<1>6. ASSUME NEW x \in S, NEW y \in S, NEW z \in S, z \in before[y], y \in before[x]
      PROVE  z \in before[x]
  <2> DEFINE p == score[z]
             q == score[y]
             r == score[x]
  <2>1. p \in Fractions /\ q \in Fractions /\ r \in Fractions /\ x \in Int /\ y \in Int /\ z \in Int
    BY <1>3
  <2>2. /\ More(p, q) \/ (~More(q, p) /\ z < y)
        /\ More(q, r) \/ (~More(r, q) /\ y < x)
    BY <1>1, <1>6
  <2> HIDE DEF p, q, r
  <2>3. /\ More(p, q) => ~More(q, p)
        /\ ~More(q, p) /\ ~More(r, q) => ~More(r, p)
        /\ More(p, q) /\ ~More(r, q) => More(p, r)
        /\ ~More(q, p) /\ More(q, r) => More(p, r)
    BY <2>1, MoreIsTransitive
  <2>4. More(q, r) => ~More(r, q)
    BY <2>1, MoreIsTransitive
  <2>5. More(p, r) \/ (~More(r, p) /\ z < x)
    BY <2>1, <2>2, <2>3, <2>4
  <2> QED BY <1>1, <2>5 DEF p, r
<1> QED BY <1>2, <1>4, <1>5, <1>6 DEF IsOrderOf, before, S

LEMMA RankedByScore ==
  ASSUME NEW universe, NEW factors, NEW n \in Nat, DOMAIN universe = 1 .. n,
         \A i \in 1 .. n : Screening!TotalScore(universe, i, factors) \in Fractions
  PROVE  LET order == Screening!Rank(universe, factors)
         IN /\ DOMAIN order = 1 .. n
            /\ \A x \in 1 .. n : order[x] \in 1 .. n
            /\ \A x, y \in 1 .. n :
                 More(Screening!TotalScore(universe, order[x], factors),
                      Screening!TotalScore(universe, order[y], factors)) => x < y
<1> DEFINE S == 1 .. n
           score == TotalsOf(universe, factors)
           before == ScoredBefore(score, S)
           order == Screening!Rank(universe, factors)
<1>1. \A i \in S : score[i] = Screening!TotalScore(universe, i, factors)
  BY Zenon DEF TotalsOf
<1>2. order = Ordered(S, before)
  <2>1. \A p, q : Screening!More(p, q) <=> More(p, q)
    BY Bridges
  <2>2. DOMAIN universe = S
    OBVIOUS
  <2> DEFINE b2 == [i \in DOMAIN universe |->
           {j \in DOMAIN universe : \/ Screening!More(score[j], score[i])
                                    \/ ~Screening!More(score[i], score[j]) /\ j < i}]
  <2>3. order = Screening!Ordered(DOMAIN universe, b2)
    BY Zenon DEF Screening!Rank, TotalsOf
  <2>4. b2 = before
    <3> HIDE DEF score, S
    <3> QED BY <2>1, <2>2 DEF ScoredBefore
  <2> HIDE DEF b2, before, S, score, order
  <2>5. order = Ordered(DOMAIN universe, b2)
    BY <2>3, Bridges, Zenon
  <2> QED BY <2>2, <2>4, <2>5
<1>3. IsOrderOf(before, S)
  <2>1. \A i \in 1 .. n : score[i] \in Fractions
    BY <1>1
  <2> HIDE DEF score
  <2> QED BY <2>1, ScoresAreOrdered
<1>4. IsFiniteSet(S) /\ Cardinality(S) = n
  <2> HIDE DEF score
  <2>1. 1 \in Int /\ n \in Int
    OBVIOUS
  <2> QED BY <2>1, FS_Interval
<1>5. S = 1 .. n
  OBVIOUS
<1> HIDE DEF before, S, order, score
<1>6. order \in [1 .. n -> S]
  <2>1. Ordered(S, before) \in [1 .. Cardinality(S) -> S]
    BY <1>3, <1>4, OrderedEnumerates
  <2> QED BY <1>2, <1>4, <2>1
<1>7. ASSUME NEW x \in 1 .. n, NEW y \in 1 .. n,
             More(Screening!TotalScore(universe, order[x], factors),
                  Screening!TotalScore(universe, order[y], factors))
      PROVE  x < y
  <2>1. order[x] \in S /\ order[y] \in S
    BY <1>6
  <2>2. More(score[order[x]], score[order[y]])
    BY <1>1, <1>7, <2>1
  <2>3. order[x] \in before[order[y]]
    <3> DEFINE u == order[x]
               v == order[y]
    <3> HIDE DEF u, v
    <3>1. u \in S /\ v \in S /\ More(score[u], score[v])
      BY <2>1, <2>2 DEF u, v
    <3>2. u \in before[v]
      BY <3>1 DEF before, ScoredBefore
    <3> QED BY <3>2 DEF u, v
  <2>4. x < y <=> Ordered(S, before)[x] \in before[Ordered(S, before)[y]]
    <3>1. x \in 1 .. Cardinality(S) /\ y \in 1 .. Cardinality(S)
      BY <1>4
    <3> QED BY <1>3, <1>4, <3>1, OrderedByOrder
  <2> QED BY <1>2, <2>3, <2>4
<1>8. \A x \in 1 .. n : order[x] \in 1 .. n
  BY <1>5, <1>6
<1> QED BY <1>6, <1>7, <1>8 DEF order

LEMMA RankFollows ==
  ASSUME NEW universe \in Universes, NEW factors \in Rankings, Screening!ValidWeights(factors), universe # << >>,
         NEW x \in DOMAIN Screening!Rank(universe, factors),
         NEW y \in DOMAIN Screening!Rank(universe, factors)
  PROVE  LET order == Screening!Rank(universe, factors)
             a == universe[order[x]]
             b == universe[order[y]]
         IN /\ \A k \in DOMAIN factors : AsGood(a, b, factors[k])
            /\ \E k \in DOMAIN factors : Better(a, b, factors[k])
            => x < y
<1> DEFINE n == Len(universe)
           l == Len(factors)
           order == Screening!Rank(universe, factors)
<1>1. /\ n \in Nat /\ DOMAIN universe = 1 .. n /\ \A i \in 1 .. n : universe[i] \in Range(universe)
      /\ l \in Nat /\ DOMAIN factors = 1 .. l /\ \A k \in 1 .. l : factors[k] \in Range(factors)
  <2>1. universe \in Seq(Range(universe)) /\ factors \in Seq(Range(factors))
    BY RankingAssumption
  <2> QED BY <2>1 DEF Range
<1>2. \A k \in 1 .. l : factors[k].weight \in 0 .. 100
  <2>1. \A k \in DOMAIN factors : factors[k].weight \in 0 .. 100
    BY Zenon DEF Screening!ValidWeights
  <2> HIDE DEF l
  <2> QED BY <1>1, <2>1
<1>3. \A k \in 1 .. l : /\ factors[k].lower \in BOOLEAN
                        /\ \A i \in 1 .. n : universe[i][factors[k].field] \in Int \cup {None}
  <2>1. \A stock \in Range(universe), factor \in Range(factors) :
          factor.lower \in BOOLEAN /\ stock[factor.field] \in Int \cup {None}
    BY RankingAssumption, Zenon
  <2> HIDE DEF l, n
  <2>2. 0 \in Int
    OBVIOUS
  <2>3. \A stock \in Range(universe), k \in 1 .. l :
           factors[k].lower \in BOOLEAN /\ stock[factors[k].field] \in Int \cup {None}
    BY <1>1, <2>1, Zenon
  <2>4. \A k \in 1 .. l : \A i \in 1 .. n : universe[i][factors[k].field] \in Int \cup {None}
    BY <1>1, <2>3, Zenon
  <2>5. \A k \in 1 .. l : factors[k].lower \in BOOLEAN
    <3>1. n # 0 => 1 \in 1 .. n
      BY <1>1
    <3>2. n # 0
      BY <1>1 DEF n
    <3> QED BY <1>1, <2>3, <3>1, <3>2, Zenon
  <2> QED BY <2>4, <2>5
<1> HIDE DEF n, l, order
<1>4. ASSUME NEW i \in 1 .. n, NEW j \in 1 .. n, NEW k \in 1 .. l
      PROVE  LET p == Screening!FactorScore(universe, i, factors[k])
                 q == Screening!FactorScore(universe, j, factors[k])
             IN /\ p \in Fractions /\ q \in Fractions
                /\ AsGood(universe[i], universe[j], factors[k]) => ~More(q, p)
                /\ Better(universe[i], universe[j], factors[k]) => More(p, q)
  <2> DEFINE factor == factors[k]
  <2>1. factor.lower \in BOOLEAN /\ \A m \in 1 .. n : universe[m][factor.field] \in Int \cup {None}
    BY <1>3
  <2>2. n \in Nat /\ DOMAIN universe = 1 .. n
    BY <1>1
  <2> HIDE DEF factor
  <2>3. Screening!FactorScore(universe, j, factor) \in Fractions
    BY <2>1, <2>2, ScoresFollow
  <2>4. /\ Screening!FactorScore(universe, i, factor) \in Fractions
        /\ AsGood(universe[i], universe[j], factor)
              => ~More(Screening!FactorScore(universe, j, factor), Screening!FactorScore(universe, i, factor))
        /\ Better(universe[i], universe[j], factor)
              => More(Screening!FactorScore(universe, i, factor), Screening!FactorScore(universe, j, factor))
    BY <2>1, <2>2, ScoresFollow
  <2> QED BY <2>3, <2>4 DEF factor
<1>5. ASSUME NEW i \in 1 .. n, NEW j \in 1 .. n, NEW k \in 1 .. l
      PROVE  LET p == Term(universe, i, factors, k)
                 q == Term(universe, j, factors, k)
             IN /\ p \in Fractions /\ q \in Fractions
                /\ AsGood(universe[i], universe[j], factors[k]) => ~More(q, p)
                /\ Better(universe[i], universe[j], factors[k]) => More(p, q)
  <2> DEFINE p == Screening!FactorScore(universe, i, factors[k])
             q == Screening!FactorScore(universe, j, factors[k])
             w == factors[k].weight
             asGood == AsGood(universe[i], universe[j], factors[k])
             better == Better(universe[i], universe[j], factors[k])
  <2>1. /\ p \in Fractions /\ q \in Fractions
        /\ asGood => ~More(q, p)
        /\ better => More(p, q)
    BY <1>4
  <2>2. w \in Nat /\ (better => w > 0)
    <3>1. w \in 0 .. 100
      BY <1>2
    <3>2. better => w > 0
      BY Zenon DEF Better
    <3> HIDE DEF w, better
    <3> QED BY <3>1, <3>2
  <2>3. Term(universe, i, factors, k) = Times(w, p) /\ Term(universe, j, factors, k) = Times(w, q)
    BY Zenon DEF Term
  <2> HIDE DEF p, q, w, asGood, better
  <2>4. ~More(p, p) /\ ~More(q, q) /\ (More(p, q) => ~More(q, p))
    BY <2>1, MoreIsTransitive
  <2>5. Times(w, p) \in Fractions /\ Times(w, q) \in Fractions
    BY <2>1, <2>2, <2>4, TimesKeepsOrder
  <2>6. ASSUME ~More(q, p) PROVE ~More(Times(w, q), Times(w, p)) /\ (w > 0 /\ More(p, q) => More(Times(w, p), Times(w, q)))
    BY <2>1, <2>2, <2>6, TimesKeepsOrder
  <2> QED BY <2>1, <2>2, <2>3, <2>4, <2>5, <2>6 DEF asGood, better
<1>6. ASSUME NEW i \in 1 .. n PROVE Screening!TotalScore(universe, i, factors) \in Fractions
  <2>1. \A k \in 1 .. l : Term(universe, i, factors, k) \in Fractions
    BY <1>5
  <2>2. l \in 0 .. l /\ l \in Nat /\ Len(factors) = l
    BY <1>1 DEF l
  <2> DEFINE f == ScoresUpTo(universe, i, factors)
  <2>3. /\ \A k \in 0 .. l : f[k] \in Fractions
        /\ Screening!TotalScore(universe, i, factors) = f[l]
    BY <2>1, <2>2, ScoresAddUp
  <2> HIDE DEF f
  <2> QED BY <2>2, <2>3
<1>7. /\ DOMAIN order = 1 .. n
      /\ \A z \in 1 .. n : order[z] \in 1 .. n
      /\ \A z, t \in 1 .. n :
           More(Screening!TotalScore(universe, order[z], factors),
                Screening!TotalScore(universe, order[t], factors)) => z < t
  BY <1>1, <1>6, RankedByScore DEF order
<1>8. x \in 1 .. n /\ y \in 1 .. n
  BY <1>7 DEF order
<1> DEFINE i == order[x]
           j == order[y]
<1>9. i \in 1 .. n /\ j \in 1 .. n
  BY <1>7, <1>8
<1> HIDE DEF i, j
<1>10. ASSUME \A k \in 1 .. l : AsGood(universe[i], universe[j], factors[k]),
              \E k \in 1 .. l : Better(universe[i], universe[j], factors[k])
       PROVE  x < y
  <2>1. \A k \in 1 .. l : /\ Term(universe, i, factors, k) \in Fractions
                          /\ Term(universe, j, factors, k) \in Fractions
                          /\ ~More(Term(universe, j, factors, k), Term(universe, i, factors, k))
    BY <1>5, <1>9, <1>10
  <2>2. \E k \in 1 .. l : More(Term(universe, i, factors, k), Term(universe, j, factors, k))
    BY <1>5, <1>9, <1>10
  <2>3. Len(factors) = l
    BY DEF l
  <2>4. More(Screening!TotalScore(universe, i, factors), Screening!TotalScore(universe, j, factors))
    BY <1>1, <2>1, <2>2, <2>3, TotalsFollow
  <2> QED BY <1>7, <1>8, <2>4 DEF i, j
<1> QED BY <1>1, <1>10 DEF i, j, order

------------------------------------------------------------------------------
(* What a question was answered from.                                       *)

OptimizerAnswer(r, c, w) ==
  IF w = None THEN None
  ELSE [weights |-> w, evaluation |-> Optimization!Evaluate(r, w),
        trades |-> IF r.current = None THEN None
                   ELSE Optimization!Rebalance(r, w, c.tolerance)]

RankingAnswered ==
  \E universe \in Universes, factors \in Rankings :
     /\ Screening!ValidWeights(factors)
     /\ universe # <<>>
     /\ question.asked = [universe |-> universe, factors |-> factors]
     /\ answer.order = Screening!Rank(universe, factors)
OptimizationAnswered ==
  \E r \in Portfolios, c \in OptimizerConfigs : \E w \in Optimization!Optimize(r, c) :
     question.asked = [request |-> r, config |-> c] /\ answer = OptimizerAnswer(r, c, w)
ResearchAnswered == question.asked \in Queries /\ answer = Factors!Analyze(question.asked)

AnswerInv ==
  /\ Asked("ranking") => RankingAnswered
  /\ Asked("optimization") => OptimizationAnswered
  /\ Asked("factors") => ResearchAnswered

LEMMA AnswersAreKept ==
  ASSUME AnswerInv, question' = question, answer' = answer
  PROVE  AnswerInv'
<1>1. RankingAnswered => RankingAnswered'
  BY DEF RankingAnswered
<1>2. OptimizationAnswered => OptimizationAnswered'
  BY DEF OptimizationAnswered
<1>3. ResearchAnswered => ResearchAnswered'
  BY DEF ResearchAnswered
<1> QED BY <1>1, <1>2, <1>3 DEF AnswerInv, Asked, Idle

\* A question about something else.
LEMMA OtherAnswers ==
  ASSUME NEW about, about \notin {"ranking", "optimization", "factors"},
         question'.about = about
  PROVE  AnswerInv'
  BY DEF AnswerInv, Asked, Idle

LEMMA AnswersInductive == AnswerInv /\ [Next]_vars => AnswerInv'
<1> SUFFICES ASSUME AnswerInv, [Next]_vars PROVE AnswerInv'
  OBVIOUS
<1>1. CASE Research
  <2>1. PICK q \in Queries : Answer("factors", q, Factors!Analyze(q))
    BY <1>1 DEF Research
  <2>2. question'.about = "factors" /\ question'.asked = q /\ answer' = Factors!Analyze(q)
    BY <2>1 DEF Answer
  <2> QED BY <2>2 DEF AnswerInv, Asked, ResearchAnswered
<1>2. CASE OptimizePortfolio
  <2>1. PICK r \in Portfolios, c \in OptimizerConfigs : \E w \in Optimization!Optimize(r, c) :
          Answer("optimization", [request |-> r, config |-> c], OptimizerAnswer(r, c, w))
    BY <1>2, Zenon DEF OptimizePortfolio, OptimizerAnswer
  <2>2. PICK w \in Optimization!Optimize(r, c) :
          Answer("optimization", [request |-> r, config |-> c], OptimizerAnswer(r, c, w))
    BY <2>1
  <2>3. /\ question'.about = "optimization" /\ question'.asked = [request |-> r, config |-> c]
        /\ answer' = OptimizerAnswer(r, c, w)
    BY <2>2 DEF Answer
  <2> QED BY <2>3 DEF AnswerInv, Asked, OptimizationAnswered
<1>3. CASE RankUniverse
  <2>1. PICK universe \in Universes, factors \in Rankings :
          /\ Screening!ValidWeights(factors)
          /\ universe # <<>>
          /\ \E stats : Answer("ranking", [universe |-> universe, factors |-> factors],
                               [order |-> Screening!Rank(universe, factors), statistics |-> stats])
    BY <1>3, Zenon DEF RankUniverse
  <2>2. /\ question'.about = "ranking" /\ question'.asked = [universe |-> universe, factors |-> factors]
        /\ answer'.order = Screening!Rank(universe, factors)
    BY <2>1 DEF Answer
  <2> QED BY <2>1, <2>2 DEF AnswerInv, Asked, RankingAnswered
<1>4. CASE Allocate \/ BuildFrontier \/ BuildConstraints \/ SizePortfolio \/ RebudgetPortfolio
           \/ ScreenUniverse \/ ApplyRules \/ ScoreFacts
  <2>1. \E about \in {"allocation", "frontier", "constraints", "sizing", "rebudgeting", "screen", "rules", "facts"} :
          \E asked, result : Answer(about, asked, result)
    <3>1. Allocate => \E asked, result : Answer("allocation", asked, result)
      BY Zenon DEF Allocate
    <3>2. BuildFrontier => \E asked, result : Answer("frontier", asked, result)
      BY Zenon DEF BuildFrontier
    <3>3. BuildConstraints => \E asked, result : Answer("constraints", asked, result)
      BY Zenon DEF BuildConstraints
    <3>4. SizePortfolio => \E asked, result : Answer("sizing", asked, result)
      BY Zenon DEF SizePortfolio
    <3>5. RebudgetPortfolio => \E asked, result : Answer("rebudgeting", asked, result)
      BY Zenon DEF RebudgetPortfolio
    <3>6. ScreenUniverse => \E asked, result : Answer("screen", asked, result)
      BY Zenon DEF ScreenUniverse
    <3>7. ApplyRules => \E asked, result : Answer("rules", asked, result)
      BY Zenon DEF ApplyRules
    <3>8. ScoreFacts => \E asked, result : Answer("facts", asked, result)
      BY Zenon DEF ScoreFacts
    <3> QED BY <1>4, <3>1, <3>2, <3>3, <3>4, <3>5, <3>6, <3>7, <3>8
  <2>2. PICK about \in {"allocation", "frontier", "constraints", "sizing", "rebudgeting", "screen", "rules", "facts"} :
          question'.about = about
    BY <2>1 DEF Answer
  <2> QED BY <2>2, OtherAnswers
<1>5. CASE question' = question /\ answer' = answer
  BY <1>5, AnswersAreKept
<1> QED
  <2>1. CASE StoreReferenceData \/ CompareModels \/ UNCHANGED vars
    <3>1. StoreReferenceData => question' = question /\ answer' = answer
      BY DEF StoreReferenceData
    <3>2. CompareModels => question' = question /\ answer' = answer
      BY DEF CompareModels
    <3>3. UNCHANGED vars => question' = question /\ answer' = answer
      BY DEF vars
    <3> QED BY <2>1, <1>5, <3>1, <3>2, <3>3
  <2>2. CASE Ask
    BY <2>2, <1>1, <1>2, <1>3, <1>4, Zenon DEF Ask
  <2> QED BY <2>1, <2>2 DEF Next

LEMMA AnswersInvariant == Spec => []AnswerInv
<1>1. Init => AnswerInv
  BY DEF Init, AnswerInv, Asked, Idle
<1> QED BY <1>1, AnswersInductive, PTL DEF Spec

\* A stock that is at least as good as another in every factor of a ranking and
\* better in one that counts is ranked before it (RankingEngine.rank), for any
\* universe and any accepted weights: whatever the spread of a factor's values is,
\* each normalisation keeps their order, and the weighted sum keeps it too.
THEOREM RankingIsByDominance == Spec => []RankingFollowsDominance
<1>1. AnswerInv => RankingFollowsDominance
  <2> SUFFICES ASSUME AnswerInv, Asked("ranking"),
                      NEW x \in DOMAIN answer.order, NEW y \in DOMAIN answer.order
               PROVE  LET a == question.asked.universe[answer.order[x]]
                          b == question.asked.universe[answer.order[y]]
                          factors == question.asked.factors
                      IN /\ \A k \in DOMAIN factors : AsGood(a, b, factors[k])
                         /\ \E k \in DOMAIN factors : Better(a, b, factors[k])
                         => x < y
    BY DEF RankingFollowsDominance
  <2>1. PICK universe \in Universes, factors \in Rankings :
          /\ Screening!ValidWeights(factors)
          /\ universe # <<>>
          /\ question.asked = [universe |-> universe, factors |-> factors]
          /\ answer.order = Screening!Rank(universe, factors)
    BY DEF AnswerInv, RankingAnswered
  <2>2. question.asked.universe = universe /\ question.asked.factors = factors
    BY <2>1
  <2>3. x \in DOMAIN Screening!Rank(universe, factors) /\ y \in DOMAIN Screening!Rank(universe, factors)
    BY <2>1
  <2>4. LET a == universe[answer.order[x]]
            b == universe[answer.order[y]]
        IN /\ \A k \in DOMAIN factors : AsGood(a, b, factors[k])
           /\ \E k \in DOMAIN factors : Better(a, b, factors[k])
           => x < y
    BY <2>1, <2>3, RankFollows
  <2> QED BY <2>2, <2>4
<1> QED BY <1>1, AnswersInvariant, PTL

------------------------------------------------------------------------------
(* Optimized weights.                                                       *)

LEMMA OptimizationBridges ==
  /\ \A s : Optimization!Total(s) = Total(s)
  /\ \A b, n : Optimization!Power(b, n) = Power(b, n)
  /\ \A x, lo, hi : Optimization!Clamp(x, lo, hi) = Clamp(x, lo, hi)
  /\ \A x, y : Optimization!Larger(x, y) = Larger(x, y) /\ Optimization!Smaller(x, y) = Smaller(x, y)
<1>1. \A s : Optimization!Total(s) = Total(s)
  BY Zenon DEF Total, Optimization!Total
<1>2. \A b, n : Optimization!Power(b, n) = Power(b, n)
  BY Zenon DEF Power, Optimization!Power
<1>3. \A x, lo, hi : Optimization!Clamp(x, lo, hi) = Clamp(x, lo, hi)
  BY Zenon DEF Clamp, Optimization!Clamp
<1>4. \A x, y : Optimization!Larger(x, y) = Larger(x, y) /\ Optimization!Smaller(x, y) = Smaller(x, y)
  BY Zenon DEF Larger, Smaller, Optimization!Larger, Optimization!Smaller
<1> QED BY <1>1, <1>2, <1>3, <1>4

\* The powers up to the n-th, as Power computes them.
PowersOf(b, n) == CHOOSE f : f = [i \in 0 .. n |-> IF i = 0 THEN 1 ELSE f[i - 1] * b]

LEMMA PowersAreSteps ==
  ASSUME NEW b \in Int, NEW n \in Nat
  PROVE  /\ \A i \in 0 .. n : PowersOf(b, n)[i] \in Int
         /\ PowersOf(b, n)[0] = 1
         /\ \A i \in 1 .. n : PowersOf(b, n)[i] = PowersOf(b, n)[i - 1] * b
         /\ Power(b, n) = PowersOf(b, n)[n]
<1> DEFINE step == [i \in 1 .. n |-> [x \in Int |-> x * b]]
           p == PowersOf(b, n)
<1>1. step \in [1 .. n -> [Int -> Int]]
  OBVIOUS
<1>2. PICK f \in [0 .. n -> Int] : Stepping(f, n, 1, step)
  <2>1. 1 \in Int
    OBVIOUS
  <2> HIDE DEF step
  <2> QED BY <1>1, <2>1, SteppingExists
<1>3. ASSUME NEW i \in 1 .. n PROVE f[i] = f[i - 1] * b
  <2>1. i - 1 \in 0 .. n /\ f[i - 1] \in Int
    OBVIOUS
  <2> QED BY <1>2, <2>1 DEF Stepping
<1>4. f = [i \in 0 .. n |-> IF i = 0 THEN 1 ELSE f[i - 1] * b]
  BY <1>2, <1>3 DEF Stepping
<1>5. p = [i \in 0 .. n |-> IF i = 0 THEN 1 ELSE p[i - 1] * b]
  BY <1>4, Zenon DEF PowersOf
<1>6. Power(b, n) = p[n]
  BY Zenon DEF Power, PowersOf
<1> HIDE DEF p
<1>7. p[0] = 1 /\ \A i \in 1 .. n : p[i] = p[i - 1] * b
  <2>1. 0 \in 0 .. n /\ \A i \in 1 .. n : i \in 0 .. n /\ i # 0
    OBVIOUS
  <2> QED BY <1>5, <2>1
<1>8. \A i \in 0 .. n : p[i] \in Int
  <2> DEFINE G == {i \in 0 .. n : p[i] \in Int}
  <2>1. 0 \in G
    BY <1>7
  <2>2. ASSUME NEW i \in 0 .. n - 1, i \in G PROVE i + 1 \in G
    <3>1. i + 1 \in 1 .. n /\ (i + 1) - 1 = i /\ i + 1 \in 0 .. n
      OBVIOUS
    <3>2. p[i + 1] = p[i] * b /\ p[i] \in Int
      BY <1>7, <2>2, <3>1
    <3> QED BY <3>1, <3>2
  <2> HIDE DEF G
  <2>3. \A i \in 0 .. n : i \in G
    BY <2>1, <2>2, UpToInduction
  <2> QED BY <2>3 DEF G
<1> QED BY <1>6, <1>7, <1>8 DEF p

LEMMA PowerType == ASSUME NEW b \in Int, NEW n \in Nat PROVE Power(b, n) \in Int
<1>1. n \in 0 .. n
  OBVIOUS
<1> QED BY <1>1, PowersAreSteps

LEMMA GreedyType ==
  ASSUME NEW n \in Nat, NEW i \in 1 .. n
  PROVE  (IF i = 1 THEN Power(20, n - 1) ELSE Power(20, n - i) * Power(21, i - 2)) \in Int
<1>1. CASE i = 1
  <2>1. n - 1 \in Nat /\ 20 \in Int
    BY <1>1
  <2> QED BY <1>1, <2>1, PowerType
<1>2. CASE i # 1
  <2>1. n - i \in Nat /\ i - 2 \in Nat /\ 20 \in Int /\ 21 \in Int
    BY <1>2
  <2>2. Power(20, n - i) \in Int /\ Power(21, i - 2) \in Int
    BY <2>1, PowerType
  <2> QED BY <1>2, <2>2
<1> QED BY <1>1, <1>2

LEMMA SolvedWeights ==
  ASSUME NEW r \in Portfolios, NEW c \in OptimizerConfigs, NEW solver \in Optimization!Solvers,
         NEW w \in Optimization!Solve(solver, r, c)
  PROVE  w \in [1 .. Len(r.mu) -> Int]
<1> DEFINE n == Len(r.mu)
<1>1. n \in Nat /\ DOMAIN r.mu = 1 .. n
  <2>1. r.mu \in Seq(Int)
    BY OptimizerAssumption
  <2> QED BY <2>1
<1>2. c.min \in Int /\ c.max \in Int
  BY OptimizerAssumption
<1>3. Optimization!Size(r) = n /\ Optimization!Assets(r) = 1 .. n
  BY <1>1 DEF Optimization!Size, Optimization!Assets
<1> HIDE DEF n
<1>4. Optimization!Equal(n) \in [1 .. n -> Int]
  BY DEF Optimization!Equal
<1>5. \A v \in Optimization!Particles(n) : v \in [1 .. n -> Int]
  <2>1. \A v \in Optimization!Particles(n) : v \in [1 .. n -> {k \in 0 .. 100 : k % Step = 0}]
    BY Zenon DEF Optimization!Particles
  <2>2. {k \in 0 .. 100 : k % Step = 0} \subseteq Int
    OBVIOUS
  <2> QED BY <2>1, <2>2
<1>6. ASSUME w \in Optimization!QuadraticOptimization(r, c) PROVE w \in [1 .. n -> Int]
  <2>1. \/ w = Optimization!Equal(n)
        \/ w \in Optimization!Particles(n)
    BY <1>3, <1>6 DEF Optimization!QuadraticOptimization
  <2> QED BY <1>4, <1>5, <2>1
<1>7. ASSUME w \in Optimization!GreedyOptimization(r, c) PROVE w \in [1 .. n -> Int]
  <2> DEFINE part(i) == IF i = 1 THEN Power(20, n - 1) ELSE Power(20, n - i) * Power(21, i - 2)
             greedy == [i \in 1 .. n |-> part(i)]
  <2>1. \A i \in 1 .. n : part(i) \in Int
    BY <1>1, GreedyType
  <2>2. w = Optimization!Equal(n)
        \/ w = [i \in 1 .. n |-> IF i = 1 THEN Optimization!Power(20, n - 1)
                                ELSE Optimization!Power(20, n - i) * Optimization!Power(21, i - 2)]
    BY <1>3, <1>7 DEF Optimization!GreedyOptimization
  <2>3. \A i : part(i) = IF i = 1 THEN Optimization!Power(20, n - 1)
                         ELSE Optimization!Power(20, n - i) * Optimization!Power(21, i - 2)
    BY OptimizationBridges
  <2> HIDE DEF part
  <2>4. w = Optimization!Equal(n) \/ w = greedy
    BY <2>2, <2>3
  <2> QED BY <1>4, <2>1, <2>4
<1>8. ASSUME w \in Optimization!CoordinateDescent(r, c) PROVE w \in [1 .. n -> Int]
  BY <1>3, <1>8 DEF Optimization!CoordinateDescent
<1>9. ASSUME NEW v \in Optimization!Particles(n) PROVE Optimization!Clipped(c, v) \in [1 .. n -> Int]
  <2>1. v \in [1 .. n -> Int] /\ DOMAIN v = 1 .. n
    BY <1>5
  <2> QED BY <1>2, <2>1 DEF Optimization!Clipped, Optimization!Clamp
<1>10. ASSUME NEW v \in [1 .. n -> Int] PROVE Optimization!Nudged(c, v) \in [1 .. n -> Int]
  <2> DEFINE sum == Total(v)
             first == Larger(c.min * sum, Smaller(c.max * sum, 100 * v[1] + sum) - 2 * sum)
  <2>1. sum \in Int
    <3>1. Len(v) = n /\ \A i \in 1 .. n : v[i] \in Int
      BY <1>1
    <3> QED BY <1>1, <3>1, TotalIsSum
  <2>2. Optimization!Nudged(c, v) = [i \in DOMAIN v |-> IF i = 1 THEN first ELSE 100 * v[i]]
    <3>1. Optimization!Total(v) = sum
      BY OptimizationBridges
    <3>2. Optimization!Nudged(c, v) = [i \in DOMAIN v |-> IF i = 1
             THEN Optimization!Larger(c.min * Optimization!Total(v),
                    Optimization!Smaller(c.max * Optimization!Total(v), 100 * v[1] + Optimization!Total(v))
                      - 2 * Optimization!Total(v))
             ELSE 100 * v[i]]
      BY DEF Optimization!Nudged
    <3> HIDE DEF sum
    <3> QED BY <3>1, <3>2, OptimizationBridges
  <2> HIDE DEF sum
  <2>3. 1 \in 1 .. n => first \in Int
    <3> SUFFICES ASSUME 1 \in 1 .. n PROVE first \in Int
      OBVIOUS
    <3>1. v[1] \in Int /\ c.min * sum \in Int /\ c.max * sum \in Int
      BY <1>2, <2>1
    <3> QED BY <2>1, <3>1 DEF Larger, Smaller
  <2> HIDE DEF first
  <2> QED BY <2>2, <2>3
<1>11. ASSUME w \in Optimization!HeuristicOptimization(r, c) PROVE w \in [1 .. n -> Int]
  <2>1. PICK v \in Optimization!Particles(n) :
          w = IF c.iterations < 20 THEN Optimization!Clipped(c, v)
              ELSE Optimization!Nudged(c, Optimization!Clipped(c, v))
    BY <1>3, <1>11 DEF Optimization!HeuristicOptimization
  <2> QED BY <1>9, <1>10, <2>1
<1>12. \/ w \in Optimization!QuadraticOptimization(r, c)
       \/ w \in Optimization!GreedyOptimization(r, c)
       \/ w \in Optimization!CoordinateDescent(r, c)
       \/ w \in Optimization!HeuristicOptimization(r, c)
  BY DEF Optimization!Solve, Optimization!Solvers, Optimization!GradientBasedOptimization
<1> QED BY <1>6, <1>7, <1>8, <1>11, <1>12 DEF n

\* The trades lead to the weights, up to what is not worth a trade and rounding.
LEMMA TradesReach ==
  ASSUME NEW cur \in Int, NEW x \in Int, NEW t \in Int, t > 0, NEW tolerance \in Nat,
         NEW change, change = (10000 * x) \div t - 100 * cur,
         NEW moved, \/ moved = change
                    \/ moved = 0 /\ change <= tolerance /\ -tolerance <= change
  PROVE  Abs((100 * cur + moved) * t - 10000 * x) <= (tolerance + 1) * t
<1> DEFINE q == (10000 * x) \div t
           a == 10000 * x
           qt == q * t
<1>1. a \in Int /\ q \in Int
  OBVIOUS
<1>2. qt \in Int /\ qt <= a /\ a < qt + t
  <2> HIDE DEF a
  <2>1. a \div t \in Int /\ (a \div t) * t <= a /\ a < (a \div t) * t + t
    BY <1>1
  <2> QED BY <2>1 DEF a
<1> HIDE DEF q
<1>3. change = q - 100 * cur /\ change \in Int /\ moved \in Int
  BY <1>1 DEF q
<1>4. CASE moved = change
  <2>1. 100 * cur + moved = q
    BY <1>1, <1>3, <1>4
  <2>2. (tolerance + 1) * t = tolerance * t + t /\ tolerance * t \in Int /\ tolerance * t >= 0
    BY <1>3
  <2> HIDE DEF a
  <2>3. (100 * cur + moved) * t - a = qt - a
    BY <2>1
  <2> DEFINE tt == tolerance * t
  <2> HIDE DEF qt, tt
  <2>4. Abs(qt - a) <= tt + t
    BY <1>1, <1>2, <2>2 DEF Abs, tt
  <2> QED BY <2>2, <2>3, <2>4 DEF a, tt
<1>5. CASE moved = 0 /\ change <= tolerance /\ -tolerance <= change
  <2> DEFINE ct == change * t
             tt == tolerance * t
  <2>1. 100 * cur + moved = q - change
    BY <1>1, <1>3, <1>5
  <2>2. (q - change) * t = qt - ct /\ ct \in Int
    BY <1>1, <1>3
  <2>3. (tolerance + 1) * t = tt + t /\ tt \in Int /\ tt >= 0
    BY <1>3
  <2>4. ct <= tt
    BY <1>3, <1>5, Scaled
  <2>5. -tt <= ct
    <3>1. (-tolerance) * t <= change * t
      BY <1>3, <1>5, Scaled
    <3>2. (-tolerance) * t = -(tolerance * t)
      OBVIOUS
    <3> QED BY <3>1, <3>2
  <2> HIDE DEF a
  <2>6. (100 * cur + moved) * t - a = qt - ct - a
    BY <2>1, <2>2
  <2> HIDE DEF qt, tt, ct
  <2>7. Abs(qt - ct - a) <= tt + t
    BY <1>1, <1>2, <2>2, <2>3, <2>4, <2>5 DEF Abs
  <2> DEFINE d == (100 * cur + moved) * t - a
             e == qt - ct - a
  <2>8. d = e /\ Abs(e) <= tt + t
    BY <2>6, <2>7
  <2> HIDE DEF d, e
  <2>9. Abs(d) <= (tolerance + 1) * t
    BY <2>3, <2>8
  <2> QED BY <2>9 DEF a, d
<1> QED BY <1>4, <1>5

LEMMA OptimumIsReached ==
  ASSUME NEW r \in Portfolios, NEW c \in OptimizerConfigs, NEW w \in Optimization!Optimize(r, c), w # None
  PROVE  LET n == Len(r.mu)
             trades == Optimization!Rebalance(r, w, c.tolerance)
             moved(i) == (IF i \in DOMAIN trades.buys THEN trades.buys[i] ELSE 0)
                         - (IF i \in DOMAIN trades.sells THEN trades.sells[i] ELSE 0)
         IN /\ DOMAIN w = 1 .. n
            /\ Total(w) > 0 /\ Lowest(w) >= 0
            /\ Optimization!Evaluate(r, w).status = "OPTIMAL"
            /\ r.current # None =>
                 \A i \in 1 .. n : Abs((100 * r.current[i] + moved(i)) * Total(w) - 10000 * w[i])
                                      <= (c.tolerance + 1) * Total(w)
<1> DEFINE n == Len(r.mu)
           t == Total(w)
           trades == Optimization!Rebalance(r, w, c.tolerance)
           moved(i) == (IF i \in DOMAIN trades.buys THEN trades.buys[i] ELSE 0)
                         - (IF i \in DOMAIN trades.sells THEN trades.sells[i] ELSE 0)
<1>1. /\ Optimization!ValidRequest(r)
      /\ \E k \in DOMAIN c.solvers : w \in Optimization!Accepted(c.solvers[k], r, c)
  <2> DEFINE asked(k) == \A j \in 1 .. (k - 1) : Optimization!MayFail(c.solvers[j], r, c)
             answers(k) == Optimization!Accepted(c.solvers[k], r, c)
  <2>1. w \in IF ~Optimization!ValidRequest(r) THEN {None}
              ELSE (UNION {answers(k) : k \in {j \in DOMAIN c.solvers : asked(j)}})
                     \union (IF asked(Len(c.solvers) + 1) THEN {None} ELSE {})
    BY DEF Optimization!Optimize
  <2> DEFINE K == {j \in DOMAIN c.solvers : asked(j)}
             L == IF asked(Len(c.solvers) + 1) THEN {None} ELSE {}
  <2>2. K \subseteq DOMAIN c.solvers
    OBVIOUS
  <2>3. L \subseteq {None}
    OBVIOUS
  <2> DEFINE U == UNION {answers(k) : k \in K}
  <2> HIDE DEF asked, K, L, answers
  <2>4. U = UNION {answers(k) : k \in K}
    OBVIOUS
  <2> HIDE DEF U
  <2>5. w \in IF ~Optimization!ValidRequest(r) THEN {None} ELSE U \union L
    BY <2>1 DEF U, K, L
  <2>6. Optimization!ValidRequest(r) /\ w \in U
    BY <2>3, <2>5
  <2>7. PICK k \in K : w \in answers(k)
    BY <2>4, <2>6
  <2> QED BY <2>2, <2>6, <2>7 DEF answers
<1>2. PICK k \in DOMAIN c.solvers : w \in Optimization!Accepted(c.solvers[k], r, c)
  BY <1>1
<1>3. c.solvers[k] \in Optimization!Solvers
  <2>1. c.solvers \in Seq(Optimization!Solvers)
    BY OptimizerAssumption
  <2> QED BY <2>1
<1>4. w \in Optimization!Solve(c.solvers[k], r, c) /\ Optimization!ValidWeights(r, w)
  BY <1>2 DEF Optimization!Accepted
<1>5. w \in [1 .. n -> Int]
  BY <1>3, <1>4, SolvedWeights
<1>6. n \in Nat /\ DOMAIN r.mu = 1 .. n /\ n >= 2
  <2>1. r.mu \in Seq(Int)
    BY OptimizerAssumption
  <2>2. n >= 2
    BY <1>1 DEF Optimization!ValidRequest, Optimization!HasValue, Optimization!Size
  <2> QED BY <2>1, <2>2
<1> HIDE DEF n
<1>7. t \in Int
  <2>1. Len(w) = n /\ \A i \in 1 .. n : w[i] \in Int
    BY <1>5, <1>6
  <2> QED BY <1>6, <2>1, TotalIsSum
<1>8. t > 0 /\ \A i \in 1 .. n : 0 * t <= 100 * w[i]
  <2>1. Optimization!Total(w) = t
    BY OptimizationBridges
  <2>2. Optimization!Total(w) > 0 /\ \A i \in DOMAIN w : 0 * Optimization!Total(w) <= 100 * w[i]
    BY <1>4, Zenon DEF Optimization!ValidWeights, Optimization!Between
  <2> HIDE DEF t
  <2> QED BY <1>5, <2>1, <2>2
<1>9. Lowest(w) >= 0
  <2>1. PICK l \in 1 .. n : Lowest(w) = w[l]
    <3>1. n \in Nat \ {0} /\ DOMAIN w = 1 .. n /\ \A i \in 1 .. n : w[i] \in Int
      BY <1>5, <1>6
    <3> QED BY <3>1, LowestIsReached
  <2>2. 0 * t <= 100 * w[l] /\ w[l] \in Int /\ 0 * t = 0
    BY <1>5, <1>7, <1>8
  <2> QED BY <2>1, <2>2
<1>10. Optimization!Evaluate(r, w).status = "OPTIMAL"
  BY <1>4 DEF Optimization!Evaluate
<1>11. ASSUME r.current # None, NEW i \in 1 .. n
       PROVE  Abs((100 * r.current[i] + moved(i)) * t - 10000 * w[i]) <= (c.tolerance + 1) * t
  <2>1. r.current[i] \in Int
    <3>1. r.current \in Seq(Int)
      BY <1>11, OptimizerAssumption
    <3>2. Len(r.current) = n
      BY <1>1, <1>11 DEF Optimization!ValidRequest, Optimization!Size, n
    <3> QED BY <1>6, <3>1, <3>2
  <2>2. c.tolerance \in Nat
    BY OptimizerAssumption
  <2> DEFINE change(j) == (10000 * w[j]) \div t - 100 * r.current[j]
  <2>3. \A j : Optimization!WeightChange(r, w, j) = change(j)
    <3>1. Optimization!Total(w) = t
      BY OptimizationBridges
    <3>2. \A j : Optimization!WeightChange(r, w, j)
                   = (10000 * w[j]) \div Optimization!Total(w) - 100 * r.current[j]
      BY DEF Optimization!WeightChange
    <3> HIDE DEF t
    <3> QED BY <3>1, <3>2
  <2>4. Optimization!Assets(r) = 1 .. n
    BY <1>6 DEF Optimization!Assets
  <2> DEFINE B == {j \in 1 .. n : change(j) > c.tolerance}
             S == {j \in 1 .. n : change(j) < -c.tolerance}
  <2>5. /\ trades.buys = [j \in B |-> change(j)]
        /\ trades.sells = [j \in S |-> -change(j)]
    <3>1. /\ trades.buys = [j \in {h \in Optimization!Assets(r) :
                               Optimization!WeightChange(r, w, h) > c.tolerance}
                               |-> Optimization!WeightChange(r, w, j)]
          /\ trades.sells = [j \in {h \in Optimization!Assets(r) :
                               Optimization!WeightChange(r, w, h) < -c.tolerance}
                               |-> -Optimization!WeightChange(r, w, j)]
      BY DEF Optimization!Rebalance
    <3> HIDE DEF change, trades
    <3> QED BY <2>3, <2>4, <3>1
  <2>6. change(i) \in Int
    <3>1. (10000 * w[i]) \in Int
      BY <1>5
    <3> DEFINE a == 10000 * w[i]
    <3> HIDE DEF a, t
    <3>2. a \div t \in Int
      BY <1>7, <1>8, <3>1 DEF a
    <3> QED BY <2>1, <3>2 DEF a
  <2> HIDE DEF trades
  <2>7. \/ moved(i) = change(i)
        \/ moved(i) = 0 /\ change(i) <= c.tolerance /\ -c.tolerance <= change(i)
    <3> DEFINE x == change(i)
    <3>1. (i \in B <=> x > c.tolerance) /\ (i \in S <=> x < -c.tolerance)
      OBVIOUS
    <3>2. /\ i \in DOMAIN trades.buys <=> i \in B
          /\ i \in DOMAIN trades.sells <=> i \in S
          /\ i \in B => trades.buys[i] = x
          /\ i \in S => trades.sells[i] = -x
      <4> HIDE DEF change, B, S
      <4> QED BY <2>5
    <3> HIDE DEF x, B, S
    <3>3. x \in Int
      BY <2>6 DEF x
    <3> QED BY <2>2, <3>1, <3>2, <3>3 DEF x
  <2>8. w[i] \in Int
    BY <1>5
  <2> HIDE DEF t, moved
  <2> DEFINE ch == change(i)
             mv == moved(i)
             cur == r.current[i]
             x == w[i]
  <2>9. ch = (10000 * x) \div t - 100 * cur
    OBVIOUS
  <2>10. \/ mv = ch
         \/ mv = 0 /\ ch <= c.tolerance /\ -c.tolerance <= ch
    BY <2>7
  <2>11. cur \in Int /\ x \in Int
    BY <2>1, <2>8
  <2> HIDE DEF ch, mv, cur, x, change
  <2>12. Abs((100 * cur + mv) * t - 10000 * x) <= (c.tolerance + 1) * t
    BY <1>7, <1>8, <2>2, <2>9, <2>10, <2>11, TradesReach
  <2> QED BY <2>12 DEF mv, cur, x
<1>12. DOMAIN w = 1 .. n
  BY <1>5
<1> QED BY <1>8, <1>9, <1>10, <1>11, <1>12 DEF n, t, trades, moved

\* Whichever solver's weights are accepted (OptimizationEngine.optimize), they are
\* a whole portfolio without short positions that evaluate() calls optimal, and
\* the trades of rebalance() lead from the present weights to them.
THEOREM OptimaAreReached == Spec => []OptimizedWeightsAreReached
<1>1. AnswerInv => OptimizedWeightsAreReached
  <2> SUFFICES ASSUME AnswerInv, Asked("optimization"), answer # None
               PROVE  LET r == question.asked.request
                          w == answer.weights
                          moved(i) == (IF i \in DOMAIN answer.trades.buys THEN answer.trades.buys[i] ELSE 0)
                                      - (IF i \in DOMAIN answer.trades.sells THEN answer.trades.sells[i] ELSE 0)
                      IN /\ Total(w) > 0 /\ Lowest(w) >= 0
                         /\ answer.evaluation.status = "OPTIMAL"
                         /\ answer.trades # None =>
                              \A i \in DOMAIN w :
                                  Abs((100 * r.current[i] + moved(i)) * Total(w) - 10000 * w[i])
                                     <= (question.asked.config.tolerance + 1) * Total(w)
    BY DEF OptimizedWeightsAreReached
  <2>1. PICK r \in Portfolios, c \in OptimizerConfigs : \E w \in Optimization!Optimize(r, c) :
          question.asked = [request |-> r, config |-> c] /\ answer = OptimizerAnswer(r, c, w)
    BY DEF AnswerInv, OptimizationAnswered
  <2>2. PICK w \in Optimization!Optimize(r, c) :
          question.asked = [request |-> r, config |-> c] /\ answer = OptimizerAnswer(r, c, w)
    BY <2>1
  <2>3. /\ w # None
        /\ answer = [weights |-> w, evaluation |-> Optimization!Evaluate(r, w),
                     trades |-> IF r.current = None THEN None
                                ELSE Optimization!Rebalance(r, w, c.tolerance)]
    BY <2>2 DEF OptimizerAnswer
  <2> DEFINE trades == Optimization!Rebalance(r, w, c.tolerance)
             moved(i) == (IF i \in DOMAIN trades.buys THEN trades.buys[i] ELSE 0)
                         - (IF i \in DOMAIN trades.sells THEN trades.sells[i] ELSE 0)
             n == Len(r.mu)
  <2>4. /\ DOMAIN w = 1 .. n
        /\ Total(w) > 0 /\ Lowest(w) >= 0
        /\ Optimization!Evaluate(r, w).status = "OPTIMAL"
        /\ r.current # None =>
             \A i \in 1 .. n : Abs((100 * r.current[i] + moved(i)) * Total(w) - 10000 * w[i])
                                  <= (c.tolerance + 1) * Total(w)
    BY <2>3, OptimumIsReached
  <2>5. /\ answer.weights = w /\ answer.evaluation = Optimization!Evaluate(r, w)
        /\ question.asked.request = r /\ question.asked.config = c
        /\ r.current # None => answer.trades = trades
        /\ r.current = None => answer.trades = None
    BY <2>2, <2>3
  <2> HIDE DEF trades, n
  <2> QED BY <2>4, <2>5
<1> QED BY <1>1, AnswersInvariant, PTL

------------------------------------------------------------------------------
(* Oscillators.                                                             *)

LEMMA FactorBridges ==
  /\ \A places : Factors!InOrder(places) = InOrder(places)
  /\ \A s : Factors!Highest(s) = Highest(s) /\ Factors!Lowest(s) = Lowest(s)
  /\ \A b, n : Factors!Power(b, n) = Power(b, n)
  /\ \A n, d : Factors!Ratio(n, d) = Ratio(n, d)
  /\ \A n : Factors!Whole(n) = Whole(n)
  /\ \A x, y : Factors!Larger(x, y) = Larger(x, y)
  /\ \A s, n : Factors!LastOf(s, n) = LastOf(s, n)
<1>1. \A S, before : Factors!Ordered(S, before) = Ordered(S, before)
  BY Zenon DEF Ordered, Factors!Ordered, Cardinality, Factors!Cardinality
<1>2. \A places : Factors!InOrder(places) = InOrder(places)
  BY <1>1, Zenon DEF InOrder, Factors!InOrder
<1>3. \A s : Factors!Highest(s) = Highest(s) /\ Factors!Lowest(s) = Lowest(s)
  BY Zenon DEF Highest, Factors!Highest, Lowest, Factors!Lowest
<1>4. \A b, n : Factors!Power(b, n) = Power(b, n)
  BY Zenon DEF Power, Factors!Power
<1>5. \A n, d : Factors!Ratio(n, d) = Ratio(n, d)
  BY Zenon DEF Ratio, Factors!Ratio
<1>6. \A n : Factors!Whole(n) = Whole(n)
  BY Zenon DEF Whole, Factors!Whole, Ratio, Factors!Ratio
<1>7. \A x, y : Factors!Larger(x, y) = Larger(x, y)
  BY Zenon DEF Larger, Factors!Larger
<1>8. \A s, n : Factors!LastOf(s, n) = LastOf(s, n)
  BY <1>7, Zenon DEF LastOf, Factors!LastOf
<1> QED BY <1>2, <1>3, <1>4, <1>5, <1>6, <1>7, <1>8

\* The rows that have some fields, by their places.
LEMMA RowsThatHave ==
  ASSUME NEW rows \in Seq(Factors!PriceRow), NEW fields
  PROVE  LET at == Factors!RowsWith(rows, fields)
         IN /\ at \in Seq(Nat)
            /\ \A k \in 1 .. Len(at) : at[k] \in DOMAIN rows /\ \A f \in fields : rows[at[k]][f] # None
<1> DEFINE P == {i \in DOMAIN rows : \A f \in fields : rows[i][f] # None}
           at == Factors!RowsWith(rows, fields)
<1>1. IsFiniteSet(P) /\ P \in SUBSET Int /\ P \in SUBSET Nat
  <2>1. DOMAIN rows = 1 .. Len(rows) /\ Len(rows) \in Nat
    OBVIOUS
  <2>2. IsFiniteSet(1 .. Len(rows))
    BY <2>1, FS_Interval
  <2>3. P \in SUBSET (1 .. Len(rows))
    BY <2>1
  <2> HIDE DEF P
  <2>4. IsFiniteSet(P)
    BY <2>2, <2>3, FS_Subset
  <2> QED BY <2>1, <2>3, <2>4
<1>2. at = InOrder(P)
  <2>1. at = Factors!InOrder(P)
    BY Zenon DEF Factors!RowsWith
  <2> HIDE DEF P, at
  <2> QED BY <2>1, FactorBridges
<1>3. Cardinality(P) \in Nat /\ InOrder(P) \in [1 .. Cardinality(P) -> P]
  <2> HIDE DEF P
  <2> QED BY <1>1, PlacesInOrder
<1>4. at \in Seq(Nat) /\ DOMAIN at = 1 .. Len(at) /\ \A k \in DOMAIN at : at[k] \in P
  <2> DEFINE c == Cardinality(P)
  <2>1. c \in Nat /\ at \in [1 .. c -> P]
    <3> HIDE DEF P, at
    <3> QED BY <1>2, <1>3
  <2> HIDE DEF P, at, c
  <2>2. at \in [1 .. c -> Nat]
    BY <1>1, <2>1
  <2>3. at \in Seq(Nat) /\ DOMAIN at = 1 .. c
    BY <2>1, <2>2
  <2> QED BY <2>1, <2>3
<1> HIDE DEF at
<1>5. \A k \in 1 .. Len(at) : at[k] \in DOMAIN rows /\ \A f \in fields : rows[at[k]][f] # None
  BY <1>4
<1> QED BY <1>4, <1>5 DEF at

\* A value of the oscillators, a part of a whole.
LEMMA PartWithin ==
  ASSUME NEW x \in Int, NEW d \in Int, 0 <= x, x <= d
  PROVE  Within(Ratio(100 * x, d), 0, 100) /\ Within(Ratio(-100 * x, d), -100, 0)
BY DEF Ratio, Within, AtLeast, AtMost, Above

------------------------------------------------------------------------------
(* Exponential means of what is not negative.                               *)

ScaledMeans(s, a, b) ==
  CHOOSE f : f = [n \in 1 .. Len(s) |->
                    IF n = 1 THEN s[1] ELSE (b - a) * f[n - 1] + a * Factors!Power(b, n - 2) * s[n]]

LEMMA PowerOfNatural == ASSUME NEW b \in Nat, NEW n \in Nat PROVE Power(b, n) \in Nat
<1> DEFINE p == PowersOf(b, n)
           G == {i \in 0 .. n : p[i] \in Nat}
<1>1. /\ p[0] = 1 /\ \A i \in 1 .. n : p[i] = p[i - 1] * b
      /\ Power(b, n) = p[n]
  BY PowersAreSteps
<1> HIDE DEF p
<1>2. 0 \in G
  BY <1>1
<1>3. ASSUME NEW i \in 0 .. n - 1, i \in G PROVE i + 1 \in G
  <2>1. i + 1 \in 1 .. n /\ (i + 1) - 1 = i /\ i + 1 \in 0 .. n
    OBVIOUS
  <2>2. p[i + 1] = p[i] * b /\ p[i] \in Nat
    BY <1>1, <1>3, <2>1
  <2> QED BY <2>1, <2>2
<1> HIDE DEF G
<1>4. \A i \in 0 .. n : i \in G
  BY <1>2, <1>3, UpToInduction
<1> QED BY <1>1, <1>4 DEF G

LEMMA MeanOfNaturals ==
  ASSUME NEW s \in Seq(Nat), s # << >>, NEW b \in Nat, b > 0
  PROVE  Factors!Ewm(s, 1, b).num \in Nat
<1> DEFINE m == Len(s)
           Next1(x, n) == (b - 1) * x + 1 * Factors!Power(b, n - 2) * s[n]
           step == [j \in 1 .. m - 1 |-> [x \in Nat |-> Next1(x, j + 1)]]
           e == ScaledMeans(s, 1, b)
<1>1. m \in Nat /\ m > 0 /\ DOMAIN s = 1 .. m /\ m - 1 \in Nat
  OBVIOUS
<1>2. ASSUME NEW n \in 2 .. m, NEW x \in Nat PROVE Next1(x, n) \in Nat
  <2>1. Factors!Power(b, n - 2) = Power(b, n - 2)
    BY FactorBridges
  <2>2. n - 2 \in Nat
    OBVIOUS
  <2>3. Power(b, n - 2) \in Nat
    BY <2>2, PowerOfNatural
  <2>4. s[n] \in Nat
    BY <1>1
  <2> DEFINE p == Factors!Power(b, n - 2)
             y == s[n]
  <2>5. p \in Nat /\ y \in Nat
    BY <2>1, <2>3, <2>4
  <2> HIDE DEF p, y
  <2>6. (b - 1) * x \in Nat
    <3>1. b - 1 \in Nat
      OBVIOUS
    <3> QED BY <3>1
  <2>7. 1 * p * y \in Nat
    BY <2>5
  <2>8. (b - 1) * x + 1 * p * y \in Nat
    BY <2>6, <2>7
  <2> QED BY <2>8 DEF p, y
<1>3. step \in [1 .. m - 1 -> [Nat -> Nat]]
  <2>1. \A j \in 1 .. m - 1 : j + 1 \in 2 .. m
    BY <1>1
  <2>2. \A j \in 1 .. m - 1 : \A x \in Nat : Next1(x, j + 1) \in Nat
    BY <1>2, <2>1
  <2> HIDE DEF Next1
  <2> QED BY <2>2
<1>4. s[1] \in Nat
  BY <1>1
<1>5. PICK f \in [0 .. m - 1 -> Nat] : Stepping(f, m - 1, s[1], step)
  <2> HIDE DEF step, m
  <2> QED BY <1>1, <1>3, <1>4, SteppingExists
<1> DEFINE g == [n \in 1 .. m |-> f[n - 1]]
<1>6. g[1] = s[1] /\ \A n \in 1 .. m : g[n] \in Nat
  <2>1. 1 \in 1 .. m /\ 1 - 1 = 0 /\ \A n \in 1 .. m : n - 1 \in 0 .. m - 1
    BY <1>1
  <2>2. f[0] = s[1]
    BY <1>5, Zenon DEF Stepping
  <2> HIDE DEF step, m, Next1
  <2> QED BY <2>1, <2>2
<1>7. ASSUME NEW n \in 2 .. m PROVE g[n] = Next1(g[n - 1], n)
  <2>1. /\ n - 1 \in 1 .. m - 1 /\ (n - 1) + 1 = n /\ n \in 1 .. m /\ n - 1 \in 1 .. m
        /\ (n - 1) - 1 \in 0 .. m - 1
    BY <1>1
  <2>2. f[n - 1] = step[n - 1][f[(n - 1) - 1]]
    BY <1>5, <2>1 DEF Stepping
  <2>3. g[n] = f[n - 1] /\ g[n - 1] = f[(n - 1) - 1] /\ g[n - 1] \in Nat
    BY <2>1
  <2>4. step[n - 1] = [x \in Nat |-> Next1(x, (n - 1) + 1)]
    <3> HIDE DEF Next1
    <3> QED BY <2>1
  <2> HIDE DEF Next1, step, g
  <2> QED BY <2>1, <2>2, <2>3, <2>4
<1>8. g = [n \in 1 .. m |-> IF n = 1 THEN s[1] ELSE Next1(g[n - 1], n)]
  <2>1. ASSUME NEW n \in 1 .. m PROVE g[n] = IF n = 1 THEN s[1] ELSE Next1(g[n - 1], n)
    <3>1. n = 1 \/ n \in 2 .. m
      OBVIOUS
    <3> HIDE DEF Next1, g
    <3> QED BY <1>6, <1>7, <3>1
  <2> HIDE DEF Next1
  <2>2. g = [n \in 1 .. m |-> g[n]]
    OBVIOUS
  <2> HIDE DEF g
  <2> QED BY <2>1, <2>2
<1>9. e = [n \in 1 .. m |-> IF n = 1 THEN s[1] ELSE Next1(e[n - 1], n)]
  <2> HIDE DEF g
  <2> QED BY <1>8, Zenon DEF ScaledMeans
<1> HIDE DEF e
<1>10. e[m] \in Nat
  <2> DEFINE G == {k \in 0 .. m - 1 : e[k + 1] \in Nat}
  <2>1. 0 \in G
    <3>1. e[1] = s[1]
      <4>1. 1 \in 1 .. m
        BY <1>1
      <4> HIDE DEF Next1
      <4> QED BY <1>9, <4>1
    <3> QED BY <1>1, <1>4, <3>1
  <2>2. ASSUME NEW k \in 0 .. (m - 1) - 1, k \in G PROVE k + 1 \in G
    <3>1. /\ (k + 1) + 1 \in 1 .. m /\ (k + 1) + 1 \in 2 .. m /\ (k + 1) + 1 # 1
          /\ ((k + 1) + 1) - 1 = k + 1 /\ k + 1 \in 0 .. m - 1
      BY <1>1
    <3>2. e[(k + 1) + 1] = Next1(e[k + 1], (k + 1) + 1)
      <4> HIDE DEF Next1
      <4> QED BY <1>9, <3>1
    <3>3. e[k + 1] \in Nat
      BY <2>2
    <3> HIDE DEF Next1
    <3>4. e[(k + 1) + 1] \in Nat
      BY <1>2, <3>1, <3>2, <3>3
    <3> QED BY <3>1, <3>4
  <2> HIDE DEF G
  <2>3. \A k \in 0 .. m - 1 : k \in G
    BY <1>1, <2>1, <2>2, UpToInduction
  <2>4. m - 1 \in 0 .. m - 1 /\ (m - 1) + 1 = m
    BY <1>1
  <2> QED BY <2>3, <2>4 DEF G
<1>11. Factors!Ewm(s, 1, b) = Factors!Ratio(e[m], Factors!Power(b, m - 1))
  BY Zenon DEF Factors!Ewm, ScaledMeans, e
<1>12. Factors!Power(b, m - 1) \in Nat
  <2>1. Factors!Power(b, m - 1) = Power(b, m - 1)
    BY FactorBridges
  <2> QED BY <1>1, <2>1, PowerOfNatural
<1>13. Factors!Ewm(s, 1, b) = Ratio(e[m], Factors!Power(b, m - 1))
  BY <1>11, FactorBridges
<1> HIDE DEF m
<1> QED BY <1>10, <1>12, <1>13 DEF Ratio

------------------------------------------------------------------------------
(* The three oscillators.                                                   *)

LEMMA KnownFields ==
  ASSUME NEW rows \in Seq(Factors!PriceRow), NEW i \in DOMAIN rows,
         NEW field \in {"close", "high", "low"}, rows[i][field] # None
  PROVE  rows[i][field] \in Int
<1>1. rows[i] \in Factors!PriceRow
  OBVIOUS
<1>2. rows[i][field] \in Int \cup {None}
  BY <1>1 DEF Factors!PriceRow
<1> QED BY <1>2

LEMMA ColumnOfKnown ==
  ASSUME NEW rows \in Seq(Factors!PriceRow), NEW at \in Seq(Nat),
         NEW field \in {"close", "high", "low"},
         \A k \in 1 .. Len(at) : at[k] \in DOMAIN rows /\ rows[at[k]][field] # None
  PROVE  LET c == Factors!Column(rows, at, field)
         IN /\ c \in Seq(Int) /\ Len(c) = Len(at) /\ DOMAIN c = 1 .. Len(at)
            /\ \A k \in 1 .. Len(at) : c[k] = rows[at[k]][field]
<1> DEFINE n == Len(at)
           c == Factors!Column(rows, at, field)
<1>1. n \in Nat /\ DOMAIN at = 1 .. n
  OBVIOUS
<1>2. c = [k \in DOMAIN at |-> rows[at[k]][field]]
  BY Zenon DEF Factors!Column
<1> HIDE DEF n, c
<1>3. \A k \in 1 .. n : rows[at[k]][field] \in Int
  BY KnownFields DEF n
<1>4. c \in [1 .. n -> Int] /\ \A k \in 1 .. n : c[k] = rows[at[k]][field]
  BY <1>1, <1>2, <1>3
<1>5. c \in Seq(Int) /\ Len(c) = n /\ DOMAIN c = 1 .. n
  BY <1>1, <1>4
<1> QED BY <1>4, <1>5 DEF n, c

LEMMA StrengthWithin ==
  ASSUME NEW rows \in Seq(Factors!PriceRow), NEW p, p.period \in Int, p.period > 0,
         ~Factors!Failed(Factors!RSI(rows, p))
  PROVE  Within(Factors!RSI(rows, p).value, 0, 100)
<1> DEFINE at == Factors!RowsWith(rows, {"close"})
           c == Factors!Column(rows, at, "close")
           gains == [k \in 1 .. Len(c) - 1 |-> Factors!Larger(0, c[k + 1] - c[k])]
           losses == [k \in 1 .. Len(c) - 1 |-> Factors!Larger(0, c[k] - c[k + 1])]
           gain == Factors!Ewm(gains, 1, p.period).num
           loss == Factors!Ewm(losses, 1, p.period).num
           value == Factors!Ratio(100 * gain, gain + loss)
<1>1. \E signal, row : Factors!RSI(rows, p) = IF Len(c) < p.period + 1 THEN Factors!Error
                                             ELSE Factors!Result(value, signal, row)
  BY Zenon DEF Factors!RSI
<1>2. c \in Seq(Int)
  <2> HIDE DEF c
  <2>1. /\ at \in Seq(Nat)
        /\ \A k \in 1 .. Len(at) : at[k] \in DOMAIN rows /\ rows[at[k]]["close"] # None
    BY RowsThatHave
  <2> HIDE DEF at
  <2> QED BY <2>1, ColumnOfKnown DEF c
<1> HIDE DEF c
<1>3. ~(Len(c) < p.period + 1)
  <2> HIDE DEF value
  <2> QED BY <1>1 DEF Factors!Failed, Factors!Error, Factors!Result
<1>4. Factors!RSI(rows, p).value = value
  <2> HIDE DEF value
  <2> QED BY <1>1, <1>3 DEF Factors!Result
<1> DEFINE m == Len(c) - 1
<1>5. m \in Nat /\ m > 0 /\ p.period \in Nat
  BY <1>2, <1>3
<1>6. gains \in Seq(Nat) /\ losses \in Seq(Nat) /\ gains # << >> /\ losses # << >>
  <2>1. \A k \in 1 .. m : c[k] \in Int /\ c[k + 1] \in Int
    BY <1>2
  <2>2. \A x \in Int : Factors!Larger(0, x) \in Nat
    BY DEF Factors!Larger
  <2>3. \A k \in 1 .. m : Factors!Larger(0, c[k + 1] - c[k]) \in Nat /\ Factors!Larger(0, c[k] - c[k + 1]) \in Nat
    <3> TAKE k \in 1 .. m
    <3> DEFINE x == c[k + 1] - c[k]
               y == c[k] - c[k + 1]
    <3>1. x \in Int /\ y \in Int
      BY <2>1
    <3> HIDE DEF x, y
    <3>2. Factors!Larger(0, x) \in Nat /\ Factors!Larger(0, y) \in Nat
      BY <2>2, <3>1
    <3> QED BY <3>2 DEF x, y
  <2>4. gains \in [1 .. m -> Nat] /\ losses \in [1 .. m -> Nat]
    BY <2>3
  <2> HIDE DEF gains, losses, m
  <2>5. gains \in Seq(Nat) /\ losses \in Seq(Nat) /\ Len(gains) = m /\ Len(losses) = m
    BY <1>5, <2>4
  <2>6. Len(<< >>) = 0 /\ m # 0
    BY <1>5
  <2> QED BY <2>5, <2>6
<1> HIDE DEF gains, losses
<1>7. gain \in Nat /\ loss \in Nat
  BY <1>5, <1>6, MeanOfNaturals
<1> HIDE DEF gain, loss
<1>8. gain \in Int /\ gain + loss \in Int /\ 0 <= gain /\ gain <= gain + loss
  BY <1>7
<1>9. value = Ratio(100 * gain, gain + loss)
  BY FactorBridges, Zenon
<1> DEFINE d == gain + loss
<1> HIDE DEF value, d
<1>10. d \in Int /\ 0 <= gain /\ gain <= d /\ value = Ratio(100 * gain, d)
  BY <1>8, <1>9 DEF d
<1>11. Within(value, 0, 100)
  BY <1>8, <1>10, PartWithin
<1> QED BY <1>4, <1>11

\* The close of a bar against the range of a window that has the bar.
LEMMA RangeHolds ==
  ASSUME NEW rows \in Seq(Factors!PriceRow), ClosesWithinRange(rows),
         NEW at \in Seq(Nat), at # << >>,
         \A k \in 1 .. Len(at) : at[k] \in DOMAIN rows /\ \A f \in Factors!Bars : rows[at[k]][f] # None,
         NEW k \in 1 .. Len(at)
  PROVE  LET high == Factors!Highest(Factors!Column(rows, at, "high"))
             low == Factors!Lowest(Factors!Column(rows, at, "low"))
             close == rows[at[k]].close
         IN high \in Int /\ low \in Int /\ close \in Int /\ low <= close /\ close <= high
<1> DEFINE n == Len(at)
           highs == Factors!Column(rows, at, "high")
           lows == Factors!Column(rows, at, "low")
           high == Factors!Highest(highs)
           low == Factors!Lowest(lows)
           row == rows[at[k]]
<1>1. n \in Nat \ {0} /\ k \in 1 .. n
  OBVIOUS
<1>2. \A j \in 1 .. n : at[j] \in DOMAIN rows /\ rows[at[j]]["close"] # None
                        /\ rows[at[j]]["high"] # None /\ rows[at[j]]["low"] # None
  BY DEF Factors!Bars
<1>3. /\ highs \in Seq(Int) /\ DOMAIN highs = 1 .. n /\ \A j \in 1 .. n : highs[j] = rows[at[j]]["high"]
  <2>1. \A j \in 1 .. Len(at) : at[j] \in DOMAIN rows /\ rows[at[j]]["high"] # None
    BY <1>2
  <2> HIDE DEF n
  <2> QED BY <2>1, ColumnOfKnown DEF n
<1>4. /\ lows \in Seq(Int) /\ DOMAIN lows = 1 .. n /\ \A j \in 1 .. n : lows[j] = rows[at[j]]["low"]
  <2>1. \A j \in 1 .. Len(at) : at[j] \in DOMAIN rows /\ rows[at[j]]["low"] # None
    BY <1>2
  <2> HIDE DEF n
  <2> QED BY <2>1, ColumnOfKnown DEF n
<1>5. row["close"] \in Int /\ row["high"] \in Int /\ row["low"] \in Int
  BY <1>1, <1>2, KnownFields
<1>6. row["low"] <= row["close"] /\ row["close"] <= row["high"]
  BY <1>1, <1>2 DEF ClosesWithinRange
<1> HIDE DEF n, highs, lows
<1>7. \A j \in 1 .. n : highs[j] \in Int /\ lows[j] \in Int
  <2> TAKE j \in 1 .. n
  <2>1. rows[at[j]]["high"] \in Int /\ rows[at[j]]["low"] \in Int
    BY <1>2, KnownFields
  <2> QED BY <1>3, <1>4, <2>1
<1>8. high = Highest(highs) /\ low = Lowest(lows)
  BY FactorBridges, Zenon
<1>9. high \in Int /\ highs[k] <= high
  <2>1. PICK j \in 1 .. n : Highest(highs) = highs[j] /\ \A i \in 1 .. n : highs[i] <= highs[j]
    BY <1>1, <1>3, <1>7, HighestIsReached
  <2> QED BY <1>1, <1>7, <1>8, <2>1
<1>10. low \in Int /\ low <= lows[k]
  <2>1. PICK j \in 1 .. n : Lowest(lows) = lows[j] /\ \A i \in 1 .. n : lows[i] >= lows[j]
    BY <1>1, <1>4, <1>7, LowestIsReached
  <2> QED BY <1>1, <1>7, <1>8, <2>1
<1>11. highs[k] = row["high"] /\ lows[k] = row["low"]
  BY <1>1, <1>3, <1>4
<1> HIDE DEF high, low
<1>12. low <= row["close"] /\ row["close"] <= high
  BY <1>5, <1>6, <1>9, <1>10, <1>11
<1> QED BY <1>5, <1>9, <1>10, <1>12 DEF high, low, highs, lows

LEMMA WilliamsWithin ==
  ASSUME NEW rows \in Seq(Factors!PriceRow), ClosesWithinRange(rows),
         NEW p, p.period \in Int, p.period > 0,
         ~Factors!Failed(Factors!WilliamsR(rows, p))
  PROVE  Within(Factors!WilliamsR(rows, p).value, -100, 0)
<1> DEFINE all == Factors!RowsWith(rows, Factors!Bars)
           at == Factors!LastOf(all, p.period)
           high == Factors!Highest(Factors!Column(rows, at, "high"))
           low == Factors!Lowest(Factors!Column(rows, at, "low"))
           value == IF high = low THEN Factors!Whole(0)
                    ELSE Factors!Ratio(-100 * (high - rows[Factors!Newest(at)].close), high - low)
<1>1. \E signal, row : Factors!WilliamsR(rows, p) = IF Len(at) < p.period THEN Factors!Error
                                                   ELSE Factors!Result(value, signal, row)
  BY Zenon DEF Factors!WilliamsR
<1>2. /\ all \in Seq(Nat)
      /\ \A k \in 1 .. Len(all) : all[k] \in DOMAIN rows /\ \A f \in Factors!Bars : rows[all[k]][f] # None
  <2> HIDE DEF all
  <2> QED BY RowsThatHave DEF all
<1> HIDE DEF all
<1>3. /\ at \in Seq(Nat)
      /\ \A k \in 1 .. Len(at) : at[k] \in DOMAIN rows /\ \A f \in Factors!Bars : rows[at[k]][f] # None
  <2>1. at = LastOf(all, p.period)
    BY FactorBridges
  <2>2. p.period \in Nat
    OBVIOUS
  <2> HIDE DEF at
  <2>3. /\ at \in Seq(Nat) /\ Len(at) = Smaller(p.period, Len(all))
        /\ \A i \in 1 .. Len(at) : at[i] = all[Len(all) - Len(at) + i]
    BY <1>2, <2>1, <2>2, LastOfType
  <2>4. ASSUME NEW k \in 1 .. Len(at)
        PROVE  at[k] \in DOMAIN rows /\ \A f \in Factors!Bars : rows[at[k]][f] # None
    <3>1. Len(at) \in Nat /\ Len(all) \in Nat /\ Len(at) <= Len(all)
      BY <1>2, <2>2, <2>3 DEF Smaller
    <3>2. Len(all) - Len(at) + k \in 1 .. Len(all)
      BY <3>1
    <3> QED BY <1>2, <2>3, <3>2
  <2> QED BY <2>3, <2>4
<1> HIDE DEF at
<1>4. ~(Len(at) < p.period)
  <2> HIDE DEF value
  <2> QED BY <1>1 DEF Factors!Failed, Factors!Error, Factors!Result
<1>5. Factors!WilliamsR(rows, p).value = value
  <2> HIDE DEF value
  <2> QED BY <1>1, <1>4 DEF Factors!Result
<1> DEFINE n == Len(at)
           close == rows[at[n]].close
<1>6. n \in 1 .. Len(at) /\ at # << >> /\ Factors!Newest(at) = at[n]
  BY <1>3, <1>4 DEF Factors!Newest
<1>7. high \in Int /\ low \in Int /\ close \in Int /\ low <= close /\ close <= high
  BY <1>3, <1>6, RangeHolds
<1>8. value = IF high = low THEN Whole(0) ELSE Ratio(-100 * (high - close), high - low)
  BY <1>6, FactorBridges, Zenon
<1> HIDE DEF value, high, low, close, n
<1>9. CASE high = low
  BY <1>5, <1>8, <1>9 DEF Whole, Ratio, Within, AtLeast, AtMost, Above
<1>10. CASE high # low
  <2> DEFINE x == high - close
             d == high - low
  <2>1. x \in Int /\ d \in Int /\ 0 <= x /\ x <= d
    BY <1>7
  <2>2. value = Ratio(-100 * x, d)
    BY <1>8, <1>10
  <2> HIDE DEF x, d
  <2> QED BY <1>5, <2>1, <2>2, PartWithin
<1> QED BY <1>9, <1>10

LEMMA StochasticWithin ==
  ASSUME NEW rows \in Seq(Factors!PriceRow), ClosesWithinRange(rows),
         NEW p, p.k_period \in Int, p.k_period > 0,
         ~Factors!Failed(Factors!StochasticOscillator(rows, p))
  PROVE  Within(Factors!StochasticOscillator(rows, p).value, 0, 100)
<1> DEFINE at == Factors!RowsWith(rows, Factors!Bars)
           window(k) == SubSeq(at, k - p.k_period + 1, k)
           high(k) == Factors!Highest(Factors!Column(rows, window(k), "high"))
           low(k) == Factors!Lowest(Factors!Column(rows, window(k), "low"))
           ranged == {k \in p.k_period .. Len(at) : high(k) # low(k)}
           last == CHOOSE k \in ranged : \A j \in ranged : j <= k
           value == Factors!Ratio(100 * (rows[at[last]].close - low(last)), high(last) - low(last))
           signal == IF Factors!Above(value, 80) THEN "BEARISH"
                     ELSE IF Factors!Below(value, 20) THEN "BULLISH" ELSE "NEUTRAL"
           short == Len(at) < p.k_period + p.smooth \/ ranged = {}
<1>1. Factors!StochasticOscillator(rows, p)
        = IF short THEN Factors!Error ELSE Factors!Result(value, signal, Factors!Newest(at))
  BY Zenon DEF Factors!StochasticOscillator
<1> HIDE DEF signal
<1>2. /\ at \in Seq(Nat)
      /\ \A k \in 1 .. Len(at) : at[k] \in DOMAIN rows /\ \A f \in Factors!Bars : rows[at[k]][f] # None
  <2> HIDE DEF at
  <2> QED BY RowsThatHave DEF at
<1> HIDE DEF at
<1>3. ~short
  <2> HIDE DEF short, value, at
  <2> QED BY <1>1 DEF Factors!Failed, Factors!Error, Factors!Result
<1>4. Factors!StochasticOscillator(rows, p).value = value
  <2> HIDE DEF short, value, at
  <2> QED BY <1>1, <1>3 DEF Factors!Result
<1>5. last \in ranged
  <2> DEFINE T == {n \in 0 .. Len(at) : Len(at) - n \in ranged}
  <2>1. Len(at) \in Nat /\ \A k \in ranged : k \in Int /\ k <= Len(at) /\ 0 <= k
    BY <1>2
  <2> HIDE DEF ranged
  <2>2. T \in SUBSET Nat
    OBVIOUS
  <2>3. \A k \in ranged : Len(at) - k \in T
    <3> TAKE k \in ranged
    <3>1. Len(at) - k \in 0 .. Len(at) /\ Len(at) - (Len(at) - k) = k
      BY <2>1
    <3> QED BY <3>1
  <2>4. T # {}
    BY <1>3, <2>3
  <2>5. PICK n \in T : \A m \in T : n <= m
    <3> HIDE DEF T
    <3> QED BY <2>2, <2>4, LeastElement
  <2>6. Len(at) - n \in ranged /\ \A j \in ranged : j <= Len(at) - n
    <3>1. n \in Nat /\ Len(at) - n \in ranged
      BY <2>2, <2>5
    <3>2. ASSUME NEW j \in ranged PROVE j <= Len(at) - n
      <4>1. n <= Len(at) - j
        BY <2>3, <2>5
      <4> QED BY <2>1, <3>1, <4>1
    <3> QED BY <3>1, <3>2
  <2>7. \E k \in ranged : \A j \in ranged : j <= k
    BY <2>6
  <2> QED BY <2>7, Zenon
<1>6. last \in p.k_period .. Len(at) /\ high(last) # low(last)
  <2> HIDE DEF last
  <2> QED BY <1>5
<1> DEFINE l == last
           w == window(l)
           n == p.k_period
<1>7. l \in n .. Len(at) /\ n \in Nat /\ n > 0 /\ Len(at) \in Nat /\ l \in Int
  BY <1>2, <1>6
<1> HIDE DEF last
<1>8. /\ w \in Seq(Nat) /\ Len(w) = n /\ w[n] = at[l]
      /\ \A k \in 1 .. n : w[k] = at[l - n + k] /\ l - n + k \in 1 .. Len(at)
  <2> HIDE DEF l, n
  <2>1. w = SubSeq(at, l - n + 1, l)
    BY DEF l, n
  <2> HIDE DEF w
  <2>2. /\ l - n + 1 \in 1 .. Len(at) /\ l \in 1 .. Len(at) /\ l - n + 1 <= l
        /\ l - (l - n + 1) + 1 = n
    BY <1>7
  <2>3. w \in Seq(Nat) /\ Len(w) = n
    BY <1>2, <1>7, <2>1, <2>2
  <2>4. \A k \in 1 .. n : w[k] = at[l - n + k] /\ l - n + k \in 1 .. Len(at)
    <3> TAKE k \in 1 .. n
    <3>1. (l - n + 1) + k - 1 = l - n + k /\ l - n + k \in 1 .. Len(at)
      BY <1>7
    <3>2. w[k] = at[(l - n + 1) + k - 1]
      BY <1>2, <1>7, <2>1, <2>2
    <3> QED BY <3>1, <3>2
  <2>5. l - n + n = l /\ n \in 1 .. n
    BY <1>7
  <2> QED BY <2>3, <2>4, <2>5
<1> HIDE DEF l, w, n
<1>9. LET close == rows[at[l]].close
      IN /\ high(l) \in Int /\ low(l) \in Int /\ close \in Int /\ low(l) <= close /\ close <= high(l)
  <2>1. \A k \in 1 .. Len(w) : w[k] \in DOMAIN rows /\ \A f \in Factors!Bars : rows[w[k]][f] # None
    BY <1>2, <1>8
  <2>2. w # << >> /\ n \in 1 .. Len(w)
    BY <1>7, <1>8
  <2>3. LET h == Factors!Highest(Factors!Column(rows, w, "high"))
            lo == Factors!Lowest(Factors!Column(rows, w, "low"))
            close == rows[w[n]].close
        IN h \in Int /\ lo \in Int /\ close \in Int /\ lo <= close /\ close <= h
    BY <1>8, <2>1, <2>2, RangeHolds
  <2>4. high(l) = Factors!Highest(Factors!Column(rows, w, "high")) /\ low(l) = Factors!Lowest(Factors!Column(rows, w, "low"))
    BY Zenon DEF w
  <2> HIDE DEF high, low
  <2> QED BY <1>8, <2>3, <2>4
<1> DEFINE close == rows[at[l]].close
           x == close - low(l)
           d == high(l) - low(l)
<1>10. value = Ratio(100 * x, d)
  BY FactorBridges, Zenon DEF l
<1> HIDE DEF value, high, low
<1>11. x \in Int /\ d \in Int /\ 0 <= x /\ x <= d
  BY <1>9
<1> HIDE DEF x, d
<1> QED BY <1>4, <1>10, <1>11, PartWithin

-----------------------------------------------------------------------------
(* A factor's parameters and its place among the results *)

\* A label begins with the name of the factor.
LEMMA LabelNamesTheFactor == ASSUME NEW req PROVE Factors!Label(req)[1] = req.factor
BY DEF Factors!Label

\* The window of a factor that could be constructed is a positive number.
LEMMA ParametersOfConstructed ==
  ASSUME NEW params, \A key \in DOMAIN params : params[key] \in Int, NEW name,
         Factors!Constructible(name, params)
  PROVE  LET p == Factors!Parameters(name, params)
         IN /\ name \in {"rsi", "williams_r"} => p.period \in Int /\ p.period > 0
            /\ name = "stochastic" => p.k_period \in Int /\ p.k_period > 0
<1> DEFINE defaults == Factors!Defaults(name)
           p == Factors!Parameters(name, params)
<1>1. p = [key \in DOMAIN params \cup DOMAIN defaults |->
             IF key \in DOMAIN params THEN params[key] ELSE defaults[key]]
  BY DEF Factors!Parameters
<1>2. /\ name \in {"rsi", "williams_r"} => defaults = [period |-> 14]
      /\ name = "stochastic" => defaults = [k_period |-> 14, d_period |-> 3, smooth |-> 3]
  BY DEF Factors!Defaults
<1>3. \A key \in DOMAIN p : p[key] > 0
  <2> HIDE DEF p
  <2> QED BY DEF Factors!Constructible, p
<1> HIDE DEF p, defaults
<1>4. name \in {"rsi", "williams_r"} => p.period \in Int /\ p.period > 0
  <2> HAVE name \in {"rsi", "williams_r"}
  <2>1. "period" \in DOMAIN defaults /\ defaults["period"] \in Int
    BY <1>2
  <2> QED BY <1>1, <1>3, <2>1
<1>5. name = "stochastic" => p.k_period \in Int /\ p.k_period > 0
  <2> HAVE name = "stochastic"
  <2>1. "k_period" \in DOMAIN defaults /\ defaults["k_period"] \in Int
    BY <1>2
  <2> QED BY <1>1, <1>3, <2>1
<1> QED BY <1>4, <1>5 DEF p

\* A result of the engine is what the factor of its label computed.
LEMMA ResultsAreComputed ==
  ASSUME NEW rows, NEW requests, NEW label \in DOMAIN Factors!Calculate(rows, requests).results
  PROVE  \E i \in DOMAIN requests :
            /\ Factors!Constructible(requests[i].factor, requests[i].params)
            /\ label[1] = requests[i].factor
            /\ Factors!Calculate(rows, requests).results[label]
                 = Factors!Compute(requests[i].factor, requests[i].params, rows)
<1> DEFINE run == {i \in Factors!Validated(requests) :
                     Factors!Constructible(requests[i].factor, requests[i].params)}
           labels == {Factors!Label(requests[i]) : i \in run}
           first(l) == CHOOSE j \in run : Factors!Label(requests[j]) = l
           of(l) == Factors!Compute(requests[first(l)].factor, requests[first(l)].params, rows)
<1>1. Factors!Calculate(rows, requests) = [results |-> [l \in labels |-> of(l)],
                                           errors |-> DOMAIN requests \ run]
  BY Zenon DEF Factors!Calculate
<1>2. \A i \in run : /\ i \in DOMAIN requests
                     /\ Factors!Constructible(requests[i].factor, requests[i].params)
  BY Zenon DEF Factors!Validated
<1> HIDE DEF of, run
<1>3. Factors!Calculate(rows, requests).results = [l \in labels |-> of(l)]
  <2> HIDE DEF labels
  <2> QED BY <1>1
<1>4. label \in labels /\ Factors!Calculate(rows, requests).results[label] = of(label)
  <2> HIDE DEF labels
  <2> QED BY <1>3
<1>5. first(label) \in run /\ Factors!Label(requests[first(label)]) = label
  BY <1>4, Zenon
<1> HIDE DEF first
<1>6. label[1] = requests[first(label)].factor
  BY <1>5, LabelNamesTheFactor
<1> QED BY <1>2, <1>4, <1>5, <1>6 DEF of

\* What the three oscillators compute.
LEMMA OscillatorsCompute ==
  ASSUME NEW params, NEW rows
  PROVE  LET p(name) == Factors!Parameters(name, params)
         IN /\ Factors!Compute("rsi", params, rows) = Factors!RSI(rows, p("rsi"))
            /\ Factors!Compute("williams_r", params, rows) = Factors!WilliamsR(rows, p("williams_r"))
            /\ Factors!Compute("stochastic", params, rows)
                 = Factors!StochasticOscillator(rows, p("stochastic"))
BY DEF Factors!Compute

\* An answer of the research service that has results has those of the engine.
LEMMA AnalyzeCalculates ==
  ASSUME NEW q
  PROVE  LET results == Factors!Analyze(q).results
         IN results = << >> \/ results = Factors!Calculate(q.rows, q.requests).results
<1> DEFINE outcome == IF q.provider = "raises" THEN Factors!ErrorResult("(download)", 0)
                      ELSE IF q.provider = "nothing" \/ q.rows = <<>> THEN Factors!ErrorResult("(data)", 0)
                      ELSE IF ~q.columns THEN Factors!ErrorResult("(data)", Len(q.rows))
                      ELSE Factors!Completed(q.rows, Factors!Calculate(q.rows, q.requests))
           warned == Factors!Repeated(q.requests)
<1>1. Factors!Analyze(q) = IF ~q.symbol \/ ~q.period \/ ~q.interval
                           THEN Factors!ErrorResult("(input)", 0)
                           ELSE [outcome EXCEPT !.warned = warned]
  BY Zenon DEF Factors!Analyze
<1>2. \/ outcome = Factors!ErrorResult("(download)", 0)
      \/ outcome = Factors!ErrorResult("(data)", 0)
      \/ outcome = Factors!ErrorResult("(data)", Len(q.rows))
      \/ outcome = Factors!Completed(q.rows, Factors!Calculate(q.rows, q.requests))
  BY Zenon
<1>3. \A stage, rows : LET e == Factors!ErrorResult(stage, rows)
                       IN e.results = << >> /\ [e EXCEPT !.warned = warned].results = << >>
  <2> HIDE DEF warned
  <2> QED BY DEF Factors!ErrorResult
<1>4. \A rows, done : [Factors!Completed(rows, done) EXCEPT !.warned = warned].results = done.results
  <2> HIDE DEF warned
  <2> QED BY DEF Factors!Completed
<1>5. [outcome EXCEPT !.warned = warned].results
        \in {<< >>, Factors!Calculate(q.rows, q.requests).results}
  <2> HIDE DEF outcome, warned
  <2>1. ASSUME NEW stage, NEW n, outcome = Factors!ErrorResult(stage, n)
        PROVE  [outcome EXCEPT !.warned = warned].results = << >>
    BY <1>3, <2>1, Zenon
  <2>2. ASSUME outcome = Factors!Completed(q.rows, Factors!Calculate(q.rows, q.requests))
        PROVE  [outcome EXCEPT !.warned = warned].results = Factors!Calculate(q.rows, q.requests).results
    BY <1>4, <2>2, Zenon
  <2> QED BY <1>2, <2>1, <2>2, Zenon
<1>6. Factors!ErrorResult("(input)", 0).results = << >>
  BY <1>3, Zenon
<1> HIDE DEF outcome, warned
<1>7. CASE ~q.symbol \/ ~q.period \/ ~q.interval
  BY <1>1, <1>6, <1>7, Zenon
<1>8. CASE ~(~q.symbol \/ ~q.period \/ ~q.interval)
  <2>1. Factors!Analyze(q) = [outcome EXCEPT !.warned = warned]
    BY <1>1, <1>8, Zenon
  <2> QED BY <1>5, <2>1, Zenon
<1> QED BY <1>7, <1>8, Zenon

\* Whatever a caller of ResearchService.analyze asks, an RSI it is answered lies
\* within 0 and 100, and on prices whose close lies within their range so does the
\* stochastic oscillator, and Williams %R within -100 and 0: for tables of any
\* length, with gaps anywhere, and for any parameters the constructors accept.
THEOREM OscillatorsInRange == Spec => []OscillatorsStayInRange
<1>1. AnswerInv => OscillatorsStayInRange
  <2> SUFFICES ASSUME AnswerInv, Asked("factors"),
                      NEW label \in DOMAIN answer.results,
                      ~Factors!Failed(answer.results[label])
               PROVE  LET value == answer.results[label].value
                      IN /\ label[1] = "rsi" => Within(value, 0, 100)
                         /\ ClosesWithinRange(question.asked.rows) =>
                              /\ label[1] = "stochastic" => Within(value, 0, 100)
                              /\ label[1] = "williams_r" => Within(value, -100, 0)
    BY Zenon DEF OscillatorsStayInRange
  <2>1. question.asked \in Queries /\ answer = Factors!Analyze(question.asked)
    BY DEF AnswerInv, ResearchAnswered
  <2> DEFINE q == question.asked
             rows == q.rows
  <2>2. q \in Queries /\ rows \in Seq(Factors!PriceRow)
        /\ \A i \in DOMAIN q.requests : \A key \in DOMAIN q.requests[i].params :
             q.requests[i].params[key] \in Int
    BY <2>1, QueriesAssumption, Zenon
  <2>3. answer.results # << >>
    <3>1. DOMAIN << >> = {}
      BY SMT
    <3> QED BY <3>1, Zenon
  <2>4. answer.results = Factors!Calculate(rows, q.requests).results
    BY <2>1, <2>3, AnalyzeCalculates, Zenon
  <2>5. PICK i \in DOMAIN q.requests :
          /\ Factors!Constructible(q.requests[i].factor, q.requests[i].params)
          /\ label[1] = q.requests[i].factor
          /\ answer.results[label] = Factors!Compute(q.requests[i].factor, q.requests[i].params, rows)
    <3> HIDE DEF q, rows
    <3>1. label \in DOMAIN Factors!Calculate(rows, q.requests).results
      BY <2>4, Zenon
    <3>2. \E i \in DOMAIN q.requests :
            /\ Factors!Constructible(q.requests[i].factor, q.requests[i].params)
            /\ label[1] = q.requests[i].factor
            /\ Factors!Calculate(rows, q.requests).results[label]
                 = Factors!Compute(q.requests[i].factor, q.requests[i].params, rows)
      BY <3>1, ResultsAreComputed
    <3>3. PICK i \in DOMAIN q.requests :
            /\ Factors!Constructible(q.requests[i].factor, q.requests[i].params)
            /\ label[1] = q.requests[i].factor
            /\ Factors!Calculate(rows, q.requests).results[label]
                 = Factors!Compute(q.requests[i].factor, q.requests[i].params, rows)
      BY <3>2
    <3>4. answer.results[label] = Factors!Compute(q.requests[i].factor, q.requests[i].params, rows)
      BY <2>4, <3>3, Zenon
    <3> QED BY <3>3, <3>4, Zenon
  <2> DEFINE name == q.requests[i].factor
             params == q.requests[i].params
             result == answer.results[label]
             p == Factors!Parameters(name, params)
  <2>6. /\ name \in {"rsi", "williams_r"} => p.period \in Int /\ p.period > 0
        /\ name = "stochastic" => p.k_period \in Int /\ p.k_period > 0
    BY <2>2, <2>5, ParametersOfConstructed, Zenon
  <2>7. /\ name = "rsi" => result = Factors!RSI(rows, p)
        /\ name = "williams_r" => result = Factors!WilliamsR(rows, p)
        /\ name = "stochastic" => result = Factors!StochasticOscillator(rows, p)
    BY <2>5, OscillatorsCompute, Zenon
  <2> HIDE DEF name, params, result, p, rows
  <2>8. label[1] = name /\ ~Factors!Failed(result)
    BY <2>5 DEF name, result
  <2>9. label[1] = "rsi" => Within(result.value, 0, 100)
    BY <2>2, <2>6, <2>7, <2>8, StrengthWithin
  <2>10. ClosesWithinRange(rows) /\ label[1] = "stochastic" => Within(result.value, 0, 100)
    BY <2>2, <2>6, <2>7, <2>8, StochasticWithin
  <2>11. ClosesWithinRange(rows) /\ label[1] = "williams_r" => Within(result.value, -100, 0)
    BY <2>2, <2>6, <2>7, <2>8, WilliamsWithin
  <2> QED BY <2>9, <2>10, <2>11, Zenon DEF result, rows
<1> QED BY <1>1, AnswersInvariant, PTL
===============================================================================
