----------------------------- MODULE Screening ------------------------------
(***************************************************************************)
(* Screening a universe of stocks through nested filters, and ranking it   *)
(* by weighted, normalised factors.  A stock is a function from fields to  *)
(* values, None for a field it does not have.                              *)
(***************************************************************************)
EXTENDS Ratios, TLC

CONSTANT None,      \* an absent value
         States,    \* the fields that hold a state and not a number
         Groups     \* the groups of conditions of the screens, nested ones included

-----------------------------------------------------------------------------
(* Screens.  A condition is a field, an operator, a value and a negation;  *)
(* a group is a set of conditions, a set of groups and an operator.        *)

\* What the built-in filters read: an absent number is 0, an absent state is
\* "Unknown".
FilterValue(stock, field) ==
    IF stock[field] # None THEN stock[field]
    ELSE IF field \in States THEN "Unknown" ELSE 0

ConditionHolds(c, stock) == Compare(c.op, FilterValue(stock, c.field), c.value) # c.negate

\* AND and NOT look at all the results, OR at any; no results at all pass.
Logical(results, op) ==
    IF results = {} THEN TRUE
    ELSE CASE op = "AND" -> FALSE \notin results
           [] op = "OR"  -> TRUE \in results
           [] op = "NOT" -> FALSE \in results

Passes(group, stock) ==
    LET passes[g \in Groups] ==
            Logical({ConditionHolds(c, stock) : c \in g.conditions} \cup {passes[h] : h \in g.groups}, g.op)
    IN passes[group]

ConditionsOf(group) ==
    LET of[g \in Groups] == g.conditions \cup UNION {of[h] : h \in g.groups}
    IN of[group]

\* How many stocks each filter let through, counted apart from the verdicts.
FilterStats(group, universe) ==
    [f \in {c.field : c \in ConditionsOf(group)} |->
        Total([i \in DOMAIN universe |->
            Cardinality({c \in ConditionsOf(group) : c.field = f /\ ConditionHolds(c, universe[i])})])]

ScreenMany(group, universe) ==
    [passed |-> {i \in DOMAIN universe : Passes(group, universe[i])},
     failed |-> {i \in DOMAIN universe : ~Passes(group, universe[i])},
     stats  |-> FilterStats(group, universe)]

-----------------------------------------------------------------------------
(* Rankings.  A factor is a field, a weight in percent, a normalisation    *)
(* and whether lower is better.  Scores are fractions.                     *)

Spread(values) == Highest(values) - Lowest(values)

MinMax(values) ==
    [i \in DOMAIN values |-> IF Spread(values) = 0 THEN Ratio(1, 2)
                             ELSE Ratio(values[i] - Lowest(values), Spread(values))]

\* Rank among the values; equal ones are told apart by their place.
Percentile(values) ==
    [i \in DOMAIN values |->
        IF Len(values) < 2 THEN Whole(1)
        ELSE Ratio(Cardinality({j \in DOMAIN values : \/ values[j] < values[i]
                                                      \/ values[j] = values[i] /\ j < i}),
                   Len(values) - 1)]

DirectedUpwards(normalized, factor) == normalized      \* mutant
Directed(normalized, factor) ==
    IF factor.lower
    THEN [i \in DOMAIN normalized |->
             Ratio(normalized[i].den - normalized[i].num, normalized[i].den)]
    ELSE normalized

\* A z-score is an increasing linear map, so once it is spread over 0..1 again
\* it is the min-max of the values, half for equal ones.
NormalizeFactor(values, factor) ==
    Directed(IF factor.method = "PERCENTILE" THEN Percentile(values) ELSE MinMax(values), factor)

\* The value's place is looked up by the value: equal ones share the first.
FactorScore(universe, i, factor) ==
    LET all    == [j \in DOMAIN universe |-> universe[j][factor.field]]
        valid  == Pick(all, {j \in DOMAIN all : all[j] # None})
        places == {p \in DOMAIN valid : valid[p] = all[i]}
        first  == CHOOSE p \in places : \A q \in places : p <= q
    IN IF all[i] = None THEN Whole(0) ELSE NormalizeFactor(valid, factor)[first]

\* In percent, as the weights are.
TotalScore(universe, i, factors) ==
    LET upTo[k \in 0..Len(factors)] ==
            IF k = 0 THEN Whole(0)
            ELSE Plus(upTo[k - 1], Times(factors[k].weight, FactorScore(universe, i, factors[k])))
    IN upTo[Len(factors)]

\* Best first; equal scores keep the order of the universe.
Rank(universe, factors) ==
    LET score == [i \in DOMAIN universe |-> TotalScore(universe, i, factors)]
    IN Ordered(DOMAIN universe, [i \in DOMAIN universe |->
           {j \in DOMAIN universe : \/ More(score[j], score[i])
                                    \/ ~More(score[i], score[j]) /\ j < i}])

\* Weights are accepted when they are fractions that add up to one.
ValidWeights(factors) ==
    /\ factors # <<>>
    /\ Total([k \in DOMAIN factors |-> factors[k].weight]) = 100
    /\ \A k \in DOMAIN factors : factors[k].weight \in 0..100

NormalizeWeights(factors) ==
    LET sum == Total([k \in DOMAIN factors |-> factors[k].weight])
    IN [k \in DOMAIN factors |->
          [factors[k] EXCEPT !.weight = IF sum = 0 THEN 100 \div Len(factors)
                                        ELSE (100 * factors[k].weight) \div sum]]

RankingStats(scores) ==
    LET n == Len(scores)
        sorted == SortSeq(scores, LAMBDA a, b : a < b)
    IN [mean |-> Mean(scores),
        median |-> IF n % 2 = 0 THEN (sorted[n \div 2] + sorted[n \div 2 + 1]) \div 2
                   ELSE sorted[n \div 2 + 1]]
=============================================================================
