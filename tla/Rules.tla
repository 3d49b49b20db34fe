-------------------------------- MODULE Rules --------------------------------
(***************************************************************************)
(* The rule engine of the strategy package: it scores a stock by the rules *)
(* that match it.  Data is a function from fields to values, None when the *)
(* field (or a part of its path) is absent.                                *)
(***************************************************************************)
EXTENDS Ratios

CONSTANT None,      \* an absent value
         Groups     \* the groups of conditions of the rules, nested ones included

Known(x) == x # None

Holds(condition, data) ==
    LET actual == data[condition.field]  expected == condition.value
    IN /\ Known(actual)
       /\ Compare(condition.op, actual, expected)

\* An empty group holds; negation comes last.
GroupHolds(group, data) ==
    LET results(g, holds) == {Holds(c, data) : c \in g.conditions} \cup {holds[h] : h \in g.groups}
        combined(g, rs) == IF rs = {} THEN TRUE
                           ELSE IF g.op = "AND" THEN FALSE \notin rs ELSE TRUE \in rs
        holds[g \in Groups] == combined(g, results(g, holds)) # g.negate
    IN holds[group]

SignalScore ==
    [STRONG_BUY |-> 100, BUY |-> 75, HOLD |-> 50, REDUCE |-> 25, SELL |-> 0,
     STRONG_SELL |-> -25, WATCH |-> 50, IGNORE |-> 50]

SignalNames == <<"STRONG_SELL", "SELL", "REDUCE", "HOLD", "BUY", "STRONG_BUY">>

\* Rank in SignalNames of an average score given as a fraction of hundredths.
SignalRank(average) ==
    1 + Count(<<-10, 20, 45, 65, 90>>, LAMBDA bound : AtLeast(average, bound))

\* A rule counts when SOME matched rule has its name.
RuleScore(rules, data) ==
    LET matchedNames == {rules[i].name : i \in {j \in DOMAIN rules : GroupHolds(rules[j].when, data)}}
        earned == Total([i \in DOMAIN rules |->
                    IF rules[i].name \in matchedNames THEN SignalScore[rules[i].signal] * rules[i].weight ELSE 0])
        weight == Total([i \in DOMAIN rules |-> rules[i].weight])
    IN IF weight > 0 THEN Ratio(earned, weight) ELSE Whole(50)

Matched(rules, data) == Count(rules, LAMBDA rule : GroupHolds(rule.when, data))

\* Signal and confidence in percent, rounded down.
EvaluateSymbol(rules, data) ==
    IF rules = <<>> THEN [signal |-> 4, confidence |-> 0]
    ELSE [signal |-> SignalRank(RuleScore(rules, data)),
          confidence |-> (100 * Matched(rules, data)) \div Len(rules)]

\* Most confident first; equally confident ones keep their order.
EvaluateAndRank(rules, stocks) ==
    LET result == [i \in DOMAIN stocks |->
                     [stock |-> i, signal |-> EvaluateSymbol(rules, stocks[i])]]
        before(i) == {j \in DOMAIN result :
                        \/ result[j].signal.confidence > result[i].signal.confidence
                        \/ result[j].signal.confidence = result[i].signal.confidence /\ j < i}
    IN At(result, Ordered(DOMAIN result, [i \in DOMAIN result |-> before(i)]))

\* One condition on one field (create_rule and its specialised forms).
CreateRule(name, field, op, value, signal, weight) ==
    [name |-> name, signal |-> signal, weight |-> weight,
     when |-> [op |-> "AND", negate |-> FALSE, groups |-> {},
               conditions |-> {[field |-> field, op |-> op, value |-> value]}]]
=============================================================================
