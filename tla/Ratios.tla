------------------------------- MODULE Ratios -------------------------------
(***************************************************************************)
(* Numbers of the calculation modules.  The code computes with binary      *)
(* floating point; the models compute exactly, with fractions of integers, *)
(* wherever a threshold is compared, and in hundredths (rounded down)      *)
(* where a number is only carried along.                                   *)
(***************************************************************************)
EXTENDS Integers, Sequences, FiniteSets

\* A fraction, kept with a positive denominator.
Ratio(n, d) == IF d < 0 THEN [num |-> -n, den |-> -d] ELSE [num |-> n, den |-> d]

Whole(n) == Ratio(n, 1)

Plus(p, q)  == [num |-> p.num * q.den + q.num * p.den, den |-> p.den * q.den]
Times(n, q) == [num |-> n * q.num, den |-> q.den]
More(p, q)  == p.num * q.den > q.num * p.den
Same(p, q)  == p.num * q.den = q.num * p.den

AtLeast(q, t) == q.num >= t * q.den
Above(q, t)   == q.num > t * q.den
AtMost(q, t)  == ~Above(q, t)
Below(q, t)   == ~AtLeast(q, t)

Floor(q) == q.num \div q.den

\* max(lo, min(hi, q)) for whole bounds.
ClampRatio(q, lo, hi) ==
    IF Above(q, hi) THEN Whole(hi) ELSE IF Below(q, lo) THEN Whole(lo) ELSE q

Clamp(x, lo, hi) == IF x > hi THEN hi ELSE IF x < lo THEN lo ELSE x
Abs(x) == IF x < 0 THEN -x ELSE x
Smaller(x, y) == IF x <= y THEN x ELSE y
Larger(x, y)  == IF x >= y THEN x ELSE y

\* The comparison operators of screens and rules; BETWEEN takes a pair.
Compare(op, actual, expected) ==
    CASE op = "EQ"  -> actual = expected
      [] op = "NEQ" -> actual # expected
      [] op = "GT"  -> actual > expected
      [] op = "GTE" -> actual >= expected
      [] op = "LT"  -> actual < expected
      [] op = "LTE" -> actual <= expected
      [] op = "IN"     -> actual \in expected
      [] op = "NOT_IN" -> actual \notin expected
      [] op = "BETWEEN" -> expected[1] <= actual /\ actual <= expected[2]

\* The whole part of a square root.
Root(n) == CHOOSE r \in 0..n : r * r <= n /\ n < (r + 1) * (r + 1)

\* Sum of a sequence of integers.
Total(s) ==
    LET upTo[i \in 0..Len(s)] == IF i = 0 THEN 0 ELSE upTo[i - 1] + s[i]
    IN upTo[Len(s)]

\* b to the n, which the provers know nothing of.
Power(b, n) ==
    LET upTo[i \in 0..n] == IF i = 0 THEN 1 ELSE upTo[i - 1] * b
    IN upTo[n]

Count(s, P(_)) == Cardinality({i \in DOMAIN s : P(s[i])})

\* The members of a finite set in an order, which is given by the set of those
\* that come before each; and the members of a sequence at some of its places.
\* (The proofs need definitions that SelectSeq and SortSeq do not have there.)
Ordered(S, before) ==
    [k \in 1..Cardinality(S) |-> CHOOSE x \in S : Cardinality(before[x]) = k - 1]
InOrder(places) == Ordered(places, [i \in places |-> {j \in places : j < i}])
At(s, order) == [k \in DOMAIN order |-> s[order[k]]]
Pick(s, places) == At(s, InOrder(places))

\* The last n members (all of them when there are fewer), and all but the last.
LastOf(s, n) == SubSeq(s, Larger(1, Len(s) - n + 1), Len(s))

Highest(s) == CHOOSE x \in {s[i] : i \in DOMAIN s} : \A i \in DOMAIN s : s[i] <= x
Lowest(s)  == CHOOSE x \in {s[i] : i \in DOMAIN s} : \A i \in DOMAIN s : s[i] >= x

\* Mean and population standard deviation, rounded down.
Mean(s) == IF s = <<>> THEN 0 ELSE Total(s) \div Len(s)
Deviation(s) ==
    IF s = <<>> THEN 0
    ELSE LET mean == Mean(s)
         IN Root(Total([i \in DOMAIN s |-> (s[i] - mean) * (s[i] - mean)]) \div Len(s))
=============================================================================
