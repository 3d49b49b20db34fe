---------------------------- MODULE AdviceProofs ----------------------------
(***************************************************************************)
(* Proofs about a round of advice (Advice): that the gates of the          *)
(* composite engine reach the orders, that the capital is handed out once  *)
(* and in order, what approval asks of a stop, and that asking for less    *)
(* keeps a strategy's approval.                                            *)
(*                                                                         *)
(* Nearly every number in the chain is made of constants that a condition  *)
(* chooses; what needs a proof is that it is an integer at all (the scores *)
(* add up a varying number of parts, the confidence depends on how many    *)
(* warnings there are), because the ranking compares confidences and       *)
(* grades, and the plan subtracts prices.                                  *)
(***************************************************************************)
EXTENDS Advice, FoldLemmas

-----------------------------------------------------------------------------
(* Sets and sequences of parts.                                            *)

LEMMA FiniteImage ==
  ASSUME NEW I, IsFiniteSet(I), NEW f
  PROVE  IsFiniteSet({f[i] : i \in I})
<1> DEFINE T == {f[i] : i \in I}
           g == [i \in I |-> f[i]]
<1>1. g \in Surjection(I, T)
  BY DEF Surjection
<1> QED BY <1>1, FS_Surjection

LEMMA FiniteFamily ==
  ASSUME NEW I, IsFiniteSet(I), NEW f, \A i \in I : IsFiniteSet(f[i])
  PROVE  IsFiniteSet(UNION {f[i] : i \in I})
<1>1. IsFiniteSet({f[i] : i \in I})
  BY FiniteImage
<1>2. \A T \in {f[i] : i \in I} : IsFiniteSet(T)
  OBVIOUS
<1> QED BY <1>1, <1>2, FS_UNION

\* A part whose points are an integer and whose warnings are finitely many.
PartOK(part) == part.points \in Int /\ IsFiniteSet(part.warnings)
PartsOK(parts) == \E A : parts \in Seq(A) /\ \A part \in A : PartOK(part)

LEMMA PartIsOK ==
  /\ \A points \in Int : \A warnings : IsFiniteSet(warnings) => PartOK(Part(points, warnings))
  /\ \A points \in Int : PartOK(Silent(points))
  /\ \A warning : PartOK(Missing(warning))
<1>1. \A warning : IsFiniteSet({warning})
  BY FS_Singleton
<1>2. IsFiniteSet({})
  BY FS_EmptySet
<1> QED BY <1>1, <1>2 DEF PartOK, Part, Silent, Missing

LEMMA PartsTogether ==
  ASSUME NEW s, NEW t, PartsOK(s), PartsOK(t)
  PROVE  PartsOK(s \o t)
<1>1. PICK A : s \in Seq(A) /\ \A part \in A : PartOK(part)
  BY DEF PartsOK
<1>2. PICK B : t \in Seq(B) /\ \A part \in B : PartOK(part)
  BY DEF PartsOK
<1>3. s \in Seq(A \cup B) /\ t \in Seq(A \cup B)
  BY <1>1, <1>2
<1>4. s \o t \in Seq(A \cup B)
  BY <1>3
<1>5. \A part \in A \cup B : PartOK(part)
  BY <1>1, <1>2
<1> QED BY <1>4, <1>5 DEF PartsOK

LEMMA FewPartsAreOK ==
  ASSUME NEW a, NEW b, NEW c, NEW d, NEW e, NEW f,
         PartOK(a), PartOK(b), PartOK(c), PartOK(d), PartOK(e), PartOK(f)
  PROVE  /\ PartsOK(<<a>>)
         /\ PartsOK(<<a, b>>)
         /\ PartsOK(<<a, b, c>>)
         /\ PartsOK(<<a, b, c, d>>)
         /\ PartsOK(<<a, b, c, d, e>>)
         /\ PartsOK(<<a, b, c, d, e, f>>)
<1> DEFINE A == {a, b, c, d, e, f}
<1>1. \A part \in A : PartOK(part)
  OBVIOUS
<1>2. /\ <<a>> \in Seq(A)
      /\ <<a, b>> \in Seq(A)
      /\ <<a, b, c>> \in Seq(A)
      /\ <<a, b, c, d>> \in Seq(A)
      /\ <<a, b, c, d, e>> \in Seq(A)
      /\ <<a, b, c, d, e, f>> \in Seq(A)
  OBVIOUS
<1> HIDE DEF A
<1> QED BY <1>1, <1>2 DEF PartsOK

LEMMA PartsAddUp ==
  ASSUME NEW parts, PartsOK(parts)
  PROVE  Sum(parts) \in Int /\ IsFiniteSet(Warnings(parts))
<1>1. PICK A : parts \in Seq(A) /\ \A part \in A : PartOK(part)
  BY DEF PartsOK
<1>2. /\ Len(parts) \in Nat /\ DOMAIN parts = 1 .. Len(parts)
      /\ \A i \in 1 .. Len(parts) : PartOK(parts[i])
  BY <1>1
<1>3. Sum(parts) \in Int
  <2> DEFINE points == [i \in DOMAIN parts |-> parts[i].points]
  <2>1. points \in Seq(Int) /\ Len(points) = Len(parts)
    BY <1>2 DEF PartOK
  <2>2. \A i \in 1 .. Len(parts) : points[i] \in Int
    BY <1>2 DEF PartOK
  <2>3. Sum(parts) = Total(points)
    BY DEF Sum
  <2> HIDE DEF points
  <2> QED BY <1>2, <2>1, <2>2, <2>3, TotalIsSum
<1>4. IsFiniteSet(Warnings(parts))
  <2> DEFINE raised == [i \in DOMAIN parts |-> parts[i].warnings]
  <2>1. IsFiniteSet(DOMAIN parts)
    BY <1>2, FS_Interval
  <2>2. \A i \in DOMAIN parts : IsFiniteSet(raised[i])
    BY <1>2 DEF PartOK
  <2>3. Warnings(parts) = UNION {raised[i] : i \in DOMAIN parts}
    BY DEF Warnings
  <2> HIDE DEF raised
  <2> QED BY <2>1, <2>2, <2>3, FiniteFamily
<1> QED BY <1>3, <1>4

LEMMA ClampType ==
  /\ \A x, lo, hi \in Int : Clamp(x, lo, hi) \in Int
  /\ \A x, lo, hi \in Int : lo <= hi => lo <= Clamp(x, lo, hi) /\ Clamp(x, lo, hi) <= hi
  /\ \A x, y \in Int : Smaller(x, y) \in Int /\ Larger(x, y) \in Int
BY DEF Clamp, Smaller, Larger

\* Graded answers with one of its values.
LEMMA GradedIsValue ==
  ASSUME NEW V, NEW x, NEW n \in Nat, NEW steps, DOMAIN steps = 1 .. n,
         \A i \in 1 .. n : steps[i][2] \in V, NEW otherwise \in V
  PROVE  Graded(x, steps, otherwise) \in V
<1> DEFINE reached == {i \in DOMAIN steps : x >= steps[i][1]}
           first == CHOOSE i \in reached : \A j \in reached : i <= j
<1>1. Graded(x, steps, otherwise) = IF reached = {} THEN otherwise ELSE steps[first][2]
  BY DEF Graded
<1>2. reached \in SUBSET (1 .. n) /\ reached \in SUBSET Nat
  OBVIOUS
<1>3. CASE reached # {}
  <2> HIDE DEF reached
  <2>1. \E i \in reached : \A j \in reached : i <= j
    BY <1>2, <1>3, LeastElement
  <2>2. first \in reached
    BY <2>1
  <2> HIDE DEF first
  <2> QED BY <1>1, <1>2, <1>3, <2>2
<1> HIDE DEF reached, first
<1> QED BY <1>1, <1>3

\* How many members of a list pass a test.
LEMMA CountType ==
  ASSUME NEW n \in Nat, NEW S \in SUBSET (1 .. n)
  PROVE  Cardinality(S) \in Nat /\ Cardinality(S) <= n
<1>1. IsFiniteSet(1 .. n) /\ Cardinality(1 .. n) = n
  BY FS_Interval
<1> QED BY <1>1, FS_Subset, FS_CardinalityType

-----------------------------------------------------------------------------
(* The five assessments.                                                   *)

LEMMA PointsType ==
  /\ \A n \in Int : Points(n) \in Int
  /\ Points(0) \in Int /\ Points(3) \in Int /\ Points(5) \in Int /\ Points(7) \in Int
  /\ Points(8) \in Int /\ Points(10) \in Int /\ Points(15) \in Int /\ Points(20) \in Int
  /\ Points(-5) \in Int /\ Points(100) \in Int /\ 0 \in Int
BY DEF Points, PerPoint

LEMMA QuotientType ==
  \A a, b, d \in Int : d > 0 => (a * b) \div d \in Int
OBVIOUS

\* MarketRegimeEngine's readings are parts.
LEMMA RegimePartsOK ==
  ASSUME NEW m
  PROVE  /\ PartsOK(RegimeTrend(m)) /\ PartsOK(RegimeMomentum(m))
         /\ PartsOK(RegimeBreadth(m)) /\ PartsOK(RegimeVix(m))
<1>1. PartsOK(RegimeTrend(m))
  <2> DEFINE a == Reading(m.nifty.sma200, LAMBDA v : m.nifty.price > v, 15, "nifty sma200")
             b == Reading(m.midcap.sma200, LAMBDA v : m.midcap.price > v, 10, "midcap sma200")
             c == Reading(m.smallcap.sma200, LAMBDA v : m.smallcap.price > v, 10, "smallcap sma200")
             d == Reading(m.nifty.ema20, LAMBDA v : m.nifty.price > v, 5, "nifty ema20")
             e == Reading(m.nifty.ema50, LAMBDA v : m.nifty.price > v, 5, "nifty ema50")
  <2>1. PartOK(a) /\ PartOK(b) /\ PartOK(c) /\ PartOK(d) /\ PartOK(e)
    BY PointsType, PartIsOK, Zenon DEF Reading
  <2>2. RegimeTrend(m) = <<a, b, c, d, e>>
    BY Zenon DEF RegimeTrend
  <2> HIDE DEF a, b, c, d, e
  <2> QED BY <2>1, <2>2, FewPartsAreOK
<1>2. PartsOK(RegimeMomentum(m))
  BY PointsType, PartIsOK, FewPartsAreOK, Zenon DEF RegimeMomentum, Reading
<1>3. PartsOK(RegimeBreadth(m))
  BY PointsType, PartIsOK, FewPartsAreOK, Zenon DEF RegimeBreadth, Reading
<1>4. PartsOK(RegimeVix(m))
  BY PointsType, PartIsOK, FewPartsAreOK, Zenon DEF RegimeVix
<1> QED BY <1>1, <1>2, <1>3, <1>4

LEMMA RegimeType ==
  ASSUME NEW m
  PROVE  MarketRegime(m).score \in Int /\ IsFiniteSet(MarketRegime(m).warnings)
<1> DEFINE parts == RegimeTrend(m) \o RegimeMomentum(m) \o RegimeBreadth(m) \o RegimeVix(m)
<1>1. PartsOK(parts)
  <2>1. PartsOK(RegimeTrend(m) \o RegimeMomentum(m))
    BY RegimePartsOK, PartsTogether
  <2>2. PartsOK((RegimeTrend(m) \o RegimeMomentum(m)) \o RegimeBreadth(m))
    BY <2>1, RegimePartsOK, PartsTogether
  <2> QED BY <2>2, RegimePartsOK, PartsTogether
<1> DEFINE score == Clamp(Sum(parts), 0, Points(100))
           warnings == Warnings(parts)
           confidence == ClampConfidence(100 - 5 * Cardinality(warnings))
<1>2. MarketRegime(m) = [score |-> score, class |-> RegimeOf(score), warnings |-> warnings,
                         confidence |-> confidence]
  BY Zenon DEF MarketRegime
<1> HIDE DEF confidence
<1>3. MarketRegime(m).score = score /\ MarketRegime(m).warnings = warnings
  BY <1>2
<1> HIDE DEF parts
<1>4. Sum(parts) \in Int /\ IsFiniteSet(Warnings(parts))
  BY <1>1, PartsAddUp, Zenon
<1>5. Clamp(Sum(parts), 0, Points(100)) \in Int
  BY <1>4, ClampType, PointsType
<1> QED BY <1>3, <1>4, <1>5, Zenon

LEMMA VsBenchmarkOK ==
  ASSUME NEW stock, NEW peer, NEW points \in Int
  PROVE  PartOK(VsBenchmark(stock, peer, points))
<1>1. /\ Points(points) \in Int /\ (Points(points) * 67) \div 100 \in Int
      /\ (Points(points) * 33) \div 100 \in Int
  BY PointsType
<1>2. LeadPoints(WeightedReturn(stock), WeightedReturn(peer), points) \in Int
  BY <1>1, PointsType DEF LeadPoints
<1> QED BY <1>2, PointsType, PartIsOK, Zenon DEF VsBenchmark

LEMMA PeerOK ==
  ASSUME NEW s, NEW peer, NEW points \in Int, NEW warning
  PROVE  PartOK(Peer(s, peer, points, warning))
<1>1. PartOK(VsBenchmark(s.stock, peer, points)) /\ PartOK(Missing(warning))
  BY VsBenchmarkOK, PartIsOK
<1> QED BY <1>1, Zenon DEF Peer

\* RelativeStrengthEngine.
LEMMA StrengthType ==
  ASSUME NEW s
  PROVE  RelativeStrength(s).score \in Int /\ IsFiniteSet(RelativeStrength(s).warnings)
<1> DEFINE onMarket == VsBenchmark(s.stock, s.market, 30)
           sector   == Peer(s, s.sector, 25, "no sector")
           industry == Peer(s, s.industry, 15, "no industry")
           parts    == <<onMarket, sector, industry, DistanceFromHigh(s), RelativeMomentum(s)>>
           warnings == Warnings(parts) \cup ShortHistory(s) \cup MissingReturns(s)
           score    == Clamp(Sum(parts), 0, Points(100))
<1>1. PartOK(onMarket) /\ PartOK(sector) /\ PartOK(industry)
  <2>1. 30 \in Int /\ 25 \in Int /\ 15 \in Int
    OBVIOUS
  <2> QED BY <2>1, VsBenchmarkOK, PeerOK, Zenon
<1>2. PartOK(DistanceFromHigh(s))
  BY PointsType, PartIsOK, Zenon DEF DistanceFromHigh
<1>3. PartOK(RelativeMomentum(s))
  BY PointsType, PartIsOK, Zenon DEF RelativeMomentum
<1>4. PartsOK(parts)
  <2> HIDE DEF onMarket, sector, industry
  <2> QED BY <1>1, <1>2, <1>3, FewPartsAreOK
<1>5. IsFiniteSet(ShortHistory(s))
  BY FS_Singleton, FS_EmptySet, Zenon DEF ShortHistory
<1>6. IsFiniteSet(MissingReturns(s))
  <2> DEFINE who == {w \in {"stock", "market"} : s[w].m1 = None /\ s[w].y1 = None}
             says == [w \in who |-> "no returns " \o w]
  <2>1. IsFiniteSet({"stock"}) /\ IsFiniteSet({"market"})
    BY FS_Singleton
  <2>2. IsFiniteSet({"stock"} \cup {"market"})
    BY <2>1, FS_Union
  <2>3. who \in SUBSET ({"stock"} \cup {"market"})
    OBVIOUS
  <2>4. IsFiniteSet(who)
    BY <2>2, <2>3, FS_Subset
  <2>5. MissingReturns(s) = {says[w] : w \in who}
    BY Zenon DEF MissingReturns
  <2> HIDE DEF who, says
  <2> QED BY <2>4, <2>5, FiniteImage
<1> DEFINE confidence == ClampConfidence(100 - 5 * Cardinality(warnings)
                         - (IF Known(s.history) /\ s.history < 100 THEN 10 ELSE 0))
           fromSector == IF Known(s.sector) THEN industry.points ELSE 0
<1>7. RelativeStrength(s) =
        [score |-> score, leadership |-> LeadershipOf(score), warnings |-> warnings,
         market |-> onMarket.points, sector |-> sector.points, industry |-> fromSector,
         high |-> DistanceFromHigh(s).points, momentum |-> RelativeMomentum(s).points,
         confidence |-> confidence]
  BY Zenon DEF RelativeStrength
<1> HIDE DEF confidence, fromSector, parts, onMarket, sector, industry
<1>8. RelativeStrength(s).score = score /\ RelativeStrength(s).warnings = warnings
  BY <1>7
<1>9. Sum(parts) \in Int /\ IsFiniteSet(Warnings(parts))
  BY <1>4, PartsAddUp, Zenon
<1>10. score \in Int
  BY <1>9, ClampType, PointsType
<1>11. IsFiniteSet(warnings)
  BY <1>5, <1>6, <1>9, FS_Union
<1> QED BY <1>8, <1>10, <1>11, Zenon

\* The averages or slopes that are known.
LEMMA KnownOfType ==
  ASSUME NEW s \in Seq(Int \cup {None})
  PROVE  KnownOf(s) \in Seq(Int)
<1> DEFINE places == {i \in DOMAIN s : Known(s[i])}
<1>1. DOMAIN s = 1 .. Len(s) /\ Len(s) \in Nat
  OBVIOUS
<1>2. IsFiniteSet(places) /\ places \in SUBSET Int
  <2>1. IsFiniteSet(1 .. Len(s))
    BY <1>1, FS_Interval
  <2> QED BY <1>1, <2>1, FS_Subset
<1>3. \A i \in places : s[i] \in Int
  BY DEF Known
<1>4. KnownOf(s) = Pick(s, places)
  BY DEF KnownOf
<1> HIDE DEF places
<1> QED BY <1>2, <1>3, <1>4, PickIsSequence

\* What AdviceAssumption says of a snapshot.
SnapshotOK(stock) ==
  /\ stock.trend.averages \in Seq(Int \cup {None}) /\ stock.trend.slopes \in Seq(Int \cup {None})
  /\ stock.trend.hh \in Int \cup {None} /\ stock.trend.hl \in Int \cup {None}
  /\ stock.pattern.pivot \in Int \cup {None} /\ stock.pattern.atr \in Int \cup {None}

LEMMA AlignmentOK ==
  ASSUME NEW t, t.averages \in Seq(Int \cup {None})
  PROVE  PartOK(Alignment(t))
<1> DEFINE avg == KnownOf(t.averages)
           falls == {i \in 1 .. Len(avg) - 1 : avg[i] > avg[i + 1]}
           points == (Points(20) * Cardinality(falls)) \div (Len(avg) - 1)
<1>1. Alignment(t) = IF Len(avg) < 2 THEN Missing("averages for alignment") ELSE Silent(points)
  BY Zenon DEF Alignment
<1>2. avg \in Seq(Int)
  BY KnownOfType
<1>3. ASSUME ~(Len(avg) < 2) PROVE points \in Int
  <2> HIDE DEF avg
  <2>1. Len(avg) - 1 \in Nat /\ Len(avg) - 1 > 0
    BY <1>2, <1>3
  <2>2. Cardinality(falls) \in Nat
    BY <2>1, CountType
  <2>3. Cardinality(falls) \in Int /\ Len(avg) - 1 \in Int /\ Points(20) \in Int
    BY <2>1, <2>2, PointsType
  <2> HIDE DEF falls
  <2> QED BY <2>1, <2>3, QuotientType
<1> HIDE DEF avg, points
<1> QED BY <1>1, <1>3, PartIsOK, Zenon

LEMMA PricePositionOK ==
  ASSUME NEW t, t.averages \in Seq(Int \cup {None})
  PROVE  PartOK(PricePosition(t))
<1> DEFINE avg == KnownOf(t.averages)
           below == {i \in DOMAIN avg : t.price > avg[i]}
           points == (Points(15) * Cardinality(below)) \div Len(avg)
<1>1. PricePosition(t) = IF avg = <<>> THEN Missing("averages for position") ELSE Silent(points)
  BY Zenon DEF PricePosition, Count
<1>2. avg \in Seq(Int)
  BY KnownOfType
<1>3. ASSUME avg # <<>> PROVE points \in Int
  <2> HIDE DEF avg
  <2>1. Len(avg) \in Nat /\ Len(avg) > 0 /\ DOMAIN avg = 1 .. Len(avg)
    BY <1>2, <1>3
  <2>2. Cardinality(below) \in Nat
    BY <2>1, CountType
  <2>3. Cardinality(below) \in Int /\ Len(avg) \in Int /\ Points(15) \in Int
    BY <2>1, <2>2, PointsType
  <2> HIDE DEF below
  <2> QED BY <2>1, <2>3, QuotientType
<1> HIDE DEF avg, points
<1> QED BY <1>1, <1>3, PartIsOK, Zenon

LEMMA SlopesOK ==
  ASSUME NEW t, t.slopes \in Seq(Int \cup {None})
  PROVE  PartOK(Slopes(t))
<1> DEFINE known == KnownOf(t.slopes)
           rising == {i \in DOMAIN known : known[i] > 0}
           points == (Points(20) * Cardinality(rising)) \div Len(known)
           falling == IF Known(t.slopes[4]) /\ t.slopes[4] < 0 THEN {"falling sma200"} ELSE {}
<1>1. Slopes(t) = IF known = <<>> THEN Missing("slopes") ELSE Part(points, falling)
  BY Zenon DEF Slopes, Count
<1>2. known \in Seq(Int)
  BY KnownOfType
<1>3. ASSUME known # <<>> PROVE points \in Int
  <2> HIDE DEF known
  <2>1. Len(known) \in Nat /\ Len(known) > 0 /\ DOMAIN known = 1 .. Len(known)
    BY <1>2, <1>3
  <2>2. Cardinality(rising) \in Nat
    BY <2>1, CountType
  <2>3. Cardinality(rising) \in Int /\ Len(known) \in Int /\ Points(20) \in Int
    BY <2>1, <2>2, PointsType
  <2> HIDE DEF rising
  <2> QED BY <2>1, <2>3, QuotientType
<1>4. IsFiniteSet(falling)
  BY FS_Singleton, FS_EmptySet, Zenon
<1> HIDE DEF known, points, falling
<1> QED BY <1>1, <1>3, <1>4, PartIsOK, Zenon

LEMMA StructureOK ==
  ASSUME NEW t, t.hh \in Int \cup {None}, t.hl \in Int \cup {None}
  PROVE  PartOK(Structure(t))
<1> DEFINE hh == IF Known(t.hh) THEN t.hh ELSE 0
           hl == IF Known(t.hl) THEN t.hl ELSE 0
           points == Smaller(Points(20), Points(4 * (hh + hl)))
           none == {w \in {"hh", "hl"} : t[w] = 0}
           says == [w \in none |-> "none " \o w]
           warnings == {says[w] : w \in none}
<1>1. Structure(t) = IF ~Known(t.hh) /\ ~Known(t.hl) THEN Missing("structure")
                     ELSE Part(points, warnings)
  <2>1. {"none " \o w : w \in none} = warnings
    BY Zenon
  <2> QED BY <2>1, Zenon DEF Structure
<1>2. points \in Int
  <2>1. hh \in Int /\ hl \in Int
    BY DEF Known
  <2> HIDE DEF hh, hl
  <2>2. 4 * (hh + hl) \in Int
    BY <2>1
  <2> QED BY <2>2, PointsType, ClampType
<1>3. IsFiniteSet(warnings)
  <2>1. IsFiniteSet({"hh"}) /\ IsFiniteSet({"hl"})
    BY FS_Singleton
  <2>2. IsFiniteSet({"hh"} \cup {"hl"})
    BY <2>1, FS_Union
  <2>3. none \in SUBSET ({"hh"} \cup {"hl"})
    OBVIOUS
  <2>4. IsFiniteSet(none)
    BY <2>2, <2>3, FS_Subset
  <2> HIDE DEF none, says
  <2> QED BY <2>4, FiniteImage
<1> HIDE DEF points, warnings
<1> QED BY <1>1, <1>2, <1>3, PartIsOK, Zenon

LEMMA PersistenceOK == ASSUME NEW t PROVE PartOK(Persistence(t))
<1> DEFINE steps == << <<120, 10>>, <<60, 8>>, << 20, 5>>, << 1, 2>> >>
           days == Graded(t.age, steps, 0)
<1>1. days \in Int
  <2>1. DOMAIN steps = 1 .. 4 /\ \A i \in 1 .. 4 : steps[i][2] \in Int
    OBVIOUS
  <2>2. 4 \in Nat /\ 0 \in Int
    OBVIOUS
  <2> HIDE DEF steps
  <2> QED BY <2>1, <2>2, GradedIsValue, Zenon
<1>2. Persistence(t) = Silent(IF ~Known(t.age) THEN 0 ELSE Points(days))
  BY Zenon DEF Persistence
<1> HIDE DEF days
<1> QED BY <1>1, <1>2, PointsType, PartIsOK, Zenon

LEMMA HighProximityOK == ASSUME NEW t PROVE PartOK(HighProximity(t))
<1>1. Points(12) \in Int /\ Points(4) \in Int
  BY PointsType
<1> QED BY <1>1, PointsType, PartIsOK, Zenon DEF HighProximity

\* TrendQualityEngine.
LEMMA TrendType ==
  ASSUME NEW t,
         t.averages \in Seq(Int \cup {None}), t.slopes \in Seq(Int \cup {None}),
         t.hh \in Int \cup {None}, t.hl \in Int \cup {None}
  PROVE  TrendQuality(t).score \in Int /\ IsFiniteSet(TrendQuality(t).warnings)
<1> DEFINE parts == <<Alignment(t), PricePosition(t), Slopes(t), Structure(t),
                      Persistence(t), HighProximity(t)>>
           extended == IF Extended(t) THEN {"extended"} ELSE {}
           short == IF Known(t.history) /\ t.history < 100
                    THEN {"short history " \o ToString(t.history)} ELSE {}
           warnings == Warnings(parts) \cup extended \cup short
           score == Clamp(Sum(parts), 0, Points(100))
           quality == QualityOf(score, "Broken")
           confidence == ClampConfidence(
            50 + Bonus(Alignment(t).points, Points(20), 15, 5) + Bonus(Slopes(t).points, Points(20), 15, 5)
               + Bonus(Structure(t).points, Points(16), 10, 3) + Bonus(Persistence(t).points, Points(8), 10, 3)
               - 4 * Cardinality(warnings)
               - (IF Known(t.history) /\ t.history < 200 THEN 5 ELSE 0))
<1>1. PartsOK(parts)
  BY AlignmentOK, PricePositionOK, SlopesOK, StructureOK, PersistenceOK, HighProximityOK,
     FewPartsAreOK
<1>2. IsFiniteSet(extended) /\ IsFiniteSet(short)
  BY FS_Singleton, FS_EmptySet, Zenon
<1>3. TrendQuality(t) = [score |-> score, quality |-> quality, stage |-> TrendStage(t, quality),
                         warnings |-> warnings, confidence |-> confidence]
  BY Zenon DEF TrendQuality
<1> HIDE DEF parts, extended, short, quality, confidence
<1>4. TrendQuality(t).score = score /\ TrendQuality(t).warnings = warnings
  BY <1>3
<1>5. Sum(parts) \in Int /\ IsFiniteSet(Warnings(parts))
  BY <1>1, PartsAddUp, Zenon
<1>6. score \in Int
  BY <1>5, ClampType, PointsType
<1>7. IsFiniteSet(warnings)
  BY <1>2, <1>5, FS_Union
<1> QED BY <1>4, <1>6, <1>7, Zenon

LEMMA RVolOK == ASSUME NEW v PROVE PartOK(RVol(v))
<1> DEFINE rvol == IF Known(v.rvol) THEN v.rvol ELSE Tenths(v.volume, v.average)
           steps == << <<20, 20>>, <<15, 16>>, <<12, 12>>, <<10, 8>> >>
           grade == Graded(rvol, steps, 4)
<1>1. grade \in Int
  <2>1. DOMAIN steps = 1 .. 4 /\ \A i \in 1 .. 4 : steps[i][2] \in Int
    OBVIOUS
  <2>2. 4 \in Nat /\ 4 \in Int
    OBVIOUS
  <2> HIDE DEF steps, rvol
  <2> QED BY <2>1, <2>2, GradedIsValue, Zenon
<1>2. RVol(v) = IF ~Known(v.rvol) /\ ~(v.volume > 0 /\ HasAverage(v))
                THEN Missing("volume history") ELSE Silent(Points(grade))
  BY Zenon DEF RVol
<1> HIDE DEF grade
<1> QED BY <1>1, <1>2, PointsType, PartIsOK, Zenon

LEMMA BreakoutVolumeOK == ASSUME NEW v PROVE PartOK(BreakoutVolume(v))
<1> DEFINE bv == v.breakout
           cp == v.close_position
           tq == v.trend_quality
           traded == Known(bv) /\ bv > 0
           ratio == Tenths(bv, v.average)
           volume == IF ~traded THEN Silent(0) ELSE IF ~HasAverage(v) THEN Silent(Points(5))
                     ELSE IF ratio >= 20 THEN Silent(Points(10)) ELSE IF ratio >= 15 THEN Silent(Points(7))
                     ELSE Part(Points(3), {"weak breakout"})
           judged(x, warning) ==
                     IF ~Known(x) THEN Silent(0) ELSE IF x >= 70 THEN Silent(Points(5))
                     ELSE IF x >= 50 THEN Silent(Points(3)) ELSE Missing(warning)
           confirmed == (Known(tq) /\ tq >= 70)
           unconfirmed == IF ~Known(bv) /\ ~Known(cp) /\ ~confirmed THEN {"unconfirmed"} ELSE {}
           closing == judged(cp, "weak close")
           trend == judged(tq, "poor trend")
           parts == <<volume, closing, trend>>
<1>1. BreakoutVolume(v) = Part(Smaller(Points(20), Sum(parts)), Warnings(parts) \cup unconfirmed)
  BY Zenon DEF BreakoutVolume
<1>2. PartOK(volume)
  <2>1. IsFiniteSet({"weak breakout"})
    BY FS_Singleton
  <2> QED BY <2>1, PointsType, PartIsOK, Zenon
<1>3. PartOK(closing) /\ PartOK(trend)
  BY PointsType, PartIsOK, Zenon
<1>4. IsFiniteSet(unconfirmed)
  BY FS_Singleton, FS_EmptySet, Zenon
<1>5. PartsOK(parts)
  <2> HIDE DEF volume, closing, trend
  <2> QED BY <1>2, <1>3, FewPartsAreOK
<1> HIDE DEF parts, unconfirmed
<1>6. Sum(parts) \in Int /\ IsFiniteSet(Warnings(parts))
  BY <1>5, PartsAddUp, Zenon
<1>7. Smaller(Points(20), Sum(parts)) \in Int
  BY <1>6, ClampType, PointsType
<1>8. IsFiniteSet(Warnings(parts) \cup unconfirmed)
  BY <1>4, <1>6, FS_Union
<1> QED BY <1>1, <1>7, <1>8, PartIsOK, Zenon

LEMMA DryUpOK == ASSUME NEW v PROVE PartOK(DryUp(v))
BY PointsType, PartIsOK, Zenon DEF DryUp

LEMMA AccumulationOK == ASSUME NEW v PROVE PartOK(Accumulation(v))
<1> DEFINE forDays == << <<6, 12>>, <<3, 8>>, << 1, 4>> >>
           forClose == << <<70, 4>>, <<50, 2>> >>
           days == Graded(v.accumulation, forDays, 0)
           position == Graded(v.close_position, forClose, 0)
           close == IF Known(v.close_position) THEN position ELSE 0
           vol   == IF ~(v.volume > 0 /\ HasAverage(v)) THEN 0
                    ELSE IF v.volume > v.average THEN 4
                    ELSE IF 10 * v.volume > 8 * v.average THEN 2 ELSE 0
           points == Points(Smaller(20, days + close + vol))
           warnings == IF v.accumulation < 1 THEN {"no accumulation"} ELSE {}
<1>1. Accumulation(v) = IF ~Known(v.accumulation) THEN Silent(0) ELSE Part(points, warnings)
  BY Zenon DEF Accumulation
<1>2. days \in Int
  <2>1. DOMAIN forDays = 1 .. 3 /\ \A i \in 1 .. 3 : forDays[i][2] \in Int
    OBVIOUS
  <2>2. 3 \in Nat /\ 0 \in Int
    OBVIOUS
  <2> HIDE DEF forDays
  <2> QED BY <2>1, <2>2, GradedIsValue, Zenon
<1>3. position \in Int
  <2>1. DOMAIN forClose = 1 .. 2 /\ \A i \in 1 .. 2 : forClose[i][2] \in Int
    OBVIOUS
  <2>2. 2 \in Nat /\ 0 \in Int
    OBVIOUS
  <2> HIDE DEF forClose
  <2> QED BY <2>1, <2>2, GradedIsValue, Zenon
<1> HIDE DEF days, position
<1>4. close \in Int
  BY <1>3
<1>5. vol \in Int
  <2>1. 0 \in Int /\ 2 \in Int /\ 4 \in Int
    OBVIOUS
  <2> QED BY <2>1, Zenon
<1> HIDE DEF close, vol
<1>6. points \in Int
  <2>1. days + close + vol \in Int /\ 20 \in Int
    BY <1>2, <1>4, <1>5
  <2> QED BY <2>1, ClampType, PointsType
<1>7. IsFiniteSet(warnings)
  BY FS_Singleton, FS_EmptySet, Zenon
<1> HIDE DEF points, warnings
<1> QED BY <1>1, <1>6, <1>7, PointsType, PartIsOK, Zenon

LEMMA DistributionOK == ASSUME NEW v PROVE Distribution(v).points \in Int
<1> DEFINE steps == << <<4, 15>>, <<2, 10>>, << 1, 5>> >>
           grade == Graded(v.distribution, steps, 0)
<1>1. grade \in Int
  <2>1. DOMAIN steps = 1 .. 3 /\ \A i \in 1 .. 3 : steps[i][2] \in Int
    OBVIOUS
  <2>2. 3 \in Nat /\ 0 \in Int
    OBVIOUS
  <2> HIDE DEF steps
  <2> QED BY <2>1, <2>2, GradedIsValue, Zenon
<1>2. Distribution(v) = Silent(IF ~Known(v.distribution) THEN 0 ELSE Points(grade))
  BY Zenon DEF Distribution
<1> HIDE DEF grade
<1>3. PartOK(Distribution(v))
  BY <1>1, <1>2, PointsType, PartIsOK, Zenon
<1> QED BY <1>3 DEF PartOK

LEMMA InstitutionalType ==
  ASSUME NEW a, NEW b, NEW c, NEW d, NEW e
  PROVE  Institutional(a, b, c, d, e) \in Int
<1> DEFINE signs == <<a.points >= Points(12), b.points >= Points(14), c.points >= Points(10),
                      d.points >= Points(12), e.points <= Points(5)>>
           shown == {i \in DOMAIN signs : signs[i]}
<1>1. Institutional(a, b, c, d, e) = Points(2 * Cardinality(shown))
  BY Zenon DEF Institutional, Count
<1>2. DOMAIN signs = 1 .. 5
  OBVIOUS
<1> HIDE DEF signs
<1>3. Cardinality(shown) \in Nat
  BY <1>2, CountType
<1> HIDE DEF shown
<1>4. 2 * Cardinality(shown) \in Int
  BY <1>3
<1> QED BY <1>1, <1>4, PointsType

\* VolumeEngine.
LEMMA VolumeType ==
  ASSUME NEW v
  PROVE  VolumeStrength(v).score \in Int /\ IsFiniteSet(VolumeStrength(v).warnings)
<1> DEFINE warned == <<RVol(v), BreakoutVolume(v), Accumulation(v)>>
           parts == <<RVol(v), BreakoutVolume(v), DryUp(v), Accumulation(v)>>
           signs == Institutional(RVol(v), BreakoutVolume(v), DryUp(v), Accumulation(v), Distribution(v))
           score == Clamp(Sum(parts) - Distribution(v).points + signs, 0, Points(100))
           contradictory == Accumulation(v).points >= Points(8) /\ Known(v.distribution) /\ v.distribution >= 2
           confidence == ClampConfidence(
            50 + Graded(RVol(v).points, << <<Points(16), 10>>, <<Points(12), 5>> >>, 0)
               + Graded(BreakoutVolume(v).points, << <<Points(14), 10>>, <<Points(10), 5>> >>, 0)
               + Graded(Accumulation(v).points, << <<Points(12), 10>>, <<Points(8), 5>> >>, 0)
               - 4 * Cardinality(Warnings(warned)) - (IF contradictory THEN 10 ELSE 0))
<1>1. PartsOK(warned) /\ PartsOK(parts)
  BY RVolOK, BreakoutVolumeOK, DryUpOK, AccumulationOK, FewPartsAreOK
<1>2. VolumeStrength(v) = [score |-> score, quality |-> QualityOf(score, "Poor"),
                           warnings |-> Warnings(warned), confidence |-> confidence]
  BY Zenon DEF VolumeStrength
<1>3. signs \in Int /\ Distribution(v).points \in Int
  BY InstitutionalType, DistributionOK
<1> HIDE DEF warned, parts, signs, confidence
<1>4. VolumeStrength(v).score = score /\ VolumeStrength(v).warnings = Warnings(warned)
  BY <1>2
<1>5. Sum(parts) \in Int /\ IsFiniteSet(Warnings(warned))
  BY <1>1, PartsAddUp, Zenon
<1>6. Sum(parts) - Distribution(v).points + signs \in Int
  BY <1>3, <1>5
<1>7. score \in Int
  BY <1>6, ClampType, PointsType
<1> QED BY <1>4, <1>5, <1>7, Zenon

-----------------------------------------------------------------------------
(* Patterns.                                                               *)

Price(x) == x \in Int \cup {None}

PatternOK(p) ==
  /\ p.score \in Int /\ p.confidence \in Int /\ IsFiniteSet(p.warnings)
  /\ Price(p.pivot) /\ Price(p.breakout) /\ Price(p.stop)

LEMMA PatternIsOK ==
  ASSUME NEW name, NEW s, Price(s.pivot), NEW parts, PartsOK(parts), NEW bonus \in Int
  PROVE  PatternOK(Pattern(name, s, parts, bonus))
<1>1. Sum(parts) \in Int /\ IsFiniteSet(Warnings(parts))
  BY PartsAddUp, Zenon
<1>2. Cardinality(Warnings(parts)) \in Nat
  BY <1>1, FS_CardinalityType
<1>3. Score100(parts) \in Int
  BY <1>1, ClampType DEF Score100
<1>4. PatternConfidence(bonus, parts) \in Int
  <2>1. 50 + bonus - 5 * Cardinality(Warnings(parts)) \in Int
    BY <1>2
  <2> QED BY <2>1, ClampType DEF PatternConfidence, ClampConfidence
<1>5. Price(None)
  BY DEF Price
<1> QED BY <1>1, <1>3, <1>4, <1>5 DEF Pattern, PatternOK

LEMMA FractionType ==
  /\ \A points, tenths \in Int : Fraction(points, tenths) \in Int
  /\ Fraction(35, 6) \in Int /\ Fraction(35, 2) \in Int /\ Fraction(20, 7) \in Int
  /\ Fraction(20, 3) \in Int /\ Fraction(20, 4) \in Int /\ Fraction(15, 6) \in Int
BY DEF Fraction

LEMMA PointNumbers ==
  /\ 0 \in Int /\ 5 \in Int /\ 10 \in Int /\ 15 \in Int /\ 20 \in Int
  /\ 25 \in Int /\ 35 \in Int /\ 40 \in Int
OBVIOUS

LEMMA RangePartOK ==
  ASSUME NEW s, NEW missing, NEW tight \in Int, NEW moderate \in Int, NEW wide
  PROVE  PartOK(RangePart(s, missing, tight, moderate, wide))
<1>1. IsFiniteSet({wide})
  BY FS_Singleton
<1> QED BY <1>1, PointNumbers, PartIsOK, Zenon DEF RangePart

LEMMA VolatilityPartOK ==
  ASSUME NEW s, NEW low, NEW high
  PROVE  PartOK(VolatilityPart(s, low, high))
<1>1. IsFiniteSet({"high volatility"})
  BY FS_Singleton
<1> QED BY <1>1, PointNumbers, PartIsOK, Zenon DEF VolatilityPart

LEMMA ContractionOK == ASSUME NEW s PROVE PartOK(Contraction(s))
<1> DEFINE cc == s.contractions
           vol == s.volatility
           counted == IF ~Known(cc) THEN Silent(0)
                      ELSE IF cc >= 4 THEN Silent(35) ELSE IF cc >= 2 THEN Silent(Fraction(35, 6))
                      ELSE Part(Fraction(35, 2), {"immature"})
           more == Part(Smaller(35, counted.points + 10), counted.warnings)
           less == Part(Larger(0, counted.points - 5), counted.warnings \cup {"high volatility"})
<1>1. IsFiniteSet({"immature"}) /\ IsFiniteSet({"high volatility"})
  BY FS_Singleton
<1>2. PartOK(counted)
  BY <1>1, PointNumbers, FractionType, PartIsOK, Zenon
<1>3. Contraction(s) = IF ~Known(cc) /\ ~Known(vol) THEN Missing("contraction data")
                       ELSE IF Known(vol) /\ vol < 15 THEN more
                       ELSE IF Known(vol) /\ vol > 30 THEN less ELSE counted
  BY Zenon DEF Contraction
<1> HIDE DEF counted
<1>4. counted.points \in Int /\ IsFiniteSet(counted.warnings)
  BY <1>2 DEF PartOK
<1>5. Smaller(35, counted.points + 10) \in Int /\ Larger(0, counted.points - 5) \in Int
  BY <1>4 DEF Smaller, Larger
<1>6. IsFiniteSet(counted.warnings \cup {"high volatility"})
  BY <1>1, <1>4, FS_Union
<1>7. PartOK(more) /\ PartOK(less)
  <2> DEFINE up == Smaller(35, counted.points + 10)
             down == Larger(0, counted.points - 5)
             raised == counted.warnings \cup {"high volatility"}
  <2>1. up \in Int /\ down \in Int /\ IsFiniteSet(raised)
    BY <1>5, <1>6
  <2> HIDE DEF up, down, raised
  <2>2. PartOK(Part(up, counted.warnings)) /\ PartOK(Part(down, raised))
    BY <1>4, <2>1, PartIsOK
  <2> QED BY <2>2 DEF up, down, raised
<1> HIDE DEF more, less
<1> QED BY <1>2, <1>3, <1>7, PartIsOK, Zenon

LEMMA VCPPartsOK ==
  ASSUME NEW s
  PROVE  /\ PartOK(VCPVolume(s)) /\ PartOK(VCPBreakout(s)) /\ PartOK(VCPTrend(s))
         /\ PartOK(VCPStrength(s))
<1>1. IsFiniteSet({"weak dry-up"})
  BY FS_Singleton
<1>2. PartOK(VCPVolume(s))
  BY <1>1, PointNumbers, FractionType, PartIsOK, Zenon DEF VCPVolume
<1>3. PartOK(VCPBreakout(s))
  BY PointNumbers, FractionType, PartIsOK, Zenon DEF VCPBreakout
<1>4. PartOK(VCPTrend(s))
  BY PointNumbers, FractionType, PartIsOK, Zenon DEF VCPTrend
<1>5. PartOK(VCPStrength(s))
  <2> DEFINE steps == << <<70, 10>>, <<50, 5>> >>
             grade == Graded(s.rs, steps, 0)
  <2>1. DOMAIN steps = 1 .. 2 /\ \A i \in 1 .. 2 : steps[i][2] \in Int
    OBVIOUS
  <2>2. 2 \in Nat /\ 0 \in Int
    OBVIOUS
  <2>3. VCPStrength(s) = Silent(IF ~Known(s.rs) THEN 0 ELSE grade)
    BY Zenon DEF VCPStrength
  <2> HIDE DEF steps
  <2>4. grade \in Int
    BY <2>1, <2>2, GradedIsValue, Zenon
  <2> HIDE DEF grade
  <2> QED BY <2>2, <2>3, <2>4, PartIsOK, Zenon
<1> QED BY <1>2, <1>3, <1>4, <1>5

\* Stop and breakout hang on the pivot and the ATR.
LEMMA PivotPrices ==
  ASSUME NEW s, Price(s.pivot), Price(s.atr)
  PROVE  Price(PivotStop(s)) /\ Price(PivotBreakout(s))
<1>1. ATR(s) \in Int
  BY DEF ATR, Price, Known
<1>2. (3 * ATR(s)) \div 2 \in Int /\ ATR(s) \div 10 \in Int
  BY <1>1
<1>3. CASE s.pivot = None
  BY <1>3 DEF Price, PivotStop, PivotBreakout, Known
<1>4. CASE s.pivot # None
  <2>1. s.pivot \in Int
    BY <1>4 DEF Price
  <2>2. s.pivot - (3 * ATR(s)) \div 2 \in Int /\ s.pivot + ATR(s) \div 10 \in Int
    BY <1>2, <2>1
  <2> QED BY <1>4, <2>2 DEF Price, PivotStop, PivotBreakout, Known
<1> QED BY <1>3, <1>4

LEMMA VCPOK ==
  ASSUME NEW s, Price(s.pivot), Price(s.atr)
  PROVE  PatternOK(VCP(s))
<1> DEFINE parts == <<Contraction(s), VCPVolume(s), VCPBreakout(s), VCPTrend(s), VCPStrength(s)>>
           first == Earned(Contraction(s).points >= 28, 15)
           second == Earned(VCPVolume(s).points >= 14, 10)
           third == Earned(VCPBreakout(s).points >= 14, 10)
           fourth == Earned(Known(s.trend_quality) /\ s.trend_quality >= 70, 10)
           fifth == Earned(Known(s.rs) /\ s.rs >= 70, 5)
           bonus == first + second + third + fourth + fifth
           plain == Pattern("VCP", s, parts, bonus)
<1>1. PartsOK(parts)
  BY ContractionOK, VCPPartsOK, FewPartsAreOK
<1>2. /\ first \in Int /\ second \in Int /\ third \in Int /\ fourth \in Int /\ fifth \in Int
  BY DEF Earned
<1>3. VCP(s) = [plain EXCEPT !.breakout = PivotBreakout(s), !.stop = PivotStop(s),
                             !.risk_reward = VCPRiskReward(s)]
  BY Zenon DEF VCP
<1> HIDE DEF parts, first, second, third, fourth, fifth
<1>4. bonus \in Int
  BY <1>2
<1> HIDE DEF bonus
<1>5. PatternOK(plain)
  BY <1>1, <1>4, PatternIsOK, Zenon
<1> DEFINE reward == VCPRiskReward(s)
<1> HIDE DEF reward
<1>6. VCP(s) = [name |-> "VCP", score |-> Score100(parts), confidence |-> PatternConfidence(bonus, parts),
                pivot |-> s.pivot, breakout |-> PivotBreakout(s), stop |-> PivotStop(s),
                risk_reward |-> reward, warnings |-> Warnings(parts)]
  BY <1>3 DEF Pattern, reward
<1> QED BY <1>5, <1>6, PivotPrices DEF PatternOK, Pattern

LEMMA FlatBaseOK ==
  ASSUME NEW s, Price(s.pivot)
  PROVE  PatternOK(FlatBase(s))
<1> DEFINE range == RangePart(s, "range data", 40, 25, "wide range")
           near(p) == WithinOfHigh(s.price, s.high_52w, p)
           proximity == IF ~Known(s.high_52w) \/ s.high_52w = 0 THEN Silent(0)
                        ELSE IF near(5) THEN Silent(35) ELSE IF near(10) THEN Silent(25)
                        ELSE IF near(20) THEN Silent(10) ELSE Missing("far from high")
           calm == VolatilityPart(s, 12, 20)
           steps == << <<35, 20>>, <<20, 10>> >>
           bonus == Graded(range.points, steps, 0)
           parts == <<range, proximity, calm>>
<1>1. PartOK(range) /\ PartOK(proximity) /\ PartOK(calm)
  BY RangePartOK, VolatilityPartOK, PointNumbers, PartIsOK, Zenon
<1>2. FlatBase(s) = Pattern("FlatBase", s, parts, bonus)
  BY Zenon DEF FlatBase
<1>3. DOMAIN steps = 1 .. 2 /\ (\A i \in 1 .. 2 : steps[i][2] \in Int) /\ 2 \in Nat /\ 0 \in Int
  OBVIOUS
<1> HIDE DEF range, proximity, calm, steps
<1>4. bonus \in Int
  BY <1>3, GradedIsValue, Zenon
<1>5. PartsOK(parts)
  BY <1>1, FewPartsAreOK
<1> HIDE DEF bonus, parts
<1> QED BY <1>2, <1>4, <1>5, PatternIsOK, Zenon

LEMMA AscendingTriangleOK ==
  ASSUME NEW s, Price(s.pivot)
  PROVE  PatternOK(AscendingTriangle(s))
<1> DEFINE calm == VolatilityPart(s, 15, 25)
           first == Earned(Resistance(s).points >= 30, 15)
           second == Earned(HigherLows(s).points >= 25, 15)
           bonus == first + second
           parts == <<Resistance(s), HigherLows(s), calm>>
<1>1. PartOK(Resistance(s))
  <2>1. IsFiniteSet({"no resistance"})
    BY FS_Singleton
  <2> QED BY <2>1, PointNumbers, PartIsOK, Zenon DEF Resistance
<1>2. PartOK(HigherLows(s))
  BY PointNumbers, PartIsOK, Zenon DEF HigherLows
<1>3. PartOK(calm)
  BY VolatilityPartOK
<1>4. AscendingTriangle(s) = Pattern("AscendingTriangle", s, parts, bonus)
  BY Zenon DEF AscendingTriangle
<1>5. first \in Int /\ second \in Int
  BY DEF Earned
<1> HIDE DEF calm, first, second
<1>6. PartsOK(parts)
  BY <1>1, <1>2, <1>3, FewPartsAreOK
<1>7. bonus \in Int
  BY <1>5
<1> HIDE DEF bonus, parts
<1> QED BY <1>4, <1>6, <1>7, PatternIsOK, Zenon

LEMMA CupHandleOK ==
  ASSUME NEW s, Price(s.pivot), Price(s.atr)
  PROVE  PatternOK(CupHandle(s))
<1> DEFINE first == Earned(Cup(s).points >= 30, 15)
           second == Earned(Handle(s).points >= 20, 10)
           bonus == first + second
           parts == <<Cup(s), Handle(s), HandleVolume(s)>>
           plain == Pattern("CupHandle", s, parts, bonus)
           breakout == IF Known(s.pivot) THEN (101 * s.pivot) \div 100 ELSE None
<1>1. IsFiniteSet({"weak cup"}) /\ IsFiniteSet({"deep handle"}) /\ IsFiniteSet({"weak handle volume"})
  BY FS_Singleton
<1>2. PartOK(Cup(s))
  BY <1>1, PointNumbers, PartIsOK, Zenon DEF Cup
<1>3. PartOK(Handle(s))
  BY <1>1, PointNumbers, PartIsOK, Zenon DEF Handle
<1>4. PartOK(HandleVolume(s))
  BY <1>1, PointNumbers, PartIsOK, Zenon DEF HandleVolume
<1>5. CupHandle(s) = [plain EXCEPT !.breakout = breakout, !.stop = PivotStop(s)]
  BY Zenon DEF CupHandle
<1>6. first \in Int /\ second \in Int
  BY DEF Earned
<1>7. Price(breakout)
  BY DEF Price, Known
<1> HIDE DEF first, second, breakout
<1>8. PartsOK(parts)
  BY <1>2, <1>3, <1>4, FewPartsAreOK
<1>9. bonus \in Int
  BY <1>6
<1> HIDE DEF bonus, parts
<1>10. PatternOK(plain)
  BY <1>8, <1>9, PatternIsOK, Zenon
<1>11. CupHandle(s) = [name |-> "CupHandle", score |-> Score100(parts),
                       confidence |-> PatternConfidence(bonus, parts), pivot |-> s.pivot,
                       breakout |-> breakout, stop |-> PivotStop(s), risk_reward |-> None,
                       warnings |-> Warnings(parts)]
  BY <1>5 DEF Pattern
<1> QED BY <1>7, <1>10, <1>11, PivotPrices DEF PatternOK, Pattern

LEMMA HighTightFlagOK ==
  ASSUME NEW s, Price(s.pivot)
  PROVE  PatternOK(HighTightFlag(s))
<1> DEFINE flag == RangePart(s, "flag data", 35, 20, "loose flag")
           first == Earned(Advance(s).points >= 30, 15)
           second == Earned(flag.points >= 20, 10)
           bonus == first + second
           parts == <<Advance(s), flag, Retracement(s)>>
<1>1. IsFiniteSet({"weak advance"}) /\ IsFiniteSet({"deep retracement"})
  BY FS_Singleton
<1>2. PartOK(Advance(s))
  BY <1>1, PointNumbers, PartIsOK, Zenon DEF Advance
<1>3. PartOK(Retracement(s))
  BY <1>1, PointNumbers, PartIsOK, Zenon DEF Retracement
<1>4. PartOK(flag)
  BY RangePartOK, PointNumbers, Zenon
<1>5. HighTightFlag(s) = Pattern("HighTightFlag", s, parts, bonus)
  BY Zenon DEF HighTightFlag
<1>6. first \in Int /\ second \in Int
  BY DEF Earned
<1> HIDE DEF flag, first, second
<1>7. PartsOK(parts)
  BY <1>2, <1>3, <1>4, FewPartsAreOK
<1>8. bonus \in Int
  BY <1>6
<1> HIDE DEF bonus, parts
<1> QED BY <1>5, <1>7, <1>8, PatternIsOK, Zenon

LEMMA DetectedOK ==
  ASSUME NEW s, Price(s.pivot), Price(s.atr)
  PROVE  /\ Len(Detected(s)) \in Nat /\ DOMAIN Detected(s) = 1 .. Len(Detected(s))
         /\ \A i \in 1 .. Len(Detected(s)) : PatternOK(Detected(s)[i])
<1> DEFINE A == {VCP(s), FlatBase(s), AscendingTriangle(s), CupHandle(s), HighTightFlag(s)}
           start == <<VCP(s), FlatBase(s), AscendingTriangle(s)>>
           cup == IF s.pivot = 0 /\ s.price # 0 THEN <<>> ELSE <<CupHandle(s)>>
           end == <<HighTightFlag(s)>>
<1>1. \A p \in A : PatternOK(p)
  BY VCPOK, FlatBaseOK, AscendingTriangleOK, CupHandleOK, HighTightFlagOK
<1>2. start \in Seq(A) /\ cup \in Seq(A) /\ end \in Seq(A)
  <2>1. /\ VCP(s) \in A /\ FlatBase(s) \in A /\ AscendingTriangle(s) \in A
        /\ CupHandle(s) \in A /\ HighTightFlag(s) \in A
    OBVIOUS
  <2> HIDE DEF A
  <2>2. start \in Seq(A) /\ end \in Seq(A)
    BY <2>1
  <2>3. <<>> \in Seq(A) /\ <<CupHandle(s)>> \in Seq(A)
    BY <2>1
  <2> QED BY <2>2, <2>3
<1>3. Detected(s) = start \o cup \o end
  BY Zenon DEF Detected
<1> HIDE DEF A, start, cup, end
<1>4. start \o cup \in Seq(A)
  BY <1>2
<1>5. (start \o cup) \o end \in Seq(A)
  BY <1>2, <1>4
<1>6. Detected(s) \in Seq(A)
  BY <1>3, <1>5
<1> QED BY <1>1, <1>6

\* The choice of the best has something to choose.
LEMMA BestExists ==
  ASSUME NEW n \in Nat, NEW all, DOMAIN all = 1 .. n, \A i \in 1 .. n : all[i].score \in Int,
         NEW found, found = {i \in DOMAIN all : all[i].score > 0}, found # {}
  PROVE  \E i \in found : BestOf(all, found) = all[i]
<1> DEFINE score == [i \in 1 .. n |-> all[i].score]
           best(i) == \A j \in found : \/ all[i].score > all[j].score
                                       \/ all[i].score = all[j].score /\ i <= j
<1>1. n \in Nat \ {0}
  OBVIOUS
<1>2. DOMAIN score = 1 .. n /\ \A i \in 1 .. n : score[i] \in Int
  OBVIOUS
<1>3. PICK k \in 1 .. n : \A i \in 1 .. n : score[i] <= score[k]
  <2> HIDE DEF score
  <2> QED BY <1>1, <1>2, HighestIsReached
<1> DEFINE T == {i \in found : all[i].score = all[k].score}
<1>4. k \in T
  <2>1. PICK i \in found : TRUE
    OBVIOUS
  <2>2. i \in 1 .. n /\ all[i].score > 0 /\ all[i].score <= all[k].score
    BY <1>3, <2>1
  <2> QED BY <2>2
<1>5. T \in SUBSET Nat /\ T # {}
  BY <1>4
<1>6. PICK i \in T : \A j \in T : i <= j
  <2> HIDE DEF T
  <2> QED BY <1>5, LeastElement
<1>7. best(i)
  <2> SUFFICES ASSUME NEW j \in found
               PROVE  \/ all[i].score > all[j].score
                      \/ all[i].score = all[j].score /\ i <= j
    OBVIOUS
  <2>1. j \in 1 .. n /\ score[j] <= score[k]
    BY <1>3
  <2>2. all[j].score <= all[i].score /\ all[j].score \in Int /\ all[i].score \in Int
    BY <1>6, <2>1
  <2>3. CASE all[j].score = all[i].score
    BY <1>6, <2>3
  <2> QED BY <2>2, <2>3
<1>8. i \in found
  BY <1>6
<1>9. BestOf(all, found) = all[CHOOSE m \in found : best(m)]
  BY Zenon DEF BestOf
<1> HIDE DEF best
<1>10. (CHOOSE m \in found : best(m)) \in found
  BY <1>7, <1>8
<1> QED BY <1>9, <1>10

LEMMA BestPatternOK ==
  ASSUME NEW s, Price(s.pivot), Price(s.atr)
  PROVE  PatternOK(BestPattern(s))
<1> DEFINE all == Detected(s)
           found == {i \in DOMAIN all : all[i].score > 0}
<1>1. BestPattern(s) = IF found = {} THEN NoPattern(s) ELSE BestOf(all, found)
  BY Zenon DEF BestPattern
<1>2. PatternOK(NoPattern(s))
  <2>1. IsFiniteSet({"no pattern"})
    BY FS_Singleton
  <2> DEFINE warnings == {"no pattern"}
  <2>2. NoPattern(s) = [name |-> "Unknown", score |-> 0, confidence |-> 0, pivot |-> None,
                        breakout |-> None, stop |-> None, risk_reward |-> None, warnings |-> warnings]
    BY Zenon DEF NoPattern
  <2>3. IsFiniteSet(warnings)
    BY <2>1
  <2> HIDE DEF warnings
  <2> QED BY <2>2, <2>3 DEF PatternOK, Price
<1>3. ASSUME found # {} PROVE PatternOK(BestOf(all, found))
  <2>1. /\ Len(all) \in Nat /\ DOMAIN all = 1 .. Len(all)
        /\ \A i \in 1 .. Len(all) : PatternOK(all[i])
    BY DetectedOK
  <2>2. \A i \in 1 .. Len(all) : all[i].score \in Int
    BY <2>1 DEF PatternOK
  <2>3. found \in SUBSET (1 .. Len(all))
    BY <2>1
  <2>4. found = {i \in DOMAIN all : all[i].score > 0}
    OBVIOUS
  <2> HIDE DEF all, found
  <2>5. PICK i \in found : BestOf(all, found) = all[i]
    BY <1>3, <2>1, <2>2, <2>4, BestExists
  <2> QED BY <2>1, <2>3, <2>5
<1> HIDE DEF found, all
<1> QED BY <1>1, <1>2, <1>3

-----------------------------------------------------------------------------
(* The composite, the plan and the risk check.                             *)

AssessedOK(r) ==
  /\ \A source \in {"market", "rs", "trend", "volume"} :
       r[source].score \in Int /\ IsFiniteSet(r[source].warnings)
  /\ PatternOK(r.pattern)

\* EvaluationPipeline.run's five assessments.
LEMMA EvaluatedOK ==
  ASSUME NEW place, NEW stock, SnapshotOK(stock)
  PROVE  AssessedOK(Evaluated([market |-> place, rs |-> stock.rs, trend |-> stock.trend,
                               pattern |-> stock.pattern, volume |-> stock.volume]))
<1> DEFINE onMarket == MarketRegime(place)
           rs == RelativeStrength(stock.rs)
           trend == TrendQuality(stock.trend)
           pattern == BestPattern(stock.pattern)
           volume == VolumeStrength(stock.volume)
           r == Evaluated([market |-> place, rs |-> stock.rs, trend |-> stock.trend,
                           pattern |-> stock.pattern, volume |-> stock.volume])
<1>1. /\ onMarket.score \in Int /\ IsFiniteSet(onMarket.warnings)
      /\ rs.score \in Int /\ IsFiniteSet(rs.warnings)
      /\ trend.score \in Int /\ IsFiniteSet(trend.warnings)
      /\ volume.score \in Int /\ IsFiniteSet(volume.warnings)
  BY RegimeType, StrengthType, TrendType, VolumeType DEF SnapshotOK
<1>2. PatternOK(pattern)
  BY BestPatternOK DEF SnapshotOK, Price
<1>3. r = [market |-> onMarket, rs |-> rs, trend |-> trend, pattern |-> pattern, volume |-> volume]
  BY DEF Evaluated
<1> HIDE DEF onMarket, rs, trend, pattern, volume, r
<1>4. AssessedOK(r)
  BY <1>1, <1>2, <1>3 DEF AssessedOK
<1> QED BY <1>4 DEF r

LEMMA RawType ==
  ASSUME NEW r, AssessedOK(r),
         NEW source \in {"market", "rs", "trend", "pattern", "volume"}
  PROVE  Raw(r, source) \in Int
<1>1. CASE source = "pattern"
  BY <1>1, PointsType DEF Raw, AssessedOK, PatternOK
<1>2. CASE source # "pattern"
  BY <1>2 DEF Raw, AssessedOK
<1> QED BY <1>1, <1>2

LEMMA SourcesFacts ==
  /\ DOMAIN Sources = 1 .. 5 /\ Len(Sources) = 5
  /\ \A i \in 1 .. 5 : Sources[i] \in {"market", "rs", "trend", "pattern", "volume"}
  /\ \A source \in {"market", "rs", "trend", "pattern", "volume"} : SourceWeight[source] \in Int
BY DEF Sources, SourceWeight

LEMMA OverallType ==
  ASSUME NEW r, AssessedOK(r)
  PROVE  Overall(r) \in Int /\ InHundredths(Overall(r)) \in Int
<1> DEFINE weighted == [i \in DOMAIN Sources |-> Weighted(r, Sources[i])]
<1>1. \A i \in 1 .. 5 : weighted[i] \in Int
  <2> TAKE i \in 1 .. 5
  <2>1. Sources[i] \in {"market", "rs", "trend", "pattern", "volume"}
    BY SourcesFacts
  <2>2. Raw(r, Sources[i]) \in Int /\ SourceWeight[Sources[i]] \in Int
    BY <2>1, RawType, SourcesFacts
  <2>3. weighted[i] = SourceWeight[Sources[i]] * Raw(r, Sources[i])
    BY SourcesFacts DEF Weighted
  <2> QED BY <2>2, <2>3
<1>2. Len(weighted) = 5
  BY SourcesFacts
<1>3. Overall(r) = Total(weighted)
  BY DEF Overall
<1> HIDE DEF weighted
<1>4. Overall(r) \in Int
  BY <1>1, <1>2, <1>3, TotalIsSum
<1>5. InHundredths(Overall(r)) \in Int
  BY <1>4 DEF InHundredths, PerPoint
<1> QED BY <1>4, <1>5

LEMMA CompositeWarningsFinite ==
  ASSUME NEW r, AssessedOK(r)
  PROVE  IsFiniteSet(CompositeWarnings(r))
<1> DEFINE S == {Sources[i] : i \in DOMAIN Sources}
           raised == [s \in S |-> IF Known(r[s]) THEN r[s].warnings ELSE {"missing " \o s}]
<1>1. IsFiniteSet(S)
  <2>1. IsFiniteSet(1 .. 5)
    BY FS_Interval, 1 \in Int, 5 \in Int, Zenon
  <2>2. IsFiniteSet(DOMAIN Sources)
    BY <2>1, SourcesFacts, Zenon
  <2> QED BY <2>2, FiniteImage
<1>2. S \subseteq {"market", "rs", "trend", "pattern", "volume"}
  BY SourcesFacts
<1>3. \A s \in {"market", "rs", "trend", "pattern", "volume"} : IsFiniteSet(r[s].warnings)
  BY DEF AssessedOK, PatternOK
<1>4. \A s \in S : IsFiniteSet(raised[s])
  <2>1. \A w : IsFiniteSet({w})
    BY FS_Singleton, Zenon
  <2> HIDE DEF S
  <2> QED BY <1>2, <1>3, <2>1, Zenon
<1>5. CompositeWarnings(r) = UNION {raised[s] : s \in S}
  BY Zenon DEF CompositeWarnings
<1> HIDE DEF S, raised
<1> QED BY <1>1, <1>4, <1>5, FiniteFamily

LEMMA CompositeConfidenceType ==
  ASSUME NEW r, AssessedOK(r)
  PROVE  CompositeConfidence(r) \in Int
<1> DEFINE raws    == [i \in DOMAIN Sources |-> Raw(r, Sources[i])]
           places  == {i \in DOMAIN raws : raws[i] > 0}
           present == Pick(raws, places)
           whole   == [i \in DOMAIN present |-> present[i] \div PerPoint]
           spread  == IF Len(present) < 3 \/ (SpreadBelow(whole, 6) /\ ~SpreadBelow(whole, 3)) THEN 0
                      ELSE IF SpreadBelow(whole, 3) THEN 1000
                      ELSE IF SpreadBelow(whole, 10) THEN -1000 ELSE -2000
           low     == {i \in DOMAIN present : present[i] < Points(40)}
           warned  == Cardinality(CompositeWarnings(r))
<1>1. CompositeConfidence(r)
        = IF present = <<>> THEN 0
          ELSE Clamp(Total(present) \div (3 * Len(present)) + spread - 500 * Cardinality(low)
                       - 200 * warned, 0, 10000)
  BY DEF CompositeConfidence, Count
<1>2. DOMAIN raws = 1 .. 5 /\ \A i \in 1 .. 5 : raws[i] \in Int
  BY SourcesFacts, RawType
<1>3. spread \in Int
  OBVIOUS
<1> HIDE DEF raws, spread, whole
<1>4. places \in SUBSET Int /\ IsFiniteSet(places) /\ \A i \in places : raws[i] \in Int
  <2>1. IsFiniteSet(1 .. 5)
    BY FS_Interval, 1 \in Int, 5 \in Int, Zenon
  <2>2. places \in SUBSET (1 .. 5)
    BY <1>2
  <2>3. IsFiniteSet(places)
    BY <2>1, <2>2, FS_Subset
  <2> QED BY <1>2, <2>2, <2>3
<1> HIDE DEF places
<1>5. present \in Seq(Int)
  BY <1>4, PickIsSequence
<1> HIDE DEF present
<1>6. /\ Len(present) \in Nat /\ DOMAIN present = 1 .. Len(present)
      /\ \A i \in 1 .. Len(present) : present[i] \in Int
  BY <1>5
<1>7. Total(present) \in Int
  BY <1>6, TotalIsSum
<1>8. Cardinality(low) \in Nat
  BY <1>6, CountType
<1>9. warned \in Nat
  BY CompositeWarningsFinite, FS_CardinalityType
<1> HIDE DEF low, warned
<1>10. CASE present = <<>>
  BY <1>1, <1>10
<1>11. CASE present # <<>>
  <2>1. 3 * Len(present) > 0
    BY <1>5, <1>6, <1>11
  <2>2. Total(present) \div (3 * Len(present)) \in Int
    BY <1>6, <1>7, <2>1
  <2>3. Total(present) \div (3 * Len(present)) + spread - 500 * Cardinality(low) - 200 * warned \in Int
    BY <1>3, <1>8, <1>9, <2>2
  <2> DEFINE x == Total(present) \div (3 * Len(present)) + spread - 500 * Cardinality(low) - 200 * warned
  <2>4. CompositeConfidence(r) = Clamp(x, 0, 10000)
    BY <1>1, <1>11
  <2> HIDE DEF x
  <2>5. x \in Int
    BY <2>3 DEF x
  <2> QED BY <2>4, <2>5 DEF Clamp
<1> QED BY <1>10, <1>11

LEMMA PositionSizeType ==
  ASSUME NEW r
  PROVE  PositionSize(r) \in Nat
<1> DEFINE steps == << <<100 * Points(95), 25>>, <<100 * Points(90), 20>>,
                       <<100 * Points(85), 15>>, <<100 * Points(75), 10>>, <<100 * Points(60), 5>> >>
           size == Graded(Overall(r), steps, 0)
<1>1. DOMAIN steps = 1 .. 5 /\ \A i \in 1 .. 5 : steps[i][2] \in Nat
  OBVIOUS
<1>2. PositionSize(r) = IF Raw(r, "rs") < Points(50) THEN Smaller(10, size) ELSE size
  BY Zenon DEF PositionSize
<1> HIDE DEF steps
<1>3. size \in Nat
  BY <1>1, GradedIsValue, 5 \in Nat, 0 \in Nat, Zenon
<1> HIDE DEF size
<1> QED BY <1>2, <1>3 DEF Smaller

\* What the composite engine hands on.
LEMMA CompositeType ==
  ASSUME NEW r, AssessedOK(r)
  PROVE  /\ Composite(r).overall \in Int /\ Composite(r).confidence \in Int
         /\ Composite(r).position_size \in Nat
         /\ Composite(r).recommendation = CapRecommendation(r, ApplyGating(r))
<1>1. /\ Composite(r).overall = InHundredths(Overall(r))
      /\ Composite(r).confidence = CompositeConfidence(r)
      /\ Composite(r).position_size = PositionSize(r)
      /\ Composite(r).recommendation = CapRecommendation(r, ApplyGating(r))
  BY Zenon DEF Composite
<1> QED BY <1>1, OverallType, CompositeConfidenceType, PositionSizeType, Zenon

-----------------------------------------------------------------------------
(* From the composite to the risk check.                                   *)

LEMMA EntryType ==
  ASSUME NEW p, PatternOK(p)
  PROVE  Price(Entry(p)) /\ Price(ValidStop(p))
<1>1. Price(Entry(p))
  BY DEF Entry, PatternOK, Price, Known
<1>2. Price(Stop(p))
  BY <1>1 DEF Stop, PatternOK, Price, Known
<1> QED BY <1>1, <1>2 DEF ValidStop, Price

LEMMA TradePlanType ==
  ASSUME NEW c, c.confidence \in Int, NEW p, PatternOK(p)
  PROVE  /\ TradePlan(c, p).confidence \in Int
         /\ TradePlan(c, p).status = ExecutionStatus(c, p)
         /\ TradePlan(c, p).ratio = RiskRewardRatio(p)
         /\ TradePlan(c, p).entry = Entry(p) /\ TradePlan(c, p).stop = ValidStop(p)
<1> DEFINE items == <<c.part.market >= 1000, c.part.rs >= 1400, Known(p) /\ p.score >= 50,
                      c.part.volume >= 1400, Known(ValidStop(p))>>
           passed == {i \in DOMAIN items : items[i]}
           blended == IF Known(p) THEN (7 * c.confidence + 300 * p.confidence) \div 10 ELSE c.confidence
           checked == (8 * blended) \div 10 + (2000 * ChecklistPassed(c, p)) \div 7
<1>1. ChecklistPassed(c, p) \in Int
  <2>1. ChecklistPassed(c, p) = 2 + Cardinality(passed)
    BY Zenon DEF ChecklistPassed, Count
  <2>2. DOMAIN items = 1 .. 5
    OBVIOUS
  <2> HIDE DEF items
  <2>3. Cardinality(passed) \in Nat
    BY <2>2, CountType
  <2> QED BY <2>1, <2>3
<1>2. checked \in Int
  <2>1. p.confidence \in Int
    BY DEF PatternOK
  <2>2. blended \in Int
    BY <2>1
  <2> HIDE DEF blended
  <2> QED BY <1>1, <2>2
<1>3. TradeConfidence(c, p) \in Int
  <2>1. TradeConfidence(c, p)
          = CASE ExecutionStatus(c, p) = "REJECT" -> (3 * checked) \div 10
              [] ExecutionStatus(c, p) = "WAIT" -> (7 * checked) \div 10
              [] ExecutionStatus(c, p) = "READY" -> checked
    BY Zenon DEF TradeConfidence
  <2>2. ExecutionStatus(c, p) \in {"REJECT", "WAIT", "READY"}
    BY Zenon DEF ExecutionStatus
  <2> HIDE DEF checked
  <2> QED BY <1>2, <2>1, <2>2
<1>4. /\ TradePlan(c, p).confidence = Clamp(TradeConfidence(c, p), 0, 10000)
      /\ TradePlan(c, p).status = ExecutionStatus(c, p)
      /\ TradePlan(c, p).ratio = RiskRewardRatio(p)
      /\ TradePlan(c, p).entry = Entry(p) /\ TradePlan(c, p).stop = ValidStop(p)
  BY DEF TradePlan
<1>5. Clamp(TradeConfidence(c, p), 0, 10000) \in Int
  BY <1>3, ClampType
<1> QED BY <1>4, <1>5

LEMMA RiskCheckType ==
  ASSUME NEW c, c.confidence \in Int, c.position_size \in Nat,
         NEW plan, plan.confidence \in Int, Price(plan.entry), Price(plan.stop)
  PROVE  /\ RiskCheck(c, plan).confidence \in Int /\ RiskCheck(c, plan).grade \in Int
         /\ RiskCheck(c, plan).size \in Nat
         /\ RiskCheck(c, plan).allowed = ExecutionAllowed(c, plan)
         /\ RiskCheck(c, plan).size = c.position_size
<1> DEFINE checks == <<StopIsValid(plan), PositionIsValid(c), RatioIsValid(plan)>>
           valid == {i \in DOMAIN checks : checks[i]}
           conf == (7 * ((plan.confidence + c.confidence) \div 2)) \div 10 + 1000 * Cardinality(valid)
           limits == <<2000, 5000, 10000, 20000>>
           over == {i \in DOMAIN limits : CapitalAtRisk(plan) > limits[i]}
<1>1. /\ RiskCheck(c, plan).confidence = RiskConfidence(c, plan)
      /\ RiskCheck(c, plan).grade = RiskGrade(plan)
      /\ RiskCheck(c, plan).size = c.position_size
      /\ RiskCheck(c, plan).allowed = ExecutionAllowed(c, plan)
  BY Zenon DEF RiskCheck
<1>2. DOMAIN checks = 1 .. 3 /\ DOMAIN limits = 1 .. 4
  OBVIOUS
<1>3. RiskConfidence(c, plan) = Clamp(IF ExecutionAllowed(c, plan) THEN conf ELSE (3 * conf) \div 10, 0, 10000)
  BY DEF RiskConfidence, Count
<1>4. RiskGrade(plan) = IF plan.status = "REJECT" \/ ~Known(CapitalAtRisk(plan)) THEN 6
                        ELSE 1 + Cardinality(over)
  BY DEF RiskGrade, Count
<1> HIDE DEF checks, limits
<1>5. Cardinality(valid) \in Nat /\ Cardinality(over) \in Nat
  BY <1>2, CountType
<1> HIDE DEF valid, over
<1>6. conf \in Int
  BY <1>5
<1> HIDE DEF conf
<1>7. RiskConfidence(c, plan) \in Int
  BY <1>3, <1>6 DEF Clamp
<1>8. RiskGrade(plan) \in Int
  BY <1>4, <1>5
<1> QED BY <1>1, <1>7, <1>8

-----------------------------------------------------------------------------
(* What the round has produced.                                            *)

InputOf(place, stock) ==
  [market |-> place, rs |-> stock.rs, trend |-> stock.trend, pattern |-> stock.pattern,
   volume |-> stock.volume]

Advices == {Chain(InputOf(place, stock)) : place \in Markets, stock \in Stocks \cup Followers}

Candidates == [i \in DOMAIN analysed |-> [symbol |-> i, risk |-> analysed[i].risk]]

\* The stocks of the round went through the chain, the portfolio was made from
\* all of them, and the verdict was passed on the first.
AdviceInv ==
  /\ market \in Markets
  /\ analysed \in Seq(Advices)
  /\ Known(portfolio) => \E capital \in Capitals : portfolio = PortfolioOf(Candidates, capital)
  /\ Known(verdict) => /\ analysed # <<>>
                       /\ \E type \in StrategyTypes, cfg \in Configurations :
                            verdict = [type |-> type, cfg |-> cfg,
                                       says |-> Verdict(type, analysed[1], cfg)]

LEMMA AdviceInvHolds == Spec => []AdviceInv
<1>1. Init => AdviceInv
  BY DEF Init, AdviceInv, Known
<1>2. AdviceInv /\ [Next]_vars => AdviceInv'
  <2> SUFFICES ASSUME AdviceInv, [Next]_vars PROVE AdviceInv'
    OBVIOUS
  <2>1. CASE EvaluateStock
    <3>1. PICK stock \in Stocks \cup Followers :
            /\ portfolio = None /\ verdict' = None /\ UNCHANGED <<market, portfolio>>
            /\ analysed' = Append(analysed, Chain(InputOf(market, stock)))
      <4>1. PICK stock \in IF analysed = <<>> THEN Stocks ELSE Followers :
              /\ portfolio = None /\ verdict' = None /\ UNCHANGED <<market, portfolio>>
              /\ analysed' = Append(analysed, Chain(InputOf(market, stock)))
        BY <2>1, Zenon DEF EvaluateStock, InputOf
      <4>2. stock \in Stocks \cup Followers
        BY <4>1
      <4> QED BY <4>1, <4>2
    <3>2. Chain(InputOf(market, stock)) \in Advices
      BY DEF Advices, AdviceInv
    <3> HIDE DEF Advices
    <3>3. analysed' \in Seq(Advices)
      BY <3>1, <3>2 DEF AdviceInv
    <3>4. Advices' = Advices
      BY DEF Advices
    <3>5. ~Known(portfolio)' /\ ~Known(verdict)'
      BY <3>1 DEF Known
    <3> QED BY <3>1, <3>3, <3>4, <3>5, Zenon DEF AdviceInv
  <2>2. CASE Judge
    <3>1. PICK type \in StrategyTypes, cfg \in Configurations :
            /\ portfolio = None /\ Len(analysed) = 1 /\ UNCHANGED <<market, analysed, portfolio>>
            /\ verdict' = [type |-> type, cfg |-> cfg, says |-> Verdict(type, analysed[1], cfg)]
      BY <2>2, Zenon DEF Judge
    <3>2. analysed # <<>>
      BY <3>1
    <3>3. ~Known(portfolio)'
      BY <3>1 DEF Known
    <3>4. verdict' = [type |-> type, cfg |-> cfg, says |-> Verdict(type, analysed'[1], cfg)]
      BY <3>1, Zenon
    <3>5. market' \in Markets /\ analysed' \in Seq(Advices) /\ analysed' # <<>>
      BY <3>1, <3>2, Zenon DEF AdviceInv
    <3>6. Advices' = Advices
      BY DEF Advices
    <3> QED BY <3>3, <3>4, <3>5, <3>6, Zenon DEF AdviceInv
  <2>3. CASE BuildPortfolio
    <3>1. PICK capital \in Capitals :
            /\ portfolio' = PortfolioOf(Candidates, capital)
            /\ UNCHANGED <<market, analysed, verdict>>
      BY <2>3, Zenon DEF BuildPortfolio, Candidates
    <3>2. Candidates' = Candidates /\ Advices' = Advices
      BY <3>1 DEF Candidates, Advices
    <3>3. portfolio' = PortfolioOf(Candidates', capital)
      BY <3>1, <3>2, Zenon
    <3>4. Known(verdict)' => /\ analysed' # <<>>
                             /\ \E type \in StrategyTypes, cfg \in Configurations :
                                  verdict' = [type |-> type, cfg |-> cfg,
                                              says |-> Verdict(type, analysed'[1], cfg)]
      BY <3>1, Zenon DEF AdviceInv, Known
    <3> QED BY <3>1, <3>2, <3>3, <3>4, Zenon DEF AdviceInv, Known
  <2>4. CASE UNCHANGED vars
    <3>1. market' = market /\ analysed' = analysed /\ verdict' = verdict /\ portfolio' = portfolio
      BY <2>4 DEF vars
    <3>2. Candidates' = Candidates /\ Advices' = Advices
      BY <3>1 DEF Candidates, Advices
    <3> QED BY <3>1, <3>2, Zenon DEF AdviceInv, Known
  <2> QED BY <2>1, <2>2, <2>3, <2>4 DEF Next
<1> QED BY <1>1, <1>2, PTL DEF Spec

\* An advice is made of five assessments with integers where the chain computes.
LEMMA AdviceIsAdvised ==
  ASSUME NEW a \in Advices
  PROVE  AssessedOK(a.assessed) /\ a = Advised(a.assessed)
<1>1. PICK place \in Markets, stock \in Stocks \cup Followers : a = Chain(InputOf(place, stock))
  BY DEF Advices
<1>2. SnapshotOK(stock)
  BY AdviceAssumption DEF SnapshotOK
<1> DEFINE r == Evaluated(InputOf(place, stock))
<1>3. AssessedOK(r)
  BY <1>2, EvaluatedOK, Zenon DEF InputOf
<1>4. a = Advised(r)
  BY <1>1, Zenon DEF Chain
<1> HIDE DEF r
<1>5. Advised(r).assessed = r
  BY Zenon DEF Advised
<1> QED BY <1>3, <1>4, <1>5, Zenon

\* What the later engines read of an advice.
LEMMA AdviceType ==
  ASSUME NEW a \in Advices
  PROVE  /\ a.composite.overall \in Int /\ a.composite.confidence \in Int
         /\ a.risk.confidence \in Int /\ a.risk.grade \in Int /\ a.risk.size \in Nat
         /\ a.risk.allowed = ExecutionAllowed(a.composite, a.plan)
         /\ a.risk.size = a.composite.position_size
         /\ a.composite = Composite(a.assessed)
         /\ a.plan = TradePlan(a.composite, a.assessed.pattern)
<1> DEFINE r == a.assessed
           c == Composite(r)
           plan == TradePlan(c, r.pattern)
<1>1. AssessedOK(r) /\ a = Advised(r)
  BY AdviceIsAdvised
<1> HIDE DEF r
<1>2. a.composite = c /\ a.plan = plan /\ a.risk = RiskCheck(c, plan)
  <2>1. /\ Advised(r).composite = c /\ Advised(r).plan = plan
        /\ Advised(r).risk = RiskCheck(c, plan)
    BY Zenon DEF Advised
  <2> QED BY <1>1, <2>1, Zenon
<1>3. c.overall \in Int /\ c.confidence \in Int /\ c.position_size \in Nat
  BY <1>1, CompositeType
<1> HIDE DEF c
<1>4. PatternOK(r.pattern)
  BY <1>1 DEF AssessedOK
<1>5. plan.confidence \in Int /\ Price(plan.entry) /\ Price(plan.stop)
  BY <1>3, <1>4, TradePlanType, EntryType
<1> HIDE DEF plan
<1>6. /\ RiskCheck(c, plan).confidence \in Int /\ RiskCheck(c, plan).grade \in Int
      /\ RiskCheck(c, plan).size \in Nat
      /\ RiskCheck(c, plan).allowed = ExecutionAllowed(c, plan)
      /\ RiskCheck(c, plan).size = c.position_size
  BY <1>3, <1>5, RiskCheckType
<1> QED BY <1>2, <1>3, <1>6, Zenon DEF c, plan, r

-----------------------------------------------------------------------------
(* The gates and the stop.                                                 *)

\* What approval of an advice says of it.
LEMMA ApprovalAsks ==
  ASSUME NEW a \in Advices, a.risk.allowed
  PROVE  /\ ExecutionStatus(a.composite, a.assessed.pattern) = "READY"
         /\ a.risk.size \in Nat /\ a.risk.size > 0
<1>1. /\ ExecutionAllowed(a.composite, a.plan) /\ a.plan = TradePlan(a.composite, a.assessed.pattern)
      /\ a.risk.size \in Nat /\ a.risk.size = a.composite.position_size
  BY AdviceType
<1>2. a.plan.status = "READY" /\ a.composite.position_size > 0
  BY <1>1, Zenon DEF ExecutionAllowed, PositionIsValid
<1>3. a.plan.status = ExecutionStatus(a.composite, a.assessed.pattern)
  BY <1>1 DEF TradePlan
<1> QED BY <1>1, <1>2, <1>3

\* What is ready was recommended, and there was neither a bear market nor a
\* broken trend.
LEMMA ApprovedPassedTheGate ==
  ASSUME NEW a \in Advices, a.risk.allowed
  PROVE  ~BearMarket(a.assessed) /\ ~BrokenTrend(a.assessed)
<1> DEFINE r == a.assessed
           rec == a.composite.recommendation
<1>1. ExecutionStatus(a.composite, r.pattern) = "READY"
  BY ApprovalAsks
<1>2. rec \in {"STRONG_BUY", "BUY"}
  BY <1>1, Zenon DEF ExecutionStatus
<1>3. a.composite = Composite(r) /\ AssessedOK(r)
  BY AdviceType, AdviceIsAdvised
<1>4. rec = CapRecommendation(r, ApplyGating(r))
  BY <1>3, CompositeType
<1>5. ApplyGating(r) \in {"STRONG_BUY", "BUY"}
  BY <1>2, <1>4, Zenon DEF CapRecommendation
<1>6. ASSUME BearMarket(r) \/ BrokenTrend(r) PROVE ApplyGating(r) \notin {"STRONG_BUY", "BUY"}
  <2>1. CASE ByScore(r) \in Hopeful
    BY <1>6, <2>1, Zenon DEF ApplyGating
  <2>2. CASE ByScore(r) \notin Hopeful
    <3>1. ApplyGating(r) = ByScore(r) \/ ByScore(r) = "STRONG_BUY"
      BY <2>2, Zenon DEF ApplyGating
    <3> QED BY <2>2, <3>1, Zenon DEF Hopeful
  <2> QED BY <2>1, <2>2
<1> QED BY <1>5, <1>6

-----------------------------------------------------------------------------
(* Capital in order.                                                       *)

\* Whoever comes gets what was asked for until a limit is reached: those up to
\* a place q get something, and the ones after it nothing; only the one at q may
\* get less than was asked for, and then the limit is reached there.
LEMMA HandingOut ==
  ASSUME NEW m \in Nat, NEW ask, \A k \in 1 .. m : ask[k] \in Nat /\ ask[k] > 0,
         NEW limit \in Nat, limit > 0,
         NEW taken \in [0 .. m -> Int], taken[0] = 0,
         \A k \in 1 .. m : taken[k] = Smaller(limit, taken[k - 1] + ask[k])
  PROVE  \E q \in 0 .. m :
           /\ \A k \in 1 .. m : taken[k] - taken[k - 1] > 0 <=> k <= q
           /\ \A k \in 0 .. m : k < q => taken[k] < limit
           /\ q < m => taken[q] = limit
           /\ \A k \in 0 .. m : taken[k] <= limit
<1> DEFINE Full == {k \in 0 .. m : k = m \/ taken[k] = limit}
<1>1. PICK q \in Full : \A k \in Full : q <= k
  <2>1. m \in Full /\ Full \in SUBSET Nat
    OBVIOUS
  <2> HIDE DEF Full
  <2> QED BY <2>1, LeastElement
<1>2. q \in 0 .. m /\ (q < m => taken[q] = limit)
  BY <1>1
<1>3. \A k \in 0 .. m : taken[k] <= limit
  <2> DEFINE G == {k \in 0 .. m : taken[k] <= limit}
  <2>1. 0 \in G
    OBVIOUS
  <2>2. ASSUME NEW k \in 0 .. m - 1, k \in G PROVE k + 1 \in G
    <3>1. k + 1 \in 1 .. m /\ k + 1 \in 0 .. m /\ (k + 1) - 1 = k
      OBVIOUS
    <3>2. taken[k + 1] = Smaller(limit, taken[k] + ask[k + 1])
      BY <3>1
    <3> QED BY <3>1, <3>2 DEF Smaller
  <2> HIDE DEF G
  <2>3. \A k \in 0 .. m : k \in G
    BY <2>1, <2>2, UpToInduction
  <2> QED BY <2>3 DEF G
<1>4. \A k \in 0 .. m : k < q => taken[k] < limit
  <2> SUFFICES ASSUME NEW k \in 0 .. m, k < q PROVE taken[k] < limit
    OBVIOUS
  <2>1. k \notin Full
    BY <1>1, <1>2
  <2> QED BY <1>3, <2>1
<1>5. \A k \in 0 .. m : k >= q /\ q < m => taken[k] = limit
  <2> DEFINE G == {k \in 0 .. m : k >= q /\ q < m => taken[k] = limit}
  <2>1. 0 \in G
    BY <1>2
  <2>2. ASSUME NEW k \in 0 .. m - 1, k \in G PROVE k + 1 \in G
    <3>1. k + 1 \in 1 .. m /\ k + 1 \in 0 .. m /\ (k + 1) - 1 = k /\ k \in 0 .. m
      OBVIOUS
    <3>2. taken[k + 1] = Smaller(limit, taken[k] + ask[k + 1]) /\ ask[k + 1] \in Nat
      BY <3>1
    <3>3. CASE k >= q /\ q < m
      BY <2>2, <3>1, <3>2, <3>3 DEF Smaller
    <3>4. CASE ~(k >= q /\ q < m)
      <4>1. ~(q < m) \/ k + 1 < q \/ k + 1 = q
        BY <1>2, <3>4
      <4> QED BY <1>2, <3>1, <4>1
    <3> QED BY <3>3, <3>4
  <2> HIDE DEF G
  <2>3. \A k \in 0 .. m : k \in G
    BY <2>1, <2>2, UpToInduction
  <2> QED BY <2>3 DEF G
<1>6. \A k \in 1 .. m : taken[k] - taken[k - 1] > 0 <=> k <= q
  <2> SUFFICES ASSUME NEW k \in 1 .. m PROVE taken[k] - taken[k - 1] > 0 <=> k <= q
    OBVIOUS
  <2>1. k - 1 \in 0 .. m /\ k \in 0 .. m /\ q \in Int
    BY <1>2
  <2>2. taken[k] = Smaller(limit, taken[k - 1] + ask[k]) /\ ask[k] \in Nat /\ ask[k] > 0
    OBVIOUS
  <2>3. CASE k <= q
    <3>1. taken[k - 1] < limit
      BY <1>4, <2>1, <2>3
    <3> QED BY <2>1, <2>2, <2>3, <3>1 DEF Smaller
  <2>4. CASE ~(k <= q)
    <3>1. taken[k - 1] = limit /\ taken[k] = limit
      BY <1>2, <1>5, <2>1, <2>4
    <3> QED BY <2>1, <2>4, <3>1
  <2> QED BY <2>3, <2>4
<1> HIDE DEF Full
<1> QED BY <1>2, <1>3, <1>4, <1>6

\* What the first k of the ranked candidates have taken, for each k.
TakenInTurn(taken, ranked, m, capital) ==
  /\ taken \in [0 .. m -> Int] /\ taken[0] = 0
  /\ \A k \in 1 .. m :
       taken[k] = Smaller(100 * capital, taken[k - 1] + ranked[k].risk.size * capital)

LEMMA DeployedIs ==
  ASSUME NEW m \in Nat, NEW ranked, Len(ranked) = m, NEW capital \in Int,
         \A k \in 1 .. m : ranked[k].risk.size \in Nat
  PROVE  TakenInTurn(Deployed(ranked, capital), ranked, m, capital)
<1> DEFINE limit == 100 * capital
           ask == [k \in 1 .. m |-> ranked[k].risk.size * capital]
           step == [k \in 1 .. m |-> [x \in Int |-> Smaller(limit, x + ask[k])]]
           taken == CHOOSE f : f = [i \in 0 .. Len(ranked) |->
                      IF i = 0 THEN 0 ELSE Smaller(100 * capital, f[i - 1] + ranked[i].risk.size * capital)]
<1>1. step \in [1 .. m -> [Int -> Int]]
  <2>1. limit \in Int /\ \A k \in 1 .. m : ask[k] \in Int
    OBVIOUS
  <2> HIDE DEF limit, ask
  <2> QED BY <2>1 DEF Smaller
<1>2. PICK f \in [0 .. m -> Int] : Stepping(f, m, 0, step)
  <2>1. 0 \in Int
    OBVIOUS
  <2> HIDE DEF step
  <2> QED BY <1>1, <2>1, SteppingExists
<1>3. ASSUME NEW k \in 1 .. m
      PROVE  f[k] = Smaller(100 * capital, f[k - 1] + ranked[k].risk.size * capital)
  <2>1. k - 1 \in 0 .. m /\ f[k - 1] \in Int
    OBVIOUS
  <2>2. f[k] = step[k][f[k - 1]]
    BY <1>2 DEF Stepping
  <2>3. step[k] = [x \in Int |-> Smaller(100 * capital, x + ranked[k].risk.size * capital)]
    BY Zenon
  <2> HIDE DEF step
  <2> QED BY <2>1, <2>2, <2>3, Zenon
<1>4. f = [i \in 0 .. m |->
             IF i = 0 THEN 0 ELSE Smaller(100 * capital, f[i - 1] + ranked[i].risk.size * capital)]
  <2>1. f[0] = 0
    BY <1>2 DEF Stepping
  <2>2. \A i \in 0 .. m : i = 0 \/ i \in 1 .. m
    OBVIOUS
  <2>3. DOMAIN f = 0 .. m
    OBVIOUS
  <2>4. \A i \in 0 .. m : f[i] = IF i = 0 THEN 0
                                 ELSE Smaller(100 * capital, f[i - 1] + ranked[i].risk.size * capital)
    BY <1>3, <2>1, <2>2, Zenon
  <2> HIDE DEF step
  <2> QED BY <2>4
<1>5. taken = [i \in 0 .. m |->
             IF i = 0 THEN 0 ELSE Smaller(100 * capital, taken[i - 1] + ranked[i].risk.size * capital)]
  BY <1>4, Zenon
<1>6. Deployed(ranked, capital) = taken
  BY Zenon DEF Deployed
<1> HIDE DEF taken
<1>7. /\ taken[0] = 0
      /\ \A k \in 1 .. m : taken[k] = Smaller(100 * capital, taken[k - 1] + ranked[k].risk.size * capital)
  <2>1. 0 \in 0 .. m /\ \A k \in 1 .. m : k \in 0 .. m /\ k # 0
    OBVIOUS
  <2> QED BY <1>5, <2>1, Zenon
<1>8. \A k \in 0 .. m : taken[k] \in Int
  <2> DEFINE G == {k \in 0 .. m : taken[k] \in Int}
  <2>1. 0 \in G
    BY <1>7
  <2>2. ASSUME NEW k \in 0 .. m - 1, k \in G PROVE k + 1 \in G
    <3>1. k + 1 \in 1 .. m /\ k + 1 \in 0 .. m /\ (k + 1) - 1 = k
      OBVIOUS
    <3>2. taken[k + 1] = Smaller(100 * capital, taken[k] + ranked[k + 1].risk.size * capital)
      BY <1>7, <3>1
    <3> DEFINE asked == ranked[k + 1].risk.size * capital
               limited == 100 * capital
    <3>3. asked \in Int /\ limited \in Int
      BY <3>1
    <3>4. taken[k] \in Int
      BY <2>2
    <3>5. taken[k + 1] = Smaller(limited, taken[k] + asked)
      BY <3>2
    <3> HIDE DEF asked, limited
    <3>6. taken[k + 1] \in Int
      BY <3>3, <3>4, <3>5 DEF Smaller
    <3> QED BY <3>1, <3>6
  <2> HIDE DEF G
  <2>3. \A k \in 0 .. m : k \in G
    BY <2>1, <2>2, UpToInduction
  <2> QED BY <2>3 DEF G
<1>9. taken \in [0 .. m -> Int]
  BY <1>5, <1>8
<1> QED BY <1>6, <1>7, <1>9, Zenon DEF TakenInTurn

Allowed == {s \in DOMAIN analysed : analysed[s].risk.allowed}

\* The candidates that are allowed, each once, in the order of Before.
LEMMA RankedIs ==
  ASSUME analysed \in Seq(Advices)
  PROVE  \E m \in Nat : \E order \in [1 .. m -> Allowed] :
           /\ Ranked(Candidates) = [k \in 1 .. m |-> Candidates[order[k]]]
           /\ \A s \in Allowed : \E k \in 1 .. m : order[k] = s
<1> DEFINE n == Len(analysed)
           allowed == {i \in DOMAIN Candidates : Candidates[i].risk.allowed}
           before == [i \in allowed |-> {j \in allowed : Before(Candidates[j], Candidates[i])}]
           m == Cardinality(allowed)
           order == Ordered(allowed, before)
           conf == [i \in 1 .. n |-> analysed[i].risk.confidence]
           grade == [i \in 1 .. n |-> analysed[i].risk.grade]
<1> HIDE DEF Advices
<1>1. n \in Nat /\ DOMAIN analysed = 1 .. n /\ \A i \in 1 .. n : analysed[i] \in Advices
  OBVIOUS
<1>2. /\ DOMAIN Candidates = 1 .. n
      /\ \A i \in 1 .. n : Candidates[i].symbol = i /\ Candidates[i].risk = analysed[i].risk
  BY <1>1 DEF Candidates
<1>3. \A i \in 1 .. n : conf[i] \in Int /\ grade[i] \in Int
  BY <1>1, AdviceType
<1>4. \A i, j \in 1 .. n : Before(Candidates[j], Candidates[i])
        <=> \/ conf[j] > conf[i]
            \/ conf[j] = conf[i] /\ (grade[j] < grade[i] \/ (grade[j] = grade[i] /\ j < i))
  <2> TAKE i, j \in 1 .. n
  <2>1. /\ Candidates[i].symbol = i /\ Candidates[j].symbol = j
        /\ Candidates[i].risk.confidence = conf[i] /\ Candidates[j].risk.confidence = conf[j]
        /\ Candidates[i].risk.grade = grade[i] /\ Candidates[j].risk.grade = grade[j]
    BY <1>2
  <2>2. /\ conf[i] \in Int /\ conf[j] \in Int /\ grade[i] \in Int /\ grade[j] \in Int
        /\ i \in Int /\ j \in Int
    BY <1>1, <1>3
  <2> HIDE DEF conf, grade
  <2> QED BY <2>1, <2>2 DEF Before
<1>5. allowed = Allowed /\ allowed \in SUBSET (1 .. n)
  BY <1>1, <1>2 DEF Allowed
<1>6. IsFiniteSet(allowed)
  <2>1. IsFiniteSet(1 .. n)
    BY <1>1, FS_Interval, 1 \in Int, n \in Int
  <2> HIDE DEF allowed
  <2> QED BY <1>5, <2>1, FS_Subset
<1> HIDE DEF conf, grade, n, allowed
<1>7. \A i, j \in allowed : j \in before[i]
        <=> \/ conf[j] > conf[i]
            \/ conf[j] = conf[i] /\ (grade[j] < grade[i] \/ (grade[j] = grade[i] /\ j < i))
  BY <1>4, <1>5
<1>8. \A i \in allowed : conf[i] \in Int /\ grade[i] \in Int /\ i \in Int
  BY <1>1, <1>3, <1>5
<1>9. \A i \in allowed : before[i] \in SUBSET allowed
  OBVIOUS
<1>10. Ranked(Candidates) = At(Candidates, order)
  BY Zenon DEF Ranked, allowed
<1> HIDE DEF before
<1>11. IsOrderOf(before, allowed)
  <2>1. \A x \in allowed : before[x] \in SUBSET allowed /\ x \notin before[x]
    BY <1>7, <1>8, <1>9
  <2>2. ASSUME NEW x \in allowed, NEW y \in allowed, x # y
        PROVE  y \in before[x] \/ x \in before[y]
    <3>1. /\ conf[x] \in Int /\ conf[y] \in Int /\ grade[x] \in Int /\ grade[y] \in Int
          /\ x \in Int /\ y \in Int
      BY <1>8
    <3>2. /\ conf[y] > conf[x] \/ conf[x] > conf[y] \/ conf[x] = conf[y]
          /\ grade[x] < grade[y] \/ grade[y] < grade[x] \/ grade[x] = grade[y]
      BY <3>1
    <3>3. x < y \/ y < x
      BY <2>2, <3>1
    <3>4. CASE conf[y] > conf[x] \/ (conf[x] = conf[y] /\ grade[y] < grade[x])
               \/ (conf[x] = conf[y] /\ grade[x] = grade[y] /\ y < x)
      BY <1>7, <3>4, Zenon
    <3>5. CASE conf[x] > conf[y] \/ (conf[x] = conf[y] /\ grade[x] < grade[y])
               \/ (conf[x] = conf[y] /\ grade[x] = grade[y] /\ x < y)
      BY <1>7, <3>5, Zenon
    <3> QED BY <3>2, <3>3, <3>4, <3>5, Zenon
  <2>3. \A x, y, z \in allowed : z \in before[y] /\ y \in before[x] => z \in before[x]
    BY <1>7, <1>8
  <2> QED BY <2>1, <2>2, <2>3 DEF IsOrderOf
<1>12. m \in Nat /\ order \in [1 .. m -> allowed] /\ \A s \in allowed : \E k \in 1 .. m : order[k] = s
  <2>1. /\ Cardinality(allowed) \in Nat
        /\ Ordered(allowed, before) \in [1 .. Cardinality(allowed) -> allowed]
        /\ \A k \in 1 .. Cardinality(allowed) :
             Cardinality(before[Ordered(allowed, before)[k]]) = k - 1
        /\ \A x \in allowed : \E k \in 1 .. Cardinality(allowed) : Ordered(allowed, before)[k] = x
    BY <1>6, <1>11, OrderedEnumerates
  <2> QED BY <2>1, Zenon
<1> HIDE DEF order, m
<1>13. At(Candidates, order) = [k \in 1 .. m |-> Candidates[order[k]]]
  BY <1>12 DEF At
<1> QED BY <1>5, <1>10, <1>12, <1>13

\* The positions are those of the first q of the ranked stocks: each takes what
\* its size asks for, but for the last when it reaches the capital, and there is
\* a stock after it only then.
InTurn(positions, order, q, capital) ==
  LET asked(k) == analysed[order[k]].risk.size * capital
      total    == Total(Amounts(positions))
      limit    == 100 * capital
  IN /\ DOMAIN positions = 1 .. q /\ Len(positions) = q
     /\ \A k \in 1 .. q : positions[k].symbol = order[k] /\ positions[k].amount \in Int
     /\ \A k \in 1 .. q : positions[k].amount <= asked(k)
     /\ total <= limit /\ total \in Int
     /\ \A k \in 1 .. q : positions[k].amount < asked(k) => k = q /\ total = limit
     /\ {order[k] : k \in 1 .. q} # Allowed => total = limit

LEMMA PositionsAre ==
  ASSUME analysed \in Seq(Advices), NEW capital \in Int, capital > 0
  PROVE  \E q \in Nat : \E order \in [1 .. q -> Allowed] :
           InTurn(PortfolioOf(Candidates, capital).positions, order, q, capital)
<1> DEFINE ranked == Ranked(Candidates)
           taken == Deployed(ranked, capital)
           offers == [i \in DOMAIN ranked |->
                        [symbol |-> ranked[i].symbol, rank |-> i, amount |-> taken[i] - taken[i - 1],
                         shares |-> ranked[i].risk.shares, at_risk |-> ranked[i].risk.at_risk,
                         confidence |-> ranked[i].risk.confidence]]
           places == {i \in DOMAIN offers : offers[i].amount > 0}
           positions == PortfolioOf(Candidates, capital).positions
           limit == 100 * capital
<1> HIDE DEF Advices
<1>1. PICK m \in Nat : \E order \in [1 .. m -> Allowed] :
         /\ Ranked(Candidates) = [k \in 1 .. m |-> Candidates[order[k]]]
         /\ \A s \in Allowed : \E k \in 1 .. m : order[k] = s
  BY RankedIs
<1>2. PICK order \in [1 .. m -> Allowed] :
         /\ ranked = [k \in 1 .. m |-> Candidates[order[k]]]
         /\ \A s \in Allowed : \E k \in 1 .. m : order[k] = s
  BY <1>1
<1>3. positions = Pick(offers, places)
  <2>1. positions = IF capital > 0 THEN AllocateCapital(ranked, capital) ELSE <<>>
    BY Zenon DEF PortfolioOf
  <2>2. AllocateCapital(ranked, capital) = Pick(offers, places)
    BY Zenon DEF AllocateCapital
  <2> QED BY <2>1, <2>2, Zenon
<1> HIDE DEF ranked, positions
<1>4. Len(ranked) = m /\ DOMAIN ranked = 1 .. m
  BY <1>2
<1> DEFINE ask == [k \in 1 .. m |-> analysed[order[k]].risk.size * capital]
<1>5. \A k \in 1 .. m : /\ ranked[k].symbol = order[k]
                        /\ ranked[k].risk = analysed[order[k]].risk
                        /\ analysed[order[k]] \in Advices /\ analysed[order[k]].risk.allowed
  <2>1. \A s \in Allowed : /\ s \in DOMAIN analysed /\ analysed[s].risk.allowed
                           /\ analysed[s] \in Advices
    BY DEF Allowed
  <2>2. \A s \in DOMAIN analysed : Candidates[s].symbol = s /\ Candidates[s].risk = analysed[s].risk
    BY DEF Candidates
  <2> QED BY <1>2, <2>1, <2>2
<1>6. \A k \in 1 .. m : /\ ranked[k].risk.size \in Nat /\ ranked[k].risk.size > 0
                        /\ ranked[k].risk.size = analysed[order[k]].risk.size
  <2> TAKE k \in 1 .. m
  <2> DEFINE a == analysed[order[k]]
  <2>1. a \in Advices /\ a.risk.allowed /\ ranked[k].risk = a.risk
    BY <1>5
  <2> HIDE DEF a
  <2>2. a.risk.size \in Nat /\ a.risk.size > 0
    BY <2>1, ApprovalAsks
  <2> QED BY <2>1, <2>2 DEF a
<1>7. \A k \in 1 .. m : ask[k] \in Nat /\ ask[k] > 0 /\ ask[k] = ranked[k].risk.size * capital
  <2> TAKE k \in 1 .. m
  <2> DEFINE size == ranked[k].risk.size
  <2>1. size \in Nat /\ size > 0 /\ ask[k] = size * capital
    BY <1>6
  <2> HIDE DEF size, ask
  <2>2. size * capital \in Nat /\ size * capital > 0
    BY <2>1
  <2> QED BY <2>1, <2>2 DEF size
<1>8. /\ taken \in [0 .. m -> Int] /\ taken[0] = 0
      /\ \A k \in 1 .. m : taken[k] = Smaller(limit, taken[k - 1] + ranked[k].risk.size * capital)
  <2>0. Len(ranked) = m
    BY <1>4
  <2>1. \A k \in 1 .. m : ranked[k].risk.size \in Nat
    BY <1>6
  <2>2. TakenInTurn(taken, ranked, m, capital)
    BY <2>0, <2>1, DeployedIs, Zenon
  <2> HIDE DEF taken
  <2> QED BY <2>2 DEF TakenInTurn
<1>9. \A k \in 1 .. m : taken[k] = Smaller(limit, taken[k - 1] + ask[k])
  <2> TAKE k \in 1 .. m
  <2> HIDE DEF taken, limit, ask
  <2>1. ask[k] = ranked[k].risk.size * capital
    BY <1>7
  <2> QED BY <1>8, <2>1
<1>10. limit \in Nat /\ limit > 0
  OBVIOUS
<1> HIDE DEF taken, ask, limit
<1>11. PICK q \in 0 .. m :
         /\ \A k \in 1 .. m : taken[k] - taken[k - 1] > 0 <=> k <= q
         /\ \A k \in 0 .. m : k < q => taken[k] < limit
         /\ q < m => taken[q] = limit
         /\ \A k \in 0 .. m : taken[k] <= limit
  BY <1>7, <1>8, <1>9, <1>10, HandingOut
<1>12. /\ DOMAIN offers = 1 .. m
       /\ \A k \in 1 .. m : offers[k].symbol = order[k] /\ offers[k].amount = taken[k] - taken[k - 1]
  BY <1>4, <1>5
<1> q \in Nat
  OBVIOUS
<1>13. places = 1 .. q
  BY <1>11, <1>12
<1> DEFINE first == [k \in 1 .. q |-> offers[k]]
<1>14. positions = first
  <2>1. first \in Seq({offers[k] : k \in 1 .. q}) /\ DOMAIN first = 1 .. q
    <3> HIDE DEF offers
    <3> QED OBVIOUS
  <2>2. Pick(first, 1 .. q) = first
    BY <2>1, PickOfAll, Zenon
  <2>3. IsFiniteSet(1 .. q) /\ 1 .. q \in SUBSET Int
    BY FS_Interval
  <2>4. \A k \in 1 .. q : offers[k] = first[k]
    <3> HIDE DEF offers
    <3> QED OBVIOUS
  <2> HIDE DEF first
  <2>5. Pick(offers, 1 .. q) = Pick(first, 1 .. q)
    BY <2>3, <2>4, PickOfAgreeing, Zenon
  <2> QED BY <1>3, <1>13, <2>2, <2>5, Zenon
<1> HIDE DEF offers
<1>15. /\ DOMAIN positions = 1 .. q /\ Len(positions) = q
       /\ \A k \in 1 .. q : positions[k] = offers[k]
  BY <1>14
<1> HIDE DEF first, places
<1>16. \A k \in 1 .. q : positions[k].symbol = order[k] /\ positions[k].amount = taken[k] - taken[k - 1]
  BY <1>12, <1>15
<1>17. Total(Amounts(positions)) = taken[q]
  <2> DEFINE amounts == Amounts(positions)
             f == SumsOf(amounts)
             G == {k \in 0 .. q : f[k] = taken[k]}
  <2>1. Len(amounts) = q /\ \A k \in 1 .. q : amounts[k] = taken[k] - taken[k - 1]
    BY <1>15, <1>16 DEF Amounts
  <2>2. \A k \in 1 .. q : amounts[k] \in Int
    BY <1>8, <2>1
  <2> HIDE DEF amounts
  <2>3. /\ f \in [0 .. q -> Int] /\ f[0] = 0 /\ Total(amounts) = f[q]
        /\ \A k \in 1 .. q : f[k] = f[k - 1] + amounts[k]
    BY <2>1, <2>2, SumsOfIntegers
  <2> HIDE DEF f
  <2>4. 0 \in G
    BY <1>8, <2>3
  <2>5. ASSUME NEW k \in 0 .. q - 1, k \in G PROVE k + 1 \in G
    <3>1. /\ k + 1 \in 1 .. q /\ k + 1 \in 0 .. q /\ (k + 1) - 1 = k /\ k \in 0 .. q
          /\ k \in 0 .. m /\ k + 1 \in 0 .. m
      OBVIOUS
    <3>2. f[k + 1] = f[k] + (taken[k + 1] - taken[k])
      BY <2>1, <2>3, <3>1
    <3>3. taken[k] \in Int /\ taken[k + 1] \in Int /\ f[k] = taken[k]
      BY <1>8, <2>5, <3>1
    <3> QED BY <3>1, <3>2, <3>3
  <2> HIDE DEF G
  <2>6. \A k \in 0 .. q : k \in G
    BY <2>4, <2>5, UpToInduction
  <2>7. f[q] = taken[q]
    BY <2>6 DEF G
  <2> QED BY <2>3, <2>7 DEF amounts
<1>18. ASSUME NEW k \in 1 .. q
       PROVE  /\ positions[k].amount \in Int /\ positions[k].amount <= ask[k]
              /\ positions[k].amount < ask[k] => k = q /\ taken[q] = limit
  <2>1. /\ k \in 1 .. m /\ k \in 0 .. m /\ k - 1 \in 0 .. m
        /\ taken[k] \in Int /\ taken[k - 1] \in Int
    BY <1>8
  <2>2. taken[k] = Smaller(limit, taken[k - 1] + ask[k]) /\ ask[k] \in Nat
    BY <1>7, <1>9, <2>1
  <2>3. positions[k].amount = taken[k] - taken[k - 1]
    BY <1>16
  <2>4. taken[k] = limit \/ taken[k] = taken[k - 1] + ask[k]
    BY <2>2 DEF Smaller
  <2>5. taken[k] <= taken[k - 1] + ask[k]
    BY <1>10, <2>1, <2>2 DEF Smaller
  <2>6. k < q => taken[k] < limit
    BY <1>11, <2>1
  <2>7. positions[k].amount \in Int /\ positions[k].amount <= ask[k]
    BY <2>1, <2>2, <2>3, <2>5
  <2>8. ASSUME positions[k].amount < ask[k] PROVE k = q /\ taken[q] = limit
    <3>1. taken[k] = limit
      BY <2>1, <2>2, <2>3, <2>4, <2>8
    <3>2. ~(k < q)
      BY <1>10, <2>6, <3>1
    <3> QED BY <3>1, <3>2
  <2> QED BY <2>7, <2>8
<1>19. ASSUME {order[k] : k \in 1 .. q} # Allowed PROVE taken[q] = limit
  <2>1. q # m
    BY <1>2, <1>19
  <2> QED BY <1>11, <2>1
<1> DEFINE given == [k \in 1 .. q |-> order[k]]
<1>20. /\ given \in [1 .. q -> Allowed] /\ q \in Nat
       /\ \A k \in 1 .. q : given[k] = order[k] /\ ask[k] = analysed[given[k]].risk.size * capital
  BY <1>2 DEF ask
<1>21. {given[k] : k \in 1 .. q} = {order[k] : k \in 1 .. q}
  BY <1>20
<1>22. taken[q] \in Int /\ taken[q] <= limit
  BY <1>8, <1>11
<1> HIDE DEF given
<1>23. /\ \A k \in 1 .. q : positions[k].symbol = given[k] /\ positions[k].amount \in Int
       /\ \A k \in 1 .. q : positions[k].amount <= analysed[given[k]].risk.size * capital
       /\ Total(Amounts(positions)) <= limit /\ Total(Amounts(positions)) \in Int
       /\ \A k \in 1 .. q : positions[k].amount < analysed[given[k]].risk.size * capital =>
            k = q /\ Total(Amounts(positions)) = limit
       /\ {given[k] : k \in 1 .. q} # Allowed => Total(Amounts(positions)) = limit
  BY <1>16, <1>17, <1>18, <1>19, <1>20, <1>21, <1>22, Zenon
<1>24. InTurn(positions, given, q, capital)
  BY <1>15, <1>21, <1>23, Zenon DEF InTurn, limit
<1> QED BY <1>20, <1>24, Zenon DEF positions

\* Without capital there are no positions.
LEMMA NoCapitalNoPositions ==
  ASSUME NEW capital \in Int, ~(capital > 0)
  PROVE  /\ PortfolioOf(Candidates, capital).positions = <<>>
         /\ Total(Amounts(<<>>)) = 0
<1>1. PortfolioOf(Candidates, capital).positions = <<>>
  BY Zenon DEF PortfolioOf
<1>2. Len(Amounts(<<>>)) = 0
  BY DEF Amounts
<1>3. \A i \in 1 .. 0 : Amounts(<<>>)[i] \in Int
  OBVIOUS
<1>4. Total(Amounts(<<>>)) = SumFunctionOnSet(Amounts(<<>>), 1 .. 0)
  BY <1>2, <1>3, TotalIsSum
<1>5. 1 .. 0 = {}
  OBVIOUS
<1> QED BY <1>1, <1>4, <1>5, SumOfNothing, Zenon

LEMMA PortfolioFields ==
  ASSUME NEW capital \in Int
  PROVE  LET p == PortfolioOf(Candidates, capital)
         IN p.capital = capital /\ p.cash = 100 * capital - Total(Amounts(p.positions))
BY DEF PortfolioOf

\* A stock in a bear market or with a broken trend gets no position: the gate of
\* CompositeScoreEngine holds through TradePlanEngine, RiskEngine and
\* PortfolioEngine, for every market, every stock and every capital.
THEOREM GatedStocksAreNeverBought == Spec => []GatedIsNeverBought
<1>1. AdviceInv => GatedIsNeverBought
  <2> SUFFICES ASSUME AdviceInv PROVE GatedIsNeverBought
    OBVIOUS
  <2> HIDE DEF Advices
  <2>1. analysed \in Seq(Advices)
    BY DEF AdviceInv
  <2>2. CASE ~Known(portfolio)
    <3>1. DOMAIN Positions = {}
      BY <2>2 DEF Positions
    <3> QED BY <3>1, Zenon DEF GatedIsNeverBought
  <2>3. CASE Known(portfolio)
    <3>1. PICK capital \in Capitals : portfolio = PortfolioOf(Candidates, capital)
      BY <2>3, Zenon DEF AdviceInv
    <3>2. capital \in Int
      BY AdviceAssumption
    <3>3. Positions = PortfolioOf(Candidates, capital).positions
      BY <2>3, <3>1, Zenon DEF Positions
    <3>4. CASE ~(capital > 0)
      <4>1. Positions = <<>>
        BY <3>2, <3>3, <3>4, NoCapitalNoPositions, Zenon
      <4>2. DOMAIN Positions = {}
        BY <4>1
      <4> QED BY <4>2, Zenon DEF GatedIsNeverBought
    <3>5. CASE capital > 0
      <4>1. PICK q \in Nat : \E order \in [1 .. q -> Allowed] : InTurn(Positions, order, q, capital)
        BY <2>1, <3>2, <3>3, <3>5, PositionsAre, Zenon
      <4>2. PICK order \in [1 .. q -> Allowed] :
              /\ DOMAIN Positions = 1 .. q
              /\ \A k \in 1 .. q : Positions[k].symbol = order[k]
        BY <4>1, Zenon DEF InTurn
      <4>3. \A k \in DOMAIN Positions : Positions[k].symbol \in Allowed
        BY <4>2
      <4>4. \A s \in Allowed : /\ analysed[s] \in Advices /\ analysed[s].risk.allowed
        BY <2>1 DEF Allowed
      <4>5. \A s \in Allowed : ~BearMarket(analysed[s].assessed) /\ ~BrokenTrend(analysed[s].assessed)
        BY <4>4, ApprovedPassedTheGate, Zenon
      <4> QED BY <4>3, <4>5, Zenon DEF GatedIsNeverBought
    <3> QED BY <3>4, <3>5
  <2> QED BY <2>2, <2>3
<1> QED BY <1>1, AdviceInvHolds, PTL

\* PortfolioEngine._allocate_capital hands the capital out exactly once: the cash
\* and what the positions take add up to it, no position takes more than its own
\* size, and whoever gets less than that or nothing at all was ranked where the
\* capital ran out.
THEOREM CapitalIsHandedOut == Spec => []CapitalIsHandedOutInOrder
<1>1. AdviceInv => CapitalIsHandedOutInOrder
  <2> SUFFICES ASSUME AdviceInv, Known(portfolio), portfolio.capital >= 0
               PROVE  LET size(i) == analysed[Positions[i].symbol].risk.size * portfolio.capital
                          allowed == {s \in DOMAIN analysed : analysed[s].risk.allowed}
                          bought  == {Positions[i].symbol : i \in DOMAIN Positions}
                      IN /\ portfolio.cash >= 0
                         /\ portfolio.cash + Total(Amounts(Positions)) = 100 * portfolio.capital
                         /\ \A i \in DOMAIN Positions :
                              /\ Positions[i].amount <= size(i)
                              /\ Positions[i].amount < size(i) => i = Len(Positions) /\ portfolio.cash = 0
                         /\ bought # allowed => portfolio.cash = 0
    BY Zenon DEF CapitalIsHandedOutInOrder
  <2> HIDE DEF Advices
  <2>1. analysed \in Seq(Advices)
    BY DEF AdviceInv
  <2>2. PICK capital \in Capitals : portfolio = PortfolioOf(Candidates, capital)
    BY Zenon DEF AdviceInv
  <2>3. capital \in Int
    BY AdviceAssumption
  <2>4. /\ Positions = PortfolioOf(Candidates, capital).positions
        /\ portfolio.capital = capital
        /\ portfolio.cash = 100 * capital - Total(Amounts(Positions))
    <3>1. Positions = PortfolioOf(Candidates, capital).positions
      BY <2>2, Zenon DEF Positions
    <3> QED BY <2>2, <2>3, <3>1, PortfolioFields
  <2>5. CASE ~(capital > 0)
    <3>1. Positions = <<>> /\ Total(Amounts(Positions)) = 0
      BY <2>3, <2>4, <2>5, NoCapitalNoPositions, Zenon
    <3>2. capital = 0 /\ portfolio.cash = 0
      BY <2>3, <2>4, <2>5, <3>1
    <3>3. DOMAIN Positions = {}
      BY <3>1
    <3> QED BY <2>4, <3>1, <3>2, <3>3
  <2>6. CASE capital > 0
    <3> DEFINE total == Total(Amounts(Positions))
               asked == [k \in DOMAIN Positions |-> analysed[Positions[k].symbol].risk.size * capital]
               bought == {Positions[i].symbol : i \in DOMAIN Positions}
    <3>1. PICK q \in Nat : \E order \in [1 .. q -> Allowed] : InTurn(Positions, order, q, capital)
      BY <2>1, <2>3, <2>4, <2>6, PositionsAre, Zenon
    <3>2. PICK order \in [1 .. q -> Allowed] :
            /\ DOMAIN Positions = 1 .. q /\ Len(Positions) = q
            /\ \A k \in 1 .. q : Positions[k].symbol = order[k] /\ Positions[k].amount \in Int
            /\ \A k \in 1 .. q : Positions[k].amount <= analysed[order[k]].risk.size * capital
            /\ total <= 100 * capital /\ total \in Int
            /\ \A k \in 1 .. q : Positions[k].amount < analysed[order[k]].risk.size * capital =>
                 k = q /\ total = 100 * capital
            /\ {order[k] : k \in 1 .. q} # Allowed => total = 100 * capital
      BY <3>1, Zenon DEF InTurn
    <3>3. bought = {order[k] : k \in 1 .. q}
      BY <3>2
    <3>4. \A k \in 1 .. q : asked[k] = analysed[order[k]].risk.size * capital
      BY <3>2
    <3>5. portfolio.cash = 100 * capital - total
      BY <2>4
    <3> HIDE DEF total, bought
    <3>6. portfolio.cash >= 0 /\ portfolio.cash + total = 100 * capital
      BY <2>3, <3>2, <3>5
    <3>7. total = 100 * capital => portfolio.cash = 0
      BY <2>3, <3>2, <3>5
    <3>8. bought # Allowed => portfolio.cash = 0
      BY <3>2, <3>3, <3>7, Zenon
    <3>9. \A i \in DOMAIN Positions : /\ Positions[i].amount <= asked[i]
                                      /\ Positions[i].amount < asked[i] =>
                                           i = Len(Positions) /\ portfolio.cash = 0
      <4> HIDE DEF asked
      <4> TAKE i \in DOMAIN Positions
      <4>1. i \in 1 .. q /\ q = Len(Positions)
        BY <3>2
      <4>2. asked[i] = analysed[order[i]].risk.size * capital
        BY <3>4, <4>1
      <4>3. Positions[i].amount <= asked[i] /\ (Positions[i].amount < asked[i] => i = q /\ total = 100 * capital)
        BY <3>2, <4>1, <4>2
      <4> QED BY <3>7, <4>1, <4>3
    <3>10. \A i \in DOMAIN Positions :
             /\ Positions[i].amount <= analysed[Positions[i].symbol].risk.size * portfolio.capital
             /\ Positions[i].amount < analysed[Positions[i].symbol].risk.size * portfolio.capital =>
                  i = Len(Positions) /\ portfolio.cash = 0
      BY <2>4, <3>9, Zenon
    <3> QED BY <2>4, <3>6, <3>8, <3>10, Zenon DEF total, bought, Allowed
  <2> QED BY <2>5, <2>6
<1> QED BY <1>1, AdviceInvHolds, PTL

LEMMA QuotientReaches ==
  ASSUME NEW a \in Int, NEW d \in Int, d > 0, a \div d >= 200
  PROVE  a >= 200 * d
<1> DEFINE quotient == a \div d
<1>1. quotient \in Int /\ d * quotient <= a
  OBVIOUS
<1>2. quotient >= 200
  OBVIOUS
<1> HIDE DEF quotient
<1>3. d * quotient >= d * 200
  BY <1>1, <1>2
<1> QED BY <1>1, <1>3

\* The ratio of reward to risk reaches 2 only when rounding the target to cents
\* adds to it, which takes a risk of half a cent at most.
LEMMA RewardTakesRounding ==
  ASSUME NEW p, PatternOK(p), Known(RiskRewardRatio(p)), RiskRewardRatio(p) >= 200
  PROVE  RiskOf(p) < 10
<1> DEFINE entry == Entry(p)
           stop == ValidStop(p)
           risk == entry - stop
           target == Cents(entry + risk)
<1>1. HasRisk(p)
  BY Zenon DEF RiskRewardRatio, Known
<1>2. entry \in Int /\ stop \in Int
  BY <1>1, EntryType DEF HasRisk, Price, Known
<1>3. stop < entry
  BY <1>1, <1>2 DEF HasRisk, ValidStop, Known
<1>4. RiskOf(p) = risk
  BY DEF RiskOf
<1>5. Targets(p)[1] = target
  <2>1. Targets(p) = [k \in 1 .. 3 |-> Cents(entry + k * RiskOf(p))]
    BY <1>1, Zenon DEF Targets
  <2>2. Targets(p)[1] = Cents(entry + 1 * RiskOf(p))
    BY <2>1
  <2>3. 1 * RiskOf(p) = risk
    BY <1>2, <1>4
  <2> QED BY <2>2, <2>3, Zenon
<1>6. RiskRewardRatio(p) = (200 * (target - entry) + risk) \div (2 * risk)
  BY <1>1, <1>4, <1>5 DEF RiskRewardRatio
<1> HIDE DEF entry, stop
<1>7. risk \in Int /\ risk > 0 /\ entry + risk \in Int
  BY <1>2, <1>3
<1> HIDE DEF risk
<1>8. target \in Int /\ target <= entry + risk + 5
  BY <1>2, <1>7 DEF Cents
<1> HIDE DEF target
<1>9. 200 * (target - entry) + risk \in Int /\ 2 * risk \in Int /\ 2 * risk > 0
  BY <1>2, <1>7, <1>8
<1>10. 200 * (target - entry) + risk >= 200 * (2 * risk)
  BY <1>6, <1>9, QuotientReaches
<1>11. risk < 10
  BY <1>2, <1>7, <1>8, <1>10
<1> QED BY <1>4, <1>11 DEF risk

\* Execution is allowed (RiskEngine) only on a stop less than a cent below the
\* entry: TradePlanEngine sets the first target one risk above the entry, so the
\* two risks it asks for come out of rounding to cents, whatever the stock.
THEOREM ApprovalTakesSubCentStops == Spec => []ApprovedOnlyOnSubCentStops
<1>1. AdviceInv => ApprovedOnlyOnSubCentStops
  <2> SUFFICES ASSUME AdviceInv, NEW i \in DOMAIN analysed, analysed[i].risk.allowed
               PROVE  RiskOf(analysed[i].assessed.pattern) < 10
    BY Zenon DEF ApprovedOnlyOnSubCentStops
  <2> HIDE DEF Advices
  <2> DEFINE a == analysed[i]
             p == a.assessed.pattern
  <2>1. a \in Advices /\ a.risk.allowed
    BY DEF AdviceInv
  <2> HIDE DEF a
  <2>2. PatternOK(p)
    BY <2>1, AdviceIsAdvised DEF AssessedOK
  <2>3. ExecutionStatus(a.composite, p) = "READY"
    BY <2>1, ApprovalAsks
  <2>4. Known(RiskRewardRatio(p)) /\ RiskRewardRatio(p) >= 200
    BY <2>3 DEF ExecutionStatus
  <2> QED BY <2>2, <2>4, RewardTakesRounding DEF a
<1> QED BY <1>1, AdviceInvHolds, PTL

-----------------------------------------------------------------------------
(* Strategies that ask for less.                                           *)

NoneFails(gates) == {i \in DOMAIN gates : gates[i].fails} = {}
FailsOnlyWith(g, h) == g.fails => h.fails

\* Lists of gates, one by one.
LEMMA FiveGates ==
  ASSUME NEW g1, NEW g2, NEW g3, NEW g4, NEW g5, NEW h1, NEW h2, NEW h3, NEW h4, NEW h5,
         FailsOnlyWith(g1, h1), FailsOnlyWith(g2, h2), FailsOnlyWith(g3, h3),
         FailsOnlyWith(g4, h4), FailsOnlyWith(g5, h5)
  PROVE  NoneFails(<<h1, h2, h3, h4, h5>>) => NoneFails(<<g1, g2, g3, g4, g5>>)
<1> DEFINE g == <<g1, g2, g3, g4, g5>>
           h == <<h1, h2, h3, h4, h5>>
<1>1. /\ DOMAIN g = 1 .. 5 /\ DOMAIN h = 1 .. 5
      /\ g[1] = g1 /\ g[2] = g2 /\ g[3] = g3 /\ g[4] = g4 /\ g[5] = g5
      /\ h[1] = h1 /\ h[2] = h2 /\ h[3] = h3 /\ h[4] = h4 /\ h[5] = h5
  OBVIOUS
<1> HIDE DEF g, h
<1>2. \A i \in 1 .. 5 : i = 1 \/ i = 2 \/ i = 3 \/ i = 4 \/ i = 5
  OBVIOUS
<1>3. \A i \in 1 .. 5 : g[i].fails => h[i].fails
  BY <1>1, <1>2, Zenon DEF FailsOnlyWith
<1> QED BY <1>1, <1>3, Zenon DEF NoneFails, g, h

LEMMA SixGates ==
  ASSUME NEW g1, NEW g2, NEW g3, NEW g4, NEW g5, NEW g6,
         NEW h1, NEW h2, NEW h3, NEW h4, NEW h5, NEW h6,
         FailsOnlyWith(g1, h1), FailsOnlyWith(g2, h2), FailsOnlyWith(g3, h3),
         FailsOnlyWith(g4, h4), FailsOnlyWith(g5, h5), FailsOnlyWith(g6, h6)
  PROVE  NoneFails(<<h1, h2, h3, h4, h5, h6>>) => NoneFails(<<g1, g2, g3, g4, g5, g6>>)
<1> DEFINE g == <<g1, g2, g3, g4, g5, g6>>
           h == <<h1, h2, h3, h4, h5, h6>>
<1>1. /\ DOMAIN g = 1 .. 6 /\ DOMAIN h = 1 .. 6
      /\ g[1] = g1 /\ g[2] = g2 /\ g[3] = g3 /\ g[4] = g4 /\ g[5] = g5 /\ g[6] = g6
      /\ h[1] = h1 /\ h[2] = h2 /\ h[3] = h3 /\ h[4] = h4 /\ h[5] = h5 /\ h[6] = h6
  OBVIOUS
<1> HIDE DEF g, h
<1>2. \A i \in 1 .. 6 : i = 1 \/ i = 2 \/ i = 3 \/ i = 4 \/ i = 5 \/ i = 6
  OBVIOUS
<1>3. \A i \in 1 .. 6 : g[i].fails => h[i].fails
  BY <1>1, <1>2, Zenon DEF FailsOnlyWith
<1> QED BY <1>1, <1>3, Zenon DEF NoneFails, g, h

LEMMA TenGates ==
  ASSUME NEW g1, NEW g2, NEW g3, NEW g4, NEW g5, NEW g6, NEW g7, NEW g8, NEW g9, NEW g10,
         NEW h1, NEW h2, NEW h3, NEW h4, NEW h5, NEW h6, NEW h7, NEW h8, NEW h9, NEW h10,
         FailsOnlyWith(g1, h1), FailsOnlyWith(g2, h2), FailsOnlyWith(g3, h3),
         FailsOnlyWith(g4, h4), FailsOnlyWith(g5, h5), FailsOnlyWith(g6, h6),
         FailsOnlyWith(g7, h7), FailsOnlyWith(g8, h8), FailsOnlyWith(g9, h9),
         FailsOnlyWith(g10, h10)
  PROVE  NoneFails(<<h1, h2, h3, h4, h5, h6, h7, h8, h9, h10>>)
           => NoneFails(<<g1, g2, g3, g4, g5, g6, g7, g8, g9, g10>>)
<1> DEFINE g == <<g1, g2, g3, g4, g5, g6, g7, g8, g9, g10>>
           h == <<h1, h2, h3, h4, h5, h6, h7, h8, h9, h10>>
<1>1. /\ DOMAIN g = 1 .. 10 /\ DOMAIN h = 1 .. 10
      /\ g[1] = g1 /\ g[2] = g2 /\ g[3] = g3 /\ g[4] = g4 /\ g[5] = g5
      /\ g[6] = g6 /\ g[7] = g7 /\ g[8] = g8 /\ g[9] = g9 /\ g[10] = g10
      /\ h[1] = h1 /\ h[2] = h2 /\ h[3] = h3 /\ h[4] = h4 /\ h[5] = h5
      /\ h[6] = h6 /\ h[7] = h7 /\ h[8] = h8 /\ h[9] = h9 /\ h[10] = h10
  OBVIOUS
<1> HIDE DEF g, h
<1>2. \A i \in 1 .. 10 : \/ i = 1 \/ i = 2 \/ i = 3 \/ i = 4 \/ i = 5
                         \/ i = 6 \/ i = 7 \/ i = 8 \/ i = 9 \/ i = 10
  OBVIOUS
<1>3. \A i \in 1 .. 10 : g[i].fails => h[i].fails
  BY <1>1, <1>2 DEF FailsOnlyWith
<1> QED BY <1>1, <1>3, Zenon DEF NoneFails, g, h

\* Every gate that depends on the configuration.
LEMMA GatesOpen ==
  ASSUME NEW x \in Advices, NEW cfg \in Configurations, NEW weaker \in Configurations,
         Stricter(cfg, weaker)
  PROVE  /\ FailsOnlyWith(BearGate(x, weaker), BearGate(x, cfg))
         /\ FailsOnlyWith(ExtendedGate(x, weaker), ExtendedGate(x, cfg))
         /\ FailsOnlyWith(CompositeGate(x, weaker), CompositeGate(x, cfg))
         /\ FailsOnlyWith(ConfidenceGate(x, weaker), ConfidenceGate(x, cfg))
         /\ FailsOnlyWith(MinimumGate(x, "pattern", weaker.min_pattern),
                          MinimumGate(x, "pattern", cfg.min_pattern))
         /\ FailsOnlyWith(MinimumGate(x, "volume", weaker.min_volume),
                          MinimumGate(x, "volume", cfg.min_volume))
         /\ FailsOnlyWith(MinimumGate(x, "trend", weaker.min_trend),
                          MinimumGate(x, "trend", cfg.min_trend))
         /\ FailsOnlyWith(MinimumGate(x, "rs", weaker.min_rs), MinimumGate(x, "rs", cfg.min_rs))
         /\ \A gate : FailsOnlyWith(gate, gate)
<1> HIDE DEF Advices
<1>1. /\ x.composite.overall \in Int /\ x.composite.confidence \in Int
      /\ AssessedOK(x.assessed)
  BY AdviceType, AdviceIsAdvised
<1>2. /\ cfg.min_composite \in Int /\ weaker.min_composite \in Int
      /\ cfg.min_confidence \in Int /\ weaker.min_confidence \in Int
      /\ cfg.min_pattern \in Int /\ weaker.min_pattern \in Int
      /\ cfg.min_volume \in Int /\ weaker.min_volume \in Int
      /\ cfg.min_trend \in Int /\ weaker.min_trend \in Int
      /\ cfg.min_rs \in Int /\ weaker.min_rs \in Int
  BY AdviceAssumption
<1>3. /\ cfg.min_composite >= weaker.min_composite /\ cfg.min_confidence >= weaker.min_confidence
      /\ cfg.min_pattern >= weaker.min_pattern /\ cfg.min_volume >= weaker.min_volume
      /\ cfg.min_trend >= weaker.min_trend /\ cfg.min_rs >= weaker.min_rs
      /\ cfg.allow_bear => weaker.allow_bear
      /\ cfg.allow_extended => weaker.allow_extended
  BY DEF Stricter
<1>4. FailsOnlyWith(BearGate(x, weaker), BearGate(x, cfg))
  BY <1>3, Zenon DEF FailsOnlyWith, BearGate, Gate
<1>5. FailsOnlyWith(ExtendedGate(x, weaker), ExtendedGate(x, cfg))
  BY <1>3, Zenon DEF FailsOnlyWith, ExtendedGate, Gate
<1>6. FailsOnlyWith(CompositeGate(x, weaker), CompositeGate(x, cfg))
  <2>1. x.composite.overall < 100 * weaker.min_composite => x.composite.overall < 100 * cfg.min_composite
    BY <1>1, <1>2, <1>3
  <2> QED BY <2>1, Zenon DEF FailsOnlyWith, CompositeGate, Gate
<1>7. FailsOnlyWith(ConfidenceGate(x, weaker), ConfidenceGate(x, cfg))
  <2>1. x.composite.confidence < 100 * weaker.min_confidence => x.composite.confidence < 100 * cfg.min_confidence
    BY <1>1, <1>2, <1>3
  <2> QED BY <2>1, Zenon DEF FailsOnlyWith, ConfidenceGate, Gate
<1>8. ASSUME NEW source \in {"market", "rs", "trend", "pattern", "volume"},
             NEW low \in Int, NEW high \in Int, high >= low
      PROVE  FailsOnlyWith(MinimumGate(x, source, low), MinimumGate(x, source, high))
  <2>1. Raw(x.assessed, source) \in Int
    BY <1>1, RawType
  <2>2. Points(low) \in Int /\ Points(high) \in Int /\ Points(low) <= Points(high)
    BY <1>8 DEF Points, PerPoint
  <2>3. low > 0 /\ Raw(x.assessed, source) < Points(low)
          => high > 0 /\ Raw(x.assessed, source) < Points(high)
    BY <1>8, <2>1, <2>2
  <2> QED BY <2>3, Zenon DEF FailsOnlyWith, MinimumGate, Gate
<1>9. \A gate : FailsOnlyWith(gate, gate)
  BY Zenon DEF FailsOnlyWith
<1> QED BY <1>2, <1>3, <1>4, <1>5, <1>6, <1>7, <1>8, <1>9

LEMMA VerdictIs ==
  ASSUME NEW type, NEW x, NEW cfg
  PROVE  Verdict(type, x, cfg).approved <=> ValidConfiguration(cfg) /\ NoneFails(GatesOf(type, x, cfg))
BY Zenon DEF Verdict, NoneFails

LEMMA GatesAreThose ==
  ASSUME NEW x, NEW cfg
  PROVE  /\ GatesOf("momentum", x, cfg) = MomentumGates(x, cfg)
         /\ GatesOf("breakout", x, cfg) = BreakoutGates(x, cfg)
         /\ GatesOf("trend", x, cfg) = TrendFollowingGates(x, cfg)
         /\ GatesOf("growth", x, cfg) = GrowthGates(x, cfg)
         /\ GatesOf("quality", x, cfg) = QualityGates(x, cfg)
         /\ GatesOf("custom", x, cfg) = CustomGates(x, cfg)
BY DEF GatesOf

LEMMA AskingForLess ==
  ASSUME NEW x \in Advices, NEW cfg \in Configurations, NEW weaker \in Configurations,
         Stricter(cfg, weaker), NEW type \in StrategyTypes, NoneFails(GatesOf(type, x, cfg))
  PROVE  NoneFails(GatesOf(type, x, weaker))
<1> HIDE DEF Advices
<1>1. NoneFails(MomentumGates(x, cfg)) => NoneFails(MomentumGates(x, weaker))
  BY GatesOpen, SixGates, Zenon DEF MomentumGates
<1>2. NoneFails(BreakoutGates(x, cfg)) => NoneFails(BreakoutGates(x, weaker))
  BY GatesOpen, SixGates DEF BreakoutGates
<1>3. NoneFails(TrendFollowingGates(x, cfg)) => NoneFails(TrendFollowingGates(x, weaker))
  BY GatesOpen, SixGates DEF TrendFollowingGates
<1>4. NoneFails(GrowthGates(x, cfg)) => NoneFails(GrowthGates(x, weaker))
  <2>1. /\ cfg.ignore_pattern => weaker.ignore_pattern
        /\ weaker.require_pattern => cfg.require_pattern
    BY DEF Stricter
  <2> DEFINE pattern(c) == Gate(~c.ignore_pattern /\ c.require_pattern /\ x.assessed.pattern.score = 0,
                                "no pattern")
  <2>2. FailsOnlyWith(pattern(weaker), pattern(cfg))
    BY <2>1, Zenon DEF FailsOnlyWith, Gate
  <2>3. /\ GrowthGates(x, cfg) = <<CompositeGate(x, cfg), ConfidenceGate(x, cfg), pattern(cfg),
                                   RiskGate(x), BearGate(x, cfg)>>
        /\ GrowthGates(x, weaker) = <<CompositeGate(x, weaker), ConfidenceGate(x, weaker),
                                      pattern(weaker), RiskGate(x), BearGate(x, weaker)>>
    BY Zenon DEF GrowthGates
  <2> HIDE DEF pattern
  <2>4. /\ FailsOnlyWith(CompositeGate(x, weaker), CompositeGate(x, cfg))
        /\ FailsOnlyWith(ConfidenceGate(x, weaker), ConfidenceGate(x, cfg))
        /\ FailsOnlyWith(RiskGate(x), RiskGate(x))
        /\ FailsOnlyWith(BearGate(x, weaker), BearGate(x, cfg))
    BY GatesOpen, Zenon
  <2> QED BY <2>2, <2>3, <2>4, FiveGates
<1>5. NoneFails(QualityGates(x, cfg)) => NoneFails(QualityGates(x, weaker))
  <2> DEFINE regime == Gate(x.assessed.market.class \in {"Bear", "Weak"}, "regime")
             grade == Gate(x.risk.grade >= 4, "grade")
             gates(c) == <<regime, CompositeGate(x, c), ConfidenceGate(x, c), grade, RiskGate(x)>>
  <2>1. QualityGates(x, cfg) = gates(cfg) /\ QualityGates(x, weaker) = gates(weaker)
    BY Zenon DEF QualityGates
  <2> HIDE DEF regime, grade
  <2>2. NoneFails(gates(cfg)) => NoneFails(gates(weaker))
    BY GatesOpen, FiveGates
  <2> QED BY <2>1, <2>2, Zenon
<1>6. NoneFails(CustomGates(x, cfg)) => NoneFails(CustomGates(x, weaker))
  <2>1. weaker.strong_trend => cfg.strong_trend
    BY DEF Stricter
  <2> DEFINE trend(c) == Gate(c.strong_trend /\ x.assessed.trend.quality \notin {"Strong", "Exceptional"},
                              "trend quality")
             gates(c) == <<BearGate(x, c), ExtendedGate(x, c), CompositeGate(x, c), ConfidenceGate(x, c),
                           MinimumGate(x, "pattern", c.min_pattern),
                           MinimumGate(x, "volume", c.min_volume),
                           MinimumGate(x, "trend", c.min_trend), MinimumGate(x, "rs", c.min_rs),
                           trend(c), RiskGate(x)>>
  <2>2. FailsOnlyWith(trend(weaker), trend(cfg))
    BY <2>1, Zenon DEF FailsOnlyWith, Gate
  <2>3. CustomGates(x, cfg) = gates(cfg) /\ CustomGates(x, weaker) = gates(weaker)
    BY Zenon DEF CustomGates
  <2> HIDE DEF trend
  <2>4. NoneFails(gates(cfg)) => NoneFails(gates(weaker))
    BY <2>2, GatesOpen, TenGates
  <2> QED BY <2>3, <2>4, Zenon
<1>7. type \in {"momentum", "breakout", "trend", "growth", "quality", "custom"}
  BY DEF StrategyTypes
<1> QED BY <1>1, <1>2, <1>3, <1>4, <1>5, <1>6, <1>7, GatesAreThose, Zenon

\* A strategy approves under every valid configuration that asks for less of what
\* it approves: the gates of the six built-in strategies only ever get easier,
\* for all minimums, switches and stocks.
THEOREM LessIsApprovedToo == Spec => []AskingForLessKeepsApproval
<1>1. AdviceInv => AskingForLessKeepsApproval
  <2> SUFFICES ASSUME AdviceInv, Known(verdict), verdict.says.approved,
                      NEW weaker \in Configurations,
                      ValidConfiguration(weaker), Stricter(verdict.cfg, weaker)
               PROVE  Verdict(verdict.type, analysed[1], weaker).approved
    BY Zenon DEF AskingForLessKeepsApproval
  <2> HIDE DEF Advices
  <2>1. PICK type \in StrategyTypes, cfg \in Configurations :
          verdict = [type |-> type, cfg |-> cfg, says |-> Verdict(type, analysed[1], cfg)]
    BY Zenon DEF AdviceInv
  <2>2. analysed[1] \in Advices
    BY DEF AdviceInv
  <2>3. verdict.type = type /\ verdict.cfg = cfg /\ verdict.says = Verdict(type, analysed[1], cfg)
    BY <2>1, Zenon
  <2>4. Verdict(type, analysed[1], cfg).approved
    BY <2>3, Zenon
  <2>5. NoneFails(GatesOf(type, analysed[1], cfg))
    BY <2>4, VerdictIs, Zenon
  <2>6. Stricter(cfg, weaker)
    BY <2>3, Zenon
  <2>7. NoneFails(GatesOf(type, analysed[1], weaker))
    BY <2>2, <2>5, <2>6, AskingForLess, Zenon
  <2>8. Verdict(type, analysed[1], weaker).approved
    BY <2>7, VerdictIs, Zenon
  <2> QED BY <2>3, <2>8, Zenon
<1> QED BY <1>1, AdviceInvHolds, PTL
===============================================================================
