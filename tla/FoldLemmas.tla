------------------------------ MODULE FoldLemmas ------------------------------
(***************************************************************************)
(* What the other proof modules need of the operators of Functions, Folds  *)
(* and Ratios: induction over Nat by least counterexample, sums of         *)
(* functions over finite sets and of sequences, members of a set in an     *)
(* order, and the highest and the last members of a sequence.              *)
(***************************************************************************)
EXTENDS Ratios, FiniteSetsExt, Functions, FiniteSetTheorems,
        WellFoundedInduction, TLAPS

\* A non-empty set of naturals has a least element.
LEMMA LeastElement ==
  ASSUME NEW T \in SUBSET Nat, T # {}
  PROVE  \E n \in T : \A m \in T : n <= m
<1>1. IsWellFoundedOn(OpToRel(<, Nat), Nat)
  BY NatLessThanWellFounded
<1>2. PICK n \in T : \A m \in T : ~ (<<m, n>> \in OpToRel(<, Nat))
  BY <1>1, WFMin
<1>3. \A m \in T : ~(m < n)
  BY <1>2 DEF OpToRel
<1> QED BY <1>3

\* A non-empty collection of subsets of a finite set has a smallest member.
LEMMA SmallestSubset ==
  ASSUME NEW S, IsFiniteSet(S), NEW C \in SUBSET SUBSET S, C # {}
  PROVE  \E A \in C : \A x \in A : A \ {x} \notin C
<1> DEFINE T == {Cardinality(A) : A \in C}
<1>1. \A A \in C : IsFiniteSet(A) /\ Cardinality(A) \in Nat
  BY FS_Subset, FS_CardinalityType
<1>2. T \in SUBSET Nat /\ T # {}
  BY <1>1
<1>3. PICK n \in T : \A m \in T : n <= m
  <2> HIDE DEF T
  <2> QED BY <1>2, LeastElement
<1>4. PICK A \in C : n = Cardinality(A)
  BY <1>3
<1>5. ASSUME NEW x \in A, A \ {x} \in C PROVE FALSE
  <2>1. Cardinality(A \ {x}) = Cardinality(A) - 1
    BY <1>1, FS_RemoveElement
  <2>2. n <= Cardinality(A \ {x})
    BY <1>3, <1>5
  <2> QED BY <1>1, <1>4, <2>1, <2>2
<1> QED BY <1>5

------------------------------------------------------------------------------
(* Sums.                                                                   *)

Chosen(s) == CHOOSE x \in s : TRUE

\* f gives the sum of v over each subset of S, as the fold computes it.
Summing(f, v, S) ==
  f = [s \in SUBSET S |-> IF s = {} THEN 0 ELSE v[Chosen(s)] + f[s \ {Chosen(s)}]]

\* Two such functions agree where both are defined.
LEMMA SummingIsUnique ==
  ASSUME NEW S, IsFiniteSet(S), NEW R, NEW v, NEW f, NEW g,
         Summing(f, v, S), Summing(g, v, R)
  PROVE  \A s \in SUBSET (S \cap R) : f[s] = g[s]
<1> DEFINE C == {s \in SUBSET (S \cap R) : f[s] # g[s]}
<1> SUFFICES ASSUME C # {} PROVE FALSE
  OBVIOUS
<1>1. PICK s \in C : \A x \in s : s \ {x} \notin C
  <2>1. C \in SUBSET SUBSET S
    OBVIOUS
  <2> HIDE DEF C
  <2> QED BY <2>1, SmallestSubset
<1>2. s # {}
  BY <1>1 DEF Summing
<1>3. Chosen(s) \in s
  BY <1>2 DEF Chosen
<1>4. f[s \ {Chosen(s)}] = g[s \ {Chosen(s)}]
  BY <1>1, <1>3
<1>5. /\ f[s] = v[Chosen(s)] + f[s \ {Chosen(s)}]
      /\ g[s] = v[Chosen(s)] + g[s \ {Chosen(s)}]
  BY <1>1, <1>2 DEF Summing
<1> QED BY <1>1, <1>4, <1>5

\* There is one.
LEMMA SummingExists ==
  ASSUME NEW S, IsFiniteSet(S), NEW v
  PROVE  \E f : Summing(f, v, S)
<1> DEFINE C == {A \in SUBSET S : ~ \E f : Summing(f, v, A)}
<1> SUFFICES ASSUME C # {} PROVE FALSE
  OBVIOUS
<1>1. PICK A \in C : \A x \in A : A \ {x} \notin C
  <2>1. C \in SUBSET SUBSET S
    OBVIOUS
  <2> HIDE DEF C
  <2> QED BY <2>1, SmallestSubset
<1> DEFINE Fn(x) == CHOOSE f : Summing(f, v, A \ {x})
           g == [s \in SUBSET A |->
                   IF s = {} THEN 0 ELSE v[Chosen(s)] + Fn(Chosen(s))[s \ {Chosen(s)}]]
<1>2. \A x \in A : Summing(Fn(x), v, A \ {x})
  BY <1>1
<1>3. \A s \in SUBSET A : s # {} => Chosen(s) \in s
  BY DEF Chosen
<1>4. ASSUME NEW s \in SUBSET A, s # {}
      PROVE  g[s \ {Chosen(s)}] = Fn(Chosen(s))[s \ {Chosen(s)}]
  <2> DEFINE c == Chosen(s)
             t == s \ {c}
             d == Chosen(t)
  <2>1. c \in A /\ t \in SUBSET (A \ {c})
    BY <1>3, <1>4
  <2>2. Summing(Fn(c), v, A \ {c})
    BY <1>2, <2>1
  <2>3. CASE t = {}
    <3>1. Fn(c)[t] = 0
      BY <2>1, <2>2, <2>3 DEF Summing
    <3>2. g[t] = 0
      BY <2>3
    <3> QED BY <3>1, <3>2
  <2>4. CASE t # {}
    <3>1. d \in t /\ d \in A
      BY <1>3, <2>1, <2>4
    <3>2. Summing(Fn(d), v, A \ {d})
      BY <1>2, <3>1
    <3>3. t \ {d} \in SUBSET ((A \ {c}) \cap (A \ {d}))
      BY <2>1
    <3>4. IsFiniteSet(A \ {c})
      BY FS_Subset
    <3>5. Fn(c)[t \ {d}] = Fn(d)[t \ {d}]
      <4> HIDE DEF Fn, d, t, c
      <4> QED BY <2>2, <3>2, <3>3, <3>4, SummingIsUnique
    <3>6. Fn(c)[t] = v[d] + Fn(c)[t \ {d}]
      <4> HIDE DEF Fn, c
      <4> QED BY <2>1, <2>2, <2>4 DEF Summing
    <3>7. g[t] = v[d] + Fn(d)[t \ {d}]
      <4> HIDE DEF Fn, c
      <4> QED BY <2>1, <2>4
    <3> QED BY <3>5, <3>6, <3>7
  <2> QED BY <2>3, <2>4
<1>5. Summing(g, v, A)
  <2>1. g = [s \in SUBSET A |->
               IF s = {} THEN 0 ELSE v[Chosen(s)] + g[s \ {Chosen(s)}]]
    <3> HIDE DEF Fn
    <3> QED BY <1>4
  <2> QED BY <2>1 DEF Summing
<1> QED BY <1>1, <1>5

\* The sum of the community modules is the value of that function.
LEMMA SumIsSumming ==
  ASSUME NEW S, IsFiniteSet(S), NEW v
  PROVE  \E f : Summing(f, v, S) /\ SumFunctionOnSet(v, S) = f[S]
<1> DEFINE fold == CHOOSE f : f = [s \in SUBSET S |->
                     IF s = {} THEN 0 ELSE v[CHOOSE x \in s : TRUE] + f[s \ {CHOOSE x \in s : TRUE}]]
<1>1. Summing(fold, v, S)
  <2>1. \E f : f = [s \in SUBSET S |->
                 IF s = {} THEN 0 ELSE v[CHOOSE x \in s : TRUE] + f[s \ {CHOOSE x \in s : TRUE}]]
    <3>1. PICK f : Summing(f, v, S)
      BY SummingExists
    <3> QED BY <3>1, Zenon DEF Summing, Chosen
  <2>2. fold = [s \in SUBSET S |->
           IF s = {} THEN 0 ELSE v[CHOOSE x \in s : TRUE] + fold[s \ {CHOOSE x \in s : TRUE}]]
    BY <2>1, Zenon
  <2> QED BY <2>2, Zenon DEF Summing, Chosen
<1>2. SumFunctionOnSet(v, S) = fold[S]
  BY DEF SumFunctionOnSet, FoldFunctionOnSet, MapThenFoldSet
<1> QED BY <1>1, <1>2

\* The sum over nothing, and over a set by its chosen element.
LEMMA SumOfNothing == ASSUME NEW v PROVE SumFunctionOnSet(v, {}) = 0
<1>1. PICK f : Summing(f, v, {}) /\ SumFunctionOnSet(v, {}) = f[{}]
  BY FS_EmptySet, SumIsSumming
<1> QED BY <1>1 DEF Summing

LEMMA SumByChosen ==
  ASSUME NEW S, IsFiniteSet(S), S # {}, NEW v
  PROVE  /\ Chosen(S) \in S
         /\ SumFunctionOnSet(v, S) = v[Chosen(S)] + SumFunctionOnSet(v, S \ {Chosen(S)})
<1> DEFINE R == S \ {Chosen(S)}
<1>1. Chosen(S) \in S
  BY DEF Chosen
<1>2. PICK f : Summing(f, v, S) /\ SumFunctionOnSet(v, S) = f[S]
  BY SumIsSumming
<1>3. IsFiniteSet(R)
  BY FS_Subset
<1>4. PICK g : Summing(g, v, R) /\ SumFunctionOnSet(v, R) = g[R]
  BY <1>3, SumIsSumming
<1>5. f[R] = g[R]
  <2>1. R \in SUBSET (S \cap R)
    OBVIOUS
  <2> HIDE DEF R
  <2> QED BY <1>2, <1>3, <1>4, <2>1, SummingIsUnique
<1>6. f[S] = v[Chosen(S)] + f[R]
  BY <1>2 DEF Summing
<1> QED BY <1>1, <1>2, <1>4, <1>5, <1>6

\* A sum of integers is one, a sum of naturals is one.
LEMMA SumOfIntegers ==
  ASSUME NEW S, IsFiniteSet(S), NEW v, \A x \in S : v[x] \in Int
  PROVE  SumFunctionOnSet(v, S) \in Int
<1> DEFINE C == {A \in SUBSET S : SumFunctionOnSet(v, A) \notin Int}
<1> SUFFICES ASSUME C # {} PROVE FALSE
  <2>1. S \in SUBSET S
    OBVIOUS
  <2> QED BY <2>1
<1>1. PICK A \in C : \A x \in A : A \ {x} \notin C
  <2>1. C \in SUBSET SUBSET S
    OBVIOUS
  <2> HIDE DEF C
  <2> QED BY <2>1, SmallestSubset
<1>2. IsFiniteSet(A)
  BY FS_Subset
<1>3. A # {}
  BY <1>1, SumOfNothing
<1>4. /\ Chosen(A) \in A
      /\ SumFunctionOnSet(v, A) = v[Chosen(A)] + SumFunctionOnSet(v, A \ {Chosen(A)})
  BY <1>2, <1>3, SumByChosen
<1>5. SumFunctionOnSet(v, A \ {Chosen(A)}) \in Int
  BY <1>1, <1>4
<1> QED BY <1>1, <1>4, <1>5

LEMMA SumOfNaturals ==
  ASSUME NEW S, IsFiniteSet(S), NEW v, \A x \in S : v[x] \in Nat
  PROVE  SumFunctionOnSet(v, S) \in Nat
<1> DEFINE C == {A \in SUBSET S : SumFunctionOnSet(v, A) \notin Nat}
<1> SUFFICES ASSUME C # {} PROVE FALSE
  <2>1. S \in SUBSET S
    OBVIOUS
  <2> QED BY <2>1
<1>1. PICK A \in C : \A x \in A : A \ {x} \notin C
  <2>1. C \in SUBSET SUBSET S
    OBVIOUS
  <2> HIDE DEF C
  <2> QED BY <2>1, SmallestSubset
<1>2. IsFiniteSet(A)
  BY FS_Subset
<1>3. A # {}
  BY <1>1, SumOfNothing
<1>4. /\ Chosen(A) \in A
      /\ SumFunctionOnSet(v, A) = v[Chosen(A)] + SumFunctionOnSet(v, A \ {Chosen(A)})
  BY <1>2, <1>3, SumByChosen
<1>5. SumFunctionOnSet(v, A \ {Chosen(A)}) \in Nat
  BY <1>1, <1>4
<1> QED BY <1>1, <1>4, <1>5

\* Any element can be taken out first.
LEMMA SumByElement ==
  ASSUME NEW S, IsFiniteSet(S), NEW v, \A x \in S : v[x] \in Int
  PROVE  \A x \in S : SumFunctionOnSet(v, S) = v[x] + SumFunctionOnSet(v, S \ {x})
<1> DEFINE Fine(A) == \A x \in A : SumFunctionOnSet(v, A) = v[x] + SumFunctionOnSet(v, A \ {x})
           C == {A \in SUBSET S : ~Fine(A)}
<1> SUFFICES ASSUME C # {} PROVE FALSE
  <2>1. S \in SUBSET S
    OBVIOUS
  <2> QED BY <2>1
<1>1. PICK A \in C : \A x \in A : A \ {x} \notin C
  <2>1. C \in SUBSET SUBSET S
    OBVIOUS
  <2> HIDE DEF C
  <2> QED BY <2>1, SmallestSubset
<1>2. PICK x \in A : SumFunctionOnSet(v, A) # v[x] + SumFunctionOnSet(v, A \ {x})
  BY <1>1
<1>3. \A B \in SUBSET S : IsFiniteSet(B)
  BY FS_Subset
<1>4. PICK c \in A : /\ SumFunctionOnSet(v, A) = v[c] + SumFunctionOnSet(v, A \ {c})
                     /\ c = Chosen(A)
  BY <1>1, <1>2, <1>3, SumByChosen
<1>5. Fine(A \ {c}) /\ Fine(A \ {x})
  BY <1>1
<1>6. x # c
  BY <1>2, <1>4
<1>7. x \in A \ {c} /\ c \in A \ {x} /\ (A \ {c}) \ {x} = (A \ {x}) \ {c}
  BY <1>6
<1> DEFINE rest == SumFunctionOnSet(v, (A \ {c}) \ {x})
<1>8. /\ SumFunctionOnSet(v, A \ {c}) = v[x] + rest
      /\ SumFunctionOnSet(v, A \ {x}) = v[c] + rest
  BY <1>5, <1>7
<1>9. rest \in Int /\ v[x] \in Int /\ v[c] \in Int
  <2>1. (A \ {c}) \ {x} \in SUBSET S
    OBVIOUS
  <2> DEFINE B == (A \ {c}) \ {x}
  <2> HIDE DEF B
  <2>2. SumFunctionOnSet(v, B) \in Int
    BY <1>3, <2>1, SumOfIntegers DEF B
  <2> QED BY <2>2 DEF B
<1> HIDE DEF rest
<1> QED BY <1>2, <1>4, <1>8, <1>9

\* Functions that agree on the set have the same sum.
LEMMA SumsAgree ==
  ASSUME NEW S, IsFiniteSet(S), NEW v, NEW w, \A x \in S : v[x] = w[x]
  PROVE  SumFunctionOnSet(v, S) = SumFunctionOnSet(w, S)
<1> DEFINE C == {A \in SUBSET S : SumFunctionOnSet(v, A) # SumFunctionOnSet(w, A)}
<1> SUFFICES ASSUME C # {} PROVE FALSE
  <2>1. S \in SUBSET S
    OBVIOUS
  <2> QED BY <2>1
<1>1. PICK A \in C : \A x \in A : A \ {x} \notin C
  <2>1. C \in SUBSET SUBSET S
    OBVIOUS
  <2> HIDE DEF C
  <2> QED BY <2>1, SmallestSubset
<1>2. IsFiniteSet(A)
  BY FS_Subset
<1>3. A # {}
  BY <1>1, SumOfNothing
<1>4. /\ Chosen(A) \in A
      /\ SumFunctionOnSet(v, A) = v[Chosen(A)] + SumFunctionOnSet(v, A \ {Chosen(A)})
      /\ SumFunctionOnSet(w, A) = w[Chosen(A)] + SumFunctionOnSet(w, A \ {Chosen(A)})
  BY <1>2, <1>3, SumByChosen
<1>5. SumFunctionOnSet(v, A \ {Chosen(A)}) = SumFunctionOnSet(w, A \ {Chosen(A)})
  BY <1>1, <1>4
<1> QED BY <1>1, <1>4, <1>5

\* A bound on every value bounds the sum.
LEMMA SumsOrdered ==
  ASSUME NEW S, IsFiniteSet(S), NEW v, NEW w, NEW c \in Nat,
         \A x \in S : v[x] \in Nat /\ w[x] \in Nat /\ v[x] <= c * w[x]
  PROVE  SumFunctionOnSet(v, S) <= c * SumFunctionOnSet(w, S)
<1> DEFINE C == {A \in SUBSET S : ~(SumFunctionOnSet(v, A) <= c * SumFunctionOnSet(w, A))}
<1> SUFFICES ASSUME C # {} PROVE FALSE
  <2>1. S \in SUBSET S
    OBVIOUS
  <2> QED BY <2>1
<1>1. PICK A \in C : \A x \in A : A \ {x} \notin C
  <2>1. C \in SUBSET SUBSET S
    OBVIOUS
  <2> HIDE DEF C
  <2> QED BY <2>1, SmallestSubset
<1>2. IsFiniteSet(A)
  BY FS_Subset
<1>3. A # {}
  <2>1. SumFunctionOnSet(v, {}) = 0 /\ SumFunctionOnSet(w, {}) = 0
    BY SumOfNothing
  <2>2. SumFunctionOnSet(v, {}) <= c * SumFunctionOnSet(w, {})
    BY <2>1
  <2> QED BY <1>1, <2>2
<1> DEFINE x == Chosen(A)
           R == A \ {x}
<1>4. /\ x \in A
      /\ SumFunctionOnSet(v, A) = v[x] + SumFunctionOnSet(v, R)
      /\ SumFunctionOnSet(w, A) = w[x] + SumFunctionOnSet(w, R)
  BY <1>2, <1>3, SumByChosen
<1>5. SumFunctionOnSet(v, R) <= c * SumFunctionOnSet(w, R)
  BY <1>1, <1>4
<1>6. SumFunctionOnSet(v, R) \in Nat /\ SumFunctionOnSet(w, R) \in Nat
  <2>1. IsFiniteSet(R) /\ \A y \in R : v[y] \in Nat /\ w[y] \in Nat
    BY FS_Subset
  <2> HIDE DEF R
  <2> QED BY <2>1, SumOfNaturals
<1>7. v[x] \in Nat /\ w[x] \in Nat /\ v[x] <= c * w[x]
  BY <1>4
<1> HIDE DEF R, x
<1>8. PICK m \in Nat, n \in Nat : m = c * w[x] /\ n = c * SumFunctionOnSet(w, R)
  BY <1>6, <1>7
<1>9. c * (w[x] + SumFunctionOnSet(w, R)) = m + n
  BY <1>6, <1>7, <1>8
<1> QED BY <1>1, <1>4, <1>5, <1>6, <1>7, <1>8, <1>9

\* Elements with value 0 do not count.
LEMMA SumOverSupport ==
  ASSUME NEW S, IsFiniteSet(S), NEW T \in SUBSET S,
         NEW v, \A x \in S : v[x] \in Int, \A x \in S \ T : v[x] = 0
  PROVE  SumFunctionOnSet(v, S) = SumFunctionOnSet(v, T)
<1> DEFINE C == {A \in SUBSET S : T \subseteq A /\ SumFunctionOnSet(v, A) # SumFunctionOnSet(v, T)}
<1> SUFFICES ASSUME C # {} PROVE FALSE
  <2>1. S \in SUBSET S
    OBVIOUS
  <2> QED BY <2>1
<1>1. PICK A \in C : \A x \in A : A \ {x} \notin C
  <2>1. C \in SUBSET SUBSET S
    OBVIOUS
  <2> HIDE DEF C
  <2> QED BY <2>1, SmallestSubset
<1>2. PICK x \in A : x \notin T
  BY <1>1
<1>3. IsFiniteSet(A) /\ IsFiniteSet(A \ {x}) /\ \A y \in A : v[y] \in Int
  BY FS_Subset
<1>4. SumFunctionOnSet(v, A) = v[x] + SumFunctionOnSet(v, A \ {x})
  BY <1>3, SumByElement
<1>5. SumFunctionOnSet(v, A \ {x}) \in Int
  BY <1>3, SumOfIntegers
<1>6. SumFunctionOnSet(v, A \ {x}) = SumFunctionOnSet(v, T)
  BY <1>1, <1>2
<1> QED BY <1>1, <1>2, <1>4, <1>5, <1>6

\* Changing the function at one element changes the sum by as much.
LEMMA SumAfterChange ==
  ASSUME NEW S, IsFiniteSet(S), NEW x \in S, NEW v, NEW w,
         \A y \in S : v[y] \in Int /\ w[y] \in Int,
         \A y \in S \ {x} : v[y] = w[y]
  PROVE  /\ SumFunctionOnSet(w, S) = SumFunctionOnSet(v, S) - v[x] + w[x]
         /\ SumFunctionOnSet(v, S) \in Int
<1> DEFINE R == S \ {x}
<1>1. IsFiniteSet(R)
  BY FS_Subset
<1>2. SumFunctionOnSet(v, R) = SumFunctionOnSet(w, R)
  BY <1>1, SumsAgree
<1>3. SumFunctionOnSet(v, R) \in Int
  BY <1>1, SumOfIntegers
<1>4. /\ SumFunctionOnSet(v, S) = v[x] + SumFunctionOnSet(v, R)
      /\ SumFunctionOnSet(w, S) = w[x] + SumFunctionOnSet(w, R)
  BY SumByElement
<1> HIDE DEF R
<1> QED BY <1>2, <1>3, <1>4

\* The sum over a sequence of one element more.
LEMMA SumOfAppend ==
  ASSUME NEW n \in Nat, NEW v, NEW w,
         \A i \in 1 .. n : v[i] = w[i], \A i \in 1 .. n + 1 : w[i] \in Int
  PROVE  /\ SumFunctionOnSet(w, 1 .. n + 1) = SumFunctionOnSet(v, 1 .. n) + w[n + 1]
         /\ SumFunctionOnSet(v, 1 .. n) \in Int
<1>1. IsFiniteSet(1 .. n) /\ IsFiniteSet(1 .. n + 1)
  BY FS_Interval
<1>2. (1 .. n + 1) \ {n + 1} = 1 .. n /\ n + 1 \in 1 .. n + 1
  OBVIOUS
<1>3. SumFunctionOnSet(w, 1 .. n + 1) = w[n + 1] + SumFunctionOnSet(w, 1 .. n)
  BY <1>1, <1>2, SumByElement
<1>4. SumFunctionOnSet(v, 1 .. n) = SumFunctionOnSet(w, 1 .. n)
  BY <1>1, SumsAgree
<1>5. SumFunctionOnSet(w, 1 .. n) \in Int
  <2>1. \A i \in 1 .. n : w[i] \in Int
    OBVIOUS
  <2> QED BY <1>1, <2>1, SumOfIntegers
<1> QED BY <1>3, <1>4, <1>5

\* The sum over a sequence by its first element.
LEMMA SumOfTail ==
  ASSUME NEW n \in Nat, NEW v, NEW w,
         \A i \in 1 .. n + 1 : v[i] \in Int, \A i \in 1 .. n : w[i] = v[i + 1]
  PROVE  SumFunctionOnSet(v, 1 .. n + 1) = v[1] + SumFunctionOnSet(w, 1 .. n)
<1> DEFINE T == {k \in 0 .. n : SumFunctionOnSet(v, 1 .. k + 1)
                                  # v[1] + SumFunctionOnSet(w, 1 .. k)}
<1> SUFFICES ASSUME T # {} PROVE FALSE
  <2>1. n \in 0 .. n
    OBVIOUS
  <2> QED BY <2>1
<1>1. PICK k \in T : \A m \in T : k <= m
  <2>1. T \in SUBSET Nat
    OBVIOUS
  <2> HIDE DEF T
  <2> QED BY <2>1, LeastElement
<1>2. k \in 0 .. n /\ \A i \in 1 .. k + 1 : v[i] \in Int
  OBVIOUS
<1>3. SumFunctionOnSet(v, 1 .. k + 1) = SumFunctionOnSet(v, 1 .. k) + v[k + 1]
      /\ SumFunctionOnSet(v, 1 .. k) \in Int
  BY <1>2, SumOfAppend
<1>4. CASE k = 0
  <2>1. 1 .. k = {}
    BY <1>4
  <2>2. SumFunctionOnSet(v, 1 .. k) = 0 /\ SumFunctionOnSet(w, 1 .. k) = 0
    BY <2>1, SumOfNothing
  <2> QED BY <1>2, <1>3, <1>4, <2>2
<1>5. CASE k # 0
  <2> DEFINE p == k - 1
  <2>1. p \in Nat /\ p \in 0 .. n /\ p + 1 = k /\ ~(k <= p)
    BY <1>2, <1>5
  <2>2. \A i \in 1 .. p + 1 : w[i] \in Int /\ w[i] = v[i + 1]
    BY <1>2, <2>1
  <2> HIDE DEF p
  <2>3. SumFunctionOnSet(w, 1 .. p + 1) = SumFunctionOnSet(w, 1 .. p) + w[p + 1]
        /\ SumFunctionOnSet(w, 1 .. p) \in Int
    BY <2>1, <2>2, SumOfAppend
  <2>4. SumFunctionOnSet(v, 1 .. p + 1) = v[1] + SumFunctionOnSet(w, 1 .. p)
    BY <1>1, <2>1
  <2>5. w[k] = v[k + 1] /\ v[k + 1] \in Int /\ v[1] \in Int
    BY <1>2, <2>1, <2>2
  <2> QED BY <1>1, <1>3, <2>1, <2>3, <2>4, <2>5
<1> QED BY <1>4, <1>5

------------------------------------------------------------------------------
(* Recursive functions over 0 .. n, and the total of a sequence.           *)

\* Induction: what holds of 0 and passes from each number to the next.
LEMMA UpToInduction ==
  ASSUME NEW n \in Nat, NEW G, 0 \in G, \A i \in 0 .. n - 1 : i \in G => i + 1 \in G
  PROVE  \A i \in 0 .. n : i \in G
<1> DEFINE T == {i \in 0 .. n : i \notin G}
<1> SUFFICES ASSUME T # {} PROVE FALSE
  OBVIOUS
<1>1. PICK k \in T : \A m \in T : k <= m
  <2>1. T \in SUBSET Nat
    OBVIOUS
  <2> HIDE DEF T
  <2> QED BY <2>1, LeastElement
<1>2. k - 1 \in 0 .. n - 1 /\ ~(k <= k - 1) /\ (k - 1) + 1 = k
  BY <1>1
<1>3. k - 1 \in G
  BY <1>1, <1>2
<1> QED BY <1>1, <1>2, <1>3

\* A function over 0 .. n that starts at z and takes the given steps.
Stepping(f, n, z, step) == f[0] = z /\ \A i \in 1 .. n : f[i] = step[i][f[i - 1]]

LEMMA SteppingExists ==
  ASSUME NEW V, NEW z \in V, NEW n \in Nat, NEW step \in [1 .. n -> [V -> V]]
  PROVE  \E f \in [0 .. n -> V] : Stepping(f, n, z, step)
<1> DEFINE G == {k \in 0 .. n : \E f \in [0 .. k -> V] : Stepping(f, k, z, step)}
<1>1. 0 \in G
  <2> DEFINE f == [i \in 0 .. 0 |-> z]
  <2>1. f \in [0 .. 0 -> V] /\ Stepping(f, 0, z, step)
    BY DEF Stepping
  <2> QED BY <2>1
<1>2. ASSUME NEW k \in 0 .. n - 1, k \in G PROVE k + 1 \in G
  <2>1. PICK f \in [0 .. k -> V] : Stepping(f, k, z, step)
    BY <1>2
  <2> DEFINE g == [i \in 0 .. k + 1 |-> IF i = k + 1 THEN step[k + 1][f[k]] ELSE f[i]]
  <2>2. k + 1 \in 1 .. n /\ k \in 0 .. k /\ k + 1 \in 0 .. n
    OBVIOUS
  <2>3. step[k + 1][f[k]] \in V
    BY <2>2
  <2>4. g \in [0 .. k + 1 -> V]
    BY <2>3
  <2>5. g[0] = z
    BY <2>1 DEF Stepping
  <2>6. ASSUME NEW i \in 1 .. k + 1 PROVE g[i] = step[i][g[i - 1]]
    <3>1. i - 1 \in 0 .. k /\ i - 1 # k + 1 /\ i \in 0 .. k + 1 /\ i - 1 \in 0 .. k + 1
      OBVIOUS
    <3>2. g[i - 1] = f[i - 1]
      BY <3>1
    <3>3. CASE i = k + 1
      <4>1. g[i] = step[k + 1][f[k]] /\ i - 1 = k
        BY <3>1, <3>3
      <4> QED BY <3>2, <3>3, <4>1
    <3>4. CASE i # k + 1
      <4>1. i \in 1 .. k /\ g[i] = f[i]
        BY <3>1, <3>4
      <4> QED BY <2>1, <3>2, <4>1 DEF Stepping
    <3> QED BY <3>3, <3>4
  <2>7. Stepping(g, k + 1, z, step)
    BY <2>5, <2>6 DEF Stepping
  <2> QED BY <2>2, <2>4, <2>7
<1>3. \A i \in 0 .. n : i \in G
  <2> HIDE DEF G
  <2> QED BY <1>1, <1>2, UpToInduction
<1>4. n \in 0 .. n
  OBVIOUS
<1> QED BY <1>3, <1>4

\* The sum up to each place, as Total computes it.
SumsOf(s) == CHOOSE f : f = [i \in 0 .. Len(s) |-> IF i = 0 THEN 0 ELSE f[i - 1] + s[i]]

LEMMA SumsOfIntegers ==
  ASSUME NEW s, NEW n \in Nat, Len(s) = n, \A i \in 1 .. n : s[i] \in Int
  PROVE  /\ SumsOf(s) \in [0 .. n -> Int]
         /\ SumsOf(s)[0] = 0
         /\ \A i \in 1 .. n : SumsOf(s)[i] = SumsOf(s)[i - 1] + s[i]
         /\ Total(s) = SumsOf(s)[n]
<1> DEFINE step == [i \in 1 .. n |-> [x \in Int |-> x + s[i]]]
<1>1. step \in [1 .. n -> [Int -> Int]]
  OBVIOUS
<1>2. PICK f \in [0 .. n -> Int] : Stepping(f, n, 0, step)
  <2>1. 0 \in Int
    OBVIOUS
  <2> HIDE DEF step
  <2> QED BY <1>1, <2>1, SteppingExists
<1>3. ASSUME NEW i \in 1 .. n PROVE f[i] = f[i - 1] + s[i]
  <2>1. i - 1 \in 0 .. n /\ f[i - 1] \in Int
    OBVIOUS
  <2> QED BY <1>2, <2>1 DEF Stepping
<1>4. f = [i \in 0 .. n |-> IF i = 0 THEN 0 ELSE f[i - 1] + s[i]]
  BY <1>2, <1>3 DEF Stepping
<1>5. SumsOf(s) = [i \in 0 .. Len(s) |-> IF i = 0 THEN 0 ELSE SumsOf(s)[i - 1] + s[i]]
  BY <1>4, Zenon DEF SumsOf
<1>6. SumsOf(s)[0] = 0 /\ \A i \in 1 .. n : SumsOf(s)[i] = SumsOf(s)[i - 1] + s[i]
  BY <1>5
<1>7. \A i \in 0 .. n : i \in {k \in 0 .. n : SumsOf(s)[k] \in Int}
  <2> DEFINE G == {k \in 0 .. n : SumsOf(s)[k] \in Int}
  <2>1. 0 \in G
    BY <1>6
  <2>2. ASSUME NEW i \in 0 .. n - 1, i \in G PROVE i + 1 \in G
    <3>1. i + 1 \in 1 .. n /\ (i + 1) - 1 = i /\ i + 1 \in 0 .. n
      OBVIOUS
    <3>2. SumsOf(s)[i + 1] = SumsOf(s)[i] + s[i + 1]
      BY <1>6, <3>1
    <3> QED BY <2>2, <3>1, <3>2
  <2> HIDE DEF G
  <2>3. \A i \in 0 .. n : i \in G
    BY <2>1, <2>2, UpToInduction
  <2> QED BY <2>3 DEF G
<1>8. SumsOf(s) \in [0 .. n -> Int]
  BY <1>5, <1>7
<1>9. Total(s) = SumsOf(s)[n]
  BY Zenon DEF Total, SumsOf
<1> QED BY <1>6, <1>8, <1>9

\* It is the sum over the places.
LEMMA TotalIsSum ==
  ASSUME NEW s, NEW n \in Nat, Len(s) = n, \A i \in 1 .. n : s[i] \in Int
  PROVE  /\ Total(s) = SumFunctionOnSet(s, 1 .. n)
         /\ Total(s) \in Int
<1> DEFINE f == SumsOf(s)
           G == {k \in 0 .. n : f[k] = SumFunctionOnSet(s, 1 .. k)}
<1>1. /\ f \in [0 .. n -> Int] /\ f[0] = 0 /\ Total(s) = f[n]
      /\ \A i \in 1 .. n : f[i] = f[i - 1] + s[i]
  BY SumsOfIntegers
<1> HIDE DEF f
<1>2. 0 \in G
  <2>1. 1 .. 0 = {}
    OBVIOUS
  <2>2. SumFunctionOnSet(s, 1 .. 0) = 0
    BY <2>1, SumOfNothing
  <2> QED BY <1>1, <2>2
<1>3. ASSUME NEW k \in 0 .. n - 1, k \in G PROVE k + 1 \in G
  <2>1. k \in Nat /\ k + 1 \in 1 .. n /\ (k + 1) - 1 = k /\ k + 1 \in 0 .. n
    OBVIOUS
  <2>2. \A i \in 1 .. k + 1 : s[i] \in Int
    BY <2>1
  <2>3. SumFunctionOnSet(s, 1 .. k + 1) = SumFunctionOnSet(s, 1 .. k) + s[k + 1]
    BY <2>1, <2>2, SumOfAppend
  <2>4. f[k + 1] = f[k] + s[k + 1]
    BY <1>1, <2>1
  <2> QED BY <1>3, <2>1, <2>3, <2>4
<1>4. \A i \in 0 .. n : i \in G
  <2> HIDE DEF G
  <2> QED BY <1>2, <1>3, UpToInduction
<1> QED BY <1>1, <1>4

LEMMA TotalOfNaturals ==
  ASSUME NEW s, NEW n \in Nat, Len(s) = n, \A i \in 1 .. n : s[i] \in Nat
  PROVE  Total(s) \in Nat
<1>1. IsFiniteSet(1 .. n) /\ \A i \in 1 .. n : s[i] \in Int
  BY FS_Interval
<1>2. Total(s) = SumFunctionOnSet(s, 1 .. n)
  BY <1>1, TotalIsSum
<1> QED BY <1>1, <1>2, SumOfNaturals

\* Equal numbers at equal places have an equal total.
LEMMA TotalsAgree ==
  ASSUME NEW s, NEW t, NEW n \in Nat, Len(s) = n, Len(t) = n,
         \A i \in 1 .. n : s[i] \in Int /\ t[i] = s[i]
  PROVE  Total(t) = Total(s)
<1>1. IsFiniteSet(1 .. n) /\ (\A i \in 1 .. n : s[i] \in Int) /\ (\A i \in 1 .. n : t[i] \in Int)
  BY FS_Interval
<1>2. Total(s) = SumFunctionOnSet(s, 1 .. n) /\ Total(t) = SumFunctionOnSet(t, 1 .. n)
  BY <1>1, TotalIsSum
<1>3. SumFunctionOnSet(t, 1 .. n) = SumFunctionOnSet(s, 1 .. n)
  BY <1>1, SumsAgree
<1> QED BY <1>2, <1>3

\* A total of naturals is not less than any of them.
LEMMA TotalBoundsEach ==
  ASSUME NEW s, NEW n \in Nat, Len(s) = n, \A i \in 1 .. n : s[i] \in Nat, NEW k \in 1 .. n
  PROVE  s[k] <= Total(s)
<1>1. IsFiniteSet(1 .. n) /\ \A i \in 1 .. n : s[i] \in Int
  BY FS_Interval
<1>2. Total(s) = SumFunctionOnSet(s, 1 .. n)
  BY <1>1, TotalIsSum
<1>3. SumFunctionOnSet(s, 1 .. n) = s[k] + SumFunctionOnSet(s, (1 .. n) \ {k})
  BY <1>1, SumByElement
<1>4. SumFunctionOnSet(s, (1 .. n) \ {k}) \in Nat
  <2>1. IsFiniteSet((1 .. n) \ {k}) /\ \A i \in (1 .. n) \ {k} : s[i] \in Nat
    BY <1>1, FS_RemoveElement
  <2> QED BY <2>1, SumOfNaturals
<1> QED BY <1>2, <1>3, <1>4

------------------------------------------------------------------------------
(* Members of a finite set in an order, and members of a sequence by place. *)

\* before[x] is what comes before x in a strict order of all of S.
IsOrderOf(before, S) ==
  /\ \A x \in S : before[x] \in SUBSET S /\ x \notin before[x]
  /\ \A x, y \in S : x # y => y \in before[x] \/ x \in before[y]
  /\ \A x, y, z \in S : z \in before[y] /\ y \in before[x] => z \in before[x]

\* Fewer come before what comes before.
LEMMA EarlierHasFewerBefore ==
  ASSUME NEW S, IsFiniteSet(S), NEW before, IsOrderOf(before, S),
         NEW x \in S, NEW y \in S, y \in before[x]
  PROVE  Cardinality(before[y]) < Cardinality(before[x])
<1>1. /\ IsFiniteSet(before[x]) /\ IsFiniteSet(before[y])
      /\ Cardinality(before[x]) \in Nat /\ Cardinality(before[y]) \in Nat
  BY FS_Subset, FS_CardinalityType DEF IsOrderOf
<1>2. before[y] \in SUBSET (before[x] \ {y})
  BY DEF IsOrderOf
<1>3. /\ IsFiniteSet(before[x] \ {y})
      /\ Cardinality(before[x] \ {y}) = Cardinality(before[x]) - 1
  BY <1>1, FS_RemoveElement
<1>4. Cardinality(before[y]) <= Cardinality(before[x] \ {y})
  BY <1>2, <1>3, FS_Subset
<1> QED BY <1>1, <1>3, <1>4

\* Ordered lists every member once, at the place that it has in the order.
LEMMA OrderedEnumerates ==
  ASSUME NEW S, IsFiniteSet(S), NEW before, IsOrderOf(before, S)
  PROVE  /\ Cardinality(S) \in Nat
         /\ Ordered(S, before) \in [1 .. Cardinality(S) -> S]
         /\ \A k \in 1 .. Cardinality(S) : Cardinality(before[Ordered(S, before)[k]]) = k - 1
         /\ \A x \in S : \E k \in 1 .. Cardinality(S) : Ordered(S, before)[k] = x
<1> DEFINE n == Cardinality(S)
           rank == [x \in S |-> Cardinality(before[x])]
           order == Ordered(S, before)
<1>1. n \in Nat
  BY FS_CardinalityType
<1>2. ASSUME NEW x \in S PROVE rank[x] \in 0 .. n - 1
  <2>1. IsFiniteSet(before[x]) /\ Cardinality(before[x]) \in Nat
    BY FS_Subset, FS_CardinalityType DEF IsOrderOf
  <2>2. before[x] \in SUBSET (S \ {x})
    BY DEF IsOrderOf
  <2>3. IsFiniteSet(S \ {x}) /\ Cardinality(S \ {x}) = n - 1
    BY FS_RemoveElement
  <2>4. Cardinality(before[x]) <= n - 1
    BY <2>2, <2>3, FS_Subset
  <2> QED BY <1>1, <2>1, <2>4
<1>3. ASSUME NEW x \in S, NEW y \in S, rank[x] = rank[y] PROVE x = y
  <2>1. \A a, b \in S : b \in before[a] => rank[b] < rank[a]
    BY EarlierHasFewerBefore
  <2>2. \A a \in S : rank[a] \in Int
    BY <1>2
  <2>3. y \notin before[x] /\ x \notin before[y]
    <3> HIDE DEF rank
    <3> QED BY <1>3, <2>1, <2>2
  <2> QED BY <2>3 DEF IsOrderOf
<1>4. rank \in Injection(S, 0 .. n - 1)
  BY <1>2, <1>3 DEF Injection, IsInjective
<1>5. IsFiniteSet(0 .. n - 1) /\ Cardinality(0 .. n - 1) = n
  <2>1. 0 \in Int /\ n - 1 \in Int
    BY <1>1
  <2>2. /\ IsFiniteSet(0 .. n - 1)
        /\ Cardinality(0 .. n - 1) = IF 0 > n - 1 THEN 0 ELSE (n - 1) - 0 + 1
    BY <2>1, FS_Interval
  <2> QED BY <1>1, <2>2
<1>6. rank \in Surjection(S, 0 .. n - 1)
  <2> HIDE DEF rank, n
  <2>1. Cardinality(S) = Cardinality(0 .. n - 1)
    BY <1>5 DEF n
  <2> QED BY <1>4, <1>5, <2>1, FS_Injection
<1>7. \A k \in 1 .. n : \E x \in S : Cardinality(before[x]) = k - 1
  <2> TAKE k \in 1 .. n
  <2>1. k - 1 \in 0 .. n - 1
    BY <1>1
  <2>2. PICK x \in S : rank[x] = k - 1
    BY <1>6, <2>1 DEF Surjection
  <2> QED BY <2>2
<1>8. \A k \in 1 .. n : order[k] \in S /\ Cardinality(before[order[k]]) = k - 1
  BY <1>7 DEF Ordered
<1>9. order \in [1 .. n -> S]
  BY <1>8 DEF Ordered
<1>10. ASSUME NEW x \in S PROVE \E k \in 1 .. n : order[k] = x
  <2> DEFINE k == rank[x] + 1
  <2>1. k \in 1 .. n /\ k - 1 = rank[x]
    BY <1>1, <1>2
  <2>2. order[k] \in S /\ rank[order[k]] = rank[x]
    BY <1>8, <2>1
  <2>3. order[k] = x
    BY <1>3, <2>2
  <2> QED BY <2>1, <2>3
<1> QED BY <1>1, <1>8, <1>9, <1>10

\* What is listed first is what comes before.
LEMMA OrderedByOrder ==
  ASSUME NEW S, IsFiniteSet(S), NEW before, IsOrderOf(before, S),
         NEW j \in 1 .. Cardinality(S), NEW k \in 1 .. Cardinality(S)
  PROVE  j < k <=> Ordered(S, before)[j] \in before[Ordered(S, before)[k]]
<1> DEFINE x == Ordered(S, before)[j]
           y == Ordered(S, before)[k]
<1>1. /\ Cardinality(S) \in Nat /\ x \in S /\ y \in S
      /\ Cardinality(before[x]) = j - 1 /\ Cardinality(before[y]) = k - 1
  BY OrderedEnumerates
<1>2. j \in Int /\ k \in Int
  BY <1>1
<1> HIDE DEF x, y
<1>3. x \in before[y] => j < k
  BY <1>1, <1>2, EarlierHasFewerBefore
<1>4. y \in before[x] => k < j
  BY <1>1, <1>2, EarlierHasFewerBefore
<1>5. x = y => j = k
  BY <1>1, <1>2
<1>6. x # y => x \in before[y] \/ y \in before[x]
  BY <1>1 DEF IsOrderOf
<1> QED BY <1>2, <1>3, <1>4, <1>5, <1>6 DEF x, y

\* Places are listed in their own order.
LEMMA PlacesInOrder ==
  ASSUME NEW P \in SUBSET Int, IsFiniteSet(P)
  PROVE  /\ Cardinality(P) \in Nat
         /\ InOrder(P) \in [1 .. Cardinality(P) -> P]
         /\ \A i \in P : \E k \in 1 .. Cardinality(P) : InOrder(P)[k] = i
         /\ \A j, k \in 1 .. Cardinality(P) : j < k <=> InOrder(P)[j] < InOrder(P)[k]
<1> DEFINE before == [i \in P |-> {j \in P : j < i}]
           n == Cardinality(P)
<1>1. IsOrderOf(before, P)
  BY DEF IsOrderOf
<1>2. InOrder(P) = Ordered(P, before)
  BY DEF InOrder
<1>3. \A i, j \in P : j \in before[i] <=> j < i
  OBVIOUS
<1> HIDE DEF before
<1>4. n \in Nat /\ InOrder(P) \in [1 .. n -> P] /\ \A i \in P : \E k \in 1 .. n : InOrder(P)[k] = i
  BY <1>1, <1>2, OrderedEnumerates
<1>5. \A j, k \in 1 .. n : j < k <=> InOrder(P)[j] \in before[InOrder(P)[k]]
  BY <1>1, <1>2, OrderedByOrder
<1>6. \A j, k \in 1 .. n : j < k <=> InOrder(P)[j] < InOrder(P)[k]
  <2> TAKE j, k \in 1 .. n
  <2>1. InOrder(P)[j] \in P /\ InOrder(P)[k] \in P
    BY <1>4
  <2> QED BY <1>3, <1>5, <2>1
<1> QED BY <1>4, <1>6

\* What is picked is a sequence of the members at those places.
LEMMA PickIsSequence ==
  ASSUME NEW P \in SUBSET Int, IsFiniteSet(P), NEW s, NEW V, \A i \in P : s[i] \in V
  PROVE  /\ Pick(s, P) \in Seq(V)
         /\ Len(Pick(s, P)) = Cardinality(P)
         /\ \A k \in 1 .. Cardinality(P) : Pick(s, P)[k] = s[InOrder(P)[k]]
<1> DEFINE n == Cardinality(P)
<1>1. n \in Nat /\ InOrder(P) \in [1 .. n -> P]
  BY PlacesInOrder
<1>2. Pick(s, P) = [k \in 1 .. n |-> s[InOrder(P)[k]]]
  BY <1>1 DEF Pick, At
<1>3. \A k \in 1 .. n : s[InOrder(P)[k]] \in V
  BY <1>1
<1> HIDE DEF n
<1> QED BY <1>1, <1>2, <1>3 DEF n

\* Nothing else matters of the sequence.
LEMMA PickOfAgreeing ==
  ASSUME NEW P \in SUBSET Int, IsFiniteSet(P), NEW s, NEW t, \A i \in P : s[i] = t[i]
  PROVE  Pick(s, P) = Pick(t, P)
<1>1. InOrder(P) \in [1 .. Cardinality(P) -> P]
  BY PlacesInOrder
<1> QED BY <1>1 DEF Pick, At

\* All places pick the sequence itself.
LEMMA PickOfAll ==
  ASSUME NEW V, NEW s \in Seq(V)
  PROVE  Pick(s, DOMAIN s) = s
<1> DEFINE n == Len(s)
           before == [i \in 1 .. n |-> {j \in 1 .. n : j < i}]
<1>1. n \in Nat /\ DOMAIN s = 1 .. n
  OBVIOUS
<1>2. IsFiniteSet(1 .. n) /\ Cardinality(1 .. n) = n
  <2>1. 1 \in Int /\ n \in Int
    BY <1>1
  <2>2. IsFiniteSet(1 .. n) /\ Cardinality(1 .. n) = IF 1 > n THEN 0 ELSE n - 1 + 1
    BY <2>1, FS_Interval
  <2> QED BY <1>1, <2>2
<1>3. IsOrderOf(before, 1 .. n)
  BY <1>1 DEF IsOrderOf
<1>4. InOrder(1 .. n) = Ordered(1 .. n, before)
  BY DEF InOrder
<1>5. ASSUME NEW i \in 1 .. n PROVE Cardinality(before[i]) = i - 1
  <2>1. before[i] = 1 .. i - 1
    BY <1>1
  <2>2. 1 \in Int /\ i - 1 \in Int
    OBVIOUS
  <2>3. Cardinality(1 .. i - 1) = IF 1 > i - 1 THEN 0 ELSE (i - 1) - 1 + 1
    BY <2>2, FS_Interval
  <2>4. Cardinality(1 .. i - 1) = i - 1
    BY <2>3
  <2> QED BY <2>1, <2>4
<1>6. /\ InOrder(1 .. n) \in [1 .. n -> 1 .. n]
      /\ \A k \in 1 .. n : Cardinality(before[InOrder(1 .. n)[k]]) = k - 1
  <2> HIDE DEF before
  <2> QED BY <1>2, <1>3, <1>4, OrderedEnumerates
<1>7. ASSUME NEW k \in 1 .. n PROVE InOrder(1 .. n)[k] = k
  <2> DEFINE i == InOrder(1 .. n)[k]
  <2>1. i \in 1 .. n /\ Cardinality(before[i]) = k - 1
    BY <1>6
  <2>2. Cardinality(before[i]) = i - 1
    BY <1>5, <2>1
  <2> HIDE DEF i, before
  <2>3. i = k
    BY <1>1, <2>1, <2>2
  <2> QED BY <2>3 DEF i
<1> QED BY <1>1, <1>6, <1>7 DEF Pick, At

\* A sequence of integers has a greatest and a least member.
LEMMA HighestIsReached ==
  ASSUME NEW n \in Nat \ {0}, NEW s, DOMAIN s = 1 .. n, \A i \in 1 .. n : s[i] \in Int
  PROVE  \E k \in 1 .. n : Highest(s) = s[k] /\ \A i \in 1 .. n : s[i] <= s[k]
<1> DEFINE G == {m \in 0 .. n : m = 0 \/ \E k \in 1 .. m : \A i \in 1 .. m : s[i] <= s[k]}
<1>1. 0 \in G
  OBVIOUS
<1>2. ASSUME NEW m \in 0 .. n - 1, m \in G PROVE m + 1 \in G
  <2>1. m + 1 \in 1 .. n /\ s[m + 1] \in Int /\ \A i \in 1 .. m + 1 : i \in 1 .. m \/ i = m + 1
    OBVIOUS
  <2>2. CASE m = 0
    <3>1. \A i \in 1 .. m + 1 : s[i] <= s[m + 1]
      BY <2>1, <2>2
    <3> QED BY <2>1, <3>1
  <2>3. CASE m # 0
    <3>1. PICK k \in 1 .. m : \A i \in 1 .. m : s[i] <= s[k]
      BY <1>2, <2>3
    <3>2. s[k] \in Int /\ k \in 1 .. m + 1 /\ m + 1 \in 1 .. m + 1
      BY <2>1
    <3>3. CASE s[m + 1] <= s[k]
      <4>1. \A i \in 1 .. m + 1 : s[i] <= s[k]
        BY <2>1, <3>1, <3>3
      <4> QED BY <2>1, <3>2, <4>1
    <3>4. CASE ~(s[m + 1] <= s[k])
      <4>1. \A i \in 1 .. m : s[i] \in Int /\ s[i] <= s[m + 1]
        BY <2>1, <3>1, <3>2, <3>4
      <4>2. \A i \in 1 .. m + 1 : s[i] <= s[m + 1]
        BY <2>1, <4>1
      <4> QED BY <2>1, <3>2, <4>2
    <3> QED BY <3>3, <3>4
  <2> QED BY <2>2, <2>3
<1>3. n \in G
  <2>1. \A i \in 0 .. n : i \in G
    <3> HIDE DEF G
    <3> QED BY <1>1, <1>2, UpToInduction
  <2>2. n \in 0 .. n
    OBVIOUS
  <2> HIDE DEF G
  <2> QED BY <2>1, <2>2
<1>4. PICK k \in 1 .. n : \A i \in 1 .. n : s[i] <= s[k]
  BY <1>3
<1>5. Highest(s) \in {s[i] : i \in DOMAIN s} /\ \A i \in DOMAIN s : s[i] <= Highest(s)
  <2>1. s[k] \in {s[i] : i \in DOMAIN s} /\ \A i \in DOMAIN s : s[i] <= s[k]
    BY <1>4
  <2> QED BY <2>1, Zenon DEF Highest
<1> QED BY <1>5

LEMMA LowestIsReached ==
  ASSUME NEW n \in Nat \ {0}, NEW s, DOMAIN s = 1 .. n, \A i \in 1 .. n : s[i] \in Int
  PROVE  \E k \in 1 .. n : Lowest(s) = s[k] /\ \A i \in 1 .. n : s[i] >= s[k]
<1> DEFINE t == [i \in 1 .. n |-> -s[i]]
<1>1. PICK k \in 1 .. n : \A i \in 1 .. n : t[i] <= t[k]
  <2>1. DOMAIN t = 1 .. n /\ \A i \in 1 .. n : t[i] \in Int
    OBVIOUS
  <2> HIDE DEF t
  <2> QED BY <2>1, HighestIsReached
<1>2. \A i \in 1 .. n : s[i] >= s[k]
  <2> TAKE i \in 1 .. n
  <2>1. -s[i] <= -s[k] /\ s[i] \in Int /\ s[k] \in Int
    BY <1>1
  <2> QED BY <2>1
<1>3. Lowest(s) \in {s[i] : i \in DOMAIN s} /\ \A i \in DOMAIN s : s[i] >= Lowest(s)
  <2>1. s[k] \in {s[i] : i \in DOMAIN s} /\ \A i \in DOMAIN s : s[i] >= s[k]
    BY <1>2
  <2> QED BY <2>1, Zenon DEF Lowest
<1> QED BY <1>3

LEMMA TotalOfOne ==
  ASSUME NEW s, Len(s) = 1, s[1] \in Int
  PROVE  Total(s) = s[1]
<1>1. 1 \in Nat /\ \A i \in 1 .. 1 : s[i] \in Int
  OBVIOUS
<1>2. /\ SumsOf(s)[0] = 0 /\ \A i \in 1 .. 1 : SumsOf(s)[i] = SumsOf(s)[i - 1] + s[i]
      /\ Total(s) = SumsOf(s)[1]
  BY <1>1, SumsOfIntegers
<1>3. SumsOf(s)[1] = SumsOf(s)[0] + s[1]
  BY <1>2
<1> QED BY <1>2, <1>3

\* A total of numbers that are not positive is not either.
LEMMA TotalNotPositive ==
  ASSUME NEW s, NEW n \in Nat, Len(s) = n, \A i \in 1 .. n : s[i] \in Int /\ s[i] <= 0
  PROVE  Total(s) \in Int /\ Total(s) <= 0
<1> DEFINE f == SumsOf(s)
           G == {k \in 0 .. n : f[k] <= 0}
<1>1. /\ f \in [0 .. n -> Int] /\ f[0] = 0 /\ Total(s) = f[n]
      /\ \A i \in 1 .. n : f[i] = f[i - 1] + s[i]
  BY SumsOfIntegers
<1> HIDE DEF f
<1>2. 0 \in G
  BY <1>1
<1>3. ASSUME NEW k \in 0 .. n - 1, k \in G PROVE k + 1 \in G
  <2>1. k + 1 \in 1 .. n /\ (k + 1) - 1 = k /\ k + 1 \in 0 .. n /\ k \in 0 .. n
    OBVIOUS
  <2>2. f[k + 1] = f[k] + s[k + 1] /\ f[k] \in Int /\ s[k + 1] \in Int /\ s[k + 1] <= 0
    BY <1>1, <2>1
  <2> QED BY <1>3, <2>1, <2>2
<1>4. \A i \in 0 .. n : i \in G
  <2> HIDE DEF G
  <2> QED BY <1>2, <1>3, UpToInduction
<1>5. n \in 0 .. n
  OBVIOUS
<1> QED BY <1>1, <1>4, <1>5

\* The last members of a sequence.
LEMMA LastOfType ==
  ASSUME NEW V, NEW s \in Seq(V), NEW n \in Nat
  PROVE  /\ LastOf(s, n) \in Seq(V)
         /\ Len(LastOf(s, n)) = Smaller(n, Len(s))
         /\ \A i \in 1 .. Len(LastOf(s, n)) : LastOf(s, n)[i] = s[Len(s) - Len(LastOf(s, n)) + i]
<1> DEFINE m == Larger(1, Len(s) - n + 1)
<1>1. m \in Nat /\ m >= 1 /\ Len(s) \in Nat
  BY DEF Larger
<1>2. CASE n <= Len(s)
  <2>1. m = Len(s) - n + 1 \/ (n = 0 /\ m = Len(s) + 1)
    BY <1>1, <1>2 DEF Larger
  <2> HIDE DEF m
  <2>2. SubSeq(s, m, Len(s)) \in Seq(V) /\ Len(SubSeq(s, m, Len(s))) = n
    BY <1>1, <1>2, <2>1
  <2>3. \A i \in 1 .. n : SubSeq(s, m, Len(s))[i] = s[Len(s) - n + i]
    BY <1>1, <1>2, <2>1
  <2> QED BY <1>2, <2>2, <2>3 DEF LastOf, m, Smaller
<1>3. CASE n > Len(s)
  <2>1. m = 1
    BY <1>1, <1>3 DEF Larger
  <2>2. SubSeq(s, 1, Len(s)) = s
    BY <1>1
  <2> QED BY <1>1, <1>3, <2>1, <2>2 DEF LastOf, Smaller
<1> QED BY <1>1, <1>2, <1>3

LEMMA LastOfAll ==
  ASSUME NEW V, NEW s \in Seq(V)
  PROVE  LastOf(s, Len(s)) = s
<1>1. Len(s) \in Nat
  OBVIOUS
<1>2. Larger(1, Len(s) - Len(s) + 1) = 1
  BY <1>1 DEF Larger
<1> QED BY <1>1, <1>2 DEF LastOf
===============================================================================
