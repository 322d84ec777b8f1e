--------------------------- MODULE AnalysisProofs ----------------------------
(***************************************************************************)
(* Proofs about AnalysisParts.  The metrics of a market day, for any       *)
(* sessions, instruments, window and days: a stored continuity rests on    *)
(* three real snapshots, a return on whole windows of its session, losing  *)
(* a quote never makes an input fitter, and no evaluation is healthy and   *)
(* collapsing at once.  The quotes, bars, manifests and snapshots under    *)
(* the two retention jobs, for any lineages, bars, callers and bounds:     *)
(* what a manifest names stays, a snapshot rests on a report that was      *)
(* valid, a corrected lineage keeps its versions and a used one its        *)
(* quotes.                                                                 *)
(***************************************************************************)
EXTENDS AnalysisParts, FiniteSetTheorems, SequenceTheorems, WellFoundedInduction, TLAPS


(***************************************************************************)
(* Least elements, least subsets and sums                                  *)
(***************************************************************************)

LEMMA LeastNat ==
  ASSUME NEW T, T \subseteq Nat, T # {}
  PROVE \E t \in T : \A y \in T : ~ (y < t)
<1>1. PICK t \in T : \A y \in T : ~ (<<y, t>> \in OpToRel(<, Nat))
  BY NatLessThanWellFounded, WFMin
<1> QED BY <1>1 DEF OpToRel

Chosen(s) == CHOOSE x \in s : TRUE
Upto(S, n) == {s \in SUBSET S : Cardinality(s) <= n}
\* The recursion of a sum of f, over the subsets D.
Adds(h, f, D) ==
  h = [s \in D |-> IF s = {} THEN 0 ELSE f[Chosen(s)] + h[s \ {Chosen(s)}]]

LEMMA ChosenIn == ASSUME NEW s, s # {} PROVE Chosen(s) \in s
BY DEF Chosen

LEMMA WithoutOne ==
  ASSUME NEW s, IsFiniteSet(s), s # {}
  PROVE /\ IsFiniteSet(s \ {Chosen(s)}) /\ Cardinality(s) \in Nat
        /\ Cardinality(s \ {Chosen(s)}) = Cardinality(s) - 1
BY ChosenIn, FS_RemoveElement, FS_CardinalityType

LEMMA SumExists ==
  ASSUME NEW S, IsFiniteSet(S), NEW f
  PROVE \E h : Adds(h, f, SUBSET S)
<1> DEFINE Bad == {n \in Nat : ~ \E h : Adds(h, f, Upto(S, n))}
<1>1. \A s \in SUBSET S : IsFiniteSet(s) /\ Cardinality(s) \in Nat /\ Cardinality(s) <= Cardinality(S)
  BY FS_Subset, FS_CardinalityType
<1>2. Bad = {}
  <2> SUFFICES ASSUME Bad # {} PROVE FALSE
    OBVIOUS
  <2> HIDE DEF Bad
  <2>1. PICK t \in Bad : \A y \in Bad : ~ (y < t)
    BY LeastNat DEF Bad
  <2>2. t \in Nat /\ ~ \E h : Adds(h, f, Upto(S, t))
    BY <2>1 DEF Bad
  <2>3. CASE t = 0
    <3> DEFINE z == [s \in Upto(S, 0) |-> 0]
    <3>1. \A s \in Upto(S, 0) : s = {}
      BY <1>1, FS_EmptySet DEF Upto
    <3>2. Adds(z, f, Upto(S, 0))
      BY <3>1 DEF Adds
    <3> QED BY <3>2, <2>2, <2>3
  <2>4. CASE t # 0
    <3>1. t - 1 \in Nat /\ t - 1 < t
      BY <2>2, <2>4
    <3>2. PICK g : Adds(g, f, Upto(S, t - 1))
      BY <3>1, <2>1 DEF Bad
    <3> DEFINE z == [s \in Upto(S, t) |-> IF s = {} THEN 0 ELSE f[Chosen(s)] + g[s \ {Chosen(s)}]]
    <3>3. ASSUME NEW s \in Upto(S, t), s # {} PROVE z[s \ {Chosen(s)}] = g[s \ {Chosen(s)}]
      <4> DEFINE r == s \ {Chosen(s)}
      <4>1. r \in Upto(S, t - 1)
        BY <1>1, <2>2, <3>3, WithoutOne DEF Upto
      <4>2. r \in Upto(S, t)
        BY <4>1, <2>2, <1>1 DEF Upto
      <4>3. z[r] = IF r = {} THEN 0 ELSE f[Chosen(r)] + g[r \ {Chosen(r)}]
        BY <4>2
      <4>4. g[r] = IF r = {} THEN 0 ELSE f[Chosen(r)] + g[r \ {Chosen(r)}]
        BY <4>1, <3>2 DEF Adds
      <4> QED BY <4>3, <4>4
    <3>4. \A s \in Upto(S, t) : z[s] = IF s = {} THEN 0 ELSE f[Chosen(s)] + z[s \ {Chosen(s)}]
      BY <3>3
    <3>5. Adds(z, f, Upto(S, t))
      <4> DEFINE y == [s \in Upto(S, t) |-> IF s = {} THEN 0 ELSE f[Chosen(s)] + z[s \ {Chosen(s)}]]
      <4>1. z = y
        BY <3>3
      <4> QED BY <4>1 DEF Adds
    <3> QED BY <3>5, <2>2
  <2> QED BY <2>3, <2>4
<1>3. Cardinality(S) \in Nat
  BY FS_CardinalityType
<1>4. Upto(S, Cardinality(S)) = SUBSET S
  BY <1>1 DEF Upto
<1>5. \E h : Adds(h, f, Upto(S, Cardinality(S)))
  BY <1>2, <1>3
<1> QED BY <1>4, <1>5

SumOver(f, S) == (CHOOSE h : Adds(h, f, SUBSET S))[S]

LEMMA SumIsInt ==
  ASSUME NEW S, IsFiniteSet(S), NEW f, \A i \in S : f[i] \in Int
  PROVE SumOver(f, S) \in Int
<1> DEFINE h == CHOOSE g : Adds(g, f, SUBSET S)
           Bad == {n \in Nat : \E s \in SUBSET S : Cardinality(s) = n /\ h[s] \notin Int}
<1>1. Adds(h, f, SUBSET S)
  BY SumExists
<1> HIDE DEF h
<1>2. \A s \in SUBSET S : h[s] = IF s = {} THEN 0 ELSE f[Chosen(s)] + h[s \ {Chosen(s)}]
  BY <1>1 DEF Adds
<1>3. \A s \in SUBSET S : IsFiniteSet(s) /\ Cardinality(s) \in Nat
  BY FS_Subset, FS_CardinalityType
<1>4. Bad = {}
  <2> SUFFICES ASSUME Bad # {} PROVE FALSE
    OBVIOUS
  <2>1. PICK t \in Bad : \A y \in Bad : ~ (y < t)
    BY LeastNat
  <2>2. PICK s \in SUBSET S : Cardinality(s) = t /\ h[s] \notin Int
    BY <2>1
  <2>3. s # {}
    <3>1. h[s] = IF s = {} THEN 0 ELSE f[Chosen(s)] + h[s \ {Chosen(s)}]
      BY <1>2
    <3> QED BY <3>1, <2>2
  <2>4. Cardinality(s \ {Chosen(s)}) = t - 1 /\ s \ {Chosen(s)} \in SUBSET S /\ t - 1 \in Nat
    BY <2>2, <2>3, <1>3, WithoutOne, FS_CardinalityType
  <2>5. h[s \ {Chosen(s)}] \in Int
    BY <2>4, <2>1
  <2> QED BY <2>2, <2>3, <2>5, <1>2, ChosenIn
<1>5. h[S] \in Int
  <2>1. S \in SUBSET S /\ Cardinality(S) \in Nat
    BY <1>3
  <2>2. Cardinality(S) \notin Bad
    BY <1>4
  <2> QED BY <2>1, <2>2
<1> QED BY <1>5 DEF SumOver, h

(***************************************************************************)
(* Extreme members, bounded arithmetic and medians                         *)
(***************************************************************************)

LEMMA SmallerPart ==
  ASSUME NEW D, IsFiniteSet(D), NEW A \in SUBSET D, NEW B \in SUBSET A, A # B
  PROVE Cardinality(A) \in Nat /\ Cardinality(B) \in Nat /\ Cardinality(B) < Cardinality(A)
<1>1. IsFiniteSet(A) /\ IsFiniteSet(B)
  BY FS_Subset
<1>2. Cardinality(B) <= Cardinality(A) /\ Cardinality(B) # Cardinality(A)
  BY <1>1, FS_Subset
<1>3. Cardinality(A) \in Nat /\ Cardinality(B) \in Nat
  BY <1>1, FS_CardinalityType
<1> QED BY <1>2, <1>3

LEMMA HighestIndex ==
  ASSUME NEW D, IsFiniteSet(D), D # {}, NEW f, \A i \in D : f[i] \in Int
  PROVE \E i \in D : \A j \in D : f[j] <= f[i]
<1> DEFINE Over(i) == {j \in D : f[j] > f[i]}
           T == {n \in Nat : \E i \in D : n = Cardinality(Over(i))}
<1>1. \A i \in D : Cardinality(Over(i)) \in Nat
  BY FS_Subset, FS_CardinalityType
<1>2. T # {}
  BY <1>1
<1>3. PICK t \in T : \A y \in T : ~ (y < t)
  BY <1>2, LeastNat
<1>4. PICK i \in D : t = Cardinality(Over(i))
  BY <1>3
<1>5. ASSUME NEW j \in D, ~ (f[j] <= f[i]) PROVE FALSE
  <2>1. f[j] > f[i] /\ f[j] \in Int /\ f[i] \in Int
    BY <1>5
  <2>2. \A x \in D : f[x] > f[j] => f[x] > f[i]
    BY <2>1
  <2>3. j \in Over(i) /\ j \notin Over(j) /\ Over(j) \subseteq Over(i)
    BY <2>1, <2>2
  <2> HIDE DEF Over
  <2>4. Over(i) \in SUBSET D
    BY DEF Over
  <2>5. Cardinality(Over(j)) < Cardinality(Over(i)) /\ Cardinality(Over(j)) \in Nat
    BY <2>3, <2>4, SmallerPart
  <2> QED BY <2>5, <1>3, <1>4
<1> QED BY <1>5

LEMMA MaxFinite ==
  ASSUME NEW S \in SUBSET Int, IsFiniteSet(S), S # {}
  PROVE Max(S) \in S /\ \A x \in S : x <= Max(S)
<1> DEFINE f == [x \in S |-> x]
<1>1. \E x \in S : \A y \in S : f[y] <= f[x]
  BY HighestIndex
<1>2. \E x \in S : \A y \in S : x >= y
  BY <1>1
<1>3. Max(S) \in S /\ \A y \in S : Max(S) >= y
  BY <1>2 DEF Max
<1> QED BY <1>3

LEMMA MaxIs ==
  ASSUME NEW S \in SUBSET Int, NEW x \in S, \A y \in S : y <= x
  PROVE Max(S) = x
<1>1. \E m \in S : \A y \in S : m >= y
  OBVIOUS
<1>2. Max(S) \in S /\ \A y \in S : Max(S) >= y
  BY <1>1 DEF Max
<1>3. Max(S) \in Int /\ x \in Int /\ Max(S) >= x /\ Max(S) <= x
  BY <1>2
<1> QED BY <1>3

LEMMA MinIs ==
  ASSUME NEW S \in SUBSET Int, NEW x \in S, \A y \in S : x <= y
  PROVE Min(S) = x
<1>1. \E m \in S : \A y \in S : m <= y
  OBVIOUS
<1>2. Min(S) \in S /\ \A y \in S : Min(S) <= y
  BY <1>1 DEF Min
<1>3. Min(S) \in Int /\ x \in Int /\ Min(S) <= x /\ Min(S) >= x
  BY <1>2
<1> QED BY <1>3

LEMMA MinFinite ==
  ASSUME NEW S \in SUBSET Int, IsFiniteSet(S), S # {}
  PROVE Min(S) \in S /\ \A x \in S : Min(S) <= x
<1> DEFINE f == [x \in S |-> -x]
<1>1. \E x \in S : \A y \in S : f[y] <= f[x]
  <2>1. \A x \in S : f[x] \in Int
    OBVIOUS
  <2> HIDE DEF f
  <2> QED BY <2>1, HighestIndex
<1>2. \E x \in S : \A y \in S : x <= y
  <2>1. PICK x \in S : \A y \in S : f[y] <= f[x]
    BY <1>1
  <2>2. \A y \in S : x <= y
    BY <2>1
  <2> QED BY <2>2
<1> QED BY <1>2 DEF Min

LEMMA MaxOfTwo ==
  ASSUME NEW a \in Int, NEW b \in Int
  PROVE Max({a, b}) = IF a >= b THEN a ELSE b
<1>1. CASE a >= b
  BY <1>1, MaxIs
<1>2. CASE ~ (a >= b)
  BY <1>2, MaxIs
<1> QED BY <1>1, <1>2

LEMMA MinOfTwo ==
  ASSUME NEW a \in Int, NEW b \in Int
  PROVE Min({a, b}) = IF a <= b THEN a ELSE b
<1>1. CASE a <= b
  BY <1>1, MinIs
<1>2. CASE ~ (a <= b)
  BY <1>2, MinIs
<1> QED BY <1>1, <1>2

LEMMA ClampIs ==
  ASSUME NEW x \in Int
  PROVE Clamp(x) = IF x < 0 THEN 0 ELSE IF x > K THEN K ELSE x
<1>1. K \in Int /\ K > 0
  BY DEF K
<1>2. Min({K, x}) = IF K <= x THEN K ELSE x
  BY <1>1, MinOfTwo
<1>3. Clamp(x) = IF 0 >= Min({K, x}) THEN 0 ELSE Min({K, x})
  BY <1>1, <1>2, MaxOfTwo DEF Clamp
<1> QED BY <1>1, <1>2, <1>3

LEMMA ClampInRange ==
  ASSUME NEW x \in Int
  PROVE Clamp(x) \in 0 .. K
<1> DEFINE c == Clamp(x)
<1>1. c = IF x < 0 THEN 0 ELSE IF x > K THEN K ELSE x
  BY ClampIs
<1> HIDE DEF c
<1>2. c \in 0 .. K
  BY <1>1 DEF K
<1> QED BY <1>2 DEF c

LEMMA LinearInRange ==
  ASSUME NEW x \in Int, NEW low \in Int, NEW high \in Int, high > low
  PROVE Linear(x, low, high) \in 0 .. K
<1> DEFINE n == high - low
           p == (x - low) * K
<1>1. n \in Nat \ {0} /\ p \in Int
  BY DEF K
<1>2. Linear(x, low, high) = Clamp(p \div n)
  BY DEF Linear
<1> HIDE DEF n, p
<1>3. p \div n \in Int
  BY <1>1
<1> QED BY <1>2, <1>3, ClampInRange

LEMMA WeighInRange ==
  ASSUME NEW a \in Int, NEW x \in Int, NEW b \in Int, NEW y \in Int
  PROVE Weigh(a, x, b, y) \in 0 .. K
<1> DEFINE p == a * x + b * y
<1>1. p \in Int
  OBVIOUS
<1>2. Weigh(a, x, b, y) = Clamp(p \div 100)
  BY DEF Weigh
<1> HIDE DEF p
<1>3. p \div 100 \in Int
  BY <1>1
<1> QED BY <1>2, <1>3, ClampInRange

\* The k-th value of a finite function is there.
LEMMA KthIsValue ==
  ASSUME NEW f, IsFiniteSet(DOMAIN f), \A i \in DOMAIN f : f[i] \in Int,
         NEW k \in 1 .. Cardinality(DOMAIN f)
  PROVE Kth(f, k) \in Int
<1> DEFINE D == DOMAIN f
           Under(i) == {j \in D : f[j] < f[i]}
           Within(i) == {j \in D : f[j] <= f[i]}
           T == {n \in Nat : \E i \in D : n = Cardinality(Under(i)) /\ k <= Cardinality(Within(i))}
<1>1. Cardinality(D) \in Nat /\ D # {} /\ k \in Nat /\ k > 0
  BY FS_CardinalityType, FS_EmptySet
<1>2. \A A \in SUBSET D : IsFiniteSet(A) /\ Cardinality(A) \in Nat
  BY FS_Subset, FS_CardinalityType
<1>3. \A i \in D : Under(i) \in SUBSET D /\ Within(i) \in SUBSET D
  OBVIOUS
<1>4. PICK top \in D : \A j \in D : f[j] <= f[top]
  BY <1>1, HighestIndex
<1>5. Within(top) = D
  BY <1>4
<1>6. T # {}
  <2>1. Cardinality(Under(top)) \in Nat
    BY <1>2, <1>3
  <2>2. Cardinality(Within(top)) = Cardinality(D)
    BY <1>5
  <2>3. k <= Cardinality(Within(top))
    BY <2>2
  <2>4. Cardinality(Under(top)) \in T
    BY <2>1, <2>3
  <2> QED BY <2>4
<1>7. PICK t \in T : \A y \in T : ~ (y < t)
  BY <1>6, LeastNat
<1>8. PICK i \in D : t = Cardinality(Under(i)) /\ k <= Cardinality(Within(i))
  BY <1>7
<1>9. ASSUME ~ (Cardinality(Under(i)) < k) PROVE FALSE
  <2>1. IsFiniteSet(Under(i)) /\ Under(i) # {}
    BY <1>1, <1>2, <1>3, <1>9, FS_EmptySet
  <2>2. PICK j \in Under(i) : \A l \in Under(i) : f[l] <= f[j]
    BY <2>1, HighestIndex
  <2>3. j \in D /\ f[j] < f[i]
    OBVIOUS
  <2>4. Within(j) = Under(i)
    BY <2>2, <2>3
  <2>5. Under(j) \subseteq Under(i) /\ j \notin Under(j)
    BY <2>3
  <2>6. Cardinality(Under(j)) < Cardinality(Under(i)) /\ Cardinality(Under(j)) \in Nat
    <3>1. Under(i) # Under(j)
      BY <2>5
    <3> HIDE DEF Under
    <3> QED BY <3>1, <2>5, <1>3, SmallerPart
  <2>7. Cardinality(Within(j)) = Cardinality(Under(i))
    BY <2>4
  <2>8. k <= Cardinality(Within(j))
    BY <2>7, <1>2, <1>3, <1>9
  <2>9. Cardinality(Under(j)) \in T
    BY <2>6, <2>8, <2>3
  <2> QED BY <2>9, <2>6, <1>7, <1>8
<1>10. \E v \in {f[x] : x \in DOMAIN f} :
         /\ Cardinality({x \in DOMAIN f : f[x] < v}) < k
         /\ k <= Cardinality({x \in DOMAIN f : f[x] <= v})
  BY <1>8, <1>9
<1>11. Kth(f, k) \in {f[x] : x \in DOMAIN f}
  BY <1>10 DEF Kth
<1> QED BY <1>11

LEMMA MedianIsInt ==
  ASSUME NEW f, IsFiniteSet(DOMAIN f), DOMAIN f # {}, \A i \in DOMAIN f : f[i] \in Int
  PROVE Median(f) \in Int
<1> DEFINE n == Cardinality(DOMAIN f)
<1>1. n \in Nat /\ n # 0
  BY FS_CardinalityType, FS_EmptySet
<1> HIDE DEF n
<1>2. CASE n % 2 = 1
  <2>1. n \div 2 + 1 \in 1 .. n
    BY <1>1, <1>2
  <2>2. Kth(f, n \div 2 + 1) \in Int
    BY <2>1, KthIsValue DEF n
  <2> QED BY <2>2, <1>2 DEF Median, n
<1>3. CASE n % 2 # 1
  <2>1. n \div 2 + 1 \in 1 .. n /\ n \div 2 \in 1 .. n
    BY <1>1, <1>3
  <2>2. Kth(f, n \div 2 + 1) \in Int /\ Kth(f, n \div 2) \in Int
    BY <2>1, KthIsValue DEF n
  <2>3. (Kth(f, n \div 2) + Kth(f, n \div 2 + 1)) \div 2 \in Int
    BY <2>2
  <2> QED BY <2>3, <1>3 DEF Median, n
<1> QED BY <1>2, <1>3

(***************************************************************************)
(* What an input is                                                        *)
(***************************************************************************)

LEMMA SectorFinite ==
  ASSUME MetricsAssumption, NEW x
  PROVE /\ IsFiniteSet(Sector) /\ IsFiniteSet(Active(x)) /\ IsFiniteSet(Valid(x))
        /\ Valid(x) \subseteq Active(x) /\ Active(x) \subseteq Sector /\ Sector \subseteq Instrument
<1>1. Sector \subseteq Instrument /\ IsFiniteSet(Instrument)
  BY DEF MetricsAssumption
<1>2. Valid(x) \subseteq Active(x) /\ Active(x) \subseteq Sector
  BY DEF Valid, Active
<1>3. IsFiniteSet(Sector)
  BY <1>1, FS_Subset
<1> QED BY <1>1, <1>2, <1>3, FS_Subset

\* What the quality gates look at when the quote of i is lost (_quality).
LEMMA LossSeen ==
  ASSUME MetricsAssumption, NEW t, NEW provider, NEW i \in Active(Input(t, provider))
  PROVE LET x == Input(t, provider)
            y == Losing(x, i)
        IN /\ Active(y) = Active(x) /\ Valid(y) \subseteq Valid(x)
           /\ Minute(y) => Minute(x)
           /\ History(y) = History(x)
           /\ y.phase = x.phase /\ y.final = x.final /\ y.provider = x.provider
           /\ y.contextFit = x.contextFit
<1> DEFINE x == Input(t, provider)
           y == Losing(x, i)
<1>1. i \in Instrument /\ Sector \subseteq Instrument
  BY SectorFinite
<1>2. /\ y.phase = x.phase /\ y.final = x.final /\ y.provider = x.provider
      /\ y.contextFit = x.contextFit /\ DOMAIN y.member = Instrument /\ DOMAIN x.member = Instrument
  BY DEF Losing, Input
<1>3. \A j \in Instrument : j # i => y.member[j] = x.member[j]
  BY DEF Losing, Input
<1>4. /\ y.member[i].status = "MISSING" /\ y.member[i].past = x.member[i].past
      /\ y.member[i].minute = x.member[i].minute
  BY <1>1 DEF Losing, Input, Member
<1>5. x.member[i].status # "SUSPENDED"
  BY DEF Active, Suspended
<1> HIDE DEF x, y
<1>6. Active(y) = Active(x)
  BY <1>1, <1>3, <1>4, <1>5 DEF Active, Suspended
<1>7. Valid(y) \subseteq Valid(x)
  BY <1>1, <1>3, <1>4, <1>6 DEF Valid, Active, ValidQuote
<1>8. Minute(y) => Minute(x)
  BY <1>3, <1>4 DEF Minute
<1>9. \A j \in Sector : y.member[j].past = x.member[j].past
  BY <1>1, <1>3, <1>4
<1>10. Days(y) = Days(x)
  BY <1>9 DEF Days
<1>11. {p \in Active(y) \X Days(y) : y.member[p[1]].past[p[2]] # {}}
       = {p \in Active(x) \X Days(x) : x.member[p[1]].past[p[2]] # {}}
  BY <1>6, <1>9, <1>10 DEF Active
<1>12. History(y) = History(x)
  BY <1>6, <1>10, <1>11 DEF History
<1> QED BY <1>2, <1>6, <1>7, <1>8, <1>12 DEF x, y

LEMMA LossNeverHelps ==
  ASSUME MetricsAssumption, NEW t, NEW provider, NEW i \in Active(Input(t, provider))
  PROVE Rank(Quality(Losing(Input(t, provider), i))) <= Rank(Quality(Input(t, provider)))
<1> DEFINE x == Input(t, provider)
           y == Losing(x, i)
<1>1. /\ Active(y) = Active(x) /\ Valid(y) \subseteq Valid(x)
      /\ Minute(y) => Minute(x)
      /\ History(y) = History(x)
      /\ y.phase = x.phase /\ y.final = x.final /\ y.provider = x.provider
      /\ y.contextFit = x.contextFit
  BY LossSeen
<1> HIDE DEF x, y
<1> DEFINE a == Cardinality(Active(x))
           v == Cardinality(Valid(x))
           u == Cardinality(Valid(y))
<1>2. a \in Nat /\ v \in Nat /\ u \in Nat /\ u <= v
  BY <1>1, SectorFinite, FS_CardinalityType, FS_Subset
<1>3. Cardinality(Active(y)) = a
  BY <1>1
<1> HIDE DEF a, v, u
<1>4. Quality(x) = "UNFIT" => Quality(y) = "UNFIT"
  BY <1>1, <1>2, <1>3 DEF Quality, a, v, u
<1>5. Quality(x) = "FIT_WITH_LIMITATIONS" => Quality(y) # "FIT"
  BY <1>1, <1>2, <1>3 DEF Quality, a, v, u
<1>6. Quality(x) \in {"UNFIT", "FIT_WITH_LIMITATIONS", "FIT"}
  BY DEF Quality
<1>7. Quality(y) \in {"UNFIT", "FIT_WITH_LIMITATIONS", "FIT"}
  BY DEF Quality
<1>8. /\ Rank("UNFIT") = 0 /\ Rank("FIT_WITH_LIMITATIONS") = 1 /\ Rank("FIT") = 2
  BY DEF Rank
<1>9. Rank(Quality(y)) <= Rank(Quality(x))
  BY <1>4, <1>5, <1>6, <1>7, <1>8
<1> QED BY <1>9 DEF x, y

(***************************************************************************)
(* Sessions and the tail of bars                                           *)
(***************************************************************************)

LEMMA SessionsApart ==
  ASSUME MetricsAssumption
  PROVE /\ \A s \in Session : s.opens \in Nat /\ s.closes \in Nat /\ s.opens < s.closes
        /\ \A r, s \in Session : r # s => r.closes <= s.opens \/ s.closes <= r.opens
<1>1. /\ Sessions \in Seq([phase : STRING, opens : Nat, closes : Nat])
      /\ \A k \in DOMAIN Sessions : Sessions[k].opens < Sessions[k].closes
      /\ \A j, k \in DOMAIN Sessions : j < k => Sessions[j].closes <= Sessions[k].opens
  BY DEF MetricsAssumption
<1>2. \A k \in DOMAIN Sessions : Sessions[k] \in [phase : STRING, opens : Nat, closes : Nat]
  <2> DEFINE Shape == [phase : STRING, opens : Nat, closes : Nat]
  <2>1. Sessions \in Seq(Shape)
    BY <1>1
  <2> HIDE DEF Shape
  <2>2. \A k \in DOMAIN Sessions : Sessions[k] \in Shape
    BY <2>1
  <2> QED BY <2>2 DEF Shape
<1>3. DOMAIN Sessions \subseteq Nat
  BY <1>1
<1>4. \A j, k \in DOMAIN Sessions :
        j # k => \/ Sessions[j].closes <= Sessions[k].opens
                 \/ Sessions[k].closes <= Sessions[j].opens
  <2> SUFFICES ASSUME NEW j \in DOMAIN Sessions, NEW k \in DOMAIN Sessions, j # k
               PROVE \/ Sessions[j].closes <= Sessions[k].opens
                     \/ Sessions[k].closes <= Sessions[j].opens
    OBVIOUS
  <2>1. j < k \/ k < j
    BY <1>3
  <2> QED BY <2>1, <1>1
<1>5. \A s \in Session : s.opens \in Nat /\ s.closes \in Nat /\ s.opens < s.closes
  BY <1>1, <1>2 DEF Session
<1>6. \A r, s \in Session : r # s => r.closes <= s.opens \/ s.closes <= r.opens
  BY <1>4 DEF Session
<1> QED BY <1>5, <1>6

LEMMA BarsAre ==
  ASSUME MetricsAssumption, name \in DOMAIN Market, NEW i \in Instrument, NEW t \in Nat
  PROVE /\ Bars(i, t) \subseteq DOMAIN day.close[i] /\ DOMAIN day.close[i] \subseteq Nat
        /\ Bars(i, t) \subseteq 0 .. t /\ IsFiniteSet(Bars(i, t))
<1>1. DOMAIN day.close[i] \subseteq Nat
  BY DEF MetricsAssumption, DayAssumption, day
<1>2. Bars(i, t) \subseteq DOMAIN day.close[i] /\ Bars(i, t) \subseteq 0 .. t
  BY <1>1 DEF Bars
<1>3. IsFiniteSet(0 .. t)
  BY FS_Interval
<1> QED BY <1>1, <1>2, <1>3, FS_Subset

\* The tail is an unbroken stretch of bars of one session that ends with the latest bar.
LEMMA TailOfOneSession ==
  ASSUME MetricsAssumption, name \in DOMAIN Market, NEW i \in Instrument, NEW t \in Nat,
         CurrentTail(i, t) # {}
  PROVE \E s \in Session, last \in Bars(i, t) :
          /\ last = Max(Bars(i, t)) /\ last = Max(CurrentTail(i, t)) /\ last \in CurrentTail(i, t)
          /\ last <= s.closes
          /\ \A m \in CurrentTail(i, t) :
               /\ m \in Bars(i, t) /\ m <= last /\ s.opens < m
               /\ m .. last \subseteq CurrentTail(i, t)
<1> DEFINE B == Bars(i, t)
           latest == IF B = {} THEN 0 ELSE Max(B)
           session == IF SessionAt(t) # {} THEN SessionAt(t)
                      ELSE {s \in Session : s.opens < latest /\ latest <= s.closes}
           current == {m \in B : \E s \in session : s.opens < m /\ m <= s.closes}
           last == Max(current)
           tail == {m \in current : m > last - 3 * Window /\ m .. last \subseteq current}
<1>1. CurrentTail(i, t) = IF current = {} THEN {} ELSE tail
  BY DEF CurrentTail, UnbrokenTail
<1>2. B \subseteq Nat /\ B \subseteq 0 .. t /\ IsFiniteSet(B)
  BY BarsAre
<1>3. current # {} /\ CurrentTail(i, t) = tail
  BY <1>1
<1>4. current \in SUBSET Int /\ IsFiniteSet(current) /\ current \subseteq B
  BY <1>2, FS_Subset
<1>5. B # {} /\ latest = Max(B)
  BY <1>3
<1>6. latest \in B /\ \A x \in B : x <= latest
  BY <1>2, <1>5, MaxFinite
<1>7. last \in current /\ \A x \in current : x <= last
  BY <1>3, <1>4, MaxFinite
<1>8. session \subseteq Session
  BY DEF SessionAt
<1>9. \A r, s \in session : r = s
  <2> SUFFICES ASSUME NEW r \in session, NEW s \in session, r # s PROVE FALSE
    OBVIOUS
  <2>1. /\ r \in Session /\ s \in Session
        /\ r.closes <= s.opens \/ s.closes <= r.opens
    BY <1>8, SessionsApart
  <2>2. /\ r.opens \in Nat /\ s.opens \in Nat /\ r.closes \in Nat /\ s.closes \in Nat
        /\ latest \in Nat
    BY <2>1, <1>2, <1>6, SessionsApart
  <2>3. CASE SessionAt(t) # {}
    <3>1. r.opens <= t /\ t < r.closes /\ s.opens <= t /\ t < s.closes
      BY <2>3 DEF SessionAt
    <3> QED BY <2>1, <2>2, <3>1
  <2>4. CASE SessionAt(t) = {}
    <3>1. r.opens < latest /\ latest <= r.closes /\ s.opens < latest /\ latest <= s.closes
      BY <2>4
    <3> QED BY <2>1, <2>2, <3>1
  <2> QED BY <2>3, <2>4
<1>10. PICK s \in session : s.opens < last /\ last <= s.closes
  BY <1>7
<1>11. \A m \in current : s.opens < m /\ m <= s.closes
  BY <1>9
<1>12. s \in Session /\ s.opens \in Nat /\ s.closes \in Nat
  BY <1>8, SessionsApart
<1>13. \A x \in B : x <= last
  <2> SUFFICES ASSUME NEW x \in B, ~ (x <= last) PROVE FALSE
    OBVIOUS
  <2>1. x \in Nat /\ last \in Nat /\ x <= t /\ last < x
    BY <1>2, <1>4, <1>7
  <2>2. CASE SessionAt(t) # {}
    <3>1. t < s.closes
      BY <2>2 DEF SessionAt
    <3>2. x \in current
      BY <2>1, <3>1, <1>10, <1>12
    <3> QED BY <3>2, <1>7
  <2>3. CASE SessionAt(t) = {}
    <3>1. s.opens < latest /\ latest <= s.closes
      BY <2>3
    <3>2. latest \in current
      BY <3>1, <1>6
    <3>3. x <= latest /\ latest <= last /\ latest \in Nat
      BY <3>2, <1>2, <1>6, <1>7
    <3> QED BY <2>1, <3>3
  <2> QED BY <2>2, <2>3
<1>14. last \in B /\ last = Max(B)
  <2> HIDE DEF current, last, session, B
  <2>1. last \in B
    BY <1>4, <1>7
  <2> QED BY <2>1, <1>2, <1>13, MaxIs
<1>15. last \in Nat /\ Window \in Nat \ {0}
  BY <1>2, <1>14 DEF MetricsAssumption
<1> HIDE DEF current, last, session, B
<1>16. last \in tail /\ last .. last = {last}
  BY <1>7, <1>15
<1>17. ASSUME NEW m \in tail
       PROVE m \in B /\ m <= last /\ s.opens < m /\ m .. last \subseteq tail
  <2>1. m \in Nat /\ m > last - 3 * Window /\ m .. last \subseteq current
    BY <1>4, <1>2
  <2>2. ASSUME NEW x \in m .. last PROVE x \in tail
    <3>1. x \in current /\ x > last - 3 * Window
      BY <2>1, <1>15
    <3>2. x .. last \subseteq m .. last
      BY <2>1, <1>15
    <3> QED BY <3>1, <3>2, <2>1
  <2> QED BY <2>2, <1>4, <1>7, <1>11
<1>18. last = Max(tail)
  BY <1>4, <1>7, <1>16, MaxIs
<1>19. CurrentTail(i, t) = tail
  BY <1>3
<1> HIDE DEF tail
<1> QED BY <1>10, <1>12, <1>14, <1>16, <1>17, <1>18, <1>19 DEF B

\* A tail of n bars reaches n minutes back.
LEMMA TailReachesBack ==
  ASSUME NEW T \in SUBSET Int, IsFiniteSet(T), NEW last \in Int, NEW n \in Nat \ {0},
         \A m \in T : m <= last /\ m .. last \subseteq T,
         n <= Cardinality(T)
  PROVE (last - n + 1) .. last \subseteq T
<1>1. CASE \E m \in T : m <= last - n + 1
  <2>1. PICK m \in T : m <= last - n + 1
    BY <1>1
  <2>2. (last - n + 1) .. last \subseteq m .. last
    BY <2>1
  <2> QED BY <2>1, <2>2
<1>2. CASE ~ \E m \in T : m <= last - n + 1
  <2>1. T \subseteq (last - n + 2) .. last
    <3> SUFFICES ASSUME NEW m \in T PROVE m \in (last - n + 2) .. last
      OBVIOUS
    <3>1. m \in Int /\ ~ (m <= last - n + 1) /\ m <= last
      BY <1>2
    <3> QED BY <3>1
  <2>2. /\ IsFiniteSet((last - n + 2) .. last)
        /\ Cardinality((last - n + 2) .. last)
             = IF last - n + 2 > last THEN 0 ELSE last - (last - n + 2) + 1
    BY FS_Interval
  <2>3. Cardinality((last - n + 2) .. last) = n - 1
    BY <2>2
  <2>4. Cardinality(T) <= n - 1 /\ Cardinality(T) \in Nat
    BY <2>1, <2>2, <2>3, FS_Subset, FS_CardinalityType
  <2> QED BY <2>4
<1> QED BY <1>1, <1>2

LEMMA KnownNeedsAll ==
  ASSUME NEW f, Known(f) # {}
  PROVE DOMAIN f # {} /\ \A i \in DOMAIN f : f[i] # {}
BY DEF Known

LEMMA WholeWindows ==
  ASSUME MetricsAssumption, name \in DOMAIN Market, NEW t \in Nat, NEW provider,
         NEW i \in Valid(Input(t, provider)),
         Robust(Before(Input(t, provider), Valid(Input(t, provider)))) # {}
  PROVE \E m \in Bars(i, t), s \in Session :
          /\ s.opens <= m - 2 * Window /\ m <= s.closes
          /\ (m - 2 * Window + 1) .. m \subseteq Bars(i, t)
          /\ m = Max(Bars(i, t))
<1> DEFINE x == Input(t, provider)
           T == CurrentTail(i, t)
<1>1. Known(Before(x, Valid(x))) # {}
  BY DEF Robust
<1>2. Before(x, Valid(x))[i] # {}
  BY <1>1, KnownNeedsAll DEF Before
<1>3. x.member[i].close2 # {}
  BY <1>2 DEF Before, Return, Positive
<1>4. i \in Instrument
  BY SectorFinite
<1>5. x.member[i].close2 = Close(i, T, 2 * Window)
  BY <1>4 DEF Input, Member
<1>6. 2 * Window \in 1 .. Cardinality(T)
  BY <1>3, <1>5 DEF Close, Back
<1>7. Window \in Nat \ {0} /\ 2 * Window \in Nat \ {0}
  BY DEF MetricsAssumption
<1>8. T # {}
  <2>1. Cardinality({}) = 0
    BY FS_EmptySet
  <2> QED BY <2>1, <1>6, <1>7
<1>9. PICK s \in Session, last \in Bars(i, t) :
        /\ last = Max(Bars(i, t)) /\ last <= s.closes
        /\ \A m \in T : m \in Bars(i, t) /\ m <= last /\ s.opens < m /\ m .. last \subseteq T
  BY <1>4, <1>8, TailOfOneSession
<1>10. Bars(i, t) \subseteq 0 .. t /\ IsFiniteSet(Bars(i, t))
  BY <1>4, BarsAre
<1> HIDE DEF T, x
<1>11. T \in SUBSET Int /\ IsFiniteSet(T) /\ last \in Int
  <2>1. T \subseteq Bars(i, t)
    BY <1>9
  <2> QED BY <2>1, <1>10, FS_Subset
<1>12. (last - 2 * Window + 1) .. last \subseteq T
  <2> DEFINE n == 2 * Window
  <2>1. n \in Nat \ {0} /\ n <= Cardinality(T)
    BY <1>6, <1>7
  <2> HIDE DEF n
  <2>2. (last - n + 1) .. last \subseteq T
    BY <2>1, <1>9, <1>11, TailReachesBack
  <2> QED BY <2>2 DEF n
<1>13. last - 2 * Window + 1 \in T
  BY <1>7, <1>11, <1>12
<1>14. s.opens <= last - 2 * Window
  <2>1. s.opens < last - 2 * Window + 1 /\ s.opens \in Nat
    BY <1>9, <1>13, SessionsApart
  <2> QED BY <2>1, <1>7, <1>11
<1>15. (last - 2 * Window + 1) .. last \subseteq Bars(i, t)
  BY <1>9, <1>12
<1> QED BY <1>9, <1>14, <1>15

(***************************************************************************)
(* The facts of an input are numbers                                       *)
(***************************************************************************)

LEMMA TotalIsInt ==
  ASSUME NEW f, IsFiniteSet(DOMAIN f), \A i \in DOMAIN f : f[i] \in Int
  PROVE Total(f) \in Int
<1>1. Total(f) = SumOver(f, DOMAIN f)
  BY DEF Total, MapThenSumSet, MapThenFoldSet, SumOver, Adds, Chosen
<1> QED BY <1>1, SumIsInt

LEMMA RatioIsInt ==
  ASSUME NEW a \in SUBSET Int, NEW b \in SUBSET Int
  PROVE Ratio(a, b) \in SUBSET Int
<1> SUFFICES ASSUME NEW x \in a, NEW y \in b, y > 0
             PROVE (x * K) \div y \in Int
  BY DEF Ratio, Positive
<1>1. x * K \in Int /\ y \in Int
  BY DEF K
<1> HIDE DEF K
<1> QED BY <1>1

LEMMA KnownIs ==
  ASSUME NEW f, NEW g \in Known(f), \A i \in DOMAIN f : f[i] \subseteq Int
  PROVE /\ DOMAIN g = DOMAIN f /\ DOMAIN g # {} /\ \A i \in DOMAIN g : g[i] \in Int
        /\ Known(f) = {g}
<1>1. DOMAIN f # {} /\ \A i \in DOMAIN f : f[i] # {}
  BY DEF Known
<1>2. g = [i \in DOMAIN f |-> CHOOSE v \in f[i] : TRUE] /\ Known(f) = {g}
  BY <1>1 DEF Known
<1>3. \A i \in DOMAIN f : g[i] \in f[i]
  BY <1>1, <1>2
<1> QED BY <1>1, <1>2, <1>3

LEMMA HeadIsInt ==
  ASSUME NEW g, IsFiniteSet(DOMAIN g), \A i \in DOMAIN g : g[i] \in Int
  PROVE HeadOf(g) \in SUBSET Int /\ (Total(g) > 0 => HeadValue(g) \in Int)
<1> DEFINE top == Top(g, Min({5, Max({1, CeilDiv(Cardinality(DOMAIN g), 10)})}))
           head == Part(g, top)
<1>1. top \in SUBSET DOMAIN g
  BY DEF Top
<1>2. DOMAIN head = top /\ \A i \in top : head[i] = g[i]
  BY DEF Part
<1> HIDE DEF top
<1>3. Total(head) \in Int /\ Total(g) \in Int
  <2>1. IsFiniteSet(DOMAIN head) /\ \A i \in DOMAIN head : head[i] \in Int
    BY <1>1, <1>2, FS_Subset
  <2> QED BY <2>1, TotalIsInt
<1>4. HeadOf(g) = Ratio({Total(head)}, {Total(g)})
  BY DEF HeadOf, top
<1> HIDE DEF head
<1>5. HeadOf(g) \in SUBSET Int
  BY <1>3, <1>4, RatioIsInt
<1>6. Total(g) > 0 => HeadOf(g) # {}
  BY <1>4 DEF Ratio, Positive
<1> QED BY <1>5, <1>6 DEF HeadValue

LEMMA HeadShareIsInt ==
  ASSUME NEW f, IsFiniteSet(DOMAIN f), \A i \in DOMAIN f : f[i] \subseteq Int
  PROVE HeadShare(f) \in SUBSET Int
<1> SUFFICES ASSUME NEW g \in Known(f) PROVE HeadOf(g) \in SUBSET Int
  BY DEF HeadShare
<1> QED BY KnownIs, HeadIsInt

\* Amounts of an input.
LEMMA InputAmounts ==
  ASSUME MetricsAssumption, name \in DOMAIN Market, NEW t \in Nat, NEW provider,
         NEW i \in Instrument
  PROVE LET m == Input(t, provider).member[i]
        IN /\ m.amount1 \in SUBSET Int
           /\ DOMAIN m.past = DOMAIN day.past /\ IsFiniteSet(DOMAIN day.past)
           /\ \A d \in DOMAIN day.past : m.past[d] \in SUBSET Int
<1> DEFINE m == Input(t, provider).member[i]
           T == CurrentTail(i, t)
           minutes == IF T = {} THEN {} ELSE (Max(T) - Window + 1) .. Max(T)
<1>1. /\ m.amount1 = AmountOver(i, T, Window, 0)
      /\ m.past = [d \in DOMAIN day.past |-> SameClockAmount(i, d, minutes)]
  BY DEF Input, Member
<1>2. /\ DOMAIN day.amount[i] = DOMAIN day.close[i] /\ IsFiniteSet(DOMAIN day.past)
      /\ \A x \in DOMAIN day.amount[i] : day.amount[i][x] \in Int
      /\ \A d \in DOMAIN day.past : \A x \in DOMAIN day.past[d][i] : day.past[d][i][x] \in Int
  BY DEF MetricsAssumption, DayAssumption, day
<1>3. T \subseteq Bars(i, t) /\ IsFiniteSet(T) /\ (T # {} => Max(T) \in Int)
  <2>1. CASE T = {}
    BY <2>1, FS_EmptySet
  <2>2. CASE T # {}
    <3>1. \E last \in Bars(i, t) : last = Max(T) /\ \A x \in T : x \in Bars(i, t)
      BY <2>2, TailOfOneSession
    <3>2. Bars(i, t) \subseteq 0 .. t /\ IsFiniteSet(Bars(i, t))
      BY BarsAre
    <3>3. T \subseteq Bars(i, t) /\ Max(T) \in Bars(i, t)
      BY <3>1
    <3> QED BY <3>2, <3>3, FS_Subset
  <2> QED BY <2>1, <2>2
<1>4. T \subseteq DOMAIN day.amount[i]
  BY <1>2, <1>3, BarsAre
<1> HIDE DEF T
<1>5. ASSUME NEW S \in SUBSET T PROVE Sum(i, S) \in Int
  <2>1. Sum(i, S) = SumOver(day.amount[i], S)
    BY DEF Sum, MapThenSumSet, MapThenFoldSet, SumOver, Adds, Chosen
  <2>2. IsFiniteSet(S) /\ \A x \in S : day.amount[i][x] \in Int
    BY <1>2, <1>3, <1>4, FS_Subset
  <2> QED BY <2>1, <2>2, SumIsInt
<1>6. AmountOver(i, T, Window, 0) \in SUBSET Int
  BY <1>5 DEF AmountOver
<1>7. ASSUME NEW d \in DOMAIN day.past PROVE SameClockAmount(i, d, minutes) \in SUBSET Int
  <2>1. CASE minutes = {} \/ ~ minutes \subseteq DOMAIN day.past[d][i]
    BY <2>1 DEF SameClockAmount
  <2>2. CASE minutes # {} /\ minutes \subseteq DOMAIN day.past[d][i]
    <3>1. IsFiniteSet(minutes)
      <4>1. T # {} /\ Window \in Nat
        BY <2>2 DEF MetricsAssumption
      <4>2. Max(T) - Window + 1 \in Int /\ Max(T) \in Int
        BY <4>1, <1>3
      <4> QED BY <4>1, <4>2, FS_Interval
    <3> HIDE DEF minutes
    <3>2. SameClockAmount(i, d, minutes) = {SumOver(day.past[d][i], minutes)}
      BY <2>2 DEF SameClockAmount, MapThenSumSet, MapThenFoldSet, SumOver, Adds, Chosen
    <3>3. SumOver(day.past[d][i], minutes) \in Int
      BY <1>2, <2>2, <3>1, SumIsInt
    <3> QED BY <3>2, <3>3
  <2> QED BY <2>1, <2>2
<1> HIDE DEF minutes
<1> QED BY <1>1, <1>2, <1>6, <1>7

\* The share of a finite set that has a property, in units of 1 / K.
LEMMA AboveInRange ==
  ASSUME NEW g, IsFiniteSet(DOMAIN g), DOMAIN g # {}
  PROVE Above(g, 0) \in 0 .. K
<1> DEFINE A == {i \in DOMAIN g : g[i] > 0}
           a == Cardinality(A)
           n == Cardinality(DOMAIN g)
<1>1. a \in Nat /\ n \in Nat /\ a <= n /\ n # 0
  BY FS_Subset, FS_CardinalityType, FS_EmptySet
<1>2. Above(g, 0) = (a * K) \div n
  BY DEF Above
<1> HIDE DEF a, n
<1> DEFINE p == a * K
           q == p \div n
           r == p % n
<1>3. p \in Nat /\ p <= 10000 * n
  BY <1>1 DEF K
<1> HIDE DEF p
<1>4. q \in Int /\ r \in 0 .. n - 1 /\ p = n * q + r
  BY <1>1, <1>3
<1> HIDE DEF q, r
<1>5. q >= 0
  <2> SUFFICES ASSUME q <= -1 PROVE FALSE
    BY <1>4
  <2>1. n * q <= n * (-1)
    BY <1>1, <1>4
  <2> QED BY <2>1, <1>4, <1>1, <1>3
<1>6. q <= 10000
  <2> SUFFICES ASSUME q >= 10001 PROVE FALSE
    BY <1>4
  <2>1. q - 10001 \in Nat /\ n \in Nat
    BY <1>1, <1>4
  <2>2. n * (q - 10001) \in Nat
    BY <2>1
  <2>3. n * (q - 10001) = n * q - n * 10001
    BY <1>4, <1>1
  <2>4. n * q \in Int /\ n * q >= n * 10001
    BY <2>2, <2>3, <1>4, <1>1
  <2> DEFINE big == n * q
  <2>5. big \in Int /\ big >= n * 10001 /\ p = big + r
    BY <2>4, <1>4
  <2> HIDE DEF big
  <2> QED BY <2>5, <1>1, <1>3, <1>4
<1>7. q \in 0 .. K
  BY <1>4, <1>5, <1>6 DEF K
<1> QED BY <1>2, <1>7 DEF q, p

LEMMA BreadthIs ==
  ASSUME NEW f, IsFiniteSet(DOMAIN f)
  PROVE /\ Breadth(f) \subseteq 0 .. K
        /\ \A b, c \in Breadth(f) : b = c
<1>1. \A g, h \in Known(f) : g = h /\ DOMAIN g = DOMAIN f /\ DOMAIN g # {}
  BY DEF Known
<1>2. \A g \in Known(f) : Above(g, 0) \in 0 .. K
  BY <1>1, AboveInRange
<1>3. \A b \in Breadth(f) : \E g \in Known(f) : b = Above(g, 0)
  BY DEF Breadth
<1> QED BY <1>1, <1>2, <1>3

LEMMA BaselineIsInt ==
  ASSUME MetricsAssumption, name \in DOMAIN Market, NEW t \in Nat, NEW provider
  PROVE Baseline(Input(t, provider), "head") \in SUBSET Int
<1> DEFINE x == Input(t, provider)
           whole == {d \in Days(x) : \E g \in Known(SameClock(x, d)) : Total(g) > 0}
           amount(d) == CHOOSE g \in Known(SameClock(x, d)) : TRUE
           of == [d \in whole |-> HeadValue(amount(d))]
<1>1. Baseline(x, "head") = IF Cardinality(whole) < 3 THEN {} ELSE {Median(of)}
  BY DEF Baseline
<1>2. \A i \in Valid(x) : i \in Instrument
  BY SectorFinite
<1>3. Days(x) \subseteq DOMAIN day.past /\ IsFiniteSet(DOMAIN day.past)
  <2>1. IsFiniteSet(DOMAIN day.past)
    BY DEF MetricsAssumption, DayAssumption, day
  <2>2. \A i \in Sector : DOMAIN x.member[i].past = DOMAIN day.past
    BY SectorFinite, InputAmounts
  <2> QED BY <2>1, <2>2 DEF Days
<1>4. \A d \in DOMAIN day.past : \A i \in Valid(x) : SameClock(x, d)[i] \subseteq Int
  <2> SUFFICES ASSUME NEW d \in DOMAIN day.past, NEW i \in Valid(x)
               PROVE SameClock(x, d)[i] \subseteq Int
    OBVIOUS
  <2>1. SameClock(x, d)[i] = x.member[i].past[d]
    BY DEF SameClock
  <2>2. x.member[i].past[d] \in SUBSET Int
    BY <1>2, InputAmounts
  <2> QED BY <2>1, <2>2
<1>5. IsFiniteSet(Valid(x))
  BY SectorFinite
<1> HIDE DEF x
<1>6. ASSUME NEW d \in whole PROVE HeadValue(amount(d)) \in Int
  <2>1. PICK g \in Known(SameClock(x, d)) : Total(g) > 0
    OBVIOUS
  <2>2. d \in DOMAIN day.past /\ DOMAIN SameClock(x, d) = Valid(x)
    BY <1>3 DEF SameClock
  <2>3. /\ Known(SameClock(x, d)) = {g} /\ DOMAIN g = Valid(x)
        /\ \A i \in DOMAIN g : g[i] \in Int
    BY <1>4, <2>2, KnownIs
  <2>4. amount(d) = g
    BY <2>3
  <2>5. HeadValue(g) \in Int
    BY <2>1, <2>3, <1>5, HeadIsInt
  <2> QED BY <2>4, <2>5
<1> HIDE DEF amount
<1>7. ASSUME ~ (Cardinality(whole) < 3) PROVE Median(of) \in Int
  <2>1. IsFiniteSet(whole)
    BY <1>3, FS_Subset
  <2>2. whole # {}
    BY <1>7, FS_EmptySet
  <2> HIDE DEF whole
  <2>3. DOMAIN of = whole /\ \A d \in DOMAIN of : of[d] \in Int
    BY <1>6
  <2> HIDE DEF of
  <2> QED BY <2>1, <2>2, <2>3, MedianIsInt
<1>8. Baseline(x, "head") \in SUBSET Int
  BY <1>1, <1>7
<1> QED BY <1>8 DEF x

\* One value of the head concentration, of the healthy breadth and of the collapse.
ConcentrationOf(h, r) == Weigh(60, Linear(h, 3500, 6000), 40, Linear(r, 12000, 18000))
HealthyOf(b, r) == (Linear(b, 5000, 7500) * (K - (40 * r) \div 100)) \div K
CollapseOf(b, p) == Weigh(60, Linear(p - b, 1500, 4000), 40, Linear(4500 - b, 0, 2500))

LEMMA ConcentrationTerm ==
  ASSUME NEW h \in Int, NEW r \in Int
  PROVE ConcentrationOf(h, r) \in 0 .. K
<1> DEFINE x == Linear(h, 3500, 6000)
           y == Linear(r, 12000, 18000)
<1>1. x \in 0 .. K /\ y \in 0 .. K
  BY LinearInRange
<1> HIDE DEF x, y
<1>2. x \in Int /\ y \in Int
  BY <1>1 DEF K
<1>3. Weigh(60, x, 40, y) \in 0 .. K
  BY <1>2, WeighInRange
<1> QED BY <1>3 DEF x, y, ConcentrationOf

\* The head concentration is a number between 0 and K (_head_concentration).
LEMMA ConcentrationInRange ==
  ASSUME MetricsAssumption, name \in DOMAIN Market, NEW t \in Nat, NEW provider
  PROVE HeadConcentration(Base(Input(t, provider))) \subseteq 0 .. K
<1> DEFINE x == Input(t, provider)
           f == Base(x)
           amounts == Field(x, "amount1")
<1>1. f.head = HeadShare(amounts) /\ f.headBaseline = Baseline(x, "head")
  BY DEF Base
<1>2. DOMAIN amounts = Valid(x) /\ \A i \in DOMAIN amounts : amounts[i] \subseteq Int
  <2>1. DOMAIN amounts = Valid(x)
    BY DEF Field
  <2>2. ASSUME NEW i \in Valid(x) PROVE amounts[i] \subseteq Int
    <3>1. x.member[i].amount1 \in SUBSET Int
      BY SectorFinite, InputAmounts
    <3>2. amounts[i] = x.member[i].amount1
      BY DEF Field
    <3> QED BY <3>1, <3>2
  <2> QED BY <2>1, <2>2
<1>3. IsFiniteSet(Valid(x))
  BY SectorFinite
<1>4. f.headBaseline \in SUBSET Int
  BY <1>1, BaselineIsInt
<1> HIDE DEF x, f, amounts
<1>5. f.head \in SUBSET Int
  BY <1>1, <1>2, <1>3, HeadShareIsInt
<1>6. Ratio(f.head, f.headBaseline) \in SUBSET Int
  BY <1>4, <1>5, RatioIsInt
<1>7. ASSUME NEW h \in f.head, NEW r \in Ratio(f.head, f.headBaseline)
      PROVE ConcentrationOf(h, r) \in 0 .. K
  <2>1. h \in Int /\ r \in Int
    BY <1>5, <1>6
  <2> QED BY <2>1, ConcentrationTerm
<1>8. HeadConcentration(f) \subseteq 0 .. K
  BY <1>7 DEF HeadConcentration, ConcentrationOf
<1> QED BY <1>8 DEF f, x

(***************************************************************************)
(* At the production thresholds a breadth is not healthy and collapsing    *)
(***************************************************************************)

\* A value scaled down by a factor of at most one is not more.
LEMMA ScaledDown ==
  ASSUME NEW a \in 0 .. K, NEW b \in 0 .. K
  PROVE (a * b) \div K <= a
<1>1. a \in Nat /\ b \in Nat /\ b <= 10000
  BY DEF K
<1> DEFINE p == a * b
<1>2. a * (10000 - b) \in Nat
  BY <1>1
<1>3. a * (10000 - b) = a * 10000 - p /\ p \in Int
  BY <1>1
<1> HIDE DEF p
<1>4. p <= a * 10000
  BY <1>1, <1>2, <1>3
<1>5. p \div 10000 <= a
  BY <1>1, <1>3, <1>4
<1> QED BY <1>5 DEF p, K

LEMMA HealthyNeedsBreadth ==
  ASSUME NEW b \in 0 .. K, NEW c \in 0 .. K,
         HealthyOf(b, c) >= 6500
  PROVE b >= 6625
<1> DEFINE l == Linear(b, 5000, 7500)
           r == K - (40 * c) \div 100
           y == ((b - 5000) * 10000) \div 2500
<1>1. l = Clamp(y) /\ y \in Int /\ b \in Int /\ y = (b - 5000) * 4
  BY DEF Linear, K
<1>2. r \in 0 .. K
  BY DEF K
<1> HIDE DEF y, l, r
<1>3. l \in 0 .. K /\ (l > 0 => l <= y)
  <2>1. l = IF y < 0 THEN 0 ELSE IF y > K THEN K ELSE y
    BY <1>1, ClampIs
  <2> QED BY <2>1, <1>1 DEF K
<1>4. (l * r) \div K <= l
  BY <1>2, <1>3, ScaledDown
<1>5. (l * r) \div K >= 6500 /\ (l * r) \div K \in Int
  <2>1. l * r \in Int
    BY <1>2, <1>3 DEF K
  <2> QED BY <2>1 DEF l, r, K, HealthyOf
<1>6. l \in Int /\ l >= 6500
  BY <1>3, <1>4, <1>5 DEF K
<1>7. y >= 6500
  BY <1>1, <1>3, <1>6
<1> QED BY <1>1, <1>7

LEMMA CollapseNeedsFall ==
  ASSUME NEW b \in 0 .. K, NEW p \in 0 .. K, b >= 6625
  PROVE CollapseOf(b, p) <= 4500
<1> DEFINE y == ((p - b - 1500) * 10000) \div 2500
           z == ((4500 - b) * 10000) \div 2500
<1>1. b \in Int /\ p \in Int /\ b <= 10000 /\ p <= 10000 /\ b >= 6625
  BY DEF K
<1>2. Linear(p - b, 1500, 4000) = Clamp(y) /\ Linear(4500 - b, 0, 2500) = Clamp(z)
  BY <1>1 DEF Linear, K
<1>3. y \in Int /\ y <= 7500 /\ z \in Int /\ z < 0
  BY <1>1
<1> HIDE DEF y, z
<1> DEFINE u == Clamp(y)
           v == Clamp(z)
           w == (60 * u + 40 * v) \div 100
           c == Clamp(w)
<1>4. /\ u = IF y < 0 THEN 0 ELSE IF y > K THEN K ELSE y
      /\ v = IF z < 0 THEN 0 ELSE IF z > K THEN K ELSE z
  BY <1>3, ClampIs
<1>5. CollapseOf(b, p) = c
  BY <1>2 DEF Weigh, CollapseOf
<1> HIDE DEF u, v
<1>6. w \in Int /\ w <= 4500
  BY <1>3, <1>4 DEF K
<1> HIDE DEF w
<1>7. c = IF w < 0 THEN 0 ELSE IF w > K THEN K ELSE w
  BY <1>6, ClampIs
<1> HIDE DEF c
<1>8. c <= 4500
  BY <1>6, <1>7 DEF K
<1> QED BY <1>5, <1>8

LEMMA HealthyTerm ==
  ASSUME NEW b \in 0 .. K, NEW r \in 0 .. K
  PROVE HealthyOf(b, r) \in Int
<1> DEFINE l == Linear(b, 5000, 7500)
<1>1. b \in Int
  BY DEF K
<1>2. l \in 0 .. K
  BY <1>1, LinearInRange
<1> HIDE DEF l
<1>3. l \in Int
  BY <1>2 DEF K
<1>4. (l * (K - (40 * r) \div 100)) \div K \in Int
  BY <1>3 DEF K
<1> QED BY <1>4 DEF l, HealthyOf

LEMMA CollapseTerm ==
  ASSUME NEW b \in 0 .. K, NEW p \in 0 .. K
  PROVE CollapseOf(b, p) \in Int
<1> DEFINE d == p - b
           e == 4500 - b
           x == Linear(d, 1500, 4000)
           y == Linear(e, 0, 2500)
           w == Weigh(60, x, 40, y)
<1>1. d \in Int /\ e \in Int
  BY DEF K
<1> HIDE DEF d, e
<1>2. x \in 0 .. K /\ y \in 0 .. K
  BY <1>1, LinearInRange
<1> HIDE DEF x, y
<1>3. x \in Int /\ y \in Int
  BY <1>2 DEF K
<1>4. w \in 0 .. K
  <2>1. K \in Int
    BY DEF K
  <2> QED BY <2>1, <1>3, WeighInRange
<1> HIDE DEF w
<1>5. w \in Int
  BY <1>4 DEF K
<1> QED BY <1>5 DEF w, x, y, d, e, CollapseOf

LEMMA NotBoth ==
  ASSUME MetricsAssumption, name \in DOMAIN Market, NEW t \in Nat, NEW provider,
         NEW h \in Output(Input(t, provider), << >>).scout.HEALTHY_BREADTH,
         NEW c \in Output(Input(t, provider), << >>).guardian.BREADTH_COLLAPSE
  PROVE h < 6500 \/ c < 5500
<1> DEFINE x == Input(t, provider)
           f == Base(x)
<1>1. h \in HealthyBreadth(f)
  BY DEF Output, Scout, None
<1>2. c \in Collapse(f)
  BY DEF Output, Guardian, None
<1>3. /\ f.breadth = Breadth(One(x, Valid(x)))
      /\ f.breadthBefore = Breadth(Before(x, Valid(x)))
  BY DEF Base
<1>4. IsFiniteSet(DOMAIN One(x, Valid(x))) /\ IsFiniteSet(DOMAIN Before(x, Valid(x)))
  BY SectorFinite DEF One, Before
<1>5. HeadConcentration(f) \subseteq 0 .. K
  BY ConcentrationInRange
<1> HIDE DEF x, f
<1>6. /\ f.breadth \subseteq 0 .. K /\ f.breadthBefore \subseteq 0 .. K
      /\ \A a, b \in f.breadth : a = b
  BY <1>3, <1>4, BreadthIs
<1>7. PICK b \in f.breadth, r \in HeadConcentration(f) : h = HealthyOf(b, r)
  BY <1>1 DEF HealthyBreadth, HealthyOf
<1>8. PICK p \in f.breadthBefore : c = CollapseOf(b, p)
  <2>1. PICK a \in f.breadth, p \in f.breadthBefore : c = CollapseOf(a, p)
    BY <1>2 DEF Collapse, CollapseOf
  <2> QED BY <2>1, <1>6
<1>9. b \in 0 .. K /\ p \in 0 .. K /\ r \in 0 .. K
  BY <1>5, <1>6
<1>10. h \in Int /\ c \in Int
  BY <1>7, <1>8, <1>9, HealthyTerm, CollapseTerm
<1>11. ~ (h < 6500) => b >= 6625
  <2> SUFFICES ASSUME ~ (h < 6500) PROVE b >= 6625
    OBVIOUS
  <2>1. h >= 6500
    BY <1>10
  <2> QED BY <2>1, <1>7, <1>9, HealthyNeedsBreadth
<1>12. b >= 6625 => c <= 4500
  BY <1>8, <1>9, CollapseNeedsFall
<1> QED BY <1>10, <1>11, <1>12

(***************************************************************************)
(* Minutes in which the market is open                                     *)
(***************************************************************************)

LEMMA SessionFinite ==
  ASSUME MetricsAssumption
  PROVE IsFiniteSet(Session)
<1> DEFINE Shape == [phase : STRING, opens : Nat, closes : Nat]
<1>1. Sessions \in Seq(Shape)
  BY DEF MetricsAssumption
<1> HIDE DEF Shape
<1>2. Len(Sessions) \in Nat /\ DOMAIN Sessions = 1 .. Len(Sessions)
      /\ Sessions \in [1 .. Len(Sessions) -> Shape]
  BY <1>1
<1>3. Sessions \in Surjection(1 .. Len(Sessions), Session)
  BY <1>2 DEF Session, Surjection
<1>4. IsFiniteSet(1 .. Len(Sessions))
  BY <1>2, FS_Interval
<1> QED BY <1>3, <1>4, FS_Surjection

Open(s, a, b) == Max({0, Min({b, s.closes}) - Max({a, s.opens})})
Labels(s, a, b) == {m \in (s.opens + 1) .. s.closes : a < m /\ m <= b}
AddsOpen(h, a, b) ==
  h = [W \in SUBSET Session |->
         IF W = {} THEN 0 ELSE Open(Chosen(W), a, b) + h[W \ {Chosen(W)}]]

LEMMA OpenIsLabels ==
  ASSUME MetricsAssumption, NEW s \in Session, NEW a \in Nat, NEW b \in Nat
  PROVE /\ IsFiniteSet(Labels(s, a, b)) /\ Labels(s, a, b) \in SUBSET Nat
        /\ Cardinality(Labels(s, a, b)) = Open(s, a, b)
<1> DEFINE low == IF a >= s.opens THEN a ELSE s.opens
           high == IF b <= s.closes THEN b ELSE s.closes
<1>1. s.opens \in Nat /\ s.closes \in Nat
  BY SessionsApart
<1>2. Max({a, s.opens}) = low /\ Min({b, s.closes}) = high
  BY <1>1, MaxOfTwo, MinOfTwo
<1>3. low \in Nat /\ high \in Nat
  BY <1>1
<1>4. Labels(s, a, b) = (low + 1) .. high
  BY <1>1 DEF Labels
<1> HIDE DEF low, high
<1>5. Open(s, a, b) = IF 0 >= high - low THEN 0 ELSE high - low
  <2> DEFINE x == high - low
  <2>1. x \in Int
    BY <1>3
  <2>2. Open(s, a, b) = Max({0, x})
    BY <1>2 DEF Open
  <2> HIDE DEF x
  <2>3. Open(s, a, b) = IF 0 >= x THEN 0 ELSE x
    BY <2>1, <2>2, MaxOfTwo
  <2> QED BY <2>3 DEF x
<1>6. /\ IsFiniteSet((low + 1) .. high)
      /\ Cardinality((low + 1) .. high) = IF low + 1 > high THEN 0 ELSE high - (low + 1) + 1
  BY <1>3, FS_Interval
<1>7. (low + 1) .. high \in SUBSET Nat
  BY <1>3
<1>8. Cardinality((low + 1) .. high) = Open(s, a, b)
  BY <1>3, <1>5, <1>6
<1> QED BY <1>4, <1>6, <1>7, <1>8

LEMMA MinutesUnfold ==
  ASSUME MetricsAssumption, NEW a \in Nat, NEW b \in Nat
  PROVE \E h : AddsOpen(h, a, b) /\ MinutesBetween(a, b) = h[Session]
<1> DEFINE h == CHOOSE g : AddsOpen(g, a, b)
           f == [s \in Session |-> Open(s, a, b)]
<1>1. MinutesBetween(a, b) = h[Session]
  BY DEF MinutesBetween, MapThenSumSet, MapThenFoldSet, AddsOpen, Open, Chosen
<1>2. PICK g : Adds(g, f, SUBSET Session)
  BY SessionFinite, SumExists
<1>3. \A W \in SUBSET Session : W # {} => f[Chosen(W)] = Open(Chosen(W), a, b)
  BY ChosenIn
<1>4. [W \in SUBSET Session |-> IF W = {} THEN 0 ELSE f[Chosen(W)] + g[W \ {Chosen(W)}]]
      = [W \in SUBSET Session |-> IF W = {} THEN 0 ELSE Open(Chosen(W), a, b) + g[W \ {Chosen(W)}]]
  BY <1>3
<1>5. AddsOpen(g, a, b)
  BY <1>2, <1>4 DEF Adds, AddsOpen
<1>6. AddsOpen(h, a, b)
  BY <1>5
<1> QED BY <1>1, <1>6

\* market_minutes_between counts the minutes of the sessions between two times.
LEMMA MinutesAreLabels ==
  ASSUME MetricsAssumption, NEW a \in Nat, NEW b \in Nat
  PROVE MinutesBetween(a, b) = Cardinality({m \in Label : a < m /\ m <= b})
<1>1. PICK h : AddsOpen(h, a, b) /\ MinutesBetween(a, b) = h[Session]
  BY MinutesUnfold
<1>2. \A W \in SUBSET Session :
        h[W] = IF W = {} THEN 0 ELSE Open(Chosen(W), a, b) + h[W \ {Chosen(W)}]
  BY <1>1 DEF AddsOpen
<1> DEFINE All(W) == UNION {Labels(s, a, b) : s \in W}
           Good(W) == IsFiniteSet(All(W)) /\ Cardinality(All(W)) = h[W]
           Bad == {n \in Nat : \E W \in SUBSET Session : Cardinality(W) = n /\ ~ Good(W)}
<1>3. \A W \in SUBSET Session : IsFiniteSet(W) /\ Cardinality(W) \in Nat
  BY SessionFinite, FS_Subset, FS_CardinalityType
<1>4. Bad = {}
  <2> SUFFICES ASSUME Bad # {} PROVE FALSE
    OBVIOUS
  <2>1. PICK t \in Bad : \A y \in Bad : ~ (y < t)
    BY LeastNat
  <2>2. PICK W \in SUBSET Session : Cardinality(W) = t /\ ~ Good(W)
    BY <2>1
  <2>3. h[W] = IF W = {} THEN 0 ELSE Open(Chosen(W), a, b) + h[W \ {Chosen(W)}]
    BY <1>2
  <2>4. CASE W = {}
    <3>1. All(W) = {} /\ h[W] = 0
      BY <2>3, <2>4
    <3> QED BY <3>1, <2>2, FS_EmptySet
  <2>5. CASE W # {}
    <3> DEFINE c == Chosen(W)
               V == W \ {c}
    <3>1. c \in W /\ c \in Session /\ V \in SUBSET Session
      BY <2>5, ChosenIn
    <3>2. Cardinality(V) = t - 1 /\ t - 1 \in Nat /\ t \in Nat
      BY <2>2, <2>5, <3>1, <1>3, WithoutOne
    <3>3. t - 1 \notin Bad
      <4> HIDE DEF Bad
      <4>1. t - 1 < t
        BY <3>2
      <4> QED BY <4>1, <2>1
    <3>4. Good(V)
      BY <3>1, <3>2, <3>3
    <3> HIDE DEF c
    <3>5. All(W) = All(V) \cup Labels(c, a, b)
      BY <3>1
    <3>6. All(V) \cap Labels(c, a, b) = {}
      <4> SUFFICES ASSUME NEW s \in V, NEW m \in Labels(s, a, b), m \in Labels(c, a, b)
                   PROVE FALSE
        OBVIOUS
      <4>1. s \in Session /\ s # c
        BY <3>1
      <4>2. s.closes <= c.opens \/ c.closes <= s.opens
        BY <4>1, <3>1, SessionsApart
      <4>3. /\ s.opens \in Nat /\ s.closes \in Nat /\ c.opens \in Nat /\ c.closes \in Nat
        BY <4>1, <3>1, SessionsApart
      <4>4. m \in (s.opens + 1) .. s.closes /\ m \in (c.opens + 1) .. c.closes
        BY DEF Labels
      <4> QED BY <4>2, <4>3, <4>4
    <3>7. /\ IsFiniteSet(Labels(c, a, b)) /\ Cardinality(Labels(c, a, b)) = Open(c, a, b)
      BY <3>1, OpenIsLabels
    <3> HIDE DEF All
    <3>8. /\ IsFiniteSet(All(V) \cup Labels(c, a, b))
          /\ Cardinality(All(V) \cup Labels(c, a, b))
             = Cardinality(All(V)) + Cardinality(Labels(c, a, b)) - Cardinality({})
      <4> DEFINE A == All(V)
                 L == Labels(c, a, b)
      <4>1. IsFiniteSet(A) /\ IsFiniteSet(L) /\ A \cap L = {}
        BY <3>4, <3>6, <3>7
      <4> HIDE DEF A, L
      <4>2. /\ IsFiniteSet(A \cup L)
            /\ Cardinality(A \cup L) = Cardinality(A) + Cardinality(L) - Cardinality({})
        BY <4>1, FS_Union
      <4> QED BY <4>2 DEF A, L
    <3>9. Cardinality({}) = 0 /\ Cardinality(All(V)) \in Nat /\ Cardinality(Labels(c, a, b)) \in Nat
      BY <3>4, <3>7, FS_EmptySet, FS_CardinalityType
    <3>10. h[W] = Open(c, a, b) + h[V]
      BY <2>3, <2>5 DEF c
    <3>11. Cardinality(All(W)) = h[W]
      BY <3>4, <3>5, <3>7, <3>8, <3>9, <3>10
    <3> QED BY <3>5, <3>8, <3>11, <2>2
  <2> QED BY <2>4, <2>5
<1>5. Good(Session)
  <2>1. Session \in SUBSET Session /\ Cardinality(Session) \in Nat
    BY <1>3
  <2>2. Cardinality(Session) \notin Bad
    BY <1>4
  <2> QED BY <2>1, <2>2
<1>6. All(Session) = {m \in Label : a < m /\ m <= b}
  BY DEF Label, Labels
<1> QED BY <1>1, <1>5, <1>6

(***************************************************************************)
(* Three observations                                                      *)
(***************************************************************************)

\* Every time has a place in the order of times.
LEMMA OrderReachesAll ==
  ASSUME NEW S \in SUBSET Nat, IsFiniteSet(S), NEW t \in S
  PROVE \E k \in 1 .. Cardinality(S) : InOrder(S)[k] = t
<1> DEFINE Upon(x) == {y \in S : y <= x}
           k == Cardinality(Upon(t))
<1>1. \A x \in S : Upon(x) \in SUBSET S /\ x \in Upon(x)
  OBVIOUS
<1>2. k \in 1 .. Cardinality(S)
  <2>1. IsFiniteSet(Upon(t)) /\ k <= Cardinality(S)
    BY <1>1, FS_Subset
  <2>2. k \in Nat /\ k # 0 /\ Cardinality(S) \in Nat
    BY <1>1, <2>1, FS_CardinalityType, FS_EmptySet
  <2> QED BY <2>1, <2>2
<1>3. ASSUME NEW x \in S, Cardinality(Upon(x)) = k PROVE x = t
  <2>1. ASSUME NEW p \in S, NEW q \in S, p < q PROVE Cardinality(Upon(p)) < Cardinality(Upon(q))
    <3>1. p \in Nat /\ q \in Nat
      OBVIOUS
    <3>2. Upon(p) \subseteq Upon(q) /\ q \in Upon(q) /\ q \notin Upon(p)
      <4>1. \A y \in S : y \in Nat /\ (y <= p => y <= q)
        BY <2>1, <3>1
      <4>2. q <= q /\ ~ (q <= p)
        BY <2>1, <3>1
      <4> QED BY <4>1, <4>2
    <3>3. Upon(q) \in SUBSET S
      OBVIOUS
    <3> HIDE DEF Upon
    <3> QED BY <3>2, <3>3, SmallerPart
  <2>2. x \in Nat /\ t \in Nat /\ k \in Nat
    BY <1>2
  <2>3. ~ (x < t) /\ ~ (t < x)
    BY <1>3, <2>1, <2>2
  <2> QED BY <2>2, <2>3
<1>4. InOrder(S)[k] = CHOOSE x \in S : Cardinality(Upon(x)) = k
  BY <1>2 DEF InOrder
<1> HIDE DEF Upon
<1>5. \E x \in S : Cardinality(Upon(x)) = k
  BY DEF k
<1>6. InOrder(S)[k] = t
  BY <1>3, <1>4, <1>5
<1> QED BY <1>2, <1>6

\* A continuity exists only over three observations, each of them fit.
LEMMA ContinuityOver ==
  ASSUME NEW o, Continuity(o) # {}
  PROVE Cardinality({o[k].at : k \in DOMAIN o}) = 3 /\ \A k \in DOMAIN o : o[k].fitness = "FIT"
BY DEF Continuity

LEMMA ContinuityNeeds ==
  ASSUME NEW S \in SUBSET Nat, IsFiniteSet(S), NEW t, Strengthening(t, S) # {}
  PROVE S # {} /\ \A x \in S : sealed[x].output.fitness = "FIT"
<1> DEFINE n == Cardinality(S)
           o == [k \in 1 .. n |-> Observed(InOrder(S)[k])]
<1>1. Continuity(o) # {}
  BY DEF Strengthening
<1>2. n \in Nat /\ DOMAIN o = 1 .. n
  BY FS_CardinalityType
<1>3. Cardinality({o[k].at : k \in DOMAIN o}) = 3 /\ \A k \in DOMAIN o : o[k].fitness = "FIT"
  <2> HIDE DEF o
  <2> QED BY <1>1, ContinuityOver
<1>4. S # {}
  <2> SUFFICES ASSUME S = {} PROVE FALSE
    OBVIOUS
  <2>1. n = 0
    BY FS_EmptySet
  <2>2. DOMAIN o = {}
    BY <2>1, <1>2
  <2> HIDE DEF o
  <2> DEFINE times == {o[k].at : k \in DOMAIN o}
  <2>3. times = {}
    BY <2>2
  <2>4. Cardinality({}) = 0
    BY FS_EmptySet
  <2>5. Cardinality(times) = 3
    BY <1>3
  <2> HIDE DEF times
  <2> QED BY <2>3, <2>4, <2>5
<1>5. ASSUME NEW x \in S PROVE sealed[x].output.fitness = "FIT"
  <2>1. PICK k \in 1 .. n : InOrder(S)[k] = x
    BY OrderReachesAll
  <2>2. o[k] = Observed(x)
    BY <2>1
  <2>3. o[k].fitness = "FIT"
    BY <1>2, <1>3
  <2> QED BY <2>2, <2>3 DEF Observed
<1> QED BY <1>4, <1>5

(***************************************************************************)
(* The inductive invariant                                                 *)
(***************************************************************************)

\* What a continuity found for the observations S of a run at `at' rests on.
Rests(at, S, continuity) ==
  continuity # {} =>
    /\ Cardinality(S) = 3 /\ S \subseteq DOMAIN sealed /\ Max(S) = at
    /\ \A t \in S :
         /\ sealed[t].kind.bundle = sealed[at].kind.bundle /\ sealed[t].output.fitness = "FIT"
         /\ t = at \/ \E x \in executions : x.at = t /\ sealed[t].kind.disposition = "SHADOW"
    /\ Cardinality({m \in Label : Min(S) < m /\ m <= at}) >= Span

FrozenNow ==
  \A x \in manifest : now \notin DOMAIN sealed /\ \E provider : x.input = Input(now, provider)
SealedFromInput ==
  /\ DOMAIN sealed \subseteq Nat /\ IsFiniteSet(DOMAIN sealed)
  /\ \A t \in DOMAIN sealed : \E provider : sealed[t].output = Output(Input(t, provider), << >>)
RunsRest ==
  /\ DOMAIN run = Runner
  /\ \A w \in Runner :
       /\ run[w] = [pc |-> run[w].pc, at |-> run[w].at, observations |-> run[w].observations,
                    continuity |-> run[w].continuity]
       /\ IF run[w].pc = "idle" THEN run[w].continuity = {} ELSE run[w].at \in DOMAIN sealed
       /\ Rests(run[w].at, run[w].observations, run[w].continuity)
ExecutionsRest ==
  \A e \in executions : e.at \in DOMAIN sealed /\ Rests(e.at, e.observations, e.continuity)

MetricsInv ==
  /\ name \in DOMAIN Market /\ now \in Nat
  /\ FrozenNow /\ SealedFromInput /\ RunsRest /\ ExecutionsRest

LEMMA InitRests == ASSUME MetricsAssumption, Init PROVE MetricsInv
<1>1. DOMAIN sealed = {}
  BY DEF Init
<1>2. SealedFromInput
  BY <1>1, FS_EmptySet DEF SealedFromInput
<1>3. RunsRest
  BY DEF Init, RunsRest, Rests, Idle
<1> QED BY <1>2, <1>3 DEF Init, MetricsInv, FrozenNow, ExecutionsRest

\* Snapshots sealed later and runs stored later take nothing away from a continuity.
LEMMA RestsGrows ==
  ASSUME NEW at, NEW S, NEW c, at \in DOMAIN sealed \/ c = {}, Rests(at, S, c),
         DOMAIN sealed \subseteq DOMAIN sealed',
         \A t \in DOMAIN sealed : sealed'[t] = sealed[t],
         executions \subseteq executions'
  PROVE Rests(at, S, c)'
<1> SUFFICES ASSUME c # {}
             PROVE /\ Cardinality(S) = 3 /\ S \subseteq DOMAIN sealed' /\ Max(S) = at
                   /\ \A t \in S :
                        /\ sealed'[t].kind.bundle = sealed'[at].kind.bundle
                        /\ sealed'[t].output.fitness = "FIT"
                        /\ \/ t = at
                           \/ \E x \in executions' :
                                x.at = t /\ sealed'[t].kind.disposition = "SHADOW"
                   /\ Cardinality({m \in Label : Min(S) < m /\ m <= at}) >= Span
  BY DEF Rests
<1>1. /\ Cardinality(S) = 3 /\ S \subseteq DOMAIN sealed /\ Max(S) = at
      /\ \A t \in S :
           /\ sealed[t].kind.bundle = sealed[at].kind.bundle /\ sealed[t].output.fitness = "FIT"
           /\ t = at \/ \E x \in executions : x.at = t /\ sealed[t].kind.disposition = "SHADOW"
      /\ Cardinality({m \in Label : Min(S) < m /\ m <= at}) >= Span
  BY DEF Rests
<1> QED BY <1>1

\* The day does not change, and what its inputs are does not either.
LEMMA InputStays ==
  ASSUME name' = name, NEW t, NEW provider
  PROVE Input(t, provider)' = Input(t, provider)
<1>1. day' = day
  BY DEF day
<1>2. \A i, m : Bars(i, m)' = Bars(i, m)
  BY <1>1 DEF Bars
<1>3. \A i, m : CurrentTail(i, m)' = CurrentTail(i, m)
  BY <1>2 DEF CurrentTail
<1>4. \A i, T, n : Close(i, T, n)' = Close(i, T, n)
  BY <1>1 DEF Close
<1>5. ASSUME NEW i, NEW S PROVE Sum(i, S)' = Sum(i, S)
  <2>1. Sum(i, S) = SumOver(day.amount[i], S)
    BY DEF Sum, MapThenSumSet, MapThenFoldSet, SumOver, Adds, Chosen
  <2>2. Sum(i, S)' = SumOver(day'.amount[i], S)
    BY DEF Sum, MapThenSumSet, MapThenFoldSet, SumOver, Adds, Chosen
  <2> QED BY <1>1, <2>1, <2>2
<1>6. \A i, T, m, n : AmountOver(i, T, m, n)' = AmountOver(i, T, m, n)
  BY <1>5 DEF AmountOver
<1>7. ASSUME NEW i, NEW d, NEW C PROVE SameClockAmount(i, d, C)' = SameClockAmount(i, d, C)
  <2>1. SameClockAmount(i, d, C)
        = IF C = {} \/ ~ C \subseteq DOMAIN day.past[d][i] THEN {} ELSE {SumOver(day.past[d][i], C)}
    BY DEF SameClockAmount, MapThenSumSet, MapThenFoldSet, SumOver, Adds, Chosen
  <2>2. SameClockAmount(i, d, C)'
        = IF C = {} \/ ~ C \subseteq DOMAIN day'.past[d][i] THEN {} ELSE {SumOver(day'.past[d][i], C)}
    BY DEF SameClockAmount, MapThenSumSet, MapThenFoldSet, SumOver, Adds, Chosen
  <2> QED BY <1>1, <2>1, <2>2
<1>8. \A i : Member(i, t)' = Member(i, t)
  BY <1>1, <1>3, <1>4, <1>6, <1>7 DEF Member
<1>9. \A c : ContextReturn(c, t)' = ContextReturn(c, t)
  BY <1>1, <1>3, <1>4 DEF ContextReturn
<1>10. \A c : ContextFit(c, t)' = ContextFit(c, t)
  BY <1>9 DEF ContextFit
<1> QED BY <1>1, <1>8, <1>9, <1>10 DEF Input

LEMMA FrozenStays ==
  ASSUME FrozenNow, UNCHANGED <<name, now, manifest, sealed>>
  PROVE FrozenNow'
<1>1. \A provider : Input(now, provider)' = Input(now, provider)
  BY InputStays
<1> QED BY <1>1 DEF FrozenNow

LEMMA SealedStays ==
  ASSUME SealedFromInput, UNCHANGED <<name, sealed>>
  PROVE SealedFromInput'
<1>1. \A t, provider : Input(t, provider)' = Input(t, provider)
  BY InputStays
<1> QED BY <1>1 DEF SealedFromInput

LEMMA RestStays ==
  ASSUME MetricsInv, UNCHANGED <<sealed, executions>>
  PROVE /\ \A at, S, c : Rests(at, S, c) => Rests(at, S, c)'
        /\ ExecutionsRest'
BY DEF MetricsInv, ExecutionsRest, Rests

\* Runs that stay as they are, all but w at most.
LEMMA RunsKept ==
  ASSUME MetricsInv, UNCHANGED <<sealed, executions>>, NEW w, NEW r,
         DOMAIN run' = Runner,
         \A v \in Runner : run'[v] = IF v = w THEN r ELSE run[v],
         r = [pc |-> r.pc, at |-> r.at, observations |-> r.observations,
              continuity |-> r.continuity],
         IF r.pc = "idle" THEN r.continuity = {} ELSE r.at \in DOMAIN sealed,
         Rests(r.at, r.observations, r.continuity)
  PROVE RunsRest'
<1>1. \A v \in Runner : Rests(run[v].at, run[v].observations, run[v].continuity)
  BY DEF MetricsInv, RunsRest
<1>2. \A v \in Runner : Rests(run'[v].at, run'[v].observations, run'[v].continuity)
  BY <1>1
<1>3. ASSUME NEW v \in Runner
      PROVE Rests(run[v].at, run[v].observations, run[v].continuity)'
  <2>1. Rests(run'[v].at, run'[v].observations, run'[v].continuity)
    BY <1>2
  <2> QED BY <2>1 DEF Rests
<1>4. \A v \in Runner :
        /\ run[v] = [pc |-> run[v].pc, at |-> run[v].at, observations |-> run[v].observations,
                     continuity |-> run[v].continuity]
        /\ IF run[v].pc = "idle" THEN run[v].continuity = {} ELSE run[v].at \in DOMAIN sealed
  BY DEF MetricsInv, RunsRest
<1>5. \A v \in Runner :
        /\ run'[v] = [pc |-> run'[v].pc, at |-> run'[v].at,
                      observations |-> run'[v].observations, continuity |-> run'[v].continuity]
        /\ IF run'[v].pc = "idle" THEN run'[v].continuity = {} ELSE run'[v].at \in DOMAIN sealed'
  BY <1>4
<1> QED BY <1>3, <1>5 DEF RunsRest

LEMMA RunsStay ==
  ASSUME MetricsInv, UNCHANGED <<sealed, executions, run>>
  PROVE RunsRest'
<1>1. \A v \in Runner : Rests(run[v].at, run[v].observations, run[v].continuity)
  BY DEF MetricsInv, RunsRest
<1>2. \A v \in Runner : Rests(run[v].at, run[v].observations, run[v].continuity)'
  BY <1>1 DEF Rests
<1> QED BY <1>2 DEF MetricsInv, RunsRest

LEMMA TickStep == ASSUME MetricsAssumption, MetricsInv, Tick PROVE MetricsInv'
<1>1. /\ manifest = {} /\ now' = now + 1
      /\ UNCHANGED <<name, manifest, sealed, executions, run, begun>>
  BY DEF Tick
<1>2. FrozenNow'
  BY <1>1 DEF FrozenNow
<1>3. SealedFromInput' /\ ExecutionsRest'
  BY <1>1, SealedStays, RestStays DEF MetricsInv
<1>4. RunsRest'
  BY <1>1, RunsStay
<1> QED BY <1>1, <1>2, <1>3, <1>4 DEF MetricsInv

LEMMA CaptureStep == ASSUME MetricsAssumption, MetricsInv, Capture PROVE MetricsInv'
<1>1. /\ now \notin DOMAIN sealed
      /\ \E kind : manifest' = {[kind |-> kind, input |-> Input(now, Provider(kind))]}
      /\ UNCHANGED <<name, now, sealed, executions, run, begun>>
  BY DEF Capture
<1>2. FrozenNow'
  <2>1. PICK kind : manifest' = {[kind |-> kind, input |-> Input(now, Provider(kind))]}
    BY <1>1
  <2>2. \A provider : Input(now, provider)' = Input(now, provider)
    BY <1>1, InputStays
  <2>3. \A x \in manifest' : x.input = Input(now, Provider(kind))'
    BY <2>1, <2>2
  <2>4. \A x \in manifest' : \E provider : x.input = Input(now, provider)'
    BY <2>3
  <2> QED BY <1>1, <2>4 DEF FrozenNow
<1>3. SealedFromInput' /\ ExecutionsRest'
  BY <1>1, SealedStays, RestStays DEF MetricsInv
<1>4. RunsRest'
  BY <1>1, RunsStay
<1> QED BY <1>1, <1>2, <1>3, <1>4 DEF MetricsInv

LEMMA SealStep == ASSUME MetricsAssumption, MetricsInv, Seal PROVE MetricsInv'
<1>1. /\ manifest' = {} /\ UNCHANGED <<name, now, executions, run, begun>>
  BY DEF Seal
<1>2. PICK m \in manifest :
        sealed' = [t \in DOMAIN sealed \cup {now} |->
                     IF t # now THEN sealed[t]
                     ELSE [kind |-> m.kind,
                           facts |-> Base(m.input), output |-> Output(m.input, << >>)]]
  BY DEF Seal
<1>3. PICK provider : now \notin DOMAIN sealed /\ m.input = Input(now, provider)
  BY DEF MetricsInv, FrozenNow
<1>4. /\ DOMAIN sealed' = DOMAIN sealed \cup {now}
      /\ \A t \in DOMAIN sealed : sealed'[t] = sealed[t]
      /\ sealed'[now].output = Output(Input(now, provider), << >>)
  BY <1>2, <1>3
<1>5. \A t, p : Input(t, p)' = Input(t, p)
  BY <1>1, InputStays
<1>6. SealedFromInput'
  <2>1. DOMAIN sealed' \subseteq Nat /\ IsFiniteSet(DOMAIN sealed')
    BY <1>4, FS_AddElement DEF MetricsInv, SealedFromInput
  <2>2. \A t \in DOMAIN sealed' : \E p : sealed'[t].output = Output(Input(t, p), << >>)
    BY <1>4 DEF MetricsInv, SealedFromInput
  <2> QED BY <2>1, <2>2, <1>5 DEF SealedFromInput
<1>7. ASSUME NEW at, NEW S, NEW c, at \in DOMAIN sealed \/ c = {}, Rests(at, S, c)
      PROVE Rests(at, S, c)'
  BY <1>1, <1>4, <1>7, RestsGrows
<1>8. ExecutionsRest'
  BY <1>1, <1>4, <1>7 DEF MetricsInv, ExecutionsRest
<1>9. RunsRest'
  BY <1>1, <1>4, <1>7 DEF MetricsInv, RunsRest
<1>10. FrozenNow'
  BY <1>1 DEF FrozenNow
<1> QED BY <1>1, <1>6, <1>8, <1>9, <1>10 DEF MetricsInv

\* A step that only changes the runs.
LEMMA RunStep ==
  ASSUME MetricsInv, UNCHANGED <<name, now, manifest, sealed, executions>>, RunsRest'
  PROVE MetricsInv'
<1>1. FrozenNow' /\ SealedFromInput' /\ ExecutionsRest'
  BY FrozenStays, SealedStays, RestStays DEF MetricsInv
<1> QED BY <1>1 DEF MetricsInv

LEMMA StartStep ==
  ASSUME MetricsAssumption, MetricsInv, NEW w \in Runner, Start(w) PROVE MetricsInv'
<1>1. PICK t \in DOMAIN sealed :
        run' = [run EXCEPT ![w] = [Idle EXCEPT !.pc = "evaluate", !.at = t]]
  BY DEF Start
<1>2. UNCHANGED <<name, now, manifest, sealed, executions>>
  BY DEF Start
<1> DEFINE r == [pc |-> "evaluate", at |-> t, observations |-> {}, continuity |-> {}]
<1>3. DOMAIN run' = Runner /\ \A v \in Runner : run'[v] = IF v = w THEN r ELSE run[v]
  <2>1. DOMAIN run = Runner
    BY DEF MetricsInv, RunsRest
  <2>2. [Idle EXCEPT !.pc = "evaluate", !.at = t] = r
    <3>1. /\ DOMAIN Idle = {"pc", "at", "observations", "continuity"}
          /\ Idle.observations = {} /\ Idle.continuity = {}
      BY DEF Idle
    <3> DEFINE i == [Idle EXCEPT !.pc = "evaluate", !.at = t]
    <3>2. /\ DOMAIN i = {"pc", "at", "observations", "continuity"}
          /\ i = [x \in DOMAIN i |-> i[x]] /\ i["pc"] = "evaluate" /\ i["at"] = t
          /\ i["observations"] = {} /\ i["continuity"] = {}
      BY <3>1
    <3> HIDE DEF i
    <3>3. i = r
      BY <3>2
    <3> QED BY <3>3 DEF i
  <2> HIDE DEF r
  <2>3. run' = [run EXCEPT ![w] = r]
    BY <1>1, <2>2, Zenon
  <2> QED BY <2>1, <2>3
<1>4. Rests(t, {}, {})
  BY DEF Rests
<1>5. RunsRest'
  BY <1>2, <1>3, <1>4, RunsKept
<1> QED BY <1>2, <1>5, RunStep

LEMMA FailStep == ASSUME MetricsAssumption, MetricsInv, NEW w \in Runner, Fail(w) PROVE MetricsInv'
<1>1. run' = [run EXCEPT ![w] = Idle] /\ UNCHANGED <<name, now, manifest, sealed, executions>>
  BY DEF Fail
<1>2. DOMAIN run' = Runner /\ \A v \in Runner : run'[v] = IF v = w THEN Idle ELSE run[v]
  BY <1>1 DEF MetricsInv, RunsRest
<1>3. Rests(Idle.at, Idle.observations, Idle.continuity)
  BY DEF Rests, Idle
<1>4. /\ Idle = [pc |-> Idle.pc, at |-> Idle.at, observations |-> Idle.observations,
                 continuity |-> Idle.continuity]
      /\ Idle.pc = "idle" /\ Idle.continuity = {}
  BY DEF Idle
<1>5. RunsRest'
  BY <1>1, <1>2, <1>3, <1>4, RunsKept
<1> QED BY <1>1, <1>5, RunStep

\* _continuity_observations: what an evaluation takes up is there.
LEMMA TakenRests ==
  ASSUME MetricsAssumption, MetricsInv, NEW at \in DOMAIN sealed, NEW R \in Latest(Rows(at))
  PROVE Rests(at, Taken(at, R), Strengthening(at, Taken(at, R)))
<1> DEFINE S == Taken(at, R)
           T == {e.at : e \in R} \cup {at}
<1> SUFFICES ASSUME Strengthening(at, S) # {}
             PROVE Rests(at, S, Strengthening(at, S))
  BY DEF Rests
<1>1. R \subseteq Rows(at)
  BY DEF Latest
<1>2. \A e \in R : /\ e \in executions /\ e.at < at
                   /\ sealed[e.at].kind.disposition = "SHADOW"
                   /\ sealed[e.at].kind.bundle = sealed[at].kind.bundle
  BY <1>1 DEF Rows
<1>3. \A e \in R : e.at \in DOMAIN sealed
  BY <1>2 DEF MetricsInv, ExecutionsRest
<1>4. DOMAIN sealed \subseteq Nat /\ IsFiniteSet(DOMAIN sealed)
  BY DEF MetricsInv, SealedFromInput
<1>5. T \subseteq DOMAIN sealed /\ at \in T /\ T \in SUBSET Nat
  BY <1>3, <1>4
<1>6. IsFiniteSet(T)
  BY <1>4, <1>5, FS_Subset
<1>7. S = {} \/ /\ S = T /\ Cardinality(T) = 3 /\ ~ (MinutesBetween(Min(T), Max(T)) < Span)
  BY DEF Taken
<1>8. S \in SUBSET Nat /\ IsFiniteSet(S)
  BY <1>5, <1>6, <1>7, FS_EmptySet
<1> HIDE DEF S
<1>9. S # {} /\ \A x \in S : sealed[x].output.fitness = "FIT"
  BY <1>8, ContinuityNeeds
<1>10. S = T /\ Cardinality(S) = 3 /\ ~ (MinutesBetween(Min(S), Max(S)) < Span)
  BY <1>7, <1>9
<1>11. Max(S) = at
  <2>1. \A x \in T : x <= at
    BY <1>2, <1>4, <1>3
  <2>2. T \in SUBSET Int
    BY <1>5
  <2> HIDE DEF T
  <2> QED BY <2>1, <2>2, <1>5, <1>10, MaxIs
<1>16. \A t \in T : t = at \/ \E e \in R : e.at = t
  OBVIOUS
<1> HIDE DEF T
<1>12. Min(S) \in Nat /\ at \in Nat
  <2>1. S \in SUBSET Int
    BY <1>8
  <2>2. Min(S) \in S
    BY <2>1, <1>8, <1>9, MinFinite
  <2> QED BY <2>2, <1>4, <1>8
<1>13. Cardinality({m \in Label : Min(S) < m /\ m <= at}) >= Span
  <2> DEFINE n == MinutesBetween(Min(S), at)
             L == {m \in Label : Min(S) < m /\ m <= at}
  <2>1. n = Cardinality(L)
    BY <1>12, MinutesAreLabels
  <2>2. IsFiniteSet(L)
    <3> DEFINE low == Min(S)
               I == low .. at
    <3>1. Label \subseteq Int
      BY SessionsApart DEF Label
    <3>2. low \in Int /\ at \in Int
      BY <1>12
    <3>3. IsFiniteSet(I)
      BY <3>2, FS_Interval
    <3> HIDE DEF low
    <3>4. \A m \in Int : low < m /\ m <= at => m \in I
      BY <3>2
    <3> HIDE DEF I
    <3>5. L \subseteq I
      BY <3>1, <3>4 DEF low
    <3> QED BY <3>3, <3>5, FS_Subset
  <2>3. Cardinality(L) \in Nat /\ Span \in Nat
    BY <2>2, FS_CardinalityType DEF MetricsAssumption
  <2>4. ~ (n < Span)
    BY <1>10, <1>11
  <2> HIDE DEF n, L
  <2>5. Cardinality(L) >= Span
    BY <2>1, <2>3, <2>4
  <2> QED BY <2>5 DEF L
<1>14. \A t \in S :
         /\ sealed[t].kind.bundle = sealed[at].kind.bundle /\ sealed[t].output.fitness = "FIT"
         /\ t = at \/ \E x \in executions : x.at = t /\ sealed[t].kind.disposition = "SHADOW"
  <2> SUFFICES ASSUME NEW t \in S
               PROVE /\ sealed[t].kind.bundle = sealed[at].kind.bundle
                     /\ t = at \/ \E x \in executions :
                                    x.at = t /\ sealed[t].kind.disposition = "SHADOW"
    BY <1>9
  <2>1. CASE t = at
    BY <2>1
  <2>2. CASE \E e \in R : e.at = t
    BY <2>2, <1>2
  <2> QED BY <2>1, <2>2, <1>10, <1>16
<1>15. S \subseteq DOMAIN sealed
  BY <1>5, <1>10
<1> QED BY <1>10, <1>11, <1>13, <1>14, <1>15 DEF Rests

LEMMA EvaluateStep ==
  ASSUME MetricsAssumption, MetricsInv, NEW w \in Runner, Evaluate(w) PROVE MetricsInv'
<1> DEFINE at == run[w].at
<1>1. run[w].pc = "evaluate" /\ UNCHANGED <<name, now, manifest, sealed, executions>>
  BY DEF Evaluate
<1>2. at \in DOMAIN sealed
  BY <1>1 DEF MetricsInv, RunsRest
<1>3. PICK R \in Latest(Rows(at)) :
        run' = [run EXCEPT ![w].pc = "guardian", ![w].observations = Taken(at, R),
                           ![w].continuity = Strengthening(at, Taken(at, R))]
  BY Zenon DEF Evaluate
<1> DEFINE S == Taken(at, R)
           c == Strengthening(at, S)
           r == [pc |-> "guardian", at |-> at, observations |-> S, continuity |-> c]
<1>4. Rests(at, S, c)
  BY <1>2, TakenRests
<1> HIDE DEF S, c
<1>5. run' = [run EXCEPT ![w].pc = "guardian", ![w].observations = S, ![w].continuity = c]
  BY <1>3, Zenon DEF S, c
<1>6. /\ DOMAIN run = Runner
      /\ run[w] = [pc |-> run[w].pc, at |-> at, observations |-> run[w].observations,
                   continuity |-> run[w].continuity]
  BY DEF MetricsInv, RunsRest
<1>7. DOMAIN run' = Runner
  BY <1>5, <1>6
<1>8. run'[w] = r
  BY <1>5, <1>6
<1>9. \A v \in Runner : run'[v] = IF v = w THEN r ELSE run[v]
  BY <1>5, <1>6, <1>8
<1> HIDE DEF at
<1>10. RunsRest'
  BY <1>1, <1>2, <1>4, <1>7, <1>9, RunsKept
<1> QED BY <1>1, <1>10, RunStep

\* A run that is stored rests on what it rested on before.
LEMMA RecordStep ==
  ASSUME MetricsAssumption, MetricsInv, NEW w \in Runner, NEW family, run[w].pc # "idle",
         executions' = executions \cup {Execution(w, family)},
         run' = [run EXCEPT ![w].pc = "scout"] \/ run' = [run EXCEPT ![w] = Idle],
         UNCHANGED <<name, now, manifest, sealed>>
  PROVE MetricsInv'
<1>1. FrozenNow' /\ SealedFromInput'
  BY FrozenStays, SealedStays DEF MetricsInv
<1>2. ASSUME NEW at, NEW S, NEW c, at \in DOMAIN sealed \/ c = {}, Rests(at, S, c)
      PROVE Rests(at, S, c)'
  BY <1>2, RestsGrows
<1>3. run[w].at \in DOMAIN sealed /\ Rests(run[w].at, run[w].observations, run[w].continuity)
  BY DEF MetricsInv, RunsRest
<1>4. ExecutionsRest'
  BY <1>2, <1>3 DEF MetricsInv, ExecutionsRest, Execution
<1>5. \A v \in Runner :
        /\ run[v].pc = "idle" => run[v].continuity = {}
        /\ run[v].pc # "idle" => run[v].at \in DOMAIN sealed
        /\ Rests(run[v].at, run[v].observations, run[v].continuity)
  BY DEF MetricsInv, RunsRest
<1>6. CASE run' = [run EXCEPT ![w].pc = "scout"]
  <2>1. /\ DOMAIN run' = Runner
        /\ run'[w] = [pc |-> "scout", at |-> run[w].at, observations |-> run[w].observations,
                      continuity |-> run[w].continuity]
        /\ \A v \in Runner : v # w => run'[v] = run[v]
    BY <1>6 DEF MetricsInv, RunsRest
  <2>2. \A v \in Runner : Rests(run[v].at, run[v].observations, run[v].continuity)'
    BY <1>2, <1>3, <1>5, <2>1
  <2> QED BY <1>1, <1>3, <1>4, <2>1, <2>2 DEF MetricsInv, RunsRest
<1>7. CASE run' = [run EXCEPT ![w] = Idle]
  <2>1. /\ DOMAIN run' = Runner /\ run'[w] = Idle
        /\ \A v \in Runner : v # w => run'[v] = run[v]
    BY <1>7 DEF MetricsInv, RunsRest
  <2>2. Rests(Idle.at, Idle.observations, Idle.continuity)
    BY DEF Rests, Idle
  <2>3. ASSUME NEW v \in Runner
        PROVE Rests(run[v].at, run[v].observations, run[v].continuity)'
    <3>1. CASE v = w
      BY <3>1, <2>1 DEF Rests, Idle
    <3>2. CASE v # w
      <4>1. Rests(run[v].at, run[v].observations, run[v].continuity)
            /\ (run[v].at \in DOMAIN sealed \/ run[v].continuity = {})
        BY <1>5
      <4> QED BY <4>1, <3>2, <1>2, <2>1
    <3> QED BY <3>1, <3>2
  <2> QED BY <1>1, <1>4, <2>1, <2>3 DEF MetricsInv, RunsRest, Idle
<1> QED BY <1>6, <1>7

\* What is assumed of the constants, with it: it is true for good.
MetricsHold == MetricsAssumption /\ MetricsInv

LEMMA MetricsInvariance == MetricsAssumption /\ Spec => []MetricsHold
<1>1. MetricsHold /\ [Next]_vars => MetricsHold'
  <2> SUFFICES ASSUME MetricsAssumption, MetricsInv, [Next]_vars PROVE MetricsInv'
    BY DEF MetricsHold, MetricsAssumption, DayAssumption
  <2>1. CASE UNCHANGED vars
    <3>1. FrozenNow' /\ SealedFromInput' /\ ExecutionsRest'
      BY <2>1, FrozenStays, SealedStays, RestStays DEF MetricsInv, vars
    <3>2. RunsRest'
      BY <2>1, RunsStay DEF vars
    <3> QED BY <2>1, <3>1, <3>2 DEF MetricsInv, vars
  <2>2. ASSUME Tick PROVE MetricsInv'
    BY <2>2, TickStep
  <2>3. ASSUME Capture PROVE MetricsInv'
    BY <2>3, CaptureStep
  <2>4. ASSUME Seal PROVE MetricsInv'
    BY <2>4, SealStep
  <2>5. ASSUME NEW w \in Runner, Start(w) PROVE MetricsInv'
    BY <2>5, StartStep
  <2>6. ASSUME NEW w \in Runner, Evaluate(w) PROVE MetricsInv'
    BY <2>6, EvaluateStep
  <2>7. ASSUME NEW w \in Runner, RecordGuardian(w) PROVE MetricsInv'
    BY <2>7, RecordStep DEF RecordGuardian
  <2>8. ASSUME NEW w \in Runner, RecordScout(w) PROVE MetricsInv'
    BY <2>8, RecordStep DEF RecordScout
  <2>9. ASSUME NEW w \in Runner, Fail(w) PROVE MetricsInv'
    BY <2>9, FailStep
  <2> QED BY <2>1, <2>2, <2>3, <2>4, <2>5, <2>6, <2>7, <2>8, <2>9 DEF Next
<1>2. MetricsAssumption /\ Init => MetricsHold
  BY InitRests DEF MetricsHold
<1> QED BY <1>1, <1>2, PTL DEF Spec

(***************************************************************************)
(* A stored CONTINUITY_STRENGTHENING rests on three FIT snapshots of one   *)
(* bundle that span enough market minutes (_continuity_observations).      *)
(***************************************************************************)
THEOREM ContinuityRests == MetricsAssumption /\ Spec => []ContinuityIsReal
<1>1. MetricsHold => ContinuityIsReal
  BY DEF MetricsHold, MetricsInv, ExecutionsRest, Rests, ContinuityIsReal
<1> QED BY <1>1, MetricsInvariance, PTL

(***************************************************************************)
(* A return or a breadth over two windows rests on every bar of both, in   *)
(* one session, of every valid member: CurrentTail gives a member no bars  *)
(* before a hole or the break (_complete_current_tail), and Robust takes   *)
(* the member returns only together (_return_and_breadth).                 *)
(***************************************************************************)
THEOREM WindowsWhole == MetricsAssumption /\ Spec => []WindowsAreWhole
<1>1. MetricsHold => WindowsAreWhole
  <2> SUFFICES ASSUME MetricsAssumption, MetricsInv PROVE WindowsAreWhole
    BY DEF MetricsHold
  <2> SUFFICES ASSUME NEW x \in manifest, Robust(Before(x.input, Valid(x.input))) # {},
                      NEW i \in Valid(x.input)
               PROVE \E m \in Bars(i, now), s \in Session :
                       /\ s.opens <= m - 2 * Window /\ m <= s.closes
                       /\ (m - 2 * Window + 1) .. m \subseteq Bars(i, now)
                       /\ m = Max(Bars(i, now))
    BY DEF WindowsAreWhole
  <2>1. PICK provider : x.input = Input(now, provider)
    BY DEF MetricsInv, FrozenNow
  <2> QED BY <2>1, WholeWindows DEF MetricsInv
<1> QED BY <1>1, MetricsInvariance, PTL

(***************************************************************************)
(* A quote that is lost never makes an input fitter: its member stays in   *)
(* the denominator of the coverage, and the valid ones are one less        *)
(* (_quality).                                                             *)
(***************************************************************************)
THEOREM LossIsNoGain == MetricsAssumption /\ Spec => []DataLossNeverHelps
<1>1. MetricsHold => DataLossNeverHelps
  <2> SUFFICES ASSUME MetricsAssumption, MetricsInv PROVE DataLossNeverHelps
    BY DEF MetricsHold
  <2> QED BY LossNeverHelps DEF MetricsInv, FrozenNow, DataLossNeverHelps
<1> QED BY <1>1, MetricsInvariance, PTL

(***************************************************************************)
(* A healthy and a collapsing breadth are both read off one breadth, so    *)
(* that at the thresholds of CR-005 no snapshot reports both               *)
(* (_healthy_breadth, _breadth_collapse).                                  *)
(***************************************************************************)
THEOREM HealthyOrCollapsing == MetricsAssumption /\ Spec => []NeverBothHealthyAndCollapsing
<1>1. MetricsHold => NeverBothHealthyAndCollapsing
  <2> SUFFICES ASSUME MetricsAssumption, MetricsInv PROVE NeverBothHealthyAndCollapsing
    BY DEF MetricsHold
  <2> SUFFICES ASSUME NEW t \in DOMAIN sealed,
                      NEW h \in sealed[t].output.scout.HEALTHY_BREADTH,
                      NEW c \in sealed[t].output.guardian.BREADTH_COLLAPSE
               PROVE h < 6500 \/ c < 5500
    BY DEF NeverBothHealthyAndCollapsing
  <2>1. PICK provider : sealed[t].output = Output(Input(t, provider), << >>)
    BY DEF MetricsInv, SealedFromInput
  <2>2. t \in Nat
    BY DEF MetricsInv, SealedFromInput
  <2> QED BY <2>1, <2>2, NotBoth DEF MetricsInv
<1> QED BY <1>1, MetricsInvariance, PTL

-----------------------------------------------------------------------------
(***************************************************************************)
(* Quotes, bars, manifests and snapshots                                   *)
(***************************************************************************)
AllQuotes == Lineage \X (1 .. MaxVersion) \X (0 .. MaxTime)
AllDocs == [quotes : SUBSET AllQuotes, bars : SUBSET BarUid, as_of : {Inputs!Never} \cup 0 .. MaxTime,
            rich : BOOLEAN]
AllReports == [at : 0 .. MaxTime, ok : BOOLEAN]
Builders == [pc : {"idle", "manifest", "snapshot"}, doc : AllDocs,
             capture : AllReports \cup {Inputs!NoReport}]
QuoteJobs == [pc : {"idle", "planned", "refreshed", "refused"},
              cutoff : {Inputs!Never} \cup 0 .. MaxTime,
              plan : SUBSET AllQuotes, protected : SUBSET Lineage, catalog : SUBSET AllDocs,
              deleted : {0}]
BarJobs == [pc : {"idle", "planned", "deleting"}, cutoff : {Inputs!Never} \cup 0 .. MaxTime,
            plan : SUBSET BarUid, protected : SUBSET BarUid, catalog : SUBSET AllDocs, deleted : Nat]

Shape ==
  /\ clock \in 0 .. MaxTime /\ quotes \subseteq AllQuotes /\ held \subseteq Lineage
  /\ bar \in [BarUid -> {Inputs!Never, Inputs!Gone} \cup 0 .. MaxTime]
  /\ reports \subseteq AllReports /\ manifests \subseteq AllDocs
  /\ snapshots \subseteq [doc : manifests, capture : reports, status : {"DRAFT", "SEALED"}]
  /\ builder \in [Builder -> Builders] /\ quoteJob \in QuoteJobs /\ barJob \in BarJobs

\* A document as the builder found it: something in it, and nothing received after its time.
Timely(doc) == /\ doc.quotes # {} /\ doc.as_of \in 0 .. clock
               /\ \A q \in doc.quotes : q[3] <= doc.as_of
Stands(doc) == doc.quotes \subseteq quotes /\ doc.bars \subseteq Inputs!LiveBars
\* The report a document may be evaluated with.
ValidFor(report, doc) ==
  report.ok /\ report.at <= doc.as_of /\ doc.as_of <= report.at + Validity

BuilderReads(b) ==
  /\ builder[b].pc = "manifest" => Timely(builder[b].doc)
  /\ builder[b].pc = "snapshot" =>
       /\ builder[b].doc \in manifests /\ builder[b].capture \in reports
       /\ ValidFor(builder[b].capture, builder[b].doc)

\* What a job protects is what the catalog it was planned from names; the fences compare the
\* catalog alone.
JobsProtect ==
  /\ quoteJob.pc \in {"planned", "refreshed"} =>
       \A m \in quoteJob.catalog : \A q \in m.quotes : q[1] \in quoteJob.protected
  /\ barJob.pc \in {"planned", "deleting"} =>
       \A m \in barJob.catalog : m.bars \subseteq barJob.protected

EvidenceInv ==
  /\ Inputs!EvidenceAssumption /\ Shape
  /\ \A m \in manifests : Timely(m) /\ Stands(m)
  /\ \A s \in snapshots : ValidFor(s.capture, s.doc)
  /\ \A b \in Builder : BuilderReads(b)
  /\ JobsProtect
  /\ Inputs!CorrectionHistoryKept /\ Inputs!UsedQuotesKept

-----------------------------------------------------------------------------
\* Evidence counts with an instance of FiniteSets of its own.
LEMMA InputsCount ==
  \A S : Inputs!Cardinality(S) = Cardinality(S) /\ (Inputs!IsFiniteSet(S) <=> IsFiniteSet(S))
BY DEF Inputs!Cardinality, Cardinality, Inputs!IsFiniteSet, IsFiniteSet

(***************************************************************************)
(* The newest of a bounded set of numbers exists: the current version of a *)
(* lineage and the newest report are chosen that way.                      *)
(***************************************************************************)
LEMMA LargestExists ==
  ASSUME NEW S, S \subseteq Nat, S # {}, NEW n \in Nat, \A x \in S : x <= n
  PROVE \E m \in S : \A x \in S : x <= m
<1> DEFINE T == {k \in Nat : n - k \in S}
<1>1. \A x \in S : n - x \in T
  <2> SUFFICES ASSUME NEW x \in S PROVE n - x \in T
    OBVIOUS
  <2>1. x \in Nat /\ x <= n
    OBVIOUS
  <2>2. n - x \in Nat /\ n - (n - x) = x
    BY <2>1
  <2> QED BY <2>2
<1>2. PICK t \in T : \A y \in T : ~ (<<y, t>> \in OpToRel(<, Nat))
  BY <1>1, NatLessThanWellFounded, WFMin
<1>3. \A y \in T : ~ (y < t)
  BY <1>2 DEF OpToRel
<1>4. ASSUME NEW x \in S PROVE x <= n - t
  <2>1. ~ (n - x < t)
    BY <1>1, <1>3
  <2>2. x \in Nat /\ t \in Nat
    OBVIOUS
  <2> QED BY <2>1, <2>2
<1> QED BY <1>4

LEMMA CurrentExists ==
  ASSUME Inputs!EvidenceAssumption, Shape, NEW l \in Lineage, Inputs!Versions(l) # {}
  PROVE /\ Inputs!CurrentVersion(l) \in 1 .. MaxVersion
        /\ \E q \in Inputs!Versions(l) : q[2] = Inputs!CurrentVersion(l)
        /\ \A q \in Inputs!Versions(l) : q[2] <= Inputs!CurrentVersion(l)
<1> DEFINE S == {q[2] : q \in Inputs!Versions(l)}
<1>1. \A q \in Inputs!Versions(l) : q[2] \in 1 .. MaxVersion
  BY DEF Shape, AllQuotes, Inputs!Versions
<1>2. S \subseteq Nat /\ S # {} /\ \A x \in S : x <= MaxVersion
  BY <1>1 DEF Inputs!EvidenceAssumption
<1>3. \E m \in S : \A x \in S : x <= m
  BY <1>2, LargestExists DEF Inputs!EvidenceAssumption
<1>4. \E v \in S : \A q \in Inputs!Versions(l) : q[2] <= v
  BY <1>3
<1>5. Inputs!CurrentVersion(l) \in S /\ \A q \in Inputs!Versions(l) : q[2] <= Inputs!CurrentVersion(l)
  BY <1>4 DEF Inputs!CurrentVersion
<1> QED BY <1>1, <1>5

LEMMA NewestValid ==
  ASSUME Inputs!EvidenceAssumption, Shape, NEW doc \in AllDocs, doc.as_of \in Nat
  PROVE /\ Inputs!Newest(doc.as_of).ok => Inputs!Newest(doc.as_of) \in reports
        /\ Inputs!Newest(doc.as_of).ok => ValidFor(Inputs!Newest(doc.as_of), doc)
<1> DEFINE past == {r \in reports : r.at <= doc.as_of}
           ats == {r.at : r \in past}
           last == CHOOSE r \in past : \A x \in past : x.at <= r.at
<1>1. Inputs!Newest(doc.as_of) =
        IF past = {} \/ last.at + Validity < doc.as_of THEN Inputs!NoReport ELSE last
  BY DEF Inputs!Newest
<1>2. ~ Inputs!NoReport.ok
  BY DEF Inputs!NoReport
<1>3. ASSUME past # {}
      PROVE last \in past
  <2>1. \A r \in past : r.at \in Nat /\ r.at <= doc.as_of
    BY DEF Shape, AllReports
  <2>2. ats \subseteq Nat /\ ats # {} /\ \A x \in ats : x <= doc.as_of
    BY <2>1, <1>3
  <2>3. \E m \in ats : \A x \in ats : x <= m
    BY <2>2, LargestExists
  <2>4. \E r \in past : \A x \in past : x.at <= r.at
    BY <2>3
  <2> QED BY <2>4
<1>4. ASSUME Inputs!Newest(doc.as_of).ok
      PROVE /\ Inputs!Newest(doc.as_of) = last /\ last \in past
            /\ ~ (last.at + Validity < doc.as_of)
  BY <1>1, <1>2, <1>3, <1>4
<1>5. ASSUME Inputs!Newest(doc.as_of).ok
      PROVE last \in reports /\ last.at \in Nat /\ last.at <= doc.as_of
  BY <1>4, <1>5 DEF Shape, AllReports
<1> HIDE DEF last, past
<1> QED BY <1>4, <1>5 DEF ValidFor, Inputs!EvidenceAssumption

\* What the catalog of this moment protects is what its manifests name.
LEMMA Protects ==
  ASSUME Shape
  PROVE /\ \A m \in manifests : \A q \in m.quotes : q[1] \in Inputs!ManifestLineages
        /\ \A m \in manifests : m.bars \subseteq Inputs!ManifestBars
        /\ Inputs!ManifestLineages \subseteq Lineage /\ Inputs!ManifestBars \subseteq BarUid
<1>1. \A m \in manifests : \A q \in m.quotes : q[1] \in Inputs!ManifestLineages
  BY DEF Inputs!ManifestLineages
<1>2. \A m \in manifests : m.bars \subseteq Inputs!ManifestBars
  BY DEF Inputs!ManifestBars
<1>3. \A m \in manifests : m.bars \subseteq BarUid /\ m.quotes \subseteq AllQuotes
  BY DEF Shape, AllDocs
<1>4. Inputs!ManifestBars \subseteq BarUid
  BY <1>3 DEF Inputs!ManifestBars
<1>5. Inputs!ManifestLineages \subseteq Lineage
  BY <1>3 DEF Inputs!ManifestLineages, AllQuotes
<1> QED BY <1>1, <1>2, <1>4, <1>5

LEMMA InitInvariant == Inputs!EvidenceAssumption /\ Inputs!Init => EvidenceInv
<1> SUFFICES ASSUME Inputs!EvidenceAssumption, Inputs!Init PROVE EvidenceInv
  OBVIOUS
<1>1. Inputs!NoDoc \in AllDocs
  BY DEF Inputs!NoDoc, AllDocs
<1>2. Inputs!IdleBuilder \in Builders
  BY <1>1 DEF Inputs!IdleBuilder, Builders
<1>3. Inputs!NoJob \in QuoteJobs /\ Inputs!NoJob \in BarJobs
  BY DEF Inputs!NoJob, QuoteJobs, BarJobs
<1>4. Shape
  BY <1>2, <1>3 DEF Inputs!Init, Shape, Inputs!EvidenceAssumption
<1>5. \A b \in Builder : BuilderReads(b)
  BY DEF Inputs!Init, Inputs!IdleBuilder, BuilderReads
<1>6. JobsProtect
  BY DEF Inputs!Init, Inputs!NoJob, JobsProtect
<1>7. Inputs!CorrectionHistoryKept /\ Inputs!UsedQuotesKept
  BY DEF Inputs!Init, Inputs!CorrectionHistoryKept, Inputs!UsedQuotesKept
<1> QED BY <1>4, <1>5, <1>6, <1>7 DEF Inputs!Init, EvidenceInv

-----------------------------------------------------------------------------
(***************************************************************************)
(* Acquisition only adds, so what the callers and the jobs know stands.    *)
(***************************************************************************)
LEMMA EvidenceAdds ==
  ASSUME EvidenceInv, Shape', Inputs!CorrectionHistoryKept', Inputs!UsedQuotesKept',
         UNCHANGED <<manifests, snapshots, Inputs!Rest>>, clock <= clock',
         quotes \subseteq quotes', Inputs!LiveBars \subseteq Inputs!LiveBars',
         reports \subseteq reports'
  PROVE EvidenceInv'
<1>1. \A doc : Timely(doc) => Timely(doc)'
  BY DEF EvidenceInv, Shape, Timely
<1>2. \A doc : Stands(doc) => Stands(doc)'
  BY DEF Stands
<1>3. \A m \in manifests' : Timely(m)' /\ Stands(m)'
  BY <1>1, <1>2 DEF EvidenceInv
<1>4. \A b \in Builder : BuilderReads(b)'
  BY <1>1 DEF EvidenceInv, BuilderReads, Inputs!Rest
<1>5. JobsProtect'
  BY DEF EvidenceInv, JobsProtect, Inputs!Rest
<1> QED BY <1>3, <1>4, <1>5 DEF EvidenceInv, Inputs!EvidenceAssumption

LEMMA EvidenceTickStep == ASSUME EvidenceInv, Inputs!Tick PROVE EvidenceInv'
<1>1. Shape'
  BY DEF EvidenceInv, Shape, Inputs!Tick, Inputs!Rest, Inputs!EvidenceAssumption
<1>2. Inputs!CorrectionHistoryKept' /\ Inputs!UsedQuotesKept'
  BY DEF EvidenceInv, Inputs!Tick, Inputs!CorrectionHistoryKept, Inputs!UsedQuotesKept,
        Inputs!Versions
<1>3. clock <= clock' /\ Inputs!LiveBars' = Inputs!LiveBars
  BY DEF EvidenceInv, Shape, Inputs!Tick, Inputs!LiveBars
<1> QED BY <1>1, <1>2, <1>3, EvidenceAdds DEF Inputs!Tick

\* A first version or the next one: the versions before it are there.
LEMMA NewVersion ==
  ASSUME EvidenceInv, NEW l \in Lineage, NEW v \in 1 .. MaxVersion,
         quotes' = quotes \cup {<<l, v, clock>>},
         \A w \in 1 .. v - 1 : \E q \in Inputs!Versions(l) : q[2] = w,
         UNCHANGED <<clock, held, detailed, bar, reports, manifests, snapshots, Inputs!Rest>>
  PROVE EvidenceInv'
<1>1. <<l, v, clock>> \in AllQuotes
  BY DEF EvidenceInv, Shape, AllQuotes
<1>2. Shape'
  BY <1>1 DEF EvidenceInv, Shape, Inputs!Rest
<1>3. \A k : Inputs!Versions(k) \subseteq Inputs!Versions(k)'
  BY DEF Inputs!Versions
<1>4. <<l, v, clock>> \in Inputs!Versions(l)'
  BY DEF Inputs!Versions
<1>5. Inputs!UsedQuotesKept'
  BY <1>3 DEF EvidenceInv, Inputs!UsedQuotesKept
<1>6. ASSUME NEW q \in quotes', NEW w \in 1 .. q[2] PROVE \E p \in Inputs!Versions(q[1])' : p[2] = w
  <2>1. CASE q \in quotes
    BY <2>1, <1>3, <1>6 DEF EvidenceInv, Inputs!CorrectionHistoryKept
  <2>2. CASE q = <<l, v, clock>> /\ w = v
    BY <2>2, <1>4
  <2>3. CASE q = <<l, v, clock>> /\ w # v
    BY <2>3, <1>3, <1>6
  <2> QED BY <2>1, <2>2, <2>3
<1>7. Inputs!LiveBars' = Inputs!LiveBars /\ clock <= clock'
  BY DEF EvidenceInv, Shape, Inputs!LiveBars
<1> QED BY <1>2, <1>5, <1>6, <1>7, EvidenceAdds DEF Inputs!CorrectionHistoryKept

LEMMA IngestQuoteStep ==
  ASSUME EvidenceInv, NEW l \in Lineage, Inputs!IngestQuote(l) PROVE EvidenceInv'
  BY NewVersion DEF Inputs!IngestQuote, EvidenceInv, Inputs!EvidenceAssumption

LEMMA CorrectQuoteStep ==
  ASSUME EvidenceInv, NEW l \in Lineage, Inputs!CorrectQuote(l) PROVE EvidenceInv'
<1>1. /\ Inputs!CurrentVersion(l) \in 1 .. MaxVersion
      /\ \E q \in Inputs!Versions(l) : q[2] = Inputs!CurrentVersion(l)
  BY CurrentExists DEF EvidenceInv, Inputs!CorrectQuote
<1>2. /\ Inputs!CurrentVersion(l) + 1 \in 1 .. MaxVersion
      /\ (Inputs!CurrentVersion(l) + 1) - 1 = Inputs!CurrentVersion(l)
  BY <1>1 DEF Inputs!CorrectQuote, EvidenceInv, Inputs!EvidenceAssumption
<1>3. \A w \in 1 .. Inputs!CurrentVersion(l) : \E q \in Inputs!Versions(l) : q[2] = w
  BY <1>1 DEF EvidenceInv, Inputs!CorrectionHistoryKept, Inputs!Versions
<1> QED BY <1>2, <1>3, NewVersion DEF Inputs!CorrectQuote

LEMMA HoldLineageStep ==
  ASSUME EvidenceInv, NEW l \in Lineage, Inputs!HoldLineage(l) PROVE EvidenceInv'
<1>1. Shape' /\ clock <= clock' /\ Inputs!LiveBars' = Inputs!LiveBars
  BY DEF EvidenceInv, Shape, Inputs!HoldLineage, Inputs!Rest, Inputs!LiveBars
<1>2. Inputs!CorrectionHistoryKept' /\ Inputs!UsedQuotesKept'
  BY DEF EvidenceInv, Inputs!HoldLineage, Inputs!CorrectionHistoryKept, Inputs!UsedQuotesKept,
        Inputs!Versions
<1> QED BY <1>1, <1>2, EvidenceAdds DEF Inputs!HoldLineage

LEMMA RecordDetailStep ==
  ASSUME EvidenceInv, NEW q \in quotes, Inputs!RecordDetail(q) PROVE EvidenceInv'
<1>1. Shape' /\ clock <= clock' /\ Inputs!LiveBars' = Inputs!LiveBars
  BY DEF EvidenceInv, Shape, Inputs!RecordDetail, Inputs!Rest, Inputs!LiveBars
<1>2. Inputs!CorrectionHistoryKept' /\ Inputs!UsedQuotesKept'
  BY DEF EvidenceInv, Inputs!RecordDetail, Inputs!CorrectionHistoryKept, Inputs!UsedQuotesKept,
        Inputs!Versions
<1> QED BY <1>1, <1>2, EvidenceAdds DEF Inputs!RecordDetail

LEMMA RecordBarStep ==
  ASSUME EvidenceInv, NEW b \in BarUid, NEW t \in 0 .. clock, Inputs!RecordBar(b, t)
  PROVE EvidenceInv'
<1>1. Shape' /\ clock <= clock'
  BY DEF EvidenceInv, Shape, Inputs!RecordBar, Inputs!Rest, Inputs!EvidenceAssumption
<1>2. Inputs!LiveBars \subseteq Inputs!LiveBars'
  BY DEF EvidenceInv, Shape, Inputs!RecordBar, Inputs!LiveBars, Inputs!Never
<1>3. Inputs!CorrectionHistoryKept' /\ Inputs!UsedQuotesKept'
  BY DEF EvidenceInv, Inputs!RecordBar, Inputs!CorrectionHistoryKept, Inputs!UsedQuotesKept,
        Inputs!Versions
<1> QED BY <1>1, <1>2, <1>3, EvidenceAdds DEF Inputs!RecordBar

LEMMA RecordHealthStep ==
  ASSUME EvidenceInv, NEW ok \in BOOLEAN, Inputs!RecordHealth(ok) PROVE EvidenceInv'
<1>1. Shape' /\ clock <= clock' /\ Inputs!LiveBars' = Inputs!LiveBars
  BY DEF EvidenceInv, Shape, Inputs!RecordHealth, Inputs!Rest, Inputs!LiveBars, AllReports
<1>2. Inputs!CorrectionHistoryKept' /\ Inputs!UsedQuotesKept'
  BY DEF EvidenceInv, Inputs!RecordHealth, Inputs!CorrectionHistoryKept, Inputs!UsedQuotesKept,
        Inputs!Versions
<1> QED BY <1>1, <1>2, EvidenceAdds DEF Inputs!RecordHealth

-----------------------------------------------------------------------------
(***************************************************************************)
(* The builder: what it read is checked again when its command runs.       *)
(***************************************************************************)
\* The steps of a caller change no stored row but manifests and snapshots.
LEMMA Reads ==
  ASSUME EvidenceInv, UNCHANGED <<Inputs!Acquired, Inputs!Jobs>>
  PROVE /\ Inputs!CorrectionHistoryKept' /\ Inputs!UsedQuotesKept'
        /\ JobsProtect' /\ Inputs!EvidenceAssumption'
        /\ \A doc : (Timely(doc)' <=> Timely(doc)) /\ (Stands(doc)' <=> Stands(doc))
<1>1. Inputs!CorrectionHistoryKept' /\ Inputs!UsedQuotesKept'
  BY DEF EvidenceInv, Inputs!Acquired, Inputs!CorrectionHistoryKept, Inputs!UsedQuotesKept,
        Inputs!Versions
<1>2. JobsProtect'
  BY DEF EvidenceInv, Inputs!Jobs, JobsProtect
<1>3. \A doc : (Timely(doc)' <=> Timely(doc)) /\ (Stands(doc)' <=> Stands(doc))
  BY DEF Inputs!Acquired, Timely, Stands, Inputs!LiveBars
<1> QED BY <1>1, <1>2, <1>3 DEF EvidenceInv, Inputs!EvidenceAssumption

LEMMA ReadManifestInputsStep ==
  ASSUME EvidenceInv, NEW b \in Builder, Inputs!ReadManifestInputs(b) PROVE EvidenceInv'
<1>1. PICK doc \in Inputs!Docs :
        /\ Inputs!DocHolds(doc)
        /\ builder' = [builder EXCEPT ![b].pc = "manifest", ![b].doc = doc]
  BY DEF Inputs!ReadManifestInputs
<1>2. doc \in AllDocs /\ Timely(doc)
  <2>1. doc \in [quotes : (SUBSET quotes) \ {{}}, bars : SUBSET Inputs!LiveBars, as_of : 0 .. clock,
                rich : BOOLEAN]
    BY DEF Inputs!Docs
  <2>2. /\ Inputs!LiveBars \subseteq BarUid /\ quotes \subseteq AllQuotes
        /\ 0 .. clock \subseteq 0 .. MaxTime
    BY DEF EvidenceInv, Shape, Inputs!LiveBars, Inputs!EvidenceAssumption
  <2>3. doc \in AllDocs
    BY <2>1, <2>2 DEF AllDocs
  <2>4. Timely(doc)
    BY <1>1, <2>1 DEF Inputs!DocHolds, Timely
  <2> QED BY <2>3, <2>4
<1>3. Shape'
  <2>1. builder[b] \in Builders
    BY DEF EvidenceInv, Shape
  <2>2. [builder[b] EXCEPT !.pc = "manifest", !.doc = doc] \in Builders
    BY <1>2, <2>1 DEF Builders
  <2>3. builder' = [builder EXCEPT ![b] = [builder[b] EXCEPT !.pc = "manifest", !.doc = doc]]
    BY <1>1 DEF EvidenceInv, Shape
  <2>4. builder' \in [Builder -> Builders]
    BY <2>2, <2>3 DEF EvidenceInv, Shape
  <2> QED BY <2>4 DEF EvidenceInv, Shape, Inputs!ReadManifestInputs, Inputs!Acquired, Inputs!Jobs
<1>4. \A c \in Builder : BuilderReads(c)'
  BY <1>1, <1>2, Reads DEF EvidenceInv, Shape, Builders, BuilderReads, Inputs!ReadManifestInputs,
        Inputs!Acquired
<1>5. \A m \in manifests' : Timely(m)' /\ Stands(m)'
  BY Reads DEF EvidenceInv, Inputs!ReadManifestInputs
<1> QED BY <1>3, <1>4, <1>5, Reads DEF EvidenceInv, Inputs!ReadManifestInputs

LEMMA InsertManifestStep ==
  ASSUME EvidenceInv, NEW b \in Builder, Inputs!InsertManifest(b) PROVE EvidenceInv'
<1> DEFINE doc == builder[b].doc
<1>1. doc \in AllDocs /\ Timely(doc) /\ Inputs!IdleBuilder \in Builders
  BY DEF EvidenceInv, Shape, Builders, BuilderReads, Inputs!InsertManifest, Inputs!IdleBuilder,
        Inputs!NoDoc, AllDocs
<1>2. manifests \subseteq manifests' /\ manifests' \subseteq manifests \cup {doc}
  BY DEF Inputs!InsertManifest
<1>3. Inputs!DocHolds(doc) => Stands(doc)
  BY DEF Inputs!DocHolds, Stands
<1>4. Shape'
  <2>1. snapshots' \subseteq [doc : manifests', capture : reports', status : {"DRAFT", "SEALED"}]
    BY <1>2 DEF EvidenceInv, Shape, Inputs!InsertManifest, Inputs!Acquired
  <2> QED BY <1>1, <1>2, <2>1 DEF EvidenceInv, Shape, Inputs!InsertManifest, Inputs!Acquired,
       Inputs!Jobs
<1>5. \A m \in manifests' : Timely(m)' /\ Stands(m)'
  BY <1>1, <1>2, <1>3, Reads DEF EvidenceInv, Inputs!InsertManifest
<1>6. \A c \in Builder : BuilderReads(c)'
  BY <1>2, Reads DEF EvidenceInv, Shape, BuilderReads, Inputs!InsertManifest, Inputs!IdleBuilder,
        Inputs!Acquired
<1> QED BY <1>4, <1>5, <1>6, Reads DEF EvidenceInv, Inputs!InsertManifest

LEMMA CaptureSnapshotStep ==
  ASSUME EvidenceInv, NEW b \in Builder, Inputs!CaptureSnapshot(b) PROVE EvidenceInv'
<1>1. PICK doc \in manifests :
        /\ Inputs!Newest(doc.as_of).ok
        /\ builder' = [builder EXCEPT ![b] = [pc |-> "snapshot", doc |-> doc,
                                              capture |-> Inputs!Newest(doc.as_of)]]
  BY DEF Inputs!CaptureSnapshot
<1>2. doc \in AllDocs /\ doc.as_of \in Nat
  BY DEF EvidenceInv, Shape, Timely
<1>3. Inputs!Newest(doc.as_of) \in reports /\ ValidFor(Inputs!Newest(doc.as_of), doc)
  BY <1>1, <1>2, NewestValid DEF EvidenceInv
<1> HIDE DEF Inputs!Newest
<1>4. Shape'
  BY <1>1, <1>2, <1>3 DEF EvidenceInv, Shape, Inputs!CaptureSnapshot, Inputs!Acquired, Inputs!Jobs,
        Builders
<1>5. \A c \in Builder : BuilderReads(c)'
  BY <1>1, <1>3, Reads DEF EvidenceInv, Shape, BuilderReads, Inputs!CaptureSnapshot, Inputs!Acquired
<1>6. \A m \in manifests' : Timely(m)' /\ Stands(m)'
  BY Reads DEF EvidenceInv, Inputs!CaptureSnapshot
<1> QED BY <1>4, <1>5, <1>6, Reads DEF EvidenceInv, Inputs!CaptureSnapshot

LEMMA InsertSnapshotStep ==
  ASSUME EvidenceInv, NEW b \in Builder, Inputs!InsertSnapshot(b) PROVE EvidenceInv'
<1> DEFINE new == [doc |-> builder[b].doc, capture |-> builder[b].capture, status |-> "DRAFT"]
<1>1. /\ new \in [doc : manifests, capture : reports, status : {"DRAFT", "SEALED"}]
      /\ ValidFor(new.capture, new.doc) /\ Inputs!IdleBuilder \in Builders
  BY DEF EvidenceInv, Shape, BuilderReads, Inputs!InsertSnapshot, Inputs!IdleBuilder, Builders,
        Inputs!NoDoc, AllDocs
<1>2. snapshots' \subseteq snapshots \cup {new}
  BY DEF Inputs!InsertSnapshot
<1>3. Shape'
  BY <1>1, <1>2 DEF EvidenceInv, Shape, Inputs!InsertSnapshot, Inputs!Acquired, Inputs!Jobs
<1>4. \A s \in snapshots' : ValidFor(s.capture, s.doc)
  BY <1>1, <1>2 DEF EvidenceInv
<1>5. \A c \in Builder : BuilderReads(c)'
  BY Reads DEF EvidenceInv, Shape, BuilderReads, Inputs!InsertSnapshot, Inputs!IdleBuilder,
        Inputs!Acquired
<1>6. \A m \in manifests' : Timely(m)' /\ Stands(m)'
  BY Reads DEF EvidenceInv, Inputs!InsertSnapshot
<1> QED BY <1>3, <1>4, <1>5, <1>6, Reads DEF EvidenceInv, Inputs!InsertSnapshot, ValidFor

LEMMA EvidenceSealStep == ASSUME EvidenceInv, Inputs!Seal PROVE EvidenceInv'
<1>1. PICK s \in snapshots : snapshots' = (snapshots \ {s}) \cup {[s EXCEPT !.status = "SEALED"]}
  BY DEF Inputs!Seal
<1>2. [s EXCEPT !.status = "SEALED"] = [doc |-> s.doc, capture |-> s.capture, status |-> "SEALED"]
  BY DEF EvidenceInv, Shape
<1>3. Shape'
  BY <1>1, <1>2 DEF EvidenceInv, Shape, Inputs!Seal, Inputs!Acquired, Inputs!Rest
<1>4. \A x \in snapshots' : ValidFor(x.capture, x.doc)'
  BY <1>1, <1>2 DEF EvidenceInv, ValidFor
<1>5. \A c \in Builder : BuilderReads(c)'
  BY Reads DEF EvidenceInv, BuilderReads, Inputs!Seal, Inputs!Acquired, Inputs!Rest, Inputs!Jobs
<1>6. \A m \in manifests' : Timely(m)' /\ Stands(m)'
  BY Reads DEF EvidenceInv, Inputs!Seal, Inputs!Rest, Inputs!Jobs
<1> QED BY <1>3, <1>4, <1>5, <1>6, Reads DEF EvidenceInv, Inputs!Seal, Inputs!Rest, Inputs!Jobs

-----------------------------------------------------------------------------
(***************************************************************************)
(* The jobs: a row goes only while the catalog is the one of the plan, and *)
(* what that catalog names is protected.                                   *)
(***************************************************************************)
\* A job that plans, or steps back, deletes nothing.
LEMMA JobMoves ==
  ASSUME EvidenceInv, UNCHANGED <<Inputs!Stored, quotes, bar>>, JobsProtect', quoteJob' \in QuoteJobs,
         barJob' \in BarJobs
  PROVE EvidenceInv'
<1>1. Shape'
  BY DEF EvidenceInv, Shape, Inputs!Stored
<1>2. \A m \in manifests' : Timely(m)' /\ Stands(m)'
  BY DEF EvidenceInv, Inputs!Stored, Timely, Stands, Inputs!LiveBars
<1>3. \A b \in Builder : BuilderReads(b)'
  BY DEF EvidenceInv, Inputs!Stored, BuilderReads, Timely
<1>4. Inputs!CorrectionHistoryKept' /\ Inputs!UsedQuotesKept'
  BY DEF EvidenceInv, Inputs!Stored, Inputs!CorrectionHistoryKept, Inputs!UsedQuotesKept,
        Inputs!Versions
<1> QED BY <1>1, <1>2, <1>3, <1>4 DEF EvidenceInv, Inputs!EvidenceAssumption, Inputs!Stored

LEMMA NoJobs == Inputs!NoJob \in QuoteJobs /\ Inputs!NoJob \in BarJobs /\ Inputs!NoJob.pc = "idle"
  BY DEF Inputs!NoJob, QuoteJobs, BarJobs

LEMMA PlanQuoteRetentionStep == ASSUME EvidenceInv, Inputs!PlanQuoteRetention PROVE EvidenceInv'
<1>1. PICK cutoff \in 0 .. clock - 1 :
        quoteJob' = IF Inputs!ManifestsReadable
                    THEN [Inputs!NoJob EXCEPT !.pc = "planned", !.cutoff = cutoff,
                            !.plan = Inputs!QuoteCandidates(cutoff, Inputs!ManifestLineages),
                            !.protected = Inputs!ManifestLineages, !.catalog = manifests]
                    ELSE [Inputs!NoJob EXCEPT !.pc = "refused"]
  BY DEF Inputs!PlanQuoteRetention
<1>2. /\ cutoff \in 0 .. MaxTime
      /\ Inputs!QuoteCandidates(cutoff, Inputs!ManifestLineages) \subseteq AllQuotes
  BY DEF EvidenceInv, Shape, Inputs!EvidenceAssumption, Inputs!QuoteCandidates
<1>3. Inputs!ManifestLineages \subseteq Lineage /\ manifests \subseteq AllDocs
  BY Protects DEF EvidenceInv, Shape
<1> HIDE DEF Inputs!ManifestLineages, Inputs!ManifestsReadable
<1>4. quoteJob' \in QuoteJobs
  BY <1>1, <1>2, <1>3 DEF QuoteJobs, Inputs!NoJob
<1>5. quoteJob'.pc \in {"planned", "refreshed"} =>
        quoteJob'.catalog = manifests /\ quoteJob'.protected = Inputs!ManifestLineages
  BY <1>1 DEF Inputs!NoJob
<1>6. JobsProtect'
  BY <1>5, Protects DEF EvidenceInv, JobsProtect, Inputs!PlanQuoteRetention
<1> QED BY <1>4, <1>6, JobMoves DEF EvidenceInv, Shape, Inputs!PlanQuoteRetention

LEMMA RefreshQuotePlanStep == ASSUME EvidenceInv, Inputs!RefreshQuotePlan PROVE EvidenceInv'
<1>1. quoteJob' \in QuoteJobs
  BY NoJobs DEF EvidenceInv, Shape, Inputs!RefreshQuotePlan, QuoteJobs
<1>2. quoteJob'.pc \in {"planned", "refreshed"} =>
        /\ quoteJob'.catalog = quoteJob.catalog /\ quoteJob'.protected = quoteJob.protected
        /\ quoteJob.pc = "planned"
  BY NoJobs DEF EvidenceInv, Shape, Inputs!RefreshQuotePlan, QuoteJobs
<1>3. JobsProtect'
  BY <1>2 DEF EvidenceInv, JobsProtect, Inputs!RefreshQuotePlan
<1> QED BY <1>1, <1>3, JobMoves DEF EvidenceInv, Shape, Inputs!RefreshQuotePlan

LEMMA DeleteQuotesStep == ASSUME EvidenceInv, Inputs!DeleteQuotes PROVE EvidenceInv'
<1>1. CASE quotes' = quotes
  <2>1. JobsProtect'
    BY NoJobs DEF EvidenceInv, JobsProtect, Inputs!DeleteQuotes
  <2> QED BY <1>1, <2>1, NoJobs, JobMoves DEF EvidenceInv, Shape, Inputs!DeleteQuotes
<1>2. CASE /\ Inputs!QuotePlanStands /\ quotes' = quotes \ quoteJob.plan
  <2>1. \A q \in quoteJob.plan : /\ q \in quotes /\ Inputs!Versions(q[1]) = {q}
                                 /\ q[1] \notin held \cup quoteJob.protected
    BY <1>2 DEF Inputs!QuotePlanStands, Inputs!QuoteCandidates
  <2>2. \A m \in manifests : \A q \in m.quotes : q[1] \in quoteJob.protected
    BY <1>2 DEF EvidenceInv, JobsProtect, Inputs!DeleteQuotes, Inputs!QuotePlanStands
  <2>3. \A m \in manifests : Timely(m)' /\ Stands(m)'
    BY <1>2, <2>1, <2>2 DEF EvidenceInv, Inputs!DeleteQuotes, Inputs!Stored, Timely, Stands,
          Inputs!LiveBars
  <2>4. \A q \in quotes' : Inputs!Versions(q[1])' = Inputs!Versions(q[1])
    BY <1>2, <2>1 DEF Inputs!Versions
  <2>5. Inputs!CorrectionHistoryKept'
    BY <1>2, <2>4 DEF EvidenceInv, Inputs!CorrectionHistoryKept
  <2>6. \A l \in held : Inputs!Versions(l)' = Inputs!Versions(l)
    BY <1>2, <2>1 DEF Inputs!Versions
  <2>7. Inputs!UsedQuotesKept'
    BY <2>6 DEF EvidenceInv, Inputs!UsedQuotesKept, Inputs!DeleteQuotes, Inputs!Stored
  <2>8. Shape'
    BY <1>2, NoJobs DEF EvidenceInv, Shape, Inputs!DeleteQuotes, Inputs!Stored
  <2>9. \A b \in Builder : BuilderReads(b)'
    BY DEF EvidenceInv, Inputs!DeleteQuotes, Inputs!Stored, BuilderReads, Timely
  <2>10. JobsProtect'
    BY NoJobs DEF EvidenceInv, JobsProtect, Inputs!DeleteQuotes
  <2> QED BY <2>3, <2>5, <2>7, <2>8, <2>9, <2>10 DEF EvidenceInv, Inputs!EvidenceAssumption,
       Inputs!DeleteQuotes, Inputs!Stored
<1> QED BY <1>1, <1>2 DEF Inputs!DeleteQuotes

LEMMA RefusalSeenStep == ASSUME EvidenceInv, Inputs!RefusalSeen PROVE EvidenceInv'
<1>1. JobsProtect'
  BY NoJobs DEF EvidenceInv, JobsProtect, Inputs!RefusalSeen
<1> QED BY <1>1, NoJobs, JobMoves DEF EvidenceInv, Shape, Inputs!RefusalSeen

LEMMA PlanBarRetentionStep == ASSUME EvidenceInv, Inputs!PlanBarRetention PROVE EvidenceInv'
<1>1. PICK cutoff \in 0 .. clock - 1 :
        barJob' = [Inputs!NoJob EXCEPT !.pc = "planned", !.cutoff = cutoff,
                     !.plan = Inputs!BarCandidates(cutoff, Inputs!ManifestBars),
                     !.protected = Inputs!ManifestBars, !.catalog = manifests]
  BY DEF Inputs!PlanBarRetention
<1>2. cutoff \in 0 .. MaxTime /\ Inputs!BarCandidates(cutoff, Inputs!ManifestBars) \subseteq BarUid
  BY DEF EvidenceInv, Shape, Inputs!EvidenceAssumption, Inputs!BarCandidates, Inputs!LiveBars
<1>3. Inputs!ManifestBars \subseteq BarUid /\ manifests \subseteq AllDocs
  BY Protects DEF EvidenceInv, Shape
<1> HIDE DEF Inputs!ManifestBars
<1>4. barJob' \in BarJobs
  BY <1>1, <1>2, <1>3 DEF BarJobs, Inputs!NoJob
<1>5. barJob'.catalog = manifests /\ barJob'.protected = Inputs!ManifestBars
  BY <1>1 DEF Inputs!NoJob
<1>6. JobsProtect'
  BY <1>5, Protects DEF EvidenceInv, JobsProtect, Inputs!PlanBarRetention
<1> QED BY <1>4, <1>6, JobMoves DEF EvidenceInv, Shape, Inputs!PlanBarRetention

LEMMA RefreshBarPlanStep == ASSUME EvidenceInv, Inputs!RefreshBarPlan PROVE EvidenceInv'
<1>1. barJob' = Inputs!NoJob \/ barJob' = [barJob EXCEPT !.pc = "deleting"]
  BY DEF Inputs!RefreshBarPlan
<1>2. barJob' \in BarJobs
  BY <1>1, NoJobs DEF EvidenceInv, Shape, BarJobs
<1>3. barJob'.pc \in {"planned", "deleting"} =>
        /\ barJob'.catalog = barJob.catalog /\ barJob'.protected = barJob.protected
        /\ barJob.pc = "planned"
  BY <1>1, NoJobs DEF EvidenceInv, Shape, Inputs!RefreshBarPlan, BarJobs
<1>4. JobsProtect'
  BY <1>3 DEF EvidenceInv, JobsProtect, Inputs!RefreshBarPlan
<1> QED BY <1>2, <1>4, JobMoves DEF EvidenceInv, Shape, Inputs!RefreshBarPlan

LEMMA DeleteBarBatchStep == ASSUME EvidenceInv, Inputs!DeleteBarBatch PROVE EvidenceInv'
<1>1. CASE manifests # barJob.catalog
  <2>1. JobsProtect' /\ barJob' = Inputs!NoJob
    BY <1>1, NoJobs DEF EvidenceInv, JobsProtect, Inputs!DeleteBarBatch
  <2> QED BY <1>1, <2>1, NoJobs, JobMoves DEF EvidenceInv, Shape, Inputs!DeleteBarBatch
<1>2. CASE manifests = barJob.catalog
  <2>1. PICK s \in Inputs!BatchesOf(Inputs!BarCandidates(barJob.cutoff, barJob.protected)) :
          /\ bar' = [b \in BarUid |-> IF b \in s THEN Inputs!Gone ELSE bar[b]]
          /\ barJob' = IF s = {} THEN Inputs!NoJob
                       ELSE [barJob EXCEPT !.deleted = @ + Cardinality(s)]
    BY <1>2, InputsCount DEF Inputs!DeleteBarBatch
  <2>2. s \subseteq Inputs!LiveBars \ barJob.protected /\ s \subseteq BarUid
    BY DEF Inputs!BatchesOf, Inputs!BarCandidates, Inputs!LiveBars
  <2>3. Cardinality(s) \in Nat
    BY <2>2, InputsCount, FS_Subset, FS_CardinalityType
       DEF EvidenceInv, Inputs!EvidenceAssumption
  <2>4. barJob' \in BarJobs
    BY <2>1, <2>3, NoJobs DEF EvidenceInv, Shape, BarJobs
  <2>5. Inputs!LiveBars' = Inputs!LiveBars \ s
    BY <2>1, <2>2 DEF Inputs!LiveBars, Inputs!Gone
  <2>6. \A m \in manifests : m.bars \subseteq barJob.protected
    BY <1>2 DEF EvidenceInv, JobsProtect, Inputs!DeleteBarBatch
  <2>7. \A m \in manifests : Timely(m)' /\ Stands(m)'
    BY <2>2, <2>5, <2>6 DEF EvidenceInv, Inputs!DeleteBarBatch, Inputs!Stored, Timely, Stands
  <2>8. Shape'
    <3>1. bar' \in [BarUid -> {Inputs!Never, Inputs!Gone} \cup 0 .. MaxTime]
      BY <2>1 DEF EvidenceInv, Shape
    <3> QED BY <2>4, <3>1 DEF EvidenceInv, Shape, Inputs!DeleteBarBatch, Inputs!Stored
  <2>9. \A b \in Builder : BuilderReads(b)'
    BY DEF EvidenceInv, Inputs!DeleteBarBatch, Inputs!Stored, BuilderReads, Timely
  <2>10. JobsProtect'
    <3>1. barJob'.pc \in {"planned", "deleting"} =>
            barJob'.catalog = barJob.catalog /\ barJob'.protected = barJob.protected
      BY <2>1, NoJobs DEF EvidenceInv, Shape, BarJobs
    <3> QED BY <3>1 DEF EvidenceInv, JobsProtect, Inputs!DeleteBarBatch
  <2>11. Inputs!CorrectionHistoryKept' /\ Inputs!UsedQuotesKept'
    BY DEF EvidenceInv, Inputs!DeleteBarBatch, Inputs!Stored, Inputs!CorrectionHistoryKept,
          Inputs!UsedQuotesKept, Inputs!Versions
  <2> QED BY <2>7, <2>8, <2>9, <2>10, <2>11 DEF EvidenceInv, Inputs!EvidenceAssumption,
       Inputs!DeleteBarBatch, Inputs!Stored
<1> QED BY <1>1, <1>2

LEMMA FinishBarRetentionStep == ASSUME EvidenceInv, Inputs!FinishBarRetention PROVE EvidenceInv'
<1>1. JobsProtect'
  BY NoJobs DEF EvidenceInv, JobsProtect, Inputs!FinishBarRetention
<1> QED BY <1>1, NoJobs, JobMoves DEF EvidenceInv, Shape, Inputs!FinishBarRetention

-----------------------------------------------------------------------------
(***************************************************************************)
(* The inductive invariant holds in every state.                           *)
(***************************************************************************)
THEOREM EvidenceInvariance == Inputs!EvidenceAssumption /\ Inputs!Spec => []EvidenceInv
<1>1. EvidenceInv /\ [Inputs!Next]_(Inputs!vars) => EvidenceInv'
  <2> SUFFICES ASSUME EvidenceInv, [Inputs!Next]_(Inputs!vars) PROVE EvidenceInv'
    OBVIOUS
  <2>1. CASE UNCHANGED Inputs!vars
    <3>1. EvidenceInv' <=> EvidenceInv
      BY <2>1 DEF Inputs!vars, EvidenceInv, Shape, Timely, Stands, Inputs!LiveBars, BuilderReads,
         JobsProtect, Inputs!CorrectionHistoryKept, Inputs!UsedQuotesKept, Inputs!Versions,
         Inputs!EvidenceAssumption
    <3> QED BY <3>1
  <2>2. ASSUME NEW l \in Lineage,
               Inputs!IngestQuote(l) \/ Inputs!CorrectQuote(l) \/ Inputs!HoldLineage(l)
        PROVE EvidenceInv'
    BY <2>2, IngestQuoteStep, CorrectQuoteStep, HoldLineageStep
  <2>3. ASSUME NEW b \in Builder, \/ Inputs!ReadManifestInputs(b) \/ Inputs!InsertManifest(b)
                                  \/ Inputs!CaptureSnapshot(b) \/ Inputs!InsertSnapshot(b)
        PROVE EvidenceInv'
    BY <2>3, ReadManifestInputsStep, InsertManifestStep, CaptureSnapshotStep, InsertSnapshotStep
  <2>4. CASE Inputs!Tick \/ Inputs!Seal
    BY <2>4, EvidenceTickStep, EvidenceSealStep
  <2>5. CASE \/ Inputs!PlanQuoteRetention \/ Inputs!RefreshQuotePlan
             \/ Inputs!DeleteQuotes \/ Inputs!RefusalSeen
    BY <2>5, PlanQuoteRetentionStep, RefreshQuotePlanStep, DeleteQuotesStep, RefusalSeenStep
  <2>6. CASE \/ Inputs!PlanBarRetention \/ Inputs!RefreshBarPlan
             \/ Inputs!DeleteBarBatch \/ Inputs!FinishBarRetention
    BY <2>6, PlanBarRetentionStep, RefreshBarPlanStep, DeleteBarBatchStep, FinishBarRetentionStep
  <2>7. ASSUME NEW q \in quotes, Inputs!RecordDetail(q) PROVE EvidenceInv'
    BY <2>7, RecordDetailStep
  <2>8. ASSUME NEW b \in BarUid, NEW t \in 0 .. clock, Inputs!RecordBar(b, t) PROVE EvidenceInv'
    BY <2>8, RecordBarStep
  <2>9. ASSUME NEW ok \in BOOLEAN, Inputs!RecordHealth(ok) PROVE EvidenceInv'
    BY <2>9, RecordHealthStep
  <2> QED BY <2>1, <2>2, <2>3, <2>4, <2>5, <2>6, <2>7, <2>8, <2>9 DEF Inputs!Next
<1> QED BY <1>1, InitInvariant, PTL DEF Inputs!Spec

(***************************************************************************)
(* Every table, builder and job has its shape; a manifest is not empty.    *)
(***************************************************************************)
THEOREM TypeCorrect == Inputs!EvidenceAssumption /\ Inputs!Spec => []Inputs!TypeOK
<1>1. EvidenceInv => Inputs!TypeOK
  <2> SUFFICES ASSUME EvidenceInv PROVE Inputs!TypeOK
    OBVIOUS
  <2>1. \A m \in manifests : m.quotes # {} /\ m.as_of <= clock
    BY DEF EvidenceInv, Shape, Timely
  <2>2. \A s \in snapshots : s.doc \in manifests /\ s.status \in {"DRAFT", "SEALED"}
    BY DEF EvidenceInv, Shape
  <2>3. \A b \in Builder : builder[b].pc \in {"idle", "manifest", "snapshot"}
    BY DEF EvidenceInv, Shape, Builders
  <2>4. /\ quoteJob.pc \in {"idle", "planned", "refreshed", "refused"}
        /\ barJob.pc \in {"idle", "planned", "deleting"}
    BY DEF EvidenceInv, Shape, QuoteJobs, BarJobs
  <2> QED BY <2>1, <2>2, <2>3, <2>4 DEF Inputs!TypeOK, EvidenceInv, Shape, AllQuotes
<1> QED BY <1>1, EvidenceInvariance, PTL

(***************************************************************************)
(* The quotes and bars of a manifest are never deleted, however the reads  *)
(* and commands of the builders and of the two jobs interleave.            *)
(***************************************************************************)
THEOREM EvidenceKept == Inputs!EvidenceAssumption /\ Inputs!Spec => []Inputs!EvidenceStands
<1>1. EvidenceInv => Inputs!EvidenceStands
  BY DEF EvidenceInv, Inputs!EvidenceStands, Stands
<1> QED BY <1>1, EvidenceInvariance, PTL

(***************************************************************************)
(* A corrected lineage keeps its whole history, and a quote that a fact or *)
(* a quality issue rests on stays (_quote_candidates).                     *)
(***************************************************************************)
THEOREM HistoryKept == Inputs!EvidenceAssumption /\ Inputs!Spec => []Inputs!LineagesKept
<1>1. EvidenceInv => Inputs!LineagesKept
  BY DEF EvidenceInv, Inputs!LineagesKept
<1> QED BY <1>1, EvidenceInvariance, PTL

(***************************************************************************)
(* A snapshot rests on a report that was healthy and valid at the as-of    *)
(* time of its manifest, and on inputs received by then.                   *)
(***************************************************************************)
THEOREM SnapshotsRest == Inputs!EvidenceAssumption /\ Inputs!Spec => []Inputs!SnapshotsSound
<1>1. EvidenceInv => Inputs!SnapshotsSound
  BY DEF EvidenceInv, Shape, Inputs!SnapshotsSound, ValidFor, Timely
<1> QED BY <1>1, EvidenceInvariance, PTL

(***************************************************************************)
(* Together: what a manifest or a snapshot refers to is there and was      *)
(* sound when it was taken, whatever retention deletes between the reads   *)
(* of the builder and its commands.                                        *)
(***************************************************************************)
THEOREM EvidenceIsSound == Inputs!EvidenceAssumption /\ Inputs!Spec => []Inputs!EvidenceSound
BY TypeCorrect, EvidenceKept, SnapshotsRest, PTL DEF Inputs!EvidenceSound
-----------------------------------------------------------------------------
(***************************************************************************)
(* The parts together (AnalysisParts): a behaviour of the composition is   *)
(* one of its component, so that what was proved of each holds here.       *)
(***************************************************************************)
\* Runs and snapshots of a market day move alone, or not at all.
LEMMA AnalysisIsMetrics ==
  AnalysisSpec => []~(part = "metrics") \/ ([](part = "metrics") /\ Spec)
<1> DEFINE E == part = "metrics"
<1>1. AnalysisInit /\ E => Init
  BY DEF AnalysisInit
<1>2. [AnalysisNext]_<<part, vars, evidenceVars>> => (E' <=> E)
  BY DEF AnalysisNext
<1>3. E /\ [AnalysisNext]_<<part, vars, evidenceVars>> => [Next]_vars
  BY DEF AnalysisNext, vars
<1> HIDE DEF E
<1>4. AnalysisSpec => []~E \/ ([]E /\ Spec)
  BY <1>1, <1>2, <1>3, PTL DEF AnalysisSpec, Spec
<1> QED BY <1>4 DEF E

\* So do the inputs and the jobs that delete them.
LEMMA AnalysisIsEvidence ==
  AnalysisSpec => []~(part = "evidence") \/ ([](part = "evidence") /\ Inputs!Spec)
<1> DEFINE E == part = "evidence"
<1>1. AnalysisInit /\ E => Inputs!Init
  BY DEF AnalysisInit
<1>2. [AnalysisNext]_<<part, vars, evidenceVars>> => (E' <=> E)
  BY DEF AnalysisNext
<1>3. E /\ [AnalysisNext]_<<part, vars, evidenceVars>> => [Inputs!Next]_(Inputs!vars)
  BY DEF AnalysisNext, evidenceVars, Inputs!vars
<1> HIDE DEF E
<1>4. AnalysisSpec => []~E \/ ([]E /\ Inputs!Spec)
  BY <1>1, <1>2, <1>3, PTL DEF AnalysisSpec, Inputs!Spec
<1> QED BY <1>4 DEF E

\* metric_runner.py:620-725, 1138-1176: a stored continuity and a return of two windows rest on
\* snapshots and on bars that are there.
THEOREM AnalysisMetricsRest == MetricsAssumption /\ AnalysisSpec => []MetricsRestOnEvidence
<1>1. /\ ~(part = "metrics") => MetricsRestOnEvidence
      /\ (part = "metrics") /\ ContinuityIsReal /\ WindowsAreWhole => MetricsRestOnEvidence
  BY DEF MetricsRestOnEvidence
<1> QED BY <1>1, AnalysisIsMetrics, ContinuityRests, WindowsWhole, PTL

\* market_metrics.py: less data never makes an input fitter, and breadth is not healthy and
\* collapsing at once.
THEOREM AnalysisMetricsMonotone == MetricsAssumption /\ AnalysisSpec => []MetricsAreMonotone
<1>1. /\ ~(part = "metrics") => MetricsAreMonotone
      /\ (part = "metrics") /\ DataLossNeverHelps /\ NeverBothHealthyAndCollapsing
           => MetricsAreMonotone
  BY DEF MetricsAreMonotone
<1> QED BY <1>1, AnalysisIsMetrics, LossIsNoGain, HealthyOrCollapsing, PTL

\* snapshots.py, maintenance.py: what a manifest or a snapshot refers to is there and was sound.
THEOREM AnalysisEvidenceSound == Inputs!EvidenceAssumption /\ AnalysisSpec => []EvidenceSound
<1>1. /\ ~(part = "evidence") => EvidenceSound
      /\ (part = "evidence") /\ Inputs!EvidenceSound => EvidenceSound
  BY DEF EvidenceSound
<1> QED BY <1>1, AnalysisIsEvidence, EvidenceIsSound, PTL

\* maintenance.py (_quote_candidates): corrections and used quotes stay.
THEOREM AnalysisLineagesKept == Inputs!EvidenceAssumption /\ AnalysisSpec => []LineagesKept
<1>1. /\ ~(part = "evidence") => LineagesKept
      /\ (part = "evidence") /\ Inputs!LineagesKept => LineagesKept
  BY DEF LineagesKept
<1> QED BY <1>1, AnalysisIsEvidence, HistoryKept, PTL
=============================================================================
