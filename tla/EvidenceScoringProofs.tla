------------------------ MODULE EvidenceScoringProofs ------------------------
(***************************************************************************)
(* Proofs about Scoring and EvidenceScoring, for any number of documents,  *)
(* signals and links: a doubt is a product of factors in whatever order,   *)
(* what that says of strengths and of the confidence, and what the         *)
(* union-find finds.  Induction is by least elements, because the library  *)
(* states it with operators.                                               *)
(***************************************************************************)
EXTENDS EvidenceScoring, FiniteSetTheorems, WellFoundedInduction, TLAPS

-----------------------------------------------------------------------------
(* Numbers                                                                  *)

Less == OpToRel(<, Nat)

LEMMA LessIsBelow == \A i, j \in Nat : i < j => <<i, j>> \in Less
  BY DEF Less, OpToRel

LEMMA LeastNumber ==
  ASSUME NEW S \in SUBSET Nat, S # {}
  PROVE  \E m \in S : \A n \in S : m <= n
<1>1. IsWellFoundedOn(Less, Nat)
  BY NatLessThanWellFounded DEF Less
<1>2. \E x \in S : \A y \in S : ~ (<<y, x>> \in Less)
  BY <1>1, WFMin
<1>3. \A i, j \in S : i \in Nat /\ j \in Nat /\ (~(j < i) => i <= j)
  OBVIOUS
<1> QED
  BY LessIsBelow, <1>2, <1>3, Zenon

(* Induction: a set with zero and the successors of its numbers has all.    *)
LEMMA Climb ==
  ASSUME NEW S \in SUBSET Nat, 0 \in S, \A n \in S : n + 1 \in S
  PROVE  S = Nat
<1> DEFINE T == Nat \ S
<1> SUFFICES ASSUME T # {} PROVE FALSE
  OBVIOUS
<1>1. T \in SUBSET Nat
  OBVIOUS
<1>2. PICK m \in T : \A n \in T : m <= n
  <2> HIDE DEF T
  <2> QED
    BY <1>1, LeastNumber
<1>3. m # 0 /\ m \in Nat /\ m \notin S
  BY <1>2
<1>4. m - 1 \in Nat /\ ~ m <= m - 1 /\ (m - 1) + 1 = m
  BY <1>3
<1>5. m - 1 \in S
  BY <1>2, <1>4
<1> QED
  BY <1>3, <1>4, <1>5

-----------------------------------------------------------------------------
(* Products over finite sets                                                *)

Pick(s) == CHOOSE i \in s : TRUE
UpTo(S, n) == {s \in SUBSET S : Cardinality(s) <= n}
Multiplied(g, h, s) ==
  IF s = {} THEN 1 ELSE g[Pick(s)] * h[s \ {Pick(s)}]

LEMMA SmallerSet ==
  ASSUME NEW S, IsFiniteSet(S), NEW s \in SUBSET S, NEW x \in s
  PROVE  /\ s \ {x} \in SUBSET S /\ Cardinality(s) \in Nat
         /\ Cardinality(s \ {x}) = Cardinality(s) - 1
         /\ Cardinality(s \ {x}) \in Nat
<1>1. IsFiniteSet(s)
  BY FS_Subset
<1>2. IsFiniteSet(s \ {x}) /\ Cardinality(s \ {x}) = Cardinality(s) - 1
  BY <1>1, FS_RemoveElement
<1> QED
  BY <1>1, <1>2, FS_CardinalityType

LEMMA PickIsIn == ASSUME NEW s, s # {} PROVE Pick(s) \in s
  BY DEF Pick

(* The recursive definition of a fold defines one.                          *)
LEMMA ProductExists ==
  ASSUME NEW S, IsFiniteSet(S), NEW g \in [S -> Nat]
  PROVE  \E h \in [SUBSET S -> Nat] :
           \A s \in SUBSET S : h[s] = Multiplied(g, h, s)
<1> DEFINE Good(n, h) == \A s \in UpTo(S, n) : h[s] = Multiplied(g, h, s)
           N == {n \in Nat : \E h \in [UpTo(S, n) -> Nat] : Good(n, h)}
<1>1. 0 \in N
  <2> DEFINE h == [s \in UpTo(S, 0) |-> 1]
  <2>1. ASSUME NEW s \in UpTo(S, 0) PROVE s = {}
    <3>1. IsFiniteSet(s) /\ Cardinality(s) <= 0
      BY FS_Subset DEF UpTo
    <3>2. Cardinality(s) = 0
      BY <3>1, FS_CardinalityType
    <3> QED
      BY <3>1, <3>2, FS_EmptySet
  <2>2. Good(0, h)
    BY <2>1 DEF Multiplied
  <2>3. h \in [UpTo(S, 0) -> Nat]
    OBVIOUS
  <2> QED
    BY <2>2, <2>3
<1>2. ASSUME NEW n \in N PROVE n + 1 \in N
  <2>1. PICK f \in [UpTo(S, n) -> Nat] : Good(n, f)
    OBVIOUS
  <2> DEFINE h == [s \in UpTo(S, n + 1) |-> Multiplied(g, f, s)]
  <2>2. ASSUME NEW s \in UpTo(S, n + 1), s # {}
        PROVE  Pick(s) \in S /\ s \ {Pick(s)} \in UpTo(S, n)
    <3>1. Pick(s) \in s /\ s \in SUBSET S /\ Cardinality(s) <= n + 1
      BY <2>2, PickIsIn DEF UpTo
    <3>2. /\ s \ {Pick(s)} \in SUBSET S /\ Cardinality(s) \in Nat
          /\ Cardinality(s \ {Pick(s)}) = Cardinality(s) - 1
      BY <3>1, SmallerSet
    <3> QED
      BY <3>1, <3>2 DEF UpTo
  <2>3. h \in [UpTo(S, n + 1) -> Nat]
    <3>1. ASSUME NEW s \in UpTo(S, n + 1) PROVE Multiplied(g, f, s) \in Nat
      <4>1. CASE s = {}
        BY <4>1 DEF Multiplied
      <4>2. CASE s # {}
        <5>1. g[Pick(s)] \in Nat /\ f[s \ {Pick(s)}] \in Nat
          BY <2>2, <4>2
        <5> QED
          BY <4>2, <5>1 DEF Multiplied
      <4> QED
        BY <4>1, <4>2
    <3> QED
      BY <3>1
  <2>4. \A s \in UpTo(S, n) : s \in UpTo(S, n + 1)
    <3> SUFFICES ASSUME NEW s \in UpTo(S, n) PROVE s \in UpTo(S, n + 1)
      OBVIOUS
    <3>1. IsFiniteSet(s) /\ s \in SUBSET S /\ Cardinality(s) <= n
      BY FS_Subset DEF UpTo
    <3>2. Cardinality(s) \in Nat
      BY <3>1, FS_CardinalityType
    <3> QED
      BY <3>1, <3>2 DEF UpTo
  <2>5. \A s \in UpTo(S, n) : h[s] = f[s]
    BY <2>1, <2>4
  <2>6. Good(n + 1, h)
    <3> SUFFICES ASSUME NEW s \in UpTo(S, n + 1) PROVE h[s] = Multiplied(g, h, s)
      OBVIOUS
    <3>1. h[s] = Multiplied(g, f, s)
      OBVIOUS
    <3> HIDE DEF h
    <3>2. CASE s = {}
      BY <3>1, <3>2 DEF Multiplied
    <3>3. CASE s # {}
      <4>1. h[s \ {Pick(s)}] = f[s \ {Pick(s)}]
        BY <2>2, <2>5, <3>3
      <4> QED
        BY <3>1, <3>3, <4>1 DEF Multiplied
    <3> QED
      BY <3>2, <3>3
  <2> HIDE DEF h, Good
  <2> QED
    BY <2>3, <2>6
<1>3. N = Nat
  <2> HIDE DEF Good
  <2>1. N \in SUBSET Nat
    OBVIOUS
  <2> HIDE DEF N
  <2> QED
    BY <1>1, <1>2, <2>1, Climb
<1>4. Cardinality(S) \in Nat /\ UpTo(S, Cardinality(S)) = SUBSET S
  BY FS_CardinalityType, FS_Subset DEF UpTo
<1> HIDE DEF Good
<1>5. PICK h \in [UpTo(S, Cardinality(S)) -> Nat] : Good(Cardinality(S), h)
  BY <1>3, <1>4
<1> QED
  BY <1>4, <1>5 DEF Good

(* Induction over the subsets of a finite set.                              *)
LEMMA SubsetClimb ==
  ASSUME NEW S, IsFiniteSet(S), NEW F \in SUBSET SUBSET S, {} \in F,
         \A s \in SUBSET S : s # {} /\ (\A x \in s : s \ {x} \in F) => s \in F
  PROVE  F = SUBSET S
<1> DEFINE N == {n \in Nat : UpTo(S, n) \subseteq F}
<1>1. \A s \in SUBSET S : IsFiniteSet(s) /\ Cardinality(s) \in Nat
  BY FS_Subset, FS_CardinalityType
<1>2. 0 \in N
  <2>1. ASSUME NEW s \in UpTo(S, 0) PROVE s = {}
    <3>1. IsFiniteSet(s) /\ Cardinality(s) = 0
      BY <1>1 DEF UpTo
    <3> QED
      BY <3>1, FS_EmptySet
  <2> QED
    BY <2>1
<1>3. ASSUME NEW n \in N PROVE n + 1 \in N
  <2> n \in Nat
    OBVIOUS
  <2> SUFFICES ASSUME NEW s \in UpTo(S, n + 1), s # {} PROVE s \in F
    <3>1. UpTo(S, n + 1) \subseteq F
      BY DEF UpTo
    <3> QED
      BY <3>1
  <2>1. s \in SUBSET S /\ Cardinality(s) <= n + 1
    BY DEF UpTo
  <2>2. ASSUME NEW x \in s PROVE s \ {x} \in UpTo(S, n)
    BY <2>1, SmallerSet DEF UpTo
  <2> QED
    BY <2>1, <2>2
<1>4. N \in SUBSET Nat
  OBVIOUS
<1>5. N = Nat
  <2> HIDE DEF N
  <2> QED
    BY <1>2, <1>3, <1>4, Climb
<1>6. ASSUME NEW s \in SUBSET S PROVE s \in F
  <2>1. Cardinality(s) \in N /\ s \in UpTo(S, Cardinality(s))
    BY <1>1, <1>5 DEF UpTo
  <2> QED
    BY <2>1
<1> QED
  BY <1>6

(* A product of naturals, whatever the order of its factors.                *)
IsProduct(h, g, S) ==
  /\ h \in [SUBSET S -> Nat] /\ h[{}] = 1
  /\ \A s \in SUBSET S : \A x \in s : h[s] = g[x] * h[s \ {x}]

LEMMA ProductsCommute ==
  ASSUME NEW S, IsFiniteSet(S), NEW g \in [S -> Nat],
         NEW h \in [SUBSET S -> Nat],
         \A s \in SUBSET S : h[s] = Multiplied(g, h, s)
  PROVE  IsProduct(h, g, S)
<1> DEFINE F == {s \in SUBSET S : \A x \in s : h[s] = g[x] * h[s \ {x}]}
<1>1. {} \in F /\ F \in SUBSET SUBSET S
  OBVIOUS
<1>2. ASSUME NEW s \in SUBSET S, \A x \in s : s \ {x} \in F, NEW x \in s
      PROVE  h[s] = g[x] * h[s \ {x}]
  <2> DEFINE y == Pick(s)
  <2>1. y \in s /\ h[s] = g[y] * h[s \ {y}]
    BY PickIsIn DEF Multiplied
  <2> HIDE DEF y
  <2>2. CASE x = y
    BY <2>1, <2>2
  <2>3. CASE x # y
    <3> DEFINE rest == s \ {x, y}
    <3>1. (s \ {y}) \ {x} = rest /\ (s \ {x}) \ {y} = rest /\ rest \in SUBSET S
      OBVIOUS
    <3>2. h[s \ {y}] = g[x] * h[rest]
      BY <1>2, <2>1, <2>3, <3>1
    <3>3. h[s \ {x}] = g[y] * h[rest]
      BY <1>2, <2>1, <2>3, <3>1
    <3> HIDE DEF rest
    <3>4. g[x] \in Nat /\ g[y] \in Nat /\ h[rest] \in Nat
      BY <2>1, <3>1
    <3>5. g[y] * (g[x] * h[rest]) = g[x] * (g[y] * h[rest])
      BY <3>4
    <3> QED
      BY <2>1, <3>2, <3>3, <3>5
  <2> QED
    BY <2>2, <2>3
<1> HIDE DEF F
<1>3. F = SUBSET S
  <2>1. \A s \in SUBSET S : s # {} /\ (\A x \in s : s \ {x} \in F) => s \in F
    BY <1>2 DEF F
  <2> QED
    BY <1>1, <2>1, SubsetClimb
<1>4. h[{}] = 1
  BY DEF Multiplied
<1> QED
  BY <1>3, <1>4 DEF IsProduct, F

LEMMA TimesIsMonotone ==
  \A a, b, c, d \in Nat : a <= b /\ c <= d => a * c <= b * d
<1> SUFFICES ASSUME NEW a \in Nat, NEW b \in Nat, NEW c \in Nat, NEW d \in Nat,
                    a <= b, c <= d
             PROVE  a * c <= b * d
  OBVIOUS
<1>1. PICK x \in Nat : b = a + x
  <2>1. b - a \in Nat /\ b = a + (b - a)
    OBVIOUS
  <2> QED
    BY <2>1
<1>2. PICK y \in Nat : d = c + y
  <2>1. d - c \in Nat /\ d = c + (d - c)
    OBVIOUS
  <2> QED
    BY <2>1
<1>3. b * d = a * c + (a * y + x * c + x * y)
  BY <1>1, <1>2
<1>4. a * y \in Nat /\ x * c \in Nat /\ x * y \in Nat /\ a * c \in Nat
  OBVIOUS
<1> QED
  BY <1>3, <1>4

(* Factors that are no larger give a product that is no larger.             *)
LEMMA ProductsCompare ==
  ASSUME NEW S, IsFiniteSet(S), NEW T,
         NEW f \in [S -> T], \A x, y \in S : f[x] = f[y] => x = y,
         {f[x] : x \in S} = T,
         NEW g \in [S -> Nat], NEW h, IsProduct(h, g, S),
         NEW e \in [T -> Nat], NEW k, IsProduct(k, e, T),
         \A x \in S : e[f[x]] <= g[x]
  PROVE  k[T] <= h[S]
<1> DEFINE Img(s) == {f[x] : x \in s}
           F == {s \in SUBSET S : k[Img(s)] <= h[s]}
<1>1. \A s \in SUBSET S : Img(s) \in SUBSET T
  OBVIOUS
<1>2. {} \in F
  <2>1. Img({}) = {} /\ k[{}] = 1 /\ h[{}] = 1
    BY DEF IsProduct
  <2> QED
    BY <2>1
<1>3. ASSUME NEW s \in SUBSET S, s # {}, \A x \in s : s \ {x} \in F PROVE s \in F
  <2>1. PICK x \in s : TRUE
    BY <1>3
  <2>2. Img(s) \ {f[x]} = Img(s \ {x}) /\ f[x] \in Img(s)
    BY <2>1
  <2>3. h[s] = g[x] * h[s \ {x}] /\ h[s \ {x}] \in Nat
    BY DEF IsProduct
  <2>4. /\ k[Img(s)] = e[f[x]] * k[Img(s \ {x})]
        /\ k[Img(s \ {x})] \in Nat
    <3> HIDE DEF Img
    <3>1. Img(s) \in SUBSET T /\ Img(s \ {x}) \in SUBSET T
      BY <1>1
    <3>2. \A t \in SUBSET T : \A y \in t : k[t] = e[y] * k[t \ {y}]
      BY DEF IsProduct
    <3>3. k[Img(s)] = e[f[x]] * k[Img(s) \ {f[x]}]
      BY <2>2, <3>1, <3>2
    <3>4. k[Img(s \ {x})] \in Nat
      BY <3>1 DEF IsProduct
    <3> QED
      BY <2>2, <3>3, <3>4
  <2>5. k[Img(s \ {x})] <= h[s \ {x}]
    BY <1>3
  <2>6. g[x] \in Nat /\ e[f[x]] \in Nat /\ e[f[x]] <= g[x]
    OBVIOUS
  <2> HIDE DEF Img
  <2>7. e[f[x]] * k[Img(s \ {x})] <= g[x] * h[s \ {x}]
    BY <2>3, <2>4, <2>5, <2>6, TimesIsMonotone
  <2> QED
    BY <2>3, <2>4, <2>7
<1>4. F = SUBSET S
  <2>1. F \in SUBSET SUBSET S
    OBVIOUS
  <2> HIDE DEF F
  <2> QED
    BY <1>2, <1>3, <2>1, SubsetClimb
<1> QED
  BY <1>4

(* Equal factors, on the same set, give equal products.                     *)
LEMMA ProductsAgree ==
  ASSUME NEW S, IsFiniteSet(S), NEW g, NEW e \in [S -> Nat], g = e,
         NEW h, IsProduct(h, g, S), NEW k, IsProduct(k, e, S)
  PROVE  h[S] = k[S]
<1> DEFINE F == {s \in SUBSET S : h[s] = k[s]}
<1>1. {} \in F /\ F \in SUBSET SUBSET S
  BY DEF IsProduct
<1>2. ASSUME NEW s \in SUBSET S, s # {}, \A x \in s : s \ {x} \in F PROVE s \in F
  <2>1. PICK x \in s : TRUE
    BY <1>2
  <2>2. h[s] = g[x] * h[s \ {x}] /\ k[s] = g[x] * k[s \ {x}]
    BY DEF IsProduct
  <2> QED
    BY <1>2, <2>2
<1>3. F = SUBSET S
  <2> HIDE DEF F
  <2> QED
    BY <1>1, <1>2, SubsetClimb
<1> QED
  BY <1>3

-----------------------------------------------------------------------------
(* Weights and strengths of some evidence                                   *)

(* What the evidence of a cluster is like.                                  *)
Fit(its) ==
  /\ IsFiniteSet(its) /\ Cardinality(its) <= Most
  /\ \A i \in its : i.quality \in 0..Scale /\ i.link \in Nat
  /\ \A i, j \in its : i.link = j.link => i = j

Factors(its, stance) == [i \in Of(its, stance) |-> Unit - Weighted(its, i)]

LEMMA OfIsFinite ==
  ASSUME NEW its, Fit(its), NEW stance
  PROVE  /\ IsFiniteSet(Of(its, stance)) /\ Of(its, stance) \in SUBSET its
         /\ Cardinality(Of(its, stance)) \in 0..Most
<1>1. Of(its, stance) \in SUBSET its
  BY DEF Of
<1>2. /\ IsFiniteSet(Of(its, stance))
      /\ Cardinality(Of(its, stance)) <= Cardinality(its)
      /\ Cardinality(Of(its, stance)) \in Nat /\ Cardinality(its) \in Nat
      /\ Cardinality(its) <= Most
  BY <1>1, FS_Subset, FS_CardinalityType DEF Fit
<1> QED
  BY <1>1, <1>2, ScoringAssumption

LEMMA WeightIsBounded ==
  ASSUME NEW its, Fit(its), NEW i \in its
  PROVE  /\ Weighted(its, i) \in {i.quality, 4 * i.quality}
         /\ i.quality \in Nat /\ i.quality <= Scale /\ Unit \in Nat
         /\ Unit - Weighted(its, i) \in Nat /\ Unit - Weighted(its, i) <= Unit
<1>1. i.quality \in Nat /\ i.quality <= Scale /\ Scale \in Nat
  BY ScoringAssumption DEF Fit
<1>2. Weighted(its, i) \in {i.quality, 4 * i.quality}
  BY DEF Weighted
<1> QED
  BY <1>1, <1>2 DEF Unit

LEMMA FactorsType ==
  ASSUME NEW its, Fit(its), NEW stance
  PROVE  Factors(its, stance) \in [Of(its, stance) -> Nat]
<1>1. \A i \in Of(its, stance) : Unit - Weighted(its, i) \in Nat
  BY WeightIsBounded DEF Of
<1> QED
  BY <1>1 DEF Factors

(* Doubt is the product of the factors, in whatever order.                  *)
LEMMA DoubtIsProduct ==
  ASSUME NEW its, Fit(its), NEW stance
  PROVE  \E h : /\ IsProduct(h, Factors(its, stance), Of(its, stance))
                /\ Doubt(its, stance) = h[Of(its, stance)]
<1> DEFINE S == Of(its, stance)
           g == Factors(its, stance)
           Fold(h) == [s \in SUBSET S |->
                         IF s = {} THEN 1
                         ELSE (Unit - Weighted(its, Pick(s))) * h[s \ {Pick(s)}]]
           iter == CHOOSE h : h = Fold(h)
<1>1. IsFiniteSet(S) /\ g \in [S -> Nat]
  BY OfIsFinite, FactorsType
<1>2. \A s \in SUBSET S : s # {} => Pick(s) \in S /\ g[Pick(s)] = Unit - Weighted(its, Pick(s))
  BY PickIsIn DEF Factors
<1>3. ASSUME NEW h PROVE \A s \in SUBSET S : Fold(h)[s] = Multiplied(g, h, s)
  BY <1>2 DEF Multiplied
<1>4. PICK k \in [SUBSET S -> Nat] : \A s \in SUBSET S : k[s] = Multiplied(g, k, s)
  <2> HIDE DEF S, g
  <2> QED
    BY <1>1, ProductExists
<1>5. k = Fold(k)
  <2>1. Fold(k) = [s \in SUBSET S |-> Fold(k)[s]]
    OBVIOUS
  <2>2. \A s \in SUBSET S : k[s] = Fold(k)[s]
    BY <1>3, <1>4
  <2> HIDE DEF Fold, S
  <2> QED
    BY <1>4, <2>1, <2>2
<1>6. iter = Fold(iter)
  <2> HIDE DEF Fold
  <2> QED
    BY <1>5
<1>7. Doubt(its, stance) = iter[S]
  BY DEF Doubt, MapThenFoldSet, Pick
<1>8. \A s \in SUBSET S : iter[s] = Multiplied(g, iter, s)
  <2> HIDE DEF iter
  <2>1. \A s \in SUBSET S : Fold(iter)[s] = Multiplied(g, iter, s)
    BY <1>3
  <2> HIDE DEF Fold
  <2> QED
    BY <1>6, <2>1
<1> HIDE DEF iter, g
<1>9. iter \in [SUBSET S -> Nat]
  <2> DEFINE F == {s \in SUBSET S : iter[s] \in Nat}
  <2>1. {} \in F /\ F \in SUBSET SUBSET S
    <3>1. iter[{}] = Multiplied(g, iter, {})
      BY <1>8
    <3>2. iter[{}] = 1
      BY <3>1 DEF Multiplied
    <3> QED
      BY <3>2
  <2>2. ASSUME NEW s \in SUBSET S, s # {}, \A x \in s : s \ {x} \in F PROVE s \in F
    <3>1. Pick(s) \in s
      BY <2>2, PickIsIn
    <3>2. iter[s] = g[Pick(s)] * iter[s \ {Pick(s)}]
      BY <1>8, <2>2 DEF Multiplied
    <3>3. g[Pick(s)] \in Nat /\ iter[s \ {Pick(s)}] \in Nat
      BY <1>1, <2>2, <3>1
    <3>4. iter[s] \in Nat
      BY <3>2, <3>3
    <3> QED
      BY <3>4
  <2>3. F = SUBSET S
    <3> HIDE DEF F, S
    <3> QED
      BY <1>1, <2>1, <2>2, SubsetClimb
  <2>4. iter = [s \in SUBSET S |-> iter[s]]
    <3>1. DOMAIN Fold(iter) = SUBSET S /\ Fold(iter) = [s \in SUBSET S |-> Fold(iter)[s]]
      OBVIOUS
    <3> HIDE DEF Fold
    <3> QED
      BY <1>6, <3>1
  <2> QED
    BY <2>3, <2>4
<1>10. IsProduct(iter, g, S)
  <2> HIDE DEF S
  <2> QED
    BY <1>1, <1>8, <1>9, ProductsCommute
<1> QED
  BY <1>7, <1>10 DEF g

LEMMA PowersAreNatural == \A n \in 0..Most : Unit ^ n \in Nat
<1>1. \A n \in 0..Most : n = 0 \/ n \in 1..Most
  BY ScoringAssumption
<1> QED
  BY <1>1, PowersAssumption

LEMMA NextPower ==
  ASSUME NEW n \in Nat, n + 1 <= Most
  PROVE  Unit ^ (n + 1) = Unit * Unit ^ n
<1>1. n + 1 \in 1..Most /\ (n + 1) - 1 = n
  BY ScoringAssumption
<1> QED
  BY <1>1, PowersAssumption

(* There is no more doubt than if nothing were known.                       *)
LEMMA DoubtIsBounded ==
  ASSUME NEW its, Fit(its), NEW stance
  PROVE  /\ Doubt(its, stance) \in Nat
         /\ Doubt(its, stance) <= Unit ^ Cardinality(Of(its, stance))
<1> DEFINE S == Of(its, stance)
           g == Factors(its, stance)
<1>1. /\ IsFiniteSet(S) /\ S \in SUBSET its /\ Cardinality(S) \in 0..Most
      /\ g \in [S -> Nat]
  BY OfIsFinite, FactorsType
<1>2. \A i \in S : g[i] <= Unit /\ Unit \in Nat
  BY <1>1, WeightIsBounded DEF Factors
<1> HIDE DEF S, g
<1>3. PICK h : IsProduct(h, g, S) /\ Doubt(its, stance) = h[S]
  BY DoubtIsProduct DEF S, g
<1> DEFINE F == {s \in SUBSET S : h[s] <= Unit ^ Cardinality(s)}
<1>4. \A s \in SUBSET S : IsFiniteSet(s) /\ Cardinality(s) \in 0..Most /\ h[s] \in Nat
  <2> SUFFICES ASSUME NEW s \in SUBSET S
               PROVE  IsFiniteSet(s) /\ Cardinality(s) \in 0..Most /\ h[s] \in Nat
    OBVIOUS
  <2>1. /\ IsFiniteSet(s) /\ Cardinality(s) <= Cardinality(S)
        /\ Cardinality(s) \in Nat
    BY <1>1, FS_Subset, FS_CardinalityType
  <2> QED
    BY <1>1, <1>3, <2>1, ScoringAssumption DEF IsProduct
<1>5. {} \in F
  <2>1. h[{}] = 1 /\ Cardinality({}) = 0
    BY <1>3, FS_EmptySet DEF IsProduct
  <2> QED
    BY <2>1, PowersAssumption
<1>6. ASSUME NEW s \in SUBSET S, s # {}, \A x \in s : s \ {x} \in F PROVE s \in F
  <2>1. PICK x \in s : TRUE
    BY <1>6
  <2> DEFINE rest == s \ {x}
             n == Cardinality(rest)
  <2>2. /\ rest \in F /\ rest \in SUBSET S /\ x \in S
        /\ n \in Nat /\ Cardinality(s) = n + 1 /\ n + 1 <= Most /\ h[rest] \in Nat
    BY <1>1, <1>4, <1>6, SmallerSet, ScoringAssumption
  <2>3. h[s] = g[x] * h[rest]
    BY <1>3 DEF IsProduct
  <2>4. h[rest] <= Unit ^ n
    BY <2>2
  <2>5. Unit ^ (n + 1) = Unit * Unit ^ n /\ Unit ^ n \in Nat
    <3> HIDE DEF n
    <3>1. n \in 0..Most
      BY <2>2, ScoringAssumption
    <3> QED
      BY <2>2, <3>1, NextPower, PowersAreNatural
  <2>6. g[x] \in Nat /\ g[x] <= Unit /\ Unit \in Nat
    BY <1>1, <1>2, <2>2
  <2> HIDE DEF rest, n
  <2>7. g[x] * h[rest] <= Unit * Unit ^ n
    BY <2>2, <2>4, <2>5, <2>6, TimesIsMonotone
  <2> QED
    BY <2>2, <2>3, <2>5, <2>7
<1>7. S \in F
  <2>1. F \in SUBSET SUBSET S
    OBVIOUS
  <2> HIDE DEF F
  <2>2. F = SUBSET S
    BY <1>1, <1>5, <1>6, <2>1, SubsetClimb
  <2> QED
    BY <2>2
<1> QED
  BY <1>3, <1>4, <1>7 DEF S

(* Evidence that weighs no less leaves no more doubt.                       *)
LEMMA WeightsLowerDoubt ==
  ASSUME NEW its, Fit(its), NEW alt, Fit(alt), NEW stance,
         NEW f \in Bijection(Of(its, stance), Of(alt, stance)),
         \A i \in Of(its, stance) : Weighted(its, i) <= Weighted(alt, f[i])
  PROVE  /\ Doubt(alt, stance) <= Doubt(its, stance)
         /\ Cardinality(Of(alt, stance)) = Cardinality(Of(its, stance))
<1> DEFINE S == Of(its, stance)
           T == Of(alt, stance)
           g == Factors(its, stance)
           e == Factors(alt, stance)
<1>1. /\ IsFiniteSet(S) /\ S \in SUBSET its /\ g \in [S -> Nat]
      /\ IsFiniteSet(T) /\ T \in SUBSET alt /\ e \in [T -> Nat]
  BY OfIsFinite, FactorsType
<1>2. /\ f \in [S -> T] /\ \A x, y \in S : f[x] = f[y] => x = y
      /\ {f[x] : x \in S} = T
  BY DEF Bijection, Injection, Surjection, IsInjective
<1>3. \A i \in S : e[f[i]] <= g[i]
  <2> SUFFICES ASSUME NEW i \in S PROVE e[f[i]] <= g[i]
    OBVIOUS
  <2>1. f[i] \in T /\ f[i] \in alt /\ i \in its
    BY <1>1, <1>2
  <2>2. e[f[i]] = Unit - Weighted(alt, f[i]) /\ g[i] = Unit - Weighted(its, i)
    BY <2>1 DEF Factors
  <2>3. Weighted(its, i) <= Weighted(alt, f[i])
    OBVIOUS
  <2>4. Weighted(its, i) \in Nat /\ Weighted(alt, f[i]) \in Nat /\ Unit \in Nat
    <3>1. /\ Weighted(its, i) \in {i.quality, 4 * i.quality} /\ i.quality \in Nat
          /\ Unit \in Nat
      BY <2>1, WeightIsBounded
    <3>2. /\ Weighted(alt, f[i]) \in {f[i].quality, 4 * f[i].quality}
          /\ f[i].quality \in Nat
      BY <2>1, WeightIsBounded
    <3> QED
      BY <3>1, <3>2
  <2> QED
    BY <2>2, <2>3, <2>4
<1> HIDE DEF S, T, g, e
<1>4. PICK h : IsProduct(h, g, S) /\ Doubt(its, stance) = h[S]
  BY DoubtIsProduct DEF S, g
<1>5. PICK k : IsProduct(k, e, T) /\ Doubt(alt, stance) = k[T]
  BY DoubtIsProduct DEF T, e
<1>6. k[T] <= h[S]
  BY <1>1, <1>2, <1>3, <1>4, <1>5, ProductsCompare
<1>7. Cardinality(T) = Cardinality(S)
  <2>1. ExistsBijection(S, T)
    BY DEF ExistsBijection, S, T
  <2> QED
    BY <1>1, <2>1, FS_Bijection
<1> QED
  BY <1>2, <1>4, <1>5, <1>6, <1>7 DEF S, T

LEMMA WeightsRaiseStrength ==
  ASSUME NEW its, Fit(its), NEW alt, Fit(alt), NEW stance,
         NEW f \in Bijection(Of(its, stance), Of(alt, stance)),
         \A i \in Of(its, stance) : Weighted(its, i) <= Weighted(alt, f[i])
  PROVE  Strength(its, stance) <= Strength(alt, stance)
<1> DEFINE n == Cardinality(Of(its, stance))
           rest == Unit ^ (Most - n)
           all == Unit ^ n
<1>1. n \in 0..Most /\ Most - n \in 0..Most
  BY OfIsFinite, ScoringAssumption
<1>2. rest \in Nat /\ all \in Nat
  BY <1>1, PowersAreNatural
<1>3. /\ Doubt(alt, stance) <= Doubt(its, stance)
      /\ Cardinality(Of(alt, stance)) = n
  BY WeightsLowerDoubt
<1>4. /\ Doubt(its, stance) \in Nat /\ Doubt(its, stance) <= all
      /\ Doubt(alt, stance) \in Nat
  BY DoubtIsBounded
<1>5. /\ Strength(its, stance) = (all - Doubt(its, stance)) * rest
      /\ Strength(alt, stance) = (all - Doubt(alt, stance)) * rest
  BY <1>3 DEF Strength
<1> HIDE DEF all, rest, n
<1>6. /\ all - Doubt(its, stance) \in Nat /\ all - Doubt(alt, stance) \in Nat
      /\ all - Doubt(its, stance) <= all - Doubt(alt, stance)
      /\ rest <= rest
  BY <1>2, <1>3, <1>4
<1>7. (all - Doubt(its, stance)) * rest <= (all - Doubt(alt, stance)) * rest
  BY <1>2, <1>6, TimesIsMonotone
<1> QED
  BY <1>5, <1>7

-----------------------------------------------------------------------------
(* One more piece of evidence                                               *)

LEMMA ProductOnPart ==
  ASSUME NEW S, NEW g, NEW h, IsProduct(h, g, S), NEW R \in SUBSET S
  PROVE  IsProduct([s \in SUBSET R |-> h[s]], [x \in R |-> g[x]], R)
<1> DEFINE k == [s \in SUBSET R |-> h[s]]
<1>1. k \in [SUBSET R -> Nat]
  <2>1. \A s \in SUBSET R : h[s] \in Nat
    BY DEF IsProduct
  <2> QED
    BY <2>1
<1>2. k[{}] = 1
  BY DEF IsProduct
<1>3. ASSUME NEW s \in SUBSET R, NEW x \in s
      PROVE  k[s] = [y \in R |-> g[y]][x] * k[s \ {x}]
  <2>1. \A t \in SUBSET S : \A y \in t : h[t] = g[y] * h[t \ {y}]
    BY DEF IsProduct
  <2>2. h[s] = g[x] * h[s \ {x}]
    BY <2>1
  <2> QED
    BY <2>2
<1> QED
  BY <1>1, <1>2, <1>3 DEF IsProduct

LEMMA PartsAgree ==
  ASSUME NEW S, NEW g \in [S -> Nat], NEW h, IsProduct(h, g, S),
         NEW T, NEW e \in [T -> Nat], NEW k, IsProduct(k, e, T),
         NEW R \in SUBSET (S \cap T), IsFiniteSet(R), \A x \in R : g[x] = e[x]
  PROVE  h[R] = k[R]
<1> DEFINE gR == [x \in R |-> g[x]]
           eR == [x \in R |-> e[x]]
           hR == [s \in SUBSET R |-> h[s]]
           kR == [s \in SUBSET R |-> k[s]]
<1>1. IsProduct(hR, gR, R) /\ IsProduct(kR, eR, R)
  <2>1. R \in SUBSET S /\ R \in SUBSET T
    OBVIOUS
  <2>2. IsProduct(hR, gR, R)
    BY <2>1, ProductOnPart
  <2>3. IsProduct(kR, eR, R)
    BY <2>1, ProductOnPart
  <2> QED
    BY <2>2, <2>3
<1>2. gR = eR /\ eR \in [R -> Nat] /\ hR[R] = h[R] /\ kR[R] = k[R]
  OBVIOUS
<1> HIDE DEF gR, eR, hR, kR
<1>3. hR[R] = kR[R]
  BY <1>1, <1>2, ProductsAgree
<1> QED
  BY <1>2, <1>3

LEMMA RestIsFit ==
  ASSUME NEW its, Fit(its), NEW i \in its
  PROVE  Fit(its \ {i})
<1>1. /\ IsFiniteSet(its \ {i}) /\ Cardinality(its \ {i}) = Cardinality(its) - 1
      /\ Cardinality(its) \in Nat /\ Cardinality(its) <= Most
  BY FS_RemoveElement, FS_CardinalityType DEF Fit
<1>2. Cardinality(its \ {i}) <= Most
  BY <1>1, ScoringAssumption
<1>3. \A a \in its : a.quality \in 0..Scale /\ a.link \in Nat
  BY DEF Fit
<1>4. \A a, b \in its : a.link = b.link => a = b
  BY DEF Fit
<1> QED
  BY <1>1, <1>2, <1>3, <1>4 DEF Fit

(* Evidence that leaves makes at most the next best of its group count in   *)
(* full, and only if it was the best itself.                                *)
LEMMA NextBestMovesUp ==
  ASSUME NEW its, Fit(its), NEW i \in its, NEW j \in its \ {i},
         Weighted(its \ {i}, j) # Weighted(its, j)
  PROVE  /\ i.stance = j.stance /\ i.group = j.group
         /\ Weighted(its, i) = 4 * i.quality /\ Weighted(its, j) = j.quality
         /\ Weighted(its \ {i}, j) = 4 * j.quality
         /\ j.quality <= i.quality
         /\ \A m \in Peers(its \ {i}, j) :
              j.quality > m.quality \/ (j.quality = m.quality /\ j.link <= m.link)
<1> DEFINE Beats(a, b) ==
             a.quality > b.quality \/ (a.quality = b.quality /\ a.link <= b.link)
<1>1. \A a \in its : a.quality \in Nat /\ a.link \in Nat
  BY ScoringAssumption DEF Fit
<1>2. /\ Peers(its \ {i}, j) \subseteq Peers(its, j)
      /\ Peers(its, j) \subseteq Peers(its \ {i}, j) \cup {i}
      /\ Peers(its, j) \subseteq its
  BY DEF Peers
<1>3. /\ \A m \in Peers(its \ {i}, j) : Beats(j, m)
      /\ ~ \A m \in Peers(its, j) : Beats(j, m)
  BY <1>2 DEF Weighted
<1>4. i \in Peers(its, j) /\ ~ Beats(j, i)
  BY <1>2, <1>3
<1>5. i.stance = j.stance /\ i.group = j.group /\ j.quality <= i.quality
  BY <1>1, <1>4 DEF Peers
<1>6. ASSUME NEW m \in Peers(its, i) PROVE Beats(i, m)
  <2>1. m \in its /\ m \in Peers(its, j)
    BY <1>5 DEF Peers
  <2>2. CASE m = i
    BY <1>1, <2>2
  <2>3. CASE m # i
    <3>1. Beats(j, m)
      BY <1>2, <1>3, <2>1, <2>3
    <3> QED
      BY <1>1, <1>4, <2>1, <3>1
  <2> QED
    BY <2>2, <2>3
<1>7. Weighted(its, i) = 4 * i.quality
  BY <1>6 DEF Weighted
<1>8. Weighted(its, j) = j.quality
  BY <1>3 DEF Weighted
<1>9. Weighted(its \ {i}, j) = 4 * j.quality
  BY <1>3 DEF Weighted
<1> QED
  BY <1>3, <1>5, <1>7, <1>8, <1>9

LEMMA OnlyOneMovesUp ==
  ASSUME NEW its, Fit(its), NEW i \in its, NEW j \in its \ {i}, NEW k \in its \ {i},
         Weighted(its \ {i}, j) # Weighted(its, j),
         Weighted(its \ {i}, k) # Weighted(its, k)
  PROVE  j = k
<1>1. j \in Peers(its \ {i}, k) /\ k \in Peers(its \ {i}, j)
  BY NextBestMovesUp DEF Peers
<1>2. /\ j.quality > k.quality \/ (j.quality = k.quality /\ j.link <= k.link)
      /\ k.quality > j.quality \/ (k.quality = j.quality /\ k.link <= j.link)
  <2>1. j.quality > k.quality \/ (j.quality = k.quality /\ j.link <= k.link)
    BY <1>1, NextBestMovesUp
  <2>2. k.quality > j.quality \/ (k.quality = j.quality /\ k.link <= j.link)
    BY <1>1, NextBestMovesUp
  <2> QED
    BY <2>1, <2>2
<1>3. /\ j.quality \in Nat /\ k.quality \in Nat /\ j.link \in Nat /\ k.link \in Nat
  BY ScoringAssumption DEF Fit
<1>4. j.link = k.link
  BY <1>2, <1>3
<1> QED
  BY <1>4 DEF Fit

(* Evidence of other stances is not disturbed.                              *)
LEMMA OtherDoubtStays ==
  ASSUME NEW its, Fit(its), NEW i \in its, NEW stance, stance # i.stance
  PROVE  /\ Of(its \ {i}, stance) = Of(its, stance)
         /\ Doubt(its \ {i}, stance) = Doubt(its, stance)
<1> DEFINE S == Of(its, stance)
           rest == its \ {i}
<1>1. Fit(rest)
  BY RestIsFit
<1>2. Of(rest, stance) = S
  BY DEF Of
<1>3. \A j \in S : Weighted(rest, j) = Weighted(its, j)
  <2> SUFFICES ASSUME NEW j \in S, Weighted(rest, j) # Weighted(its, j) PROVE FALSE
    OBVIOUS
  <2>1. j \in its \ {i} /\ j.stance = stance
    BY DEF Of
  <2>2. i.stance = j.stance
    BY <2>1, NextBestMovesUp
  <2> QED
    BY <2>1, <2>2
<1> HIDE DEF S, rest
<1>4. Factors(rest, stance) = Factors(its, stance)
  BY <1>2, <1>3 DEF Factors, S
<1>5. IsFiniteSet(S) /\ Factors(its, stance) \in [S -> Nat]
  BY OfIsFinite, FactorsType DEF S
<1>6. PICK h : IsProduct(h, Factors(its, stance), S) /\ Doubt(its, stance) = h[S]
  BY DoubtIsProduct DEF S
<1>7. PICK k : IsProduct(k, Factors(rest, stance), S) /\ Doubt(rest, stance) = k[S]
  BY <1>1, <1>2, DoubtIsProduct
<1>8. h[S] = k[S]
  BY <1>4, <1>5, <1>6, <1>7, ProductsAgree
<1> QED
  BY <1>2, <1>6, <1>7, <1>8 DEF S, rest

LEMMA FirstDoubtIsLess ==
  ASSUME NEW u \in Nat, NEW a \in Nat, NEW b \in Nat, NEW p \in Nat,
         4 * a <= u, b <= a
  PROVE  (u - 4 * a) * ((u - b) * p) <= u * ((u - 4 * b) * p)
<1>1. /\ u - 4 * a \in Nat /\ u - b \in Nat /\ u - 4 * b \in Nat
      /\ u - 4 * a <= u - 4 * b /\ u - b <= u
  OBVIOUS
<1>2. (u - 4 * a) * (u - b) <= (u - 4 * b) * u
  BY <1>1, TimesIsMonotone
<1>3. /\ (u - 4 * a) * (u - b) \in Nat /\ (u - 4 * b) * u \in Nat /\ p <= p
  BY <1>1
<1>4. ((u - 4 * a) * (u - b)) * p <= ((u - 4 * b) * u) * p
  BY <1>2, <1>3, TimesIsMonotone
<1>5. ASSUME NEW x \in Nat, NEW y \in Nat, NEW z \in Nat
      PROVE  (x * y) * z = x * (y * z) /\ (x * y) * z = y * (x * z)
  OBVIOUS
<1>6. /\ ((u - 4 * a) * (u - b)) * p = (u - 4 * a) * ((u - b) * p)
      /\ ((u - 4 * b) * u) * p = u * ((u - 4 * b) * p)
  BY <1>1, <1>5
<1> QED
  BY <1>4, <1>6

(* One more piece of evidence never raises the doubt of its stance.         *)
LEMMA EvidenceLowersDoubt ==
  ASSUME NEW its, Fit(its), NEW i \in its
  PROVE  /\ Doubt(its, i.stance) <= Unit * Doubt(its \ {i}, i.stance)
         /\ Cardinality(Of(its, i.stance)) = Cardinality(Of(its \ {i}, i.stance)) + 1
<1> DEFINE stance == i.stance
           rest == its \ {i}
           S == Of(its, stance)
           R == Of(rest, stance)
           g == Factors(its, stance)
           e == Factors(rest, stance)
<1>1. Fit(rest)
  BY RestIsFit
<1>2. /\ IsFiniteSet(S) /\ g \in [S -> Nat] /\ IsFiniteSet(R) /\ e \in [R -> Nat]
  BY <1>1, OfIsFinite, FactorsType
<1>3. i \in S /\ R = S \ {i} /\ S \subseteq its /\ R \subseteq rest
  BY DEF Of
<1>4. Cardinality(S) = Cardinality(R) + 1
  <2> HIDE DEF R, S
  <2> QED
    BY <1>2, <1>3, FS_RemoveElement, FS_CardinalityType
<1>5. /\ g[i] = Unit - Weighted(its, i)
      /\ \A j \in R : g[j] = Unit - Weighted(its, j) /\ e[j] = Unit - Weighted(rest, j)
  BY <1>3 DEF Factors
<1>6. PICK h : IsProduct(h, g, S) /\ Doubt(its, stance) = h[S]
  BY DoubtIsProduct
<1>7. PICK k : IsProduct(k, e, R) /\ Doubt(rest, stance) = k[R]
  <2> HIDE DEF rest
  <2> QED
    BY <1>1, DoubtIsProduct
<1>8. Unit \in Nat /\ Unit = 4 * Scale /\ Scale \in Nat
  BY ScoringAssumption DEF Unit
<1> HIDE DEF S, R, g, e
<1>9. /\ h[S] = g[i] * h[R] /\ h[R] \in Nat /\ h[S] \in Nat /\ k[R] \in Nat
  <2>1. h \in [SUBSET S -> Nat] /\ \A s \in SUBSET S : \A x \in s : h[s] = g[x] * h[s \ {x}]
    BY <1>6 DEF IsProduct
  <2>2. h[S] = g[i] * h[S \ {i}]
    BY <1>3, <2>1
  <2> QED
    BY <1>3, <1>7, <2>1, <2>2 DEF IsProduct
<1>10. CASE \A j \in R : Weighted(rest, j) = Weighted(its, j)
  <2>1. \A j \in R : g[j] = e[j]
    BY <1>5, <1>10
  <2>2. h[R] = k[R]
    <3>1. R \in SUBSET (S \cap R)
      BY <1>3
    <3> QED
      BY <1>2, <1>6, <1>7, <2>1, <3>1, PartsAgree
  <2>3. g[i] \in Nat /\ g[i] <= Unit
    BY <1>2, <1>3, <1>5, WeightIsBounded
  <2>4. g[i] * h[R] <= Unit * h[R]
    BY <1>8, <1>9, <2>3, TimesIsMonotone
  <2> QED
    BY <1>4, <1>6, <1>7, <1>9, <2>2, <2>4 DEF S, R
<1>11. CASE \E j \in R : Weighted(rest, j) # Weighted(its, j)
  <2>1. PICK j \in R : Weighted(rest, j) # Weighted(its, j)
    BY <1>11
  <2>2. j \in its \ {i}
    BY <1>3, <2>1
  <2>3. /\ Weighted(its, i) = 4 * i.quality /\ Weighted(its, j) = j.quality
        /\ Weighted(rest, j) = 4 * j.quality /\ j.quality <= i.quality
    BY <2>1, <2>2, NextBestMovesUp
  <2>4. /\ g[i] = Unit - 4 * i.quality /\ g[j] = Unit - j.quality
        /\ e[j] = Unit - 4 * j.quality
    BY <1>5, <2>1, <2>3
  <2> DEFINE Q == R \ {j}
  <2>5. \A m \in Q : g[m] = e[m]
    <3> SUFFICES ASSUME NEW m \in Q, Weighted(rest, m) # Weighted(its, m) PROVE FALSE
      BY <1>5
    <3>1. m \in its \ {i}
      BY <1>3
    <3>2. m = j
      BY <2>1, <2>2, <3>1, OnlyOneMovesUp
    <3> QED
      BY <3>2
  <2>6. IsFiniteSet(Q) /\ Q \in SUBSET (S \cap R) /\ Q \in SUBSET S /\ Q \in SUBSET R
    BY <1>2, <1>3, FS_Subset
  <2>7. h[R] = g[j] * h[Q] /\ h[Q] \in Nat /\ k[R] = e[j] * k[Q]
    <3>1. h \in [SUBSET S -> Nat] /\ \A s \in SUBSET S : \A x \in s : h[s] = g[x] * h[s \ {x}]
      BY <1>6 DEF IsProduct
    <3>2. \A s \in SUBSET R : \A x \in s : k[s] = e[x] * k[s \ {x}]
      BY <1>7 DEF IsProduct
    <3>3. R \in SUBSET S
      BY <1>3
    <3> QED
      BY <2>1, <2>6, <3>1, <3>2, <3>3
  <2> HIDE DEF Q
  <2>8. h[Q] = k[Q]
    BY <1>2, <1>6, <1>7, <2>5, <2>6, PartsAgree
  <2>9. /\ i.quality \in Nat /\ j.quality \in Nat /\ i.quality <= Scale
    BY <2>2, WeightIsBounded
  <2>10. 4 * i.quality <= Unit
    BY <1>8, <2>9
  <2>11. (Unit - 4 * i.quality) * ((Unit - j.quality) * h[Q])
           <= Unit * ((Unit - 4 * j.quality) * h[Q])
    BY <1>8, <2>3, <2>7, <2>9, <2>10, FirstDoubtIsLess
  <2>12. h[S] <= Unit * k[R]
    BY <1>9, <2>4, <2>7, <2>8, <2>11
  <2> QED
    BY <1>4, <1>6, <1>7, <2>12 DEF S, R
<1> QED
  BY <1>10, <1>11

(* The numerator of the confidence, over the powers that it is made of.     *)
LEMMA ConfidenceParts ==
  ASSUME NEW its, Fit(its)
  PROVE  LET n == Cardinality(Of(its, "supports"))
             m == Cardinality(Of(its, "contradicts"))
         IN /\ n \in Nat /\ m \in Nat /\ n + m <= Most
            /\ n \in 0..Most /\ Most - n - m \in 0..Most
            /\ Doubt(its, "contradicts") \in Nat
            /\ Unit ^ n - Doubt(its, "supports") \in Nat
            /\ Unit ^ n \in Nat /\ Doubt(its, "supports") \in Nat
            /\ Unit ^ (Most - n - m) \in Nat
<1> DEFINE A == Of(its, "supports")
           B == Of(its, "contradicts")
           n == Cardinality(A)
           m == Cardinality(B)
<1>1. /\ IsFiniteSet(A) /\ A \in SUBSET its /\ n \in 0..Most
      /\ IsFiniteSet(B) /\ B \in SUBSET its /\ m \in 0..Most
  BY OfIsFinite
<1>2. A \cap B = {}
  BY DEF Of
<1>3. n + m <= Most
  <2> HIDE DEF A, B
  <2>1. Cardinality(A \cup B) = n + m
    <3>1. Cardinality(A \cup B) = n + m - Cardinality(A \cap B)
      BY <1>1, FS_Union
    <3>2. Cardinality(A \cap B) = 0
      BY <1>2, FS_EmptySet
    <3> QED
      BY <1>1, <3>1, <3>2, ScoringAssumption
  <2>2. A \cup B \in SUBSET its
    BY <1>1
  <2>3. Cardinality(A \cup B) <= Cardinality(its) /\ Cardinality(its) \in Nat
    BY <2>2, FS_Subset, FS_CardinalityType DEF Fit
  <2> QED
    BY <1>1, <2>1, <2>3, ScoringAssumption DEF Fit
<1>4. /\ Doubt(its, "supports") \in Nat /\ Doubt(its, "contradicts") \in Nat
      /\ Doubt(its, "supports") <= Unit ^ n
  BY DoubtIsBounded
<1> HIDE DEF n, m
<1>5. Most - n - m \in 0..Most
  BY <1>1, <1>3, ScoringAssumption
<1>6. Unit ^ n \in Nat /\ Unit ^ (Most - n - m) \in Nat
  BY <1>1, <1>5, PowersAreNatural
<1>7. Unit ^ n - Doubt(its, "supports") \in Nat
  BY <1>4, <1>6
<1> QED
  BY <1>1, <1>3, <1>4, <1>5, <1>6, <1>7, ScoringAssumption DEF n, m

LEMMA SupportRaisesConfidence ==
  ASSUME NEW its, Fit(its), NEW i \in its, i.stance = "supports"
  PROVE  Confidence(its \ {i}) <= Confidence(its)
<1> DEFINE rest == its \ {i}
           n == Cardinality(Of(rest, "supports"))
           m == Cardinality(Of(its, "contradicts"))
           all == Unit ^ n
           left == Unit ^ (Most - (n + 1) - m)
           D == Doubt(its, "supports")
           E == Doubt(rest, "supports")
           C == Doubt(its, "contradicts")
<1>1. Fit(rest)
  BY RestIsFit
<1>2. /\ Of(rest, "contradicts") = Of(its, "contradicts")
      /\ Doubt(rest, "contradicts") = C
  BY OtherDoubtStays
<1>3. D <= Unit * E /\ Cardinality(Of(its, "supports")) = n + 1
  BY EvidenceLowersDoubt
<1>4. /\ n + 1 \in Nat /\ m \in Nat /\ (n + 1) + m <= Most /\ C \in Nat
      /\ Unit ^ (n + 1) - D \in Nat /\ left \in Nat /\ D \in Nat
      /\ Unit ^ (n + 1) \in Nat
  BY <1>3, ConfidenceParts
<1>5. n \in Nat /\ all - E \in Nat /\ E \in Nat /\ all \in Nat
  <2> HIDE DEF rest
  <2> QED
    BY <1>1, ConfidenceParts
<1>6. Unit \in Nat
  BY ScoringAssumption DEF Unit
<1>7. Confidence(rest) = (all - E) * C * Unit ^ (Most - n - m)
  BY <1>2 DEF Confidence
<1>8. Confidence(its) = (Unit ^ (n + 1) - D) * C * left
  BY <1>3 DEF Confidence
<1> HIDE DEF D, E, C
<1>9. Unit ^ (n + 1) = Unit * all
  <2> HIDE DEF n
  <2>1. n + 1 <= Most
    BY <1>4, <1>5, ScoringAssumption
  <2> QED
    BY <1>5, <2>1, NextPower
<1>10. Unit ^ (Most - n - m) = Unit * left
  <2> HIDE DEF n, m
  <2>1. /\ Most - (n + 1) - m \in Nat /\ Most - n - m = (Most - (n + 1) - m) + 1
        /\ (Most - (n + 1) - m) + 1 <= Most
    BY <1>4, <1>5, ScoringAssumption
  <2> QED
    BY <2>1, NextPower
<1> HIDE DEF all, left, n, m
<1>11. Confidence(rest) = (Unit * (all - E)) * (C * left)
  <2>1. ASSUME NEW a \in Nat, NEW c \in Nat, NEW u \in Nat, NEW l \in Nat
        PROVE  a * c * (u * l) = (u * a) * (c * l)
    OBVIOUS
  <2> QED
    BY <1>4, <1>5, <1>6, <1>7, <1>10, <2>1
<1>12. Confidence(its) = (Unit ^ (n + 1) - D) * (C * left)
  <2>1. ASSUME NEW a \in Nat, NEW c \in Nat, NEW l \in Nat
        PROVE  a * c * l = a * (c * l)
    OBVIOUS
  <2> QED
    BY <1>4, <1>8, <2>1
<1>13. Unit * (all - E) <= Unit ^ (n + 1) - D /\ Unit * (all - E) \in Nat
  <2>1. Unit * (all - E) = Unit * all - Unit * E
    BY <1>5, <1>6
  <2>2. Unit * all \in Nat /\ Unit * E \in Nat /\ Unit * (all - E) \in Nat
    BY <1>5, <1>6
  <2> QED
    BY <1>3, <1>4, <1>9, <2>1, <2>2
<1>14. C * left \in Nat /\ C * left <= C * left
  BY <1>4
<1>15. (Unit * (all - E)) * (C * left) <= (Unit ^ (n + 1) - D) * (C * left)
  BY <1>4, <1>13, <1>14, TimesIsMonotone
<1> QED
  BY <1>11, <1>12, <1>15

LEMMA ContradictionLowersConfidence ==
  ASSUME NEW its, Fit(its), NEW i \in its, i.stance = "contradicts"
  PROVE  Confidence(its) <= Confidence(its \ {i})
<1> DEFINE rest == its \ {i}
           n == Cardinality(Of(its, "supports"))
           m == Cardinality(Of(rest, "contradicts"))
           A == Unit ^ n - Doubt(its, "supports")
           left == Unit ^ (Most - n - (m + 1))
           D == Doubt(its, "contradicts")
           E == Doubt(rest, "contradicts")
<1>1. Fit(rest)
  BY RestIsFit
<1>2. /\ Of(rest, "supports") = Of(its, "supports")
      /\ Doubt(rest, "supports") = Doubt(its, "supports")
  BY OtherDoubtStays
<1>3. D <= Unit * E /\ Cardinality(Of(its, "contradicts")) = m + 1
  BY EvidenceLowersDoubt
<1>4. /\ n \in Nat /\ n + (m + 1) <= Most /\ D \in Nat /\ A \in Nat /\ left \in Nat
  BY <1>3, ConfidenceParts
<1>5. m \in Nat /\ E \in Nat
  <2> HIDE DEF rest
  <2> QED
    BY <1>1, ConfidenceParts
<1>6. Unit \in Nat
  BY ScoringAssumption DEF Unit
<1>7. Confidence(rest) = A * E * Unit ^ (Most - n - m)
  BY <1>2 DEF Confidence
<1>8. Confidence(its) = A * D * left
  BY <1>3 DEF Confidence
<1> HIDE DEF A, D, E
<1>9. Unit ^ (Most - n - m) = Unit * left
  <2> HIDE DEF n, m
  <2>1. /\ Most - n - (m + 1) \in Nat /\ Most - n - m = (Most - n - (m + 1)) + 1
        /\ (Most - n - (m + 1)) + 1 <= Most
    BY <1>4, <1>5, ScoringAssumption
  <2> QED
    BY <2>1, NextPower
<1> HIDE DEF left, n, m
<1>10. Confidence(rest) = (Unit * E) * (A * left)
  <2>1. ASSUME NEW a \in Nat, NEW e \in Nat, NEW u \in Nat, NEW l \in Nat
        PROVE  a * e * (u * l) = (u * e) * (a * l)
    OBVIOUS
  <2> QED
    BY <1>4, <1>5, <1>6, <1>7, <1>9, <2>1
<1>11. Confidence(its) = D * (A * left)
  <2>1. ASSUME NEW a \in Nat, NEW d \in Nat, NEW l \in Nat
        PROVE  a * d * l = d * (a * l)
    OBVIOUS
  <2> QED
    BY <1>4, <1>8, <2>1
<1>12. A * left \in Nat /\ A * left <= A * left /\ Unit * E \in Nat
  BY <1>4, <1>5, <1>6
<1>13. D * (A * left) <= (Unit * E) * (A * left)
  BY <1>3, <1>4, <1>12, TimesIsMonotone
<1> QED
  BY <1>10, <1>11, <1>13

-----------------------------------------------------------------------------
(* The confidence is a share of one                                         *)

LEMMA PowersAdd ==
  ASSUME NEW a \in Nat, NEW b \in Nat, a + b <= Most
  PROVE  Unit ^ (a + b) = Unit ^ a * Unit ^ b
<1> DEFINE F == {n \in Nat : a + n <= Most => Unit ^ (a + n) = Unit ^ a * Unit ^ n}
<1>1. Unit \in Nat /\ Most \in Nat
  BY ScoringAssumption DEF Unit
<1>2. 0 \in F
  <2> SUFFICES ASSUME a <= Most PROVE Unit ^ (a + 0) = Unit ^ a * Unit ^ 0
    OBVIOUS
  <2>1. Unit ^ a \in Nat /\ a + 0 = a /\ Unit ^ 0 = 1
    BY <1>1, PowersAreNatural, PowersAssumption
  <2> QED
    BY <2>1
<1>3. ASSUME NEW n \in F PROVE n + 1 \in F
  <2> SUFFICES ASSUME a + (n + 1) <= Most
               PROVE  Unit ^ (a + (n + 1)) = Unit ^ a * Unit ^ (n + 1)
    OBVIOUS
  <2> DEFINE k == a + n
  <2>1. n \in Nat /\ k \in Nat /\ k + 1 <= Most /\ n + 1 <= Most /\ a + (n + 1) = k + 1
        /\ a <= Most /\ n <= Most /\ k <= Most
    BY <1>1
  <2>2. Unit ^ k = Unit ^ a * Unit ^ n
    BY <2>1
  <2> HIDE DEF k
  <2>3. Unit ^ (k + 1) = Unit * Unit ^ k /\ Unit ^ (n + 1) = Unit * Unit ^ n
    BY <2>1, NextPower
  <2>4. Unit ^ a \in Nat /\ Unit ^ n \in Nat
    <3>1. a \in 0..Most /\ n \in 0..Most
      BY <1>1, <2>1
    <3> QED
      BY <3>1, PowersAreNatural
  <2>5. ASSUME NEW u \in Nat, NEW x \in Nat, NEW y \in Nat
        PROVE  u * (x * y) = x * (u * y)
    OBVIOUS
  <2>6. Unit * (Unit ^ a * Unit ^ n) = Unit ^ a * (Unit * Unit ^ n)
    BY <1>1, <2>4, <2>5
  <2> QED
    BY <2>1, <2>2, <2>3, <2>6
<1>4. F \in SUBSET Nat
  OBVIOUS
<1>5. F = Nat
  <2> HIDE DEF F
  <2> QED
    BY <1>2, <1>3, <1>4, Climb
<1> QED
  BY <1>5

(* aggregate_cluster, for any evidence: its confidence is no less than      *)
(* nothing and no more than one, which ck_cluster_confidence requires.      *)
THEOREM ConfidenceIsAShare ==
  ASSUME NEW its, Fit(its)
  PROVE  Confidence(its) \in 0..Whole
<1> DEFINE n == Cardinality(Of(its, "supports"))
           m == Cardinality(Of(its, "contradicts"))
           r == Most - n - m
           A == Unit ^ n - Doubt(its, "supports")
           C == Doubt(its, "contradicts")
<1>1. /\ n \in Nat /\ m \in Nat /\ n + m <= Most /\ r \in 0..Most
      /\ A \in Nat /\ C \in Nat /\ Unit ^ n \in Nat /\ Doubt(its, "supports") \in Nat
      /\ Unit ^ r \in Nat
  BY ConfidenceParts
<1>2. C <= Unit ^ m
  BY DoubtIsBounded
<1>3. Confidence(its) = A * C * Unit ^ r
  BY DEF Confidence
<1>4. A <= Unit ^ n
  BY <1>1
<1> HIDE DEF A, C, n, m
<1>5. Unit ^ m \in Nat
  <2>1. m \in 0..Most
    BY <1>1, ScoringAssumption
  <2> QED
    BY <2>1, PowersAreNatural
<1>6. Unit ^ (n + m) = Unit ^ n * Unit ^ m
  BY <1>1, PowersAdd
<1>7. Whole = Unit ^ (n + m) * Unit ^ r
  <2> DEFINE k == n + m
  <2>1. k \in Nat /\ r \in Nat /\ k + r = Most
    BY <1>1, ScoringAssumption
  <2> HIDE DEF k, r
  <2>2. Unit ^ (k + r) = Unit ^ k * Unit ^ r
    BY <2>1, PowersAdd, ScoringAssumption
  <2>3. Whole = Unit ^ k * Unit ^ r
    BY <2>1, <2>2 DEF Whole
  <2> QED
    BY <2>3 DEF k
<1> HIDE DEF r
<1>8. A * C <= Unit ^ n * Unit ^ m
  BY <1>1, <1>2, <1>4, <1>5, TimesIsMonotone
<1>9. A * C \in Nat /\ Unit ^ n * Unit ^ m \in Nat /\ Unit ^ r <= Unit ^ r
  BY <1>1, <1>5
<1>10. (A * C) * Unit ^ r <= (Unit ^ n * Unit ^ m) * Unit ^ r
  BY <1>1, <1>8, <1>9, TimesIsMonotone
<1>11. (A * C) * Unit ^ r \in Nat /\ Whole \in Nat
  BY <1>1, <1>6, <1>7, <1>9
<1> QED
  BY <1>3, <1>6, <1>7, <1>10, <1>11

-----------------------------------------------------------------------------
(* Components: dependence is an equivalence                                 *)

LEMMA ComponentHasOwn ==
  ASSUME NEW sig, NEW d \in DOMAIN sig
  PROVE  d \in Component(sig, d)
  BY DEF Component

LEMMA SharersDepend ==
  ASSUME NEW sig, NEW d \in DOMAIN sig, NEW e \in DOMAIN sig,
         sig[d] \cap sig[e] # {}
  PROVE  e \in Component(sig, d)
  BY DEF Component, ClosedUnderSharing

LEMMA DependenceIsTransitive ==
  ASSUME NEW sig, NEW d \in DOMAIN sig, NEW e \in Component(sig, d),
         NEW f \in Component(sig, e)
  PROVE  f \in Component(sig, d)
  BY DEF Component

LEMMA DependenceIsSymmetric ==
  ASSUME NEW sig, NEW d \in DOMAIN sig, NEW e \in Component(sig, d)
  PROVE  d \in Component(sig, e)
<1> DEFINE others == DOMAIN sig \ Component(sig, e)
<1>1. e \in DOMAIN sig
  BY DEF Component
<1>2. ClosedUnderSharing(sig, others)
  <2> SUFFICES ASSUME NEW x \in others, NEW y \in DOMAIN sig,
                      sig[x] \cap sig[y] # {}, y \in Component(sig, e)
               PROVE  FALSE
    BY DEF ClosedUnderSharing
  <2>1. x \in Component(sig, y)
    BY SharersDepend
  <2> QED
    BY <1>1, <2>1, DependenceIsTransitive
<1>3. e \notin others
  BY <1>1, ComponentHasOwn
<1> QED
  BY <1>2, <1>3 DEF Component

-----------------------------------------------------------------------------
(* find: the path of a document                                             *)

Steps(p, d, n) ==
  {f \in [0..n -> Documents] :
     f[0] = d /\ \A i \in 1..n : f[i] = p[f[i - 1]]}

LEMMA StepsExist ==
  ASSUME NEW p \in [Documents -> Documents], NEW d \in Documents, NEW n \in Nat
  PROVE  \E f : f \in Steps(p, d, n)
<1> DEFINE S == {m \in Nat : \E f : f \in Steps(p, d, m)}
<1>1. 0 \in S
  <2>1. [i \in 0..0 |-> d] \in Steps(p, d, 0)
    BY DEF Steps
  <2> QED
    BY <2>1
<1>2. ASSUME NEW m \in S PROVE m + 1 \in S
  <2>1. PICK f : f \in Steps(p, d, m)
    OBVIOUS
  <2> DEFINE g == [i \in 0..(m + 1) |-> IF i = m + 1 THEN p[f[m]] ELSE f[i]]
  <2>2. m \in Nat /\ f \in [0..m -> Documents] /\ f[0] = d
        /\ \A i \in 1..m : f[i] = p[f[i - 1]]
    BY <2>1 DEF Steps
  <2>3. g \in [0..(m + 1) -> Documents] /\ g[0] = d
    BY <2>2
  <2>4. ASSUME NEW i \in 1..(m + 1) PROVE g[i] = p[g[i - 1]]
    <3>1. CASE i = m + 1
      BY <2>2, <3>1
    <3>2. CASE i # m + 1
      <4>1. /\ i \in 1..m /\ i - 1 \in 0..(m + 1) /\ i - 1 # m + 1
            /\ i \in 0..(m + 1)
        BY <2>2, <3>2
      <4> QED
        BY <2>2, <3>2, <4>1
    <3> QED
      BY <3>1, <3>2
  <2> HIDE DEF g
  <2>5. g \in Steps(p, d, m + 1)
    BY <2>3, <2>4 DEF Steps
  <2> QED
    BY <2>2, <2>5
<1>3. S \in SUBSET Nat
  OBVIOUS
<1> HIDE DEF S
<1>4. S = Nat
  BY <1>1, <1>2, <1>3, Climb
<1> QED
  BY <1>4 DEF S

LEMMA StepsAgree ==
  ASSUME NEW p, NEW d, NEW i \in Nat,
         NEW m \in Nat, NEW n \in Nat, i <= m, i <= n,
         NEW f \in Steps(p, d, m), NEW g \in Steps(p, d, n)
  PROVE  f[i] = g[i]
<1> DEFINE S == {j \in Nat : j <= i => f[j] = g[j]}
<1>1. 0 \in S
  BY DEF Steps
<1>2. ASSUME NEW j \in S PROVE j + 1 \in S
  <2>1. j \in Nat
    OBVIOUS
  <2>2. CASE j + 1 <= i
    <3>1. /\ j + 1 \in 1..m /\ j + 1 \in 1..n /\ (j + 1) - 1 = j /\ j <= i
      BY <2>1, <2>2
    <3>2. f[j + 1] = p[f[j]] /\ g[j + 1] = p[g[j]]
      BY <3>1 DEF Steps
    <3> QED
      BY <2>1, <3>1, <3>2
  <2>3. CASE ~ j + 1 <= i
    BY <2>1, <2>3
  <2> QED
    BY <2>2, <2>3
<1>3. S \in SUBSET Nat
  OBVIOUS
<1> HIDE DEF S
<1>4. S = Nat
  BY <1>1, <1>2, <1>3, Climb
<1> QED
  BY <1>4 DEF S

(* So the recursive definition of a path defines one.                       *)
LEMMA PathStep ==
  ASSUME parents \in [Documents -> Documents], NEW d \in Documents
  PROVE  /\ Ancestor(d)[0] = d
         /\ \A n \in Nat : Ancestor(d)[n] \in Documents
         /\ \A n \in Nat : Ancestor(d)[n + 1] = parents[Ancestor(d)[n]]
<1> DEFINE path == [n \in Nat |-> (CHOOSE f : f \in Steps(parents, d, n))[n]]
           rec(f) == [n \in Nat |-> IF n = 0 THEN d ELSE parents[f[n - 1]]]
<1>1. ASSUME NEW n \in Nat
      PROVE  \E f \in Steps(parents, d, n) : path[n] = f[n]
  BY StepsExist
<1>2. ASSUME NEW n \in Nat, NEW m \in Nat, n <= m, NEW f \in Steps(parents, d, m)
      PROVE  path[n] = f[n]
  <2> HIDE DEF path
  <2>1. PICK g \in Steps(parents, d, n) : path[n] = g[n]
    BY <1>1
  <2> QED
    BY <1>2, <2>1, StepsAgree
<1>3. path[0] = d
  <2>1. PICK f \in Steps(parents, d, 0) : path[0] = f[0]
    BY <1>1
  <2> QED
    BY <2>1 DEF Steps
<1>4. ASSUME NEW n \in Nat
      PROVE  path[n] \in Documents /\ path[n + 1] = parents[path[n]]
  <2> HIDE DEF path
  <2>1. n + 1 \in Nat /\ n <= n + 1 /\ n + 1 \in 1..(n + 1) /\ n \in 0..(n + 1)
        /\ (n + 1) - 1 = n /\ n + 1 <= n + 1
    OBVIOUS
  <2>2. PICK f : f \in Steps(parents, d, n + 1)
    BY <2>1, StepsExist
  <2>3. path[n] = f[n] /\ path[n + 1] = f[n + 1]
    BY <1>2, <2>1, <2>2
  <2>4. f[n] \in Documents /\ f[n + 1] = parents[f[n]]
    BY <2>1, <2>2 DEF Steps
  <2> QED
    BY <2>3, <2>4
<1>5. path = rec(path)
  <2>1. path = [n \in Nat |-> path[n]]
    OBVIOUS
  <2> HIDE DEF path
  <2>2. ASSUME NEW n \in Nat
        PROVE  path[n] = IF n = 0 THEN d ELSE parents[path[n - 1]]
    <3>1. CASE n = 0
      BY <1>3, <3>1
    <3>2. CASE n # 0
      <4>1. n - 1 \in Nat /\ (n - 1) + 1 = n
        BY <3>2
      <4> QED
        BY <1>4, <3>2, <4>1
    <3> QED
      BY <3>1, <3>2
  <2> QED
    BY <2>1, <2>2
<1>6. Ancestor(d) = CHOOSE f : f = rec(f)
  BY DEF Ancestor
<1> HIDE DEF path, rec
<1>7. Ancestor(d) = rec(Ancestor(d))
  BY <1>5, <1>6
<1>8. /\ Ancestor(d)[0] = d
      /\ \A n \in Nat : Ancestor(d)[n + 1] = parents[Ancestor(d)[n]]
  <2> DEFINE a == Ancestor(d)
  <2>1. a = rec(a)
    BY <1>7
  <2> HIDE DEF a
  <2>2. a[0] = d
    BY <2>1 DEF rec
  <2>3. ASSUME NEW n \in Nat PROVE a[n + 1] = parents[a[n]]
    <3>1. n + 1 \in Nat /\ n + 1 # 0 /\ (n + 1) - 1 = n
      OBVIOUS
    <3>2. a[n + 1] = parents[a[(n + 1) - 1]]
      BY <2>1, <3>1 DEF rec
    <3> QED
      BY <3>1, <3>2
  <2> QED
    BY <2>2, <2>3 DEF a
<1>9. \A n \in Nat : Ancestor(d)[n] \in Documents
  <2> DEFINE S == {n \in Nat : Ancestor(d)[n] \in Documents}
  <2>1. 0 \in S /\ S \in SUBSET Nat
    BY <1>8
  <2>2. ASSUME NEW n \in S PROVE n + 1 \in S
    BY <1>8
  <2> HIDE DEF S
  <2>3. S = Nat
    BY <2>1, <2>2, Climb
  <2> QED
    BY <2>3 DEF S
<1> QED
  BY <1>8, <1>9

(* Every step leads to a smaller document or none, so that the end of a     *)
(* path is reached in as many steps as there are documents: the root.       *)
LEMMA PathEnds ==
  ASSUME parents \in [Documents -> Documents],
         \A x \in Documents : parents[x] <= x,
         NEW d \in Documents
  PROVE  Root(d) \in Documents /\ parents[Root(d)] = Root(d)
<1> DEFINE a == Ancestor(d)
           n == Cardinality(Documents)
<1>1. n \in Nat
  BY DocumentsAssumption, FS_CardinalityType
<1>2. /\ \A i \in Nat : a[i] \in Documents /\ a[i] \in Nat
      /\ \A i \in Nat : a[i + 1] = parents[a[i]] /\ a[i + 1] <= a[i]
  BY PathStep, DocumentsAssumption
<1> HIDE DEF a, n
<1>3. ASSUME NEW i \in Nat, NEW k \in Nat PROVE a[i + k] <= a[i]
  <2> DEFINE S == {m \in Nat : a[i + m] <= a[i]}
  <2>1. 0 \in S /\ S \in SUBSET Nat
    BY <1>2
  <2>2. ASSUME NEW m \in S PROVE m + 1 \in S
    <3>1. /\ m \in Nat /\ i + m \in Nat /\ i + (m + 1) = (i + m) + 1
          /\ i + (m + 1) \in Nat /\ a[i + m] <= a[i]
      OBVIOUS
    <3>2. /\ a[(i + m) + 1] <= a[i + m] /\ a[(i + m) + 1] \in Nat
          /\ a[i + m] \in Nat /\ a[i] \in Nat
      BY <1>2, <3>1
    <3>3. a[i + (m + 1)] <= a[i]
      BY <3>1, <3>2
    <3> QED
      BY <3>1, <3>3
  <2> HIDE DEF S
  <2>3. S = Nat
    BY <2>1, <2>2, Climb
  <2> QED
    BY <2>3 DEF S
<1>4. ASSUME NEW i \in Nat, a[i + 1] = a[i], NEW k \in Nat
      PROVE  a[i + k] = a[i]
  <2> DEFINE S == {m \in Nat : a[i + m] = a[i]}
  <2>1. 0 \in S /\ S \in SUBSET Nat
    OBVIOUS
  <2>2. ASSUME NEW m \in S PROVE m + 1 \in S
    <3>1. /\ m \in Nat /\ i + m \in Nat /\ i + (m + 1) = (i + m) + 1
          /\ a[i + m] = a[i]
      OBVIOUS
    <3>2. a[(i + m) + 1] = parents[a[i + m]] /\ a[i + 1] = parents[a[i]]
      BY <1>2, <3>1
    <3>3. a[i + (m + 1)] = a[i]
      BY <1>4, <3>1, <3>2
    <3> QED
      BY <3>1, <3>3
  <2> HIDE DEF S
  <2>3. S = Nat
    BY <2>1, <2>2, Climb
  <2> QED
    BY <2>3 DEF S
<1>5. PICK x, y \in 0..n : x < y /\ a[x] = a[y]
  <2> DEFINE f == [i \in 0..n |-> a[i]]
  <2>1. f \in [0..n -> Documents]
    BY <1>1, <1>2
  <2>2. IsFiniteSet(0..n) /\ Cardinality(0..n) = n + 1
    BY <1>1, FS_Interval
  <2>3. Cardinality(Documents) < Cardinality(0..n)
    BY <1>1, <2>2 DEF n
  <2> HIDE DEF f
  <2>4. PICK x, y \in 0..n : x # y /\ f[x] = f[y]
    BY <2>1, <2>2, <2>3, DocumentsAssumption, FS_PigeonHole
  <2>5. f[x] = a[x] /\ f[y] = a[y]
    BY DEF f
  <2>6. x < y \/ y < x
    BY <1>1, <2>4
  <2> QED
    BY <2>4, <2>5, <2>6
<1>6. a[x + 1] = a[x]
  <2>1. /\ x \in Nat /\ x + 1 \in Nat /\ y - (x + 1) \in Nat
        /\ (x + 1) + (y - (x + 1)) = y
    BY <1>1, <1>5
  <2>2. a[y] <= a[x + 1]
    BY <1>3, <2>1
  <2>3. a[x + 1] <= a[x] /\ a[x + 1] \in Nat /\ a[x] \in Nat
    BY <1>2, <2>1
  <2> QED
    BY <1>5, <2>2, <2>3
<1>7. a[n] = a[x] /\ a[n + 1] = a[x]
  <2>1. /\ x \in Nat /\ n - x \in Nat /\ x + (n - x) = n
        /\ (n + 1) - x \in Nat /\ x + ((n + 1) - x) = n + 1
    BY <1>1, <1>5
  <2>2. \A k \in Nat : a[x + k] = a[x]
    BY <1>4, <1>6, <2>1
  <2>3. a[x + (n - x)] = a[x] /\ a[x + ((n + 1) - x)] = a[x]
    BY <2>1, <2>2
  <2> QED
    BY <2>1, <2>3
<1>8. Root(d) = a[n]
  BY DEF Root, a, n
<1> QED
  BY <1>1, <1>2, <1>7, <1>8

(* What says where the root of every document is.                           *)
RootsAre(root) ==
  /\ root \in [Documents -> Documents]
  /\ \A x \in Documents :
       /\ root[parents[x]] = root[x] /\ parents[root[x]] = root[x]
       /\ parents[x] = x => root[x] = x

LEMMA RootIs ==
  ASSUME parents \in [Documents -> Documents],
         \A x \in Documents : parents[x] <= x,
         NEW root, RootsAre(root), NEW d \in Documents
  PROVE  Root(d) = root[d]
<1> DEFINE a == Ancestor(d)
           n == Cardinality(Documents)
           S == {m \in Nat : root[a[m]] = root[d]}
<1>1. n \in Nat
  BY DocumentsAssumption, FS_CardinalityType
<1>2. /\ \A i \in Nat : a[i] \in Documents /\ a[i + 1] = parents[a[i]]
      /\ a[0] = d
  BY PathStep
<1> HIDE DEF a, n
<1>3. 0 \in S /\ S \in SUBSET Nat
  BY <1>2
<1>4. ASSUME NEW m \in S PROVE m + 1 \in S
  BY <1>2 DEF RootsAre
<1>5. S = Nat
  <2> HIDE DEF S
  <2> QED
    BY <1>3, <1>4, Climb
<1>6. root[a[n]] = root[d] /\ Root(d) = a[n]
  BY <1>1, <1>5 DEF Root, a, n
<1>7. root[Root(d)] = Root(d)
  BY PathEnds DEF RootsAre
<1> QED
  BY <1>6, <1>7

-----------------------------------------------------------------------------
(* The forest: the inductive invariant                                      *)

Pair(d, s) == [doc |-> d, signal |-> s]

ForestTypes ==
  /\ signals \in [Documents -> Profiles]
  /\ parents \in [Documents -> Documents]
  /\ owners \in [AllSignals -> Documents \cup {Nobody}]
  /\ \A d \in Documents, s \in AllSignals :
       Pair(d, s) \in todo => s \in signals[d]

OwnersHave ==
  \A s \in AllSignals : owners[s] # Nobody => s \in signals[owners[s]]

(* Parents and roots are found among smaller documents of the component,    *)
(* and what has been united with the owner of a signal has its root.        *)
Forest(root) ==
  /\ RootsAre(root)
  /\ \A x \in Documents :
       /\ parents[x] <= x /\ root[x] <= x
       /\ parents[x] \in Component(signals, x)
       /\ root[x] \in Component(signals, x)
  /\ \A x \in Documents : \A s \in signals[x] :
       Pair(x, s) \notin todo =>
         owners[s] # Nobody /\ root[owners[s]] = root[x]

GInv == ForestTypes /\ OwnersHave /\ \E root \in [Documents -> Documents] : Forest(root)

(* Where the link goes: from the larger root to the smaller.                *)
Low(i, j) == IF i < j THEN i ELSE j
High(i, j) == IF i < j THEN j ELSE i

LEMMA UnitedLinks ==
  ASSUME parents \in [Documents -> Documents], NEW root, Forest(root),
         NEW d \in Documents, NEW e \in Documents,
         NEW low, low = Low(root[d], root[e]),
         NEW high, high = High(root[d], root[e])
  PROVE  /\ United(d, e) \in [Documents -> Documents]
         /\ \A x \in Documents :
              IF x = high /\ low # high THEN United(d, e)[x] = low
              ELSE United(d, e)[x] \in {root[x], parents[x]}
<1> DEFINE p == Compressed(d, e)
<1>1. \A x \in Documents : Root(x) = root[x] /\ root[x] \in Documents /\ root[x] \in Nat
  BY RootIs, DocumentsAssumption DEF Forest, RootsAre
<1>2. p = [x \in Documents |->
             IF OnPath(d, x) \/ OnPath(e, x) THEN root[x] ELSE parents[x]]
  BY <1>1 DEF Compressed
<1>3. /\ p \in [Documents -> Documents]
      /\ \A x \in Documents : p[x] \in {root[x], parents[x]}
  BY <1>1, <1>2
<1> HIDE DEF p
<1>4. United(d, e) =
        IF root[d] < root[e] THEN [p EXCEPT ![root[e]] = root[d]]
        ELSE IF root[e] < root[d] THEN [p EXCEPT ![root[d]] = root[e]]
        ELSE p
  BY <1>1 DEF United, p
<1>5. CASE root[d] < root[e]
  BY <1>1, <1>3, <1>4, <1>5 DEF Low, High
<1>6. CASE root[e] < root[d]
  BY <1>1, <1>3, <1>4, <1>6 DEF Low, High
<1>7. CASE root[d] = root[e]
  BY <1>1, <1>3, <1>4, <1>7 DEF Low, High
<1> QED
  BY <1>1, <1>5, <1>6, <1>7

(* Uniting two documents that share a signal keeps a forest.                *)
LEMMA UnitedForest ==
  ASSUME ForestTypes, NEW root, Forest(root), NEW d \in Documents, NEW e \in Documents,
         signals[d] \cap signals[e] # {},
         parents' = United(d, e), UNCHANGED signals,
         NEW merged,
         merged = [x \in Documents |->
                     IF root[x] \in {root[d], root[e]}
                     THEN Low(root[d], root[e]) ELSE root[x]]
  PROVE  /\ parents' \in [Documents -> Documents] /\ RootsAre(merged)'
         /\ \A x \in Documents :
              /\ parents'[x] <= x /\ merged[x] <= x
              /\ parents'[x] \in Component(signals, x)
              /\ merged[x] \in Component(signals, x)
<1> DEFINE low == Low(root[d], root[e])
           high == High(root[d], root[e])
<1>1. /\ parents \in [Documents -> Documents] /\ DOMAIN signals = Documents
      /\ root \in [Documents -> Documents]
      /\ \A x \in Documents :
           /\ root[parents[x]] = root[x] /\ parents[root[x]] = root[x]
           /\ parents[x] = x => root[x] = x
           /\ parents[x] <= x /\ root[x] <= x
           /\ parents[x] \in Component(signals, x)
           /\ root[x] \in Component(signals, x)
  BY DEF ForestTypes, Forest, RootsAre
<1>2. /\ parents' \in [Documents -> Documents]
      /\ \A x \in Documents :
           IF x = high /\ low # high THEN parents'[x] = low
           ELSE parents'[x] \in {root[x], parents[x]}
  <2> HIDE DEF low, high
  <2>1. low = Low(root[d], root[e]) /\ high = High(root[d], root[e])
    BY DEF low, high
  <2>2. parents \in [Documents -> Documents]
    BY <1>1
  <2>3. /\ United(d, e) \in [Documents -> Documents]
        /\ \A x \in Documents :
             IF x = high /\ low # high THEN United(d, e)[x] = low
             ELSE United(d, e)[x] \in {root[x], parents[x]}
    BY <2>1, <2>2, UnitedLinks
  <2> QED
    BY <2>3
<1>3. \A x \in Documents : x \in Nat /\ root[x] \in Nat /\ root[x] \in Documents
  BY <1>1, DocumentsAssumption
<1>4. \A x \in Documents : root[root[x]] = root[x]
  BY <1>1, <1>3
<1>5. /\ low \in Documents /\ high \in Documents /\ low <= high
      /\ {low, high} = {root[d], root[e]} /\ low \in Nat /\ high \in Nat
      /\ root[low] = low /\ root[high] = high
  BY <1>3, <1>4 DEF Low, High
<1>6. low \in Component(signals, high) /\ high \in Component(signals, low)
  <2>1. e \in Component(signals, d)
    BY <1>1, SharersDepend
  <2>2. \A x, y \in Documents : x \in Component(signals, y) => y \in Component(signals, x)
    BY <1>1, DependenceIsSymmetric
  <2>3. \A x, y, z \in Documents :
          x \in Component(signals, y) /\ y \in Component(signals, z) =>
            x \in Component(signals, z)
    BY <1>1, DependenceIsTransitive
  <2>4. root[d] \in Component(signals, root[e])
    <3>1. root[d] \in Component(signals, d) /\ root[e] \in Component(signals, e)
      BY <1>1
    <3>2. d \in Component(signals, e) /\ e \in Component(signals, root[e])
      BY <1>3, <2>1, <2>2, <3>1
    <3> QED
      BY <1>3, <2>3, <3>1, <3>2
  <2>5. root[e] \in Component(signals, root[d])
    BY <1>3, <2>2, <2>4
  <2>6. high \in Component(signals, high)
    BY <1>1, <1>5, ComponentHasOwn
  <2> QED
    BY <1>5, <2>4, <2>5, <2>6
<1> HIDE DEF low, high
<1>7. \A x \in Documents :
        merged[x] = IF root[x] \in {low, high} THEN low ELSE root[x]
  BY <1>5 DEF low
<1>8. ASSUME NEW x \in Documents
      PROVE  /\ merged[x] \in Documents /\ merged[x] <= x /\ parents'[x] <= x
             /\ merged[x] \in Component(signals, x)
             /\ parents'[x] \in Component(signals, x)
  <2>1. \A y \in Component(signals, x) : \A z \in Component(signals, y) :
          z \in Component(signals, x)
    BY <1>1, DependenceIsTransitive DEF Component
  <2>2. merged[x] \in {low, root[x]}
    BY <1>7
  <2>3. merged[x] = low => root[x] \in {low, high} \/ merged[x] = root[x]
    BY <1>7
  <2>4. merged[x] \in Component(signals, x)
    BY <1>1, <1>6, <2>1, <2>2, <2>3
  <2>5. merged[x] <= x
    BY <1>1, <1>3, <1>5, <2>2, <2>3
  <2>6. CASE x = high /\ low # high
    <3>1. parents'[x] = low
      BY <1>2, <2>6
    <3> QED
      BY <1>3, <1>5, <1>6, <2>2, <2>4, <2>5, <2>6, <3>1
  <2>7. CASE ~ (x = high /\ low # high)
    <3>1. parents'[x] \in {root[x], parents[x]}
      BY <1>2, <2>7
    <3> QED
      BY <1>1, <1>3, <1>5, <2>2, <2>4, <2>5, <3>1
  <2> QED
    BY <2>6, <2>7
<1>9. ASSUME NEW x \in Documents
      PROVE  /\ merged[parents'[x]] = merged[x] /\ parents'[merged[x]] = merged[x]
             /\ parents'[x] = x => merged[x] = x
  <2>1. parents'[merged[x]] = merged[x]
    <3>1. merged[x] # high \/ low = high
      BY <1>5, <1>7
    <3>2. root[merged[x]] = merged[x]
      BY <1>4, <1>5, <1>7
    <3>3. parents[merged[x]] = merged[x]
      BY <1>1, <1>8, <3>2
    <3>4. parents'[merged[x]] \in {root[merged[x]], parents[merged[x]]}
      BY <1>2, <1>8, <3>1
    <3> QED
      BY <3>2, <3>3, <3>4
  <2>2. CASE x = high /\ low # high
    <3>1. parents'[x] = low /\ merged[low] = low /\ merged[x] = low
      BY <1>2, <1>5, <1>7, <2>2
    <3> QED
      BY <2>1, <2>2, <3>1
  <2>3. CASE ~ (x = high /\ low # high)
    <3>1. parents'[x] \in {root[x], parents[x]}
      BY <1>2, <2>3
    <3>2. root[parents'[x]] = root[x] /\ parents'[x] \in Documents
      BY <1>1, <1>3, <1>4, <3>1
    <3>3. merged[parents'[x]] = merged[x]
      BY <1>7, <3>2
    <3>4. parents'[x] = x => root[x] = x
      BY <1>1, <3>1
    <3>5. root[x] = x => merged[x] = x
      BY <1>7, <2>3
    <3> QED
      BY <2>1, <3>3, <3>4, <3>5
  <2> QED
    BY <2>2, <2>3
<1>10. merged \in [Documents -> Documents]
  BY <1>8
<1>11. RootsAre(merged)'
  BY <1>9, <1>10 DEF RootsAre
<1> QED
  BY <1>2, <1>8, <1>11

LEMMA GroupsInit == ScoringInit => GInv
<1> SUFFICES ASSUME ScoringInit PROVE GInv
  OBVIOUS
<1>1. /\ signals \in [Documents -> Profiles] /\ parents = [d \in Documents |-> d]
      /\ owners = [s \in AllSignals |-> Nobody]
      /\ todo = {p \in [doc : Documents, signal : AllSignals] :
                   p.signal \in signals[p.doc]}
  BY DEF ScoringInit
<1>2. ForestTypes /\ OwnersHave
  BY <1>1 DEF ForestTypes, OwnersHave, Pair
<1>3. parents \in [Documents -> Documents] /\ RootsAre(parents)
  BY <1>1 DEF RootsAre
<1>4. \A x \in Documents : /\ parents[x] = x /\ parents[x] <= x
                           /\ parents[x] \in Component(signals, x)
  BY <1>1, ComponentHasOwn, DocumentsAssumption
<1>5. \A x \in Documents : \A s \in signals[x] : Pair(x, s) \in todo
  BY <1>1 DEF Pair, AllSignals
<1>6. Forest(parents)
  BY <1>3, <1>4, <1>5 DEF Forest
<1> QED
  BY <1>2, <1>3, <1>6 DEF GInv

LEMMA UniteKeeps ==
  ASSUME GInv, NEW d \in Documents, NEW s \in AllSignals, Unite(d, s)
  PROVE  GInv'
<1>1. /\ ForestTypes /\ OwnersHave /\ UNCHANGED signals
      /\ Pair(d, s) \in todo /\ s \in signals[d]
      /\ todo' = todo \ {Pair(d, s)}
  BY DEF GInv, Unite, ForestTypes, Pair
<1>2. PICK root \in [Documents -> Documents] : Forest(root)
  BY DEF GInv
<1>3. /\ owners \in [AllSignals -> Documents \cup {Nobody}]
      /\ signals \in [Documents -> Profiles] /\ parents \in [Documents -> Documents]
      /\ \A x \in Documents : \A t \in signals[x] : t \in AllSignals
  BY <1>1 DEF ForestTypes, AllSignals
<1>4. PICK owner \in Documents :
        /\ owners' = [owners EXCEPT ![s] = owner] /\ parents' = United(owner, d)
        /\ s \in signals[owner]
        /\ owners[s] = Nobody \/ owners[s] = owner
  <2>1. CASE owners[s] = Nobody
    BY <1>1, <2>1 DEF Unite
  <2>2. CASE owners[s] # Nobody
    BY <1>1, <1>3, <2>2 DEF Unite, OwnersHave
  <2> QED
    BY <2>1, <2>2
<1>5. Nobody \notin Documents
  BY DocumentsAssumption DEF Nobody
<1> DEFINE low == Low(root[owner], root[d])
           merged == [x \in Documents |->
                        IF root[x] \in {root[owner], root[d]} THEN low ELSE root[x]]
<1>6. /\ parents' \in [Documents -> Documents] /\ RootsAre(merged)'
      /\ \A x \in Documents :
           /\ parents'[x] <= x /\ merged[x] <= x
           /\ parents'[x] \in Component(signals, x)
           /\ merged[x] \in Component(signals, x)
  <2>1. signals[owner] \cap signals[d] # {}
    BY <1>1, <1>4
  <2> HIDE DEF merged
  <2>2. merged = [x \in Documents |->
                    IF root[x] \in {root[owner], root[d]}
                    THEN Low(root[owner], root[d]) ELSE root[x]]
    BY DEF merged
  <2>3. ForestTypes /\ Forest(root) /\ parents' = United(owner, d) /\ UNCHANGED signals
    BY <1>1, <1>2, <1>4
  <2>4. RootsAre(merged)'
    BY <2>1, <2>2, <2>3, UnitedForest
  <2> QED
    BY <2>1, <2>2, <2>3, <2>4, UnitedForest
<1>7. \A x, y \in Documents : root[x] = root[y] => merged[x] = merged[y]
  OBVIOUS
<1>8. merged[owner] = merged[d]
  BY <1>4
<1>9. merged \in [Documents -> Documents]
  BY <1>6 DEF RootsAre
<1> HIDE DEF merged
<1>10. ForestTypes'
  <2>1. owners' \in [AllSignals -> Documents \cup {Nobody}]
    BY <1>1, <1>3, <1>4
  <2>2. \A x \in Documents, t \in AllSignals : Pair(x, t) \in todo' => t \in signals[x]
    BY <1>1 DEF ForestTypes
  <2> QED
    BY <1>1, <1>3, <1>6, <2>1, <2>2 DEF ForestTypes
<1>11. OwnersHave'
  BY <1>1, <1>3, <1>4 DEF OwnersHave
<1>12. ASSUME NEW x \in Documents, NEW t \in signals[x], Pair(x, t) \notin todo'
       PROVE  owners'[t] # Nobody /\ merged[owners'[t]] = merged[x]
  <2>1. t \in AllSignals
    BY <1>3
  <2>2. CASE Pair(x, t) = Pair(d, s)
    <3>1. x = d /\ t = s
      BY <2>2 DEF Pair
    <3> QED
      BY <1>1, <1>3, <1>4, <1>5, <1>8, <3>1
  <2>3. CASE Pair(x, t) # Pair(d, s)
    <3>1. Pair(x, t) \notin todo
      BY <1>1, <1>12, <2>3
    <3>2. owners[t] # Nobody /\ root[owners[t]] = root[x]
      BY <1>2, <3>1 DEF Forest
    <3>3. owners'[t] = owners[t] /\ owners[t] \in Documents
      BY <1>1, <1>3, <1>4, <2>1, <3>2
    <3> QED
      BY <1>7, <3>2, <3>3
  <2> QED
    BY <2>2, <2>3
<1>13. Forest(merged)'
  BY <1>1, <1>6, <1>12 DEF Forest
<1> QED
  BY <1>9, <1>10, <1>11, <1>13 DEF GInv

LEMMA GroupsNext == GInv /\ [ScoringNext]_scoringVars => GInv'
<1> SUFFICES ASSUME GInv, [ScoringNext]_scoringVars PROVE GInv'
  OBVIOUS
<1>1. CASE \E d \in Documents, s \in AllSignals : Unite(d, s)
  BY <1>1, UniteKeeps
<1>2. CASE UNCHANGED <<signals, parents, owners, todo>>
  BY <1>2 DEF GInv, ForestTypes, OwnersHave, Forest, RootsAre
<1> QED
  BY <1>1, <1>2 DEF ScoringNext, Aggregate, scoringVars

-----------------------------------------------------------------------------
(* Groups                                                                   *)

LEMMA PreferredIsReason ==
  ASSUME NEW reasons, reasons # {},
         \A s \in reasons : s.value \in Nat /\ \E i \in 1..4 : s.kind = Priority[i]
  PROVE  Preferred(reasons) \in reasons
<1> DEFINE Has(i) == \E s \in reasons : s.kind = Priority[i]
           IsRank(i) == /\ Has(i)
                        /\ \A j \in 1..(i - 1) :
                             \A s \in reasons : s.kind # Priority[j]
           rank == CHOOSE i \in DOMAIN Priority : IsRank(i)
           first == {s \in reasons : s.kind = Priority[rank]}
           values == {s.value : s \in first}
<1>1. DOMAIN Priority = 1..4
  BY DEF Priority
<1>2. \E i \in 1..4 : IsRank(i)
  <2> DEFINE ranks == {i \in 1..4 : Has(i)}
  <2>1. ranks \in SUBSET Nat /\ ranks # {}
    OBVIOUS
  <2> HIDE DEF ranks
  <2>2. PICK i \in ranks : \A j \in ranks : i <= j
    BY <2>1, LeastNumber
  <2>3. i \in 1..4 /\ Has(i)
    BY <2>2 DEF ranks
  <2>4. ASSUME NEW j \in 1..(i - 1) PROVE ~ Has(j)
    <3>1. j \in 1..4 /\ ~ i <= j
      BY <2>3
    <3> QED
      BY <2>2, <3>1 DEF ranks
  <2> QED
    BY <2>3, <2>4
<1> HIDE DEF IsRank
<1>3. rank \in DOMAIN Priority /\ IsRank(rank)
  BY <1>1, <1>2
<1> HIDE DEF rank
<1>4. first # {} /\ first \subseteq reasons
  BY <1>3 DEF IsRank
<1>5. \E s \in first : \A t \in first : s.value <= t.value
  <2>1. values \in SUBSET Nat /\ values # {}
    BY <1>4
  <2> HIDE DEF values
  <2>2. PICK v \in values : \A w \in values : v <= w
    BY <2>1, LeastNumber
  <2> QED
    BY <2>2 DEF values
<1>6. Preferred(reasons) = CHOOSE s \in first : \A t \in first : s.value <= t.value
  BY DEF Preferred, rank, IsRank
<1> HIDE DEF first
<1> QED
  BY <1>4, <1>5, <1>6

(* The group of a component is named by a signal of one of its documents.   *)
LEMMA GroupIsSignal ==
  ASSUME signals \in [Documents -> Profiles], NEW C \in SUBSET Documents, C # {}
  PROVE  \E x \in C : Preferred(Reasons(signals, C)) \in signals[x]
<1> DEFINE reasons == Reasons(signals, C)
<1>1. \A s \in reasons : \E x \in C : s \in signals[x]
  BY DEF Reasons
<1>2. reasons # {}
  <2>1. PICK x \in C : TRUE
    OBVIOUS
  <2>2. PICK s \in signals[x] : s.kind = "source"
    BY ProfilesAssumption
  <2> QED
    BY <2>1, <2>2 DEF Reasons
<1>3. \A s \in reasons : s.value \in Nat /\ \E i \in 1..4 : s.kind = Priority[i]
  <2> HIDE DEF reasons
  <2> QED
    BY <1>1, ProfilesAssumption
<1> HIDE DEF reasons
<1>4. Preferred(reasons) \in reasons
  BY <1>2, <1>3, PreferredIsReason
<1> QED
  BY <1>1, <1>4 DEF reasons

LEMMA RootsAreComponents ==
  ASSUME GInv, todo = {}, NEW d \in Documents, NEW e \in Documents
  PROVE  Root(d) = Root(e) <=> e \in Component(signals, d)
<1>1. ForestTypes /\ DOMAIN signals = Documents
  BY DEF GInv, ForestTypes
<1>2. PICK root \in [Documents -> Documents] : Forest(root)
  BY DEF GInv
<1>3. \A x \in Documents : Root(x) = root[x]
  BY <1>1, <1>2, RootIs DEF ForestTypes, Forest
<1>4. ASSUME root[d] = root[e] PROVE e \in Component(signals, d)
  <2>1. root[d] \in Component(signals, d) /\ root[d] \in Component(signals, e)
    BY <1>2, <1>4 DEF Forest
  <2>2. e \in Component(signals, root[d])
    BY <1>1, <2>1, DependenceIsSymmetric
  <2> QED
    BY <1>1, <2>1, <2>2, DependenceIsTransitive
<1>5. ASSUME e \in Component(signals, d) PROVE root[d] = root[e]
  <2> DEFINE together == {x \in Documents : root[x] = root[d]}
  <2>1. ClosedUnderSharing(signals, together)
    <3> SUFFICES ASSUME NEW x \in together, NEW y \in Documents,
                        NEW s \in signals[x] \cap signals[y]
                 PROVE  root[y] = root[x]
      BY <1>1 DEF ClosedUnderSharing
    <3> QED
      BY <1>2 DEF Forest
  <2>2. together \in SUBSET DOMAIN signals /\ d \in together
    BY <1>1
  <2>3. e \in together
    BY <1>5, <2>1, <2>2 DEF Component
  <2> QED
    BY <2>3
<1> QED
  BY <1>3, <1>4, <1>5

LEMMA GroupsAreRoots ==
  ASSUME GInv, todo = {}, NEW d \in Documents, NEW e \in Documents
  PROVE  Group(d) = Group(e) <=> Root(d) = Root(e)
<1>1. signals \in [Documents -> Profiles]
  BY DEF GInv, ForestTypes
<1>2. Root(d) = Root(e) => Group(d) = Group(e)
  BY DEF Group, Found
<1>3. ASSUME Group(d) = Group(e) PROVE Root(d) = Root(e)
  <2>1. PICK x \in Found(d) : Group(d) \in signals[x]
    BY <1>1, GroupIsSignal DEF Group, Found
  <2>2. PICK y \in Found(e) : Group(e) \in signals[y]
    BY <1>1, GroupIsSignal DEF Group, Found
  <2>3. x \in Documents /\ y \in Documents /\ Root(x) = Root(d) /\ Root(y) = Root(e)
    BY DEF Found
  <2>4. y \in Component(signals, x)
    BY <1>1, <1>3, <2>1, <2>2, <2>3, SharersDepend
  <2> QED
    BY <2>3, <2>4, RootsAreComponents
<1> QED
  BY <1>2, <1>3

LEMMA GroupsInvariant == ScoringSpec => []GInv
  BY GroupsInit, GroupsNext, PTL DEF ScoringSpec

(* assign_independence_groups, for any number of documents with any         *)
(* signals, met in any order: the union-find finds exactly the documents    *)
(* that signals connect, and a group name stands for one component.         *)
THEOREM GroupsAreExact == ScoringSpec => []GroupsAreComponents
<1>1. ASSUME GInv PROVE GroupsAreComponents
  <2>1. \A d \in Documents :
          parents[d] <= d /\ parents[d] \in Component(signals, d)
    BY <1>1 DEF GInv, Forest
  <2>2. \A s \in AllSignals : owners[s] # Nobody => s \in signals[owners[s]]
    BY <1>1 DEF GInv, OwnersHave
  <2>3. ASSUME todo = {}, NEW d \in Documents, NEW e \in Documents
        PROVE  /\ Root(d) = Root(e) <=> e \in Component(signals, d)
               /\ Group(d) = Group(e) <=> Root(d) = Root(e)
    BY <1>1, <2>3, RootsAreComponents, GroupsAreRoots
  <2> QED
    BY <2>1, <2>2, <2>3 DEF GroupsAreComponents
<1> QED
  BY <1>1, GroupsInvariant, PTL

-----------------------------------------------------------------------------
(* The evidence that is aggregated                                          *)

(* Evidence is aggregated once, when the groups have their final names.     *)
Aggregated ==
  items # {} =>
    /\ todo = {}
    /\ \E read \in [Evidence -> Readings] :
         items = {Item(l, read[l]) : l \in Evidence}

LEMMA GroupsStay ==
  ASSUME UNCHANGED <<signals, parents>>, NEW l, NEW r
  PROVE  Item(l, r)' = Item(l, r)
BY DEF Item, Group, Found, Root, Ancestor

LEMMA AggregatedNext == Aggregated /\ [ScoringNext]_scoringVars => Aggregated'
<1> SUFFICES ASSUME Aggregated, [ScoringNext]_scoringVars PROVE Aggregated'
  OBVIOUS
<1>1. ASSUME NEW d \in Documents, NEW s \in AllSignals, Unite(d, s)
      PROVE  Aggregated'
  BY <1>1 DEF Unite, Aggregated
<1>2. CASE Aggregate
  <2>1. PICK read \in [Evidence -> Readings] : items' = {Item(l, read[l]) : l \in Evidence}
    BY <1>2 DEF Aggregate
  <2>2. todo' = {}
    BY <1>2 DEF Aggregate
  <2>3. \A l \in Evidence : Item(l, read[l])' = Item(l, read[l])
    BY <1>2, GroupsStay DEF Aggregate
  <2>4. items' = {Item(l, read[l])' : l \in Evidence}
    BY <2>1, <2>3
  <2> QED
    BY <2>2, <2>4 DEF Aggregated
<1>3. CASE UNCHANGED scoringVars
  <2> SUFFICES ASSUME items # {}
               PROVE  /\ todo' = {}
                      /\ \E read \in [Evidence -> Readings] :
                           items' = {Item(l, read[l])' : l \in Evidence}
    BY <1>3 DEF Aggregated, scoringVars
  <2>1. PICK read \in [Evidence -> Readings] : items = {Item(l, read[l]) : l \in Evidence}
    BY DEF Aggregated
  <2>2. todo' = {} /\ items' = items
    BY <1>3 DEF Aggregated, scoringVars
  <2>3. \A l \in Evidence : Item(l, read[l])' = Item(l, read[l])
    BY <1>3, GroupsStay DEF scoringVars
  <2> QED
    BY <2>1, <2>2, <2>3
<1> QED
  BY <1>1, <1>2, <1>3 DEF ScoringNext

LEMMA AggregatedInvariant == ScoringSpec => []Aggregated
<1>1. ScoringInit => Aggregated
  BY DEF ScoringInit, Aggregated
<1> QED
  BY <1>1, AggregatedNext, PTL DEF ScoringSpec

LEMMA ItemsAreFit ==
  ASSUME Aggregated
  PROVE  /\ Fit(items)
         /\ \A i \in items :
              /\ i = [link |-> i.link, stance |-> i.stance, group |-> i.group,
                      quality |-> i.quality, doc |-> i.doc]
              /\ todo = {} /\ i.doc \in Documents /\ i.group = Group(i.doc)
<1>1. CASE items = {}
  BY <1>1, FS_EmptySet, ScoringAssumption DEF Fit
<1>2. CASE items # {}
  <2>1. PICK read \in [Evidence -> Readings] : items = {Item(l, read[l]) : l \in Evidence}
    BY <1>2 DEF Aggregated
  <2>2. todo = {}
    BY <1>2 DEF Aggregated
  <2>3. \A l \in Evidence :
          /\ read[l].doc \in Documents /\ read[l].quality \in 0..Scale /\ l \in Nat
    BY DocumentsAssumption, ReadingsAssumption
  <2>4. \A l \in Evidence : /\ Item(l, read[l]).link = l
                         /\ Item(l, read[l]).doc = read[l].doc
                         /\ Item(l, read[l]).quality = read[l].quality
                         /\ Item(l, read[l]).group = Group(read[l].doc)
                         /\ Item(l, read[l]).stance = read[l].stance
    BY DEF Item
  <2>5. IsFiniteSet(items) /\ Cardinality(items) <= Most
    <3> DEFINE f == [l \in Evidence |-> Item(l, read[l])]
    <3>1. f \in Surjection(Evidence, items)
      BY <2>1 DEF Surjection
    <3>2. /\ IsFiniteSet(items) /\ Cardinality(items) <= Cardinality(Evidence)
          /\ Cardinality(items) \in Nat /\ Cardinality(Evidence) \in Nat
      <4> HIDE DEF f
      <4> QED
        BY <3>1, FS_Surjection, FS_CardinalityType, DocumentsAssumption
    <3> QED
      BY <3>2, DocumentsAssumption, ScoringAssumption
  <2>6. Fit(items)
    BY <2>1, <2>3, <2>4, <2>5 DEF Fit
  <2>7. ASSUME NEW i \in items
        PROVE  /\ i = [link |-> i.link, stance |-> i.stance, group |-> i.group,
                       quality |-> i.quality, doc |-> i.doc]
               /\ i.doc \in Documents /\ i.group = Group(i.doc)
    <3>1. PICK l \in Evidence : i = Item(l, read[l])
      BY <2>1
    <3>2. i = [link |-> l, stance |-> read[l].stance, group |-> Group(read[l].doc),
               quality |-> read[l].quality, doc |-> read[l].doc]
      BY <3>1 DEF Item
    <3> QED
      BY <2>3, <3>2
  <2> QED
    BY <2>2, <2>6, <2>7
<1> QED
  BY <1>1, <1>2

(* The items apart are the items, each under the name of its document.      *)
Alone(i) == [i EXCEPT !.group = i.doc]

LEMMA AloneIs ==
  ASSUME NEW i, i = [link |-> i.link, stance |-> i.stance, group |-> i.group,
                     quality |-> i.quality, doc |-> i.doc]
  PROVE  /\ Alone(i).link = i.link /\ Alone(i).stance = i.stance
         /\ Alone(i).group = i.doc /\ Alone(i).quality = i.quality
         /\ Alone(i).doc = i.doc
BY DEF Alone

LEMMA ApartIsFit ==
  ASSUME Aggregated
  PROVE  /\ Fit(Apart)
         /\ \A i \in items : /\ Alone(i).link = i.link /\ Alone(i).stance = i.stance
                             /\ Alone(i).group = i.doc /\ Alone(i).quality = i.quality
                             /\ Alone(i) \in Apart
<1>1. \A i \in items : /\ Alone(i).link = i.link /\ Alone(i).stance = i.stance
                       /\ Alone(i).group = i.doc /\ Alone(i).quality = i.quality
                       /\ Alone(i) \in Apart
  BY ItemsAreFit, AloneIs DEF Apart, Alone
<1>2. Apart = {Alone(i) : i \in items}
  BY DEF Apart, Alone
<1>3. Fit(items)
  BY ItemsAreFit
<1>4. IsFiniteSet(Apart) /\ Cardinality(Apart) <= Most
  <2> DEFINE f == [i \in items |-> Alone(i)]
  <2>1. f \in Surjection(items, Apart)
    BY <1>2 DEF Surjection
  <2>2. /\ IsFiniteSet(Apart) /\ Cardinality(Apart) <= Cardinality(items)
        /\ Cardinality(items) \in Nat /\ Cardinality(Apart) \in Nat
    <3> HIDE DEF f
    <3> QED
      BY <1>3, <2>1, FS_Surjection, FS_CardinalityType DEF Fit
  <2> QED
    BY <1>3, <2>2, ScoringAssumption DEF Fit
<1>5. \A j \in Apart : j.quality \in 0..Scale /\ j.link \in Nat
  BY <1>1, <1>2, <1>3 DEF Fit
<1>6. \A j, k \in Apart : j.link = k.link => j = k
  BY <1>1, <1>2, <1>3 DEF Fit
<1> QED
  BY <1>1, <1>4, <1>5, <1>6 DEF Fit

LEMMA ApartIsStronger ==
  ASSUME Aggregated, NEW stance
  PROVE  Strength(items, stance) <= Strength(Apart, stance)
<1> DEFINE f == [i \in Of(items, stance) |-> Alone(i)]
<1>1. Fit(items) /\ Fit(Apart)
  BY ItemsAreFit, ApartIsFit
<1>2. f \in Bijection(Of(items, stance), Of(Apart, stance))
  <2>1. \A i \in Of(items, stance) : f[i] \in Of(Apart, stance)
    BY ApartIsFit DEF Of
  <2>2. ASSUME NEW i \in Of(items, stance), NEW j \in Of(items, stance), f[i] = f[j]
        PROVE  i = j
    <3>1. i \in items /\ j \in items /\ i.link = j.link
      BY <2>2, ApartIsFit DEF Of
    <3> QED
      BY <1>1, <3>1 DEF Fit
  <2>3. ASSUME NEW j \in Of(Apart, stance)
        PROVE  \E i \in Of(items, stance) : f[i] = j
    <3>1. PICK i \in items : j = Alone(i)
      BY DEF Of, Apart, Alone
    <3>2. i.stance = stance
      BY <3>1, ApartIsFit DEF Of
    <3> QED
      BY <3>1, <3>2 DEF Of
  <2> QED
    BY <2>1, <2>2, <2>3 DEF Bijection, Injection, Surjection, IsInjective
<1>3. ASSUME NEW i \in Of(items, stance)
      PROVE  Weighted(items, i) <= Weighted(Apart, Alone(i))
  <2>1. i \in items /\ Alone(i) \in Apart /\ Alone(i).quality = i.quality
        /\ i.quality \in Nat /\ i.link \in Nat
    BY <1>1, ApartIsFit, WeightIsBounded DEF Of, Fit
  <2>2. /\ Weighted(items, i) \in {i.quality, 4 * i.quality}
        /\ Weighted(Apart, Alone(i)) \in {i.quality, 4 * i.quality}
    BY <1>1, <2>1, WeightIsBounded
  <2>3. CASE Weighted(items, i) = i.quality
    BY <2>1, <2>2, <2>3
  <2>4. CASE Weighted(items, i) # i.quality
    <3>1. \A j \in Peers(items, i) :
            i.quality > j.quality \/ (i.quality = j.quality /\ i.link <= j.link)
      BY <2>4 DEF Weighted
    <3>2. ASSUME NEW k \in Peers(Apart, Alone(i))
          PROVE  Alone(i).quality > k.quality
                 \/ (Alone(i).quality = k.quality /\ Alone(i).link <= k.link)
      <4>1. PICK j \in items : k = Alone(j)
        BY DEF Peers, Apart, Alone
      <4>2. j.stance = i.stance /\ j.doc = i.doc
        BY <2>1, <4>1, ApartIsFit DEF Peers
      <4>3. j.group = i.group
        BY <2>1, <4>1, <4>2, ItemsAreFit
      <4>4. j \in Peers(items, i)
        BY <4>1, <4>2, <4>3 DEF Peers
      <4> QED
        BY <2>1, <3>1, <4>1, <4>4, ApartIsFit
    <3>3. Weighted(Apart, Alone(i)) = 4 * i.quality
      BY <2>1, <3>2 DEF Weighted
    <3> QED
      BY <2>1, <2>2, <3>3
  <2> QED
    BY <2>3, <2>4
<1>4. \A i \in Of(items, stance) : Weighted(items, i) <= Weighted(Apart, f[i])
  BY <1>3
<1> QED
  <2> HIDE DEF f
  <2> QED
    BY <1>1, <1>2, <1>4, WeightsRaiseStrength

(* Two independence groups are two documents that no signals connect.       *)
LEMMA TwoGroupsAreApart ==
  ASSUME GInv, Aggregated, Cardinality(SupportingGroups(items)) >= 2
  PROVE  \E i, j \in Of(items, "supports") : j.doc \notin Component(signals, i.doc)
<1>1. PICK i \in Of(items, "supports"), j \in Of(items, "supports") : i.group # j.group
  <2> SUFFICES ASSUME \A i, j \in Of(items, "supports") : i.group = j.group
               PROVE  FALSE
    OBVIOUS
  <2>1. CASE SupportingGroups(items) = {}
    BY <2>1, FS_EmptySet
  <2>2. CASE SupportingGroups(items) # {}
    <3>1. PICK i \in Of(items, "supports") : TRUE
      BY <2>2 DEF SupportingGroups
    <3>2. SupportingGroups(items) = {i.group}
      BY <3>1 DEF SupportingGroups
    <3>3. Cardinality(SupportingGroups(items)) = 1
      BY <3>2, FS_Singleton
    <3> QED
      BY <3>3
  <2> QED
    BY <2>1, <2>2
<1>2. /\ todo = {} /\ i.doc \in Documents /\ j.doc \in Documents
      /\ i.group = Group(i.doc) /\ j.group = Group(j.doc)
  BY ItemsAreFit DEF Of
<1>3. Root(i.doc) # Root(j.doc)
  BY <1>1, <1>2, GroupsAreRoots
<1>4. j.doc \notin Component(signals, i.doc)
  BY <1>2, <1>3, RootsAreComponents
<1> QED
  BY <1>4

(* However the documents of a cluster depend on each other, counting their  *)
(* dependence makes neither side stronger than aggregate_cluster would make *)
(* it for independent documents, and a cluster that it calls well supported *)
(* is supported by two documents that no chain of shared signals connects.  *)
THEOREM DependenceAddsNoStrength == ScoringSpec => []DependenceNeverAddsStrength
<1>1. ASSUME GInv, Aggregated PROVE DependenceNeverAddsStrength
  <2>1. Support(items) <= Support(Apart)
    BY <1>1, ApartIsStronger DEF Support
  <2>2. Contradiction(items) <= Contradiction(Apart)
    BY <1>1, ApartIsStronger DEF Contradiction
  <2>3. ASSUME Label(items) = "well_supported"
        PROVE  \E i, j \in Of(items, "supports") :
                 j.doc \notin Component(signals, i.doc)
    <3>1. Cardinality(SupportingGroups(items)) >= 2
      BY <2>3 DEF Label
    <3> QED
      BY <1>1, <3>1, TwoGroupsAreApart
  <2> QED
    BY <2>1, <2>2, <2>3 DEF DependenceNeverAddsStrength
<1> QED
  BY <1>1, GroupsInvariant, AggregatedInvariant, PTL

(* Whatever evidence a cluster has, one more supporting link never lowers   *)
(* the confidence aggregate_cluster computes, one more contradicting link   *)
(* never raises it, and a link of another stance leaves it as it is: also   *)
(* when the best of an independence group comes or goes, and with it the    *)
(* weight of another.  The groups of the other links stay as they are.      *)
THEOREM EvidencePulls == ScoringSpec => []EvidencePullsItsWay
<1>1. ASSUME Aggregated PROVE EvidencePullsItsWay
  <2>1. Fit(items)
    BY <1>1, ItemsAreFit
  <2>2. ASSUME NEW i \in items, i.stance = "supports"
        PROVE  Confidence(items \ {i}) <= Confidence(items)
    BY <2>1, <2>2, SupportRaisesConfidence
  <2>3. ASSUME NEW i \in items, i.stance = "contradicts"
        PROVE  Confidence(items) <= Confidence(items \ {i})
    BY <2>1, <2>3, ContradictionLowersConfidence
  <2>4. ASSUME NEW i \in items, i.stance # "supports", i.stance # "contradicts"
        PROVE  Confidence(items) = Confidence(items \ {i})
    <3>1. /\ Of(items \ {i}, "supports") = Of(items, "supports")
          /\ Doubt(items \ {i}, "supports") = Doubt(items, "supports")
      BY <2>1, <2>4, OtherDoubtStays
    <3>2. /\ Of(items \ {i}, "contradicts") = Of(items, "contradicts")
          /\ Doubt(items \ {i}, "contradicts") = Doubt(items, "contradicts")
      BY <2>1, <2>4, OtherDoubtStays
    <3> QED
      BY <3>1, <3>2 DEF Confidence
  <2> QED
    BY <2>2, <2>3, <2>4 DEF EvidencePullsItsWay
<1> QED
  BY <1>1, AggregatedInvariant, PTL
=============================================================================
