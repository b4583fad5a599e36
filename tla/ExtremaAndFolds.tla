---------------------------- MODULE ExtremaAndFolds ----------------------------
(***************************************************************************)
(* What the proofs about sequences share: the least and the greatest       *)
(* element of a set, induction by a least counterexample, the recursive    *)
(* function behind FoldLeft, and the partial sums of a sequence.           *)
(***************************************************************************)
EXTENDS Integers, Sequences, FiniteSetsExt, TLAPS, WellFoundedInduction

\* A set of naturals has a least element: the order is well-founded.
LEMMA NaturalsHaveMin ==
  ASSUME NEW S \in SUBSET Nat, S # {}
  PROVE  \E x \in S : \A y \in S : x <= y
<1> DEFINE R == {ss \in Nat \X Nat : ss[1] < ss[2]}
<1>1. R = OpToRel(<, Nat)
  BY Zenon DEF OpToRel
<1>2. IsWellFoundedOn(R, Nat)
  BY <1>1, NatLessThanWellFounded, Zenon
<1>3. PICK x \in S : \A y \in S : ~ (<<y, x>> \in R)
  BY <1>2, WFMin, Zenon
<1>4. ASSUME NEW y \in S PROVE x <= y
  <2>1. ~ (<<y, x>> \in R)
    BY <1>3
  <2>2. x \in Nat /\ y \in Nat
    OBVIOUS
  <2>3. ~ (y < x)
    <3> SUFFICES ASSUME y < x PROVE <<y, x>> \in R
      BY <2>1
    <3>1. <<y, x>> \in Nat \X Nat /\ <<y, x>>[1] = y /\ <<y, x>>[2] = x
      BY <2>2
    <3> QED
      BY <3>1
  <2> QED
    BY <2>2, <2>3
<1> QED
  BY <1>4

\* So Min is in it.
LEMMA MinOfNaturals ==
  ASSUME NEW S \in SUBSET Nat, S # {}
  PROVE  Min(S) \in S /\ \A y \in S : Min(S) <= y
BY NaturalsHaveMin DEF Min

\* Finitely many naturals are bounded.
LEMMA IntervalIsBounded ==
  ASSUME NEW n \in Nat, NEW g, \A i \in 1..n : g[i] \in Nat
  PROVE  \E cap \in Nat : \A i \in 1..n : g[i] <= cap
<1> DEFINE Bounded(m) == \E cap \in Nat : \A i \in 1..m : g[i] <= cap
           T == {m \in 0..n : ~Bounded(m)}
<1>1. \A m : Bounded(m) <=> \E cap \in Nat : \A i \in 1..m : g[i] <= cap
  OBVIOUS
<1> HIDE DEF Bounded
<1>2. CASE T = {}
  <2>1. n \in 0..n /\ n \notin T
    BY <1>2
  <2>2. Bounded(n)
    BY <2>1
  <2> QED
    BY <1>1, <2>2
<1>3. ASSUME T # {} PROVE FALSE
  <2>1. PICK m \in T : \A y \in T : m <= y
    <3>1. T \in SUBSET Nat
      OBVIOUS
    <3> QED
      BY <1>3, <3>1, NaturalsHaveMin
  <2>2. m \in 0..n /\ ~Bounded(m)
    BY <2>1
  <2>3. m # 0
    <3>1. \A i \in 1..0 : g[i] <= 0
      OBVIOUS
    <3>2. Bounded(0)
      BY <1>1, <3>1
    <3> QED
      BY <2>2, <3>2
  <2>4. m - 1 \in 0..n /\ m - 1 \notin T
    <3>1. m - 1 \in 0..n /\ ~ (m <= m - 1)
      BY <2>2, <2>3
    <3> QED
      BY <2>1, <3>1
  <2>5. PICK cap \in Nat : \A i \in 1..(m - 1) : g[i] <= cap
    <3>1. Bounded(m - 1)
      BY <2>4
    <3> QED
      BY <1>1, <3>1
  <2>6. g[m] \in Nat
    BY <2>2, <2>3
  <2> DEFINE larger == IF g[m] > cap THEN g[m] ELSE cap
  <2>7. larger \in Nat /\ \A i \in 1..m : g[i] <= larger
    <3>1. \A i \in 1..m : i \in 1..(m - 1) \/ i = m
      BY <2>2
    <3>2. \A i \in 1..m : g[i] \in Nat
      BY <2>2
    <3>3. larger \in Nat /\ larger >= cap /\ larger >= g[m]
      BY <2>6
    <3> HIDE DEF larger
    <3>4. ASSUME NEW i \in 1..m PROVE g[i] <= larger
      BY <2>5, <2>6, <3>1, <3>2, <3>3
    <3> QED
      BY <3>3, <3>4
  <2> QED
    BY <1>1, <2>2, <2>7
<1> QED
  BY <1>2, <1>3

\* A bounded set of naturals has a greatest element, as its mirror image has a least.
LEMMA BoundedHaveMax ==
  ASSUME NEW S \in SUBSET Nat, S # {}, NEW cap \in Nat, \A y \in S : y <= cap
  PROVE  \E x \in S : \A y \in S : x >= y
<1> DEFINE T == {cap - y : y \in S}
<1>1. T \in SUBSET Nat /\ T # {}
  <2>1. \A y \in S : cap - y \in Nat
    OBVIOUS
  <2> QED
    BY <2>1
<1>2. PICK t \in T : \A u \in T : t <= u
  BY <1>1, NaturalsHaveMin
<1>3. PICK x \in S : t = cap - x
  OBVIOUS
<1>4. ASSUME NEW y \in S PROVE x >= y
  <2>1. cap - y \in T
    OBVIOUS
  <2>2. cap - x <= cap - y
    BY <1>2, <1>3, <2>1
  <2> QED
    BY <2>2
<1> QED
  BY <1>4

\* So Max is in it.
LEMMA MaxOfBounded ==
  ASSUME NEW S \in SUBSET Nat, S # {}, NEW cap \in Nat, \A y \in S : y <= cap
  PROVE  Max(S) \in S /\ \A y \in S : Max(S) >= y
BY BoundedHaveMax DEF Max

\* Min of two integers.
LEMMA MinOfTwo ==
  ASSUME NEW a \in Int, NEW b \in Int
  PROVE  Min({a, b}) \in {a, b} /\ Min({a, b}) <= a /\ Min({a, b}) <= b
<1>1. \E x \in {a, b} : \A y \in {a, b} : x <= y
  BY SMT
<1> QED
  BY <1>1 DEF Min

\* Max of two integers.
LEMMA MaxOfTwo ==
  ASSUME NEW a \in Int, NEW b \in Int
  PROVE  Max({a, b}) \in {a, b} /\ Max({a, b}) >= a /\ Max({a, b}) >= b
<1>1. \E x \in {a, b} : \A y \in {a, b} : x >= y
  BY SMT
<1> QED
  BY <1>1 DEF Max

\* An element that no other passes is the one Max and Min choose.
LEMMA MaxIsGreatest ==
  ASSUME NEW S \in SUBSET Int, NEW x \in S, \A y \in S : x >= y
  PROVE  Max(S) = x
<1>1. \E z \in S : \A y \in S : z >= y
  OBVIOUS
<1>2. Max(S) \in S /\ \A y \in S : Max(S) >= y
  BY <1>1 DEF Max
<1>3. Max(S) >= x /\ x >= Max(S) /\ Max(S) \in Int /\ x \in Int
  BY <1>2
<1> QED
  BY <1>3

LEMMA MinIsLeast ==
  ASSUME NEW S \in SUBSET Int, NEW x \in S, \A y \in S : x <= y
  PROVE  Min(S) = x
<1>1. \E z \in S : \A y \in S : z <= y
  OBVIOUS
<1>2. Min(S) \in S /\ \A y \in S : Min(S) <= y
  BY <1>1 DEF Min
<1>3. Min(S) <= x /\ x <= Min(S) /\ Min(S) \in Int /\ x \in Int
  BY <1>2
<1> QED
  BY <1>3

-------------------------------------------------------------------------------
(* Induction and folds.  FoldLeft is a recursive function on the subsets   *)
(* of the indices, which takes the greatest index away; it has a value for *)
(* every sequence because one such function exists.                        *)

\* Induction up to n, for a property given as the set of numbers that have it.
LEMMA InductionUpTo ==
  ASSUME NEW n \in Nat, NEW P, 0 \in P, \A k \in 1..n : k - 1 \in P => k \in P
  PROVE  \A k \in 0..n : k \in P
<1> DEFINE T == {k \in 0..n : k \notin P}
<1>1. ASSUME T # {} PROVE FALSE
  <2>1. T \in SUBSET Nat
    OBVIOUS
  <2>2. PICK k \in T : \A y \in T : k <= y
    <3> HIDE DEF T
    <3> QED
      BY <1>1, <2>1, NaturalsHaveMin
  <2>3. k \in 0..n /\ k \notin P /\ k # 0
    BY <2>2
  <2>4. k - 1 \in 0..n /\ ~ (k <= k - 1) /\ k \in 1..n
    BY <2>3
  <2>5. k - 1 \notin T
    BY <2>2, <2>4
  <2>6. k - 1 \in P
    BY <2>4, <2>5
  <2> QED
    BY <2>3, <2>4, <2>6
<1> QED
  BY <1>1

\* Prefixes of the indices: the greatest one, and what is left without it.
LEMMA IndexPrefixes ==
  ASSUME NEW n \in Nat
  PROVE  /\ 1..0 = {} /\ {} \in SUBSET (1..n) /\ (1..n) \in SUBSET (1..n)
         /\ \A k \in 1..n : /\ (1..k) \in SUBSET (1..n) /\ 1..k # {}
                            /\ (1..(k - 1)) \in SUBSET (1..n)
                            /\ Max(1..k) = k /\ (1..k) \ {k} = 1..(k - 1)
<1>1. ASSUME NEW k \in 1..n
      PROVE  /\ (1..k) \in SUBSET (1..n) /\ 1..k # {}
             /\ (1..(k - 1)) \in SUBSET (1..n)
             /\ Max(1..k) = k /\ (1..k) \ {k} = 1..(k - 1)
  <2>1. (1..k) \in SUBSET Int /\ k \in 1..k /\ \A y \in 1..k : k >= y
    OBVIOUS
  <2>2. Max(1..k) = k
    BY <2>1, MaxIsGreatest
  <2>3. (1..k) \ {k} = 1..(k - 1)
    OBVIOUS
  <2>4. (1..k) \in SUBSET (1..n) /\ (1..(k - 1)) \in SUBSET (1..n)
    OBVIOUS
  <2> QED
    BY <2>1, <2>2, <2>3, <2>4
<1> QED
  BY <1>1

\* The greatest of some indices is one of them.
LEMMA GreatestIndex ==
  ASSUME NEW n \in Nat, NEW x \in SUBSET (1..n), x # {}
  PROVE  Max(x) \in x /\ x \ {Max(x)} \in SUBSET (1..n)
<1>1. x \in SUBSET Nat /\ \A y \in x : y <= n
  OBVIOUS
<1> QED
  BY <1>1, MaxOfBounded

\* g folds a step over the subsets of 1..n, the greatest index last.
FoldsTo(g, n, base, step) ==
  \A x \in SUBSET (1..n) :
    g[x] = IF x = {} THEN base ELSE step[<<g[x \ {Max(x)}], Max(x)>>]

CanFold(n, S, base, step) ==
  \E g \in [SUBSET (1..n) -> S] : FoldsTo(g, n, base, step)

\* A function that folds a step over the subsets of 1..n exists.
LEMMA FoldExists ==
  ASSUME NEW n \in Nat, NEW S, NEW base \in S, NEW step \in [S \X (1..n) -> S]
  PROVE  CanFold(n, S, base, step)
<1> DEFINE Folds(g, m) ==
             \A x \in SUBSET (1..m) :
               g[x] = IF x = {} THEN base ELSE step[<<g[x \ {Max(x)}], Max(x)>>]
           P == {m \in 0..n : \E g \in [SUBSET (1..m) -> S] : Folds(g, m)}
<1>1. 0 \in P
  <2> DEFINE g == [x \in SUBSET (1..0) |-> base]
  <2>1. g \in [SUBSET (1..0) -> S]
    OBVIOUS
  <2>2. \A x \in SUBSET (1..0) : x = {} /\ g[x] = base
    OBVIOUS
  <2> HIDE DEF g
  <2>3. Folds(g, 0)
    BY <2>2
  <2> HIDE DEF Folds
  <2>4. 0 \in 0..n
    OBVIOUS
  <2> QED
    BY <2>1, <2>3, <2>4
<1>2. ASSUME NEW m \in 1..n, m - 1 \in P PROVE m \in P
  <2>1. PICK g \in [SUBSET (1..(m - 1)) -> S] : Folds(g, m - 1)
    BY <1>2
  <2> DEFINE h == [x \in SUBSET (1..m) |-> IF m \in x THEN step[<<g[x \ {m}], m>>]
                                                      ELSE g[x]]
  <2>2. /\ \A x \in SUBSET (1..m) : x \ {m} \in SUBSET (1..(m - 1))
        /\ \A x \in SUBSET (1..m) : m \notin x => x \in SUBSET (1..(m - 1))
        /\ \A x \in SUBSET (1..(m - 1)) : x \in SUBSET (1..m) /\ m \notin x
    OBVIOUS
  <2>3. \A x \in SUBSET (1..(m - 1)) : g[x] \in S
    BY <2>1
  <2>4. ASSUME NEW x \in SUBSET (1..m), m \in x
        PROVE  h[x] = step[<<g[x \ {m}], m>>] /\ h[x] \in S
    <3>1. <<g[x \ {m}], m>> \in S \X (1..n)
      BY <2>2, <2>3
    <3> QED
      BY <2>4, <3>1
  <2>5. ASSUME NEW x \in SUBSET (1..(m - 1)) PROVE h[x] = g[x]
    BY <2>2
  <2>6. h \in [SUBSET (1..m) -> S]
    <3>1. ASSUME NEW x \in SUBSET (1..m) PROVE h[x] \in S
      BY <2>2, <2>3, <2>4, <2>5
    <3> QED
      BY <3>1
  <2> HIDE DEF h
  <2>7. ASSUME NEW x \in SUBSET (1..m)
        PROVE  h[x] = IF x = {} THEN base ELSE step[<<h[x \ {Max(x)}], Max(x)>>]
    <3>1. CASE x = {}
      <4>1. g[{}] = base
        BY <2>1
      <4> QED
        BY <2>2, <2>5, <3>1, <4>1
    <3>2. CASE m \in x
      <4>1. Max(x) = m
        <5>1. x \in SUBSET Int /\ \A y \in x : m >= y
          OBVIOUS
        <5> QED
          BY <3>2, <5>1, MaxIsGreatest
      <4> QED
        BY <2>2, <2>4, <2>5, <3>2, <4>1
    <3>3. CASE x # {} /\ m \notin x
      <4>1. x \in SUBSET (1..(m - 1)) /\ x \ {Max(x)} \in SUBSET (1..(m - 1))
        BY <2>2, <3>3
      <4>2. g[x] = step[<<g[x \ {Max(x)}], Max(x)>>]
        BY <2>1, <3>3, <4>1
      <4> QED
        BY <2>5, <3>3, <4>1, <4>2
    <3> QED
      BY <3>1, <3>2, <3>3
  <2>8. Folds(h, m)
    BY <2>7
  <2>9. m \in 0..n
    OBVIOUS
  <2> HIDE DEF Folds
  <2> QED
    BY <2>6, <2>8, <2>9
<1> HIDE DEF P
<1>3. n \in P
  <2>1. n \in 0..n
    OBVIOUS
  <2> QED
    BY <1>1, <1>2, <2>1, InductionUpTo
<1> QED
  BY <1>3 DEF P, FoldsTo, CanFold

\* h holds the partial sums of s.
SumsOf(h, s) ==
  /\ h \in [0..Len(s) -> Int] /\ h[0] = 0
  /\ \A k \in 1..Len(s) : h[k] = h[k - 1] + s[k]

\* Every sequence of integers has partial sums.
LEMMA PartialSums ==
  ASSUME NEW s \in Seq(Int)
  PROVE  \E h : SumsOf(h, s)
<1> DEFINE n == Len(s)
           step == [a \in Int \X (1..n) |-> a[1] + s[a[2]]]
<1>1. n \in Nat /\ DOMAIN s = 1..n /\ \A i \in 1..n : s[i] \in Int
  OBVIOUS
<1>2. step \in [Int \X (1..n) -> Int]
  BY <1>1
<1>3. \A acc \in Int, i \in 1..n : step[<<acc, i>>] = acc + s[i]
  OBVIOUS
<1> HIDE DEF step, n
<1>4. PICK g \in [SUBSET (1..n) -> Int] : FoldsTo(g, n, 0, step)
  <2>1. n \in Nat /\ 0 \in Int
    BY <1>1
  <2>2. CanFold(n, Int, 0, step)
    BY <1>2, <2>1, FoldExists, Zenon
  <2> QED
    BY <2>2 DEF CanFold
<1> DEFINE h == [k \in 0..n |-> g[1..k]]
<1>5. h \in [0..n -> Int]
  <2>1. \A k \in 0..n : (1..k) \in SUBSET (1..n)
    BY <1>1, IndexPrefixes
  <2> QED
    BY <1>4, <2>1
<1>6. h[0] = 0
  <2>1. 1..0 = {} /\ 0 \in 0..n /\ {} \in SUBSET (1..n)
    BY <1>1, IndexPrefixes
  <2> QED
    BY <1>4, <2>1 DEF FoldsTo
<1>7. ASSUME NEW k \in 1..n PROVE h[k] = h[k - 1] + s[k]
  <2>1. /\ (1..k) \in SUBSET (1..n) /\ 1..k # {}
        /\ Max(1..k) = k /\ (1..k) \ {k} = 1..(k - 1)
    BY <1>1, IndexPrefixes
  <2>2. k - 1 \in 0..n /\ k \in 0..n
    BY <1>1
  <2>3. g[1..k] = step[<<g[1..(k - 1)], k>>]
    BY <1>4, <2>1 DEF FoldsTo
  <2>4. h[k] = g[1..k] /\ h[k - 1] = g[1..(k - 1)]
    BY <2>2
  <2>5. g[1..(k - 1)] \in Int
    BY <1>5, <2>2, <2>4
  <2> QED
    BY <1>3, <2>3, <2>4, <2>5
<1> HIDE DEF h
<1>8. SumsOf(h, s)
  BY <1>5, <1>6, <1>7 DEF SumsOf, n
<1> QED
  BY <1>8
================================================================================
