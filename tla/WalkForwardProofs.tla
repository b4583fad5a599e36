--------------------------- MODULE WalkForwardProofs ---------------------------
(***************************************************************************)
(* What WalkForward guarantees for every history, every grid of thresholds *)
(* and every length of the windows.                                        *)
(***************************************************************************)
EXTENDS WalkForward, ExtremaAndFolds, SequenceTheorems

-------------------------------------------------------------------------------
(* The three folds, by the values they have after k elements.              *)

\* The sum of a sequence is the last of its partial sums.
LEMMA TotalIsLastSum ==
  ASSUME NEW s \in Seq(Int), NEW h, h[0] = 0,
         \A k \in 1..Len(s) : h[k] \in Int /\ h[k] = h[k - 1] + s[k]
  PROVE  Total(s) = h[Len(s)]
<1> DEFINE n == Len(s)
           step == [a \in Int \X (1..n) |-> a[1] + s[a[2]]]
           Sums(g) == g = [x \in SUBSET (DOMAIN s) |->
                             IF x = {} THEN 0 ELSE g[x \ {Max(x)}] + s[Max(x)]]
           iter == CHOOSE g : Sums(g)
<1>1. n \in Nat /\ DOMAIN s = 1..n /\ \A i \in 1..n : s[i] \in Int
  OBVIOUS
<1>2. Total(s) = iter[DOMAIN s]
  BY Zenon DEF Total, FoldLeft, MapThenFoldSet
<1>3. \E g : Sums(g)
  <2>1. step \in [Int \X (1..n) -> Int]
    BY <1>1
  <2>2. \A acc \in Int, i \in 1..n : step[<<acc, i>>] = acc + s[i]
    OBVIOUS
  <2> HIDE DEF step, n
  <2>3. PICK g \in [SUBSET (1..n) -> Int] : FoldsTo(g, n, 0, step)
    <3>1. n \in Nat /\ 0 \in Int
      BY <1>1
    <3>2. CanFold(n, Int, 0, step)
      BY <2>1, <3>1, FoldExists, Zenon
    <3> QED
      BY <3>2 DEF CanFold
  <2>4. ASSUME NEW x \in SUBSET (1..n)
        PROVE  g[x] = IF x = {} THEN 0 ELSE g[x \ {Max(x)}] + s[Max(x)]
    <3>1. CASE x = {}
      BY <2>3, <3>1 DEF FoldsTo
    <3>2. CASE x # {}
      <4>1. Max(x) \in x
        BY <1>1, <3>2, GreatestIndex
      <4>2. g[x \ {Max(x)}] \in Int /\ Max(x) \in 1..n
        BY <1>1, <2>3, <3>2, <4>1, GreatestIndex
      <4> QED
        BY <2>2, <2>3, <3>2, <4>2 DEF FoldsTo
    <3> QED
      BY <3>1, <3>2
  <2>5. g = [x \in SUBSET (1..n) |-> g[x]]
    OBVIOUS
  <2>6. [x \in SUBSET (1..n) |-> g[x]]
          = [x \in SUBSET (1..n) |-> IF x = {} THEN 0 ELSE g[x \ {Max(x)}] + s[Max(x)]]
    BY <2>4
  <2>7. Sums(g)
    BY <1>1, <2>5, <2>6
  <2> QED
    BY <2>7
<1>4. Sums(iter)
  <2> HIDE DEF Sums
  <2> QED
    BY <1>3
<1> HIDE DEF iter
<1>5. \A x \in SUBSET (1..n) :
        iter[x] = IF x = {} THEN 0 ELSE iter[x \ {Max(x)}] + s[Max(x)]
  BY <1>1, <1>4
<1> DEFINE P == {k \in 0..n : iter[1..k] = h[k]}
<1>6. 0 \in P
  <2>1. 1..0 = {} /\ iter[{}] = 0
    BY <1>1, <1>5, IndexPrefixes
  <2> QED
    BY <1>1, <2>1
<1>7. ASSUME NEW k \in 1..n, k - 1 \in P PROVE k \in P
  <2>1. /\ (1..k) \in SUBSET (1..n) /\ 1..k # {}
        /\ Max(1..k) = k /\ (1..k) \ {k} = 1..(k - 1)
    BY <1>1, IndexPrefixes
  <2>2. iter[1..k] = iter[1..(k - 1)] + s[k]
    <3>1. iter[1..k] = iter[(1..k) \ {Max(1..k)}] + s[Max(1..k)]
      BY <1>5, <2>1
    <3> QED
      BY <2>1, <3>1
  <2>3. iter[1..(k - 1)] = h[k - 1] /\ k \in 0..n
    BY <1>1, <1>7
  <2>4. iter[1..k] = h[k]
    BY <2>2, <2>3
  <2> QED
    BY <2>3, <2>4
<1>8. n \in P
  <2> HIDE DEF P
  <2>1. n \in 0..n
    BY <1>1
  <2> QED
    BY <1>1, <1>6, <1>7, <2>1, InductionUpTo
<1>9. iter[1..n] = h[n]
  BY <1>8
<1> QED
  BY <1>1, <1>2, <1>9

\* The sum of a slice is a difference of partial sums.
LEMMA SumOfSlice ==
  ASSUME NEW s \in Seq(Int), NEW h \in [0..Len(s) -> Int],
         \A k \in 1..Len(s) : h[k] = h[k - 1] + s[k],
         NEW a \in 1..Len(s), NEW b \in 1..Len(s)
  PROVE  Total(SubSeq(s, a, b)) = IF a <= b THEN h[b] - h[a - 1] ELSE 0
<1> DEFINE c == SubSeq(s, a, b)
           lo == a - 1
           m == IF a <= b THEN b - a + 1 ELSE 0
           e == [i \in 0..m |-> h[lo + i] - h[lo]]
<1>1. /\ Len(s) \in Nat /\ a \in Int /\ b \in Int /\ 1 <= a /\ b <= Len(s)
      /\ 1 <= b /\ a <= Len(s)
  OBVIOUS
<1>2. /\ c \in Seq(Int) /\ Len(c) = m /\ m \in Nat
      /\ \A i \in 1..m : c[i] = s[a + i - 1]
  BY <1>1
<1>3. lo \in 0..Len(s) /\ lo + m <= Len(s)
  BY <1>1
<1>4. m = IF a <= b THEN b - lo ELSE 0
  BY <1>1
<1>5. \A i \in 1..m : c[i] = s[lo + i]
  <2>1. \A i \in 1..m : a + i - 1 = lo + i
    BY <1>1, <1>2
  <2> QED
    BY <1>2, <2>1
<1> HIDE DEF lo, m, c
<1>6. \A i \in 0..m : lo + i \in 0..Len(s) /\ e[i] = h[lo + i] - h[lo]
  BY <1>1, <1>2, <1>3
<1>7. /\ h[lo] \in Int /\ \A i \in 0..m : h[lo + i] \in Int
      /\ 0 \in 0..m /\ lo + 0 = lo
  <2>1. \A i \in 0..m : h[lo + i] \in Int
    BY <1>6
  <2>2. 0 \in 0..m /\ lo \in Int /\ lo + 0 = lo
    BY <1>1, <1>2, <1>3
  <2>3. h[lo] \in Int
    BY <1>3
  <2> QED
    BY <2>1, <2>2, <2>3
<1> HIDE DEF e
<1>8. e[0] = 0 /\ \A i \in 0..m : e[i] \in Int
  BY <1>6, <1>7
<1>9. ASSUME NEW i \in 1..m PROVE e[i] = e[i - 1] + c[i]
  <2>1. /\ lo + i \in 1..Len(s) /\ i \in 0..m /\ i - 1 \in 0..m
        /\ (lo + i) - 1 = lo + (i - 1)
    BY <1>1, <1>2, <1>3
  <2>2. PICK k \in 1..Len(s) : k = lo + i
    BY <2>1
  <2>3. h[k] = h[k - 1] + s[k] /\ s[k] \in Int
    OBVIOUS
  <2>4. k - 1 = lo + (i - 1)
    BY <2>1, <2>2
  <2>5. e[i] = h[k] - h[lo] /\ e[i - 1] = h[k - 1] - h[lo] /\ c[i] = s[k]
    BY <1>5, <1>6, <2>1, <2>2, <2>4
  <2>6. h[k] \in Int /\ h[k - 1] \in Int /\ h[lo] \in Int
    BY <1>7, <2>1, <2>2, <2>4
  <2>7. h[k] - h[lo] = (h[k - 1] - h[lo]) + s[k]
    <3> DEFINE x == h[k]
               y == h[k - 1]
               z == h[lo]
               w == s[k]
    <3>1. x = y + w /\ w \in Int /\ x \in Int /\ y \in Int /\ z \in Int
      BY <2>3, <2>6, Zenon
    <3> HIDE DEF x, y, z, w
    <3>2. x - z = (y - z) + w
      BY <3>1
    <3> QED
      BY <3>2 DEF x, y, z, w
  <2> QED
    BY <2>5, <2>7, Zenon
<1>10. e[m] = IF a <= b THEN h[b] - h[a - 1] ELSE 0
  <2>1. m \in 0..m
    BY <1>2
  <2>2. e[m] = h[lo + m] - h[lo]
    BY <1>6, <2>1
  <2>3. CASE a <= b
    <3>1. lo + m = b
      BY <1>1, <1>3, <1>4, <2>3
    <3> QED
      BY <2>2, <2>3, <3>1 DEF lo
  <2>4. CASE ~ (a <= b)
    BY <1>4, <1>8, <2>4
  <2> QED
    BY <2>3, <2>4
<1>11. \A k \in 1..Len(c) : e[k] \in Int /\ e[k] = e[k - 1] + c[k]
  BY <1>2, <1>8, <1>9
<1>12. Total(c) = e[Len(c)]
  BY <1>2, <1>8, <1>11, TotalIsLastSum
<1> QED
  BY <1>2, <1>10, <1>12 DEF c

\* The filter keeps elements that pass, in a sequence that is not longer.
LEMMA FilterKeeps ==
  ASSUME NEW C, NEW slice \in Seq(C), NEW cfg
  PROVE  /\ ApplyThresholds(slice, cfg) \in Seq(C)
         /\ Len(ApplyThresholds(slice, cfg)) <= Len(slice)
         /\ \A i \in DOMAIN ApplyThresholds(slice, cfg) :
              Passes(ApplyThresholds(slice, cfg)[i], cfg)
<1> DEFINE n == Len(slice)
           Kept(out, c) == IF Passes(c, cfg) THEN Append(out, c) ELSE out
           step == [a \in Seq(C) \X (1..n) |-> Kept(a[1], slice[a[2]])]
           Filters(g) == g = [x \in SUBSET (DOMAIN slice) |->
                                IF x = {} THEN << >>
                                          ELSE Kept(g[x \ {Max(x)}], slice[Max(x)])]
           iter == CHOOSE g : Filters(g)
<1>1. n \in Nat /\ DOMAIN slice = 1..n /\ \A i \in 1..n : slice[i] \in C
  OBVIOUS
<1>2. ApplyThresholds(slice, cfg) = iter[DOMAIN slice]
  BY Zenon DEF ApplyThresholds, FoldLeft, MapThenFoldSet
<1>3. \A out \in Seq(C), c \in C : Kept(out, c) \in Seq(C)
  OBVIOUS
<1>4. \E g : Filters(g)
  <2>1. step \in [Seq(C) \X (1..n) -> Seq(C)]
    BY <1>1, <1>3
  <2>2. \A out \in Seq(C), i \in 1..n : step[<<out, i>>] = Kept(out, slice[i])
    OBVIOUS
  <2> HIDE DEF step, n, Kept
  <2>3. PICK g \in [SUBSET (1..n) -> Seq(C)] : FoldsTo(g, n, << >>, step)
    <3>1. n \in Nat /\ << >> \in Seq(C)
      BY <1>1
    <3>2. CanFold(n, Seq(C), << >>, step)
      BY <2>1, <3>1, FoldExists, Zenon
    <3> QED
      BY <3>2 DEF CanFold
  <2>4. ASSUME NEW x \in SUBSET (1..n)
        PROVE  g[x] = IF x = {} THEN << >> ELSE Kept(g[x \ {Max(x)}], slice[Max(x)])
    <3>1. CASE x = {}
      BY <2>3, <3>1 DEF FoldsTo
    <3>2. CASE x # {}
      <4>1. Max(x) \in x
        BY <1>1, <3>2, GreatestIndex
      <4>2. g[x \ {Max(x)}] \in Seq(C) /\ Max(x) \in 1..n
        BY <1>1, <2>3, <3>2, <4>1, GreatestIndex
      <4> QED
        BY <2>2, <2>3, <3>2, <4>2 DEF FoldsTo
    <3> QED
      BY <3>1, <3>2
  <2>5. g = [x \in SUBSET (1..n) |-> g[x]]
    OBVIOUS
  <2>6. [x \in SUBSET (1..n) |-> g[x]]
          = [x \in SUBSET (1..n) |->
               IF x = {} THEN << >> ELSE Kept(g[x \ {Max(x)}], slice[Max(x)])]
    BY <2>4
  <2>7. Filters(g)
    BY <1>1, <2>5, <2>6
  <2> QED
    BY <2>7
<1>5. Filters(iter)
  <2> HIDE DEF Filters
  <2> QED
    BY <1>4
<1> HIDE DEF iter
<1>6. \A x \in SUBSET (1..n) :
        iter[x] = IF x = {} THEN << >> ELSE Kept(iter[x \ {Max(x)}], slice[Max(x)])
  <2> HIDE DEF Kept
  <2> QED
    BY <1>1, <1>5
<1> DEFINE Good(out, k) == /\ out \in Seq(C) /\ Len(out) <= k
                           /\ \A i \in DOMAIN out : Passes(out[i], cfg)
           P == {k \in 0..n : Good(iter[1..k], k)}
<1>7. 0 \in P
  <2>1. 1..0 = {} /\ iter[{}] = << >>
    BY <1>1, <1>6, IndexPrefixes
  <2>2. Good(<< >>, 0)
    OBVIOUS
  <2> HIDE DEF Good
  <2> QED
    BY <1>1, <2>1, <2>2
<1>8. ASSUME NEW k \in 1..n, k - 1 \in P PROVE k \in P
  <2>1. /\ (1..k) \in SUBSET (1..n) /\ 1..k # {}
        /\ Max(1..k) = k /\ (1..k) \ {k} = 1..(k - 1)
    BY <1>1, IndexPrefixes
  <2>2. iter[1..k] = Kept(iter[1..(k - 1)], slice[k])
    <3> HIDE DEF Kept
    <3>1. iter[1..k] = Kept(iter[(1..k) \ {Max(1..k)}], slice[Max(1..k)])
      BY <1>6, <2>1
    <3> QED
      BY <2>1, <3>1
  <2>3. Good(iter[1..(k - 1)], k - 1) /\ k \in 0..n
    BY <1>1, <1>8
  <2>4. slice[k] \in C
    BY <1>1
  <2> DEFINE old == iter[1..(k - 1)]
  <2> HIDE DEF old
  <2>5. Good(old, k - 1)
    BY <2>3 DEF old
  <2>6. Good(Kept(old, slice[k]), k)
    <3>1. CASE Passes(slice[k], cfg)
      <4>1. Kept(old, slice[k]) = Append(old, slice[k])
        BY <3>1
      <4>2. /\ Append(old, slice[k]) \in Seq(C)
            /\ Len(Append(old, slice[k])) = Len(old) + 1
            /\ Len(old) \in Nat /\ k \in Int
            /\ \A i \in DOMAIN Append(old, slice[k]) :
                 \/ i \in DOMAIN old /\ Append(old, slice[k])[i] = old[i]
                 \/ Append(old, slice[k])[i] = slice[k]
        BY <1>1, <2>4, <2>5
      <4>3. Len(old) + 1 <= k
        BY <2>5, <4>2
      <4> QED
        BY <2>5, <3>1, <4>1, <4>2, <4>3
    <3>2. CASE ~Passes(slice[k], cfg)
      <4>1. Kept(old, slice[k]) = old
        BY <3>2
      <4>2. Len(old) \in Nat /\ k \in Int /\ Len(old) <= k - 1
        BY <1>1, <2>5
      <4>3. Len(old) <= k
        BY <4>2
      <4> QED
        BY <2>5, <4>1, <4>3
    <3> QED
      BY <3>1, <3>2
  <2>7. Good(iter[1..k], k)
    BY <2>2, <2>6, Zenon DEF old
  <2> HIDE DEF Good
  <2> QED
    BY <2>3, <2>7
<1>9. n \in P
  <2> HIDE DEF P
  <2>1. n \in 0..n
    BY <1>1
  <2> QED
    BY <1>1, <1>7, <1>8, <2>1, InductionUpTo
<1>10. Good(iter[1..n], n)
  BY <1>9
<1> QED
  BY <1>1, <1>2, <1>10

Running == [cum : Int, peak : Int, worst : Int]
AtStart == [cum |-> 0, peak |-> 0, worst |-> 0]

\* What MaxDrawdown has seen after each element.
Follows(acc, s) ==
  /\ acc \in [0..Len(s) -> Running] /\ acc[0] = AtStart
  /\ \A k \in 1..Len(s) : acc[k] = DrawdownStep(acc[k - 1], s[k])
  /\ MaxDrawdown(s) = acc[Len(s)].worst

\* One step, in numbers.
LEMMA StepIsTyped ==
  ASSUME NEW acc \in Running, NEW p \in Int
  PROVE  /\ DrawdownStep(acc, p) \in Running
         /\ DrawdownStep(acc, p).cum = acc.cum + p
         /\ DrawdownStep(acc, p).peak = Max({acc.peak, acc.cum + p})
         /\ DrawdownStep(acc, p).worst
              = Max({acc.worst, Max({acc.peak, acc.cum + p}) - (acc.cum + p)})
<1>1. acc.cum + p \in Int /\ acc.peak \in Int /\ acc.worst \in Int
  BY DEF Running
<1>2. Max({acc.peak, acc.cum + p}) \in Int
  BY <1>1, MaxOfTwo
<1>3. Max({acc.peak, acc.cum + p}) - (acc.cum + p) \in Int
  BY <1>1, <1>2
<1>4. Max({acc.worst, Max({acc.peak, acc.cum + p}) - (acc.cum + p)}) \in Int
  BY <1>1, <1>3, MaxOfTwo
<1> QED
  BY <1>1, <1>2, <1>4 DEF DrawdownStep, Running

LEMMA DrawdownFollows ==
  ASSUME NEW s \in Seq(Int)
  PROVE  \E acc : Follows(acc, s)
<1> DEFINE n == Len(s)
           step == [a \in Running \X (1..n) |-> DrawdownStep(a[1], s[a[2]])]
           Folds(g) == g = [x \in SUBSET (DOMAIN s) |->
                              IF x = {} THEN AtStart
                                        ELSE DrawdownStep(g[x \ {Max(x)}], s[Max(x)])]
           iter == CHOOSE g : Folds(g)
<1>1. n \in Nat /\ DOMAIN s = 1..n /\ \A i \in 1..n : s[i] \in Int
  OBVIOUS
<1>2. MaxDrawdown(s) = iter[DOMAIN s].worst
  BY Zenon DEF MaxDrawdown, FoldLeft, MapThenFoldSet, AtStart
<1>3. AtStart \in Running
  BY DEF AtStart, Running
<1>4. \E g : Folds(g)
  <2>1. step \in [Running \X (1..n) -> Running]
    BY <1>1, StepIsTyped
  <2>2. \A r \in Running, i \in 1..n : step[<<r, i>>] = DrawdownStep(r, s[i])
    OBVIOUS
  <2> HIDE DEF step, n
  <2>3. PICK g \in [SUBSET (1..n) -> Running] : FoldsTo(g, n, AtStart, step)
    <3>1. n \in Nat
      BY <1>1
    <3>2. CanFold(n, Running, AtStart, step)
      BY <1>3, <2>1, <3>1, FoldExists, Zenon
    <3> QED
      BY <3>2 DEF CanFold
  <2>4. ASSUME NEW x \in SUBSET (1..n)
        PROVE  g[x] = IF x = {} THEN AtStart
                                ELSE DrawdownStep(g[x \ {Max(x)}], s[Max(x)])
    <3>1. CASE x = {}
      BY <2>3, <3>1 DEF FoldsTo
    <3>2. CASE x # {}
      <4>1. Max(x) \in x
        BY <1>1, <3>2, GreatestIndex
      <4>2. g[x \ {Max(x)}] \in Running /\ Max(x) \in 1..n
        BY <1>1, <2>3, <3>2, <4>1, GreatestIndex
      <4> QED
        BY <2>2, <2>3, <3>2, <4>2 DEF FoldsTo
    <3> QED
      BY <3>1, <3>2
  <2>5. g = [x \in SUBSET (1..n) |-> g[x]]
    OBVIOUS
  <2>6. [x \in SUBSET (1..n) |-> g[x]]
          = [x \in SUBSET (1..n) |->
               IF x = {} THEN AtStart ELSE DrawdownStep(g[x \ {Max(x)}], s[Max(x)])]
    BY <2>4
  <2>7. Folds(g)
    BY <1>1, <2>5, <2>6
  <2> QED
    BY <2>7
<1>5. Folds(iter)
  <2> HIDE DEF Folds
  <2> QED
    BY <1>4
<1> HIDE DEF iter
<1>6. \A x \in SUBSET (1..n) :
        iter[x] = IF x = {} THEN AtStart
                            ELSE DrawdownStep(iter[x \ {Max(x)}], s[Max(x)])
  BY <1>1, <1>5
<1> DEFINE acc == [k \in 0..n |-> iter[1..k]]
           P == {k \in 0..n : iter[1..k] \in Running}
<1>7. iter[1..0] = AtStart
  <2>1. 1..0 = {} /\ iter[{}] = AtStart
    BY <1>1, <1>6, IndexPrefixes
  <2> QED
    BY <2>1
<1>8. ASSUME NEW k \in 1..n PROVE iter[1..k] = DrawdownStep(iter[1..(k - 1)], s[k])
  <2>1. /\ (1..k) \in SUBSET (1..n) /\ 1..k # {}
        /\ Max(1..k) = k /\ (1..k) \ {k} = 1..(k - 1)
    BY <1>1, IndexPrefixes
  <2>2. iter[1..k] = DrawdownStep(iter[(1..k) \ {Max(1..k)}], s[Max(1..k)])
    BY <1>6, <2>1
  <2> QED
    BY <2>1, <2>2
<1>9. 0 \in P
  BY <1>1, <1>3, <1>7
<1>10. ASSUME NEW k \in 1..n, k - 1 \in P PROVE k \in P
  <2>1. iter[1..(k - 1)] \in Running /\ s[k] \in Int /\ k \in 0..n
    BY <1>1, <1>10
  <2>2. iter[1..k] \in Running
    BY <1>8, <2>1, StepIsTyped
  <2> QED
    BY <2>1, <2>2
<1>11. \A k \in 0..n : k \in P
  <2> HIDE DEF P, n
  <2> QED
    BY <1>1, <1>9, <1>10, InductionUpTo
<1>12. acc \in [0..n -> Running] /\ acc[0] = AtStart /\ acc[n] = iter[1..n]
  <2>1. \A k \in 0..n : iter[1..k] \in Running
    BY <1>11
  <2>2. 0 \in 0..n /\ n \in 0..n
    BY <1>1
  <2> QED
    BY <1>7, <2>1, <2>2
<1>13. ASSUME NEW k \in 1..n PROVE acc[k] = DrawdownStep(acc[k - 1], s[k])
  <2>1. k \in 0..n /\ k - 1 \in 0..n
    BY <1>1
  <2> QED
    BY <1>8, <2>1
<1> HIDE DEF acc
<1>14. Follows(acc, s)
  BY <1>1, <1>2, <1>12, <1>13 DEF Follows
<1> QED
  BY <1>14

\* The invariant of the loop: the peak is the highest partial sum so far, and the
\* worst the largest fall from one partial sum to a later one.
Highest(p, h, k) == (\E i \in 0..k : p = h[i]) /\ \A i \in 0..k : h[i] <= p
Deepest(w, h, k) ==
  /\ \E i, j \in 0..k : i <= j /\ w = h[i] - h[j]
  /\ \A i, j \in 0..k : i <= j => h[i] - h[j] <= w

LEMMA LoopInvariant ==
  ASSUME NEW s \in Seq(Int), NEW h, SumsOf(h, s), NEW acc, Follows(acc, s)
  PROVE  Deepest(acc[Len(s)].worst, h, Len(s))
<1> DEFINE n == Len(s)
           Good(k) == /\ acc[k].cum = h[k] /\ Highest(acc[k].peak, h, k)
                      /\ Deepest(acc[k].worst, h, k)
           P == {k \in 0..n : Good(k)}
<1>1. n \in Nat /\ DOMAIN s = 1..n /\ \A i \in 1..n : s[i] \in Int
  OBVIOUS
<1>2. /\ h \in [0..n -> Int] /\ h[0] = 0
      /\ \A k \in 1..n : h[k] = h[k - 1] + s[k]
  BY DEF SumsOf
<1>3. /\ acc \in [0..n -> Running] /\ acc[0] = AtStart
      /\ \A k \in 1..n : acc[k] = DrawdownStep(acc[k - 1], s[k])
  BY DEF Follows
<1> HIDE DEF n
<1>4. 0 \in P
  <2>1. 0 \in 0..n /\ \A i \in 0..0 : i = 0
    BY <1>1
  <2>2. acc[0].cum = 0 /\ acc[0].peak = 0 /\ acc[0].worst = 0
    BY <1>3 DEF AtStart
  <2>3. Highest(0, h, 0)
    BY <1>2, <2>1 DEF Highest
  <2>4. Deepest(0, h, 0)
    <3>1. 0 \in 0..0 /\ 0 <= 0 /\ 0 = h[0] - h[0]
      BY <1>2
    <3>2. \A i, j \in 0..0 : h[i] - h[j] <= 0
      BY <1>2, <2>1
    <3> QED
      BY <3>1, <3>2 DEF Deepest
  <2> QED
    BY <1>2, <2>1, <2>2, <2>3, <2>4
<1>5. ASSUME NEW k \in 1..n, k - 1 \in P PROVE k \in P
  <2>1. k \in 0..n /\ k - 1 \in 0..n /\ k \in Int
    BY <1>1
  <2>2. Good(k - 1)
    BY <1>5
  <2> DEFINE old == acc[k - 1]
             new == acc[k]
  <2>3. /\ old \in Running /\ new = DrawdownStep(old, s[k]) /\ s[k] \in Int
        /\ h[k] = h[k - 1] + s[k] /\ h[k] \in Int
    BY <1>1, <1>2, <1>3, <2>1
  <2>4. /\ old.cum = h[k - 1] /\ Highest(old.peak, h, k - 1)
        /\ Deepest(old.worst, h, k - 1)
    BY <2>2
  <2> HIDE DEF old, new
  <2>5. /\ new.cum = h[k]
        /\ new.peak = Max({old.peak, h[k]})
        /\ new.worst = Max({old.worst, new.peak - h[k]})
        /\ old.peak \in Int /\ old.worst \in Int
    <3>1. /\ new.cum = old.cum + s[k]
          /\ new.peak = Max({old.peak, old.cum + s[k]})
          /\ new.worst = Max({old.worst, Max({old.peak, old.cum + s[k]})
                                           - (old.cum + s[k])})
      BY <2>3, StepIsTyped
    <3>2. old.cum + s[k] = h[k]
      BY <2>3, <2>4
    <3>3. old.peak \in Int /\ old.worst \in Int
      BY <2>3 DEF Running
    <3> QED
      BY <3>1, <3>2, <3>3
  <2>6. /\ new.peak \in {old.peak, h[k]}
        /\ new.peak >= old.peak /\ new.peak >= h[k] /\ new.peak \in Int
    BY <2>3, <2>5, MaxOfTwo
  <2>7. /\ new.worst \in {old.worst, new.peak - h[k]}
        /\ new.worst >= old.worst /\ new.worst >= new.peak - h[k]
        /\ new.worst \in Int
    <3>1. new.peak - h[k] \in Int
      BY <2>3, <2>6
    <3> QED
      BY <2>5, <3>1, MaxOfTwo
  <2>8. /\ \A i \in 0..k : i \in 0..(k - 1) \/ i = k
        /\ \A i \in 0..(k - 1) : i \in 0..k /\ i <= k /\ i # k
        /\ \A i \in 0..k : h[i] \in Int
        /\ k \in 0..k
    BY <1>1, <1>2, <2>1
  <2>9. Highest(new.peak, h, k)
    <3>1. \E i \in 0..k : new.peak = h[i]
      BY <2>4, <2>6, <2>8 DEF Highest
    <3>2. \A i \in 0..k : h[i] <= new.peak
      BY <2>4, <2>5, <2>6, <2>8 DEF Highest
    <3> QED
      BY <3>1, <3>2 DEF Highest
  <2>10. Deepest(new.worst, h, k)
    <3>1. \E i, j \in 0..k : i <= j /\ new.worst = h[i] - h[j]
      <4>1. CASE new.worst = old.worst
        <5>1. PICK i, j \in 0..(k - 1) : i <= j /\ old.worst = h[i] - h[j]
          BY <2>4 DEF Deepest
        <5> QED
          BY <2>8, <4>1, <5>1
      <4>2. CASE new.worst = new.peak - h[k]
        <5>1. PICK i \in 0..k : new.peak = h[i]
          BY <2>9 DEF Highest
        <5>2. i <= k
          BY <2>1
        <5> QED
          BY <2>8, <4>2, <5>1, <5>2
      <4> QED
        BY <2>7, <4>1, <4>2
    <3>2. ASSUME NEW i \in 0..k, NEW j \in 0..k, i <= j
          PROVE  h[i] - h[j] <= new.worst
      <4>1. CASE j = k
        <5>1. h[i] <= new.peak /\ h[i] \in Int
          BY <2>8, <2>9 DEF Highest
        <5>2. h[i] - h[k] <= new.peak - h[k]
          BY <2>3, <2>6, <5>1
        <5>3. h[i] - h[k] \in Int /\ new.peak - h[k] \in Int
          BY <2>3, <2>6, <5>1
        <5> QED
          BY <2>7, <4>1, <5>2, <5>3
      <4>2. CASE j # k
        <5>1. j \in 0..(k - 1) /\ i \in 0..(k - 1)
          BY <2>1, <2>8, <3>2, <4>2
        <5>2. h[i] - h[j] <= old.worst
          BY <2>4, <3>2, <5>1 DEF Deepest
        <5>3. h[i] - h[j] \in Int
          BY <2>8
        <5> QED
          BY <2>5, <2>7, <5>2, <5>3
      <4> QED
        BY <4>1, <4>2
    <3> QED
      BY <3>1, <3>2 DEF Deepest
  <2>11. Good(k)
    BY <2>5, <2>9, <2>10 DEF new
  <2> HIDE DEF Good
  <2> QED
    BY <2>1, <2>11
<1>6. n \in P
  <2> HIDE DEF P
  <2>1. n \in 0..n
    BY <1>1
  <2> QED
    BY <1>1, <1>4, <1>5, <2>1, InductionUpTo
<1> QED
  BY <1>6 DEF n

\* The one pass finds the largest loss of any run of consecutive trades.
LEMMA DrawdownIsWorst ==
  ASSUME NEW s \in Seq(Int)
  PROVE  MaxDrawdown(s)
           = Max({0} \cup {-Total(SubSeq(s, a, b)) : a, b \in DOMAIN s})
<1> DEFINE n == Len(s)
           losses == {-Total(SubSeq(s, a, b)) : a, b \in DOMAIN s}
           worst == MaxDrawdown(s)
<1>1. n \in Nat /\ DOMAIN s = 1..n
  OBVIOUS
<1>2. PICK h : SumsOf(h, s)
  BY PartialSums
<1>3. PICK acc : Follows(acc, s)
  BY DrawdownFollows
<1>4. worst = acc[n].worst
  BY <1>3 DEF Follows
<1>5. Deepest(worst, h, n)
  BY <1>2, <1>3, <1>4, LoopInvariant
<1>6. h \in [0..n -> Int] /\ \A k \in 1..n : h[k] = h[k - 1] + s[k]
  BY <1>2 DEF SumsOf
<1>7. ASSUME NEW a \in 1..n, NEW b \in 1..n
      PROVE  Total(SubSeq(s, a, b)) = IF a <= b THEN h[b] - h[a - 1] ELSE 0
  BY <1>6, SumOfSlice
<1> HIDE DEF n, worst
<1>8. losses \in SUBSET Int
  <2>1. ASSUME NEW a \in 1..n, NEW b \in 1..n PROVE -Total(SubSeq(s, a, b)) \in Int
    <3>1. h[b] \in Int /\ h[a - 1] \in Int
      BY <1>1, <1>6
    <3> QED
      BY <1>7, <3>1
  <2> QED
    BY <1>1, <2>1
<1>9. worst \in {0} \cup losses
  <2>1. PICK i, j \in 0..n : i <= j /\ worst = h[i] - h[j]
    BY <1>5 DEF Deepest
  <2>2. h[i] \in Int /\ h[j] \in Int
    BY <1>6
  <2>3. CASE i = j
    BY <2>1, <2>2, <2>3
  <2>4. CASE i # j
    <3>1. i + 1 \in 1..n /\ j \in 1..n /\ i + 1 <= j /\ (i + 1) - 1 = i
      BY <1>1, <2>1, <2>4
    <3>2. Total(SubSeq(s, i + 1, j)) = h[j] - h[i]
      BY <1>7, <3>1
    <3>3. worst = -Total(SubSeq(s, i + 1, j))
      BY <2>1, <2>2, <3>2
    <3>4. PICK a \in DOMAIN s : a = i + 1
      BY <1>1, <3>1
    <3>5. worst = -Total(SubSeq(s, a, j)) /\ j \in DOMAIN s
      BY <1>1, <3>1, <3>3, <3>4
    <3>6. worst \in losses
      BY <3>5
    <3> QED
      BY <3>6
  <2> QED
    BY <2>3, <2>4
<1>10. ASSUME NEW y \in {0} \cup losses PROVE worst >= y
  <2>1. worst \in Int
    BY <1>8, <1>9
  <2>2. CASE y = 0
    <3>1. 0 \in 0..n /\ h[0] \in Int
      BY <1>1, <1>6
    <3>2. h[0] - h[0] <= worst
      BY <1>5, <3>1 DEF Deepest
    <3> QED
      BY <2>1, <2>2, <3>1, <3>2
  <2>3. CASE y \in losses
    <3>1. PICK a \in 1..n, b \in 1..n : y = -Total(SubSeq(s, a, b))
      BY <1>1, <2>3
    <3>2. CASE a <= b
      <4>1. a - 1 \in 0..n /\ b \in 0..n /\ a - 1 <= b
        BY <1>1, <3>2
      <4>2. h[a - 1] - h[b] <= worst /\ h[a - 1] \in Int /\ h[b] \in Int
        <5>1. \A i, j \in 0..n : i <= j => h[i] - h[j] <= worst
          BY <1>5 DEF Deepest
        <5>2. PICK i \in 0..n : i = a - 1
          BY <4>1
        <5>3. h[i] - h[b] <= worst
          BY <4>1, <5>1, <5>2
        <5> QED
          BY <1>6, <4>1, <5>2, <5>3
      <4>3. Total(SubSeq(s, a, b)) = h[b] - h[a - 1]
        BY <1>7, <3>2
      <4> QED
        BY <2>1, <3>1, <4>2, <4>3
    <3>3. CASE ~ (a <= b)
      <4>1. y = 0
        BY <1>7, <3>1, <3>3
      <4> QED
        BY <2>2, <4>1
    <3> QED
      BY <3>2, <3>3
  <2> QED
    BY <2>2, <2>3
<1> HIDE DEF losses
<1>11. ({0} \cup losses) \in SUBSET Int
  BY <1>8
<1>12. worst = Max({0} \cup losses)
  BY <1>9, <1>10, <1>11, MaxIsGreatest
<1> QED
  BY <1>12 DEF worst, losses

\* Sums of integers are integers, and one more element is one more summand.
LEMMA TotalOfAppended ==
  ASSUME NEW s \in Seq(Int)
  PROVE  /\ Total(s) \in Int
         /\ \A x \in Int : Total(Append(s, x)) = Total(s) + x
<1>1. PICK h : SumsOf(h, s)
  BY PartialSums
<1>2. /\ h \in [0..Len(s) -> Int] /\ h[0] = 0 /\ Len(s) \in Nat
      /\ \A k \in 1..Len(s) : h[k] = h[k - 1] + s[k]
  BY <1>1 DEF SumsOf
<1>3. \A k \in 1..Len(s) : h[k] \in Int /\ h[k] = h[k - 1] + s[k]
  BY <1>2
<1>4. Total(s) = h[Len(s)] /\ h[Len(s)] \in Int
  <2>1. Total(s) = h[Len(s)]
    BY <1>2, <1>3, TotalIsLastSum
  <2>2. Len(s) \in 0..Len(s)
    BY <1>2
  <2> QED
    BY <1>2, <2>1, <2>2
<1>5. ASSUME NEW x \in Int PROVE Total(Append(s, x)) = Total(s) + x
  <2> DEFINE longer == Append(s, x)
             n == Len(s)
             e == [k \in 0..(n + 1) |-> IF k = n + 1 THEN h[n] + x ELSE h[k]]
  <2>1. /\ longer \in Seq(Int) /\ Len(longer) = n + 1 /\ n \in Nat
        /\ longer[n + 1] = x /\ \A k \in 1..n : longer[k] = s[k]
    OBVIOUS
  <2> HIDE DEF longer, n
  <2>2. e[0] = 0 /\ e[n + 1] = h[n] + x /\ \A k \in 0..n : e[k] = h[k]
    BY <1>2, <2>1
  <2>3. h[n] \in Int /\ \A k \in 0..n : h[k] \in Int
    BY <1>2, <1>4 DEF n
  <2> HIDE DEF e
  <2>4. ASSUME NEW k \in 1..(n + 1)
        PROVE  e[k] \in Int /\ e[k] = e[k - 1] + longer[k]
    <3>1. CASE k = n + 1
      <4>1. k - 1 = n /\ n \in 0..n
        BY <2>1, <3>1
      <4> QED
        BY <2>1, <2>2, <2>3, <3>1, <4>1
    <3>2. CASE k # n + 1
      <4>1. k \in 1..n /\ k \in 0..n /\ k - 1 \in 0..n
        BY <2>1, <3>2
      <4>2. h[k] = h[k - 1] + s[k]
        BY <1>2, <4>1 DEF n
      <4> QED
        BY <2>1, <2>2, <2>3, <4>1, <4>2
    <3> QED
      BY <3>1, <3>2
  <2>5. \A k \in 1..Len(longer) : e[k] \in Int /\ e[k] = e[k - 1] + longer[k]
    BY <2>1, <2>4
  <2>6. Total(longer) = e[Len(longer)]
    BY <2>1, <2>2, <2>5, TotalIsLastSum
  <2> QED
    BY <1>4, <2>1, <2>2, <2>6 DEF longer, n
<1> QED
  BY <1>4, <1>5

\* Nothing adds up to nothing.
LEMMA TotalOfZeros ==
  ASSUME NEW s \in Seq(Int), \A i \in DOMAIN s : s[i] = 0
  PROVE  Total(s) = 0
<1> DEFINE h == [k \in 0..Len(s) |-> 0]
<1>1. Len(s) \in Nat /\ DOMAIN s = 1..Len(s)
  OBVIOUS
<1>2. \A k \in 0..Len(s) : h[k] = 0
  OBVIOUS
<1> HIDE DEF h
<1>3. h[0] = 0 /\ h[Len(s)] = 0
  BY <1>1, <1>2
<1>4. \A k \in 1..Len(s) : h[k] \in Int /\ h[k] = h[k - 1] + s[k]
  BY <1>1, <1>2
<1> QED
  BY <1>3, <1>4, TotalIsLastSum

-------------------------------------------------------------------------------
(* Windows and results.                                                    *)

WindowRecord == [trainFrom : Nat, trainTo : Nat, testFrom : Nat, testTo : Nat,
                 trades : 0..TestDays, pnls : Seq(Int), expectancy : Int,
                 drawdown : Int]
Tested == {w \in WindowRecord : w.drawdown = MaxDrawdown(w.pnls)}
Results == {AggregateWindows(ws) : ws \in Seq(Tested)}
TradesOf(ws) == [i \in DOMAIN ws |-> ws[i].trades]

\* What one window holds of its slices.
LEMMA WindowIsTested ==
  ASSUME NEW train \in Seq(Candidate), NEW test \in Seq(Candidate), NEW cfg,
         Len(train) = TrainDays, Len(test) = TestDays
  PROVE  LET w == WindowResult(train, test, cfg)
         IN /\ w \in Tested
            /\ w.trainFrom = train[1].date /\ w.trainTo = train[TrainDays].date
            /\ w.testFrom = test[1].date /\ w.testTo = test[TestDays].date
            /\ w.trades = Len(ApplyThresholds(test, cfg))
<1> DEFINE kept == ApplyThresholds(test, cfg)
           pnls == [i \in DOMAIN kept |-> kept[i].pnl]
           w == WindowResult(train, test, cfg)
<1>1. TrainDays \in Nat \ {0} /\ TestDays \in Nat \ {0} /\ Scale \in Nat
  BY WalkAssumption
<1>2. kept \in Seq(Candidate) /\ Len(kept) <= TestDays
  BY FilterKeeps
<1> HIDE DEF kept
<1>3. pnls \in Seq(Int) /\ Len(pnls) = Len(kept) /\ Len(kept) \in 0..TestDays
  <2>1. DOMAIN kept = 1..Len(kept) /\ Len(kept) \in Nat
    BY <1>2
  <2>2. \A i \in 1..Len(kept) : kept[i].pnl \in Int
    <3>1. \A i \in 1..Len(kept) : kept[i] \in Candidate
      BY <1>2, <2>1
    <3> QED
      BY <3>1 DEF Candidate
  <2> QED
    BY <1>1, <1>2, <2>1, <2>2
<1> HIDE DEF pnls
<1>4. /\ train[1].date \in Nat /\ train[TrainDays].date \in Nat
      /\ test[1].date \in Nat /\ test[TestDays].date \in Nat
  <2>1. /\ 1 \in DOMAIN train /\ TrainDays \in DOMAIN train
        /\ 1 \in DOMAIN test /\ TestDays \in DOMAIN test
    BY <1>1
  <2>2. /\ train[1] \in Candidate /\ train[TrainDays] \in Candidate
        /\ test[1] \in Candidate /\ test[TestDays] \in Candidate
    BY <2>1
  <2> QED
    BY <2>2 DEF Candidate
<1>5. MaxDrawdown(pnls) \in Int
  <2>1. PICK acc : Follows(acc, pnls)
    BY <1>3, DrawdownFollows
  <2>2. Len(pnls) \in 0..Len(pnls)
    BY <1>3
  <2> QED
    BY <2>1, <2>2 DEF Follows, Running
<1>6. (IF Len(pnls) = 0 THEN 0 ELSE (Scale \div Len(pnls)) * Total(pnls)) \in Int
  <2>1. Total(pnls) \in Int
    BY <1>3, TotalOfAppended
  <2>2. CASE Len(pnls) = 0
    BY <2>2
  <2>3. CASE Len(pnls) # 0
    <3>1. Len(pnls) \in Nat \ {0}
      BY <1>3, <2>3
    <3>2. Scale \div Len(pnls) \in Int
      BY <1>1, <3>1
    <3> HIDE DEF w
    <3>3. \A x, y \in Int : x * y \in Int
      OBVIOUS
    <3> QED
      BY <2>1, <2>3, <3>2, <3>3
  <2> QED
    BY <2>2, <2>3
<1>7. w = [trainFrom |-> train[1].date, trainTo |-> train[Len(train)].date,
           testFrom  |-> test[1].date,  testTo  |-> test[Len(test)].date,
           trades |-> Len(pnls), pnls |-> pnls,
           expectancy |-> IF Len(pnls) = 0 THEN 0
                          ELSE (Scale \div Len(pnls)) * Total(pnls),
           drawdown |-> MaxDrawdown(pnls)]
  BY Zenon DEF WindowResult, pnls, kept
<1> HIDE DEF w
<1>8. w \in Tested
  <2>1. w \in WindowRecord
    BY <1>3, <1>4, <1>5, <1>6, <1>7 DEF WindowRecord
  <2> QED
    BY <1>7, <2>1 DEF Tested
<1>9. /\ w.trainFrom = train[1].date /\ w.trainTo = train[TrainDays].date
      /\ w.testFrom = test[1].date /\ w.testTo = test[TestDays].date
      /\ w.trades = Len(kept)
  BY <1>3, <1>7
<1> QED
  BY <1>8, <1>9, Zenon DEF w, kept

\* What a result holds of its windows.
LEMMA AggregateHolds ==
  ASSUME NEW ws
  PROVE  /\ AggregateWindows(ws).windows = ws
         /\ AggregateWindows(ws).trades = Total(TradesOf(ws))
BY DEF AggregateWindows, TradesOf

\* The trades of one more window.
LEMMA TradesOfAppended ==
  ASSUME NEW ws \in Seq(Tested)
  PROVE  /\ TradesOf(ws) \in Seq(Int)
         /\ \A w \in Tested : TradesOf(Append(ws, w)) = Append(TradesOf(ws), w.trades)
<1>1. TestDays \in Nat
  BY WalkAssumption
<1>2. \A w \in Tested : w.trades \in Int
  BY <1>1 DEF Tested, WindowRecord
<1>3. TradesOf(ws) \in Seq(Int) /\ Len(TradesOf(ws)) = Len(ws)
  <2>1. \A i \in 1..Len(ws) : ws[i].trades \in Int
    BY <1>2
  <2>2. DOMAIN ws = 1..Len(ws) /\ Len(ws) \in Nat
    OBVIOUS
  <2> QED
    BY <2>1, <2>2 DEF TradesOf
<1>4. ASSUME NEW w \in Tested
      PROVE  TradesOf(Append(ws, w)) = Append(TradesOf(ws), w.trades)
  <2> DEFINE n == Len(ws)
             more == Append(ws, w)
  <2>1. /\ n \in Nat /\ DOMAIN ws = 1..n /\ DOMAIN more = 1..(n + 1)
        /\ more[n + 1] = w /\ \A i \in 1..n : more[i] = ws[i]
    OBVIOUS
  <2> HIDE DEF n, more
  <2>2. Append(TradesOf(ws), w.trades)
          = [i \in 1..(n + 1) |-> IF i = n + 1 THEN w.trades ELSE ws[i].trades]
    <3>1. TradesOf(ws) = [i \in 1..n |-> ws[i].trades]
      BY <2>1 DEF TradesOf
    <3>2. Len(TradesOf(ws)) = n
      BY <1>3 DEF n
    <3> QED
      BY <1>3, <2>1, <3>1, <3>2
  <2>3. TradesOf(more)
          = [i \in 1..(n + 1) |-> IF i = n + 1 THEN w.trades ELSE ws[i].trades]
    <3>1. TradesOf(more) = [i \in 1..(n + 1) |-> more[i].trades]
      BY <2>1 DEF TradesOf
    <3>2. \A i \in 1..(n + 1) :
            more[i].trades = IF i = n + 1 THEN w.trades ELSE ws[i].trades
      BY <2>1
    <3> QED
      BY <3>1, <3>2
  <2> QED
    BY <2>2, <2>3 DEF more
<1> QED
  BY <1>3, <1>4

LEMMA ResultHolds ==
  ASSUME NEW r \in Results
  PROVE  r.windows \in Seq(Tested) /\ r.trades = Total(TradesOf(r.windows))
BY AggregateHolds DEF Results

\* The slices of the records that a window is made of.
LEMMA Slices ==
  ASSUME records \in Seq(Candidate), start \in Nat, WindowFits
  PROVE  /\ Train \in Seq(Candidate) /\ Len(Train) = TrainDays
         /\ Test \in Seq(Candidate) /\ Len(Test) = TestDays
         /\ \A i \in 1..TrainDays : Train[i] = records[start + i]
         /\ \A i \in 1..TestDays : Test[i] = records[start + TrainDays + i]
<1>1. TrainDays \in Nat \ {0} /\ TestDays \in Nat \ {0} /\ Len(records) \in Nat
  BY WalkAssumption
<1>2. start + TrainDays + TestDays <= Len(records)
  BY DEF WindowFits
<1>3. ASSUME NEW lo \in Nat, NEW k \in Nat \ {0}, lo + k <= Len(records)
      PROVE  /\ SubSeq(records, lo + 1, lo + k) \in Seq(Candidate)
             /\ Len(SubSeq(records, lo + 1, lo + k)) = k
             /\ \A i \in 1..k : SubSeq(records, lo + 1, lo + k)[i] = records[lo + i]
  <2>1. /\ lo + 1 \in 1..Len(records) /\ lo + k \in 1..Len(records)
        /\ (lo + k) - (lo + 1) + 1 = k
        /\ \A i \in 1..k : (lo + 1) + i - 1 = lo + i
    BY <1>1, <1>3
  <2> DEFINE m == lo + 1
             n == lo + k
  <2>2. m \in 1..Len(records) /\ n \in 1..Len(records) /\ m <= n /\ n - m + 1 = k
    BY <1>3, <2>1
  <2> HIDE DEF m, n
  <2>3. /\ SubSeq(records, m, n) \in Seq(Candidate)
        /\ Len(SubSeq(records, m, n)) = n - m + 1
        /\ \A i \in 1..(n - m + 1) : SubSeq(records, m, n)[i] = records[m + i - 1]
    BY <1>1, <2>2
  <2>4. \A i \in 1..k : SubSeq(records, m, n)[i] = records[m + i - 1]
    BY <2>2, <2>3
  <2> QED
    BY <2>1, <2>2, <2>3, <2>4 DEF m, n
<1>4. /\ Train \in Seq(Candidate) /\ Len(Train) = TrainDays
      /\ \A i \in 1..TrainDays : Train[i] = records[start + i]
  <2>1. start + TrainDays <= Len(records)
    BY <1>1, <1>2
  <2> QED
    BY <1>1, <1>3, <2>1 DEF Train
<1>5. /\ Test \in Seq(Candidate) /\ Len(Test) = TestDays
      /\ \A i \in 1..TestDays : Test[i] = records[start + TrainDays + i]
  <2>1. start + TrainDays \in Nat
    BY <1>1
  <2> QED
    BY <1>1, <1>2, <1>3, <2>1 DEF Test
<1> QED
  BY <1>4, <1>5

\* Training ends, and testing starts and ends, at these records.
LEMMA NewWindow ==
  ASSUME records \in Seq(Candidate), start \in Nat, WindowFits, NEW cfg
  PROVE  LET w == WindowResult(Train, Test, cfg)
         IN /\ w \in Tested
            /\ w.trainFrom = records[start + 1].date
            /\ w.trainTo = records[start + TrainDays].date
            /\ w.testFrom = records[start + TrainDays + 1].date
            /\ w.testTo = records[start + TrainDays + TestDays].date
            /\ w.trainTo = Train[TrainDays].date /\ w.testFrom = Test[1].date
            /\ w.trades = Len(ApplyThresholds(Test, cfg))
<1>1. /\ 1 \in 1..TrainDays /\ TrainDays \in 1..TrainDays
      /\ 1 \in 1..TestDays /\ TestDays \in 1..TestDays
  BY WalkAssumption
<1>2. /\ Train[1] = records[start + 1] /\ Train[TrainDays] = records[start + TrainDays]
      /\ Test[1] = records[start + TrainDays + 1]
      /\ Test[TestDays] = records[start + TrainDays + TestDays]
  BY <1>1, Slices
<1>3. LET w == WindowResult(Train, Test, cfg)
      IN /\ w \in Tested
         /\ w.trainFrom = Train[1].date /\ w.trainTo = Train[TrainDays].date
         /\ w.testFrom = Test[1].date /\ w.testTo = Test[TestDays].date
         /\ w.trades = Len(ApplyThresholds(Test, cfg))
  BY Slices, WindowIsTested
<1> QED
  BY <1>2, <1>3

-------------------------------------------------------------------------------
(* Types.                                                                  *)

\* The next window may only start where the training still fits: start stays in
\* the records although it is moved past the last window that fits.
Reported == report \in {"none", "warning", "better than chance"}
WalkTyped ==
  /\ records \in Seq(Candidate) /\ ByDate(records)
  /\ config \in 1..(Len(Grid) + 1)
  /\ start \in Nat /\ (start > 0 => start + TrainDays <= Len(records))
  /\ windows \in Seq(Tested)
  /\ results \in Seq(Results) /\ Len(results) = config - 1
  /\ Reported

\* The types hold at the start,
LEMMA WalkTypedInit ==
  ASSUME WalkInit
  PROVE  WalkTyped
<1>1. records \in Seq(Candidate) /\ ByDate(records)
  <2>1. CASE records \in Histories
    BY <2>1, WalkAssumption
  <2>2. ASSUME NEW rows \in Databases, records = LoadCandidates(rows)
        PROVE  records \in Seq(Candidate) /\ ByDate(records)
    <3>1. /\ rows \in Seq(StoredRow) /\ ByDate(rows)
      BY WalkAssumption
    <3>2. /\ DOMAIN rows = 1..Len(rows) /\ Len(rows) \in Nat
          /\ \A i \in 1..Len(rows) : rows[i] \in StoredRow
      BY <3>1
    <3>3. \A i \in 1..Len(rows) :
            [date |-> rows[i].date, rs |-> 0, rvol |-> rows[i].volumeRatio,
             bb |-> 100 * rows[i].vix, pnl |-> IF rows[i].closed THEN rows[i].pnl ELSE 0]
              \in Candidate
      BY <3>2 DEF StoredRow, Candidate
    <3>4. records \in Seq(Candidate)
      BY <2>2, <3>2, <3>3 DEF LoadCandidates
    <3>5. DOMAIN records = DOMAIN rows /\ \A i \in DOMAIN rows : records[i].date = rows[i].date
      BY <2>2 DEF LoadCandidates
    <3> QED
      BY <3>1, <3>4, <3>5 DEF ByDate
  <2> QED
    BY <2>1, <2>2 DEF WalkInit
<1>2. Len(Grid) \in Nat
  BY WalkAssumption
<1>3. Reported
  BY DEF WalkInit, Reported
<1>4. config = 1 /\ start = 0 /\ windows = << >> /\ results = << >>
  BY Zenon DEF WalkInit
<1>5. /\ config \in 1..(Len(Grid) + 1) /\ windows \in Seq(Tested)
      /\ results \in Seq(Results) /\ Len(results) = config - 1
  BY <1>2, <1>4
<1> QED
  BY <1>1, <1>3, <1>4, <1>5 DEF WalkTyped

\* and every step keeps them,
LEMMA WalkTypedStep ==
  ASSUME WalkTyped, [WalkNext]_walkVars
  PROVE  WalkTyped'
<1>0. /\ records \in Seq(Candidate) /\ ByDate(records)
      /\ config \in 1..(Len(Grid) + 1)
      /\ start \in Nat /\ (start > 0 => start + TrainDays <= Len(records))
      /\ windows \in Seq(Tested)
      /\ results \in Seq(Results) /\ Len(results) = config - 1
      /\ Reported
  BY Zenon DEF WalkTyped
<1>1. /\ Len(Grid) \in Nat /\ TestDays \in Nat \ {0} /\ TrainDays \in Nat \ {0}
      /\ Len(records) \in Nat
  BY <1>0, WalkAssumption
<1>2. CASE Window
  <2>1. /\ WindowFits /\ start' = start + TestDays
        /\ UNCHANGED <<records, config, results, report>>
        /\ windows' \in {windows, Append(windows, WindowResult(Train, Test, Grid[config]))}
    BY <1>2 DEF Window
  <2>2. WindowResult(Train, Test, Grid[config]) \in Tested
    BY <1>0, <2>1, NewWindow
  <2>3. windows' \in Seq(Tested)
    <3> DEFINE w == WindowResult(Train, Test, Grid[config])
    <3>1. w \in Tested /\ windows' \in {windows, Append(windows, w)}
      BY <2>1, <2>2
    <3> HIDE DEF w
    <3>2. windows \in Seq(Tested)
      BY <1>0
    <3> QED
      BY <3>1, <3>2
  <2>4. start' \in Nat /\ start' + TrainDays <= Len(records)
    BY <1>0, <1>1, <2>1 DEF WindowFits
  <2>5. ByDate(records)'
    BY <1>0, <2>1 DEF ByDate
  <2> QED
    BY <1>0, <2>1, <2>3, <2>4, <2>5 DEF WalkTyped, Reported
<1>3. CASE Finish
  <2>1. AggregateWindows(windows) \in Results
    BY <1>0 DEF Results
  <2>2. /\ results' = Append(results, AggregateWindows(windows))
        /\ config' = config + 1 /\ start' = 0 /\ windows' = << >>
        /\ config <= Len(Grid) /\ UNCHANGED <<records, report>>
    BY <1>3 DEF Finish
  <2>3. results' \in Seq(Results) /\ Len(results') = config' - 1
    BY <1>0, <1>1, <2>1, <2>2
  <2>4. config' \in 1..(Len(Grid) + 1)
    BY <1>0, <1>1, <2>2
  <2>5. ByDate(records)' /\ << >> \in Seq(Tested)
    BY <1>0, <2>2 DEF ByDate
  <2>6. Reported'
    <3>1. report' = report
      BY <2>2
    <3> QED
      BY <1>0, <3>1 DEF Reported
  <2>7. start' \in Nat /\ (start' > 0 => start' + TrainDays <= Len(records'))
    BY <2>2
  <2> QED
    BY <1>0, <2>2, <2>3, <2>4, <2>5, <2>6, <2>7 DEF WalkTyped
<1>4. CASE Report
  <2>1. Reported'
    BY <1>4 DEF Report, DeflatedSharpeReport, Reported
  <2>2. UNCHANGED <<records, config, start, windows, results>>
    BY <1>4 DEF Report
  <2> QED
    BY <1>0, <2>1, <2>2 DEF WalkTyped, ByDate
<1>5. CASE UNCHANGED walkVars
  BY <1>0, <1>5 DEF walkVars, WalkTyped, ByDate, Reported
<1> QED
  BY <1>2, <1>3, <1>4, <1>5 DEF WalkNext

\* so they always hold;
LEMMA WalkTypedInvariant == WalkSpec => []WalkTyped
<1>1. WalkInit => WalkTyped
  BY WalkTypedInit
<1>2. WalkTyped /\ [WalkNext]_walkVars => WalkTyped'
  BY WalkTypedStep
<1> QED
  BY <1>1, <1>2, PTL DEF WalkSpec

\* they imply the type invariant.
LEMMA WalkTypedIsOK ==
  ASSUME WalkTyped
  PROVE  WalkTypeOK
<1>1. /\ records \in Seq(Candidate) /\ config \in 1..(Len(Grid) + 1)
      /\ start \in Nat /\ (start > 0 => start + TrainDays <= Len(records))
      /\ Len(results) = config - 1
      /\ Reported
  BY Zenon DEF WalkTyped
<1>2. TrainDays \in Nat /\ Len(records) \in Nat
  BY <1>1, WalkAssumption
<1>3. start \in 0..Len(records)
  BY <1>1, <1>2
<1> QED
  BY <1>1, <1>3, Zenon DEF WalkTypeOK, Reported

\* Every variable of the walk-forward keeps its type, start its bound included.
THEOREM WalkTypeCorrect == WalkSpec => []WalkTypeOK
<1>1. WalkTyped => WalkTypeOK
  BY WalkTypedIsOK
<1> QED
  BY <1>1, WalkTypedInvariant, PTL

\* The drawdown of every window is the largest loss of a run of its trades, for
\* every sequence of trades.
THEOREM DrawdownIsWorstRunCorrect == WalkSpec => []DrawdownIsWorstRun
<1>1. WalkTyped => DrawdownIsWorstRun
  <2> SUFFICES ASSUME WalkTyped, NEW ws \in AllWindows, NEW i \in DOMAIN ws
               PROVE  ws[i].drawdown
                        = Max({0} \cup {-Total(SubSeq(ws[i].pnls, a, b)) :
                                          a, b \in DOMAIN ws[i].pnls})
    BY DEF DrawdownIsWorstRun
  <2>1. ws \in Seq(Tested)
    <3>1. windows \in Seq(Tested) /\ results \in Seq(Results)
      BY Zenon DEF WalkTyped
    <3>2. \A k \in DOMAIN results : results[k].windows \in Seq(Tested)
      BY <3>1, ResultHolds
    <3> QED
      BY <3>1, <3>2 DEF AllWindows
  <2>2. ws[i] \in Tested
    BY <2>1
  <2>3. ws[i].drawdown = MaxDrawdown(ws[i].pnls) /\ ws[i].pnls \in Seq(Int)
    BY <2>2 DEF Tested, WindowRecord
  <2> DEFINE pnls == ws[i].pnls
  <2>4. pnls \in Seq(Int) /\ ws[i].drawdown = MaxDrawdown(pnls)
    BY <2>3
  <2> HIDE DEF pnls
  <2>5. ws[i].drawdown = Max({0} \cup {-Total(SubSeq(pnls, a, b)) : a, b \in DOMAIN pnls})
    BY <2>4, DrawdownIsWorst
  <2> QED
    BY <2>5 DEF pnls
<1> QED
  BY <1>1, WalkTypedInvariant, PTL

-------------------------------------------------------------------------------
(* Leakage.                                                                *)

Chained(ws) ==
  \A i \in DOMAIN ws :
    /\ ws[i].trainFrom <= ws[i].trainTo /\ ws[i].trainTo < ws[i].testFrom
    /\ i > 1 => ws[i - 1].testTo <= ws[i].testFrom

\* A record is tested once: the trades of the windows so far are at most the records
\* passed over, and the last day tested is not later than the next training's last.
OnceTested ==
  /\ Total(TradesOf(windows)) <= start
  /\ windows # << >> =>
       start > 0 /\ windows[Len(windows)].testTo <= records[start + TrainDays].date

\* How many records come after the first training.
RoomForTrades == Max({0, Len(records) - TrainDays})

\* The inductive invariant of NoLeakage.
LeakInv ==
  /\ Chained(windows) /\ OnceTested
  /\ \A i \in DOMAIN results : /\ Chained(results[i].windows)
                               /\ Total(TradesOf(results[i].windows)) <= RoomForTrades

\* A window is appended to the chain when its test starts after its training.
LEMMA WindowKeepsLeakInv ==
  ASSUME WalkTyped, WalkTyped', LeakInv, Window
  PROVE  LeakInv'
<1> DEFINE w == WindowResult(Train, Test, Grid[config])
<1>1. /\ records \in Seq(Candidate) /\ ByDate(records) /\ start \in Nat
      /\ windows \in Seq(Tested)
      /\ (start > 0 => start + TrainDays <= Len(records))
  BY Zenon DEF WalkTyped
<1>2. /\ TrainDays \in Nat \ {0} /\ TestDays \in Nat \ {0} /\ Len(records) \in Nat
      /\ DOMAIN records = 1..Len(records)
      /\ \A i \in 1..Len(records) : records[i].date \in Nat
  <2>1. TrainDays \in Nat \ {0} /\ TestDays \in Nat \ {0}
    BY WalkAssumption
  <2>2. /\ Len(records) \in Nat /\ DOMAIN records = 1..Len(records)
        /\ \A i \in 1..Len(records) : records[i] \in Candidate
    BY <1>1
  <2>3. \A c \in Candidate : c.date \in Nat
    BY DEF Candidate
  <2> QED
    BY <2>1, <2>2, <2>3
<1>3. WindowFits /\ start' = start + TestDays /\ records' = records /\ results' = results
  BY DEF Window
<1>4. start + TrainDays + TestDays <= Len(records)
  BY <1>3 DEF WindowFits
<1>5. /\ w \in Tested
      /\ w.trainFrom = records[start + 1].date
      /\ w.trainTo = records[start + TrainDays].date
      /\ w.testFrom = records[start + TrainDays + 1].date
      /\ w.testTo = records[start + TrainDays + TestDays].date
      /\ w.trainTo = Train[TrainDays].date /\ w.testFrom = Test[1].date
  BY <1>1, <1>3, NewWindow
<1>6. w.trades \in 0..TestDays /\ w.trades \in Int
  BY <1>2, <1>5 DEF Tested, WindowRecord
<1>7. (Leaks /\ windows' = windows) \/ (~Leaks /\ windows' = Append(windows, w))
  BY DEF Window
<1> HIDE DEF w
<1>8. ASSUME NEW i \in 1..Len(records), NEW j \in 1..Len(records), i <= j
      PROVE  records[i].date <= records[j].date
  BY <1>1, <1>2, <1>8 DEF ByDate
<1> DEFINE lo == start + TrainDays
           hi == start' + TrainDays
<1>9. /\ start + 1 \in 1..Len(records) /\ lo \in 1..Len(records)
      /\ lo + 1 \in 1..Len(records) /\ hi \in 1..Len(records)
      /\ start + 1 <= lo /\ lo <= lo + 1 /\ lo <= hi /\ hi = start + TrainDays + TestDays
      /\ start' > 0
  BY <1>1, <1>2, <1>3, <1>4
<1>10. /\ records[start + 1].date <= records[lo].date
       /\ records[lo].date <= records[lo + 1].date
       /\ records[lo].date <= records[hi].date
       /\ records[lo].date \in Nat /\ records[hi].date \in Nat
       /\ records[lo + 1].date \in Nat /\ records[start + 1].date \in Nat
  BY <1>2, <1>8, <1>9
<1>11. /\ w.trainFrom <= w.trainTo /\ records[lo].date <= w.testFrom
       /\ w.testTo = records[hi].date /\ w.testFrom \in Int
  BY <1>5, <1>9, <1>10
<1>12. \A i \in DOMAIN windows : windows[i].testTo \in Int
  <2>1. \A i \in DOMAIN windows : windows[i] \in Tested
    BY <1>1
  <2> QED
    BY <2>1 DEF Tested, WindowRecord
<1>13. Total(TradesOf(windows)) \in Int
  BY <1>1, TradesOfAppended, TotalOfAppended
<1> DEFINE days == records[lo].date
<1>14. windows # << >> => windows[Len(windows)].testTo <= days
  BY DEF LeakInv, OnceTested
<1> HIDE DEF lo, hi, days
<1>15. Chained(windows') /\ OnceTested'
  <2>1. CASE Leaks /\ windows' = windows
    <3>1. Chained(windows')
      BY <2>1 DEF LeakInv
    <3>2. Total(TradesOf(windows')) <= start'
      BY <1>1, <1>2, <1>3, <1>13, <2>1 DEF LeakInv, OnceTested
    <3>3. windows # << >> => windows[Len(windows)].testTo <= records[hi].date
      <4>1. windows # << >> => Len(windows) \in DOMAIN windows
        BY <1>1
      <4>2. days = records[lo].date
        BY DEF days
      <4> QED
        BY <1>10, <1>12, <1>14, <4>1, <4>2
    <3> QED
      BY <1>3, <1>9, <2>1, <3>1, <3>2, <3>3 DEF OnceTested, hi
  <2>2. CASE ~Leaks /\ windows' = Append(windows, w)
    <3> DEFINE n == Len(windows)
               more == Append(windows, w)
    <3>1. /\ n \in Nat /\ DOMAIN windows = 1..n /\ DOMAIN more = 1..(n + 1)
          /\ Len(more) = n + 1 /\ more[n + 1] = w
          /\ \A i \in 1..n : more[i] = windows[i]
      BY <1>1, <1>5
    <3> HIDE DEF more
    <3>2. w.trainTo < w.testFrom
      <4>1. ~(w.testFrom <= w.trainTo)
        BY <1>5, <2>2, Zenon DEF Leaks
      <4>2. w.testFrom \in Int /\ w.trainTo \in Int
        BY <1>5 DEF Tested, WindowRecord
      <4> QED
        BY <4>1, <4>2
    <3>3. Chained(more)
      <4> SUFFICES ASSUME NEW i \in 1..(n + 1)
                   PROVE  /\ more[i].trainFrom <= more[i].trainTo
                          /\ more[i].trainTo < more[i].testFrom
                          /\ i > 1 => more[i - 1].testTo <= more[i].testFrom
        BY <3>1 DEF Chained
      <4>1. CASE i = n + 1
        <5>1. i > 1 => n \in 1..n /\ i - 1 = n /\ windows # << >>
          BY <3>1, <4>1
        <5>2. i > 1 => windows[n].testTo <= days /\ windows[n].testTo \in Int
          BY <1>12, <1>14, <3>1, <5>1
        <5>3. i > 1 => windows[n].testTo <= w.testFrom
          BY <1>10, <1>11, <5>2 DEF days
        <5> QED
          BY <1>11, <3>1, <3>2, <4>1, <5>1, <5>3
      <4>2. CASE i # n + 1
        <5>1. i \in 1..n /\ (i > 1 => i - 1 \in 1..n)
          BY <3>1, <4>2
        <5>2. /\ windows[i].trainFrom <= windows[i].trainTo
              /\ windows[i].trainTo < windows[i].testFrom
              /\ i > 1 => windows[i - 1].testTo <= windows[i].testFrom
          BY <3>1, <5>1 DEF LeakInv, Chained
        <5> QED
          BY <3>1, <5>1, <5>2
      <4> QED
        BY <4>1, <4>2
    <3>4. Total(TradesOf(more)) = Total(TradesOf(windows)) + w.trades
      <4>1. /\ TradesOf(more) = Append(TradesOf(windows), w.trades)
            /\ TradesOf(windows) \in Seq(Int)
        BY <1>1, <1>5, TradesOfAppended DEF more
      <4> QED
        BY <1>6, <4>1, TotalOfAppended
    <3>5. Total(TradesOf(windows)) <= start
      BY DEF LeakInv, OnceTested
    <3>6. Total(TradesOf(more)) <= start'
      BY <1>1, <1>2, <1>3, <1>6, <1>13, <3>4, <3>5
    <3>7. more[Len(more)].testTo <= records[hi].date
      <4>1. more[Len(more)].testTo = records[hi].date
        BY <1>11, <3>1
      <4> QED
        BY <1>10, <4>1
    <3>8. windows' = more
      BY <2>2 DEF more
    <3> QED
      BY <1>3, <1>9, <3>3, <3>6, <3>7, <3>8 DEF OnceTested, hi
  <2> QED
    BY <1>7, <2>1, <2>2
<1> QED
  BY <1>3, <1>15 DEF LeakInv, RoomForTrades

\* Before any window, nothing has been traded.
LEMMA NothingTraded == TradesOf(<< >>) = << >> /\ Total(TradesOf(<< >>)) = 0
<1>1. TradesOf(<< >>) = << >>
  BY DEF TradesOf
<1> DEFINE none == << >>
<1>2. none \in Seq(Int) /\ \A i \in DOMAIN none : none[i] = 0
  OBVIOUS
<1> HIDE DEF none
<1>3. Total(none) = 0
  BY <1>2, TotalOfZeros
<1> QED
  BY <1>1, <1>3 DEF none

\* What was passed over leaves room for that many trades.
LEMMA RoomIsEnough ==
  ASSUME records \in Seq(Candidate), start \in Nat,
         start > 0 => start + TrainDays <= Len(records)
  PROVE  RoomForTrades \in Int /\ start <= RoomForTrades
<1> DEFINE left == Len(records) - TrainDays
<1>1. left \in Int /\ (start > 0 => start <= left)
  BY WalkAssumption
<1>2. RoomForTrades = Max({0, left})
  BY DEF RoomForTrades
<1> HIDE DEF left
<1>3. Max({0, left}) \in {0, left} /\ Max({0, left}) >= 0 /\ Max({0, left}) >= left
  <2>1. 0 \in Int
    OBVIOUS
  <2> QED
    BY <1>1, <2>1, MaxOfTwo, Zenon
<1> QED
  BY <1>1, <1>2, <1>3

\* Finishing a configuration: its windows move to its result, and no more records
\* were passed over than there are after the first training.
LEMMA FinishKeepsLeakInv ==
  ASSUME WalkTyped, LeakInv, Finish
  PROVE  LeakInv'
<1> DEFINE r == AggregateWindows(windows)
<1>1. /\ records \in Seq(Candidate) /\ start \in Nat /\ windows \in Seq(Tested)
      /\ results \in Seq(Results)
      /\ (start > 0 => start + TrainDays <= Len(records))
  BY Zenon DEF WalkTyped
<1>2. /\ results' = Append(results, r) /\ start' = 0 /\ windows' = << >>
      /\ records' = records
  BY DEF Finish
<1>3. Chained(r.windows) /\ Total(TradesOf(r.windows)) <= start
  BY AggregateHolds DEF LeakInv, OnceTested
<1>4. Total(TradesOf(r.windows)) <= RoomForTrades
  <2>1. Total(TradesOf(r.windows)) \in Int
    <3>1. r.windows = windows
      BY AggregateHolds
    <3> QED
      BY <1>1, <3>1, TradesOfAppended, TotalOfAppended
  <2>2. RoomForTrades \in Int /\ start <= RoomForTrades
    BY <1>1, RoomIsEnough
  <2> HIDE DEF r
  <2> QED
    BY <1>1, <1>3, <2>1, <2>2
<1>5. OnceTested' /\ Chained(windows')
  BY <1>2, NothingTraded DEF OnceTested, Chained
<1>6. RoomForTrades' = RoomForTrades
  BY <1>2 DEF RoomForTrades
<1> HIDE DEF r
<1>7. \A i \in DOMAIN results' : /\ Chained(results'[i].windows)
                                 /\ Total(TradesOf(results'[i].windows)) <= RoomForTrades
  <2>1. \A i \in DOMAIN results : /\ Chained(results[i].windows)
                                  /\ Total(TradesOf(results[i].windows)) <= RoomForTrades
    BY DEF LeakInv
  <2>2. \A i \in DOMAIN results' : results'[i] = r \/ (i \in DOMAIN results /\ results'[i] = results[i])
    BY <1>1, <1>2
  <2> QED
    BY <1>3, <1>4, <2>1, <2>2
<1> QED
  BY <1>5, <1>6, <1>7 DEF LeakInv

\* No leakage: in every run over every history in the order of its dates, each window
\* tests days after all it trained on, and no record is tested twice.
THEOREM NoLeakageCorrect == WalkSpec => []NoLeakage
<1>1. WalkInit => LeakInv
  <2> SUFFICES ASSUME WalkInit PROVE LeakInv
    OBVIOUS
  <2>1. start = 0 /\ windows = << >> /\ results = << >>
    BY Zenon DEF WalkInit
  <2> QED
    BY <2>1, NothingTraded DEF LeakInv, OnceTested, Chained
<1>2. LeakInv /\ WalkTyped /\ WalkTyped' /\ [WalkNext]_walkVars => LeakInv'
  <2> SUFFICES ASSUME LeakInv, WalkTyped, WalkTyped', [WalkNext]_walkVars PROVE LeakInv'
    OBVIOUS
  <2>1. CASE Window
    BY <2>1, WindowKeepsLeakInv
  <2>2. CASE Finish
    BY <2>2, FinishKeepsLeakInv
  <2>3. CASE UNCHANGED <<records, start, windows, results>>
    BY <2>3 DEF LeakInv, OnceTested, RoomForTrades
  <2> QED
    BY <2>1, <2>2, <2>3, Zenon DEF WalkNext, Report, walkVars
<1>3. LeakInv /\ WalkTyped => NoLeakage
  <2> SUFFICES ASSUME LeakInv, WalkTyped, NEW ws \in AllWindows
               PROVE  Chained(ws) /\ Total(TradesOf(ws)) <= RoomForTrades
    BY Zenon DEF NoLeakage, Chained, TradesOf, RoomForTrades
  <2>1. CASE ws = windows
    <3>1. /\ records \in Seq(Candidate) /\ start \in Nat /\ windows \in Seq(Tested)
          /\ (start > 0 => start + TrainDays <= Len(records))
      BY Zenon DEF WalkTyped
    <3>2. RoomForTrades \in Int /\ start <= RoomForTrades
      BY <3>1, RoomIsEnough
    <3>3. Total(TradesOf(windows)) \in Int
      BY <3>1, TradesOfAppended, TotalOfAppended
    <3>4. Chained(windows) /\ Total(TradesOf(windows)) <= start
      BY DEF LeakInv, OnceTested
    <3> QED
      BY <2>1, <3>1, <3>2, <3>3, <3>4
  <2>2. ASSUME NEW i \in DOMAIN results, ws = results[i].windows
        PROVE  Chained(ws) /\ Total(TradesOf(ws)) <= RoomForTrades
    BY <2>2 DEF LeakInv
  <2> QED
    BY <2>1, <2>2 DEF AllWindows
<1> QED
  BY <1>1, <1>2, <1>3, WalkTypedInvariant, PTL DEF WalkSpec

-------------------------------------------------------------------------------
(* The research program on its own database.                               *)

\* Every configuration of the grid excludes the records.
AllExclude == \A i \in DOMAIN Grid : Excludes(Grid[i])

WithoutTrades(ws) == \A i \in DOMAIN ws : ws[i].trades = 0

\* The inductive invariant of LoadedNeverTrades.
LoadedInv ==
  loaded /\ AllExclude =>
    /\ \A i \in DOMAIN records : records[i].rs = 0
    /\ WithoutTrades(windows)
    /\ \A i \in DOMAIN results : WithoutTrades(results[i].windows)
    /\ report # "warning"

\* Nothing passes a configuration that no record of the slice passes.
LEMMA NothingPasses ==
  ASSUME NEW slice \in Seq(Candidate), NEW cfg \in Thresholds,
         \A i \in DOMAIN slice : ~Passes(slice[i], cfg)
  PROVE  Len(ApplyThresholds(slice, cfg)) = 0
<1> DEFINE weak == {c \in Candidate : ~Passes(c, cfg)}
           kept == ApplyThresholds(slice, cfg)
<1>1. slice \in Seq(weak)
  <2>1. \A i \in 1..Len(slice) : slice[i] \in Candidate /\ ~Passes(slice[i], cfg)
    OBVIOUS
  <2>2. \A i \in 1..Len(slice) : slice[i] \in weak
    BY <2>1
  <2>3. Len(slice) \in Nat /\ slice = [i \in 1..Len(slice) |-> slice[i]]
    OBVIOUS
  <2> HIDE DEF weak
  <2> QED
    BY <2>2, <2>3
<1>2. kept \in Seq(weak) /\ \A i \in DOMAIN kept : Passes(kept[i], cfg)
  BY <1>1, FilterKeeps
<1>3. \A c \in weak : ~Passes(c, cfg)
  OBVIOUS
<1> HIDE DEF weak, kept
<1>4. \A i \in 1..Len(kept) : kept[i] \in weak /\ Passes(kept[i], cfg)
  BY <1>2
<1>5. Len(kept) \in Nat /\ ~(1 \in 1..Len(kept))
  BY <1>2, <1>3, <1>4
<1> QED
  BY <1>5 DEF kept

\* No record without relative strength passes a configuration that excludes it.
LEMMA ExcludedFails ==
  ASSUME NEW cfg \in Thresholds, Excludes(cfg), records \in Seq(Candidate),
         NEW i \in DOMAIN records, records[i].rs = 0
  PROVE  ~Passes(records[i], cfg)
<1>1. records[i] \in Candidate
  OBVIOUS
<1>2. records[i].bb \in Int /\ cfg.bbMax \in Nat /\ cfg.rsMin \in Nat
  BY <1>1 DEF Candidate, Thresholds
<1> QED
  BY <1>2 DEF Excludes, Passes

\* A window over such records has no trades.
LEMMA WindowKeepsLoadedInv ==
  ASSUME WalkTyped, LoadedInv, Window
  PROVE  LoadedInv'
<1> SUFFICES ASSUME loaded, AllExclude
             PROVE  /\ \A i \in DOMAIN records' : records'[i].rs = 0
                    /\ WithoutTrades(windows')
                    /\ \A i \in DOMAIN results' : WithoutTrades(results'[i].windows)
                    /\ report' # "warning"
  BY DEF LoadedInv, Window, AllExclude, Excludes
<1> DEFINE w == WindowResult(Train, Test, Grid[config])
<1>1. /\ records \in Seq(Candidate) /\ start \in Nat /\ windows \in Seq(Tested)
      /\ config \in 1..(Len(Grid) + 1)
  BY Zenon DEF WalkTyped
<1>2. /\ \A i \in DOMAIN records : records[i].rs = 0
      /\ WithoutTrades(windows)
      /\ \A i \in DOMAIN results : WithoutTrades(results[i].windows)
      /\ report # "warning"
  BY DEF LoadedInv
<1>3. /\ WindowFits /\ config <= Len(Grid)
      /\ records' = records /\ results' = results /\ report' = report
      /\ windows' = windows \/ windows' = Append(windows, w)
  BY DEF Window
<1>4. Grid[config] \in Thresholds /\ Excludes(Grid[config])
  <2>1. config \in DOMAIN Grid /\ Grid \in Seq(Thresholds)
    BY <1>1, <1>3, WalkAssumption
  <2> QED
    BY <2>1 DEF AllExclude
<1>5. Test \in Seq(Candidate) /\ \A i \in DOMAIN Test : ~Passes(Test[i], Grid[config])
  <2>1. /\ Test \in Seq(Candidate) /\ Len(Test) = TestDays
        /\ \A i \in 1..TestDays : Test[i] = records[start + TrainDays + i]
    BY <1>1, <1>3, Slices
  <2>2. \A i \in 1..TestDays : start + TrainDays + i \in DOMAIN records
    BY <1>1, <1>3, WalkAssumption DEF WindowFits
  <2>3. DOMAIN Test = 1..TestDays
    BY <2>1
  <2>4. \A i \in DOMAIN records : ~Passes(records[i], Grid[config])
    BY <1>1, <1>2, <1>4, ExcludedFails
  <2> QED
    BY <2>1, <2>2, <2>3, <2>4
<1>6. w \in Tested /\ w.trades = 0
  <2>1. w \in Tested /\ w.trades = Len(ApplyThresholds(Test, Grid[config]))
    BY <1>1, <1>3, NewWindow
  <2> QED
    BY <1>4, <1>5, <2>1, NothingPasses
<1> HIDE DEF w
<1>7. WithoutTrades(windows')
  <2>1. CASE windows' = windows
    BY <1>2, <2>1 DEF WithoutTrades
  <2>2. CASE windows' = Append(windows, w)
    <3>1. \A i \in DOMAIN Append(windows, w) :
            Append(windows, w)[i] = w \/ (i \in DOMAIN windows /\ Append(windows, w)[i] = windows[i])
      BY <1>1, <1>6
    <3> QED
      BY <1>2, <1>6, <2>2, <3>1 DEF WithoutTrades
  <2> QED
    BY <1>3, <2>1, <2>2
<1> QED
  BY <1>2, <1>3, <1>7

\* A result of windows without trades has none, and is never found to be chance.
LEMMA NoTradesNoWarning ==
  ASSUME NEW r \in Results, WithoutTrades(r.windows)
  PROVE  DeflatedSharpeReport(r) # "warning"
<1>1. r.windows \in Seq(Tested) /\ r.trades = Total(TradesOf(r.windows))
  BY ResultHolds
<1>2. TradesOf(r.windows) \in Seq(Int)
  BY <1>1, TradesOfAppended
<1>3. \A i \in DOMAIN TradesOf(r.windows) : TradesOf(r.windows)[i] = 0
  BY DEF TradesOf, WithoutTrades
<1>4. r.trades = 0
  BY <1>1, <1>2, <1>3, TotalOfZeros
<1>5. ~(r.trades > 1)
  BY <1>4
<1> QED
  BY <1>5, Zenon DEF DeflatedSharpeReport

\* Over records loaded from its own database, nothing ever trades under a grid whose
\* every configuration asks for relative strength or for a Bollinger rank under the
\* records' VIX, and the report never warns, whatever the rows held.
THEOREM LoadedNeverTradesCorrect == WalkSpec => []LoadedNeverTrades
<1>1. WalkInit => LoadedInv
  <2> SUFFICES ASSUME WalkInit PROVE LoadedInv
    OBVIOUS
  <2>1. windows = << >> /\ results = << >> /\ report = "none"
    BY Zenon DEF WalkInit
  <2>2. loaded => \A i \in DOMAIN records : records[i].rs = 0
    <3>1. loaded => \E rows \in Databases : records = LoadCandidates(rows)
      BY Zenon DEF WalkInit
    <3> QED
      BY <3>1 DEF LoadCandidates
  <2> QED
    BY <2>1, <2>2 DEF LoadedInv, WithoutTrades
<1>2. LoadedInv /\ WalkTyped /\ [WalkNext]_walkVars => LoadedInv'
  <2> SUFFICES ASSUME LoadedInv, WalkTyped, [WalkNext]_walkVars PROVE LoadedInv'
    OBVIOUS
  <2>0. windows \in Seq(Tested) /\ results \in Seq(Results)
    BY Zenon DEF WalkTyped
  <2>1. CASE Window
    BY <2>1, WindowKeepsLoadedInv
  <2>2. CASE Finish
    <3> DEFINE r == AggregateWindows(windows)
    <3>1. /\ results' = Append(results, r) /\ windows' = << >>
          /\ loaded' = loaded /\ records' = records /\ report' = report
      BY <2>2 DEF Finish
    <3>2. r.windows = windows
      BY AggregateHolds
    <3> HIDE DEF r
    <3>3. \A i \in DOMAIN results' :
            results'[i] = r \/ (i \in DOMAIN results /\ results'[i] = results[i])
      BY <2>0, <3>1
    <3>4. WithoutTrades(windows')
      BY <3>1 DEF WithoutTrades
    <3>5. \A i \in DOMAIN results' :
            results'[i].windows = windows
              \/ (i \in DOMAIN results /\ results'[i].windows = results[i].windows)
      BY <3>2, <3>3
    <3>6. ASSUME loaded, AllExclude
          PROVE  /\ \A i \in DOMAIN results' : WithoutTrades(results'[i].windows)
                 /\ \A i \in DOMAIN records : records[i].rs = 0
                 /\ report # "warning"
      BY <3>5, <3>6 DEF LoadedInv
    <3> QED
      BY <3>1, <3>4, <3>6 DEF LoadedInv, AllExclude, Excludes
  <2>3. CASE Report
    <3>1. UNCHANGED <<loaded, records, windows, results>>
      BY <2>3 DEF Report
    <3>2. PICK best \in ToSet(results) : report' = DeflatedSharpeReport(best)
      BY <2>3 DEF Report
    <3>3. PICK i \in DOMAIN results : best = results[i]
      BY DEF ToSet
    <3>4. best \in Results
      BY <2>0, <3>3
    <3>5. loaded /\ AllExclude => report' # "warning"
      BY <3>2, <3>3, <3>4, NoTradesNoWarning DEF LoadedInv
    <3> QED
      BY <3>1, <3>5 DEF LoadedInv, AllExclude, Excludes
  <2>4. CASE UNCHANGED walkVars
    BY <2>4 DEF walkVars, LoadedInv, AllExclude, Excludes
  <2> QED
    BY <2>1, <2>2, <2>3, <2>4 DEF WalkNext
<1>3. LoadedInv => LoadedNeverTrades
  BY DEF LoadedInv, LoadedNeverTrades, AllWindows, WithoutTrades, AllExclude
<1> QED
  BY <1>1, <1>2, <1>3, WalkTypedInvariant, PTL DEF WalkSpec

================================================================================
