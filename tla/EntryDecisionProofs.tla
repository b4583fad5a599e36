-------------------------- MODULE EntryDecisionProofs --------------------------
(***************************************************************************)
(* What EntryDecision guarantees for every set of bars, chains and rows.   *)
(***************************************************************************)
EXTENDS EntryDecision, ExtremaAndFolds

-------------------------------------------------------------------------------
(* Type correctness.                                                       *)

\* Everything selected was offered by the feed.
LEMMA BestWasOffered ==
  ASSUME NEW feed, NEW type, NEW c \in BestContracts(Liquid(Listed(feed)), type)
  PROVE  /\ c \in Pool(Liquid(Listed(feed)), type)
         /\ c \in Liquid(Listed(feed))
         /\ c \in feed
         /\ Liquid(Listed(feed)) \subseteq feed
<1>1. c \in Pool(Liquid(Listed(feed)), type)
  BY DEF BestContracts
<1>2. Pool(Liquid(Listed(feed)), type) \subseteq Liquid(Listed(feed))
  BY DEF Pool, InBand, Candidates
<1>3. Liquid(Listed(feed)) \subseteq feed
  BY DEF Liquid, Listed
<1> QED
  BY <1>1, <1>2, <1>3

\* Every variable keeps its type, whatever the market and the feed answer.
THEOREM DecisionTypeCorrect == Spec => []TypeOK
<1>1. Init => TypeOK
  <2> SUFFICES ASSUME Init PROVE TypeOK
    OBVIOUS
  <2>1. row \in Row
    BY DecisionAssumption DEF Init
  <2>2. bars \in Seq(Bars)
    BY DEF Init
  <2> QED
    BY <2>1, <2>2 DEF Init, TypeOK, Stages
<1>2. TypeOK /\ [Next]_vars => TypeOK'
  <2> SUFFICES ASSUME TypeOK, [Next]_vars PROVE TypeOK'
    OBVIOUS
  <2> USE DEF TypeOK, Stages, run
  <2>1. ASSUME NEW b \in Bars, TickerMinute(b) PROVE TypeOK'
    BY <2>1 DEF TickerMinute
  <2>2. ASSUME NEW p \in SpyCloses, SpyMinute(p) PROVE TypeOK'
    BY <2>2 DEF SpyMinute
  <2>3. CASE GatherSignals
    BY <2>3 DEF GatherSignals, Row, Confirmed
  <2>4. CASE ChainFails
    BY <2>4 DEF ChainFails
  <2>5. ASSUME NEW feed \in Feeds, NoContractFound(feed) PROVE TypeOK'
    BY <2>5 DEF NoContractFound
  <2>6. ASSUME NEW feed \in Feeds, NEW c \in feed, SelectContract(feed, c) PROVE TypeOK'
    <3>1. feed \subseteq Contract
      BY DecisionAssumption
    <3>2. c \in BestContracts(Liquid(Listed(feed)), OptionType)
      BY <2>6 DEF SelectContract
    <3>3. Liquid(Listed(feed)) \subseteq Contract /\ c \in Contract
      BY <3>1, <3>2, BestWasOffered
    <3>4. limit' \in Nat /\ stage' \in Stages
      BY <2>6 DEF SelectContract, LimitPrices
    <3> QED
      BY <2>6, <3>3, <3>4 DEF SelectContract
  <2>7. CASE IVRankTooHigh
    BY <2>7 DEF IVRankTooHigh
  <2>8. CASE Decide
    BY <2>8 DEF Decide
  <2>9. CASE Interrupt
    BY <2>9 DEF Interrupt
  <2>10. CASE UNCHANGED vars
    BY <2>10 DEF vars
  <2> QED
    BY <2>1, <2>2, <2>3, <2>4, <2>5, <2>6, <2>7, <2>8, <2>9, <2>10 DEF Next
<1> QED
  BY <1>1, <1>2, PTL DEF Spec

-------------------------------------------------------------------------------
(* Calls and puts.                                                         *)

\* A market cannot have moved both ways, so no window confirms both sides.
THEOREM NotBothWaysCorrect == Spec => []NotBothWays
<1>1. TypeOK => NotBothWays
  <2> SUFFICES ASSUME TypeOK, Confirmed(row, bars, spy),
                      NEW other \in Rows, other.bullish # row.bullish,
                      Confirmed(other, bars, spy)
               PROVE  FALSE
    BY DEF NotBothWays
  <2>1. row.bullish \in BOOLEAN /\ other.bullish \in BOOLEAN
    BY DecisionAssumption DEF TypeOK, Row
  <2>2. spy.open \in Int /\ spy.close \in Int
    <3>1. SpyOpen \in Int /\ SpyCloses \subseteq Int
      BY DecisionAssumption
    <3>2. CASE spy = NoSpy
      BY <3>2 DEF NoSpy
    <3>3. CASE spy \in [open : {SpyOpen}, close : SpyCloses]
      BY <3>1, <3>3
    <3> QED
      BY <3>2, <3>3 DEF TypeOK
  <2>3. MarketAligned(row, spy) /\ MarketAligned(other, spy)
    BY DEF Confirmed
  <2> QED
    BY <2>1, <2>2, <2>3 DEF MarketAligned
<1> QED
  BY <1>1, DecisionTypeCorrect, PTL

-------------------------------------------------------------------------------
(* Puts are calls upside down.                                             *)

\* A window that is not empty has a highest and a lowest price.
LEMMA RangeIsReached ==
  ASSUME NEW w \in Seq(Bars), w # << >>
  PROVE  /\ RangeHigh(w) \in Nat /\ RangeLow(w) \in Nat
         /\ \E i \in DOMAIN w : w[i].high = RangeHigh(w)
         /\ \E i \in DOMAIN w : w[i].low = RangeLow(w)
         /\ \A i \in DOMAIN w : w[i].high <= RangeHigh(w) /\ RangeLow(w) <= w[i].low
<1> DEFINE highs == {w[i].high : i \in DOMAIN w}
           lows  == {w[i].low : i \in DOMAIN w}
           high  == [i \in DOMAIN w |-> w[i].high]
<1>1. /\ Len(w) \in Nat /\ DOMAIN w = 1..Len(w) /\ Len(w) > 0
      /\ \A i \in DOMAIN w : w[i] \in Bar
  BY DecisionAssumption
<1>2. \A i \in DOMAIN w : w[i].high \in Nat /\ w[i].low \in Nat
  BY <1>1 DEF Bar
<1>3. highs \in SUBSET Nat /\ lows \in SUBSET Nat /\ highs # {} /\ lows # {}
  <2>1. 1 \in DOMAIN w
    BY <1>1
  <2> QED
    BY <1>2, <2>1
<1>4. PICK cap \in Nat : \A i \in 1..Len(w) : high[i] <= cap
  <2>1. \A i \in 1..Len(w) : high[i] \in Nat
    BY <1>1, <1>2
  <2> HIDE DEF high
  <2> QED
    BY <1>1, <2>1, IntervalIsBounded
<1>5. \A y \in highs : y <= cap
  BY <1>1, <1>4
<1>6. Max(highs) \in highs /\ \A y \in highs : Max(highs) >= y
  <2> HIDE DEF highs
  <2> QED
    BY <1>3, <1>5, MaxOfBounded
<1>7. Min(lows) \in lows /\ \A y \in lows : Min(lows) <= y
  <2> HIDE DEF lows
  <2> QED
    BY <1>3, MinOfNaturals
<1>8. RangeHigh(w) = Max(highs) /\ RangeLow(w) = Min(lows)
  BY DEF RangeHigh, RangeLow
<1>9. /\ RangeHigh(w) \in highs /\ RangeLow(w) \in lows
      /\ \A y \in highs : y <= RangeHigh(w)
      /\ \A y \in lows : RangeLow(w) <= y
  <2>1. \A y \in highs : y <= Max(highs)
    BY <1>3, <1>6
  <2> HIDE DEF highs, lows
  <2> QED
    BY <1>6, <1>7, <1>8, <2>1
<1> QED
  BY <1>2, <1>9

\* Mirroring keeps the length and the volumes and turns every price around.
LEMMA BarsMirrored ==
  ASSUME NEW w \in Seq(Bars)
  PROVE  /\ DOMAIN MirrorBars(w) = DOMAIN w /\ Len(MirrorBars(w)) = Len(w)
         /\ \A i \in DOMAIN w : MirrorBars(w)[i] = MirrorBar(w[i])
         /\ TotalVolume(MirrorBars(w)) = TotalVolume(w)
<1>1. Len(w) \in Nat /\ DOMAIN w = 1..Len(w)
  OBVIOUS
<1>2. /\ DOMAIN MirrorBars(w) = DOMAIN w
      /\ \A i \in DOMAIN w : MirrorBars(w)[i] = MirrorBar(w[i])
  BY DEF MirrorBars
<1>3. Len(MirrorBars(w)) = Len(w)
  BY <1>1 DEF MirrorBars
<1>4. Volumes(MirrorBars(w)) = Volumes(w)
  BY <1>2 DEF Volumes, MirrorBar
<1> QED
  BY <1>2, <1>3, <1>4 DEF TotalVolume

\* The top of the mirrored range is the mirror of its floor, and the reverse.
LEMMA RangeMirrored ==
  ASSUME NEW w \in Seq(Bars), w # << >>
  PROVE  /\ RangeHigh(MirrorBars(w)) = PriceTop - RangeLow(w)
         /\ RangeLow(MirrorBars(w)) = PriceTop - RangeHigh(w)
<1> DEFINE m == MirrorBars(w)
           highs == {m[i].high : i \in DOMAIN m}
           lows  == {m[i].low : i \in DOMAIN m}
<1>1. PriceTop \in Int /\ \A i \in DOMAIN w : w[i].high \in Int /\ w[i].low \in Int
  <2>1. \A i \in DOMAIN w : w[i] \in Bar
    BY DecisionAssumption
  <2> QED
    BY <2>1, DecisionAssumption DEF Bar
<1>2. /\ DOMAIN m = DOMAIN w
      /\ \A i \in DOMAIN w : /\ m[i].high = PriceTop - w[i].low
                             /\ m[i].low = PriceTop - w[i].high
  <2>1. /\ DOMAIN m = DOMAIN w
        /\ \A i \in DOMAIN w : m[i] = MirrorBar(w[i])
    BY BarsMirrored
  <2> HIDE DEF m
  <2>2. ASSUME NEW i \in DOMAIN w
        PROVE  /\ MirrorBar(w[i]).high = PriceTop - w[i].low
               /\ MirrorBar(w[i]).low = PriceTop - w[i].high
    BY DEF MirrorBar
  <2> QED
    BY <2>1, <2>2
<1> HIDE DEF m
<1>3. highs \in SUBSET Int /\ lows \in SUBSET Int
  <2>1. \A i \in DOMAIN m : m[i].high \in Int /\ m[i].low \in Int
    BY <1>1, <1>2
  <2> QED
    BY <2>1
<1>4. /\ PriceTop - RangeLow(w) \in highs
      /\ \A y \in highs : PriceTop - RangeLow(w) >= y
  <2>1. PICK i \in DOMAIN w : w[i].low = RangeLow(w)
    BY RangeIsReached
  <2>2. m[i].high = PriceTop - RangeLow(w)
    BY <1>2, <2>1
  <2>3. ASSUME NEW j \in DOMAIN w PROVE PriceTop - RangeLow(w) >= m[j].high
    <3>1. RangeLow(w) <= w[j].low /\ RangeLow(w) \in Int
      BY RangeIsReached
    <3> QED
      BY <1>1, <1>2, <3>1
  <2> QED
    BY <1>2, <2>2, <2>3
<1>5. /\ PriceTop - RangeHigh(w) \in lows
      /\ \A y \in lows : PriceTop - RangeHigh(w) <= y
  <2>1. PICK i \in DOMAIN w : w[i].high = RangeHigh(w)
    BY RangeIsReached
  <2>2. m[i].low = PriceTop - RangeHigh(w)
    BY <1>2, <2>1
  <2>3. ASSUME NEW j \in DOMAIN w PROVE PriceTop - RangeHigh(w) <= m[j].low
    <3>1. w[j].high <= RangeHigh(w) /\ RangeHigh(w) \in Int
      BY RangeIsReached
    <3> QED
      BY <1>1, <1>2, <3>1
  <2> QED
    BY <1>2, <2>2, <2>3
<1>6. Max(highs) = PriceTop - RangeLow(w)
  <2> HIDE DEF highs
  <2> QED
    BY <1>3, <1>4, MaxIsGreatest
<1>7. Min(lows) = PriceTop - RangeHigh(w)
  <2> HIDE DEF lows
  <2> QED
    BY <1>3, <1>5, MinIsLeast
<1>8. RangeHigh(m) = Max(highs) /\ RangeLow(m) = Min(lows)
  BY DEF RangeHigh, RangeLow
<1> QED
  BY <1>6, <1>7, <1>8 DEF m

\* A row, its bars and SPY in the type the comparisons are made with.
Mirrorable(r, w, s) ==
  /\ r \in Row /\ w \in Seq(Bars) /\ w # << >>
  /\ s.open \in Int /\ s.close \in Int

\* Everything the comparisons read, next to its mirror image.
LEMMA ReadsMirrored ==
  ASSUME NEW r, NEW w, NEW s, Mirrorable(r, w, s)
  PROVE  /\ PriceTop \in Int
         /\ r.bullish \in BOOLEAN /\ r.zone \in Int /\ r.stop \in Int
         /\ (MirrorRow(r).bullish <=> ~r.bullish)
         /\ MirrorRow(r).zone = 2 * PriceTop - r.zone
         /\ MirrorRow(r).stop = PriceTop - r.stop
         /\ MirrorRow(r).prevVolume = r.prevVolume
         /\ MirrorSpy(s).open = s.open /\ MirrorSpy(s).close = 2 * s.open - s.close
         /\ 1 \in DOMAIN w /\ Len(w) \in DOMAIN w
         /\ Last(MirrorBars(w)) = MirrorBar(Last(w))
         /\ MirrorBars(w)[1] = MirrorBar(w[1])
         /\ \A i \in DOMAIN w : /\ w[i].open \in Int /\ w[i].close \in Int
                                /\ w[i].high \in Int /\ w[i].low \in Int
         /\ Last(w) = w[Len(w)]
<1>1. r \in Row /\ w \in Seq(Bars) /\ w # << >>
  BY DEF Mirrorable
<1>2. PriceTop \in Int
  BY DecisionAssumption
<1>3. 1 \in DOMAIN w /\ Len(w) \in DOMAIN w
  BY <1>1
<1>4. \A i \in DOMAIN w : w[i] \in Bar
  BY <1>1, DecisionAssumption
<1>5. \A i \in DOMAIN w : /\ w[i].open \in Int /\ w[i].close \in Int
                          /\ w[i].high \in Int /\ w[i].low \in Int
  BY <1>4 DEF Bar
<1>6. /\ Last(MirrorBars(w)) = MirrorBar(Last(w))
      /\ MirrorBars(w)[1] = MirrorBar(w[1])
  BY <1>1, <1>3, BarsMirrored DEF Last
<1>7. /\ r.bullish \in BOOLEAN /\ r.zone \in Int /\ r.stop \in Int
  BY <1>1 DEF Row
<1>8. /\ (MirrorRow(r).bullish <=> ~r.bullish)
      /\ MirrorRow(r).zone = 2 * PriceTop - r.zone
      /\ MirrorRow(r).stop = PriceTop - r.stop
      /\ MirrorRow(r).prevVolume = r.prevVolume
  BY <1>1 DEF MirrorRow, Row
<1>9. MirrorSpy(s).open = s.open /\ MirrorSpy(s).close = 2 * s.open - s.close
  BY DEF MirrorSpy
<1> QED
  BY <1>2, <1>3, <1>5, <1>6, <1>7, <1>8, <1>9 DEF Last

\* A move of two percent down is, in the mirror, a move of two percent up.
LEMMA MirroredChange ==
  ASSUME NEW o \in Int, NEW c \in Int
  PROVE  /\ (200 * ((2 * o - c) - o) < -o) <=> (200 * (c - o) > o)
         /\ (200 * ((2 * o - c) - o) > o) <=> (200 * (c - o) < -o)
OBVIOUS

\* The auto-rejects read the bars alike in both directions.
LEMMA RejectsMirrored ==
  ASSUME NEW r, NEW w, NEW s, Mirrorable(r, w, s)
  PROVE  AutoRejected(r, w, s)
           <=> AutoRejected(MirrorRow(r), MirrorBars(w), MirrorSpy(s))
<1> DEFINE q == MirrorRow(r)
           m == MirrorBars(w)
           z == MirrorSpy(s)
<1>1. /\ w \in Seq(Bars) /\ w # << >> /\ s.open \in Int /\ s.close \in Int
      /\ w \in Seq(Bars)
  BY DEF Mirrorable
<1>2. /\ DOMAIN m = DOMAIN w /\ Len(m) = Len(w)
      /\ \A i \in DOMAIN w : m[i] = MirrorBar(w[i])
      /\ TotalVolume(m) = TotalVolume(w)
  BY <1>1, BarsMirrored
<1>3. /\ PriceTop \in Int
      /\ r.bullish \in BOOLEAN /\ r.zone \in Int /\ r.stop \in Int
      /\ (q.bullish <=> ~r.bullish) /\ q.zone = 2 * PriceTop - r.zone
      /\ q.stop = PriceTop - r.stop
      /\ z.open = s.open /\ z.close = 2 * s.open - s.close
  BY ReadsMirrored
<1>4. /\ 1 \in DOMAIN w /\ Len(w) \in DOMAIN w
      /\ Last(m) = MirrorBar(Last(w)) /\ m[1] = MirrorBar(w[1])
      /\ \A i \in DOMAIN w : /\ w[i].open \in Int /\ w[i].close \in Int
                             /\ w[i].high \in Int /\ w[i].low \in Int
      /\ Last(w) = w[Len(w)]
  BY ReadsMirrored
<1>5. /\ RangeHigh(m) = PriceTop - RangeLow(w)
      /\ RangeLow(m) = PriceTop - RangeHigh(w)
  BY <1>1, RangeMirrored
<1>6. RangeHigh(w) \in Int /\ RangeLow(w) \in Int
  BY <1>1, RangeIsReached
<1> HIDE DEF q, m, z
<1>7. m # << >>
  BY <1>2, <1>4
<1>8. LevelLost(r, w) <=> LevelLost(q, m)
  <2>1. ASSUME NEW i \in DOMAIN w
        PROVE  /\ r.bullish /\ w[i].close < r.stop
                    <=> ~q.bullish /\ m[i].close > q.stop
               /\ ~r.bullish /\ w[i].close > r.stop
                    <=> q.bullish /\ m[i].close < q.stop
    <3>1. m[i].close = PriceTop - w[i].close
      BY <1>2 DEF MirrorBar
    <3>2. w[i].close \in Int
      BY <1>4
    <3> QED
      BY <1>3, <3>1, <3>2
  <2> QED
    BY <1>2, <2>1 DEF LevelLost
<1>9. /\ Last(w).close \in Int /\ Last(w).open \in Int
      /\ w[1].close \in Int /\ w[1].open \in Int
  BY <1>4
<1>10. /\ Last(m).close = PriceTop - Last(w).close
       /\ Last(m).open = PriceTop - Last(w).open
       /\ m[1].close = PriceTop - w[1].close
       /\ m[1].open = PriceTop - w[1].open
       /\ Last(m).volume = Last(w).volume
  BY <1>4 DEF MirrorBar
<1>11. WeakClose(r, w) <=> WeakClose(q, m)
  BY <1>3, <1>5, <1>6, <1>9, <1>10 DEF WeakClose, RangeSize
<1>12. HardReversal(r, w) <=> HardReversal(q, m)
  BY <1>3, <1>9, <1>10 DEF HardReversal
<1>13. MarketShock(r, s) <=> MarketShock(q, z)
  <2>1. /\ 200 * (z.close - z.open) < -z.open <=> 200 * (s.close - s.open) > s.open
        /\ 200 * (z.close - z.open) > z.open <=> 200 * (s.close - s.open) < -s.open
        /\ z.open > 0 <=> s.open > 0
    <3>1. PICK o \in Int, c \in Int : o = s.open /\ c = s.close
      BY <1>1
    <3>2. z.open = o /\ z.close = 2 * o - c
      BY <1>3, <3>1
    <3> QED
      BY <3>1, <3>2, MirroredChange
  <2>2. CASE r.bullish
    BY <1>3, <2>1, <2>2, Zenon DEF MarketShock
  <2>3. CASE ~r.bullish
    BY <1>3, <2>1, <2>3, Zenon DEF MarketShock
  <2> QED
    BY <2>2, <2>3
<1>14. RejectionVolume(r, w) <=> RejectionVolume(q, m)
  <2> DEFINE against(d, b) == \/ d.bullish /\ b.close < b.open
                              \/ ~d.bullish /\ b.close > b.open
             heavy(v) == Len(v) > 1 /\ 2 * Last(v).volume * Len(v) > 3 * TotalVolume(v)
  <2>1. against(r, Last(w)) <=> against(q, Last(m))
    BY <1>3, <1>9, <1>10
  <2>2. heavy(w) <=> heavy(m)
    BY <1>2, <1>10
  <2>3. /\ RejectionVolume(r, w) <=> heavy(w) /\ against(r, Last(w))
        /\ RejectionVolume(q, m) <=> heavy(m) /\ against(q, Last(m))
    BY Zenon DEF RejectionVolume
  <2> HIDE DEF against, heavy
  <2> QED
    BY <2>1, <2>2, <2>3
<1>15. AutoRejected(r, w, s) <=> AutoRejected(q, m, z)
  <2>1. w # << >> /\ m # << >>
    BY <1>1, <1>7
  <2>2. AutoRejected(r, w, s) <=> \/ LevelLost(r, w) \/ WeakClose(r, w)
                                  \/ HardReversal(r, w) \/ MarketShock(r, s)
                                  \/ RejectionVolume(r, w)
    BY <2>1, Zenon DEF AutoRejected
  <2>3. AutoRejected(q, m, z) <=> \/ LevelLost(q, m) \/ WeakClose(q, m)
                                  \/ HardReversal(q, m) \/ MarketShock(q, z)
                                  \/ RejectionVolume(q, m)
    BY <2>1, Zenon DEF AutoRejected
  <2> QED
    BY <1>8, <1>11, <1>12, <1>13, <1>14, <2>2, <2>3
<1> QED
  BY <1>15 DEF q, m, z

\* So do the signals, as long as the row and its mirror image have a zone.
LEMMA SignalsMirrored ==
  ASSUME NEW r, NEW w, NEW s, Mirrorable(r, w, s),
         r.zone \notin {0, 2 * PriceTop}
  PROVE  /\ LevelHolds(r, w) <=> LevelHolds(MirrorRow(r), MirrorBars(w))
         /\ MarketAligned(r, s) <=> MarketAligned(MirrorRow(r), MirrorSpy(s))
         /\ OptionalPassed(r, w) = OptionalPassed(MirrorRow(r), MirrorBars(w))
<1> DEFINE q == MirrorRow(r)
           m == MirrorBars(w)
           z == MirrorSpy(s)
<1>1. w \in Seq(Bars) /\ w # << >> /\ s.open \in Int /\ s.close \in Int
  BY DEF Mirrorable
<1>2. Len(m) = Len(w) /\ TotalVolume(m) = TotalVolume(w)
  BY <1>1, BarsMirrored
<1>3. /\ PriceTop \in Int
      /\ r.bullish \in BOOLEAN /\ r.zone \in Int
      /\ (q.bullish <=> ~r.bullish) /\ q.zone = 2 * PriceTop - r.zone
      /\ q.prevVolume = r.prevVolume
      /\ z.open = s.open /\ z.close = 2 * s.open - s.close
  BY ReadsMirrored
<1>4. /\ 1 \in DOMAIN w /\ Len(w) \in DOMAIN w
      /\ Last(m) = MirrorBar(Last(w)) /\ m[1] = MirrorBar(w[1])
      /\ \A i \in DOMAIN w : /\ w[i].open \in Int /\ w[i].close \in Int
                             /\ w[i].high \in Int /\ w[i].low \in Int
      /\ Last(w) = w[Len(w)]
  BY ReadsMirrored
<1>5. /\ RangeHigh(m) = PriceTop - RangeLow(w)
      /\ RangeLow(m) = PriceTop - RangeHigh(w)
  BY <1>1, RangeMirrored
<1>6. RangeHigh(w) \in Int /\ RangeLow(w) \in Int
  BY <1>1, RangeIsReached
<1> HIDE DEF q, m, z
<1>7. Last(w).close \in Int /\ Last(m).close = PriceTop - Last(w).close
  BY <1>4 DEF MirrorBar
<1>8. LevelHolds(r, w) <=> LevelHolds(q, m)
  BY <1>3, <1>7 DEF LevelHolds
<1>9. MarketAligned(r, s) <=> MarketAligned(q, z)
  BY <1>1, <1>3 DEF MarketAligned
<1>10. MidpointClose(r, w) <=> MidpointClose(q, m)
  BY <1>3, <1>5, <1>6, <1>7 DEF MidpointClose, TwiceMid
<1>11. VolumeSupports(r, w) <=> VolumeSupports(q, m)
  BY <1>2, <1>3 DEF VolumeSupports
<1>12. NoRejection(r, w) <=> NoRejection(q, m)
  <2>1. /\ w[1].open \in Int /\ w[1].close \in Int
        /\ w[1].high \in Int /\ w[1].low \in Int
    BY <1>4
  <2>2. /\ m[1].open = PriceTop - w[1].open /\ m[1].close = PriceTop - w[1].close
        /\ m[1].high = PriceTop - w[1].low /\ m[1].low = PriceTop - w[1].high
    BY <1>4 DEF MirrorBar
  <2>3. Body(m[1]) = Body(w[1]) /\ Body(w[1]) \in Int
    BY <1>3, <2>1, <2>2 DEF Body
  <2>4. /\ BodyTop(m[1]) = PriceTop - BodyFloor(w[1])
        /\ BodyFloor(m[1]) = PriceTop - BodyTop(w[1])
        /\ BodyTop(w[1]) \in Int /\ BodyFloor(w[1]) \in Int
    BY <1>3, <2>1, <2>2 DEF BodyTop, BodyFloor
  <2> QED
    BY <1>3, <2>1, <2>2, <2>3, <2>4 DEF NoRejection
<1>13. OptionalPassed(r, w) = OptionalPassed(q, m)
  BY <1>10, <1>11, <1>12 DEF OptionalPassed
<1> QED
  BY <1>8, <1>9, <1>13 DEF q, m, z

\* On mirrored prices the rules for puts come to the verdict of those for calls,
\* for every row with a zone and every window of bars, of any length.
THEOREM MirrorSymmetricCorrect == Spec => []MirrorSymmetric
<1>1. TypeOK => MirrorSymmetric
  <2> SUFFICES ASSUME TypeOK, row.zone \notin {0, 2 * PriceTop}
               PROVE  /\ Confirmed(row, bars, spy)
                           <=> Confirmed(MirrorRow(row), MirrorBars(bars), MirrorSpy(spy))
                      /\ AutoRejected(row, bars, spy)
                           <=> AutoRejected(MirrorRow(row), MirrorBars(bars),
                                            MirrorSpy(spy))
    BY DEF MirrorSymmetric
  <2>1. row \in Row /\ bars \in Seq(Bars)
    BY DEF TypeOK
  <2>2. spy.open \in Int /\ spy.close \in Int
    <3>1. SpyOpen \in Int /\ SpyCloses \subseteq Int
      BY DecisionAssumption
    <3>2. CASE spy = NoSpy
      BY <3>2 DEF NoSpy
    <3>3. CASE spy \in [open : {SpyOpen}, close : SpyCloses]
      BY <3>1, <3>3
    <3> QED
      BY <3>2, <3>3 DEF TypeOK
  <2>3. CASE bars = << >>
    <3>1. MirrorBars(bars) = << >>
      <4>1. DOMAIN MirrorBars(bars) = {}
        BY <2>3 DEF MirrorBars
      <4> QED
        BY <2>3 DEF MirrorBars
    <3> QED
      BY <2>3, <3>1 DEF Confirmed, AutoRejected
  <2>4. CASE bars # << >>
    <3>1. Mirrorable(row, bars, spy)
      BY <2>1, <2>2, <2>4 DEF Mirrorable
    <3>2. AutoRejected(row, bars, spy)
            <=> AutoRejected(MirrorRow(row), MirrorBars(bars), MirrorSpy(spy))
      BY <3>1, RejectsMirrored
    <3>3. /\ LevelHolds(row, bars) <=> LevelHolds(MirrorRow(row), MirrorBars(bars))
          /\ MarketAligned(row, spy) <=> MarketAligned(MirrorRow(row), MirrorSpy(spy))
          /\ OptionalPassed(row, bars)
               = OptionalPassed(MirrorRow(row), MirrorBars(bars))
      BY <3>1, SignalsMirrored
    <3> QED
      BY <3>2, <3>3 DEF Confirmed
  <2> QED
    BY <2>3, <2>4
<1> QED
  BY <1>1, DecisionTypeCorrect, PTL

-------------------------------------------------------------------------------
(* What a bar has ruled out.                                               *)

\* Windows only grow: what a bar in the window shows, a later window shows too.
LEMMA WindowsGrow ==
  ASSUME TypeOK, [Next]_vars
  PROVE  /\ \A i \in DOMAIN bars : i \in DOMAIN bars' /\ bars'[i] = bars[i]
         /\ row'.bullish = row.bullish /\ row'.stop = row.stop
<1>1. ASSUME NEW b \in Bars, TickerMinute(b)
      PROVE  \A i \in DOMAIN bars : i \in DOMAIN bars' /\ bars'[i] = bars[i]
  BY <1>1 DEF TickerMinute, TypeOK
<1>2. (\A b \in Bars : ~TickerMinute(b)) => bars' = bars
  BY DEF Next, vars, run, SpyMinute, GatherSignals, ChainFails, NoContractFound,
         SelectContract, IVRankTooHigh, Decide, Interrupt
<1>3. row' = row \/ row' = [row EXCEPT !.ready = TRUE]
  BY DEF Next, vars, run, TickerMinute, SpyMinute, GatherSignals, ChainFails,
         NoContractFound, SelectContract, IVRankTooHigh, Decide, Interrupt
<1> QED
  BY <1>1, <1>2, <1>3 DEF TypeOK, Row

\* A close beyond the stop or a recovery wick decides for the rest of the morning.
THEOREM BlocksAreFinalCorrect == Spec => BlocksAreFinal
<1>1. ASSUME TypeOK, [Next]_vars
      PROVE  /\ LevelLost(row, bars) => ~Confirmed(row', bars', spy')
             /\ RecoveryWick(bars) => ~RejectionConfirmed(row', bars', spy')
  <2>1. LevelLost(row, bars) => LevelLost(row', bars')
    BY <1>1, WindowsGrow DEF LevelLost
  <2>2. RecoveryWick(bars) => RecoveryWick(bars')
    BY <1>1, WindowsGrow DEF RecoveryWick
  <2> QED
    BY <2>1, <2>2 DEF Confirmed, AutoRejected, RejectionConfirmed
<1> QED
  BY <1>1, DecisionTypeCorrect, PTL DEF Spec, BlocksAreFinal

-------------------------------------------------------------------------------
(* The contract and its price.                                             *)

\* A product keeps the order of its factors.
LEMMA ProductMonotone ==
  ASSUME NEW k \in Nat, NEW x \in Int, NEW y \in Int, x <= y
  PROVE  k * x <= k * y
OBVIOUS

LEMMA ProductStrict ==
  ASSUME NEW k \in Nat, k > 0, NEW x \in Int, NEW y \in Int, x < y
  PROVE  k * x < k * y
OBVIOUS

LEMMA Distribute ==
  ASSUME NEW k \in Int, NEW x \in Int, NEW y \in Int
  PROVE  k * (x + y) = k * x + k * y /\ k * (x - y) = k * x - k * y
OBVIOUS

\* The chain holds quoted contracts, and the spread of each is at most 8% of the
\* ask unless the check of the spread is turned off.
LiquidChain ==
  \A c \in chain : c.ask > 0 /\ (MaxSpread > 0 => 100 * (c.ask - c.bid) <= 8 * c.ask)

\* What is known of the contract at each stage after its selection.
PickedFromChain ==
  /\ LiquidChain
  /\ stage \in {"priced", "buying", "unfilled"} =>
       contract \in BestContracts(chain, OptionType)
  /\ stage \in {"priced", "buying"} =>
       ~FillRejected(contract) /\ limit \in LimitPrices(contract)
  /\ stage = "unfilled" => FillRejected(contract)

LEMMA LiquidMeansTight ==
  ASSUME NEW feed, feed \subseteq Contract, NEW c \in Liquid(Listed(feed))
  PROVE  c.ask > 0 /\ (MaxSpread > 0 => 100 * (c.ask - c.bid) <= 8 * c.ask)
<1>1. /\ c \in Contract /\ c.ask > 0
      /\ MaxSpread > 0 => 100 * (c.ask - c.bid) <= MaxSpread * c.ask
  BY DEF Liquid, Listed
<1>2. c.ask \in Nat /\ c.bid \in Nat
  BY <1>1 DEF Contract
<1>3. MaxSpread \in Nat /\ MaxSpread <= 8
  BY ChoiceAssumption
<1>4. c.ask * MaxSpread <= c.ask * 8
  BY <1>2, <1>3, ProductMonotone
<1>5. MaxSpread * c.ask <= 8 * c.ask
  BY <1>2, <1>3, <1>4
<1>6. 100 * (c.ask - c.bid) \in Int /\ MaxSpread * c.ask \in Int /\ 8 * c.ask \in Int
  BY <1>2, <1>3
<1> QED
  BY <1>1, <1>5, <1>6

LEMMA PickedFromChainInvariant == Spec => []PickedFromChain
<1>1. Init => PickedFromChain
  BY DEF Init, PickedFromChain, LiquidChain
<1>2. TypeOK /\ PickedFromChain /\ [Next]_vars => PickedFromChain'
  <2> SUFFICES ASSUME TypeOK, PickedFromChain, [Next]_vars PROVE PickedFromChain'
    OBVIOUS
  <2> USE DEF PickedFromChain, LiquidChain
  <2>1. ASSUME NEW b \in Bars, TickerMinute(b) PROVE PickedFromChain'
    BY <2>1 DEF TickerMinute, run, OptionType
  <2>2. ASSUME NEW p \in SpyCloses, SpyMinute(p) PROVE PickedFromChain'
    BY <2>2 DEF SpyMinute, run, OptionType
  <2>3. CASE GatherSignals
    BY <2>3 DEF GatherSignals
  <2>4. CASE ChainFails
    BY <2>4 DEF ChainFails
  <2>5. ASSUME NEW feed \in Feeds, NoContractFound(feed) PROVE PickedFromChain'
    BY <2>5 DEF NoContractFound
  <2>6. ASSUME NEW feed \in Feeds, NEW c \in feed, SelectContract(feed, c)
        PROVE  PickedFromChain'
    <3>1. OptionType' = OptionType /\ contract' = c /\ chain' = Liquid(Listed(feed))
      BY <2>6 DEF SelectContract, OptionType
    <3>2. LiquidChain'
      BY <3>1, LiquidMeansTight, DecisionAssumption
    <3>3. contract' \in BestContracts(chain', OptionType')
      BY <2>6, <3>1 DEF SelectContract
    <3>4. /\ stage' = "unfilled" => FillRejected(contract')
          /\ stage' # "unfilled" =>
               /\ stage' = "priced"
               /\ ~FillRejected(contract')
               /\ limit' \in LimitPrices(contract')
      BY <2>6, <3>1 DEF SelectContract
    <3> QED
      BY <3>2, <3>3, <3>4
  <2>7. CASE IVRankTooHigh
    BY <2>7 DEF IVRankTooHigh
  <2>8. CASE Decide
    BY <2>8 DEF Decide, OptionType
  <2>9. CASE Interrupt
    BY <2>9 DEF Interrupt
  <2>10. CASE UNCHANGED vars
    BY <2>10 DEF vars, OptionType
  <2> QED
    BY <2>1, <2>2, <2>3, <2>4, <2>5, <2>6, <2>7, <2>8, <2>9, <2>10 DEF Next
<1> QED
  BY <1>1, <1>2, DecisionTypeCorrect, PTL DEF Spec

\* Whatever is picked is a contract of the chain, with its quotes.
LEMMA PickedIsContract ==
  ASSUME TypeOK, PickedFromChain, stage \in {"priced", "buying", "unfilled"}
  PROVE  /\ contract \in chain
         /\ contract \in Contract
         /\ contract.bid \in Nat /\ contract.ask \in Nat /\ contract.ask > 0
         /\ MaxSpread > 0 => 100 * (contract.ask - contract.bid) <= 8 * contract.ask
<1>1. contract \in chain
  BY DEF PickedFromChain, BestContracts, Pool, InBand, Candidates
<1>2. contract \in Contract
  BY <1>1 DEF TypeOK
<1> QED
  BY <1>1, <1>2 DEF PickedFromChain, LiquidChain, Contract

\* After a chain filter that checks the spread the fill model only turns inverted
\* quotes away.  (Without the check the fill model turns wide ones away, too.)
THEOREM FillRejectsCorrect ==
  ASSUME MaxSpread > 0
  PROVE  Spec => []FillRejectsOnlyInverted
<1>1. TypeOK /\ PickedFromChain => FillRejectsOnlyInverted
  <2> SUFFICES ASSUME TypeOK, PickedFromChain, stage = "unfilled"
               PROVE  contract.ask < contract.bid
    BY DEF FillRejectsOnlyInverted
  <2>1. FillRejected(contract)
    BY DEF PickedFromChain
  <2> QED
    BY <2>1, PickedIsContract DEF FillRejected
<1> QED
  BY <1>1, DecisionTypeCorrect, PickedFromChainInvariant, PTL

\* The fill price, times eight asks, lies between the mid and the ask.
LEMMA FillBetweenMidAndAsk ==
  ASSUME NEW c \in Contract, c.ask > 0, c.bid <= c.ask,
         100 * (c.ask - c.bid) <= 8 * c.ask
  PROVE  /\ FillPrice(c) \in Nat
         /\ 4 * (c.ask * (c.bid + c.ask)) <= FillPrice(c)
         /\ FillPrice(c) <= 8 * (c.ask * c.ask)
<1> DEFINE a == c.ask
           spread == c.ask - c.bid
           excess == IF 100 * spread > 4 * c.ask THEN 100 * spread - 4 * c.ask ELSE 0
<1>1. a \in Nat /\ c.bid \in Nat /\ spread \in Nat /\ spread = a - c.bid
  BY DEF Contract
<1>2. excess \in Nat /\ excess <= 4 * a
  BY <1>1
<1>3. FillPrice(c) = 4 * a * (c.bid + a) + excess * spread
  BY DEF FillPrice
<1> HIDE DEF a, spread, excess
<1>4. spread * excess <= spread * (4 * a)
  BY <1>1, <1>2, ProductMonotone
<1>5. spread * excess \in Nat /\ excess * spread = spread * excess
  BY <1>1, <1>2
<1>6. 4 * a * (c.bid + a) = 4 * (a * (c.bid + a)) /\ a * (c.bid + a) \in Nat
  BY <1>1
<1>7. /\ spread * (4 * a) = 4 * (a * a) - 4 * (a * c.bid)
      /\ a * (c.bid + a) = a * c.bid + a * a
  <2>1. spread * (4 * a) = 4 * (a * spread)
    BY <1>1
  <2>2. a * spread = a * a - a * c.bid
    BY <1>1, Distribute
  <2>3. a * (c.bid + a) = a * c.bid + a * a
    BY <1>1, Distribute
  <2>4. a * a \in Int /\ a * c.bid \in Int
    BY <1>1
  <2> QED
    BY <2>1, <2>2, <2>3, <2>4
<1>8. a * a \in Nat /\ a * c.bid \in Nat
  BY <1>1
<1>9. a = c.ask
  BY DEF a
<1> QED
  BY <1>3, <1>4, <1>5, <1>6, <1>7, <1>8, <1>9

\* Rounded to the cent, the limit is at most the ask and at least the mid less
\* half a cent.
THEOREM LimitInsideQuoteCorrect == Spec => []LimitInsideQuote
<1>1. TypeOK /\ PickedFromChain => LimitInsideQuote
  <2> SUFFICES ASSUME TypeOK, PickedFromChain, stage \in {"priced", "buying"}
               PROVE  /\ limit <= contract.ask
                      /\ 2 * limit + 1 >= contract.bid + contract.ask
    BY DEF LimitInsideQuote
  <2> DEFINE a == contract.ask
             b == contract.bid
             f == FillPrice(contract)
  <2>1. a \in Nat /\ a > 0 /\ b \in Nat /\ contract \in Contract
    BY PickedIsContract
  <2>2. b <= a /\ 100 * (a - b) <= 8 * a
    BY <2>1 DEF PickedFromChain, FillRejected
  <2>3. f \in Nat /\ 4 * (a * (b + a)) <= f /\ f <= 8 * (a * a)
    BY <2>1, <2>2, FillBetweenMidAndAsk
  <2>4. limit \in Nat /\ Distance(16 * a * limit, 2 * f) <= 8 * a
    BY DEF PickedFromChain, LimitPrices
  <2> HIDE DEF a, b, f
  <2>5. 16 * a * limit = 16 * (a * limit) /\ a * limit \in Nat
    BY <2>1, <2>4
  <2>6. 16 * (a * limit) <= 2 * f + 8 * a /\ 2 * f <= 16 * (a * limit) + 8 * a
    BY <2>1, <2>3, <2>4, <2>5 DEF Distance
  <2>7. a * a \in Nat /\ a * (b + a) \in Nat
    BY <2>1
  <2>8. limit <= a
    <3> SUFFICES ASSUME limit >= a + 1 PROVE FALSE
      BY <2>1, <2>4
    <3>1. a * (a + 1) <= a * limit
      BY <2>1, <2>4, ProductMonotone
    <3>2. a * (a + 1) = a * a + a
      BY <2>1
    <3> QED
      BY <3>1, <3>2, <2>1, <2>3, <2>5, <2>6, <2>7
  <2>9. 2 * limit + 1 >= b + a
    <3> SUFFICES ASSUME 2 * limit + 2 <= b + a PROVE FALSE
      BY <2>1, <2>4
    <3>1. a * (2 * limit + 2) <= a * (b + a)
      BY <2>1, <2>4, ProductMonotone
    <3>2. a * (2 * limit + 2) = 2 * (a * limit) + 2 * a
      BY <2>1, <2>4
    <3> QED
      BY <3>1, <3>2, <2>1, <2>3, <2>5, <2>6, <2>7
  <2> QED
    BY <2>8, <2>9 DEF a, b
<1> QED
  BY <1>1, DecisionTypeCorrect, PickedFromChainInvariant, PTL

\* Domination by a contract of the same pool contradicts the least penalty: every
\* term of the composite is at least as large for the contract picked, one larger.
LEMMA LeastPenaltyNotDominated ==
  ASSUME NEW c \in Contract, NEW d \in Contract, c.ask > 0, d.ask > 0,
         Penalty(d) * c.ask <= Penalty(c) * d.ask
  PROVE  ~Dominates(c, d)
<1> DEFINE x == c.ask * d.ask
           Dc == DaysOff(c)   Dd == DaysOff(d)
           Ec == DeltaOff(c)  Ed == DeltaOff(d)
           Sc == (c.ask - c.bid) * d.ask
           Sd == (d.ask - d.bid) * c.ask
<1>1. /\ Dc \in Nat /\ Dd \in Nat /\ Ec \in Nat /\ Ed \in Nat
      /\ c.ask \in Nat /\ d.ask \in Nat /\ c.bid \in Nat /\ d.bid \in Nat
  BY ChoiceAssumption DEF Contract, DaysOff, DeltaOff, Distance
<1>2. x \in Nat /\ x > 0 /\ Sc \in Int /\ Sd \in Int
  BY <1>1
<1>3. Penalty(c) = (400 * Dc * c.ask + 14 * Ec * c.ask) + 1400 * (c.ask - c.bid)
  BY DEF Penalty, DaysOff, DeltaOff
<1>4. Penalty(d) = (400 * Dd * d.ask + 14 * Ed * d.ask) + 1400 * (d.ask - d.bid)
  BY DEF Penalty, DaysOff, DeltaOff
<1>5. Tighter(c, d) <=> Sc < Sd
  BY DEF Tighter
<1>6. Tighter(d, c) <=> Sd < Sc
  BY DEF Tighter
<1>7. Dominates(c, d) <=> /\ Dc <= Dd /\ Ec <= Ed /\ ~(Sd < Sc)
                          /\ Dc < Dd \/ Ec < Ed \/ Sc < Sd
  BY <1>5, <1>6 DEF Dominates
<1> DEFINE sc == c.ask - c.bid
           sd == d.ask - d.bid
           ac == c.ask
           ad == d.ask
<1>8. sc \in Int /\ sd \in Int /\ ac \in Nat /\ ad \in Nat
  BY <1>1
<1>9. Sc = sc * ad /\ Sd = sd * ac /\ x = ac * ad
  OBVIOUS
<1>10. (400 * Dd * ad + 14 * Ed * ad + 1400 * sd) * ac
        <= (400 * Dc * ac + 14 * Ec * ac + 1400 * sc) * ad
  BY <1>3, <1>4
<1> HIDE DEF x, Dc, Dd, Ec, Ed, Sc, Sd, sc, sd, ac, ad
<1>11. (400 * Dd * ad + 14 * Ed * ad + 1400 * sd) * ac
         = 400 * (x * Dd) + 14 * (x * Ed) + 1400 * Sd
  BY <1>1, <1>8, <1>9, SMTT(30)
<1>12. (400 * Dc * ac + 14 * Ec * ac + 1400 * sc) * ad
         = 400 * (x * Dc) + 14 * (x * Ec) + 1400 * Sc
  BY <1>1, <1>8, <1>9, SMTT(30)
<1>13. /\ x * Dd \in Int /\ x * Dc \in Int /\ x * Ed \in Int /\ x * Ec \in Int
       /\ 400 * (x * Dd) + 14 * (x * Ed) + 1400 * Sd
            <= 400 * (x * Dc) + 14 * (x * Ec) + 1400 * Sc
  BY <1>1, <1>2, <1>10, <1>11, <1>12
<1> SUFFICES ASSUME Dc <= Dd, Ec <= Ed, Sc <= Sd, Dc < Dd \/ Ec < Ed \/ Sc < Sd
             PROVE  FALSE
  BY <1>2, <1>7
<1>14. x * Dc <= x * Dd /\ x * Ec <= x * Ed
  BY <1>1, <1>2, ProductMonotone
<1>15. x * Dc < x * Dd \/ x * Ec < x * Ed \/ Sc < Sd
  BY <1>1, <1>2, ProductStrict
<1> QED
  BY <1>2, <1>13, <1>14, <1>15

\* No liquid contract inside the bands dominates the one selected.
THEOREM NotDominatedCorrect == Spec => []NotDominated
<1>1. TypeOK /\ PickedFromChain => NotDominated
  <2> SUFFICES ASSUME TypeOK, PickedFromChain, stage \in {"priced", "buying"},
                      NEW c \in chain, c.type = contract.type,
                      c.dte >= DTEMin, c.dte >= AvoidBelow, c.dte <= DTEMax,
                      c.delta >= DeltaMin, c.delta <= DeltaMax
               PROVE  ~Dominates(c, contract)
    BY DEF NotDominated
  <2>1. contract \in BestContracts(chain, OptionType)
    BY DEF PickedFromChain
  <2>2. contract.type = OptionType
    BY <2>1 DEF BestContracts, Pool, InBand, Candidates
  <2>3. c \in Pool(chain, OptionType)
    BY <2>2 DEF Pool, InBand, Candidates
  <2>4. Penalty(contract) * c.ask <= Penalty(c) * contract.ask
    BY <2>1, <2>3 DEF BestContracts
  <2>5. c \in Contract /\ c.ask > 0
    BY DEF TypeOK, PickedFromChain, LiquidChain
  <2>6. contract \in Contract /\ contract.ask > 0
    BY PickedIsContract
  <2> QED
    BY <2>4, <2>5, <2>6, LeastPenaltyNotDominated
<1> QED
  BY <1>1, DecisionTypeCorrect, PickedFromChainInvariant, PTL
===============================================================================
