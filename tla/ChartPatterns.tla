----------------------------- MODULE ChartPatterns -----------------------------
(***************************************************************************)
(* The structural pattern detectors of internal/strategy/patterns.go over  *)
(* a ticker's daily bars, oldest first; the last bar is today's.           *)
(*                                                                         *)
(* Prices and volumes are integers, and a percentage is compared by cross  *)
(* multiplication.  What the detectors take from exponential averages and  *)
(* standard deviations is a record of inputs: "ema20" and "atr", 0 when    *)
(* there are too few bars for them, and "bb", how many of the 63 widths    *)
(* before it the Bollinger width of yesterday exceeds, -1 when there are   *)
(* too few bars.  A quality is in hundredths and a price level in          *)
(* hundredths of the unit of the bars.                                     *)
(*                                                                         *)
(* A detector tries every length of the formation and keeps the first of   *)
(* the best quality.  Here it is the set of all formations that pass its   *)
(* conditions, and BestOf picks; "order" is the place in the code's loops. *)
(* The JSON fields of a result that nobody reads are left out.             *)
(***************************************************************************)
EXTENDS Integers, Sequences, FiniteSets, FiniteSetsExt

CONSTANTS
  AllowedPatterns,   \* pattern_analysis.allowed_patterns
  MinQuality         \* minimum_pattern_quality, in hundredths

ASSUME PatternAssumption == MinQuality \in 1..95

-------------------------------------------------------------------------------
(* Windows of bars and their volumes.                                      *)

LowestLow(bars, from, to)    == Min({bars[i].low : i \in from..to})
HighestHigh(bars, from, to)  == Max({bars[i].high : i \in from..to})
LowestClose(bars, from, to)  == Min({bars[i].close : i \in from..to})
HighestClose(bars, from, to) == Max({bars[i].close : i \in from..to})

\* Where a swing is higher, or lower, than the bars on its two sides.
SwingHighs(bars, from, to) ==
  {i \in (from + 1)..(to - 1) : /\ bars[i].high > bars[i - 1].high
                                /\ bars[i].high > bars[i + 1].high}
SwingLows(bars, from, to) ==
  {i \in (from + 1)..(to - 1) : /\ bars[i].low < bars[i - 1].low
                                /\ bars[i].low < bars[i + 1].low}

Volume(bars, from, to) ==
  LET upTo[i \in (from - 1)..to] ==
        IF i < from THEN 0 ELSE upTo[i - 1] + bars[i].volume
  IN upTo[to]

\* The mean volume of one window is under pct percent of that of another.
QuieterThan(bars, from1, to1, pct, from2, to2) ==
  100 * Volume(bars, from1, to1) * (to2 - from2 + 1)
    < pct * Volume(bars, from2, to2) * (to1 - from1 + 1)

\* The twenty days that today's volume is compared with, today included.
MonthStart(bars) == Max({1, Len(bars) - 19})
MonthVolume(bars) == Volume(bars, MonthStart(bars), Len(bars))

\* Today trades at least tenths/10 of the mean; the unknown mean 0 is no proof.
Surge(bars, tenths) ==
  /\ MonthVolume(bars) > 0
  /\ 10 * bars[Len(bars)].volume * (Len(bars) - MonthStart(bars) + 1)
       >= tenths * MonthVolume(bars)

\* As a condition of a pattern, it is not asked for when the mean is unknown.
VolumeConfirms(bars, tenths) == MonthVolume(bars) = 0 \/ Surge(bars, tenths)

\* How many Bollinger widths the percentile ranks among.
Widths == 63

Points(condition, points) == IF condition THEN points ELSE 0
Capped(quality) == Min({quality, 95})

-------------------------------------------------------------------------------
(* Flags: an impulse of 5 to 10 bars, then 3 to 8 bars of rest.            *)

FlagStart(bars, s) == Len(bars) - s.flag
PoleStart(bars, s) == FlagStart(bars, s) - s.pole

FlagShapes(bars) ==
  {s \in [flag : 3..8, pole : 5..10] : /\ FlagStart(bars, s) >= 6
                                       /\ PoleStart(bars, s) >= 1}

FlagQuality(bars, s, base, gain, given) ==
  LET pole == PoleStart(bars, s)
      flag == FlagStart(bars, s)
  IN Capped(
       50 + Points(QuieterThan(bars, flag, Len(bars) - 1, 70, pole, flag - 1), 15)
          + (IF 10 * given < 3 * gain THEN 15 ELSE Points(5 * given < 2 * gain, 8))
          + (IF 10 * gain >= base THEN 10 ELSE Points(100 * gain >= 7 * base, 5))
          + Points(Surge(bars, 20), 10))

BullFlags(bars, ind) ==
  LET n == Len(bars)
      Base(s) == bars[PoleStart(bars, s)].open
      Gain(s) == bars[FlagStart(bars, s) - 1].close - Base(s)
      Given(s) == bars[FlagStart(bars, s) - 1].close
                    - LowestClose(bars, FlagStart(bars, s), n - 1)
      Shapes ==
        {s \in FlagShapes(bars) :
           /\ \A i \in FlagStart(bars, s)..(n - 1) : bars[n].close > bars[i].high
           /\ Base(s) > 0
           /\ \/ 20 * Gain(s) >= Base(s)
              \/ ind.atr > 0 /\ 2 * Gain(s) >= 3 * ind.atr
           /\ Gain(s) > 0
           /\ 2 * Given(s) <= Gain(s)
           /\ ind.ema20 > 0 =>
                50 * LowestLow(bars, FlagStart(bars, s), n - 1) >= 49 * ind.ema20}
  IN {[name |-> "bull_flag",
       quality |-> FlagQuality(bars, s, Base(s), Gain(s), Given(s)),
       breakout |-> 100 * HighestHigh(bars, FlagStart(bars, s), n - 1),
       void |-> 100 * LowestLow(bars, FlagStart(bars, s), n - 1),
       since |-> FlagStart(bars, s),
       order |-> 1000 + 11 * s.flag + s.pole] :
      s \in IF n >= 12 /\ VolumeConfirms(bars, 12) THEN Shapes ELSE {}}

BearFlags(bars, ind) ==
  LET n == Len(bars)
      Base(s) == bars[PoleStart(bars, s)].open
      Drop(s) == Base(s) - bars[FlagStart(bars, s) - 1].close
      Given(s) == HighestClose(bars, FlagStart(bars, s), n - 1)
                    - bars[FlagStart(bars, s) - 1].close
      Shapes ==
        {s \in FlagShapes(bars) :
           /\ \A i \in FlagStart(bars, s)..(n - 1) : bars[n].close < bars[i].low
           /\ Base(s) > 0
           /\ \/ 20 * Drop(s) >= Base(s)
              \/ ind.atr > 0 /\ 2 * Drop(s) >= 3 * ind.atr
           /\ Drop(s) > 0
           /\ 2 * Given(s) <= Drop(s)
           /\ ind.ema20 > 0 =>
                50 * HighestHigh(bars, FlagStart(bars, s), n - 1) <= 51 * ind.ema20}
  IN {[name |-> "bear_flag",
       quality |-> FlagQuality(bars, s, Base(s), Drop(s), Given(s)),
       breakout |-> 100 * LowestLow(bars, FlagStart(bars, s), n - 1),
       void |-> 100 * HighestHigh(bars, FlagStart(bars, s), n - 1),
       since |-> FlagStart(bars, s),
       order |-> 1000 + 11 * s.flag + s.pole] :
      s \in IF n >= 12 /\ VolumeConfirms(bars, 12) THEN Shapes ELSE {}}

-------------------------------------------------------------------------------
(* Triangles: one flat side and one that closes in, over 10 to 30 bars.    *)

TriangleQuality(bars, from, flatTop, flatBottom, flatSwings, slopedSwings) ==
  LET half == from + (Len(bars) - from) \div 2
  IN Capped(
       55 + Points(QuieterThan(bars, half, Len(bars) - 1, 100, from, half - 1), 15)
          + Points(200 * (flatTop - flatBottom) < flatBottom, 10)
          + Points(Cardinality(flatSwings) >= 3, 5)
          + Points(Cardinality(slopedSwings) >= 3, 5)
          + Points(Surge(bars, 15), 10))

AscendingTriangles(bars) ==
  LET n == Len(bars)
      AllHighs == SwingHighs(bars, Max({1, n - 30}), n - 1)
      AllLows  == SwingLows(bars, Max({1, n - 30}), n - 1)
      Highs(k) == {i \in AllHighs : i > n - k}
      Lows(k)  == {i \in AllLows : i > n - k}
      Top(k)    == Max({bars[i].high : i \in Highs(k)})
      Bottom(k) == Min({bars[i].high : i \in Highs(k)})
      Spans ==
        {k \in 10..Min({30, n - 1}) :
           /\ Cardinality(Highs(k)) >= 2
           /\ Bottom(k) > 0
           /\ 1000 * (Top(k) - Bottom(k)) <= 15 * Bottom(k)
           /\ 2 * bars[n].close > Top(k) + Bottom(k)
           /\ Cardinality(Lows(k)) >= 2
           /\ \A i, j \in Lows(k) : i < j => bars[i].low < bars[j].low}
  IN {[name |-> "ascending_triangle",
       quality |-> TriangleQuality(bars, n - k, Top(k), Bottom(k), Highs(k), Lows(k)),
       breakout |-> 50 * (Top(k) + Bottom(k)),
       void |-> 100 * bars[Max(Lows(k))].low,
       since |-> n - k,
       order |-> 2000 + k] :
      k \in IF n >= 15 /\ VolumeConfirms(bars, 12) THEN Spans ELSE {}}

DescendingTriangles(bars) ==
  LET n == Len(bars)
      AllHighs == SwingHighs(bars, Max({1, n - 30}), n - 1)
      AllLows  == SwingLows(bars, Max({1, n - 30}), n - 1)
      Highs(k) == {i \in AllHighs : i > n - k}
      Lows(k)  == {i \in AllLows : i > n - k}
      Top(k)    == Max({bars[i].low : i \in Lows(k)})
      Bottom(k) == Min({bars[i].low : i \in Lows(k)})
      Spans ==
        {k \in 10..Min({30, n - 1}) :
           /\ Cardinality(Lows(k)) >= 2
           /\ Bottom(k) > 0
           /\ 1000 * (Top(k) - Bottom(k)) <= 15 * Bottom(k)
           /\ 2 * bars[n].close < Top(k) + Bottom(k)
           /\ Cardinality(Highs(k)) >= 2
           /\ \A i, j \in Highs(k) : i < j => bars[i].high > bars[j].high}
  IN {[name |-> "descending_triangle",
       quality |-> TriangleQuality(bars, n - k, Top(k), Bottom(k), Lows(k), Highs(k)),
       breakout |-> 50 * (Top(k) + Bottom(k)),
       void |-> 100 * bars[Max(Highs(k))].high,
       since |-> n - k,
       order |-> 2000 + k] :
      k \in IF n >= 15 /\ VolumeConfirms(bars, 12) THEN Spans ELSE {}}

-------------------------------------------------------------------------------
(* Bases: 15 to 40 bars inside a range of at most 12%.                     *)

BaseQuality(bars, length, high, low, ind) ==
  Capped(
    55 + (IF 200 * (high - low) < 6 * (high + low) THEN 15
          ELSE Points(200 * (high - low) < 9 * (high + low), 8))
       + Points(ind.bb >= 0 /\ 100 * ind.bb <= 30 * Widths, 10)
       + Points(ind.bb >= 0 /\ 100 * ind.bb < 15 * Widths, 5)
       + Points(Surge(bars, 20), 10)
       + Points(length >= 20, 5))

BaseLengths(bars) ==
  IF Len(bars) >= 20 /\ VolumeConfirms(bars, 13) THEN 15..Min({40, Len(bars) - 1})
  ELSE {}

\* The bars of the base stay in the range.
Tight(bars, k) ==
  LET high == HighestHigh(bars, Len(bars) - k, Len(bars) - 1)
      low  == LowestLow(bars, Len(bars) - k, Len(bars) - 1)
  IN high + low > 0 /\ 200 * (high - low) <= 12 * (high + low)

BaseBreakouts(bars, ind) ==
  LET n == Len(bars)
      Pattern(k) ==
        LET high == HighestHigh(bars, n - k, n - 1)
            low  == LowestLow(bars, n - k, n - 1)
        IN [name |-> "base_breakout", quality |-> BaseQuality(bars, k, high, low, ind),
            breakout |-> 100 * high, void |-> 100 * low,
            since |-> n - k, order |-> 3000 + k]
  IN {Pattern(k) :
      k \in {k \in BaseLengths(bars) :
               /\ \A i \in (n - k)..(n - 1) : bars[n].close > bars[i].high
               /\ Tight(bars, k)}}

\* Mutant of BaseBreakdowns: copied from BaseBreakouts, the comparisons not turned.
BaseBreakdownsAbove(bars, ind) ==
  {[p EXCEPT !.name = "base_breakdown"] : p \in BaseBreakouts(bars, ind)}

BaseBreakdowns(bars, ind) ==
  LET n == Len(bars)
      Pattern(k) ==
        LET high == HighestHigh(bars, n - k, n - 1)
            low  == LowestLow(bars, n - k, n - 1)
        IN [name |-> "base_breakdown", quality |-> BaseQuality(bars, k, high, low, ind),
            breakout |-> 100 * low, void |-> 100 * high,
            since |-> n - k, order |-> 3000 + k]
  IN {Pattern(k) :
      k \in {k \in BaseLengths(bars) :
               /\ \A i \in (n - k)..(n - 1) : bars[n].close < bars[i].low
               /\ Tight(bars, k)}}

-------------------------------------------------------------------------------
(* Retests of a swing of the last 40 bars, the last five left out: price   *)
(* broke through the swing, came back, and closes at it today.             *)

RetestFrom(bars) == Max({1, Len(bars) - 39})

\* "through" is how far today traded past the level, "clear" how far off it
\* the close is.
RetestQuality(bars, i, level, through, clear) ==
  Capped(
    55 + Points(/\ MonthVolume(bars) > 0
                /\ QuieterThan(bars, i + 1, Len(bars) - 1,
                               80, MonthStart(bars), Len(bars)), 10)
       + (IF 200 * through < level THEN 15 ELSE Points(100 * through < level, 8))
       + Points(200 * clear >= level, 10)
       + Points(Surge(bars, 13), 10))

BullishRetests(bars) ==
  LET n == Len(bars)
      today == bars[n]
      Tested ==
        {i \in SwingHighs(bars, RetestFrom(bars), n - 5) :
           LET level == bars[i].high IN
             /\ level > 0
             /\ 50 * today.low <= 51 * level /\ 100 * today.low >= 97 * level
             /\ 100 * today.close >= 99 * level
             /\ \E j \in (i + 1)..(n - 1) : bars[j].close > level}
  IN {[name |-> "support_resistance_retest",
       quality |-> RetestQuality(bars, i, bars[i].high, bars[i].high - today.low,
                                 today.close - bars[i].high),
       breakout |-> 100 * bars[i].high,
       void |-> 97 * bars[i].high,
       since |-> i,
       order |-> 4000 + i] : i \in IF n >= 15 THEN Tested ELSE {}}

BearishRetests(bars) ==
  LET n == Len(bars)
      today == bars[n]
      Tested ==
        {i \in SwingLows(bars, RetestFrom(bars), n - 5) :
           LET level == bars[i].low IN
             /\ level > 0
             /\ 50 * today.high >= 49 * level /\ 100 * today.high <= 103 * level
             /\ 100 * today.close <= 101 * level
             /\ \E j \in (i + 1)..(n - 1) : bars[j].close < level}
  IN {[name |-> "support_resistance_retest",
       quality |-> RetestQuality(bars, i, bars[i].low, today.high - bars[i].low,
                                 bars[i].low - today.close),
       breakout |-> 100 * bars[i].low,
       void |-> 103 * bars[i].low,
       since |-> i,
       order |-> 4000 + i] : i \in IF n >= 15 THEN Tested ELSE {}}

-------------------------------------------------------------------------------
(* The analysis of one direction.                                          *)

Directions == {"bullish", "bearish"}

NoPattern == [name |-> "none", quality |-> 0, breakout |-> 0, void |-> 0,
              since |-> 0, order |-> 0]

\* The first in the order of the loops among those of the best quality.
BestOf(found) ==
  IF found = {} THEN NoPattern
  ELSE LET quality == Max({p.quality : p \in found})
           best == {p \in found : p.quality = quality}
       IN CHOOSE p \in best : \A q \in best : p.order <= q.order

Found(bars, ind, direction) ==
  {p \in IF direction = "bullish"
         THEN BullFlags(bars, ind) \cup AscendingTriangles(bars)
                \cup BaseBreakouts(bars, ind) \cup BullishRetests(bars)
         ELSE BearFlags(bars, ind) \cup DescendingTriangles(bars)
                \cup BaseBreakdowns(bars, ind) \cup BearishRetests(bars) :
     p.name \in AllowedPatterns}

AnalyzePatterns(bars, ind, direction) ==
  LET best == BestOf(Found(bars, ind, direction))
  IN [best |-> best, detected |-> best.quality >= MinQuality]
================================================================================
