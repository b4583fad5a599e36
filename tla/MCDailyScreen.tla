----------------------------- MODULE MCDailyScreen -----------------------------
(***************************************************************************)
(* Charts on which each detector finds its formation on the right day, and *)
(* the days and surroundings that decide.                                  *)
(***************************************************************************)
EXTENDS DailyScreen, TLC

Bar(open, high, low, close, volume) ==
  [open |-> open, high |-> high, low |-> low, close |-> close, volume |-> volume]

\* A bar around a close, as wide as a quiet day.
Quiet(close) == Bar(close, close + 4, close - 4, close, 10)

\* A range day after day.
Base == [i \in 1..41 |-> Bar(1000, 1010, 990, 1000, 10)]

\* A pole of six bars of 2% each and a flag of four, in either direction.
Flag(sign) ==
  [i \in 1..41 |->
     IF i <= 31 THEN Quiet(1000)
     ELSE IF i <= 37 THEN LET close == 1000 + sign * 20 * (i - 31)
                          IN [Quiet(close) EXCEPT !.open = close - sign * 20,
                                                  !.volume = 12]
     ELSE [Quiet(1120 - sign * 0) EXCEPT !.open = 1000 + sign * 115,
             !.high = 1000 + sign * 115 + 4, !.low = 1000 + sign * 115 - 4,
             !.close = 1000 + sign * 115, !.volume = 6]]

\* Swings of six bars against a flat side, that close in on it.
Triangle(sign) ==
  [i \in 1..41 |->
     LET phase == i % 6
         depth == (48 - i) * (IF phase > 3 THEN 6 - phase ELSE phase)
     IN Quiet(1000 - (sign * depth) \div 3)]

\* A swing at bar 24, a break through it at 32, and the way back to it.
Retest(sign) ==
  [i \in 1..41 |->
     LET height == CASE i <= 18 -> 0
                     [] i \in 19..24 -> 8 * (i - 18)
                     [] i \in 25..28 -> 48 - 6 * (i - 24)
                     [] i \in 29..34 -> 24 + 10 * (i - 28)
                     [] i >= 35 -> 84 - 4 * (i - 34)
     IN Quiet(1000 + sign * height)]

Chart(bars, ema20, ema50, atr, rank) ==
  [bars |-> bars, older |-> 100, ema20 |-> 100 * ema20, ema50 |-> 100 * ema50,
   atr |-> 100 * atr, bb |-> rank, bbToday |-> rank]

MCCharts ==
  {Chart(Base, 1001, 999, 20, 10), Chart(Base, 999, 1001, 20, 10),
   Chart(Flag(1), 1060, 1030, 14, 40), Chart(Flag(-1), 940, 970, 14, 40),
   Chart(Triangle(1), 985, 980, 20, 15), Chart(Triangle(-1), 1015, 1020, 20, 15),
   Chart(Retest(1), 1040, 1020, 12, 30), Chart(Retest(-1), 960, 980, 12, 30),
   [bars |-> SubSeq(Base, 1, 30), older |-> 0, ema20 |-> 100000, ema50 |-> 0,
    atr |-> 2000, bb |-> -1, bbToday |-> -1]}

\* Out of the range on more than twice the volume, a little, and on no volume;
\* back at a level; a quiet day.
MCBars ==
  UNION {{Bar(1000 + sign * 10, 1000 + sign * 25 + 20, 1000 + sign * 25 - 20,
              1000 + sign * 40, 30),
          Bar(1000 + sign * 130, 1000 + sign * 130 + 20, 1000 + sign * 130 - 20,
              1000 + sign * 145, 24),
          Bar(1000 + sign * 55, 1000 + sign * 55 + 10, 1000 + sign * 55 - 10,
              1000 + sign * 60, 13)} : sign \in {-1, 1}}
    \cup {Bar(1000, 1005, 995, 1000, 8)}

MCDays == {[bar |-> bar, bb |-> 5] : bar \in MCBars}
            \cup {[bar |-> bar, bb |-> 40] : bar \in {b \in MCBars : b.close = 1145}}

Macro(vix, risk, return, trend) ==
  [vix |-> vix, earningsRisk |-> risk, spyReturn |-> return, spyTrend |-> trend]

MCMacros ==
  {Macro(20, FALSE, 0, {"uptrend", "downtrend"}), Macro(28, FALSE, 0, {"downtrend"}),
   Macro(20, TRUE, 4, {"uptrend"}), Macro(20, FALSE, Unknown, {})}

MCQuotes ==
  {[ivRank |-> 50, spread |-> 3, interest |-> 900, volume |-> 100],
   [ivRank |-> 71, spread |-> 3, interest |-> 499, volume |-> 100],
   [ivRank |-> 50, spread |-> 3, interest |-> -1, volume |-> 100]}

MCConfig ==
  [d \in Directions |->
     [vixMax |-> IF d = "bullish" THEN 24 ELSE 32, rsMin |-> 2, lookback |-> 20,
      bbMax |-> 30, volumeMin |-> 12, blackout |-> 5]]
MCLimits == [ivRank |-> 70, spread |-> 8, interest |-> 500, volume |-> 50]
MCAllowed == {"bull_flag", "bear_flag", "ascending_triangle", "descending_triangle",
              "base_breakout", "base_breakdown", "support_resistance_retest"}
================================================================================
