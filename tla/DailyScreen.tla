------------------------------ MODULE DailyScreen ------------------------------
(***************************************************************************)
(* One ticker through the days: its chart grows, and the programs that     *)
(* screen it run EvaluateRSVE on it, as often and in whatever order they   *)
(* are started: the worker's daily scan and the pipeline of POST           *)
(* /api/run-analysis, which store the verdict in the ticker's              *)
(* trade_candidates row of the day, the backtest and the dry scan.         *)
(*                                                                         *)
(* The chart keeps the last ChartBars bars; what the bars before them      *)
(* decide is in it as yesterday's averages, in hundredths: "ema20",        *)
(* "ema50" and "atr", and the Bollinger rank "bb"; 0 (-1 for bb) when the  *)
(* bars do not suffice for it.  A rank compares today's width with 63      *)
(* others most of which lie before the window, so today's is free.         *)
(***************************************************************************)
EXTENDS ScreeningGates

CONSTANTS
  Charts,      \* the charts to start from
  Days,        \* what a day can bring: a bar, and its Bollinger rank bb
  Macros,      \* vix, earningsRisk, spyReturn and spyTrend at a scan
  Quotes,      \* option data of a caller that has it
  MaxDays      \* bound: how many days are traded after the first

ChartBars == 41

\* What the feed delivers: a price is positive and the low no higher than the high.
Bars ==
  {b \in [open : Nat \ {0}, high : Nat \ {0}, low : Nat \ {0}, close : Nat \ {0},
          volume : Nat] : b.low <= b.high}

ASSUME ScreenAssumption ==
  /\ MaxDays \in Nat
  /\ Charts \subseteq [bars : Seq(Bars), older : Nat, ema20 : Nat, ema50 : Nat,
                      atr : Nat, bb : -1..Widths, bbToday : -1..Widths]
  /\ \A c \in Charts : /\ c.bars # << >>
                       /\ \/ Len(c.bars) = ChartBars
                          \/ Len(c.bars) < ChartBars /\ c.older = 0
  /\ \A d \in Days : d.bar \in Bars /\ d.bb \in 0..Widths
  /\ Macros \subseteq [vix : Nat, earningsRisk : BOOLEAN, spyReturn : Int,
                      spyTrend : SUBSET {"uptrend", "downtrend"}]
  /\ Quotes \subseteq [ivRank : Int, spread : Int, interest : Int, volume : Int]
  /\ \A d \in Directions : Config[d].lookback < ChartBars

VARIABLES
  day,        \* days since the first
  chart,      \* the bars, and the averages up to yesterday
  row,        \* the ticker's row of today in trade_candidates
  branches,   \* the two branches of the last evaluation on this chart
  verdict,    \* what EvaluateRSVE made of them
  signals,    \* what the backtest and the dry scan reported today
  heard       \* the statuses that scans of today reported (history)

screenVars == <<day, chart, row, branches, verdict, signals, heard>>

-------------------------------------------------------------------------------
(* The chart.                                                              *)

\* EMASlice smooths the value before it with today's close.
Smoothed(ema, close, period) ==
  IF ema = 0 THEN 0 ELSE ema + (2 * (100 * close - ema)) \div (period + 1)

TrueRange(bars, i) ==
  Max({bars[i].high - bars[i].low,
       bars[i].high - bars[i - 1].close, bars[i - 1].close - bars[i].high,
       bars[i].low - bars[i - 1].close, bars[i - 1].close - bars[i].low})

\* Wilder's smoothing.
SmoothedATR(atr, bars) ==
  IF atr = 0 THEN 0 ELSE (13 * atr + 100 * TrueRange(bars, Len(bars))) \div 14

\* The averages up to today.
Today(c) ==
  [ema20 |-> Smoothed(c.ema20, c.bars[Len(c.bars)].close, 20),
   ema50 |-> Smoothed(c.ema50, c.bars[Len(c.bars)].close, 50),
   atr   |-> SmoothedATR(c.atr, c.bars)]

\* The detectors see the Bollinger rank of yesterday.
Indicators(c) ==
  [ema20 |-> Today(c).ema20 \div 100, atr |-> Today(c).atr \div 100, bb |-> c.bb]

Structure(c) ==
  LET t == Today(c)
  IN IF t.ema20 = 0 \/ t.ema50 = 0 THEN "unknown"
     ELSE CASE t.ema20 > t.ema50 -> "up"
            [] t.ema20 < t.ema50 -> "down"
            [] t.ema20 = t.ema50 -> "flat"

\* What the chart becomes when a bar with Bollinger rank bb follows.
Extended(c, bar, bb) ==
  LET full == Len(c.bars) = ChartBars
  IN [bars    |-> Append(IF full THEN Tail(c.bars) ELSE c.bars, bar),
      older   |-> IF full THEN Min({c.older + 1, 100}) ELSE 0,
      ema20   |-> Today(c).ema20,
      ema50   |-> Today(c).ema50,
      atr     |-> Today(c).atr,
      bb      |-> c.bbToday,
      bbToday |-> IF full THEN bb ELSE -1]

-------------------------------------------------------------------------------
(* The row.                                                                *)

\* The columns that the properties are about; the others go with rejectReason.
NoRow == [status |-> "none", direction |-> "none", rejectReason |-> "",
          allGates |-> FALSE]

\* The statuses that ON CONFLICT keeps.
Kept == {"entry_ready", "confirmed", "stock_signal_passed", "option_blocked"}

\* Mutant of UpsertCandidate: the status is overwritten like the other columns.
UpsertCandidateAll(old, result, status) ==
  [status |-> status, direction |-> result.direction,
   rejectReason |-> result.rejectGate, allGates |-> result.allPass]

UpsertCandidate(old, result, status) ==
  [status       |-> IF old.status \in Kept THEN old.status ELSE status,
   direction    |-> result.direction,
   rejectReason |-> result.rejectGate,
   allGates     |-> result.allPass]

-------------------------------------------------------------------------------
(* Evaluations.                                                            *)

Input(macro, earnings, options) ==
  [bars |-> chart.bars, ind |-> Indicators(chart), older |-> chart.older,
   vix |-> macro.vix, earnings |-> earnings, spyReturn |-> macro.spyReturn,
   spyTrend |-> macro.spyTrend, structure |-> Structure(chart),
   bb |-> chart.bbToday, options |-> options]

\* The scans know only that earnings are within five days, or are not.
EarningsDaysAway(macro) == IF macro.earningsRisk THEN 0 ELSE -1

NoOptionData == [ivRank |-> -1, spread |-> -1, interest |-> -1, volume |-> -1]

\* The others leave OptionVolume out of the input.
VolumeLeftOut == [NoOptionData EXCEPT !.volume = 0]

Evaluate(in, analyses) ==
  /\ branches' = [bullish |-> EvaluateBranch(in, "bullish", analyses.bullish),
                  bearish |-> EvaluateBranch(in, "bearish", analyses.bearish)]
  /\ verdict' = Choose(branches'.bullish, branches'.bearish)
  /\ UNCHANGED <<day, chart>>

\* The write of the row may fail, which is only logged.
StoreRow(status) ==
  \/ /\ row' = UpsertCandidate(row, verdict', status)
     /\ heard' = heard \cup {status}
  \/ UNCHANGED <<row, heard>>

\* The day's averages need 130 bars before today.
WarmedUp == chart.older + Len(chart.bars) > 130

-------------------------------------------------------------------------------
NoBranches == [d \in Directions |-> [status |-> "none"]]
NoVerdict  == [status |-> "none"]

ScreenInit ==
  /\ day = 0
  /\ chart \in Charts
  /\ row = NoRow
  /\ branches = NoBranches
  /\ verdict = NoVerdict
  /\ signals = {}
  /\ heard = {}

\* The market trades another day; the rows of a day are its own.
NextDay ==
  /\ day < MaxDays
  /\ day' = day + 1
  /\ \E d \in Days : chart' = Extended(chart, d.bar, d.bb)
  /\ row' = NoRow
  /\ heard' = {}
  /\ branches' = NoBranches
  /\ verdict' = NoVerdict
  /\ signals' = {}

\* The bar of the current day, which the feed delivers while it forms.  It is
\* the last day's (a bound).
BarForms ==
  /\ day = MaxDays
  /\ \E d \in Days :
       chart' = [chart EXCEPT !.bars[Len(chart.bars)] = d.bar,
                              !.bbToday = IF chart.older = 0 THEN -1 ELSE d.bb]
  /\ branches' = NoBranches
  /\ verdict' = NoVerdict
  /\ UNCHANGED <<day, row, signals, heard>>

\* RunDailyAnalysisActivity, the goroutine of this ticker.
DailyScan(analyses) ==
  /\ \E macro \in Macros :
       Evaluate(Input(macro, EarningsDaysAway(macro), NoOptionData), analyses)
  /\ StoreRow(IF verdict'.status = "paper_trade_created"
              THEN "entry_ready" ELSE verdict'.status)
  /\ UNCHANGED signals

\* runPipeline, the same for a ticker without an open position.
RunPipeline(analyses) ==
  /\ \E macro \in Macros :
       Evaluate(Input(macro, EarningsDaysAway(macro), VolumeLeftOut), analyses)
  /\ StoreRow(IF verdict'.allPass THEN "entry_ready" ELSE verdict'.status)
  /\ UNCHANGED signals

\* The prices of a signal of the backtest, in hundredths; "atr" is atrLast.
Signal(direction, close, atr) ==
  LET Level(halves) == 100 * close + (Sign(direction) * halves * atr) \div 2
  IN [direction |-> direction, entry |-> 100 * close, stop |-> Level(-3),
      target1 |-> Level(5), target2 |-> Level(8)]

\* The mean true range of the last 14 bars.
ATRLast(bars) ==
  LET upTo[i \in (Len(bars) - 14)..Len(bars)] ==
        IF i < Len(bars) - 13 THEN 0 ELSE upTo[i - 1] + TrueRange(bars, i)
  IN (100 * upTo[Len(bars)]) \div 14

Backtest(analyses) ==
  /\ WarmedUp
  /\ \E macro \in Macros : Evaluate(Input(macro, -1, VolumeLeftOut), analyses)
  /\ signals' =
       IF verdict'.allPass
       THEN signals \cup {Signal(verdict'.direction, chart.bars[Len(chart.bars)].close,
                                 ATRLast(chart.bars))}
       ELSE signals
  /\ UNCHANGED <<row, heard>>

\* A confirmed setup is printed with its direction.
DryScan(analyses) ==
  /\ chart.older + Len(chart.bars) >= 130
  /\ \E macro \in Macros : Evaluate(Input(macro, -1, VolumeLeftOut), analyses)
  /\ signals' = IF verdict'.allPass
                THEN signals \cup {[direction |-> verdict'.direction]}
                ELSE signals
  /\ UNCHANGED <<row, heard>>

\* EvaluateRSVE with a contract's data, as only its tests call it.
Assess(analyses) ==
  /\ \E macro \in Macros, options \in Quotes :
       Evaluate(Input(macro, EarningsDaysAway(macro), options), analyses)
  /\ UNCHANGED <<row, signals, heard>>

ScreenNext ==
  \/ NextDay
  \/ BarForms
  \/ LET analyses == Analyses(chart.bars, Indicators(chart))
     IN \/ DailyScan(analyses) \/ RunPipeline(analyses)
        \/ Backtest(analyses) \/ DryScan(analyses) \/ Assess(analyses)

ScreenSpec == ScreenInit /\ [][ScreenNext]_screenVars

-------------------------------------------------------------------------------
(* Properties.                                                             *)

\* The row and the verdict have the statuses the code knows, and a score is
\* between 0 and 100 points, in tenths.
ScreenTypeOK ==
  /\ row.status \in {"none", "entry_ready"} \cup Statuses
  /\ heard \subseteq {"entry_ready"} \cup Statuses
  /\ verdict.status \in {"none"} \cup Statuses
  /\ verdict # NoVerdict => verdict.score \in 0..1000
  /\ Len(chart.bars) <= ChartBars

TwoSided == {"ascending_triangle", "descending_triangle", "support_resistance_retest"}

\* The two branches of EvaluateRSVE never both get past the stock gates, so the
\* score never decides between directions (the "edge case" of its comment), and
\* a flag or base is never found in both directions on the same bars.
OneWay ==
  verdict # NoVerdict =>
    /\ \E d \in Directions : branches[d].status = "rejected"
    /\ \E d \in Directions : branches[d].pattern.name \in {"none"} \cup TwoSided

\* A pattern and gate 8 look at different spans of the same bars.  A base as
\* long as the lookback is always "breakout confirmed", and where the state
\* says confirmed and the pattern's level was traded inside the lookback, the
\* close is beyond that level.
TriggerAgrees ==
  verdict # NoVerdict =>
    \A d \in Directions :
      LET r == branches[d]
          n == Len(chart.bars)
          recent == r.pattern.since >= n - Config[d].lookback
          confirmed == r.patternState = "pattern_breakout_confirmed"
      IN /\ /\ r.pattern.name \in {"base_breakout", "base_breakdown"}
            /\ r.pattern.since <= n - Config[d].lookback
            /\ r.patternState # "no_pattern"
            => confirmed
         /\ confirmed /\ recent =>
              Sign(d) * 100 * chart.bars[n].close > Sign(d) * r.pattern.breakout

\* What is reported and stored is the better of the two branches; a blocked
\* verdict names the first gate that failed, and an unblocked one names none;
\* only a verdict whose stock gates all passed carries a score.
VerdictExplained ==
  verdict # NoVerdict =>
    /\ \A d \in Directions : StatusRank(branches[d]) <= StatusRank(verdict)
    /\ verdict = branches[verdict.direction]
    /\ verdict.status \in {"rejected", "option_blocked"} =>
         \E i \in DOMAIN verdict.gates :
           /\ verdict.gates[i] = Gate(verdict.rejectGate, FALSE)
           /\ \A j \in 1..(i - 1) : verdict.gates[j].passed
    /\ verdict.status \in {"stock_signal_passed", "paper_trade_created"} =>
         \A i \in DOMAIN verdict.gates : verdict.gates[i].passed
    /\ verdict.score > 0 => StatusRank(verdict) >= 2

\* A later scan of the day, with another VIX, another SPY or a bar that moved on,
\* never takes back a stored stock signal, and a row says "rejected" only when no
\* scan that stored it said otherwise.  (The status only: direction, reason and
\* gates are those of the last scan.)
SignalSurvivesRescan ==
  /\ row.status = "rejected" => heard \subseteq {"rejected"}
  /\ row.status # "none" => row.status \in heard
  /\ "stock_signal_passed" \in heard /\ heard \subseteq {"rejected", "stock_signal_passed"}
       => row.status = "stock_signal_passed"

\* No caller has option data, so no scan makes a row ready for entry and neither
\* the backtest nor the dry scan reports a setup.
NeverReady == row.status # "entry_ready" /\ ~row.allGates /\ signals = {}

\* rsve.go:63 "Options chain quality. -1 = unavailable (gate passes silently)": a
\* verdict whose gates all passed is not held back by data that is unavailable.
UnavailablePasses ==
  verdict # NoVerdict /\ Failures(verdict.gates) = {} => verdict.allPass
================================================================================
