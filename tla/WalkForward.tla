------------------------------ MODULE WalkForward ------------------------------
(***************************************************************************)
(* cmd/wfresearch and internal/research: every configuration of thresholds *)
(* is run over rolling windows of the candidate records, the results are   *)
(* sorted by how stable their windows are, and the first is tested for     *)
(* being a product of chance.                                              *)
(*                                                                         *)
(* Percentages and P&L are integers.  A mean over the trades of a window   *)
(* is multiplied by Scale, a multiple of every number of trades a window   *)
(* can have; the dates are numbers.                                        *)
(***************************************************************************)
EXTENDS Integers, Sequences, FiniteSets, SequencesExt, FiniteSetsExt

CONSTANTS
  Histories,        \* sequences of candidate records, by date
  Databases,        \* sequences of rows of trade_candidates with their positions
  Grid,             \* the configurations: rsMin, rvolMin and bbMax, 0 for no filter;
                    \* bbMax, a fraction in the code, in percent
  TrainDays, TestDays,
  Scale,
  ChanceSharpe      \* square of the expected maximum Sharpe ratio of Grid

Candidate == [date : Nat, rs : Int, rvol : Int, bb : Int, pnl : Int]
StoredRow == [date : Nat, volumeRatio : Int, vix : Int, closed : BOOLEAN, pnl : Int]
Thresholds == [rsMin : Nat, rvolMin : Nat, bbMax : Nat]

\* The query orders by trade_date, and RunWalkForward asks for it (line 40).
ByDate(s) == \A i, j \in DOMAIN s : i <= j => s[i].date <= s[j].date

ASSUME WalkAssumption ==
  /\ Histories \subseteq Seq(Candidate) /\ \A h \in Histories : ByDate(h)
  /\ Databases \subseteq Seq(StoredRow) /\ \A rows \in Databases : ByDate(rows)
  /\ Grid \in Seq(Thresholds)
  /\ TrainDays \in Nat \ {0} /\ TestDays \in Nat \ {0}
  /\ Scale \in Nat \ {0} /\ \A n \in 1..TestDays : Scale % n = 0

VARIABLES
  loaded,      \* the records come from loadCandidates
  records,
  config,      \* the configuration that runs, Len(Grid) + 1 at the end
  start,
  windows,     \* of the configuration that runs
  results,     \* of those that ran
  report       \* of the deflated Sharpe ratio

walkVars == <<loaded, records, config, start, windows, results, report>>

-------------------------------------------------------------------------------
(* The records.                                                            *)

\* The query selects no relative strength, and scans vix_level into BBPct, which
\* is a fraction: a VIX of 18 stands there as 1800 percent.
LoadCandidates(rows) ==
  [i \in DOMAIN rows |->
     [date |-> rows[i].date, rs |-> 0, rvol |-> rows[i].volumeRatio,
      bb |-> 100 * rows[i].vix, pnl |-> IF rows[i].closed THEN rows[i].pnl ELSE 0]]

\* Mutant of ApplyThresholds: one filter passed is enough.
ApplyThresholdsAny(slice, cfg) ==
  LET PassesOne(c) == \/ cfg.rsMin > 0 /\ c.rs >= cfg.rsMin
                      \/ cfg.rvolMin > 0 /\ c.rvol >= cfg.rvolMin
                      \/ cfg.bbMax > 0 /\ c.bb <= cfg.bbMax
  IN SelectSeq(slice, PassesOne)

Passes(c, cfg) ==
  /\ cfg.rsMin > 0 => c.rs >= cfg.rsMin
  /\ cfg.rvolMin > 0 => c.rvol >= cfg.rvolMin
  /\ cfg.bbMax > 0 => c.bb <= cfg.bbMax

ApplyThresholds(slice, cfg) ==
  FoldLeft(LAMBDA out, c : IF Passes(c, cfg) THEN Append(out, c) ELSE out, << >>, slice)

-------------------------------------------------------------------------------
(* One window.                                                             *)

Total(s) == FoldLeft(LAMBDA sum, x : sum + x, 0, s)

\* Mutant of MaxDrawdown: the peak stays at 0.
MaxDrawdownBelowZero(pnls) ==
  LET Step(acc, p) == [cum   |-> acc.cum + p,
                       worst |-> Max({acc.worst, -(acc.cum + p)})]
  IN FoldLeft(Step, [cum |-> 0, worst |-> 0], pnls).worst

\* The largest fall of the cumulated P&L below its peak, which starts at 0.
DrawdownStep(acc, p) ==
  LET cum  == acc.cum + p
      high == Max({acc.peak, cum})
  IN [cum |-> cum, peak |-> high, worst |-> Max({acc.worst, high - cum})]

MaxDrawdown(pnls) ==
  FoldLeft(DrawdownStep, [cum |-> 0, peak |-> 0, worst |-> 0], pnls).worst

\* The Sharpe ratio of a window is above chance; 0 with less than two trades or
\* no variance.
BeatsChance(pnls) ==
  LET n == Len(pnls)
      sum == Total(pnls)
      spread == n * Total([i \in DOMAIN pnls |-> pnls[i] * pnls[i]]) - sum * sum
  IN /\ n >= 2 /\ spread > 0 /\ sum > 0
     /\ sum * sum * (n - 1) >= ChanceSharpe * n * spread

WindowResult(train, test, cfg) ==
  LET trades == ApplyThresholds(test, cfg)
      pnls == [i \in DOMAIN trades |-> trades[i].pnl]
      n == Len(pnls)
  IN [trainFrom |-> train[1].date, trainTo |-> train[Len(train)].date,
      testFrom  |-> test[1].date,  testTo  |-> test[Len(test)].date,
      trades |-> n, pnls |-> pnls,
      expectancy |-> IF n = 0 THEN 0 ELSE (Scale \div n) * Total(pnls),
      drawdown |-> MaxDrawdown(pnls)]

\* The means over the windows and the variance of their expectancies, times
\* their number or its square: every configuration has the same windows.
AggregateWindows(ws) ==
  LET exps == [i \in DOMAIN ws |-> ws[i].expectancy]
  IN [windows    |-> ws,
      trades     |-> Total([i \in DOMAIN ws |-> ws[i].trades]),
      expectancy |-> Total(exps),
      drawdown   |-> Max({0} \cup {ws[i].drawdown : i \in DOMAIN ws}),
      stability  |-> Len(ws) * Total([i \in DOMAIN ws |-> exps[i] * exps[i]])
                       - Total(exps) * Total(exps)]

-------------------------------------------------------------------------------
\* wfresearch stops when it loads nothing.
WalkInit ==
  /\ \/ loaded = FALSE /\ records \in Histories
     \/ \E rows \in Databases : loaded = TRUE /\ records = LoadCandidates(rows)
  /\ records # << >>
  /\ config = 1
  /\ start = 0
  /\ windows = << >>
  /\ results = << >>
  /\ report = "none"

Train == SubSeq(records, start + 1, start + TrainDays)
Test  == SubSeq(records, start + TrainDays + 1, start + TrainDays + TestDays)

WindowFits == start + TrainDays + TestDays <= Len(records)

\* Mutant of Leaks: the day on which the training ended may be tested.
LeaksEarlier == Test[1].date < Train[TrainDays].date

\* The test must start on a later day than the training ended.
Leaks == Test[1].date <= Train[TrainDays].date

Window ==
  /\ config <= Len(Grid) /\ WindowFits
  /\ windows' = IF Leaks THEN windows
                ELSE Append(windows, WindowResult(Train, Test, Grid[config]))
  /\ start' = start + TestDays
  /\ UNCHANGED <<loaded, records, config, results, report>>

Finish ==
  /\ config <= Len(Grid) /\ ~WindowFits
  /\ results' = Append(results, AggregateWindows(windows))
  /\ config' = config + 1
  /\ start' = 0
  /\ windows' = << >>
  /\ UNCHANGED <<loaded, records, report>>

\* SortByStability, in an order of its own where both keys tie.
SortsFirst(r) ==
  \A other \in ToSet(results) :
    \/ r.stability < other.stability
    \/ r.stability = other.stability /\ r.expectancy >= other.expectancy

\* One observation or none is reported without a warning.
DeflatedSharpeReport(best) ==
  IF /\ best.trades > 1
     /\ \A i \in DOMAIN best.windows : ~BeatsChance(best.windows[i].pnls)
  THEN "warning" ELSE "better than chance"

Report ==
  /\ config = Len(Grid) + 1 /\ report = "none"
  /\ \E best \in ToSet(results) : /\ SortsFirst(best)
                                  /\ report' = DeflatedSharpeReport(best)
  /\ UNCHANGED <<loaded, records, config, start, windows, results>>

WalkNext == Window \/ Finish \/ Report

WalkSpec == WalkInit /\ [][WalkNext]_walkVars

-------------------------------------------------------------------------------
(* Properties.                                                             *)

AllWindows == {windows} \cup {results[i].windows : i \in DOMAIN results}

WalkTypeOK ==
  /\ config \in 1..(Len(Grid) + 1)
  /\ Len(results) = config - 1
  /\ start \in 0..Len(records)
  /\ report \in {"none", "warning", "better than chance"}

\* What a window is tested on is later than all it trains on, tested days never go
\* back from one window to the next, and the windows of a configuration together
\* trade no more than the records that are left after the first training.
NoLeakage ==
  \A ws \in AllWindows :
    /\ \A i \in DOMAIN ws :
         /\ ws[i].trainFrom <= ws[i].trainTo /\ ws[i].trainTo < ws[i].testFrom
         /\ i > 1 => ws[i - 1].testTo <= ws[i].testFrom
    /\ Total([i \in DOMAIN ws |-> ws[i].trades]) <= Max({0, Len(records) - TrainDays})

\* The drawdown is what the worst run of consecutive trades lost.
DrawdownIsWorstRun ==
  \A ws \in AllWindows : \A i \in DOMAIN ws :
    LET Lost(a, b) == -Total(SubSeq(ws[i].pnls, a, b))
    IN ws[i].drawdown =
         Max({0} \cup {Lost(a, b) : a, b \in DOMAIN ws[i].pnls})

\* A configuration that asks for relative strength, or for a Bollinger rank under
\* what every record has in its place.
Excludes(cfg) ==
  \/ cfg.rsMin > 0
  \/ cfg.bbMax > 0 /\ \A i \in DOMAIN records : records[i].bb > cfg.bbMax

\* The records of the database have relative strength 0 and their VIX where the
\* Bollinger rank should be, so that each configuration of ThresholdGrid excludes
\* them on either count: nothing ever trades, whatever the positions earned, and
\* the report says that this is better than chance.
LoadedNeverTrades ==
  loaded /\ (\A i \in DOMAIN Grid : Excludes(Grid[i])) =>
    /\ \A ws \in AllWindows : \A i \in DOMAIN ws : ws[i].trades = 0
    /\ report # "warning"
================================================================================
