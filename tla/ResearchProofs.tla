----------------------------- MODULE ResearchProofs -----------------------------
(***************************************************************************)
(* What DailyScreen and TradeOutcome guarantee for every chart, every      *)
(* bar, every signal and every configuration of the gates, and that the    *)
(* programs which MCResearch runs side by side keep their types.           *)
(***************************************************************************)
EXTENDS MCResearch, WalkForwardProofs, FiniteSetTheorems

-------------------------------------------------------------------------------
(* One evaluation.                                                         *)

\* A branch without option data ends before the option gates.
LEMMA BranchWithoutOptions ==
  ASSUME NEW in, NEW d, NEW analysis, OptionDataMissing(in)
  PROVE  /\ EvaluateBranch(in, d, analysis).status
              \in {"rejected", "stock_signal_passed"}
         /\ EvaluateBranch(in, d, analysis).allPass = FALSE
BY DEF EvaluateBranch

\* The choice is one of the two.
LEMMA ChooseIsABranch ==
  ASSUME NEW bull, NEW bear
  PROVE  Choose(bull, bear) \in {bull, bear}
BY DEF Choose

\* Neither the scans nor the pipeline, the backtest and the dry scan have the data.
LEMMA CallersHaveNoOptions ==
  ASSUME NEW macro, NEW earnings, NEW options \in {NoOptionData, VolumeLeftOut}
  PROVE  OptionDataMissing(Input(macro, earnings, options))
BY DEF Input, NoOptionData, VolumeLeftOut, OptionDataMissing

\* So no evaluation of theirs passes every gate.
LEMMA CallersNeverPass ==
  ASSUME NEW macro, NEW earnings, NEW analyses,
         NEW options \in {NoOptionData, VolumeLeftOut},
         Evaluate(Input(macro, earnings, options), analyses)
  PROVE  /\ verdict'.status \in {"rejected", "stock_signal_passed"}
         /\ verdict'.allPass = FALSE
<1> DEFINE in == Input(macro, earnings, options)
<1>1. OptionDataMissing(in)
  BY CallersHaveNoOptions
<1>2. verdict' \in {EvaluateBranch(in, "bullish", analyses.bullish),
                    EvaluateBranch(in, "bearish", analyses.bearish)}
  BY ChooseIsABranch DEF Evaluate
<1> HIDE DEF in
<1>3. ASSUME NEW d, NEW analysis, verdict' = EvaluateBranch(in, d, analysis)
      PROVE  /\ verdict'.status \in {"rejected", "stock_signal_passed"}
             /\ verdict'.allPass = FALSE
  <2>1. /\ EvaluateBranch(in, d, analysis).status
              \in {"rejected", "stock_signal_passed"}
        /\ EvaluateBranch(in, d, analysis).allPass = FALSE
    BY <1>1, BranchWithoutOptions
  <2> QED
    BY <1>3, <2>1
<1> QED
  BY <1>2, <1>3

\* A new row has none of what the scans set.
LEMMA NoRowFields == NoRow.status = "none" /\ NoRow.allGates = FALSE
BY DEF NoRow

-------------------------------------------------------------------------------
(* NeverReady.                                                             *)

\* Every action keeps NeverReady; the four scans store what a caller without option
\* data gets.
LEMMA NeverReadyStep ==
  ASSUME NeverReady, [ScreenNext]_screenVars
  PROVE  NeverReady'
<1> USE DEF NeverReady
<1>1. ASSUME NextDay PROVE NeverReady'
  BY <1>1 DEF NextDay, NoRow
<1>2. ASSUME BarForms PROVE NeverReady'
  BY <1>2 DEF BarForms
<1>3. ASSUME NEW analyses, DailyScan(analyses) PROVE NeverReady'
  <2>1. /\ verdict'.status \in {"rejected", "stock_signal_passed"}
        /\ verdict'.allPass = FALSE
    BY <1>3, CallersNeverPass DEF DailyScan
  <2>2. signals' = {}
    BY <1>3 DEF DailyScan
  <2>3. StoreRow(verdict'.status)
    BY <1>3, <2>1 DEF DailyScan
  <2> QED
    BY <2>1, <2>2, <2>3 DEF StoreRow, UpsertCandidate
<1>4. ASSUME NEW analyses, RunPipeline(analyses) PROVE NeverReady'
  <2>1. /\ verdict'.status \in {"rejected", "stock_signal_passed"}
        /\ verdict'.allPass = FALSE
    BY <1>4, CallersNeverPass DEF RunPipeline
  <2>2. signals' = {}
    BY <1>4 DEF RunPipeline
  <2>3. StoreRow(verdict'.status)
    BY <1>4, <2>1 DEF RunPipeline
  <2> QED
    BY <2>1, <2>2, <2>3 DEF StoreRow, UpsertCandidate
<1>5. ASSUME NEW analyses, Backtest(analyses) PROVE NeverReady'
  <2>1. verdict'.allPass = FALSE
    BY <1>5, CallersNeverPass DEF Backtest
  <2> QED
    BY <1>5, <2>1 DEF Backtest
<1>6. ASSUME NEW analyses, DryScan(analyses) PROVE NeverReady'
  <2>1. verdict'.allPass = FALSE
    BY <1>6, CallersNeverPass DEF DryScan
  <2> QED
    BY <1>6, <2>1 DEF DryScan
<1>7. ASSUME NEW analyses, Assess(analyses) PROVE NeverReady'
  BY <1>7 DEF Assess
<1>8. CASE UNCHANGED screenVars
  BY <1>8 DEF screenVars
<1> QED
  BY <1>1, <1>2, <1>3, <1>4, <1>5, <1>6, <1>7, <1>8 DEF ScreenNext

\* No scan makes a row ready for entry and no tool reports a setup, whatever the
\* market does: evaluateBranch is never reached with option data.
THEOREM NeverReadyCorrect == ScreenSpec => []NeverReady
<1>1. ScreenInit => NeverReady
  BY NoRowFields DEF ScreenInit, NeverReady
<1>2. NeverReady /\ [ScreenNext]_screenVars => NeverReady'
  BY NeverReadyStep
<1> QED
  BY <1>1, <1>2, PTL DEF ScreenSpec

-------------------------------------------------------------------------------
(* SignalSurvivesRescan.                                                   *)

\* What the scans of a day may report, and how the row remembers it.
RowOfTheDay ==
  /\ heard \subseteq {"rejected", "stock_signal_passed"}
  /\ row.status \in {"none"} \cup heard
  /\ row.status = "none" => heard = {}
  /\ "stock_signal_passed" \in heard => row.status = "stock_signal_passed"

\* An upsert of a rejection or of a stock signal keeps what the row says of the day.
LEMMA StoreKeepsRowOfTheDay ==
  ASSUME RowOfTheDay, NEW status \in {"rejected", "stock_signal_passed"},
         StoreRow(status)
  PROVE  RowOfTheDay'
<1>1. CASE UNCHANGED <<row, heard>>
  BY <1>1 DEF RowOfTheDay
<1>2. CASE /\ row' = UpsertCandidate(row, verdict', status)
           /\ heard' = heard \cup {status}
  <2>1. row'.status = IF row.status \in Kept THEN row.status ELSE status
    BY <1>2 DEF UpsertCandidate
  <2>2. CASE row.status = "stock_signal_passed"
    BY <1>2, <2>1, <2>2 DEF Kept, RowOfTheDay
  <2>3. CASE row.status \in {"none", "rejected"}
    <3>1. row'.status = status
      BY <2>1, <2>3 DEF Kept
    <3> QED
      BY <1>2, <2>3, <3>1 DEF RowOfTheDay
  <2> QED
    BY <2>2, <2>3 DEF RowOfTheDay
<1> QED
  BY <1>1, <1>2 DEF StoreRow

\* RowOfTheDay is inductive.
LEMMA RowOfTheDayStep ==
  ASSUME RowOfTheDay, [ScreenNext]_screenVars
  PROVE  RowOfTheDay'
<1>1. ASSUME NextDay PROVE RowOfTheDay'
  BY <1>1 DEF NextDay, NoRow, RowOfTheDay
<1>2. ASSUME BarForms PROVE RowOfTheDay'
  BY <1>2 DEF BarForms, RowOfTheDay
<1>3. ASSUME NEW analyses, DailyScan(analyses) PROVE RowOfTheDay'
  <2>1. verdict'.status \in {"rejected", "stock_signal_passed"}
    BY <1>3, CallersNeverPass DEF DailyScan
  <2>2. StoreRow(verdict'.status)
    BY <1>3, <2>1 DEF DailyScan
  <2> QED
    BY <2>1, <2>2, StoreKeepsRowOfTheDay
<1>4. ASSUME NEW analyses, RunPipeline(analyses) PROVE RowOfTheDay'
  <2>1. /\ verdict'.status \in {"rejected", "stock_signal_passed"}
        /\ verdict'.allPass = FALSE
    BY <1>4, CallersNeverPass DEF RunPipeline
  <2>2. StoreRow(verdict'.status)
    BY <1>4, <2>1 DEF RunPipeline
  <2> QED
    BY <2>1, <2>2, StoreKeepsRowOfTheDay
<1>5. ASSUME UNCHANGED <<row, heard>> PROVE RowOfTheDay'
  BY <1>5 DEF RowOfTheDay
<1>6. ASSUME NEW analyses,
             Backtest(analyses) \/ DryScan(analyses) \/ Assess(analyses)
      PROVE  UNCHANGED <<row, heard>>
  BY <1>6 DEF Backtest, DryScan, Assess
<1>7. CASE UNCHANGED screenVars
  BY <1>5, <1>7 DEF screenVars
<1> QED
  BY <1>1, <1>2, <1>3, <1>4, <1>5, <1>6, <1>7 DEF ScreenNext

\* A stored stock signal survives every later scan of the day, in whatever order
\* scans run and their writes fail.
THEOREM SignalSurvives == ScreenSpec => []SignalSurvivesRescan
<1>1. ScreenInit => RowOfTheDay
  BY NoRowFields DEF ScreenInit, RowOfTheDay
<1>2. RowOfTheDay /\ [ScreenNext]_screenVars => RowOfTheDay'
  BY RowOfTheDayStep
<1>3. RowOfTheDay => SignalSurvivesRescan
  BY DEF RowOfTheDay, SignalSurvivesRescan
<1> QED
  BY <1>1, <1>2, <1>3, PTL DEF ScreenSpec

-------------------------------------------------------------------------------
(* The gates of a branch.  *)

\* The gates by name, and what each of them says.
GateNames ==
  {"vix_regime", "market_uptrend", "market_downtrend", "no_earnings",
   "relative_strength", "relative_weakness", "ema_structure_bullish",
   "ema_structure_bearish", "volume_expansion", "vol_squeeze", "breakout_trigger",
   "breakdown_trigger", "pattern_required", "iv_rank_ok", "spread_quality",
   "oi_minimum", "option_volume"}

GateResults == [name : GateNames, passed : BOOLEAN]

\* What Gate makes of a name and a verdict.
LEMMA GateType ==
  ASSUME NEW name \in GateNames, NEW passed \in BOOLEAN
  PROVE  Gate(name, passed) \in GateResults
BY DEF Gate, GateResults

\* Each of the eight conditions is a condition.
LEMMA GatesDecide ==
  ASSUME NEW in, NEW d
  PROVE  /\ VIXRegime(in, d) \in BOOLEAN
         /\ MarketDirection(in, d) \in BOOLEAN
         /\ NoEarnings(in, d) \in BOOLEAN
         /\ RelativeStrength(in, d) \in BOOLEAN
         /\ EMAStructure(in, d) \in BOOLEAN
         /\ VolumeExpansion(in, d) \in BOOLEAN
         /\ VolSqueeze(in, d) \in BOOLEAN
         /\ BreakoutTrigger(in, d) \in BOOLEAN
<1>1. VIXRegime(in, d) \in BOOLEAN
  BY DEF VIXRegime
<1>2. MarketDirection(in, d) \in BOOLEAN
  BY DEF MarketDirection
<1>3. NoEarnings(in, d) \in BOOLEAN
  BY DEF NoEarnings
<1>4. RelativeStrength(in, d) \in BOOLEAN
  BY DEF RelativeStrength
<1>5. EMAStructure(in, d) \in BOOLEAN
  BY DEF EMAStructure
<1>6. VolumeExpansion(in, d) \in BOOLEAN
  BY DEF VolumeExpansion
<1>7. VolSqueeze(in, d) \in BOOLEAN
  BY DEF VolSqueeze
<1>8. BreakoutTrigger(in, d) \in BOOLEAN
  BY DEF BreakoutTrigger
<1> QED
  BY <1>1, <1>2, <1>3, <1>4, <1>5, <1>6, <1>7, <1>8

\* A sequence of eight.
LEMMA EightInSeq ==
  ASSUME NEW S, NEW a \in S, NEW b \in S, NEW c \in S, NEW d \in S,
         NEW e \in S, NEW f \in S, NEW g \in S, NEW h \in S
  PROVE  <<a, b, c, d, e, f, g, h>> \in Seq(S)
OBVIOUS

\* The stock gates are named gates.
LEMMA StockGatesType ==
  ASSUME NEW in, NEW d, NEW analysis, analysis.detected \in BOOLEAN
  PROVE  StockGates(in, d, analysis) \in Seq(GateResults)
<1> DEFINE vix == Gate("vix_regime", VIXRegime(in, d))
           market == Gate(IF d = "bullish" THEN "market_uptrend" ELSE "market_downtrend",
                          MarketDirection(in, d))
           earnings == Gate("no_earnings", NoEarnings(in, d))
           strength == Gate(IF d = "bullish" THEN "relative_strength"
                                             ELSE "relative_weakness",
                            RelativeStrength(in, d))
           ema == Gate(IF d = "bullish" THEN "ema_structure_bullish"
                                        ELSE "ema_structure_bearish",
                       EMAStructure(in, d))
           volume == Gate("volume_expansion", VolumeExpansion(in, d))
           squeeze == Gate("vol_squeeze", VolSqueeze(in, d))
           trigger == Gate(IF d = "bullish" THEN "breakout_trigger"
                                            ELSE "breakdown_trigger",
                           BreakoutTrigger(in, d))
           pattern == Gate("pattern_required", analysis.detected)
           last == IF PatternsEnabled /\ PatternRequired THEN << pattern >> ELSE << >>
<1>1. /\ vix \in GateResults /\ market \in GateResults /\ earnings \in GateResults
      /\ strength \in GateResults /\ ema \in GateResults /\ volume \in GateResults
      /\ squeeze \in GateResults /\ trigger \in GateResults
  BY GateType, GatesDecide DEF GateNames
<1>2. pattern \in GateResults
  BY GateType DEF GateNames
<1>3. StockGates(in, d, analysis)
         = <<vix, market, earnings, strength, ema, volume, squeeze, trigger>> \o last
  BY DEF StockGates
<1> HIDE DEF vix, market, earnings, strength, ema, volume, squeeze, trigger, pattern
<1>4. <<vix, market, earnings, strength, ema, volume, squeeze, trigger>>
         \in Seq(GateResults)
  BY <1>1, EightInSeq
<1>5. last \in Seq(GateResults)
  BY <1>2
<1> HIDE DEF last
<1> QED
  BY <1>3, <1>4, <1>5

\* So are the option gates.
LEMMA OptionGatesType ==
  ASSUME NEW in
  PROVE  OptionGates(in) \in Seq(GateResults)
<1> DEFINE AtMost(value, limit)  == value < 0 \/ value <= limit
           AtLeast(value, limit) == value < 0 \/ value >= limit
           rank == Gate("iv_rank_ok", AtMost(in.options.ivRank, Limits.ivRank))
           spread == Gate("spread_quality", AtMost(in.options.spread, Limits.spread))
           interest == Gate("oi_minimum", AtLeast(in.options.interest, Limits.interest))
           volume == Gate("option_volume", AtLeast(in.options.volume, Limits.volume))
<1>1. \A value, limit : /\ AtMost(value, limit) \in BOOLEAN
                         /\ AtLeast(value, limit) \in BOOLEAN
  OBVIOUS
<1>2. OptionGates(in) = <<rank, spread, interest, volume>>
  BY DEF OptionGates
<1> HIDE DEF AtMost, AtLeast
<1>3. /\ rank \in GateResults /\ spread \in GateResults
      /\ interest \in GateResults /\ volume \in GateResults
  BY <1>1, GateType DEF GateNames
<1> HIDE DEF rank, spread, interest, volume
<1> QED
  BY <1>3, <1>2

\* RejectGate is the name of the first gate that failed.
LEMMA FirstFailureIsNamed ==
  ASSUME NEW gates \in Seq(GateResults), Failures(gates) # {}
  PROVE  \E i \in DOMAIN gates : /\ gates[i] = Gate(RejectGate(gates), FALSE)
                                 /\ \A j \in 1..(i - 1) : gates[j].passed
<1> DEFINE i == Min(Failures(gates))
<1>1. /\ Failures(gates) \subseteq DOMAIN gates
      /\ DOMAIN gates = 1..Len(gates) /\ Len(gates) \in Nat
  BY DEF Failures
<1>2. i \in Failures(gates) /\ \A j \in Failures(gates) : i <= j
  BY <1>1, MinOfNaturals
<1>3. RejectGate(gates) = gates[i].name
  BY DEF RejectGate
<1> HIDE DEF i
<1>4. i \in DOMAIN gates /\ ~gates[i].passed
  BY <1>2, Zenon DEF Failures
<1>5. gates[i] \in GateResults
  BY <1>4, <1>1
<1>6. gates[i] = Gate(RejectGate(gates), FALSE)
  <2>1. /\ gates[i] = [name |-> gates[i].name, passed |-> gates[i].passed]
        /\ gates[i].passed \in BOOLEAN
    BY <1>5 DEF GateResults
  <2>2. gates[i].passed = FALSE
    BY <1>4, <2>1
  <2> QED BY <2>1, <2>2, <1>3, Zenon DEF Gate
<1>7. ASSUME NEW j \in 1..(i - 1) PROVE gates[j].passed
  <2>1. j \in DOMAIN gates /\ j < i
    BY <1>1, <1>2
  <2>2. j \notin Failures(gates)
    BY <1>1, <1>2, <2>1
  <2> QED
    BY <2>2, <2>1, Zenon DEF Failures
<1> QED
  BY <1>4, <1>6, <1>7

\* "detected" is a verdict, with and without the pattern analysis.
LEMMA DetectedIsDecided ==
  ASSUME NEW bars, NEW ind
  PROVE  /\ Analyses(bars, ind).bullish.detected \in BOOLEAN
         /\ Analyses(bars, ind).bearish.detected \in BOOLEAN
<1>1. NoAnalysis.detected \in BOOLEAN
  BY DEF NoAnalysis
<1>2. ASSUME NEW d PROVE AnalyzePatterns(bars, ind, d).detected \in BOOLEAN
  BY DEF AnalyzePatterns
<1> QED
  BY <1>1, <1>2 DEF Analyses

\* A branch names its first failure, or has none and a score.
BranchExplained(r, d) ==
  /\ r.direction = d
  /\ r.status \in Statuses
  /\ r.status \in {"rejected", "option_blocked"} =>
       \E i \in DOMAIN r.gates : /\ r.gates[i] = Gate(r.rejectGate, FALSE)
                                 /\ \A j \in 1..(i - 1) : r.gates[j].passed
  /\ r.status \in {"stock_signal_passed", "paper_trade_created"} =>
       \A i \in DOMAIN r.gates : r.gates[i].passed
  /\ r.score > 0 => r.status \in {"stock_signal_passed", "paper_trade_created"}

\* A branch with a failed gate, as evaluateBranch returns it.
LEMMA BlockedBranchIsExplained ==
  ASSUME NEW r, NEW d, r.gates \in Seq(GateResults), Failures(r.gates) # {},
         r.direction = d, r.status \in {"rejected", "option_blocked"},
         r.rejectGate = RejectGate(r.gates), r.score = 0
  PROVE  BranchExplained(r, d)
<1>1. \E i \in DOMAIN r.gates : /\ r.gates[i] = Gate(r.rejectGate, FALSE)
                                /\ \A j \in 1..(i - 1) : r.gates[j].passed
  BY FirstFailureIsNamed, Zenon
<1>2. /\ r.status \in Statuses
      /\ r.status \notin {"stock_signal_passed", "paper_trade_created"}
      /\ ~ (r.score > 0)
  BY DEF Statuses
<1> QED
  BY <1>1, <1>2, Zenon DEF BranchExplained

\* The four ways out of evaluateBranch.
LEMMA EveryBranchIsExplained ==
  ASSUME NEW in, NEW d, NEW analysis, analysis.detected \in BOOLEAN
  PROVE  BranchExplained(EvaluateBranch(in, d, analysis), d)
<1> DEFINE stock == StockGates(in, d, analysis)
           all == stock \o OptionGates(in)
           r == EvaluateBranch(in, d, analysis)
<1>1. stock \in Seq(GateResults) /\ all \in Seq(GateResults)
  BY StockGatesType, OptionGatesType
<1>2. r.direction = d
  BY DEF EvaluateBranch
<1>3. /\ Failures(stock) # {}
      => /\ r.status = "rejected" /\ r.gates = stock
         /\ r.rejectGate = RejectGate(stock) /\ r.score = 0
  BY DEF EvaluateBranch
<1>4. Failures(stock) = {} /\ OptionDataMissing(in)
      => r.status = "stock_signal_passed" /\ r.gates = stock
  BY DEF EvaluateBranch
<1>5. Failures(stock) = {} /\ ~OptionDataMissing(in) /\ Failures(all) # {}
      => /\ r.status = "option_blocked" /\ r.gates = all
         /\ r.rejectGate = RejectGate(all) /\ r.score = 0
  BY DEF EvaluateBranch
<1>6. Failures(stock) = {} /\ ~OptionDataMissing(in) /\ Failures(all) = {}
      => r.status = "paper_trade_created" /\ r.gates = all
  BY DEF EvaluateBranch
<1>7. \A gates : Failures(gates) = {} => \A i \in DOMAIN gates : gates[i].passed
  BY Zenon DEF Failures
<1> SUFFICES BranchExplained(r, d)
  OBVIOUS
<1> HIDE DEF stock, all, r
<1>8. CASE Failures(stock) # {}
  BY <1>1, <1>2, <1>3, <1>8, BlockedBranchIsExplained
<1>9. CASE Failures(stock) = {} /\ OptionDataMissing(in)
  BY <1>2, <1>4, <1>7, <1>9 DEF BranchExplained, Statuses
<1>10. CASE Failures(stock) = {} /\ ~OptionDataMissing(in) /\ Failures(all) # {}
  BY <1>1, <1>2, <1>5, <1>10, BlockedBranchIsExplained
<1>11. CASE Failures(stock) = {} /\ ~OptionDataMissing(in) /\ Failures(all) = {}
  BY <1>2, <1>6, <1>7, <1>11 DEF BranchExplained, Statuses
<1> QED
  BY <1>8, <1>9, <1>10, <1>11

\* Neither branch outranks the choice.
LEMMA ChooseTakesTheBetter ==
  ASSUME NEW bull, NEW bear, bull.status \in Statuses, bear.status \in Statuses
  PROVE  /\ StatusRank(bull) <= StatusRank(Choose(bull, bear))
         /\ StatusRank(bear) <= StatusRank(Choose(bull, bear))
<1>1. StatusRank(bull) \in 0..3 /\ StatusRank(bear) \in 0..3
  BY DEF StatusRank, Statuses
<1>2. Choose(bull, bear) = IF StatusRank(bull) > StatusRank(bear) THEN bull
                           ELSE IF StatusRank(bear) > StatusRank(bull) THEN bear
                           ELSE Choose(bull, bear)
  BY <1>1 DEF Choose
<1> QED
  BY <1>1, <1>2, ChooseIsABranch

\* A verdict is that of an evaluation of the chart as it is.
Screened ==
  verdict # NoVerdict =>
    \E in : /\ in.bars = chart.bars /\ in.older = chart.older
            /\ branches.bullish =
                 EvaluateBranch(in, "bullish", Analyses(in.bars, in.ind).bullish)
            /\ branches.bearish =
                 EvaluateBranch(in, "bearish", Analyses(in.bars, in.ind).bearish)
            /\ verdict = Choose(branches.bullish, branches.bearish)

\* An evaluation establishes Screened.
LEMMA EvaluateScreens ==
  ASSUME NEW macro, NEW earnings, NEW options,
         Evaluate(Input(macro, earnings, options),
                  Analyses(chart.bars, Indicators(chart)))
  PROVE  Screened'
<1> DEFINE in == Input(macro, earnings, options)
<1>1. /\ in.bars = chart.bars /\ in.older = chart.older
      /\ in.ind = Indicators(chart) /\ chart' = chart
  BY DEF Input, Evaluate
<1> HIDE DEF in
<1>2. /\ branches'.bullish =
           EvaluateBranch(in, "bullish", Analyses(in.bars, in.ind).bullish)
      /\ branches'.bearish =
           EvaluateBranch(in, "bearish", Analyses(in.bars, in.ind).bearish)
      /\ verdict' = Choose(branches'.bullish, branches'.bearish)
  BY <1>1 DEF in, Evaluate
<1> QED
  BY <1>1, <1>2 DEF Screened

\* Screened is inductive: a new bar clears the verdict.
LEMMA ScreenedStep ==
  ASSUME Screened, [ScreenNext]_screenVars
  PROVE  Screened'
<1>1. ASSUME NextDay \/ BarForms PROVE Screened'
  BY <1>1 DEF NextDay, BarForms, Screened
<1> DEFINE analyses == Analyses(chart.bars, Indicators(chart))
<1>2. ASSUME DailyScan(analyses) \/ RunPipeline(analyses) \/ Backtest(analyses)
             \/ DryScan(analyses) \/ Assess(analyses)
      PROVE  Screened'
  BY <1>2, EvaluateScreens DEF DailyScan, RunPipeline, Backtest, DryScan, Assess
<1>3. CASE UNCHANGED screenVars
  BY <1>3 DEF screenVars, Screened
<1> QED
  BY <1>1, <1>2, <1>3 DEF ScreenNext

\* So Screened always holds.
LEMMA ScreenedCorrect == ScreenSpec => []Screened
<1>1. ScreenInit => Screened
  BY DEF ScreenInit, Screened
<1>2. Screened /\ [ScreenNext]_screenVars => Screened'
  BY ScreenedStep
<1> QED
  BY <1>1, <1>2, PTL DEF ScreenSpec

\* VerdictExplained follows from Screened.
LEMMA ScreenedIsExplained == Screened => VerdictExplained
<1> SUFFICES ASSUME Screened, verdict # NoVerdict PROVE VerdictExplained
  BY DEF VerdictExplained
<1>1. PICK in : /\ branches.bullish =
                     EvaluateBranch(in, "bullish", Analyses(in.bars, in.ind).bullish)
                /\ branches.bearish =
                     EvaluateBranch(in, "bearish", Analyses(in.bars, in.ind).bearish)
                /\ verdict = Choose(branches.bullish, branches.bearish)
  BY DEF Screened
<1>2. /\ BranchExplained(branches.bullish, "bullish")
      /\ BranchExplained(branches.bearish, "bearish")
  BY <1>1, DetectedIsDecided, EveryBranchIsExplained
<1>3. \A d \in Directions : StatusRank(branches[d]) <= StatusRank(verdict)
  BY <1>1, <1>2, ChooseTakesTheBetter DEF BranchExplained, Directions
<1>4. PICK d \in Directions : verdict = branches[d] /\ BranchExplained(verdict, d)
  BY <1>1, <1>2, ChooseIsABranch DEF Directions
<1>5. verdict.score > 0 => StatusRank(verdict) >= 2
  BY <1>4 DEF BranchExplained, StatusRank
<1> QED
  BY <1>3, <1>4, <1>5 DEF BranchExplained, VerdictExplained

\* What a scan reports is the better branch, and it names the gate that stopped it,
\* whatever the chart, the market and the option data are.
THEOREM VerdictIsExplained == ScreenSpec => []VerdictExplained
BY ScreenedCorrect, ScreenedIsExplained, PTL

-------------------------------------------------------------------------------
(* What the detectors find.                                                *)

\* Every quality is between 0 and 95 points, whatever the conditions give.
LEMMA QualitiesAreRanked ==
  /\ \A q \in Nat : Capped(q) \in 0..95
  /\ \A bars, s, base, gain, given :
       FlagQuality(bars, s, base, gain, given) \in 0..95
  /\ \A bars, from, top, bottom, flat, sloped :
       TriangleQuality(bars, from, top, bottom, flat, sloped) \in 0..95
  /\ \A bars, length, high, low, ind :
       BaseQuality(bars, length, high, low, ind) \in 0..95
  /\ \A bars, i, level, through, clear :
       RetestQuality(bars, i, level, through, clear) \in 0..95
<1>1. \A c : /\ Points(c, 5) \in Nat /\ Points(c, 8) \in Nat
             /\ Points(c, 10) \in Nat /\ Points(c, 15) \in Nat
  BY DEF Points
<1>2. ASSUME NEW q \in Nat PROVE Capped(q) \in 0..95
  BY MinOfTwo DEF Capped
<1>3. ASSUME NEW bars, NEW s, NEW base, NEW gain, NEW given
      PROVE  FlagQuality(bars, s, base, gain, given) \in 0..95
  <2> DEFINE quiet == Points(QuieterThan(bars, FlagStart(bars, s), Len(bars) - 1, 70,
                                         PoleStart(bars, s), FlagStart(bars, s) - 1), 15)
             shallow == IF 10 * given < 3 * gain THEN 15
                        ELSE Points(5 * given < 2 * gain, 8)
             strong == IF 10 * gain >= base THEN 10
                       ELSE Points(100 * gain >= 7 * base, 5)
             surge == Points(Surge(bars, 20), 10)
  <2>1. quiet \in Nat /\ surge \in Nat
    BY <1>1, Zenon
  <2>2. /\ Points(5 * given < 2 * gain, 8) \in Nat
        /\ Points(100 * gain >= 7 * base, 5) \in Nat
    BY <1>1, Zenon
  <2>3. shallow \in Nat /\ strong \in Nat
    BY <2>2
  <2>4. FlagQuality(bars, s, base, gain, given)
          = Capped(50 + quiet + shallow + strong + surge)
    BY DEF FlagQuality
  <2> HIDE DEF quiet, shallow, strong, surge
  <2> QED
    BY <1>2, <2>1, <2>3, <2>4
<1>4. ASSUME NEW bars, NEW from, NEW top, NEW bottom, NEW flat, NEW sloped
      PROVE  TriangleQuality(bars, from, top, bottom, flat, sloped) \in 0..95
  <2> DEFINE half == from + (Len(bars) - from) \div 2
             quiet == Points(QuieterThan(bars, half, Len(bars) - 1, 100,
                                         from, half - 1), 15)
             level == Points(200 * (top - bottom) < bottom, 10)
             flats == Points(Cardinality(flat) >= 3, 5)
             slopes == Points(Cardinality(sloped) >= 3, 5)
             surge == Points(Surge(bars, 15), 10)
  <2>1. /\ quiet \in Nat /\ level \in Nat /\ flats \in Nat /\ slopes \in Nat
        /\ surge \in Nat
    BY <1>1, Zenon
  <2>2. TriangleQuality(bars, from, top, bottom, flat, sloped)
          = Capped(55 + quiet + level + flats + slopes + surge)
    BY DEF TriangleQuality
  <2> HIDE DEF quiet, level, flats, slopes, surge
  <2> QED
    BY <1>2, <2>1, <2>2
<1>5. ASSUME NEW bars, NEW length, NEW high, NEW low, NEW ind
      PROVE  BaseQuality(bars, length, high, low, ind) \in 0..95
  BY <1>1, <1>2 DEF BaseQuality
<1>6. ASSUME NEW bars, NEW i, NEW level, NEW through, NEW clear
      PROVE  RetestQuality(bars, i, level, through, clear) \in 0..95
  <2> DEFINE quiet == Points(/\ MonthVolume(bars) > 0
                             /\ QuieterThan(bars, i + 1, Len(bars) - 1, 80,
                                            MonthStart(bars), Len(bars)), 10)
             near == Points(100 * through < level, 8)
             close == IF 200 * through < level THEN 15 ELSE near
             off == Points(200 * clear >= level, 10)
             surge == Points(Surge(bars, 13), 10)
  <2>1. quiet \in Nat /\ near \in Nat /\ off \in Nat /\ surge \in Nat
    BY <1>1, Zenon
  <2>2. RetestQuality(bars, i, level, through, clear)
          = Capped(55 + quiet + close + off + surge)
    BY DEF RetestQuality
  <2> HIDE DEF quiet, near, off, surge
  <2>3. close \in Nat
    BY <2>1
  <2> HIDE DEF close
  <2> QED
    BY <1>2, <2>1, <2>2, <2>3
<1> QED
  BY <1>2, <1>3, <1>4, <1>5, <1>6

\* BestOf chooses one of what was found.
LEMMA BestIsFound ==
  ASSUME NEW found, found # {},
         \A p \in found : p.quality \in 0..95 /\ p.order \in Nat
  PROVE  BestOf(found) \in found
<1> DEFINE qualities == {p.quality : p \in found}
           quality == Max(qualities)
           best == {p \in found : p.quality = quality}
           orders == {p.order : p \in best}
<1>1. quality \in qualities
  <2>1. qualities \in SUBSET Nat /\ qualities # {} /\ \A q \in qualities : q <= 95
    OBVIOUS
  <2> QED
    BY <2>1, MaxOfBounded
<1> HIDE DEF quality
<1>2. best # {}
  BY <1>1
<1>3. \E p \in best : \A q \in best : p.order <= q.order
  <2>1. orders \in SUBSET Nat /\ orders # {}
    BY <1>2
  <2>2. PICK o \in orders : \A u \in orders : o <= u
    BY <2>1, NaturalsHaveMin
  <2>3. PICK p \in best : p.order = o
    OBVIOUS
  <2>4. \A q \in best : q.order \in orders
    OBVIOUS
  <2> QED
    BY <2>2, <2>3, <2>4
<1>4. BestOf(found) = CHOOSE p \in best : \A q \in best : p.order <= q.order
  BY DEF BestOf, quality
<1> QED
  BY <1>3, <1>4

Ranked(p) == p.quality \in 0..95 /\ p.order \in Nat

\* A formation that runs from bar "since" to yesterday, its level the best of it.
BrokeUp(bars, p) ==
  /\ p.since \in 1..(Len(bars) - 1)
  /\ \A i \in p.since..(Len(bars) - 1) : bars[Len(bars)].close > bars[i].high
  /\ p.breakout = 100 * HighestHigh(bars, p.since, Len(bars) - 1)

BrokeDown(bars, p) ==
  /\ p.since \in 1..(Len(bars) - 1)
  /\ \A i \in p.since..(Len(bars) - 1) : bars[Len(bars)].close < bars[i].low
  /\ p.breakout = 100 * LowestLow(bars, p.since, Len(bars) - 1)

\* A flag starts after the first bar and before today.
LEMMA FlagSpan ==
  ASSUME NEW bars, Len(bars) \in Nat, NEW s \in FlagShapes(bars)
  PROVE  /\ FlagStart(bars, s) \in 1..(Len(bars) - 1)
         /\ 1000 + 11 * s.flag + s.pole \in Nat
<1>1. s \in [flag : 3..8, pole : 5..10] /\ FlagStart(bars, s) >= 6
  BY DEF FlagShapes
<1>2. s.flag \in 3..8 /\ s.pole \in 5..10
  BY <1>1
<1>3. FlagStart(bars, s) = Len(bars) - s.flag
  BY DEF FlagStart
<1> DEFINE n == Len(bars)
           f == s.flag
           q == s.pole
           first == FlagStart(bars, s)
<1>4. n \in Nat /\ f \in 3..8 /\ q \in 5..10 /\ first >= 6 /\ first = n - f
  BY <1>1, <1>2, <1>3, Zenon
<1> HIDE DEF n, f, q, first
<1>5. first \in 1..(n - 1)
  BY <1>4
<1>6. 1000 + 11 * f + q \in Nat
  BY <1>4
<1> QED
  BY <1>5, <1>6, Zenon DEF n, f, q, first

\* A bull flag is a formation whose every high today's close is above.
LEMMA BullFlagsBrokeUp ==
  ASSUME NEW bars, Len(bars) \in Nat, NEW ind, NEW p \in BullFlags(bars, ind)
  PROVE  p.name = "bull_flag" /\ Ranked(p) /\ BrokeUp(bars, p)
<1> DEFINE n == Len(bars)
<1>1. PICK s \in FlagShapes(bars) :
        /\ \A i \in FlagStart(bars, s)..(n - 1) : bars[n].close > bars[i].high
        /\ p.name = "bull_flag"
        /\ p.since = FlagStart(bars, s)
        /\ p.breakout = 100 * HighestHigh(bars, FlagStart(bars, s), n - 1)
        /\ p.order = 1000 + 11 * s.flag + s.pole
        /\ \E base, gain, given : p.quality = FlagQuality(bars, s, base, gain, given)
  BY SMTT(40) DEF BullFlags
<1> QED
  BY <1>1, FlagSpan, QualitiesAreRanked DEF Ranked, BrokeUp

\* A bear flag mirrors it.
LEMMA BearFlagsBrokeDown ==
  ASSUME NEW bars, Len(bars) \in Nat, NEW ind, NEW p \in BearFlags(bars, ind)
  PROVE  p.name = "bear_flag" /\ Ranked(p) /\ BrokeDown(bars, p)
<1> DEFINE n == Len(bars)
<1>1. PICK s \in FlagShapes(bars) :
        /\ \A i \in FlagStart(bars, s)..(n - 1) : bars[n].close < bars[i].low
        /\ p.name = "bear_flag"
        /\ p.since = FlagStart(bars, s)
        /\ p.breakout = 100 * LowestLow(bars, FlagStart(bars, s), n - 1)
        /\ p.order = 1000 + 11 * s.flag + s.pole
        /\ \E base, drop, given : p.quality = FlagQuality(bars, s, base, drop, given)
  BY SMTT(40) DEF BearFlags
<1> QED
  BY <1>1, FlagSpan, QualitiesAreRanked DEF Ranked, BrokeDown

\* A base starts after the first bar and before today.
LEMMA BaseSpan ==
  ASSUME NEW bars, Len(bars) \in Nat, NEW k \in BaseLengths(bars)
  PROVE  /\ k \in Nat /\ k < Len(bars)
         /\ Len(bars) - k \in 1..(Len(bars) - 1)
         /\ 3000 + k \in Nat
<1>1. Min({40, Len(bars) - 1}) <= Len(bars) - 1 /\ Min({40, Len(bars) - 1}) \in Int
  <2>1. 40 \in Int /\ Len(bars) - 1 \in Int
    OBVIOUS
  <2> DEFINE yesterday == Len(bars) - 1
  <2>2. /\ Min({40, yesterday}) \in {40, yesterday}
        /\ Min({40, yesterday}) <= yesterday
    BY <2>1, MinOfTwo
  <2> QED
    BY <2>1, <2>2
<1>2. k \in 15..Min({40, Len(bars) - 1})
  BY DEF BaseLengths
<1> QED
  BY <1>1, <1>2

\* A base breakout closes above every high of the base.
LEMMA BaseBreakoutsBrokeUp ==
  ASSUME NEW bars, Len(bars) \in Nat, NEW ind, NEW p \in BaseBreakouts(bars, ind)
  PROVE  /\ p.name = "base_breakout" /\ Ranked(p) /\ BrokeUp(bars, p)
<1> DEFINE n == Len(bars)
<1>1. PICK k \in BaseLengths(bars) :
        /\ \A i \in (n - k)..(n - 1) : bars[n].close > bars[i].high
        /\ p.name = "base_breakout"
        /\ p.since = n - k
        /\ p.breakout = 100 * HighestHigh(bars, n - k, n - 1)
        /\ p.order = 3000 + k
        /\ \E high, low : p.quality = BaseQuality(bars, k, high, low, ind)
  BY DEF BaseBreakouts
<1> QED
  BY <1>1, BaseSpan, QualitiesAreRanked DEF Ranked, BrokeUp

\* A base breakdown mirrors it.
LEMMA BaseBreakdownsBrokeDown ==
  ASSUME NEW bars, Len(bars) \in Nat, NEW ind, NEW p \in BaseBreakdowns(bars, ind)
  PROVE  p.name = "base_breakdown" /\ Ranked(p) /\ BrokeDown(bars, p)
<1> DEFINE n == Len(bars)
<1>1. PICK k \in BaseLengths(bars) :
        /\ \A i \in (n - k)..(n - 1) : bars[n].close < bars[i].low
        /\ p.name = "base_breakdown"
        /\ p.since = n - k
        /\ p.breakout = 100 * LowestLow(bars, n - k, n - 1)
        /\ p.order = 3000 + k
        /\ \E high, low : p.quality = BaseQuality(bars, k, high, low, ind)
  BY DEF BaseBreakdowns
<1> QED
  BY <1>1, BaseSpan, QualitiesAreRanked DEF Ranked, BrokeDown

\* The prices of a chart's bars.
LEMMA BarTypes ==
  ASSUME NEW bars \in Seq(Bars)
  PROVE  /\ Len(bars) \in Nat
         /\ \A i \in 1..Len(bars) :
              /\ bars[i].high \in Nat /\ bars[i].low \in Nat /\ bars[i].close \in Nat
              /\ bars[i].low <= bars[i].high
<1>1. Len(bars) \in Nat /\ \A i \in 1..Len(bars) : bars[i] \in Bars
  OBVIOUS
<1>2. \A b \in Bars : /\ b.high \in Nat /\ b.low \in Nat /\ b.close \in Nat
                      /\ b.low <= b.high
  BY DEF Bars
<1> QED
  BY <1>1, <1>2

\* The extrema of some bars are among their prices.
LEMMA ExtremaOfBars ==
  ASSUME NEW bars \in Seq(Bars), NEW T \in SUBSET (1..Len(bars)), T # {}
  PROVE  LET highs == {bars[i].high : i \in T}
             lows  == {bars[i].low : i \in T}
         IN /\ Max(highs) \in highs /\ Max(highs) \in Nat
            /\ Min(highs) \in highs /\ Min(highs) \in Nat
            /\ Max(lows) \in lows /\ Max(lows) \in Nat
            /\ Min(lows) \in lows /\ Min(lows) \in Nat
<1> DEFINE n == Len(bars)
           highs == {bars[i].high : i \in T}
           lows  == {bars[i].low : i \in T}
           high == [i \in 1..n |-> bars[i].high]
           low == [i \in 1..n |-> bars[i].low]
<1>1. /\ n \in Nat
      /\ \A i \in 1..n : bars[i].high \in Nat /\ bars[i].low \in Nat
  BY BarTypes
<1>2. PICK top \in Nat : \A i \in 1..n : high[i] <= top
  <2>1. \A i \in 1..n : high[i] \in Nat
    BY <1>1
  <2> HIDE DEF high, n
  <2> QED
    BY <1>1, <2>1, IntervalIsBounded
<1>3. PICK floor \in Nat : \A i \in 1..n : low[i] <= floor
  <2>1. \A i \in 1..n : low[i] \in Nat
    BY <1>1
  <2> HIDE DEF low, n
  <2> QED
    BY <1>1, <2>1, IntervalIsBounded
<1>4. /\ highs \in SUBSET Nat /\ highs # {} /\ \A y \in highs : y <= top
      /\ lows \in SUBSET Nat /\ lows # {} /\ \A y \in lows : y <= floor
  BY <1>1, <1>2, <1>3
<1> HIDE DEF highs, lows
<1>5. Max(highs) \in highs /\ Min(highs) \in highs
  BY <1>4, MaxOfBounded, MinOfNaturals
<1>6. Max(lows) \in lows /\ Min(lows) \in lows
  BY <1>4, MaxOfBounded, MinOfNaturals
<1>7. /\ Max(highs) \in highs /\ Max(highs) \in Nat
      /\ Min(highs) \in highs /\ Min(highs) \in Nat
      /\ Max(lows) \in lows /\ Max(lows) \in Nat
      /\ Min(lows) \in lows /\ Min(lows) \in Nat
  BY <1>4, <1>5, <1>6
<1> QED
  BY <1>7 DEF highs, lows

\* Swings lie inside the window.
LEMMA SwingSpan ==
  ASSUME NEW bars, NEW from, NEW to \in Int, from \in Int, from >= 1
  PROVE  /\ SwingHighs(bars, from, to) \subseteq 1..(to - 1)
         /\ SwingLows(bars, from, to) \subseteq 1..(to - 1)
BY DEF SwingHighs, SwingLows

\* What has two members is not empty.
LEMMA TwoAreSome ==
  ASSUME NEW S, Cardinality(S) >= 2
  PROVE  S # {}
<1> SUFFICES ASSUME S = {} PROVE FALSE
  OBVIOUS
<1>1. Cardinality(S) = 0
  BY FS_EmptySet, Zenon
<1> QED
  BY <1>1

\* A triangle's length is a natural number.
LEMMA TriangleSpan ==
  ASSUME NEW n \in Nat
  PROVE  /\ Min({30, n - 1}) \in Int
         /\ Max({1, n - 30}) \in Int /\ Max({1, n - 30}) >= 1
<1> DEFINE m == n - 1
           f == n - 30
<1>1. m \in Int /\ f \in Int /\ 1 \in Int /\ 30 \in Int
  OBVIOUS
<1> HIDE DEF m, f
<1>2. Min({30, m}) \in {30, m}
  BY <1>1, MinOfTwo
<1>3. Max({1, f}) \in {1, f} /\ Max({1, f}) >= 1
  BY <1>1, MaxOfTwo
<1>4. Min({30, m}) \in Int /\ Max({1, f}) \in Int
  BY <1>1, <1>2, <1>3
<1> QED
  BY <1>3, <1>4 DEF m, f

\* The swings of a triangle are bars of the chart.
LEMMA SwingsInside ==
  ASSUME NEW bars, Len(bars) \in Nat
  PROVE  LET from == Max({1, Len(bars) - 30})
             to == Len(bars) - 1
         IN /\ SwingHighs(bars, from, to) \subseteq 1..Len(bars)
            /\ SwingLows(bars, from, to) \subseteq 1..Len(bars)
<1> DEFINE from == Max({1, Len(bars) - 30})
           to == Len(bars) - 1
<1>1. from \in Int /\ from >= 1
  BY TriangleSpan
<1>2. to \in Int /\ 1..(to - 1) \subseteq 1..Len(bars)
  OBVIOUS
<1> HIDE DEF from, to
<1>3. /\ SwingHighs(bars, from, to) \subseteq 1..Len(bars)
      /\ SwingLows(bars, from, to) \subseteq 1..Len(bars)
  BY <1>1, <1>2, SwingSpan
<1> QED
  BY <1>3 DEF from, to

\* A triangle's level is between the flat swings, and today closed beyond it.
LEMMA AscendingTrianglesClosedAbove ==
  ASSUME NEW bars \in Seq(Bars), NEW p \in AscendingTriangles(bars)
  PROVE  /\ p.name = "ascending_triangle" /\ Ranked(p)
         /\ p.breakout \in Int /\ 100 * bars[Len(bars)].close > p.breakout
<1> DEFINE n == Len(bars)
           AllHighs == SwingHighs(bars, Max({1, n - 30}), n - 1)
           AllLows  == SwingLows(bars, Max({1, n - 30}), n - 1)
           Highs(k) == {i \in AllHighs : i > n - k}
           Lows(k)  == {i \in AllLows : i > n - k}
           Top(k) == Max({bars[i].high : i \in Highs(k)})
           Bottom(k) == Min({bars[i].high : i \in Highs(k)})
<1>1. n \in Nat
  OBVIOUS
<1> DEFINE Spans ==
             {k \in 10..Min({30, n - 1}) :
                /\ Cardinality(Highs(k)) >= 2
                /\ Bottom(k) > 0
                /\ 1000 * (Top(k) - Bottom(k)) <= 15 * Bottom(k)
                /\ 2 * bars[n].close > Top(k) + Bottom(k)
                /\ Cardinality(Lows(k)) >= 2
                /\ \A i, j \in Lows(k) : i < j => bars[i].low < bars[j].low}
           Pattern(k) ==
             [name |-> "ascending_triangle",
              quality |-> TriangleQuality(bars, n - k, Top(k), Bottom(k),
                                          Highs(k), Lows(k)),
              breakout |-> 50 * (Top(k) + Bottom(k)),
              void |-> 100 * bars[Max(Lows(k))].low,
              since |-> n - k,
              order |-> 2000 + k]
<1>2. AscendingTriangles(bars)
        = {Pattern(k) : k \in IF n >= 15 /\ VolumeConfirms(bars, 12) THEN Spans ELSE {}}
  BY DEF AscendingTriangles
<1>3. PICK k \in Spans : n >= 15 /\ p = Pattern(k)
  <2> HIDE DEF Pattern, Spans
  <2> QED
    BY <1>2
<1>4. /\ k \in 10..Min({30, n - 1})
      /\ Cardinality(Highs(k)) >= 2
      /\ 2 * bars[n].close > Top(k) + Bottom(k)
  <2> HIDE DEF Highs, Top, Bottom, Lows
  <2> QED
    BY <1>3
<1> DEFINE highs == Highs(k)
           top == Top(k)
           bottom == Bottom(k)
           quality == TriangleQuality(bars, n - k, top, bottom, highs, Lows(k))
<1>5. /\ p.name = "ascending_triangle" /\ p.breakout = 50 * (top + bottom)
      /\ p.order = 2000 + k /\ p.quality = quality
  BY <1>3
<1>6. k \in Nat
  BY <1>1, <1>4, TriangleSpan
<1>7. highs # {} /\ highs \subseteq 1..n
  <2>1. AllHighs \subseteq 1..n
    BY <1>1, SwingsInside
  <2>2. highs \subseteq AllHighs
    OBVIOUS
  <2>3. highs # {}
    BY <1>4, TwoAreSome, Zenon
  <2> QED
    BY <2>1, <2>2, <2>3
<1>8. top \in Nat /\ bottom \in Nat
  <2> HIDE DEF highs
  <2> QED
    BY <1>7, ExtremaOfBars DEF highs
<1>9. bars[n].close \in Nat /\ 2 * bars[n].close > top + bottom
  BY <1>1, <1>4, <1>3, BarTypes
<1>10. quality \in 0..95
  BY QualitiesAreRanked
<1> HIDE DEF top, bottom, quality, highs
<1>11. Ranked(p)
  BY <1>5, <1>6, <1>10 DEF Ranked
<1>12. p.breakout \in Int /\ 100 * bars[n].close > p.breakout
  <2>1. 50 * (top + bottom) \in Int /\ 100 * bars[n].close > 50 * (top + bottom)
    BY <1>8, <1>9
  <2> QED
    BY <1>5, <2>1
<1> QED
  BY <1>5, <1>11, <1>12

\* A descending triangle mirrors it.
LEMMA DescendingTrianglesClosedBelow ==
  ASSUME NEW bars \in Seq(Bars), NEW p \in DescendingTriangles(bars)
  PROVE  /\ p.name = "descending_triangle" /\ Ranked(p)
         /\ p.breakout \in Int /\ 100 * bars[Len(bars)].close < p.breakout
<1> DEFINE n == Len(bars)
           AllHighs == SwingHighs(bars, Max({1, n - 30}), n - 1)
           AllLows  == SwingLows(bars, Max({1, n - 30}), n - 1)
           Highs(k) == {i \in AllHighs : i > n - k}
           Lows(k)  == {i \in AllLows : i > n - k}
           Top(k) == Max({bars[i].low : i \in Lows(k)})
           Bottom(k) == Min({bars[i].low : i \in Lows(k)})
<1>1. n \in Nat
  OBVIOUS
<1> DEFINE Spans ==
             {k \in 10..Min({30, n - 1}) :
                /\ Cardinality(Lows(k)) >= 2
                /\ Bottom(k) > 0
                /\ 1000 * (Top(k) - Bottom(k)) <= 15 * Bottom(k)
                /\ 2 * bars[n].close < Top(k) + Bottom(k)
                /\ Cardinality(Highs(k)) >= 2
                /\ \A i, j \in Highs(k) : i < j => bars[i].high > bars[j].high}
           Pattern(k) ==
             [name |-> "descending_triangle",
              quality |-> TriangleQuality(bars, n - k, Top(k), Bottom(k),
                                          Lows(k), Highs(k)),
              breakout |-> 50 * (Top(k) + Bottom(k)),
              void |-> 100 * bars[Max(Highs(k))].high,
              since |-> n - k,
              order |-> 2000 + k]
<1>2. DescendingTriangles(bars)
        = {Pattern(k) : k \in IF n >= 15 /\ VolumeConfirms(bars, 12) THEN Spans ELSE {}}
  BY DEF DescendingTriangles
<1>3. PICK k \in Spans : n >= 15 /\ p = Pattern(k)
  <2> HIDE DEF Pattern, Spans
  <2> QED
    BY <1>2
<1>4. /\ k \in 10..Min({30, n - 1})
      /\ Cardinality(Lows(k)) >= 2
      /\ 2 * bars[n].close < Top(k) + Bottom(k)
  <2> HIDE DEF Highs, Top, Bottom, Lows
  <2> QED
    BY <1>3
<1> DEFINE lows == Lows(k)
           top == Top(k)
           bottom == Bottom(k)
           quality == TriangleQuality(bars, n - k, top, bottom, lows, Highs(k))
<1>5. /\ p.name = "descending_triangle" /\ p.breakout = 50 * (top + bottom)
      /\ p.order = 2000 + k /\ p.quality = quality
  BY <1>3
<1>6. k \in Nat
  BY <1>1, <1>4, TriangleSpan
<1>7. lows # {} /\ lows \subseteq 1..n
  <2>1. AllLows \subseteq 1..n
    BY <1>1, SwingsInside
  <2>2. lows \subseteq AllLows
    OBVIOUS
  <2>3. lows # {}
    BY <1>4, TwoAreSome, Zenon
  <2> QED
    BY <2>1, <2>2, <2>3
<1>8. top \in Nat /\ bottom \in Nat
  <2> HIDE DEF lows
  <2> QED
    BY <1>7, ExtremaOfBars DEF lows
<1>9. bars[n].close \in Nat /\ 2 * bars[n].close < top + bottom
  BY <1>1, <1>4, <1>3, BarTypes
<1>10. quality \in 0..95
  BY QualitiesAreRanked
<1> HIDE DEF top, bottom, quality, lows
<1>11. Ranked(p)
  BY <1>5, <1>6, <1>10 DEF Ranked
<1>12. p.breakout \in Int /\ 100 * bars[n].close < p.breakout
  <2>1. 50 * (top + bottom) \in Int /\ 100 * bars[n].close < 50 * (top + bottom)
    BY <1>8, <1>9
  <2> QED
    BY <1>5, <2>1
<1> QED
  BY <1>5, <1>11, <1>12

\* A retest's level is the swing at bar "since", and nothing has closed yet.
LEMMA RetestSpan ==
  ASSUME NEW bars, Len(bars) \in Nat, Len(bars) >= 15
  PROVE  /\ SwingHighs(bars, RetestFrom(bars), Len(bars) - 5) \subseteq 1..(Len(bars) - 1)
         /\ SwingLows(bars, RetestFrom(bars), Len(bars) - 5) \subseteq 1..(Len(bars) - 1)
<1> DEFINE from == RetestFrom(bars)
           to == Len(bars) - 5
           far == Len(bars) - 39
<1>1. from \in Int /\ from >= 1
  <2>1. far \in Int /\ 1 \in Int
    OBVIOUS
  <2>2. from = Max({1, far})
    BY DEF RetestFrom
  <2> HIDE DEF far, from
  <2>3. Max({1, far}) \in {1, far} /\ Max({1, far}) >= 1
    BY <2>1, MaxOfTwo
  <2> QED
    BY <2>1, <2>2, <2>3
<1>2. to \in Int /\ 1..(to - 1) \subseteq 1..(Len(bars) - 1)
  OBVIOUS
<1> HIDE DEF from, to
<1>3. /\ SwingHighs(bars, from, to) \subseteq 1..(Len(bars) - 1)
      /\ SwingLows(bars, from, to) \subseteq 1..(Len(bars) - 1)
  BY <1>1, <1>2, SwingSpan
<1> QED
  BY <1>3 DEF from, to

\* A bullish retest is of a swing high before today.
LEMMA BullishRetestsAtASwing ==
  ASSUME NEW bars, Len(bars) \in Nat, NEW p \in BullishRetests(bars)
  PROVE  /\ p.name = "support_resistance_retest" /\ Ranked(p)
         /\ p.since \in 1..(Len(bars) - 1) /\ p.breakout = 100 * bars[p.since].high
<1>1. PICK i \in SwingHighs(bars, RetestFrom(bars), Len(bars) - 5) :
        /\ Len(bars) >= 15
        /\ p.name = "support_resistance_retest"
        /\ p.since = i
        /\ p.breakout = 100 * bars[i].high
        /\ p.order = 4000 + i
        /\ \E level, through, clear :
             p.quality = RetestQuality(bars, i, level, through, clear)
  BY DEF BullishRetests
<1>2. i \in 1..(Len(bars) - 1)
  BY <1>1, RetestSpan
<1> QED
  BY <1>1, <1>2, QualitiesAreRanked DEF Ranked

\* A bearish retest is of a swing low before today.
LEMMA BearishRetestsAtASwing ==
  ASSUME NEW bars, Len(bars) \in Nat, NEW p \in BearishRetests(bars)
  PROVE  /\ p.name = "support_resistance_retest" /\ Ranked(p)
         /\ p.since \in 1..(Len(bars) - 1) /\ p.breakout = 100 * bars[p.since].low
<1>1. PICK i \in SwingLows(bars, RetestFrom(bars), Len(bars) - 5) :
        /\ Len(bars) >= 15
        /\ p.name = "support_resistance_retest"
        /\ p.since = i
        /\ p.breakout = 100 * bars[i].low
        /\ p.order = 4000 + i
        /\ \E level, through, clear :
             p.quality = RetestQuality(bars, i, level, through, clear)
  BY DEF BearishRetests
<1>2. i \in 1..(Len(bars) - 1)
  BY <1>1, RetestSpan
<1> QED
  BY <1>1, <1>2, QualitiesAreRanked DEF Ranked

-------------------------------------------------------------------------------
(* One direction's best pattern.                                          *)

\* What a pattern of one direction says about the bars.
PointsUp(bars, p) ==
  \/ p.name \in {"bull_flag", "base_breakout"} /\ BrokeUp(bars, p)
  \/ /\ p.name = "ascending_triangle"
     /\ p.breakout \in Int /\ 100 * bars[Len(bars)].close > p.breakout
  \/ /\ p.name = "support_resistance_retest"
     /\ p.since \in 1..(Len(bars) - 1) /\ p.breakout = 100 * bars[p.since].high

PointsDown(bars, p) ==
  \/ p.name \in {"bear_flag", "base_breakdown"} /\ BrokeDown(bars, p)
  \/ /\ p.name = "descending_triangle"
     /\ p.breakout \in Int /\ 100 * bars[Len(bars)].close < p.breakout
  \/ /\ p.name = "support_resistance_retest"
     /\ p.since \in 1..(Len(bars) - 1) /\ p.breakout = 100 * bars[p.since].low

\* Each bullish detector finds what PointsUp says.
LEMMA BullishPatternsPointUp ==
  ASSUME NEW bars \in Seq(Bars), NEW ind, NEW p \in Found(bars, ind, "bullish")
  PROVE  Ranked(p) /\ PointsUp(bars, p)
<1>1. Len(bars) \in Nat
  OBVIOUS
<1>2. \/ p \in BullFlags(bars, ind) \/ p \in AscendingTriangles(bars)
      \/ p \in BaseBreakouts(bars, ind) \/ p \in BullishRetests(bars)
  BY DEF Found
<1>3. CASE p \in BullFlags(bars, ind)
  BY <1>1, <1>3, BullFlagsBrokeUp, Zenon DEF PointsUp
<1>4. CASE p \in AscendingTriangles(bars)
  BY <1>4, AscendingTrianglesClosedAbove, Zenon DEF PointsUp
<1>5. CASE p \in BaseBreakouts(bars, ind)
  BY <1>1, <1>5, BaseBreakoutsBrokeUp, Zenon DEF PointsUp
<1>6. CASE p \in BullishRetests(bars)
  BY <1>1, <1>6, BullishRetestsAtASwing, Zenon DEF PointsUp
<1> QED
  BY <1>2, <1>3, <1>4, <1>5, <1>6

\* Each bearish detector finds what PointsDown says.
LEMMA BearishPatternsPointDown ==
  ASSUME NEW bars \in Seq(Bars), NEW ind, NEW p \in Found(bars, ind, "bearish")
  PROVE  Ranked(p) /\ PointsDown(bars, p)
<1>1. Len(bars) \in Nat
  OBVIOUS
<1>2. \/ p \in BearFlags(bars, ind) \/ p \in DescendingTriangles(bars)
      \/ p \in BaseBreakdowns(bars, ind) \/ p \in BearishRetests(bars)
  BY DEF Found
<1>3. CASE p \in BearFlags(bars, ind)
  BY <1>1, <1>3, BearFlagsBrokeDown, Zenon DEF PointsDown
<1>4. CASE p \in DescendingTriangles(bars)
  BY <1>4, DescendingTrianglesClosedBelow, Zenon DEF PointsDown
<1>5. CASE p \in BaseBreakdowns(bars, ind)
  BY <1>1, <1>5, BaseBreakdownsBrokeDown, Zenon DEF PointsDown
<1>6. CASE p \in BearishRetests(bars)
  BY <1>1, <1>6, BearishRetestsAtASwing, Zenon DEF PointsDown
<1> QED
  BY <1>2, <1>3, <1>4, <1>5, <1>6

\* The best pattern of one direction: one of its patterns, or none, and then it
\* is not detected.
LEMMA BestOfOneDirection ==
  ASSUME NEW bars \in Seq(Bars), NEW ind, NEW d \in Directions
  PROVE  LET analysis == Analyses(bars, ind)[d]
         IN \/ analysis.best = NoPattern /\ ~analysis.detected
            \/ analysis.best \in Found(bars, ind, d)
<1> DEFINE found == Found(bars, ind, d)
           best == BestOf(found)
<1>1. \/ Analyses(bars, ind)[d] = NoAnalysis
      \/ Analyses(bars, ind)[d] = AnalyzePatterns(bars, ind, d)
  BY DEF Analyses, Directions
<1>2. AnalyzePatterns(bars, ind, d)
        = [best |-> best, detected |-> best.quality >= MinQuality]
  BY DEF AnalyzePatterns
<1>3. \A p \in found : p.quality \in 0..95 /\ p.order \in Nat
  BY BullishPatternsPointUp, BearishPatternsPointDown DEF Directions, Ranked
<1>4. NoAnalysis.best = NoPattern /\ ~NoAnalysis.detected
  BY DEF NoAnalysis
<1> HIDE DEF found
<1>5. CASE found = {}
  <2>1. best = NoPattern
    BY <1>5 DEF BestOf
  <2>2. ~ (best.quality >= MinQuality)
    BY <2>1, PatternAssumption DEF NoPattern
  <2> HIDE DEF best
  <2>3. /\ AnalyzePatterns(bars, ind, d).best = best
        /\ AnalyzePatterns(bars, ind, d).detected = (best.quality >= MinQuality)
    BY <1>2
  <2> QED
    BY <1>1, <1>4, <2>1, <2>2, <2>3, Zenon
<1>6. CASE found # {}
  <2>1. best \in found
    BY <1>3, <1>6, BestIsFound
  <2> HIDE DEF best
  <2> QED
    BY <1>1, <1>2, <1>4, <2>1 DEF found
<1> QED
  BY <1>5, <1>6

\* A branch that passes its stock gates passed each of these.
LEMMA StockGatesPassed ==
  ASSUME NEW in, NEW d, NEW analysis, analysis.detected \in BOOLEAN,
         Failures(StockGates(in, d, analysis)) = {}
  PROVE  /\ RelativeStrength(in, d) /\ EMAStructure(in, d)
         /\ VolumeExpansion(in, d) /\ VolSqueeze(in, d)
<1> DEFINE vix == Gate("vix_regime", VIXRegime(in, d))
           market == Gate(IF d = "bullish" THEN "market_uptrend" ELSE "market_downtrend",
                          MarketDirection(in, d))
           earnings == Gate("no_earnings", NoEarnings(in, d))
           strength == Gate(IF d = "bullish" THEN "relative_strength"
                                             ELSE "relative_weakness",
                            RelativeStrength(in, d))
           ema == Gate(IF d = "bullish" THEN "ema_structure_bullish"
                                        ELSE "ema_structure_bearish",
                       EMAStructure(in, d))
           volume == Gate("volume_expansion", VolumeExpansion(in, d))
           squeeze == Gate("vol_squeeze", VolSqueeze(in, d))
           trigger == Gate(IF d = "bullish" THEN "breakout_trigger"
                                            ELSE "breakdown_trigger",
                           BreakoutTrigger(in, d))
           eight == <<vix, market, earnings, strength, ema, volume, squeeze, trigger>>
           last == IF PatternsEnabled /\ PatternRequired
                   THEN << Gate("pattern_required", analysis.detected) >> ELSE << >>
           stock == StockGates(in, d, analysis)
<1>1. stock = eight \o last
  BY DEF StockGates
<1>2. /\ strength.passed <=> RelativeStrength(in, d)
      /\ ema.passed <=> EMAStructure(in, d)
      /\ volume.passed <=> VolumeExpansion(in, d)
      /\ squeeze.passed <=> VolSqueeze(in, d)
  BY DEF Gate
<1> DEFINE all == {vix, market, earnings, strength, ema, volume, squeeze, trigger,
                   Gate("pattern_required", analysis.detected)}
<1>3. Failures(stock) = {}
  OBVIOUS
<1> HIDE DEF stock, vix, market, earnings, strength, ema, volume, squeeze, trigger
<1>4. /\ Len(eight) = 8 /\ Len(last) \in {0, 1}
      /\ eight[4] = strength /\ eight[5] = ema
      /\ eight[6] = volume /\ eight[7] = squeeze
  OBVIOUS
<1>5. /\ vix \in all /\ market \in all /\ earnings \in all /\ strength \in all
      /\ ema \in all /\ volume \in all /\ squeeze \in all /\ trigger \in all
      /\ Gate("pattern_required", analysis.detected) \in all
  OBVIOUS
<1> HIDE DEF all
<1>6. eight \in Seq(all)
  BY <1>5, EightInSeq
<1>7. last \in Seq(all)
  BY <1>5
<1> HIDE DEF eight, last
<1>8. ASSUME NEW k \in 1..8 PROVE k \in DOMAIN stock /\ stock[k] = eight[k]
  <2>1. /\ Len(eight \o last) = Len(eight) + Len(last)
        /\ \A i \in 1..Len(eight) + Len(last) :
             (eight \o last)[i] = IF i <= Len(eight) THEN eight[i]
                                  ELSE last[i - Len(eight)]
    BY <1>6, <1>7, ConcatProperties, Zenon
  <2>2. Len(last) \in Nat /\ Len(eight) = 8
    BY <1>4
  <2>3. k \in 1..Len(eight) + Len(last) /\ k <= Len(eight)
    BY <2>2
  <2>4. eight \o last \in Seq(all)
    BY <1>6, <1>7
  <2>5. DOMAIN (eight \o last) = 1..Len(eight \o last)
    BY <2>4
  <2> QED
    BY <1>1, <2>1, <2>3, <2>5
<1>9. \A i \in DOMAIN stock : stock[i].passed
  BY <1>3, Zenon DEF Failures
<1>10. strength.passed /\ ema.passed /\ volume.passed /\ squeeze.passed
  <2>1. 4 \in 1..8 /\ 5 \in 1..8 /\ 6 \in 1..8 /\ 7 \in 1..8
    OBVIOUS
  <2>2. eight[4].passed /\ eight[5].passed /\ eight[6].passed /\ eight[7].passed
    BY <1>8, <1>9, <2>1, Zenon
  <2> QED
    BY <1>4, <2>2, Zenon
<1> QED
  BY <1>2, <1>10, Zenon

\* Without the EMA structure of its direction a branch is rejected.
LEMMA FifthGate ==
  ASSUME NEW in, NEW d, NEW analysis, analysis.detected \in BOOLEAN,
         ~EMAStructure(in, d)
  PROVE  EvaluateBranch(in, d, analysis).status = "rejected"
<1>1. Failures(StockGates(in, d, analysis)) # {}
  BY StockGatesPassed
<1> QED
  BY <1>1 DEF EvaluateBranch

-------------------------------------------------------------------------------
(* The chart.                                                              *)

\* The chart is never empty and its bars are what a feed delivers.
ChartOK ==
  /\ chart.bars \in Seq(Bars) /\ chart.bars # << >>
  /\ chart.older \in Nat
  /\ {"bars", "older", "bbToday"} \subseteq DOMAIN chart

\* A new bar keeps the chart in order,
LEMMA ExtendedIsOK ==
  ASSUME ChartOK, NEW bar \in Bars, NEW bb, chart' = Extended(chart, bar, bb)
  PROVE  ChartOK'
<1> DEFINE kept == IF Len(chart.bars) = ChartBars THEN Tail(chart.bars) ELSE chart.bars
           next == chart.older + 1
           least == Min({next, 100})
<1>1. kept \in Seq(Bars)
  BY DEF ChartOK
<1>2. Append(kept, bar) \in Seq(Bars) /\ Append(kept, bar) # << >>
  <2> HIDE DEF kept
  <2>1. Append(kept, bar) \in Seq(Bars) /\ Len(Append(kept, bar)) = Len(kept) + 1
    BY <1>1, AppendProperties
  <2>2. Len(kept) \in Nat /\ Len(<< >>) = 0
    BY <1>1
  <2>3. Append(kept, bar) # << >>
    BY <2>1, <2>2
  <2> QED
    BY <2>1, <2>3
<1>3. least \in Nat
  <2>1. next \in Nat /\ 100 \in Nat
    BY DEF ChartOK
  <2> HIDE DEF next
  <2> QED
    BY <2>1, MinOfTwo
<1>4. /\ chart'.bars = Append(kept, bar)
      /\ chart'.older = IF Len(chart.bars) = ChartBars THEN least ELSE 0
      /\ {"bars", "older", "bbToday"} \subseteq DOMAIN chart'
  BY DEF Extended
<1> HIDE DEF kept, least
<1> QED
  BY <1>2, <1>3, <1>4 DEF ChartOK

\* and so does the bar of today that moves on.
LEMMA FormedIsOK ==
  ASSUME ChartOK, NEW bar \in Bars, NEW bb,
         chart' = [chart EXCEPT !.bars[Len(chart.bars)] = bar, !.bbToday = bb]
  PROVE  ChartOK'
<1>1. /\ chart'.bars = [chart.bars EXCEPT ![Len(chart.bars)] = bar]
      /\ chart'.older = chart.older
      /\ DOMAIN chart' = DOMAIN chart
  BY DEF ChartOK
<1>2. chart'.bars \in Seq(Bars) /\ chart'.bars # << >>
  BY <1>1 DEF ChartOK
<1> QED
  BY <1>1, <1>2 DEF ChartOK

\* ChartOK is inductive.
LEMMA ChartStaysOK ==
  ASSUME ChartOK, [ScreenNext]_screenVars
  PROVE  ChartOK'
<1>1. CASE NextDay
  <2>1. PICK d \in Days : chart' = Extended(chart, d.bar, d.bb)
    BY <1>1 DEF NextDay
  <2> QED
    BY <2>1, ExtendedIsOK, ScreenAssumption
<1>2. CASE BarForms
  <2>1. PICK d \in Days :
          chart' = [chart EXCEPT !.bars[Len(chart.bars)] = d.bar,
                                 !.bbToday = IF chart.older = 0 THEN -1 ELSE d.bb]
    BY <1>2 DEF BarForms
  <2> DEFINE bb == IF chart.older = 0 THEN -1 ELSE d.bb
  <2>2. d.bar \in Bars /\ chart' = [chart EXCEPT !.bars[Len(chart.bars)] = d.bar,
                                                !.bbToday = bb]
    BY <2>1, ScreenAssumption
  <2> HIDE DEF bb
  <2> QED
    BY <2>2, FormedIsOK
<1> DEFINE analyses == Analyses(chart.bars, Indicators(chart))
<1>3. ASSUME \/ DailyScan(analyses) \/ RunPipeline(analyses) \/ Backtest(analyses)
             \/ DryScan(analyses) \/ Assess(analyses) \/ UNCHANGED screenVars
      PROVE  UNCHANGED chart
  BY <1>3 DEF DailyScan, RunPipeline, Backtest, DryScan, Assess, Evaluate, screenVars
<1>4. ASSUME UNCHANGED chart PROVE ChartOK'
  BY <1>4 DEF ChartOK
<1> HIDE DEF analyses
<1>5. \/ NextDay \/ BarForms
      \/ DailyScan(analyses) \/ RunPipeline(analyses) \/ Backtest(analyses)
      \/ DryScan(analyses) \/ Assess(analyses) \/ UNCHANGED screenVars
  BY DEF ScreenNext, analyses
<1> QED
  BY <1>1, <1>2, <1>3, <1>4, <1>5

\* A ticker starts with a chart in order,
LEMMA ChartStartsOK ==
  ASSUME ScreenInit
  PROVE  ChartOK
<1>1. /\ chart \in [bars : Seq(Bars), older : Nat, ema20 : Nat, ema50 : Nat,
                    atr : Nat, bb : -1..Widths, bbToday : -1..Widths]
      /\ chart.bars # << >>
  BY ScreenAssumption DEF ScreenInit
<1> QED
  BY <1>1 DEF ChartOK

\* so ChartOK always holds.
LEMMA ChartIsOK == ScreenSpec => []ChartOK
<1>1. ScreenInit => ChartOK
  BY ChartStartsOK
<1>2. ChartOK /\ [ScreenNext]_screenVars => ChartOK'
  BY ChartStaysOK
<1> QED
  BY <1>1, <1>2, PTL DEF ScreenSpec

-------------------------------------------------------------------------------
(* The two directions exclude each other.                                  *)

\* The pattern and its state, whichever way evaluateBranch ends.
LEMMA BranchPattern ==
  ASSUME NEW in, NEW d, NEW analysis
  PROVE  LET r == EvaluateBranch(in, d, analysis)
         IN /\ r.pattern = analysis.best
            /\ r.patternState = IF ~analysis.detected THEN "no_pattern"
                                ELSE IF BreakoutTrigger(in, d)
                                THEN "pattern_breakout_confirmed" ELSE "pattern_forming"
<1> DEFINE stock == StockGates(in, d, analysis)
           all   == stock \o OptionGates(in)
           state == IF ~analysis.detected THEN "no_pattern"
                    ELSE IF BreakoutTrigger(in, d)
                    THEN "pattern_breakout_confirmed" ELSE "pattern_forming"
           Result(status, gates, score) ==
             [direction |-> d, status |-> status, gates |-> gates,
              allPass |-> status = "paper_trade_created", score |-> score,
              rejectGate |-> RejectGate(gates), pattern |-> analysis.best,
              patternState |-> state]
<1>1. \E status, gates, score :
        EvaluateBranch(in, d, analysis) = Result(status, gates, score)
  BY DEF EvaluateBranch
<1> HIDE DEF state
<1>2. /\ EvaluateBranch(in, d, analysis).pattern = analysis.best
      /\ EvaluateBranch(in, d, analysis).patternState = state
  BY <1>1
<1> QED
  BY <1>2 DEF state

\* Today's close is not above yesterday's high and below yesterday's low.
LEMMA OneSideOfYesterday ==
  ASSUME NEW bars \in Seq(Bars), NEW p, NEW q,
         PointsUp(bars, p), PointsDown(bars, q)
  PROVE  p.name \in TwoSided \/ q.name \in TwoSided
<1> SUFFICES ASSUME p.name \notin TwoSided, q.name \notin TwoSided
             PROVE  FALSE
  OBVIOUS
<1>1. BrokeUp(bars, p) /\ BrokeDown(bars, q)
  BY DEF PointsUp, PointsDown, TwoSided
<1> DEFINE n == Len(bars)
<1>2. n \in Nat /\ n - 1 \in 1..n /\ n \in 1..n
  BY <1>1 DEF BrokeUp
<1>3. bars[n].close > bars[n - 1].high
  BY <1>1, <1>2 DEF BrokeUp
<1>4. bars[n].close < bars[n - 1].low
  BY <1>1, <1>2 DEF BrokeDown
<1>5. /\ bars[n].close \in Nat /\ bars[n - 1].high \in Nat /\ bars[n - 1].low \in Nat
      /\ bars[n - 1].low <= bars[n - 1].high
  BY <1>2, BarTypes
<1> QED
  BY <1>3, <1>4, <1>5

\* OneWay follows: the average is above or below the other, not both.
LEMMA ScreenedIsOneWay == ChartOK /\ Screened => OneWay
<1> SUFFICES ASSUME ChartOK, Screened, verdict # NoVerdict PROVE OneWay
  BY DEF OneWay
<1>1. PICK in : /\ in.bars = chart.bars
                /\ branches.bullish =
                     EvaluateBranch(in, "bullish", Analyses(in.bars, in.ind).bullish)
                /\ branches.bearish =
                     EvaluateBranch(in, "bearish", Analyses(in.bars, in.ind).bearish)
  BY DEF Screened
<1> DEFINE analyses == Analyses(in.bars, in.ind)
<1>2. \E d \in Directions : branches[d].status = "rejected"
  <2>1. ~EMAStructure(in, "bullish") \/ ~EMAStructure(in, "bearish")
    BY DEF EMAStructure
  <2>2. branches.bullish.status = "rejected" \/ branches.bearish.status = "rejected"
    BY <1>1, <2>1, FifthGate, DetectedIsDecided
  <2> QED
    BY <2>2 DEF Directions
<1>3. \E d \in Directions : branches[d].pattern.name \in {"none"} \cup TwoSided
  <2> DEFINE bull == analyses.bullish.best
             bear == analyses.bearish.best
  <2>1. branches.bullish.pattern = bull /\ branches.bearish.pattern = bear
    BY <1>1, BranchPattern
  <2>2. in.bars \in Seq(Bars)
    BY <1>1 DEF ChartOK
  <2>3. /\ bull = NoPattern \/ bull \in Found(in.bars, in.ind, "bullish")
        /\ bear = NoPattern \/ bear \in Found(in.bars, in.ind, "bearish")
    BY <2>2, BestOfOneDirection DEF Directions
  <2> HIDE DEF bull, bear
  <2>4. /\ bull = NoPattern \/ PointsUp(in.bars, bull)
        /\ bear = NoPattern \/ PointsDown(in.bars, bear)
    BY <2>2, <2>3, BullishPatternsPointUp, BearishPatternsPointDown
  <2>5. bull.name \in {"none"} \cup TwoSided \/ bear.name \in {"none"} \cup TwoSided
    BY <2>2, <2>4, OneSideOfYesterday DEF NoPattern
  <2> QED
    BY <2>1, <2>5 DEF Directions
<1> QED
  BY <1>2, <1>3 DEF OneWay

\* On every chart, a scan gets past the stock gates in one direction at most, and
\* finds a flag or base in one direction at most.
THEOREM OneWayCorrect == ScreenSpec => []OneWay
BY ChartIsOK, ScreenedCorrect, ScreenedIsOneWay, PTL

-------------------------------------------------------------------------------
(* The pattern and gate 8.                                                 *)

\* Where the lookback of gate 8 starts.
LEMMA Lookback ==
  ASSUME NEW in, in.bars \in Seq(Bars), in.older \in Nat, NEW d \in Directions
  PROVE  LET n == Len(in.bars)
             back == n - Config[d].lookback
             first == Max({1, back})
         IN /\ n \in Nat /\ Config[d].lookback \in Nat \ {0} /\ back \in Int
            /\ first \in Int /\ first \in {1, back} /\ first >= 1 /\ first >= back
            /\ BarCount(in) = in.older + n
<1> DEFINE n == Len(in.bars)
           back == n - Config[d].lookback
           first == Max({1, back})
<1>1. n \in Nat
  OBVIOUS
<1>2. Config[d].lookback \in Nat \ {0}
  BY ConfigAssumption
<1>3. back \in Int /\ 1 \in Int
  BY <1>1, <1>2
<1>4. BarCount(in) = in.older + n
  BY DEF BarCount
<1> HIDE DEF back, n
<1>5. first \in {1, back} /\ first >= 1 /\ first >= back
  BY <1>3, MaxOfTwo
<1> HIDE DEF first
<1>6. first \in Int
  BY <1>3, <1>5
<1> QED
  BY <1>1, <1>2, <1>3, <1>4, <1>5, <1>6 DEF n, back, first

\* A formation that broke out over the whole lookback is a trigger.
LEMMA LongBreakTriggers ==
  ASSUME NEW in, in.bars \in Seq(Bars), in.older \in Nat, NEW p,
         NEW d \in Directions, p.since <= Len(in.bars) - Config[d].lookback,
         IF d = "bullish" THEN BrokeUp(in.bars, p) ELSE BrokeDown(in.bars, p)
  PROVE  BreakoutTrigger(in, d)
<1> DEFINE n == Len(in.bars)
           back == n - Config[d].lookback
           first == Max({1, back})
<1>1. /\ n \in Nat /\ Config[d].lookback \in Nat \ {0} /\ back \in Int
      /\ first \in Int /\ first \in {1, back} /\ first >= 1 /\ first >= back
      /\ BarCount(in) = in.older + n
  BY Lookback
<1>2. p.since \in 1..(n - 1)
  BY DEF BrokeUp, BrokeDown
<1>3. p.since <= back
  OBVIOUS
<1> HIDE DEF first
<1>4. BarCount(in) >= Config[d].lookback + 1
  BY <1>1, <1>2
<1>5. first..(n - 1) \subseteq p.since..(n - 1)
  BY <1>1, <1>2, <1>3
<1>6. ASSUME NEW i \in first..(n - 1)
      PROVE  IF d = "bullish" THEN Close(in) > in.bars[i].high
                              ELSE Close(in) < in.bars[i].low
  BY <1>5, <1>6 DEF BrokeUp, BrokeDown, Close
<1> QED
  BY <1>4, <1>6 DEF BreakoutTrigger, first

\* The level of a pattern that lies in the lookback is one of its highs or lows.
LEMMA TriggerClearsTheSwing ==
  ASSUME NEW in, in.bars \in Seq(Bars), in.older \in Nat, NEW d \in Directions,
         NEW i \in 1..(Len(in.bars) - 1), i >= Len(in.bars) - Config[d].lookback,
         BreakoutTrigger(in, d)
  PROVE  IF d = "bullish" THEN Close(in) > in.bars[i].high
                          ELSE Close(in) < in.bars[i].low
<1> DEFINE n == Len(in.bars)
           back == n - Config[d].lookback
           first == Max({1, back})
<1>1. n \in Nat /\ back \in Int /\ first \in Int /\ first \in {1, back}
  BY Lookback
<1>2. i >= back
  OBVIOUS
<1>3. \A j \in first..(n - 1) : IF d = "bullish" THEN Close(in) > in.bars[j].high
                                                 ELSE Close(in) < in.bars[j].low
  BY DEF BreakoutTrigger
<1> HIDE DEF first
<1>4. i \in first..(n - 1)
  BY <1>1, <1>2
<1> QED
  BY <1>3, <1>4

\* A formation's level is one of its highs, which the close is above,
LEMMA BrokeUpClearsTheLevel ==
  ASSUME NEW bars \in Seq(Bars), NEW p, BrokeUp(bars, p)
  PROVE  p.breakout \in Int /\ 100 * bars[Len(bars)].close > p.breakout
<1> DEFINE n == Len(bars)
           T == p.since..(n - 1)
           highs == {bars[i].high : i \in T}
           top == Max(highs)
<1>1. n \in Nat /\ p.since \in 1..(n - 1)
  BY DEF BrokeUp
<1>2. T \in SUBSET (1..n) /\ T # {}
  BY <1>1
<1>3. p.breakout = 100 * top /\ \A i \in T : bars[n].close > bars[i].high
  BY DEF BrokeUp, HighestHigh
<1>4. top \in highs /\ top \in Nat
  <2> HIDE DEF T
  <2> QED
    BY <1>2, ExtremaOfBars
<1>5. PICK i \in T : top = bars[i].high
  BY <1>4
<1>6. bars[n].close \in Nat
  BY <1>1, BarTypes
<1> HIDE DEF top, T
<1> QED
  BY <1>3, <1>4, <1>5, <1>6

\* or one of its lows, which it is below.
LEMMA BrokeDownClearsTheLevel ==
  ASSUME NEW bars \in Seq(Bars), NEW p, BrokeDown(bars, p)
  PROVE  p.breakout \in Int /\ 100 * bars[Len(bars)].close < p.breakout
<1> DEFINE n == Len(bars)
           T == p.since..(n - 1)
           lows == {bars[i].low : i \in T}
           bottom == Min(lows)
<1>1. n \in Nat /\ p.since \in 1..(n - 1)
  BY DEF BrokeDown
<1>2. T \in SUBSET (1..n) /\ T # {}
  BY <1>1
<1>3. p.breakout = 100 * bottom /\ \A i \in T : bars[n].close < bars[i].low
  BY DEF BrokeDown, LowestLow
<1>4. bottom \in lows /\ bottom \in Nat
  <2> HIDE DEF T
  <2> QED
    BY <1>2, ExtremaOfBars
<1>5. PICK i \in T : bottom = bars[i].low
  BY <1>4
<1>6. bars[n].close \in Nat
  BY <1>1, BarTypes
<1> HIDE DEF bottom, T
<1> QED
  BY <1>3, <1>4, <1>5, <1>6

\* Both claims of TriggerAgrees about one direction.
Agrees(in, d, r) ==
  LET n == Len(in.bars)
      confirmed == r.patternState = "pattern_breakout_confirmed"
  IN /\ /\ r.pattern.name \in {"base_breakout", "base_breakdown"}
        /\ r.pattern.since <= n - Config[d].lookback
        /\ r.patternState # "no_pattern"
        => confirmed
     /\ confirmed /\ r.pattern.since >= n - Config[d].lookback =>
          Sign(d) * 100 * in.bars[n].close > Sign(d) * r.pattern.breakout

\* The pattern and the trigger of one branch agree.
LEMMA BranchAgrees ==
  ASSUME NEW in, in.bars \in Seq(Bars), in.bars # << >>, in.older \in Nat,
         NEW d \in Directions, NEW ind
  PROVE  Agrees(in, d, EvaluateBranch(in, d, Analyses(in.bars, ind)[d]))
<1> DEFINE n == Len(in.bars)
           analysis == Analyses(in.bars, ind)[d]
           p == analysis.best
           r == EvaluateBranch(in, d, analysis)
<1>1. /\ r.pattern = p
      /\ r.patternState = IF ~analysis.detected THEN "no_pattern"
                          ELSE IF BreakoutTrigger(in, d)
                          THEN "pattern_breakout_confirmed" ELSE "pattern_forming"
  BY BranchPattern
<1>2. \/ p = NoPattern /\ ~analysis.detected
      \/ p \in Found(in.bars, ind, d)
  BY BestOfOneDirection
<1>3. \/ p = NoPattern /\ ~analysis.detected
      \/ d = "bullish" /\ PointsUp(in.bars, p)
      \/ d = "bearish" /\ PointsDown(in.bars, p)
  BY <1>2, BullishPatternsPointUp, BearishPatternsPointDown DEF Directions
<1>4. n \in Nat /\ n \in 1..n /\ in.bars[n].close \in Nat
  <2>1. n \in Nat /\ n # 0
    BY EmptySeq
  <2> QED
    BY <2>1, BarTypes
<1> SUFFICES Agrees(in, d, r)
  OBVIOUS
<1> HIDE DEF r, p, analysis
<1>5. ASSUME r.pattern.name \in {"base_breakout", "base_breakdown"},
             r.pattern.since <= n - Config[d].lookback,
             r.patternState # "no_pattern"
      PROVE  r.patternState = "pattern_breakout_confirmed"
  <2>1. analysis.detected
    BY <1>1, <1>5
  <2>2. IF d = "bullish" THEN BrokeUp(in.bars, p) ELSE BrokeDown(in.bars, p)
    BY <1>1, <1>3, <1>5, <2>1 DEF PointsUp, PointsDown
  <2>3. BreakoutTrigger(in, d)
    BY <1>1, <1>5, <2>2, LongBreakTriggers
  <2> QED
    BY <1>1, <2>1, <2>3
<1>6. ASSUME r.patternState = "pattern_breakout_confirmed",
             r.pattern.since >= n - Config[d].lookback
      PROVE  Sign(d) * 100 * in.bars[n].close > Sign(d) * r.pattern.breakout
  <2>1. analysis.detected /\ BreakoutTrigger(in, d)
    BY <1>1, <1>6
  <2>2. p.since >= n - Config[d].lookback
    BY <1>1, <1>6
  <2>3. CASE d = "bullish" /\ PointsUp(in.bars, p)
    <3>1. p.breakout \in Int /\ 100 * in.bars[n].close > p.breakout
      <4>1. CASE BrokeUp(in.bars, p)
        BY <4>1, BrokeUpClearsTheLevel
      <4>2. CASE p.since \in 1..(n - 1) /\ p.breakout = 100 * in.bars[p.since].high
        <5>1. Close(in) > in.bars[p.since].high
          BY <2>1, <2>2, <2>3, <4>2, TriggerClearsTheSwing
        <5>2. in.bars[p.since].high \in Nat
          BY <1>4, <4>2, BarTypes
        <5> QED
          BY <1>4, <4>2, <5>1, <5>2 DEF Close
      <4> QED
        BY <2>3, <4>1, <4>2 DEF PointsUp
    <3> QED
      BY <1>1, <1>4, <2>3, <3>1 DEF Sign
  <2>4. CASE d = "bearish" /\ PointsDown(in.bars, p)
    <3>1. p.breakout \in Int /\ 100 * in.bars[n].close < p.breakout
      <4>1. CASE BrokeDown(in.bars, p)
        BY <4>1, BrokeDownClearsTheLevel
      <4>2. CASE p.since \in 1..(n - 1) /\ p.breakout = 100 * in.bars[p.since].low
        <5>1. Close(in) < in.bars[p.since].low
          BY <2>1, <2>2, <2>4, <4>2, TriggerClearsTheSwing
        <5>2. in.bars[p.since].low \in Nat
          BY <1>4, <4>2, BarTypes
        <5> QED
          BY <1>4, <4>2, <5>1, <5>2 DEF Close
      <4> QED
        BY <2>4, <4>1, <4>2 DEF PointsDown
    <3> QED
      BY <1>1, <1>4, <2>4, <3>1 DEF Sign
  <2> QED
    BY <1>3, <2>1, <2>3, <2>4
<1> QED
  BY <1>5, <1>6 DEF Agrees

\* So do those of both, and TriggerAgrees follows.
LEMMA ScreenedAgrees == ChartOK /\ Screened => TriggerAgrees
<1> SUFFICES ASSUME ChartOK, Screened, verdict # NoVerdict PROVE TriggerAgrees
  BY DEF TriggerAgrees
<1>1. PICK in : /\ in.bars = chart.bars /\ in.older = chart.older
                /\ branches.bullish =
                     EvaluateBranch(in, "bullish", Analyses(in.bars, in.ind).bullish)
                /\ branches.bearish =
                     EvaluateBranch(in, "bearish", Analyses(in.bars, in.ind).bearish)
  BY DEF Screened
<1>2. in.bars \in Seq(Bars) /\ in.bars # << >> /\ in.older \in Nat
  BY <1>1 DEF ChartOK
<1>3. ASSUME NEW d \in Directions PROVE Agrees(in, d, branches[d])
  <2>1. branches[d] = EvaluateBranch(in, d, Analyses(in.bars, in.ind)[d])
    BY <1>1 DEF Directions
  <2> QED
    BY <1>2, <2>1, BranchAgrees
<1> QED
  BY <1>1, <1>3 DEF Agrees, TriggerAgrees

\* On every chart, a pattern and the breakout trigger of the same evaluation agree
\* about the level they speak of.
THEOREM TriggerAgreesCorrect == ScreenSpec => []TriggerAgrees
BY ChartIsOK, ScreenedCorrect, ScreenedAgrees, PTL

-------------------------------------------------------------------------------
(* The score.                                                              *)

\* The volume of some bars is a natural number: the recursion has a value, the
\* difference of two partial sums of the volumes.
LEMMA VolumeIsNat ==
  ASSUME NEW bars \in Seq(Bars), NEW from \in 1..Len(bars), NEW to \in 1..Len(bars),
         from <= to
  PROVE  Volume(bars, from, to) \in Nat
<1> DEFINE n == Len(bars)
           volumes == [i \in 1..n |-> bars[i].volume]
           Adds(f) == f = [i \in (from - 1)..to |->
                             IF i < from THEN 0 ELSE f[i - 1] + bars[i].volume]
           upTo == CHOOSE f : Adds(f)
           last == to - from + 1
           P == {k \in 0..last : upTo[from - 1 + k] \in Nat}
<1>1. n \in Nat /\ \A i \in 1..n : bars[i].volume \in Nat
  <2>1. \A i \in 1..n : bars[i] \in Bars
    OBVIOUS
  <2>2. \A b \in Bars : b.volume \in Nat
    BY DEF Bars
  <2> QED
    BY <2>1, <2>2
<1>2. Volume(bars, from, to) = upTo[to]
  BY DEF Volume
<1>3. /\ volumes \in Seq(Int) /\ Len(volumes) = n
      /\ \A i \in 1..n : volumes[i] = bars[i].volume
  BY <1>1
<1> HIDE DEF volumes, n
<1>4. PICK h : SumsOf(h, volumes)
  BY <1>3, PartialSums
<1>5. /\ from \in 1..n /\ to \in 1..n /\ from - 1 \in 0..n
      /\ \A i \in (from - 1)..to : i \in 0..n
      /\ \A i \in from..to : i \in 1..n /\ i - 1 \in (from - 1)..to
  BY <1>1 DEF n
<1>6. \E f : Adds(f)
  <2> DEFINE f == [i \in (from - 1)..to |-> h[i] - h[from - 1]]
  <2>1. \A i \in 0..n : h[i] \in Int
    BY <1>3, <1>4 DEF SumsOf
  <2>2. \A i \in from..to : h[i] = h[i - 1] + bars[i].volume
    BY <1>3, <1>4, <1>5 DEF SumsOf
  <2>3. ASSUME NEW i \in (from - 1)..to
        PROVE  f[i] = IF i < from THEN 0 ELSE f[i - 1] + bars[i].volume
    <3>1. CASE i < from
      <4>1. i = from - 1
        BY <1>5, <3>1
      <4> QED
        BY <1>5, <2>1, <3>1, <4>1
    <3>2. CASE ~(i < from)
      <4>1. i \in from..to
        BY <1>5, <3>2
      <4>2. PICK p : p = i - 1
        OBVIOUS
      <4>3. p \in (from - 1)..to /\ p \in 0..n /\ i \in 1..n /\ i \in 0..n
        BY <1>5, <4>1, <4>2
      <4>4. /\ h[i] = h[p] + bars[i].volume
            /\ h[i] \in Int /\ h[p] \in Int /\ h[from - 1] \in Int
            /\ bars[i].volume \in Int
        BY <1>1, <1>5, <2>1, <2>2, <4>1, <4>2, <4>3
      <4>5. f[i] = h[i] - h[from - 1] /\ f[p] = h[p] - h[from - 1]
        BY <4>3
      <4> HIDE DEF f
      <4> QED
        BY <3>2, <4>2, <4>4, <4>5
    <3> QED
      BY <3>1, <3>2
  <2>4. f = [i \in (from - 1)..to |-> f[i]]
    OBVIOUS
  <2> HIDE DEF f
  <2>5. Adds(f)
    BY <2>3, <2>4
  <2> HIDE DEF Adds
  <2> QED
    BY <2>5
<1>7. Adds(upTo)
  <2> HIDE DEF Adds
  <2> QED
    BY <1>6
<1>8. \A i \in (from - 1)..to :
        upTo[i] = IF i < from THEN 0 ELSE upTo[i - 1] + bars[i].volume
  <2> DEFINE g == upTo
  <2>1. Adds(g)
    BY <1>7
  <2> HIDE DEF g
  <2> QED
    BY <2>1 DEF g
<1> HIDE DEF upTo
<1>9. last \in Nat /\ from - 1 + last = to
  BY <1>5
<1>10. 0 \in P
  <2>1. from - 1 + 0 = from - 1 /\ from - 1 < from /\ from - 1 \in (from - 1)..to
    BY <1>5
  <2> QED
    BY <1>8, <1>9, <2>1
<1>11. ASSUME NEW k \in 1..last, k - 1 \in P PROVE k \in P
  <2>1. PICK i : i = from - 1 + k
    OBVIOUS
  <2>2. /\ i \in from..to /\ i \in (from - 1)..to /\ ~(i < from)
        /\ i - 1 = from - 1 + (k - 1)
    BY <1>5, <1>9, <2>1
  <2>3. upTo[i] = upTo[i - 1] + bars[i].volume
    BY <1>8, <2>2
  <2>4. upTo[i - 1] \in Nat /\ bars[i].volume \in Nat
    BY <1>1, <1>5, <1>11, <2>2
  <2> QED
    BY <2>1, <2>3, <2>4
<1> HIDE DEF P, last
<1>12. last \in P
  <2>1. last \in 0..last
    BY <1>9
  <2> QED
    BY <1>9, <1>10, <1>11, <2>1, InductionUpTo
<1> QED
  BY <1>2, <1>9, <1>12 DEF P

\* The inputs of one evaluation.
InputOK(in) ==
  /\ in.bars \in Seq(Bars) /\ in.older \in Nat
  /\ in.bb \in -1..Widths /\ in.spyReturn \in Int
  /\ in.options \in [ivRank : Int, spread : Int, interest : Int, volume : Int]

\* Twenty-one bars: the one that strength is measured from, and today's.
LEMMA StrengthAnchor ==
  ASSUME NEW in, InputOK(in), HasStrength(in)
  PROVE  /\ Len(in.bars) \in Nat /\ Len(in.bars) >= 21
         /\ Close(in) \in Nat \ {0} /\ Anchor(in) \in Nat \ {0}
         /\ Strength(in) \in Int
<1> DEFINE n == Len(in.bars)
<1>1. n \in Nat /\ n >= 21 /\ \A i \in 1..n : in.bars[i] \in Bars
  BY DEF InputOK, HasStrength
<1>2. \A b \in Bars : b.close \in Nat \ {0}
  BY DEF Bars
<1>3. n \in 1..n /\ n - 20 \in 1..n
  BY <1>1
<1>4. Close(in) \in Nat \ {0} /\ Anchor(in) \in Nat \ {0}
  BY <1>1, <1>2, <1>3 DEF Close, Anchor
<1>5. in.spyReturn \in Int
  BY DEF InputOK
<1>6. Strength(in) \in Int
  <2> DEFINE close == Close(in)
             anchor == Anchor(in)
             market == in.spyReturn
  <2>1. Strength(in) = 100 * (close - anchor) - market * anchor
    BY DEF Strength
  <2>2. close \in Int /\ anchor \in Int /\ market \in Int
    BY <1>4, <1>5
  <2> HIDE DEF close, anchor, market
  <2> QED
    BY <2>1, <2>2
<1> QED
  BY <1>1, <1>4, <1>6

\* Strength gives points only from two per cent on.
LEMMA StrengthPoints ==
  ASSUME NEW in, InputOK(in), NEW d, HasStrength(in)
  PROVE  StrengthScore(in, d) \in Nat
<1> DEFINE rs == Sign(d) * Strength(in)
           unit == Anchor(in)
<1>1. rs \in Int /\ unit \in Nat \ {0}
  BY StrengthAnchor DEF Sign
<1>2. StrengthScore(in, d)
        = CASE rs >= 10 * unit -> 25000
            [] rs >= 6 * unit /\ rs < 10 * unit ->
                 15000 + ((rs - 6 * unit) * 2500) \div unit
            [] rs >= 2 * unit /\ rs < 6 * unit -> ((rs - 2 * unit) * 3750) \div unit
            [] OTHER -> 0
  BY DEF StrengthScore
<1> HIDE DEF rs, unit
<1>3. rs >= 6 * unit => ((rs - 6 * unit) * 2500) \div unit \in Nat
  BY <1>1
<1>4. rs >= 2 * unit => ((rs - 2 * unit) * 3750) \div unit \in Nat
  BY <1>1
<1> QED
  BY <1>1, <1>2, <1>3, <1>4

\* The squeeze gives points for a rank below 30, none below zero.
LEMMA SqueezePoints ==
  ASSUME NEW in, InputOK(in)
  PROVE  SqueezeScore(in) \in Nat
<1> DEFINE room == 20000 * (30 * Widths - 100 * in.bb)
<1>1. room \in Int /\ 30 * Widths \in Nat \ {0}
  <2>1. Widths = 63
    BY DEF Widths
  <2>2. \A w \in Nat : \A x \in -1..w : x \in Int
    OBVIOUS
  <2>3. in.bb \in Int
    <3>1. in.bb \in -1..Widths /\ Widths \in Nat
      BY <2>1 DEF InputOK
    <3> QED
      BY <2>2, <3>1
  <2> QED
    BY <2>1, <2>3
<1>2. SqueezeScore(in) = Max({0, room}) \div (30 * Widths)
  BY DEF SqueezeScore
<1> HIDE DEF room
<1>3. Max({0, room}) \in Nat
  <2>1. 0 \in Int
    OBVIOUS
  <2>2. Max({0, room}) \in {0, room} /\ Max({0, room}) >= 0
    BY <1>1, <2>1, MaxOfTwo, Zenon
  <2> QED
    BY <1>1, <2>2
<1> QED
  BY <1>1, <1>2, <1>3

\* Volume gives points against the twenty days before today.
LEMMA VolumePoints ==
  ASSUME NEW in, InputOK(in), HasVolumeRatio(in)
  PROVE  VolumeScore(in) \in Nat
<1> DEFINE n == Len(in.bars)
           today == TodayTwenty(in)
           prior == PriorVolume(in)
<1>1. n \in Nat /\ n >= 21 /\ in.bars \in Seq(Bars)
  BY DEF InputOK, HasVolumeRatio
<1>2. prior \in Nat
  <2>1. n - 20 \in 1..n /\ n - 1 \in 1..n /\ n - 20 <= n - 1
    BY <1>1
  <2> QED
    BY <1>1, <2>1, VolumeIsNat DEF PriorVolume
<1>3. today \in Nat
  <2>1. in.bars[n] \in Bars
    BY <1>1
  <2>2. in.bars[n].volume \in Nat
    BY <2>1 DEF Bars
  <2> QED
    BY <2>2 DEF TodayTwenty
<1>4. prior > 0
  BY DEF HasVolumeRatio
<1>5. VolumeScore(in)
        = CASE today >= 3 * prior -> 15000
            [] today >= 2 * prior /\ today < 3 * prior ->
                 8000 + ((today - 2 * prior) * 7000) \div prior
            [] 10 * today >= 12 * prior /\ today < 2 * prior ->
                 ((10 * today - 12 * prior) * 1000) \div prior
            [] OTHER -> 0
  BY DEF VolumeScore
<1> HIDE DEF today, prior
<1>6. today >= 2 * prior => ((today - 2 * prior) * 7000) \div prior \in Nat
  BY <1>2, <1>3, <1>4
<1>7. 10 * today >= 12 * prior => ((10 * today - 12 * prior) * 1000) \div prior \in Nat
  BY <1>2, <1>3, <1>4
<1> QED
  BY <1>2, <1>3, <1>4, <1>5, <1>6, <1>7

\* The breakout gives points against the level of its lookback, a price.
LEMMA BreakoutPoints ==
  ASSUME NEW in, InputOK(in), Len(in.bars) >= 21, NEW d \in Directions
  PROVE  BreakoutScore(in, d) \in Nat
<1> DEFINE n == Len(in.bars)
           back == n - Config[d].lookback
           first == Max({1, back})
           T == first..(n - 1)
           pivot == IF d = "bullish" THEN HighestHigh(in.bars, first, n - 1)
                                     ELSE LowestLow(in.bars, first, n - 1)
           clear == 100 * Sign(d) * (Close(in) - pivot)
           enough == BarCount(in) > Config[d].lookback + 1
<1>1. in.bars \in Seq(Bars) /\ in.older \in Nat
  BY DEF InputOK
<1>2. /\ n \in Nat /\ Config[d].lookback \in Nat \ {0} /\ back \in Int
      /\ first \in Int /\ first \in {1, back} /\ first >= 1 /\ first >= back
      /\ BarCount(in) = in.older + n
  BY <1>1, Lookback
<1>3. T \in SUBSET (1..n) /\ T # {}
  <2>1. PICK f \in Int : f = first
    BY <1>2
  <2>2. f >= 1 /\ f <= n - 1
    BY <1>2, <2>1
  <2>3. T = f..(n - 1)
    BY <2>1
  <2> HIDE DEF first, T
  <2>4. f \in T
    BY <1>2, <2>2, <2>3
  <2>5. \A i \in f..(n - 1) : i \in 1..n
    BY <1>2, <2>2
  <2> QED
    BY <2>3, <2>4, <2>5, Zenon
<1>4. \A i \in T : /\ in.bars[i].high \in Nat \ {0} /\ in.bars[i].low \in Nat \ {0}
  <2> HIDE DEF T
  <2>1. \A i \in T : in.bars[i] \in Bars
    BY <1>1, <1>3
  <2>2. \A b \in Bars : b.high \in Nat \ {0} /\ b.low \in Nat \ {0}
    BY DEF Bars
  <2> QED
    BY <2>1, <2>2
<1>5. pivot \in Nat \ {0}
  <2> DEFINE highs == {in.bars[i].high : i \in T}
             lows  == {in.bars[i].low : i \in T}
  <2>1. HighestHigh(in.bars, first, n - 1) = Max(highs)
        /\ LowestLow(in.bars, first, n - 1) = Min(lows)
    BY DEF HighestHigh, LowestLow
  <2>2. Max(highs) \in highs /\ Min(lows) \in lows
    <3> HIDE DEF T
    <3> QED
      BY <1>1, <1>3, ExtremaOfBars
  <2>3. highs \subseteq Nat \ {0} /\ lows \subseteq Nat \ {0}
    <3> HIDE DEF T
    <3> QED
      BY <1>4
  <2> HIDE DEF highs, lows, T
  <2> QED
    BY <2>1, <2>2, <2>3
<1>6. Close(in) \in Nat
  <2>1. in.bars[n] \in Bars
    BY <1>1, <1>2
  <2>2. in.bars[n].close \in Nat
    BY <2>1 DEF Bars
  <2> QED
    BY <2>2 DEF Close
<1>7. clear \in Int
  <2> HIDE DEF pivot
  <2> QED
    BY <1>5, <1>6 DEF Sign
<1>8. BreakoutScore(in, d)
        = CASE BarCount(in) <= Config[d].lookback + 1 -> 0
            [] enough /\ clear >= 3 * pivot -> 20000
            [] enough /\ clear >= pivot /\ clear < 3 * pivot ->
                 ((clear - pivot) * 10000) \div pivot
            [] OTHER -> 0
  BY DEF BreakoutScore
<1> HIDE DEF clear, pivot, enough
<1>9. clear >= pivot => ((clear - pivot) * 10000) \div pivot \in Nat
  BY <1>5, <1>7
<1>10. BarCount(in) <= Config[d].lookback + 1 => ~enough
  BY <1>1, <1>2 DEF enough
<1> QED
  BY <1>5, <1>7, <1>8, <1>9, <1>10

\* A contract whose data is there gets points for every limit it keeps.
LEMMA LiquidityPoints ==
  ASSUME NEW in, InputOK(in), ~OptionDataMissing(in)
  PROVE  LiquidityScore(in) \in Nat
<1> DEFINE rank == IF in.options.ivRank <= Limits.ivRank
                   THEN (2000 * (Limits.ivRank - in.options.ivRank)) \div Limits.ivRank
                   ELSE 0
           spread == IF in.options.spread <= Limits.spread
                     THEN (2000 * (Limits.spread - in.options.spread)) \div Limits.spread
                     ELSE 0
           volume == Points(in.options.volume >= 2 * Limits.volume, 1000)
           sum == rank + spread + volume
<1>1. /\ in.options.ivRank \in Nat /\ in.options.spread \in Nat
      /\ Limits.ivRank \in Nat \ {0} /\ Limits.spread \in Nat \ {0}
  BY ConfigAssumption DEF InputOK, OptionDataMissing
<1>2. \A l \in Nat \ {0}, x \in Nat : x <= l => (2000 * (l - x)) \div l \in Nat
  OBVIOUS
<1>3. rank \in Nat /\ spread \in Nat
  BY <1>1, <1>2
<1>4. volume \in Nat
  BY DEF Points
<1>5. LiquidityScore(in) = Min({5000, sum})
  BY DEF LiquidityScore
<1> HIDE DEF rank, spread, volume
<1>6. sum \in Nat /\ 5000 \in Nat
  BY <1>3, <1>4
<1> HIDE DEF sum
<1> QED
  BY <1>5, <1>6, MinOfTwo

\* The score of a branch that passed its stock gates is between 0 and 100 points.
LEMMA ScoreIsBounded ==
  ASSUME NEW in, InputOK(in), NEW d \in Directions, NEW analysis,
         analysis.detected \in BOOLEAN, analysis.best.quality \in Nat,
         Failures(StockGates(in, d, analysis)) = {}
  PROVE  RankScore(in, d, analysis) \in 0..1000
<1> DEFINE strength == IF HasStrength(in) THEN StrengthScore(in, d) ELSE 0
           squeeze == IF in.bb >= 0 THEN SqueezeScore(in) ELSE 0
           breakout == BreakoutScore(in, d)
           volume == IF HasVolumeRatio(in) THEN VolumeScore(in) ELSE 0
           pattern == IF PatternsEnabled /\ analysis.detected
                      THEN 10 * analysis.best.quality * ScoreWeight ELSE 0
           liquidity == IF OptionDataMissing(in) THEN 0 ELSE LiquidityScore(in)
           score == strength + squeeze + breakout + volume + pattern + liquidity
           top == 100000
           capped == Min({score, top})
<1>1. RelativeStrength(in, d)
  BY StockGatesPassed
<1>2. HasStrength(in)
  BY <1>1 DEF RelativeStrength
<1>3. Len(in.bars) >= 21
  BY <1>2, StrengthAnchor
<1>4. strength \in Nat
  BY <1>2, StrengthPoints
<1>5. squeeze \in Nat
  BY SqueezePoints
<1>6. breakout \in Nat
  BY <1>3, BreakoutPoints
<1>7. volume \in Nat
  BY VolumePoints
<1>8. pattern \in Nat
  <2> DEFINE quality == analysis.best.quality
  <2>1. ScoreWeight \in Nat /\ quality \in Nat
    BY ConfigAssumption
  <2>2. pattern = IF PatternsEnabled /\ analysis.detected
                  THEN 10 * quality * ScoreWeight ELSE 0
    OBVIOUS
  <2> HIDE DEF quality
  <2>3. 10 * quality * ScoreWeight \in Nat
    BY <2>1
  <2> HIDE DEF pattern
  <2> QED
    BY <2>2, <2>3
<1>9. liquidity \in Nat
  BY LiquidityPoints
<1>10. RankScore(in, d, analysis) = (capped + 50) \div 100
  BY DEF RankScore
<1> HIDE DEF strength, squeeze, breakout, volume, pattern, liquidity
<1>11. score \in Nat /\ top \in Nat
  BY <1>4, <1>5, <1>6, <1>7, <1>8, <1>9
<1> HIDE DEF score, top
<1>12. capped \in {score, top} /\ capped <= top
  <2>1. score \in Int /\ top \in Int
    BY <1>11
  <2> QED
    BY <2>1, MinOfTwo, Zenon
<1> HIDE DEF capped
<1> QED
  BY <1>10, <1>11, <1>12 DEF top

\* The quality of the best pattern is a number, also of none.
LEMMA QualityIsNat ==
  ASSUME NEW bars \in Seq(Bars), NEW ind, NEW d \in Directions
  PROVE  Analyses(bars, ind)[d].best.quality \in Nat
<1>1. NoPattern.quality \in Nat
  BY DEF NoPattern
<1>2. ASSUME NEW p \in Found(bars, ind, d) PROVE p.quality \in Nat
  <2>1. p \in Found(bars, ind, "bullish") \/ p \in Found(bars, ind, "bearish")
    BY DEF Directions
  <2>2. Ranked(p)
    BY <2>1, BullishPatternsPointUp, BearishPatternsPointDown
  <2>3. \A q \in 0..95 : q \in Nat
    OBVIOUS
  <2> QED
    BY <2>2, <2>3, Zenon DEF Ranked
<1> QED
  BY <1>1, <1>2, BestOfOneDirection

\* Every way out of evaluateBranch has a status of the code's and a score in range.
LEMMA BranchTyped ==
  ASSUME NEW in, InputOK(in), NEW d \in Directions, NEW analysis,
         analysis.detected \in BOOLEAN, analysis.best.quality \in Nat
  PROVE  /\ EvaluateBranch(in, d, analysis).status \in Statuses
         /\ EvaluateBranch(in, d, analysis).score \in 0..1000
<1> DEFINE stock == StockGates(in, d, analysis)
           score == RankScore(in, d, analysis)
           r == EvaluateBranch(in, d, analysis)
<1>1. r.status \in Statuses
  <2>1. BranchExplained(EvaluateBranch(in, d, analysis), d)
    BY EveryBranchIsExplained
  <2> QED
    BY <2>1, Zenon DEF BranchExplained
<1>2. Failures(stock) # {} => r.score = 0
  BY DEF EvaluateBranch
<1>3. Failures(stock) = {} => r.score = 0 \/ r.score = score
  BY DEF EvaluateBranch
<1>4. Failures(stock) = {} => score \in 0..1000
  BY ScoreIsBounded
<1> HIDE DEF stock, score, r
<1>5. r.score \in 0..1000
  BY <1>2, <1>3, <1>4
<1> QED
  BY <1>1, <1>5 DEF r

-------------------------------------------------------------------------------
(* The types of the screen.                                                *)

\* The chart keeps its last bars, and a rank is one of the widths compared.
ChartBounded == Len(chart.bars) <= ChartBars /\ chart.bbToday \in -1..Widths

\* The statuses of a row, and what a verdict is.
RowStatuses == {"entry_ready"} \cup Statuses
RowTyped == row.status \in {"none"} \cup RowStatuses /\ heard \subseteq RowStatuses
VerdictTyped ==
  verdict # NoVerdict => verdict.status \in Statuses /\ verdict.score \in 0..1000

\* A new bar keeps the chart within its bounds,
LEMMA ExtendedIsBounded ==
  ASSUME ChartOK, ChartBounded, NEW bar \in Bars, NEW bb \in 0..Widths,
         chart' = Extended(chart, bar, bb)
  PROVE  ChartBounded'
<1> DEFINE full == Len(chart.bars) = ChartBars
           kept == IF full THEN Tail(chart.bars) ELSE chart.bars
<1>1. kept \in Seq(Bars) /\ Len(kept) < ChartBars
  <2>1. /\ chart.bars \in Seq(Bars) /\ chart.bars # << >>
        /\ Len(chart.bars) \in Nat /\ Len(chart.bars) <= ChartBars /\ ChartBars \in Nat
    BY DEF ChartOK, ChartBounded, ChartBars
  <2>2. CASE full
    <3>1. Tail(chart.bars) \in Seq(Bars) /\ Len(Tail(chart.bars)) = Len(chart.bars) - 1
      BY <2>1
    <3>2. kept = Tail(chart.bars)
      BY <2>2
    <3> HIDE DEF kept
    <3> QED
      BY <2>1, <3>1, <3>2
  <2>3. CASE ~full
    <3>1. kept = chart.bars
      BY <2>3
    <3> HIDE DEF kept
    <3> QED
      BY <2>1, <2>3, <3>1
  <2> QED
    BY <2>2, <2>3
<1>2. /\ chart'.bars = Append(kept, bar)
      /\ chart'.bbToday = IF full THEN bb ELSE -1
  BY DEF Extended
<1> HIDE DEF kept, full
<1>3. Len(chart'.bars) = Len(kept) + 1 /\ Len(kept) \in Nat
  BY <1>1, <1>2
<1>4. chart'.bbToday \in -1..Widths
  BY <1>2 DEF Widths
<1> QED
  BY <1>1, <1>3, <1>4 DEF ChartBounded, ChartBars

\* and so does the bar of today that moves on.
LEMMA FormedIsBounded ==
  ASSUME ChartOK, ChartBounded, NEW bar \in Bars, NEW bb \in -1..Widths,
         chart' = [chart EXCEPT !.bars[Len(chart.bars)] = bar, !.bbToday = bb]
  PROVE  ChartBounded'
<1>1. /\ chart'.bars = [chart.bars EXCEPT ![Len(chart.bars)] = bar]
      /\ chart'.bbToday = bb
  BY DEF ChartOK
<1>2. Len(chart'.bars) = Len(chart.bars)
  BY <1>1 DEF ChartOK
<1> QED
  BY <1>1, <1>2 DEF ChartBounded

\* So the chart stays within its bounds.
LEMMA ChartStaysBounded ==
  ASSUME ChartOK, ChartBounded, [ScreenNext]_screenVars
  PROVE  ChartBounded'
<1>1. CASE NextDay
  <2>1. PICK d \in Days : chart' = Extended(chart, d.bar, d.bb)
    BY <1>1 DEF NextDay
  <2> QED
    BY <2>1, ExtendedIsBounded, ScreenAssumption
<1>2. CASE BarForms
  <2>1. PICK d \in Days :
          chart' = [chart EXCEPT !.bars[Len(chart.bars)] = d.bar,
                                 !.bbToday = IF chart.older = 0 THEN -1 ELSE d.bb]
    BY <1>2 DEF BarForms
  <2> DEFINE bb == IF chart.older = 0 THEN -1 ELSE d.bb
  <2>2. /\ d.bar \in Bars /\ bb \in -1..Widths
        /\ chart' = [chart EXCEPT !.bars[Len(chart.bars)] = d.bar, !.bbToday = bb]
    BY <2>1, ScreenAssumption DEF Widths
  <2> HIDE DEF bb
  <2> QED
    BY <2>2, FormedIsBounded
<1> DEFINE analyses == Analyses(chart.bars, Indicators(chart))
<1>3. ASSUME \/ DailyScan(analyses) \/ RunPipeline(analyses) \/ Backtest(analyses)
             \/ DryScan(analyses) \/ Assess(analyses) \/ UNCHANGED screenVars
      PROVE  UNCHANGED chart
  BY <1>3 DEF DailyScan, RunPipeline, Backtest, DryScan, Assess, Evaluate, screenVars
<1>4. ASSUME UNCHANGED chart PROVE ChartBounded'
  BY <1>4 DEF ChartBounded
<1> HIDE DEF analyses
<1>5. \/ NextDay \/ BarForms
      \/ DailyScan(analyses) \/ RunPipeline(analyses) \/ Backtest(analyses)
      \/ DryScan(analyses) \/ Assess(analyses) \/ UNCHANGED screenVars
  BY DEF ScreenNext, analyses
<1> QED
  BY <1>1, <1>2, <1>3, <1>4, <1>5

\* An evaluation of the chart gives a verdict of the code's.
LEMMA EvaluateTyped ==
  ASSUME ChartOK, ChartBounded, NEW macro \in Macros, NEW earnings,
         NEW options \in [ivRank : Int, spread : Int, interest : Int, volume : Int],
         Evaluate(Input(macro, earnings, options),
                  Analyses(chart.bars, Indicators(chart)))
  PROVE  verdict'.status \in Statuses /\ verdict'.score \in 0..1000
<1> DEFINE in == Input(macro, earnings, options)
           analyses == Analyses(chart.bars, Indicators(chart))
<1>1. InputOK(in)
  <2>1. macro.spyReturn \in Int
    BY ScreenAssumption
  <2>2. /\ in.bars = chart.bars /\ in.older = chart.older /\ in.bb = chart.bbToday
        /\ in.spyReturn = macro.spyReturn /\ in.options = options
    BY DEF Input
  <2> HIDE DEF in
  <2> QED
    BY <2>1, <2>2 DEF InputOK, ChartOK, ChartBounded
<1>2. /\ analyses.bullish.detected \in BOOLEAN /\ analyses.bearish.detected \in BOOLEAN
      /\ analyses.bullish.best.quality \in Nat /\ analyses.bearish.best.quality \in Nat
  BY DetectedIsDecided, QualityIsNat DEF ChartOK, Directions
<1>3. verdict' = Choose(EvaluateBranch(in, "bullish", analyses.bullish),
                        EvaluateBranch(in, "bearish", analyses.bearish))
  BY DEF Evaluate
<1>4. "bullish" \in Directions /\ "bearish" \in Directions
  BY DEF Directions
<1> HIDE DEF in, analyses
<1> DEFINE bull == EvaluateBranch(in, "bullish", analyses.bullish)
           bear == EvaluateBranch(in, "bearish", analyses.bearish)
<1>5. /\ bull.status \in Statuses /\ bull.score \in 0..1000
      /\ bear.status \in Statuses /\ bear.score \in 0..1000
  BY <1>1, <1>2, <1>4, BranchTyped
<1> HIDE DEF bull, bear
<1> QED
  BY <1>3, <1>5, ChooseIsABranch DEF bull, bear

\* A stored row has the status of the scan or the one it had.
LEMMA StoreTyped ==
  ASSUME RowTyped, NEW status \in RowStatuses, StoreRow(status)
  PROVE  RowTyped'
<1>1. CASE UNCHANGED <<row, heard>>
  BY <1>1 DEF RowTyped
<1>2. CASE /\ row' = UpsertCandidate(row, verdict', status)
           /\ heard' = heard \cup {status}
  <2>1. row'.status = IF row.status \in Kept THEN row.status ELSE status
    BY <1>2 DEF UpsertCandidate
  <2> QED
    BY <1>2, <2>1 DEF RowTyped
<1> QED
  BY <1>1, <1>2 DEF StoreRow

\* Every step keeps the types of the rows and verdicts.
LEMMA ScreenTypesStep ==
  ASSUME ChartOK, ChartBounded, RowTyped, VerdictTyped, [ScreenNext]_screenVars
  PROVE  RowTyped' /\ VerdictTyped'
<1> DEFINE analyses == Analyses(chart.bars, Indicators(chart))
           unknown == [ivRank : Int, spread : Int, interest : Int, volume : Int]
<1>1. NoOptionData \in unknown /\ VolumeLeftOut \in unknown /\ Quotes \subseteq unknown
  BY ScreenAssumption DEF NoOptionData, VolumeLeftOut
<1>2. ASSUME NEW macro \in Macros, NEW earnings, NEW options \in unknown,
             Evaluate(Input(macro, earnings, options), analyses)
      PROVE  verdict'.status \in Statuses /\ VerdictTyped'
  BY <1>2, EvaluateTyped DEF VerdictTyped
<1>3. CASE NextDay
  <2>1. row' = NoRow /\ heard' = {} /\ verdict' = NoVerdict
    BY <1>3 DEF NextDay
  <2> QED
    BY <2>1 DEF RowTyped, VerdictTyped, NoRow
<1>4. CASE BarForms
  <2>1. row' = row /\ heard' = heard /\ verdict' = NoVerdict
    BY <1>4 DEF BarForms
  <2> QED
    BY <2>1 DEF RowTyped, VerdictTyped
<1>5. CASE UNCHANGED screenVars
  BY <1>5 DEF screenVars, RowTyped, VerdictTyped
<1> HIDE DEF analyses, unknown
<1>6. CASE DailyScan(analyses)
  <2>1. verdict'.status \in Statuses /\ VerdictTyped'
    BY <1>1, <1>2, <1>6 DEF DailyScan
  <2> DEFINE status == IF verdict'.status = "paper_trade_created"
                       THEN "entry_ready" ELSE verdict'.status
  <2>2. status \in RowStatuses /\ StoreRow(status)
    BY <1>6, <2>1 DEF DailyScan, RowStatuses
  <2> HIDE DEF status
  <2> QED
    BY <2>1, <2>2, StoreTyped
<1>7. CASE RunPipeline(analyses)
  <2>1. verdict'.status \in Statuses /\ VerdictTyped'
    BY <1>1, <1>2, <1>7 DEF RunPipeline
  <2> DEFINE status == IF verdict'.allPass THEN "entry_ready" ELSE verdict'.status
  <2>2. status \in RowStatuses /\ StoreRow(status)
    BY <1>7, <2>1 DEF RunPipeline, RowStatuses
  <2> HIDE DEF status
  <2> QED
    BY <2>1, <2>2, StoreTyped
<1>8. ASSUME Backtest(analyses) \/ DryScan(analyses) \/ Assess(analyses)
      PROVE  RowTyped' /\ VerdictTyped'
  <2>1. UNCHANGED <<row, heard>>
    BY <1>8 DEF Backtest, DryScan, Assess
  <2>2. VerdictTyped'
    <3>1. CASE Backtest(analyses)
      BY <1>1, <1>2, <3>1 DEF Backtest
    <3>2. CASE DryScan(analyses)
      BY <1>1, <1>2, <3>2 DEF DryScan
    <3>3. CASE Assess(analyses)
      BY <1>1, <1>2, <3>3 DEF Assess
    <3> QED
      BY <1>8, <3>1, <3>2, <3>3
  <2> QED
    BY <2>1, <2>2 DEF RowTyped
<1> QED
  BY <1>3, <1>4, <1>5, <1>6, <1>7, <1>8 DEF ScreenNext, analyses

\* The types of the screen hold at its start,
ScreenTyped == ChartOK /\ ChartBounded /\ RowTyped /\ VerdictTyped

LEMMA ScreenTypedInit ==
  ASSUME ScreenInit
  PROVE  ScreenTyped
<1>1. chart \in Charts /\ row = NoRow /\ heard = {} /\ verdict = NoVerdict
  BY DEF ScreenInit
<1>2. /\ chart.bars \in Seq(Bars) /\ chart.bbToday \in -1..Widths
      /\ Len(chart.bars) = ChartBars \/ Len(chart.bars) < ChartBars
  BY <1>1, ScreenAssumption, Zenon
<1>3. Len(chart.bars) \in Nat /\ ChartBars \in Nat
  BY <1>2 DEF ChartBars
<1>4. ChartBounded
  BY <1>2, <1>3 DEF ChartBounded
<1>5. RowTyped /\ VerdictTyped
  BY <1>1 DEF RowTyped, VerdictTyped, NoRow
<1> QED
  BY <1>4, <1>5, ChartStartsOK DEF ScreenTyped

\* every step keeps them,
LEMMA ScreenTypedStep ==
  ASSUME ScreenTyped, [ScreenNext]_screenVars
  PROVE  ScreenTyped'
BY ChartStaysOK, ChartStaysBounded, ScreenTypesStep DEF ScreenTyped

\* and they imply the type invariant.
LEMMA ScreenTypedIsOK ==
  ASSUME ScreenTyped
  PROVE  ScreenTypeOK
BY DEF ScreenTyped, ChartBounded, RowTyped, VerdictTyped, ScreenTypeOK, RowStatuses,
       NoVerdict

\* Whatever the market brings and whichever programs scan, a row and a verdict have
\* a status the code knows, and a score is between 0 and 100 points, in tenths.
THEOREM ScreenTypeCorrect == ScreenSpec => []ScreenTypeOK
<1>1. ScreenInit => ScreenTyped
  BY ScreenTypedInit
<1>2. ScreenTyped /\ [ScreenNext]_screenVars => ScreenTyped'
  BY ScreenTypedStep
<1>3. ScreenTyped => ScreenTypeOK
  BY ScreenTypedIsOK
<1> QED
  BY <1>1, <1>2, <1>3, PTL DEF ScreenSpec

-------------------------------------------------------------------------------
(* The outcome of a trade.                                                 *)

\* The levels of a signal are on their sides of the entry.
LEMMA SignalTypes ==
  ASSUME sig \in Signals
  PROVE  /\ sig.entry \in Int /\ sig.stop \in Int /\ sig.target1 \in Int
         /\ sig.target2 \in Int /\ sig.entry >= 100
         /\ \/ Side = 1 /\ sig.stop <= sig.entry /\ sig.entry <= sig.target1
            \/ Side = -1 /\ sig.stop >= sig.entry /\ sig.entry >= sig.target1
BY OutcomeAssumption DEF Side

\* The prices of a bar are positive.
LEMMA BarPrices ==
  ASSUME NEW b \in Future
  PROVE  /\ Best(b) \in Nat \ {0} /\ Worst(b) \in Nat \ {0}
         /\ b.close \in Nat \ {0}
BY OutcomeAssumption DEF Best, Worst

\* An exit is won exactly when it is better than the entry.
Fair(type, exit, win) ==
  \/ type \in {"open", "no_data"}
  \/ exit \in Int /\ (win <=> Side * (exit - sig.entry) > 0)

\* A fair exit gives WinIsGain: the caps of the estimate keep its sign.
LEMMA FairIsGain ==
  ASSUME sig \in Signals, outcome.win \in BOOLEAN,
         Fair(outcome.type, outcome.exit, outcome.win)
  PROVE  WinIsGain
<1> SUFFICES ASSUME Closed PROVE WinIsGain
  BY DEF WinIsGain
<1> DEFINE exit == outcome.exit
           entry == sig.entry
           gain == UnderlyingGain
           option == OptionGain
<1>1. exit \in Int /\ (outcome.win <=> Side * (exit - entry) > 0)
  BY DEF Fair, Closed
<1>2. entry \in Int /\ entry >= 100 /\ Side \in {1, -1}
  BY SignalTypes
<1>3. gain = Side * (exit - entry)
  BY DEF UnderlyingGain
<1>4. option = IF outcome.win
               THEN IF 200 * gain > 80 * entry THEN 80 * entry ELSE 200 * gain
               ELSE IF 200 * gain < -10 * entry THEN -10 * entry ELSE 200 * gain
  BY DEF OptionGain, OptionLeverage
<1> HIDE DEF exit, entry, option
<1>5. gain \in Int
  BY <1>1, <1>2, <1>3
<1>6. outcome.win <=> gain > 0
  BY <1>1, <1>3
<1> HIDE DEF gain
<1>7. (outcome.win <=> option > 0) /\ option >= -10 * entry
  BY <1>2, <1>4, <1>5, <1>6
<1> QED
  BY <1>6, <1>7 DEF WinIsGain, gain, option, entry

\* The trail: the peak is the best price so far, and it armed.
TrailOK ==
  /\ armed \in BOOLEAN
  /\ IF armed THEN /\ \E j \in 1..Len(path) : peak = Best(path[j])
                   /\ \A j \in 1..Len(path) : NoWorse(peak, Best(path[j]))
                   /\ Arms(peak)
     ELSE \A j \in 1..Len(path) : ~Arms(Best(path[j]))

\* Two per cent below a peak of four per cent is still above the entry.
LEMMA TrailWins ==
  ASSUME sig \in Signals, NEW p \in Nat, Arms(p)
  PROVE  TrailLevel(p) \in Int /\ Side * (TrailLevel(p) - sig.entry) > 0
<1> DEFINE entry == sig.entry
<1>1. entry \in Int /\ entry >= 100 /\ (Side = 1 \/ Side = -1)
  BY SignalTypes
<1>2. 100 * Side * (p - entry) >= 4 * entry
  BY DEF Arms, TrailArmPct
<1> HIDE DEF entry
<1>3. CASE Side = 1
  <2>1. TrailLevel(p) = (p * 98) \div 100
    BY <1>3 DEF TrailLevel, TrailGivebackPct
  <2>2. 100 * (p - entry) >= 4 * entry
    BY <1>2, <1>3
  <2>3. (p * 98) \div 100 \in Int /\ (p * 98) \div 100 > entry
    BY <1>1, <2>2
  <2> QED
    BY <1>1, <1>3, <2>1, <2>3 DEF entry
<1>4. CASE Side = -1
  <2>1. TrailLevel(p) = (p * 102) \div 100
    BY <1>4 DEF TrailLevel, TrailGivebackPct
  <2>2. 100 * (entry - p) >= 4 * entry
    BY <1>1, <1>2, <1>4
  <2>3. (p * 102) \div 100 \in Int /\ (p * 102) \div 100 < entry
    BY <1>1, <2>2
  <2> QED
    BY <1>1, <1>4, <2>1, <2>3 DEF entry
<1> QED
  BY <1>1, <1>3, <1>4

\* A day that the position survived.
Survived(i) == ~Hits1(path[i]) /\ ~Hits2(path[i]) /\ ~Trails(i) /\ ~Stopped(path[i])

OutcomeInv ==
  /\ sig \in Signals
  /\ path \in Seq(Future)
  /\ outcome.win \in BOOLEAN
  /\ Fair(outcome.type, outcome.exit, outcome.win)
  /\ ExitIsFirst
  /\ outcome.type = "open" =>
       TrailOK /\ \A i \in 1..Len(path) : Survived(i)

\* The days of a path that grew.
LEMMA DayAppended ==
  ASSUME path \in Seq(Future), NEW b \in Future, path' = Append(path, b), sig' = sig
  PROVE  LET n == Len(path)
         IN /\ n \in Nat /\ path' \in Seq(Future) /\ Len(path') = n + 1
            /\ \A i \in 1..n : path[i] \in Future /\ path'[i] = path[i]
            /\ path'[n + 1] = b
BY AppendProperties

\* A new day changes nothing about the days before it.
LEMMA PastUnchanged ==
  ASSUME path \in Seq(Future), NEW b \in Future, path' = Append(path, b), sig' = sig,
         NEW i \in 1..Len(path)
  PROVE  Survived(i)' <=> Survived(i)
<1>1. \A j \in 1..i : j \in 1..Len(path) /\ path'[j] = path[j]
  BY DayAppended
<1>2. /\ Hits1(path[i])' <=> Hits1(path[i])
      /\ Hits2(path[i])' <=> Hits2(path[i])
      /\ Stopped(path[i])' <=> Stopped(path[i])
  BY <1>1 DEF Hits1, Hits2, Stopped, NoWorse, Best, Worst, Side
<1>3. \A j \in 1..i : Best(path[j])' = Best(path[j])
  BY <1>1 DEF Best, Side
<1>4. BestUpTo(i)' = BestUpTo(i)
  BY <1>3 DEF BestUpTo, NoWorse, Side
<1>5. \A j \in 1..i : Arms(Best(path[j]))' <=> Arms(Best(path[j]))
  BY <1>3 DEF Arms, Side
<1>6. \A j \in 1..i :
        GivesBack(path[i], Best(path[j]))' <=> GivesBack(path[i], Best(path[j]))
  BY <1>1, <1>3 DEF GivesBack, TrailLevel, NoWorse, Worst, Side
<1>7. Trails(i)' <=> Trails(i)
  BY <1>4, <1>5, <1>6 DEF Trails, BestUpTo
<1> QED
  BY <1>2, <1>7 DEF Survived

\* The trail follows the best price: what did not arm it is no better than what did.
LEMMA TrailStep ==
  ASSUME sig \in Signals, path \in Seq(Future), TrailOK, NEW b \in Future,
         path' = Append(path, b), sig' = sig,
         armed' = (armed \/ Arms(Best(b))), peak' = Peak(armed', b)
  PROVE  TrailOK'
<1> DEFINE n == Len(path)
<1>1. /\ n \in Nat /\ Len(path') = n + 1
      /\ \A i \in 1..n : path[i] \in Future /\ path'[i] = path[i]
      /\ path'[n + 1] = b
  BY DayAppended
<1> DEFINE best == [j \in 1..(n + 1) |-> IF j = n + 1 THEN Best(b) ELSE Best(path[j])]
<1>2. \A j \in 1..(n + 1) : Best(path[j])' = best[j] /\ best[j] \in Nat
  <2>1. \A j \in 1..n : Best(path[j])' = Best(path[j]) /\ Best(path[j]) \in Nat
    BY <1>1, BarPrices DEF Best, Side
  <2>2. \A j : j = n + 1 => Best(path[j])' = Best(b) /\ Best(b) \in Nat
    BY <1>1, BarPrices DEF Best, Side
  <2>3. \A j \in 1..(n + 1) : j \in 1..n \/ j = n + 1
    BY <1>1
  <2> QED
    BY <2>1, <2>2, <2>3
<1>3. /\ \A j \in 1..n : best[j] = Best(path[j])
      /\ best[n + 1] = Best(b)
  BY <1>1
<1> HIDE DEF best
<1>4. /\ armed => \E j \in 1..n : peak = best[j]
      /\ armed => \A j \in 1..n : NoWorse(peak, best[j])
      /\ armed => Arms(peak)
      /\ ~armed => \A j \in 1..n : ~Arms(best[j])
  BY <1>3 DEF TrailOK
<1>5. /\ \A j \in 1..(n + 1) : j \in 1..n \/ j = n + 1
      /\ \A j \in 1..n : j \in 1..(n + 1)
      /\ n + 1 \in 1..(n + 1)
  BY <1>1
<1>6. \A j \in 1..(n + 1) : best[j] \in Nat
  BY <1>2
<1>7. /\ Side = 1 \/ Side = -1
      /\ sig.entry \in Int
  BY SignalTypes
<1>8. peak' = IF armed' /\ (~armed \/ ~NoWorse(peak, best[n + 1]))
              THEN best[n + 1] ELSE peak
  BY <1>3 DEF Peak
<1>9. armed' = (armed \/ Arms(best[n + 1]))
  BY <1>3
<1>10. ASSUME NEW x \in Nat, NEW y \in Nat
       PROVE  /\ Arms(x) /\ ~NoWorse(x, y) => Arms(y)
              /\ Arms(x) /\ ~Arms(y) => NoWorse(x, y)
              /\ ~NoWorse(x, y) => NoWorse(y, x)
              /\ NoWorse(x, x)
  <2>1. CASE Side = 1
    BY <1>7, <2>1 DEF Arms, NoWorse, TrailArmPct
  <2>2. CASE Side = -1
    BY <1>7, <2>2 DEF Arms, NoWorse, TrailArmPct
  <2> QED
    BY <1>7, <2>1, <2>2
<1>11. ASSUME NEW x \in Nat, NEW y \in Nat, NEW z \in Nat, NoWorse(x, y), NoWorse(y, z)
       PROVE  NoWorse(x, z)
  BY <1>7, <1>11 DEF NoWorse
<1>12. armed => peak \in Nat
  BY <1>4, <1>5, <1>6
<1>13. armed' => Arms(peak')
  BY <1>4, <1>5, <1>6, <1>8, <1>9, <1>10, <1>12
<1>14. armed' => \E j \in 1..(n + 1) : peak' = best[j]
  BY <1>4, <1>5, <1>8
<1>15. ASSUME armed', NEW j \in 1..(n + 1) PROVE NoWorse(peak', best[j])
  <2>1. CASE armed /\ NoWorse(peak, best[n + 1])
    BY <1>4, <1>5, <1>8, <2>1
  <2>2. CASE armed /\ ~NoWorse(peak, best[n + 1])
    BY <1>4, <1>5, <1>6, <1>8, <1>15, <1>10, <1>11, <1>12, <2>2
  <2>3. CASE ~armed
    BY <1>4, <1>5, <1>6, <1>8, <1>9, <1>15, <1>10, <2>3
  <2> QED
    BY <2>1, <2>2, <2>3
<1>16. ~armed' => \A j \in 1..(n + 1) : ~Arms(best[j])
  BY <1>4, <1>5, <1>9
<1>17. armed' \in BOOLEAN
  BY DEF TrailOK, Arms
<1>18. CASE armed'
  <2>1. Arms(peak)'
    BY <1>18, <1>13 DEF Arms, Side
  <2>2. \A j \in 1..(n + 1) : NoWorse(peak, Best(path[j]))'
    BY <1>2, <1>18, <1>15 DEF NoWorse, Side
  <2>3. \E j \in 1..(n + 1) : (peak = Best(path[j]))'
    BY <1>2, <1>18, <1>14
  <2> QED
    BY <1>1, <1>17, <1>18, <2>1, <2>2, <2>3 DEF TrailOK
<1>19. CASE ~armed'
  <2>1. \A j \in 1..(n + 1) : ~Arms(Best(path[j]))'
    BY <1>2, <1>19, <1>16 DEF Arms, Side
  <2> QED
    BY <1>1, <1>17, <1>19, <2>1 DEF TrailOK
<1> QED
  BY <1>18, <1>19

\* The loop's peak gives back exactly when the best of the bars does.
LEMMA TrailsToday ==
  sig \in Signals /\ path \in Seq(Future) /\ path # << >> /\ TrailOK
    => (Trails(Len(path)) <=> armed /\ GivesBack(path[Len(path)], peak))
<1> SUFFICES ASSUME sig \in Signals, path \in Seq(Future), path # << >>, TrailOK
             PROVE  Trails(Len(path)) <=> armed /\ GivesBack(path[Len(path)], peak)
  OBVIOUS
<1> DEFINE n == Len(path)
           today == path[n]
<1>1. n \in Nat \ {0} /\ \A j \in 1..n : path[j] \in Future
  BY EmptySeq
<1>2. \A j \in 1..n : Best(path[j]) \in Nat
  BY <1>1, BarPrices
<1>3. CASE ~armed
  BY <1>3 DEF TrailOK, Trails
<1>4. CASE armed
  <2>1. PICK k \in 1..n : peak = Best(path[k])
    BY <1>4 DEF TrailOK
  <2>2. \A j \in 1..n : NoWorse(peak, Best(path[j]))
    BY <1>4 DEF TrailOK
  <2>3. k \in BestUpTo(n)
    BY <2>1, <2>2 DEF BestUpTo
  <2>4. ASSUME NEW j \in BestUpTo(n) PROVE Best(path[j]) = peak
    <3>1. j \in 1..n /\ NoWorse(Best(path[j]), peak) /\ NoWorse(peak, Best(path[j]))
      BY <2>1, <2>2 DEF BestUpTo
    <3>2. Best(path[j]) \in Nat /\ peak \in Nat
      BY <1>2, <2>1, <3>1
    <3>3. Side = 1 \/ Side = -1
      BY SignalTypes
    <3> QED
      BY <3>1, <3>2, <3>3 DEF NoWorse
  <2>5. Arms(Best(path[k]))
    BY <1>4, <2>1 DEF TrailOK
  <2> HIDE DEF n
  <2> QED
    BY <1>4, <2>1, <2>3, <2>4, <2>5 DEF Trails, n
<1> QED
  BY <1>3, <1>4

\* The same of the next state.
LEMMA TrailsTomorrow ==
  (sig \in Signals /\ path \in Seq(Future) /\ path # << >> /\ TrailOK)'
    => (Trails(Len(path)) <=> armed /\ GivesBack(path[Len(path)], peak))'
BY TrailsToday, PTL

\* One round of the loop; each way out is judged on its own.
LEMMA HoldDayStep ==
  ASSUME OutcomeInv, HoldDay
  PROVE  OutcomeInv'
<1>1. PICK b \in Future :
        /\ path' = Append(path, b)
        /\ armed' = (armed \/ Arms(Best(b)))
        /\ peak' = Peak(armed', b)
        /\ outcome' =
             IF Hits2(b) THEN Ended("target2", Len(path) + 1, sig.target2, TRUE)
             ELSE IF Hits1(b) THEN Ended("target1", Len(path) + 1, sig.target1, TRUE)
             ELSE IF armed' /\ GivesBack(b, peak')
             THEN Ended("trailing_stop", Len(path) + 1, TrailLevel(peak'), TRUE)
             ELSE IF Stopped(b) THEN Ended("stop", Len(path) + 1, sig.stop, FALSE)
             ELSE IF Len(path) + 1 = HoldDays THEN TimedOut(Len(path) + 1, b.close)
             ELSE Open
  BY DEF HoldDay
<1>2. /\ sig \in Signals /\ path \in Seq(Future) /\ sig' = sig /\ TrailOK
      /\ \A i \in 1..Len(path) : Survived(i)
  BY DEF OutcomeInv, HoldDay
<1>3. PICK last : last = Len(path) + 1
  OBVIOUS
<1>4. /\ last \in Nat /\ path' \in Seq(Future) /\ Len(path') = last
      /\ path'[last] = b /\ path' # << >>
  BY <1>1, <1>2, <1>3, DayAppended, EmptySeq
<1>5. TrailOK'
  BY <1>1, <1>2, TrailStep
<1>6. \A i \in 1..(last - 1) : Survived(i)'
  BY <1>1, <1>2, <1>3, PastUnchanged
<1>7. /\ Hits1(path[last])' <=> Hits1(b)
      /\ Hits2(path[last])' <=> Hits2(b)
      /\ Stopped(path[last])' <=> Stopped(b)
  BY <1>2, <1>4 DEF Hits1, Hits2, Stopped, NoWorse, Best, Worst, Side
<1>8. Trails(last)' <=> armed' /\ GivesBack(b, peak')
  <2>1. Trails(last)' <=> armed' /\ GivesBack(path[last], peak)'
    BY <1>2, <1>4, <1>5, TrailsTomorrow
  <2> QED
    BY <1>2, <1>4, <2>1 DEF GivesBack, TrailLevel, NoWorse, Worst, Side
<1>9. /\ b.close \in Int /\ sig.entry \in Int /\ sig.stop \in Int
      /\ sig.target1 \in Int /\ sig.target2 \in Int
      /\ \/ Side = 1 /\ sig.stop <= sig.entry /\ sig.entry <= sig.target1
         \/ Side = -1 /\ sig.stop >= sig.entry /\ sig.entry >= sig.target1
  BY <1>2, SignalTypes, BarPrices
<1>10. \A t, x, w : Fair(t, x, w)' <=> Fair(t, x, w)
  BY <1>2 DEF Fair, Side
<1> DEFINE Result(type, exit, win) == outcome' = Ended(type, last, exit, win)
<1>11. ASSUME NEW type, NEW exit, NEW win \in BOOLEAN, Result(type, exit, win),
              type \notin {"open", "no_data"},
              exit \in Int, win <=> Side * (exit - sig.entry) > 0,
              type \in {"stop", "timeout"} => ~Hits1(b) /\ ~Hits2(b) /\ ~Trails(last)',
              type = "timeout" => ~Stopped(b)
       PROVE  OutcomeInv'
  <2>1. /\ outcome'.type = type /\ outcome'.days = last /\ outcome'.exit = exit
        /\ outcome'.win = win
    BY <1>11 DEF Ended
  <2>2. \A i \in 1..last : i < last \/ i = last
    BY <1>4
  <2>3. \A i \in 1..last : i < last => i \in 1..(last - 1)
    BY <1>4
  <2>4. ExitIsFirst'
    BY <1>4, <1>6, <1>7, <1>11, <2>1, <2>2, <2>3 DEF ExitIsFirst, Survived
  <2>5. Fair(outcome.type, outcome.exit, outcome.win)'
    BY <1>10, <1>11, <2>1 DEF Fair
  <2> QED
    BY <1>2, <1>4, <1>11, <2>1, <2>4, <2>5 DEF OutcomeInv
<1>12. CASE Hits2(b)
  <2>1. Side * (sig.target2 - sig.entry) > 0
    BY <1>9, <1>12 DEF Hits2, NoWorse
  <2>2. Result("target2", sig.target2, TRUE)
    BY <1>1, <1>3, <1>12
  <2> HIDE DEF Result
  <2> QED
    BY <1>9, <1>11, <2>1, <2>2
<1>13. CASE ~Hits2(b) /\ Hits1(b)
  <2>1. Side * (sig.target1 - sig.entry) > 0
    BY <1>9, <1>13 DEF Hits1, NoWorse
  <2>2. Result("target1", sig.target1, TRUE)
    BY <1>1, <1>3, <1>13
  <2> HIDE DEF Result
  <2> QED
    BY <1>9, <1>11, <2>1, <2>2
<1>14. CASE ~Hits2(b) /\ ~Hits1(b) /\ armed' /\ GivesBack(b, peak')
  <2>1. peak' \in Nat /\ Arms(peak')
    <3>1. PICK j \in 1..last : peak' = Best(path[j])'
      BY <1>4, <1>5, <1>14 DEF TrailOK
    <3>2. path'[j] \in Future
      BY <1>4
    <3>3. peak' = Best(path'[j])
      BY <1>2, <3>1 DEF Best, Side
    <3>4. Arms(peak)'
      BY <1>5, <1>14 DEF TrailOK
    <3>5. Arms(peak)' <=> Arms(peak')
      BY <1>2 DEF Arms, Side
    <3> QED
      BY <3>2, <3>3, <3>4, <3>5, BarPrices
  <2>2. TrailLevel(peak') \in Int /\ Side * (TrailLevel(peak') - sig.entry) > 0
    BY <1>2, <2>1, TrailWins
  <2>3. Result("trailing_stop", TrailLevel(peak'), TRUE)
    BY <1>1, <1>3, <1>14
  <2> HIDE DEF Result
  <2> QED
    BY <1>11, <2>2, <2>3
<1>15. CASE ~Hits2(b) /\ ~Hits1(b) /\ ~(armed' /\ GivesBack(b, peak')) /\ Stopped(b)
  <2>1. ~ (Side * (sig.stop - sig.entry) > 0)
    BY <1>9
  <2>2. Result("stop", sig.stop, FALSE)
    BY <1>1, <1>3, <1>15
  <2> HIDE DEF Result
  <2> QED
    BY <1>8, <1>9, <1>11, <1>15, <2>1, <2>2
<1>16. CASE ~Hits2(b) /\ ~Hits1(b) /\ ~(armed' /\ GivesBack(b, peak')) /\ ~Stopped(b)
  <2>1. CASE last = HoldDays
    <3> DEFINE win == ~NoWorse(sig.entry, b.close)
    <3>1. Result("timeout", b.close, win)
      BY <1>1, <1>3, <1>16, <2>1 DEF TimedOut
    <3>2. win \in BOOLEAN /\ (win <=> Side * (b.close - sig.entry) > 0)
      BY <1>9 DEF NoWorse
    <3> HIDE DEF win, Result
    <3> QED
      BY <1>8, <1>9, <1>11, <1>16, <3>1, <3>2
  <2>2. CASE last # HoldDays
    <3>1. outcome' = Open
      BY <1>1, <1>3, <1>16, <2>2
    <3>2. Survived(last)'
      BY <1>7, <1>8, <1>16 DEF Survived
    <3>3. \A i \in 1..Len(path)' : Survived(i)'
      BY <1>4, <1>6, <3>2
    <3>4. outcome'.type = "open" /\ outcome'.win = FALSE
      BY <3>1 DEF Open
    <3> QED
      BY <1>2, <1>4, <1>5, <3>3, <3>4 DEF OutcomeInv, Fair, ExitIsFirst, Closed
  <2> QED
    BY <2>1, <2>2
<1> QED
  BY <1>12, <1>13, <1>14, <1>15, <1>16

\* The end of the bars.
LEMMA BarsEndStep ==
  ASSUME OutcomeInv, BarsEnd
  PROVE  OutcomeInv'
<1>1. /\ sig \in Signals /\ path \in Seq(Future) /\ UNCHANGED <<sig, armed, peak, path>>
      /\ \A i \in 1..Len(path) : Survived(i)
  BY DEF OutcomeInv, BarsEnd
<1>2. \A i \in 1..Len(path) : Survived(i)'
  BY <1>1 DEF Survived, Hits1, Hits2, Trails, BestUpTo, Stopped, GivesBack, TrailLevel,
              Arms, NoWorse, Best, Worst, Side
<1>3. CASE path = << >>
  <2>1. outcome' = Ended("no_data", 0, 0, FALSE)
    BY <1>3 DEF BarsEnd
  <2>2. outcome'.type = "no_data" /\ outcome'.win = FALSE
    BY <2>1 DEF Ended
  <2> QED
    BY <1>1, <2>2 DEF OutcomeInv, Fair, ExitIsFirst, Closed
<1>4. CASE path # << >>
  <2> DEFINE last == path[Len(path)]
             win == ~NoWorse(sig.entry, last.close)
  <2>1. outcome' = Ended("timeout", Len(path), last.close, win)
    BY <1>4 DEF BarsEnd, TimedOut
  <2>2. last \in Future
    BY <1>1, <1>4, EmptySeq
  <2>3. last.close \in Int /\ sig.entry \in Int /\ (Side = 1 \/ Side = -1)
    BY <1>1, <2>2, BarPrices, SignalTypes
  <2>4. win \in BOOLEAN /\ (win <=> Side * (last.close - sig.entry) > 0)
    BY <2>3 DEF NoWorse
  <2> HIDE DEF last, win
  <2>5. /\ outcome'.type = "timeout" /\ outcome'.days = Len(path)
        /\ outcome'.exit = last.close /\ outcome'.win = win
    BY <2>1 DEF Ended
  <2>6. ExitIsFirst'
    BY <1>1, <1>2, <2>5 DEF ExitIsFirst, Survived
  <2>7. Fair(outcome.type, outcome.exit, outcome.win)'
    BY <1>1, <2>3, <2>4, <2>5 DEF Fair, Side
  <2> QED
    BY <1>1, <2>4, <2>5, <2>6, <2>7 DEF OutcomeInv
<1> QED
  BY <1>3, <1>4

\* OutcomeInv is inductive.
LEMMA OutcomeInvCorrect == OutcomeSpec => []OutcomeInv
<1>1. OutcomeInit => OutcomeInv
  <2> SUFFICES ASSUME OutcomeInit PROVE OutcomeInv
    OBVIOUS
  <2>1. sig \in Signals /\ path = << >> /\ armed = FALSE /\ outcome = Open
    BY DEF OutcomeInit
  <2>2. path \in Seq(Future) /\ \A i \in 1..Len(path) : FALSE
    BY <2>1
  <2>3. outcome.type = "open" /\ outcome.win = FALSE
    BY <2>1 DEF Open
  <2> QED
    BY <2>1, <2>2, <2>3 DEF OutcomeInv, Fair, ExitIsFirst, Closed, TrailOK
<1>2. OutcomeInv /\ [OutcomeNext]_outcomeVars => OutcomeInv'
  <2> SUFFICES ASSUME OutcomeInv, [OutcomeNext]_outcomeVars PROVE OutcomeInv'
    OBVIOUS
  <2>1. CASE UNCHANGED outcomeVars
    <3>1. UNCHANGED <<sig, armed, peak, path, outcome>>
      BY <2>1 DEF outcomeVars
    <3>2. \A i : Survived(i)' <=> Survived(i)
      BY <3>1 DEF Survived, Hits1, Hits2, Trails, BestUpTo, Stopped, GivesBack,
                  TrailLevel, Arms, NoWorse, Best, Worst, Side
    <3>3. ExitIsFirst' <=> ExitIsFirst
      BY <3>1 DEF ExitIsFirst, Closed, Hits1, Hits2, Trails, BestUpTo, Stopped,
                  GivesBack, TrailLevel, Arms, NoWorse, Best, Worst, Side
    <3>4. TrailOK' <=> TrailOK
      BY <3>1 DEF TrailOK, Arms, NoWorse, Best, Side
    <3>5. Fair(outcome.type, outcome.exit, outcome.win)'
            <=> Fair(outcome.type, outcome.exit, outcome.win)
      BY <3>1 DEF Fair, Side
    <3> QED
      BY <3>1, <3>2, <3>3, <3>4, <3>5 DEF OutcomeInv
  <2> QED
    BY <2>1, HoldDayStep, BarsEndStep DEF OutcomeNext
<1> QED
  BY <1>1, <1>2, PTL DEF OutcomeSpec

\* A trade counts as won exactly when it earned something, and so does its option
\* estimate, for every signal, every bar and every holding period.
THEOREM WinIsGainCorrect == OutcomeSpec => []WinIsGain
<1>1. OutcomeInv => WinIsGain
  BY FairIsGain DEF OutcomeInv
<1> QED
  BY <1>1, OutcomeInvCorrect, PTL

\* The exit is the first one that the bars allow, for every signal and every path.
THEOREM ExitIsFirstCorrect == OutcomeSpec => []ExitIsFirst
<1>1. OutcomeInv => ExitIsFirst
  BY DEF OutcomeInv
<1> QED
  BY <1>1, OutcomeInvCorrect, PTL

-------------------------------------------------------------------------------
(* The types of the outcome.                                               *)

\* What the loop's variables are, and that the trail is armed with its peak.
OutcomeTyped ==
  /\ path \in Seq(Future) /\ Len(path) <= HoldDays
  /\ armed \in BOOLEAN /\ peak \in Nat /\ (armed <=> peak > 0)
  /\ outcome.type \in {"open", "no_data", "target1", "target2", "trailing_stop",
                       "stop", "timeout"}
  /\ outcome.days \in 0..HoldDays

\* A peak is a price of the bar that armed the trail, or of one after it.
LEMMA PeakFollowsArmed ==
  ASSUME armed \in BOOLEAN, peak \in Nat, armed <=> peak > 0,
         NEW b \in Future, NEW now \in BOOLEAN, armed => now
  PROVE  /\ Peak(now, b) \in Nat
         /\ now <=> Peak(now, b) > 0
<1>1. Best(b) \in Nat /\ Best(b) > 0
  BY BarPrices
<1>2. Peak(now, b) = Best(b) \/ Peak(now, b) = peak
  BY DEF Peak
<1>3. ~now => Peak(now, b) = peak
  BY DEF Peak
<1>4. now /\ ~armed => Peak(now, b) = Best(b)
  BY DEF Peak
<1> QED
  BY <1>1, <1>2, <1>3, <1>4

\* A round ends with one of the exits on its day, or stays open.
LEMMA HoldDayEnds ==
  ASSUME HoldDay, path \in Seq(Future)
  PROVE  /\ outcome'.type \in {"open", "target1", "target2", "trailing_stop",
                               "stop", "timeout"}
         /\ outcome'.days \in {0, Len(path) + 1}
<1>1. \/ outcome' = Open
      \/ \E type \in {"target1", "target2", "trailing_stop", "stop", "timeout"} :
           \E exit, win : outcome' = Ended(type, Len(path) + 1, exit, win)
  BY DEF HoldDay, TimedOut
<1>2. CASE outcome' = Open
  BY <1>2 DEF Open
<1>3. ASSUME NEW type \in {"target1", "target2", "trailing_stop", "stop", "timeout"},
             NEW exit, NEW win, outcome' = Ended(type, Len(path) + 1, exit, win)
      PROVE  outcome'.type = type /\ outcome'.days = Len(path) + 1
  BY <1>3 DEF Ended
<1> QED
  BY <1>1, <1>2, <1>3

\* The loop and its end keep the types.
LEMMA OutcomeTypedStep ==
  ASSUME OutcomeTyped, [OutcomeNext]_outcomeVars
  PROVE  OutcomeTyped'
<1>1. Len(path) \in Nat /\ HoldDays \in Nat /\ Len(path) <= HoldDays
  BY OutcomeAssumption DEF OutcomeTyped
<1>2. CASE HoldDay
  <2>1. PICK b \in Future : /\ path' = Append(path, b)
                            /\ armed' = (armed \/ Arms(Best(b)))
                            /\ peak' = Peak(armed', b)
    BY <1>2 DEF HoldDay
  <2>2. path' \in Seq(Future) /\ Len(path') = Len(path) + 1 /\ Len(path) < HoldDays
    BY <1>2, <2>1, AppendProperties DEF HoldDay, OutcomeTyped
  <2>3. /\ armed' \in BOOLEAN /\ (armed => armed')
        /\ peak' \in Nat /\ (armed' <=> peak' > 0)
    <3>1. armed' \in BOOLEAN /\ (armed => armed')
      BY <2>1
    <3> QED
      BY <2>1, <3>1, PeakFollowsArmed DEF OutcomeTyped
  <2>4. /\ outcome'.type \in {"open", "target1", "target2", "trailing_stop",
                              "stop", "timeout"}
        /\ outcome'.days \in {0, Len(path) + 1}
    BY <1>2, HoldDayEnds DEF OutcomeTyped
  <2> QED
    BY <1>1, <2>2, <2>3, <2>4 DEF OutcomeTyped
<1>3. CASE BarsEnd
  <2>1. UNCHANGED <<armed, peak, path>>
    BY <1>3 DEF BarsEnd
  <2>2. \/ outcome' = Ended("no_data", 0, 0, FALSE)
        \/ \E exit, win : outcome' = Ended("timeout", Len(path), exit, win)
    BY <1>3 DEF BarsEnd, TimedOut
  <2>3. outcome'.type \in {"no_data", "timeout"} /\ outcome'.days \in {0, Len(path)}
    BY <2>2 DEF Ended
  <2> QED
    BY <1>1, <2>1, <2>3 DEF OutcomeTyped
<1>4. CASE UNCHANGED outcomeVars
  BY <1>4 DEF outcomeVars, OutcomeTyped
<1> QED
  BY <1>2, <1>3, <1>4 DEF OutcomeNext

\* The loop starts with them.
LEMMA OutcomeTypedInit ==
  ASSUME OutcomeInit
  PROVE  OutcomeTyped
<1>1. path = << >> /\ armed = FALSE /\ peak = 0 /\ outcome = Open
  BY DEF OutcomeInit
<1>2. path \in Seq(Future) /\ Len(path) = 0 /\ HoldDays \in Nat
  BY <1>1, OutcomeAssumption
<1>3. outcome.type = "open" /\ outcome.days = 0 /\ 0 \in 0..HoldDays
  BY <1>1, <1>2 DEF Open
<1>4. armed \in BOOLEAN /\ peak \in Nat /\ (armed <=> peak > 0)
  <2>1. ~ (peak > 0) /\ peak \in Nat
    BY <1>1
  <2> QED
    BY <1>1, <2>1, Zenon
<1>5. 0 <= HoldDays
  BY <1>2
<1> QED
  BY <1>2, <1>3, <1>4, <1>5, Zenon DEF OutcomeTyped

\* For every signal and every path, the loop ends within its holding period and a
\* trailing peak is there exactly when the trail is armed.
THEOREM OutcomeTypeCorrect == OutcomeSpec => []OutcomeTypeOK
<1>1. OutcomeInit => OutcomeTyped
  BY OutcomeTypedInit
<1>2. OutcomeTyped /\ [OutcomeNext]_outcomeVars => OutcomeTyped'
  BY OutcomeTypedStep
<1>3. OutcomeTyped => OutcomeTypeOK
  BY DEF OutcomeTyped, OutcomeTypeOK
<1> QED
  BY <1>1, <1>2, <1>3, PTL DEF OutcomeSpec

-------------------------------------------------------------------------------
(* The three programs side by side.                                        *)

\* The program that runs keeps its types, and the others stay as they started.
ResearchTyped ==
  \/ tool = "screen" /\ ScreenTyped /\ OutcomeIdle /\ WalkIdle
  \/ tool = "backtest" /\ ScreenIdle /\ OutcomeTyped /\ WalkIdle
  \/ tool = "research" /\ ScreenIdle /\ OutcomeIdle /\ WalkTyped

\* A program that does not run has variables of the right types too.
LEMMA IdleIsTyped ==
  /\ ScreenIdle => ScreenTypeOK
  /\ OutcomeIdle => OutcomeTypeOK
  /\ WalkIdle => WalkTypeOK
<1>1. ScreenIdle => ScreenTypeOK
  <2> SUFFICES ASSUME ScreenIdle PROVE ScreenTypeOK
    OBVIOUS
  <2>1. chart.bars = << >> /\ row = NoRow /\ verdict = NoVerdict /\ heard = {}
    BY DEF ScreenIdle
  <2>2. Len(chart.bars) <= ChartBars
    BY <2>1 DEF ChartBars
  <2>3. row.status = "none" /\ verdict.status = "none"
    BY <2>1 DEF NoRow, NoVerdict
  <2> QED
    BY <2>1, <2>2, <2>3, Zenon DEF ScreenTypeOK
<1>2. OutcomeIdle => OutcomeTypeOK
  <2> SUFFICES ASSUME OutcomeIdle PROVE OutcomeTypeOK
    OBVIOUS
  <2>1. armed = FALSE /\ peak = 0 /\ path = << >> /\ outcome = Open
    BY DEF OutcomeIdle
  <2>2. /\ outcome.type = "open" /\ outcome.days \in 0..HoldDays
        /\ Len(path) <= HoldDays /\ ~ (peak > 0)
    BY <2>1, OutcomeAssumption DEF Open
  <2> QED
    BY <2>1, <2>2, Zenon DEF OutcomeTypeOK
<1>3. WalkIdle => WalkTypeOK
  <2> SUFFICES ASSUME WalkIdle PROVE WalkTypeOK
    OBVIOUS
  <2>1. /\ records = << >> /\ config = 1 /\ start = 0 /\ results = << >>
        /\ report = "none"
    BY DEF WalkIdle
  <2>2. Len(Grid) \in Nat
    BY WalkAssumption
  <2>3. config \in 1..(Len(Grid) + 1) /\ start \in 0..Len(records)
    BY <2>1, <2>2
  <2>4. Len(results) = config - 1
    BY <2>1
  <2> QED
    BY <2>1, <2>3, <2>4, Zenon DEF WalkTypeOK
<1> QED
  BY <1>1, <1>2, <1>3

\* Whichever program runs, all three keep their types.
THEOREM ResearchTypeCorrect == Spec => []TypeOK
<1>1. Init => ResearchTyped
  BY ScreenTypedInit, OutcomeTypedInit, WalkTypedInit, Zenon DEF Init, ResearchTyped
<1>2. ResearchTyped /\ [Next]_researchVars => ResearchTyped'
  <2> SUFFICES ASSUME ResearchTyped, [Next]_researchVars PROVE ResearchTyped'
    OBVIOUS
  <2>1. CASE tool = "screen" /\ ScreenNext /\ UNCHANGED <<tool, outcomeVars, walkVars>>
    <3>1. ScreenTyped' /\ OutcomeIdle' /\ WalkIdle' /\ tool' = "screen"
      <4>1. ScreenTyped /\ OutcomeIdle /\ WalkIdle
        BY <2>1 DEF ResearchTyped
      <4> QED
        BY <2>1, <4>1, ScreenTypedStep DEF OutcomeIdle, WalkIdle, outcomeVars, walkVars
    <3> QED
      BY <3>1, Zenon DEF ResearchTyped
  <2>2. CASE tool = "backtest" /\ OutcomeNext /\ UNCHANGED <<tool, screenVars, walkVars>>
    <3>1. ScreenIdle' /\ OutcomeTyped' /\ WalkIdle' /\ tool' = "backtest"
      <4>1. ScreenIdle /\ OutcomeTyped /\ WalkIdle
        BY <2>2 DEF ResearchTyped
      <4> QED
        BY <2>2, <4>1, OutcomeTypedStep DEF ScreenIdle, WalkIdle, screenVars, walkVars
    <3> QED
      BY <3>1, Zenon DEF ResearchTyped
  <2>3. CASE tool = "research" /\ WalkNext /\ UNCHANGED <<tool, screenVars, outcomeVars>>
    <3>1. ScreenIdle' /\ OutcomeIdle' /\ WalkTyped' /\ tool' = "research"
      <4>1. ScreenIdle /\ OutcomeIdle /\ WalkTyped
        BY <2>3 DEF ResearchTyped
      <4> QED
        BY <2>3, <4>1, WalkTypedStep DEF ScreenIdle, OutcomeIdle, screenVars, outcomeVars
    <3> QED
      BY <3>1, Zenon DEF ResearchTyped
  <2>4. CASE UNCHANGED researchVars
    <3>1. /\ tool' = tool /\ UNCHANGED screenVars /\ UNCHANGED outcomeVars
          /\ UNCHANGED walkVars
      BY <2>4 DEF researchVars
    <3>2. ScreenIdle' = ScreenIdle /\ OutcomeIdle' = OutcomeIdle /\ WalkIdle' = WalkIdle
      BY <3>1 DEF ScreenIdle, OutcomeIdle, WalkIdle, screenVars, outcomeVars, walkVars
    <3> QED
      BY <3>1, <3>2, ScreenTypedStep, OutcomeTypedStep, WalkTypedStep DEF ResearchTyped
  <2> QED
    BY <2>1, <2>2, <2>3, <2>4 DEF Next
<1>3. ResearchTyped => TypeOK
  <2>1. OutcomeTyped => OutcomeTypeOK
    BY DEF OutcomeTyped, OutcomeTypeOK
  <2> QED
    BY <2>1, IdleIsTyped, ScreenTypedIsOK, WalkTypedIsOK, Zenon DEF ResearchTyped, TypeOK
<1> QED
  BY <1>1, <1>2, <1>3, PTL DEF Spec
================================================================================
