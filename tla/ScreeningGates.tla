---------------------------- MODULE ScreeningGates ----------------------------
(***************************************************************************)
(* EvaluateRSVE (internal/strategy/rsve.go): the gates that a ticker's     *)
(* daily bars have to pass, in either direction, and the ranking score.    *)
(*                                                                         *)
(* "in" is the input of one evaluation:                                    *)
(*   bars, ind   the ticker's bars and the inputs of ChartPatterns         *)
(*   older       how many bars there are before those in "bars"; only the  *)
(*               tests on the number of bars see them                      *)
(*   vix, earnings      as in RSVEInput (earnings -1: unknown)             *)
(*   spyReturn   SPY's 20-day return in percent, or Unknown                *)
(*   spyTrend    the set of what SPY's close shows: "uptrend" above its     *)
(*               EMA50, "downtrend" below its EMA20; one does not exclude  *)
(*               the other                                                 *)
(*   structure   EMA20 against EMA50: "up", "down", "flat" or "unknown"    *)
(*   bb          as ind.bb, for the bars up to today's                     *)
(*   options     ivRank, spread, interest and volume of the target         *)
(*               contract, -1 when unavailable                             *)
(***************************************************************************)
EXTENDS ChartPatterns

CONSTANTS
  Config,            \* rsve.bullish and rsve.bearish: vixMax, rsMin, lookback,
                     \* bbMax (percent), volumeMin (tenths), blackout
  Limits,            \* rsve.options: ivRank, spread, interest, volume
  PatternsEnabled,   \* pattern_analysis.enabled
  PatternRequired,   \* pattern_analysis.required_for_trade
  ScoreWeight        \* pattern_analysis.pattern_score_weight

ASSUME ConfigAssumption ==
  /\ Config \in [Directions -> [vixMax : Nat, rsMin : Nat, lookback : Nat \ {0},
                                bbMax : 0..100, volumeMin : Nat, blackout : Nat]]
  /\ Limits \in [ivRank : Nat \ {0}, spread : Nat \ {0},
                 interest : Nat \ {0}, volume : Nat \ {0}]
  /\ PatternsEnabled \in BOOLEAN /\ PatternRequired \in BOOLEAN
  /\ ScoreWeight \in 1..15

Unknown == 1000

Statuses == {"rejected", "stock_signal_passed", "option_blocked",
             "paper_trade_created"}

-------------------------------------------------------------------------------
(* The stock gates.  Prices of the bars are positive, so that a return and *)
(* a distance from a pivot are defined.                                    *)

Sign(direction) == IF direction = "bullish" THEN 1 ELSE -1
Close(in)       == in.bars[Len(in.bars)].close
BarCount(in)    == in.older + Len(in.bars)

VIXRegime(in, direction) == in.vix < Config[direction].vixMax

MarketDirection(in, direction) ==
  (IF direction = "bullish" THEN "uptrend" ELSE "downtrend") \in in.spyTrend

NoEarnings(in, direction) ==
  in.earnings < 0 \/ in.earnings > Config[direction].blackout

\* The return over twenty days, less SPY's, is Strength / Anchor percent.
Anchor(in)   == in.bars[Len(in.bars) - 20].close
Strength(in) == 100 * (Close(in) - Anchor(in)) - in.spyReturn * Anchor(in)
HasStrength(in) == Len(in.bars) >= 21 /\ in.spyReturn # Unknown

RelativeStrength(in, direction) ==
  /\ HasStrength(in)
  /\ Sign(direction) * Strength(in) >= Config[direction].rsMin * Anchor(in)

EMAStructure(in, direction) ==
  in.structure = IF direction = "bullish" THEN "up" ELSE "down"

\* Today's volume against the mean of the twenty days before it.
PriorVolume(in) == Volume(in.bars, Len(in.bars) - 20, Len(in.bars) - 1)
HasVolumeRatio(in) == Len(in.bars) >= 21 /\ PriorVolume(in) > 0
TodayTwenty(in) == 20 * in.bars[Len(in.bars)].volume

VolumeExpansion(in, direction) ==
  /\ HasVolumeRatio(in)
  /\ 10 * TodayTwenty(in) >= Config[direction].volumeMin * PriorVolume(in)

VolSqueeze(in, direction) ==
  in.bb >= 0 /\ 100 * in.bb <= Config[direction].bbMax * Widths

\* Mutant of BreakoutTrigger: the lookback ends today.
BreakoutTriggerToday(in, direction) ==
  LET n == Len(in.bars)
      prior == Max({1, n - Config[direction].lookback + 1})..n
  IN /\ BarCount(in) >= Config[direction].lookback + 1
     /\ \A i \in prior : IF direction = "bullish"
                         THEN Close(in) > in.bars[i].high
                         ELSE Close(in) < in.bars[i].low

\* The close is beyond every bar of the lookback that ended yesterday.
BreakoutTrigger(in, direction) ==
  LET n == Len(in.bars)
      prior == Max({1, n - Config[direction].lookback})..(n - 1)
  IN /\ BarCount(in) >= Config[direction].lookback + 1
     /\ \A i \in prior : IF direction = "bullish"
                         THEN Close(in) > in.bars[i].high
                         ELSE Close(in) < in.bars[i].low

Gate(name, passed) == [name |-> name, passed |-> passed]

\* In the order in which appendGate is called; "analysis" is that of the patterns.
StockGates(in, direction, analysis) ==
  LET bull == direction = "bullish"
  IN << Gate("vix_regime", VIXRegime(in, direction)),
        Gate(IF bull THEN "market_uptrend" ELSE "market_downtrend",
             MarketDirection(in, direction)),
        Gate("no_earnings", NoEarnings(in, direction)),
        Gate(IF bull THEN "relative_strength" ELSE "relative_weakness",
             RelativeStrength(in, direction)),
        Gate(IF bull THEN "ema_structure_bullish" ELSE "ema_structure_bearish",
             EMAStructure(in, direction)),
        Gate("volume_expansion", VolumeExpansion(in, direction)),
        Gate("vol_squeeze", VolSqueeze(in, direction)),
        Gate(IF bull THEN "breakout_trigger" ELSE "breakdown_trigger",
             BreakoutTrigger(in, direction)) >>
     \o IF PatternsEnabled /\ PatternRequired
        THEN << Gate("pattern_required", analysis.detected) >>
        ELSE << >>

-------------------------------------------------------------------------------
(* The option gates.                                                       *)

\* Mutant of OptionDataMissing: off by one at the value that says so.
OptionDataMissingBelow(in) ==
  \/ in.options.ivRank < -1
  \/ in.options.spread < -1
  \/ in.options.interest < -1
  \/ in.options.volume < -1

OptionDataMissing(in) ==
  \/ in.options.ivRank < 0
  \/ in.options.spread < 0
  \/ in.options.interest < 0
  \/ in.options.volume < 0

\* Each of them would let an unavailable value pass.
OptionGates(in) ==
  LET AtMost(value, limit)  == value < 0 \/ value <= limit
      AtLeast(value, limit) == value < 0 \/ value >= limit
  IN << Gate("iv_rank_ok", AtMost(in.options.ivRank, Limits.ivRank)),
        Gate("spread_quality", AtMost(in.options.spread, Limits.spread)),
        Gate("oi_minimum", AtLeast(in.options.interest, Limits.interest)),
        Gate("option_volume", AtLeast(in.options.volume, Limits.volume)) >>

Failures(gates) == {i \in DOMAIN gates : ~gates[i].passed}

\* Mutant of RejectGate: each failure overwrites the one before it.
RejectGateLast(gates) ==
  IF Failures(gates) = {} THEN "" ELSE gates[Max(Failures(gates))].name

\* appendGate marks the first failure as the blocking one.
RejectGate(gates) ==
  IF Failures(gates) = {} THEN "" ELSE gates[Min(Failures(gates))].name

-------------------------------------------------------------------------------
(* The score, in thousandths of a point until it is rounded to tenths.     *)

StrengthScore(in, direction) ==
  LET rs == Sign(direction) * Strength(in)
      unit == Anchor(in)
  IN CASE rs >= 10 * unit -> 25000
       [] rs >= 6 * unit /\ rs < 10 * unit ->
            15000 + ((rs - 6 * unit) * 2500) \div unit
       [] rs >= 2 * unit /\ rs < 6 * unit -> ((rs - 2 * unit) * 3750) \div unit
       [] OTHER -> 0

SqueezeScore(in) == Max({0, 20000 * (30 * Widths - 100 * in.bb)}) \div (30 * Widths)

\* One bar more than the gate asks for.
BreakoutScore(in, direction) ==
  LET n == Len(in.bars)
      first == Max({1, n - Config[direction].lookback})
      pivot == IF direction = "bullish" THEN HighestHigh(in.bars, first, n - 1)
                                        ELSE LowestLow(in.bars, first, n - 1)
      clear == 100 * Sign(direction) * (Close(in) - pivot)
  IN CASE BarCount(in) <= Config[direction].lookback + 1 -> 0
       [] BarCount(in) > Config[direction].lookback + 1 /\ clear >= 3 * pivot -> 20000
       [] /\ BarCount(in) > Config[direction].lookback + 1
          /\ clear >= pivot /\ clear < 3 * pivot -> ((clear - pivot) * 10000) \div pivot
       [] OTHER -> 0

VolumeScore(in) ==
  LET today == TodayTwenty(in)
      prior == PriorVolume(in)
  IN CASE today >= 3 * prior -> 15000
       [] today >= 2 * prior /\ today < 3 * prior ->
            8000 + ((today - 2 * prior) * 7000) \div prior
       [] 10 * today >= 12 * prior /\ today < 2 * prior ->
            ((10 * today - 12 * prior) * 1000) \div prior
       [] OTHER -> 0

LiquidityScore(in) ==
  Min({5000,
       (IF in.options.ivRank <= Limits.ivRank
        THEN (2000 * (Limits.ivRank - in.options.ivRank)) \div Limits.ivRank ELSE 0)
       + (IF in.options.spread <= Limits.spread
          THEN (2000 * (Limits.spread - in.options.spread)) \div Limits.spread ELSE 0)
       + Points(in.options.volume >= 2 * Limits.volume, 1000)})

RankScore(in, direction, analysis) ==
  LET score ==
        (IF HasStrength(in) THEN StrengthScore(in, direction) ELSE 0)
        + (IF in.bb >= 0 THEN SqueezeScore(in) ELSE 0)
        + BreakoutScore(in, direction)
        + (IF HasVolumeRatio(in) THEN VolumeScore(in) ELSE 0)
        + (IF PatternsEnabled /\ analysis.detected
           THEN 10 * analysis.best.quality * ScoreWeight ELSE 0)
        + (IF OptionDataMissing(in) THEN 0 ELSE LiquidityScore(in))
  IN (Min({score, 100000}) + 50) \div 100

-------------------------------------------------------------------------------
(* One direction, and the choice between the two.                          *)

NoAnalysis == [best |-> NoPattern, detected |-> FALSE]

\* The patterns of both directions on one chart.
Analyses(bars, ind) ==
  IF PatternsEnabled
  THEN [bullish |-> AnalyzePatterns(bars, ind, "bullish"),
        bearish |-> AnalyzePatterns(bars, ind, "bearish")]
  ELSE [bullish |-> NoAnalysis, bearish |-> NoAnalysis]

EvaluateBranch(in, direction, analysis) ==
  LET stock == StockGates(in, direction, analysis)
      all   == stock \o OptionGates(in)
      state == IF ~analysis.detected THEN "no_pattern"
               ELSE IF BreakoutTrigger(in, direction)
                    THEN "pattern_breakout_confirmed" ELSE "pattern_forming"
      Result(status, gates, score) ==
        [direction |-> direction, status |-> status, gates |-> gates,
         allPass |-> status = "paper_trade_created", score |-> score,
         rejectGate |-> RejectGate(gates), pattern |-> analysis.best,
         patternState |-> state]
  IN IF Failures(stock) # {}
     THEN Result("rejected", stock, 0)
     ELSE IF OptionDataMissing(in)
     THEN Result("stock_signal_passed", stock, RankScore(in, direction, analysis))
     ELSE IF Failures(all) # {}
     THEN Result("option_blocked", all, 0)
     ELSE Result("paper_trade_created", all, RankScore(in, direction, analysis))

StatusRank(result) ==
  CASE result.status = "paper_trade_created" -> 3
    [] result.status = "stock_signal_passed" -> 2
    [] result.status = "option_blocked"      -> 1
    [] result.status = "rejected"            -> 0

Choose(bull, bear) ==
  IF StatusRank(bull) # StatusRank(bear)
  THEN IF StatusRank(bull) > StatusRank(bear) THEN bull ELSE bear
  ELSE IF bull.allPass /\ bear.allPass
  THEN IF bull.score >= bear.score THEN bull ELSE bear
  ELSE IF Cardinality(Failures(bull.gates)) <= Cardinality(Failures(bear.gates))
       THEN bull ELSE bear

EvaluateRSVE(in, analyses) ==
  Choose(EvaluateBranch(in, "bullish", analyses.bullish),
         EvaluateBranch(in, "bearish", analyses.bearish))
================================================================================
