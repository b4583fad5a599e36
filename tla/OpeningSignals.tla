---------------------------- MODULE OpeningSignals ----------------------------
(***************************************************************************)
(* The verdicts on a ticker's opening bars (internal/strategy/             *)
(* confirmation.go): EvaluateConfirmation for every candidate and          *)
(* EvaluateExhaustionRejection for a bearish_exhaustion_reversal.          *)
(* Prices are integers.  Of SPY's bars the code reads the first open and   *)
(* the last close; both are 0 when there is no bar.  "zone" is             *)
(* entry_low + entry_high, twice the midpoint; zone and stop are 0 when    *)
(* the scan stored none.  The checks are those strategy_rules.yaml turns   *)
(* on: all of them, with the required and optional scheme.  Which          *)
(* auto-reject is recorded first, and the legacy count of signals, are     *)
(* left out.                                                               *)
(***************************************************************************)
EXTENDS Integers, Sequences, FiniteSetsExt

CONSTANTS
  MinOptional,     \* min_optional_signals
  MinBars          \* bars that opening_volume_support asks for (3 in the code)

ASSUME SignalsAssumption == MinOptional \in 1..3 /\ MinBars \in Nat \ {0}

-------------------------------------------------------------------------------
(* The opening range.                                                      *)

Last(w)      == w[Len(w)]
RangeHigh(w) == Max({w[i].high : i \in DOMAIN w})
RangeLow(w)  == Min({w[i].low : i \in DOMAIN w})
RangeSize(w) == RangeHigh(w) - RangeLow(w)
TwiceMid(w)  == RangeHigh(w) + RangeLow(w)

Total(f)       == FoldFunction(+, 0, f)
Volumes(w)     == [i \in DOMAIN w |-> w[i].volume]
TotalVolume(w) == Total(Volumes(w))
Turnover(w)    == Total([i \in DOMAIN w |-> w[i].close * w[i].volume])

Body(b)      == IF b.close >= b.open THEN b.close - b.open ELSE b.open - b.close
BodyTop(b)   == IF b.close >= b.open THEN b.close ELSE b.open
BodyFloor(b) == IF b.close <= b.open THEN b.close ELSE b.open

-------------------------------------------------------------------------------
(* Auto-rejects: each alone turns the candidate away.                      *)

\* Mutant of LevelLost: looks at the last bar only.
LastBarLost(row, w) ==
  /\ w # << >>
  /\ \/ row.bullish /\ Last(w).close < row.stop
     \/ ~row.bullish /\ Last(w).close > row.stop

LevelLost(row, w) ==
  \E i \in DOMAIN w :
    \/ row.bullish /\ w[i].close < row.stop
    \/ ~row.bullish /\ w[i].close > row.stop

WeakClose(row, w) ==
  /\ RangeSize(w) > 0
  /\ \/ row.bullish /\ 4 * (Last(w).close - RangeLow(w)) < RangeSize(w)
     \/ ~row.bullish /\ 4 * (RangeHigh(w) - Last(w).close) < RangeSize(w)

\* Mutant of HardReversal: for puts, compared with the first close.
ReversalFromClose(row, w) ==
  \/ /\ row.bullish
     /\ w[1].close > w[1].open
     /\ Last(w).close < w[1].open
  \/ /\ ~row.bullish
     /\ w[1].close < w[1].open
     /\ Last(w).close > w[1].close

HardReversal(row, w) ==
  \/ /\ row.bullish
     /\ w[1].close > w[1].open
     /\ Last(w).close < w[1].open
  \/ /\ ~row.bullish
     /\ w[1].close < w[1].open
     /\ Last(w).close > w[1].open

\* More than half a percent against the trade.
MarketShock(row, spy) ==
  /\ spy.open > 0
  /\ \/ row.bullish /\ 200 * (spy.close - spy.open) < -spy.open
     \/ ~row.bullish /\ 200 * (spy.close - spy.open) > spy.open

\* The last bar traded against us on more than one and a half times the average.
RejectionVolume(row, w) ==
  /\ Len(w) > 1
  /\ 2 * Last(w).volume * Len(w) > 3 * TotalVolume(w)
  /\ \/ row.bullish /\ Last(w).close < Last(w).open
     \/ ~row.bullish /\ Last(w).close > Last(w).open

AutoRejected(row, w, spy) ==
  \/ w = << >>
  \/ LevelLost(row, w)
  \/ WeakClose(row, w)
  \/ HardReversal(row, w)
  \/ MarketShock(row, spy)
  \/ RejectionVolume(row, w)

-------------------------------------------------------------------------------
(* Signals.                                                                *)

\* With no zone stored the first two comparisons are made with zero.
LevelHolds(row, w) ==
  \/ row.bullish /\ 2 * Last(w).close >= row.zone
  \/ ~row.bullish /\ 2 * Last(w).close <= row.zone
  \/ /\ row.zone = 0
     /\ \/ row.bullish /\ 2 * Last(w).close >= TwiceMid(w)
        \/ ~row.bullish /\ 2 * Last(w).close <= TwiceMid(w)

MidpointClose(row, w) ==
  \/ row.bullish /\ 2 * Last(w).close > TwiceMid(w)
  \/ ~row.bullish /\ 2 * Last(w).close < TwiceMid(w)

\* A doji has no body and passes.
NoRejection(row, w) ==
  \/ Body(w[1]) = 0
  \/ row.bullish /\ 2 * (w[1].high - BodyTop(w[1])) < Body(w[1])
  \/ ~row.bullish /\ 2 * (BodyFloor(w[1]) - w[1].low) < Body(w[1])

\* An unknown volume of the previous day (0) asks for nothing.
VolumeSupports(row, w) ==
  /\ Len(w) >= MinBars
  /\ TotalVolume(w) > 0
  /\ TotalVolume(w) >= row.prevVolume \div 50

\* Mutant of MarketAligned: a flat market agrees with everything.
NotAgainstMarket(row, spy) ==
  \/ row.bullish /\ spy.close >= spy.open
  \/ ~row.bullish /\ spy.close <= spy.open

MarketAligned(row, spy) ==
  \/ row.bullish /\ spy.close > spy.open
  \/ ~row.bullish /\ spy.close < spy.open

OptionalPassed(row, w) ==
  (IF VolumeSupports(row, w) THEN 1 ELSE 0)
  + (IF NoRejection(row, w) THEN 1 ELSE 0)
  + (IF MidpointClose(row, w) THEN 1 ELSE 0)

\* The result's status is "confirmed".
Confirmed(row, w, spy) ==
  /\ ~AutoRejected(row, w, spy)
  /\ LevelHolds(row, w)
  /\ MarketAligned(row, spy)
  /\ OptionalPassed(row, w) >= MinOptional

-------------------------------------------------------------------------------
(* EvaluateExhaustionRejection: puts on an overextended name.              *)

\* A lower wick of at least 40% of some bar: the buyers defended the price.
RecoveryWick(w) ==
  \E i \in DOMAIN w :
    /\ w[i].high > w[i].low
    /\ 10 * (BodyFloor(w[i]) - w[i].low) >= 4 * (w[i].high - w[i].low)

BelowVWAP(w) ==
  /\ Turnover(w) > 0
  /\ Last(w).close * TotalVolume(w) < Turnover(w)

\* 1.3 times the pace of a day of 39 slices; an unknown volume passes.
SellersTookPart(row, w) ==
  row.prevVolume > 0 => 390 * TotalVolume(w) >= 13 * row.prevVolume

NotStronglyBullish(spy) == 1000 * (spy.close - spy.open) < 3 * spy.open \/ spy.open = 0

RejectionConfirmed(row, w, spy) ==
  /\ w # << >>
  /\ ~RecoveryWick(w)
  /\ BelowVWAP(w) \/ 2 * Last(w).close < TwiceMid(w)
  /\ SellersTookPart(row, w)
  /\ NotStronglyBullish(spy)
===============================================================================
