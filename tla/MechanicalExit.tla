---------------------------- MODULE MechanicalExit ----------------------------
(***************************************************************************)
(* The pure exit evaluator of internal/risk/options.go.  A position is a   *)
(* record with the fields the evaluator reads:                             *)
(*   premium     option premium paid at entry (0 = not recorded)           *)
(*   peak        high-water mark loaded from the row (0 = no check yet)    *)
(*   trailing    whether the trailing stop was already armed               *)
(*   days        whole days since entry                                    *)
(*   direction   "bullish" (a call) or "bearish" (a put)                   *)
(*   level       structure level, already defaulted by StructureLevel      *)
(*   underlying  latest quote of the underlying (0 = the fetch failed)     *)
(* Money is a natural number of price ticks; the float percentages of the  *)
(* code become exact integer comparisons against rule percentages.         *)
(***************************************************************************)
EXTENDS Integers

CONSTANTS
  ExitsEnabled,        \* mechanical_exits.enabled
  StopLossPct,         \* premium_stop_loss_pct
  TakeProfitPct,       \* premium_take_profit_pct
  TrailingStartPct,    \* premium_trailing_start_pct
  GivebackPct,         \* premium_trailing_giveback_pct
  TimeStopDays,        \* time_stop_days (0 = rule off)
  MaxHoldDays          \* max_hold_days_without_reconfirm (0 = rule off)

ASSUME ExitRulesAssumption ==
  /\ ExitsEnabled \in BOOLEAN
  /\ StopLossPct \in 0..100
  /\ GivebackPct \in 0..100
  /\ TakeProfitPct \in Nat
  /\ TrailingStartPct \in Nat
  /\ TimeStopDays \in Nat
  /\ MaxHoldDays \in Nat

NoExit == "none"

\* The order in which the evaluator tries its rules; the first match wins.
Priority ==
  << "PREMIUM_STOP_LOSS", "PREMIUM_TAKE_PROFIT", "PREMIUM_TRAILING_GIVEBACK",
     "TIME_STOP_NO_FOLLOWTHROUGH", "MAX_HOLD_DAYS_REACHED",
     "STRUCTURE_INVALIDATION" >>

ExitReasons == {Priority[i] : i \in 1..6}

\* Mutants of RaisedPeak: the latest price instead of the highest; raised only
\* once the trailing stop is armed; gains added up.
PeakIsLatest(pos, mid)      == mid
PeakRaisedIfArmed(pos, mid) == IF pos.trailing /\ mid > pos.peak THEN mid ELSE pos.peak
PeakAddsUp(pos, mid)        == IF mid > pos.peak THEN pos.peak + mid ELSE pos.peak

\* The high-water mark is raised before any rule is looked at.
RaisedPeak(pos, mid) == IF mid > pos.peak THEN mid ELSE pos.peak

\* The premium is up by the trailing-start percentage or more.
FollowedThrough(premium, mid) ==
  100 * (mid - premium) >= TrailingStartPct * premium

\* Mutant of Armed: forgets that an earlier check armed it.
ArmedNow(pos, mid) == FollowedThrough(pos.premium, mid)

Armed(pos, mid) == pos.trailing \/ FollowedThrough(pos.premium, mid)

StopLossHit(premium, mid)   == 100 * mid <= premium * (100 - StopLossPct)
TakeProfitHit(premium, mid) == 100 * mid >= premium * (100 + TakeProfitPct)
GivenBack(peak, mid)        == peak > 0 /\ 100 * mid <= peak * (100 - GivebackPct)

\* Mutant of TimeStopHit: asks only whether this price follows through.
TimeStopHitNow(pos, mid) ==
  TimeStopDays > 0 /\ pos.days >= TimeStopDays /\ ~FollowedThrough(pos.premium, mid)

TimeStopHit(pos, mid) ==
  TimeStopDays > 0 /\ pos.days >= TimeStopDays /\ ~Armed(pos, mid)

\* Mutants of MaxHoldReached: off by one; spares a running trailing stop.
MaxHoldPassed(pos)         == MaxHoldDays > 0 /\ pos.days > MaxHoldDays
MaxHoldReachedIfIdle(pos)  == MaxHoldDays > 0 /\ pos.days >= MaxHoldDays /\ ~pos.trailing

MaxHoldReached(pos) == MaxHoldDays > 0 /\ pos.days >= MaxHoldDays

StructureBroken(pos) ==
  /\ pos.underlying > 0
  /\ pos.level > 0
  /\ \/ pos.direction = "bullish" /\ pos.underlying < pos.level
     \/ pos.direction = "bearish" /\ pos.underlying > pos.level

\* Whether one rule, taken alone, asks for an exit.
Fires(rule, pos, mid) ==
  \/ rule = "PREMIUM_STOP_LOSS" /\ StopLossHit(pos.premium, mid)
  \/ rule = "PREMIUM_TAKE_PROFIT" /\ TakeProfitHit(pos.premium, mid)
  \/ /\ rule = "PREMIUM_TRAILING_GIVEBACK"
     /\ Armed(pos, mid)
     /\ GivenBack(RaisedPeak(pos, mid), mid)
  \/ rule = "TIME_STOP_NO_FOLLOWTHROUGH" /\ TimeStopHit(pos, mid)
  \/ rule = "MAX_HOLD_DAYS_REACHED" /\ MaxHoldReached(pos)
  \/ rule = "STRUCTURE_INVALIDATION" /\ StructureBroken(pos)

\* The first rule, in the order of the returns, that asks for an exit.
FirstMatch(pos, mid) ==
  LET hits == {i \in 1..6 : Fires(Priority[i], pos, mid)}
  IN  IF hits = {} THEN NoExit
      ELSE Priority[CHOOSE i \in hits : \A j \in hits : i <= j]

\* The checks that make the evaluator return its input untouched.
Evaluable(pos, mid) == ExitsEnabled /\ pos.premium > 0 /\ mid > 0

(***************************************************************************)
(* EvaluateMechanicalExit: what the caller must persist (peak, trailing)   *)
(* and the reason to exit, NoExit to hold.                                 *)
(***************************************************************************)
Evaluate(pos, mid) ==
  IF Evaluable(pos, mid)
  THEN [reason |-> FirstMatch(pos, mid),
        peak |-> RaisedPeak(pos, mid), trailing |-> Armed(pos, mid)]
  ELSE [reason |-> NoExit, peak |-> pos.peak, trailing |-> pos.trailing]

(***************************************************************************)
(* The level runMechanicalChecks hands the evaluator: the row's level, or  *)
(* the row's entry price (the option premium) when the level is not set.   *)
(***************************************************************************)
StructureLevel(level, entry) == IF level <= 0 THEN entry ELSE level
===============================================================================
