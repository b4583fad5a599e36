------------------------------- MODULE RiskPath -------------------------------
(***************************************************************************)
(* One open option position and the sequence of mechanical checks made on  *)
(* it by a single caller: each check loads the row, evaluates the rules on *)
(* the current mid price and persists the peak and the trailing flag, or   *)
(* fails to, which is logged and changes nothing else                      *)
(* (internal/workflow/activities.go, the body of runMechanicalChecks,      *)
(* without interference).  OptionPositions adds the concurrency.           *)
(***************************************************************************)
EXTENDS MechanicalExit, FiniteSets

CONSTANTS
  Premium,     \* premium paid at entry
  Mids,        \* mid prices a check may fetch
  Quotes,      \* quotes of the underlying; 0 is a failed fetch
  Levels,      \* structure levels a row may carry; 0 is "not set"
  LastDay      \* bound on the calendar

ASSUME RiskPathAssumption ==
  /\ Premium \in Nat \ {0}
  /\ Mids \subseteq Nat \ {0}
  /\ Quotes \subseteq Nat
  /\ Levels \subseteq Nat
  /\ LastDay \in Nat

VARIABLES
  open,        \* the row's status is 'open'
  peak,        \* peak_option_price
  trailing,    \* trailing_active
  days,        \* whole days since entry_date
  direction,   \* "bullish" for a call, "bearish" for a put
  level,       \* structure_invalidation_level
  stored,      \* history: the mid prices of checks whose write reached the row
  lost,        \* history: the mid prices of checks whose write failed
  last         \* history: what the latest check saw and decided

vars == <<open, peak, trailing, days, direction, level, stored, lost, last>>

NoCheck == [mid |-> 0, day |-> 0, reason |-> NoExit]

TypeOK ==
  /\ open \in BOOLEAN
  /\ peak \in Mids \cup {0}
  /\ trailing \in BOOLEAN
  /\ days \in 0..LastDay
  /\ direction \in {"bullish", "bearish"}
  /\ level \in Levels
  /\ stored \subseteq Mids
  /\ lost \subseteq Mids
  /\ last \in [mid : Mids \cup {0}, day : 0..LastDay,
               reason : ExitReasons \cup {NoExit}]

Init ==
  /\ open = TRUE
  /\ peak = 0
  /\ trailing = FALSE
  /\ days = 0
  /\ direction \in {"bullish", "bearish"}
  /\ level \in Levels
  /\ stored = {}
  /\ lost = {}
  /\ last = NoCheck

RiskState(u) ==
  [premium |-> Premium, peak |-> peak, trailing |-> trailing, days |-> days,
   direction |-> direction, level |-> StructureLevel(level, Premium),
   underlying |-> u]

\* UpdatePositionRiskState.  A failed write is logged and the check goes on with
\* its decision: the row keeps the peak and the flag it had.
Persist(mid, dec) ==
  \/ /\ peak' = dec.peak
     /\ trailing' = dec.trailing
     /\ stored' = stored \cup {mid}
     /\ UNCHANGED lost
  \/ /\ lost' = lost \cup {mid}
     /\ UNCHANGED <<peak, trailing, stored>>

\* One check: fetch mid and quote, evaluate, persist, and sell when a rule
\* fired.  A rejected sell leaves the position open for the next check.  (With
\* the exits disabled nothing is even fetched.)
Check(mid, u) ==
  LET dec == Evaluate(RiskState(u), mid)
  IN  /\ ExitsEnabled
      /\ open
      /\ Persist(mid, dec)
      /\ last' = [mid |-> mid, day |-> days, reason |-> dec.reason]
      /\ open' \in (IF dec.reason = NoExit THEN {TRUE} ELSE {TRUE, FALSE})
      /\ UNCHANGED <<days, direction, level>>

NextDay ==
  /\ days < LastDay
  /\ days' = days + 1
  /\ UNCHANGED <<open, peak, trailing, direction, level, stored, lost, last>>

Next == NextDay \/ \E mid \in Mids, u \in Quotes : Check(mid, u)

Spec == Init /\ [][Next]_vars

-------------------------------------------------------------------------------
\* The stored peak is the highest price that any successful write brought,
\* whatever the order of the prices: it lags behind the highest price seen
\* (migrations/000007: "highest mid-price seen") by prices of failed writes only,
\* and no later check at a lower price makes up for them.
PeakIsHighestStored ==
  /\ stored = {} => peak = 0
  /\ stored # {} => peak \in stored
  /\ \A p \in stored \cup lost : p > peak => p \in lost \ stored

\* The trailing stop is armed exactly when a check that saw the premium up by the
\* trailing-start percentage could write it down: it latches, nothing else arms
\* it, and a failed write leaves a position that followed through unarmed.
ArmedIffFollowedThrough ==
  trailing <=> \E p \in stored : FollowedThrough(Premium, p)

\* The time stop closes a position that followed through only if every check that
\* saw it do so failed to write and this check does not see it any more: evidence
\* written once, at whatever check, spares the position for good.
TimeStopSparesFollowThrough ==
  last.reason = "TIME_STOP_NO_FOLLOWTHROUGH" =>
    \A p \in stored \cup lost :
      FollowedThrough(Premium, p) => p \in lost \ (stored \cup {last.mid})

\* What the latest check knew: the prices in the row and its own, whether or not
\* its own could be written.
Known == stored \cup {last.mid}

\* A check that holds leaves the premium inside every documented band: above
\* the stop, below the target, above the giveback from the highest price it
\* knows of once armed, and younger than the hard time limit.  A failed write
\* costs this check nothing, the checks that follow its price.
HoldIsInsideEveryBand ==
  (last.mid > 0 /\ last.reason = NoExit) =>
    /\ ~StopLossHit(Premium, last.mid)
    /\ ~TakeProfitHit(Premium, last.mid)
    /\ (\E p \in Known : FollowedThrough(Premium, p)) =>
         \A p \in Known : ~GivenBack(p, last.mid)
    /\ MaxHoldDays > 0 => last.day < MaxHoldDays

\* A position at or under its stop is always recorded as a stop loss, even when
\* it is also past its time limits or has given back a trailing gain.
StopLossTakesPrecedence ==
  (last.mid > 0 /\ StopLossHit(Premium, last.mid)) =>
    last.reason = "PREMIUM_STOP_LOSS"

\* A structure exit rests on a level the pattern supplied: without one the rule
\* has nothing to compare the underlying with (internal/risk/options.go:167).
StructureExitNeedsALevel ==
  last.reason = "STRUCTURE_INVALIDATION" => level > 0
===============================================================================
