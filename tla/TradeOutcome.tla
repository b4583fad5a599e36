----------------------------- MODULE TradeOutcome -----------------------------
(***************************************************************************)
(* simulateOutcome of cmd/backtest: a signal is held for at most HoldDays  *)
(* of the daily bars after it.  Each day first moves the trailing peak and *)
(* then tries the exits in a fixed order, so that one bar which touches    *)
(* several is taken to have touched the better one first.                  *)
(*                                                                         *)
(* Prices are in hundredths.  A bearish signal mirrors a bullish one; the  *)
(* side of a signal is 1 or -1.                                            *)
(***************************************************************************)
EXTENDS Integers, Sequences, FiniteSets

CONSTANTS
  Signals,    \* direction, entry, stop, target1 and target2
  Future,     \* the bars a day can bring: high, low and close
  HoldDays    \* defaultHoldDays

\* The stop is on the losing side of the entry and the target on the other; a
\* stock trades at a dollar at least, and a bar's prices are positive.
ASSUME OutcomeAssumption ==
  /\ HoldDays \in Nat \ {0}
  /\ \A s \in Signals :
       /\ {s.entry, s.stop, s.target1, s.target2} \subseteq Int /\ s.entry >= 100
       /\ \/ s.direction = "bullish" /\ s.stop <= s.entry /\ s.entry <= s.target1
          \/ s.direction = "bearish" /\ s.stop >= s.entry /\ s.entry >= s.target1
  /\ \A b \in Future : {b.high, b.low, b.close} \subseteq Nat \ {0}

VARIABLES
  sig,        \* the signal
  armed,      \* trailingArmed
  peak,       \* trailingPeak
  path,       \* the bars since the signal; dayOffset is their number
  outcome     \* type, days, exit and win; type "open" while the loop runs

outcomeVars == <<sig, armed, peak, path, outcome>>

TrailArmPct == 4
TrailGivebackPct == 2

-------------------------------------------------------------------------------
Side == IF sig.direction = "bullish" THEN 1 ELSE -1

\* The best and the worst price of a bar for the signal.
Best(b)  == IF Side = 1 THEN b.high ELSE b.low
Worst(b) == IF Side = 1 THEN b.low ELSE b.high

\* x is at least as good as y.
NoWorse(x, y) == Side * x >= Side * y

Arms(price) == 100 * Side * (price - sig.entry) >= TrailArmPct * sig.entry

TrailLevel(p) == (p * (100 - Side * TrailGivebackPct)) \div 100

Hits2(b) == ~NoWorse(sig.target1, sig.target2) /\ NoWorse(Best(b), sig.target2)
Hits1(b) == ~NoWorse(sig.entry, sig.target1) /\ NoWorse(Best(b), sig.target1)
GivesBack(b, p) == NoWorse(TrailLevel(p), Worst(b))
Stopped(b) == sig.stop > 0 /\ NoWorse(sig.stop, Worst(b))

Open == [type |-> "open", days |-> 0, exit |-> 0, win |-> FALSE]

Ended(type, days, exit, win) ==
  [type |-> type, days |-> days, exit |-> exit, win |-> win]

\* Mutant of TimedOut: a bearish signal is not turned round.
TimedOutUp(days, close) == Ended("timeout", days, close, close > sig.entry)

\* A timeout wins when it closes better than the entry.
TimedOut(days, close) == Ended("timeout", days, close, ~NoWorse(sig.entry, close))

-------------------------------------------------------------------------------
OutcomeInit ==
  /\ sig \in Signals
  /\ armed = FALSE
  /\ peak = 0
  /\ path = << >>
  /\ outcome = Open

\* Mutants of Peak: it rises before the trail is armed; it never rises after.
PeakFromEntry(nowArmed, b) ==
  IF peak = 0 \/ ~NoWorse(peak, Best(b)) THEN Best(b) ELSE peak
PeakAtArming(nowArmed, b) == IF nowArmed /\ ~armed THEN Best(b) ELSE peak

\* The trailing peak after a bar.
Peak(nowArmed, b) ==
  IF nowArmed /\ (~armed \/ ~NoWorse(peak, Best(b))) THEN Best(b) ELSE peak

\* One round of the loop.
HoldDay ==
  /\ outcome.type = "open"
  /\ Len(path) < HoldDays
  /\ \E b \in Future :
       /\ path' = Append(path, b)
       /\ armed' = (armed \/ Arms(Best(b)))
       /\ peak' = Peak(armed', b)
       /\ LET days == Len(path) + 1
          IN outcome' =
               IF Hits2(b) THEN Ended("target2", days, sig.target2, TRUE)
               ELSE IF Hits1(b) THEN Ended("target1", days, sig.target1, TRUE)
               ELSE IF armed' /\ GivesBack(b, peak')
               THEN Ended("trailing_stop", days, TrailLevel(peak'), TRUE)
               ELSE IF Stopped(b) THEN Ended("stop", days, sig.stop, FALSE)
               ELSE IF days = HoldDays THEN TimedOut(days, b.close)
               ELSE Open
  /\ UNCHANGED sig

\* There are no more bars: out at the last close, if there was one.
BarsEnd ==
  /\ outcome.type = "open"
  /\ outcome' = IF path = << >> THEN Ended("no_data", 0, 0, FALSE)
                ELSE TimedOut(Len(path), path[Len(path)].close)
  /\ UNCHANGED <<sig, armed, peak, path>>

OutcomeNext == HoldDay \/ BarsEnd

OutcomeSpec == OutcomeInit /\ [][OutcomeNext]_outcomeVars

-------------------------------------------------------------------------------
(* The result, per cent of the entry times the entry.                      *)

OptionLeverage == 2

UnderlyingGain == Side * (outcome.exit - sig.entry)

\* EstOptionPct: gains are capped at 80%, losses at 10%.
OptionGain ==
  LET gain == 100 * OptionLeverage * UnderlyingGain
  IN IF outcome.win THEN IF gain > 80 * sig.entry THEN 80 * sig.entry ELSE gain
     ELSE IF gain < -10 * sig.entry THEN -10 * sig.entry ELSE gain

Closed == outcome.type \notin {"open", "no_data"}

-------------------------------------------------------------------------------
(* Properties.                                                             *)

\* The loop never passes HoldDays, and a peak is there exactly when it is armed.
OutcomeTypeOK ==
  /\ outcome.type \in {"open", "no_data", "target1", "target2", "trailing_stop",
                       "stop", "timeout"}
  /\ outcome.days \in 0..HoldDays
  /\ Len(path) <= HoldDays
  /\ armed \in BOOLEAN
  /\ armed <=> peak > 0

\* "Win" is set by the kind of exit, the percentages by the prices: a trade is
\* counted as won exactly when it earned something, a trailing exit never ends
\* below the entry, and the option estimate has the sign of the underlying's.
WinIsGain ==
  Closed => /\ outcome.win <=> UnderlyingGain > 0
            /\ outcome.win <=> OptionGain > 0
            /\ OptionGain >= -10 * sig.entry

\* What an exit is judged by, from the bars alone: the best price so far.
BestUpTo(i) == {j \in 1..i : \A k \in 1..i : NoWorse(Best(path[j]), Best(path[k]))}

Trails(i) ==
  /\ \E j \in 1..i : Arms(Best(path[j]))
  /\ \E j \in BestUpTo(i) : GivesBack(path[i], Best(path[j]))

\* The exit is the first one the bars allow: no day before it touched a target or
\* the stop or gave back two per cent of the best price since the trail armed, and
\* a stop or timeout is the last resort of its own day.
ExitIsFirst ==
  Closed =>
    \A i \in 1..Len(path) :
      /\ i < outcome.days \/ outcome.type \in {"stop", "timeout"} =>
           ~Hits1(path[i]) /\ ~Hits2(path[i]) /\ ~Trails(i)
      /\ i < outcome.days \/ outcome.type = "timeout" => ~Stopped(path[i])
================================================================================
