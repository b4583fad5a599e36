------------------------------ MODULE MCResearch ------------------------------
(***************************************************************************)
(* The programs that look at the strategy's days: the daily screen with    *)
(* its callers, the backtest's outcome of a signal, and the walk-forward   *)
(* over the stored candidates.  A behaviour runs one of them.              *)
(***************************************************************************)
EXTENDS MCDailyScreen, TradeOutcome, WalkForward

VARIABLE tool

researchVars == <<tool, screenVars, outcomeVars, walkVars>>

\* Prices in hundredths.
Moves(high, low, close) ==
  {[high |-> 100000 + 100 * high, low |-> 100000 + 100 * low,
    close |-> 100000 + 100 * close],
   [high |-> 100000 - 100 * low, low |-> 100000 - 100 * high,
    close |-> 100000 - 100 * close]}

\* Through the second target, up enough to arm the trail, a gap against it, back
\* to where it was, and everything on one day.
MCFuture == Moves(90, 30, 70) \cup Moves(45, 25, 40) \cup Moves(15, -25, -20)
              \cup Moves(5, -5, 1) \cup Moves(60, -40, 2)

MCSignals == {Signal(d, 1000, atr) : d \in Directions, atr \in {1500, 2500, 4500}}

Record(date, rs, rvol, pnl) ==
  [date |-> date, rs |-> rs, rvol |-> rvol, bb |-> 25, pnl |-> pnl]

\* Up to seven candidates, two of them on one day.
MCHistories ==
  {[i \in 1..7 |-> Record(dates[i], rs[i], 12, pnls[i])] :
     dates \in {<<1, 2, 3, 4, 5, 6, 7>>, <<1, 2, 2, 3, 4, 4, 5>>, <<1, 1, 1, 2, 2, 3, 3>>},
     rs \in {<<2, 2, 2, 2, 2, 2, 2>>, <<2, 2, 3, 1, 5, 3, 2>>},
     pnls \in {<<1, -2, 3, -4, -5, 6, 1>>, <<0, 0, 5, 6, -3, -3, 9>>,
               <<1, 1, -7, 8, 8, -1, -1>>}}
  \cup {<< Record(1, 2, 12, 3), Record(2, 2, 12, 3) >>}

MCDatabases ==
  {[i \in 1..5 |-> [date |-> i, volumeRatio |-> 13, vix |-> 18,
                    closed |-> closed[i], pnl |-> pnl]] :
     closed \in {<<TRUE, TRUE, TRUE, TRUE, TRUE>>, <<FALSE, TRUE, TRUE, FALSE, TRUE>>},
     pnl \in {-3, 8}}

MCGrid == << [rsMin |-> 2, rvolMin |-> 10, bbMax |-> 30],
             [rsMin |-> 3, rvolMin |-> 12, bbMax |-> 30],
             [rsMin |-> 8, rvolMin |-> 12, bbMax |-> 20] >>

ScreenIdle ==
  /\ day = 0 /\ chart = [bars |-> << >>, older |-> 0] /\ row = NoRow
  /\ branches = NoBranches /\ verdict = NoVerdict /\ signals = {} /\ heard = {}
OutcomeIdle ==
  /\ sig = [direction |-> "none"] /\ armed = FALSE /\ peak = 0 /\ path = << >>
  /\ outcome = Open
WalkIdle ==
  /\ loaded = FALSE /\ records = << >> /\ config = 1 /\ start = 0
  /\ windows = << >> /\ results = << >> /\ report = "none"

Init ==
  \/ tool = "screen"   /\ ScreenInit /\ OutcomeIdle /\ WalkIdle
  \/ tool = "backtest" /\ ScreenIdle /\ OutcomeInit /\ WalkIdle
  \/ tool = "research" /\ ScreenIdle /\ OutcomeIdle /\ WalkInit

Next ==
  \/ tool = "screen"   /\ ScreenNext  /\ UNCHANGED <<tool, outcomeVars, walkVars>>
  \/ tool = "backtest" /\ OutcomeNext /\ UNCHANGED <<tool, screenVars, walkVars>>
  \/ tool = "research" /\ WalkNext    /\ UNCHANGED <<tool, screenVars, outcomeVars>>

Spec == Init /\ [][Next]_researchVars

\* The types of the three.
TypeOK == ScreenTypeOK /\ OutcomeTypeOK /\ WalkTypeOK
================================================================================
