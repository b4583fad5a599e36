# make-my-trade: a verification development

make-my-trade is a paper-trading system for short-dated stock options. A scan
screens a universe of tickers every morning, a confirmation ten minutes after
the open decides which candidates to buy, and a mechanical check every ten
minutes closes positions by six fixed rules. The programs share a Postgres
database and a broker account (Alpaca) and coordinate in no other way: there is
no lock, no transaction around a decision, and no uniqueness constraint beyond
one position per candidate. What can go wrong is therefore mostly a matter of
order: which of several concurrent executions reads and writes when, and what
an interrupted execution leaves behind.

This directory holds TLA+ modules of that system, TLC configurations that check
them on small instances, and proofs, checked by TLAPS, of the properties that
matter most. Paths below are relative to the repository.

## The system

| component | state | operations | interacts with |
|---|---|---|---|
| scan (`RunDailyAnalysisActivity`, `runPipeline` in the API) | `trade_candidates` | upsert one row per ticker and day | screening gates; the confirmation reads what it writes |
| opening confirmation (`RunOpeningConfirmationActivity`) | `trade_candidates.candidate_status`, `paper_positions` | load, shortlist, demote, promote reversals, gather evidence, confirm, check limits, buy | broker, scan, HTTP requests, its own retry |
| `POST /api/run-confirmation`, `POST /api/force-confirm` | the same tables | a shorter and a limit-free way to a position | the same |
| execution service (`internal/execution`) | broker orders, `paper_positions` | `BuyOptionPosition`, `SellOptionPosition` | called by the three above and by the checks |
| mechanical risk checks (`runMechanicalChecks`) | `paper_positions`: peak, trailing flag, status, reason | load open positions; for each: quote, evaluate, persist, perhaps sell | evaluator, execution service, other checks |
| mechanical exit evaluator (`internal/risk`) | none | `EvaluateMechanicalExit` | called by the checks |
| worker (`cmd/worker`) | Temporal schedules, four activity slots | starts the cycles, drains on a signal | Temporal |
| supervisor (`cmd/supervisor`) | two child processes, attempt counters | start, health probe, restart, shut down | server, worker, the operating system |
| position reviews | `position_reviews` | hold every position since the language model was removed | `runMechanicalChecks` first, at the end of the day |
| opening signals (`confirmation.go`) | none | `EvaluateConfirmation`, `EvaluateExhaustionRejection` over the bars of the opening window | called by the confirmation |
| contract selection and fills (`internal/market`) | none | chain filter, `SelectBestContract`, `ComputeEntryFill` | called by the confirmation |
| screening gates (`rsve.go`) | none | pure functions over daily bars | called by the scan |
| pattern detectors and indicators (`patterns.go`, `indicators.go`) | none | flags, triangles, bases and retests over the last bars | called by the gates |
| backtest (`cmd/backtest`), dry scan (`cmd/dryscan`) | none | the gates on past days or without a write; `simulateOutcome` follows a signal | the gates; reports |
| walk-forward (`internal/research`, `cmd/wfresearch`) | none | thresholds over rolling windows of stored candidates, and the deflated Sharpe ratio of the best | `trade_candidates`; a report |
| legacy engine (`engine.go`) | none | numeric; rejects every ticker because the rules file names no families | called by the scan, which overwrites its verdict |
| server views, dashboard, migrations, clients | none of their own | read-only or one-shot | the tables |

What makes each component correct:

- **evaluator and a single caller**: the stored peak is the highest price that a
  check could write down, and lags behind the highest seen by failed writes only;
  the trailing stop is armed exactly when such a price followed through; a hold
  leaves the position inside every band; a time stop spares what followed through
  unless every check that saw it failed to write; the recorded reason follows the
  rules' precedence.
- **execution and checks**: every broker order is accounted for in the table or
  in a named failure; a position is sold no more often than the concurrency and
  the lost writes explain; only a check that loaded the row before can take back
  a peak, an armed flag or an exit; every tracked position is eventually closed.
- **entry**: the portfolio limits hold up to their races; the activity does not
  give a ticker a second position; every loaded candidate gets a decision.
- **one candidate's decision**: an opening never confirms a call and a put; the
  rules for puts are those for calls upside down; what a bar has ruled out stays
  ruled out when a retry sees a longer window; the contract picked is not worse in
  every respect than another; the order's limit stays between mid and ask.
- **screening**: the two directions exclude each other; a pattern and the
  breakout trigger agree about the level they speak of; what is stored names the
  gate that blocked; a rescan never takes back the status of the day's stock
  signal.
- **offline tools**: a simulated trade ends at the first exit its bars allow and
  is won exactly when it earned something; a window of the walk-forward is tested
  on nothing it was trained on; the drawdown is the worst run of trades.
- **supervisor**: a signal always ends it, and a clean exit leaves no child; the
  worker is started, healthy server or not, as long as the probe's requests are
  answered or refused.

The behaviours that are hard here are listed, each at its line, in
`PROJECT.json` under `hazards`: check-then-act over separate queries, state
loaded once and used over minutes, non-atomic pairs of a broker call and a row
update, activity timeouts whose retry overlaps the attempt still running,
ignored errors that read as zero, boundaries of percentage rules, and process
supervision under signals.

## Modules

| module | models | extends / instantiates |
|---|---|---|
| `MechanicalExit` | `EvaluateMechanicalExit` and the structure fallback of its caller, as operators | |
| `RiskPath` | one position and the checks of a single caller | `MechanicalExit` |
| `PositionLedger` | abstract: what the execution service promises about orders and rows | |
| `OptionPositions` | buys, overlapping mechanical checks, sells, crashes | `MechanicalExit`; instantiates `PositionLedger` |
| `EntryProtocol` | from today's candidates to new positions: activity, requests, forced confirmations, scans, exits | |
| `OpeningSignals` | the verdicts on a window of opening bars, as operators | |
| `ContractChoice` | from an option chain to a contract and a limit price, as operators | |
| `EntryDecision` | one candidate on one morning: bars arrive, the signals are gathered, a contract is chosen and priced | `OpeningSignals`, `ContractChoice` |
| `ChartPatterns` | the pattern detectors over a window of daily bars, as operators | |
| `ScreeningGates` | `EvaluateRSVE`: the gates, the score and the choice of a direction, as operators | `ChartPatterns` |
| `DailyScreen` | one ticker through the days: its chart grows, and the scans, the backtest and the dry scan evaluate it | `ScreeningGates` |
| `TradeOutcome` | `simulateOutcome`, one action per round of its loop | |
| `WalkForward` | `cmd/wfresearch` with `internal/research`: windows, aggregates, report | |
| `Supervisor` | the supervisor and its two children | |
| `MC*` | constants for TLC | the module of the name |
| `MCResearch` | a behaviour of one of the three research tools | `DailyScreen`, `TradeOutcome`, `WalkForward` |
| `ExtremaAndFolds` | lemmas about extrema, folds and sums that several proofs share | |
| `*Proofs` | theorems | the module of the name |
| `ResearchProofs` | theorems | `MCResearch`, `WalkForwardProofs` |

### MechanicalExit and RiskPath

Prices are natural numbers (ticks) and percentages are compared by
cross-multiplication (`100 * (mid - premium) >= pct * premium`), the exact
counterpart of the code's floating-point quotients; a rounding difference of
the floats at a boundary is not modelled. `Evaluate` returns what the code's
`MechanicalExitDecision` holds without `PnLPct`: no rule but the arming of the
trailing stop reads it. The six rules are a set of those that fire and the
first in the code's order of returns.

`RiskPath` is the body of `runMechanicalChecks` for one row without
interference. `Persist` is `UpdatePositionRiskState`: its failure is logged and
the check goes on with its own decision, while the row keeps the peak and the
flag it had. `stored`, `lost` and `last` are history: the prices of the checks
that could write and of those that could not, and the latest check. What the row
knows is therefore what `stored` tells, and the properties say how far it may lag
behind. A rejected sell order leaves the row open, so checks after a fired rule
are part of the model.

### OptionPositions and PositionLedger

`pos` is `paper_positions` keyed by candidate (`candidate_id` is UNIQUE);
`bought` and `sold` count what the broker accepted. The rest is history:
`orphaned` and `lost` count accepted orders whose row write never happened,
`merged` the buys that met a row already there (the conflict clause keeps it, and
it stands for one contract, though the buy reports success), and `undetailed` the
buys whose contract and premium were never stored.

| action | code |
|---|---|
| `PlaceBuyOrder`, `CreatePaperPosition`, `UpdateOptionDetails` | the steps of `BuyOptionPosition` |
| `ReorderHeldPosition` | `ForceConfirm` for a ticker with a position and no row today |
| `LoadOpenPositions`, `SkipPosition`, `CheckPosition` | `runMechanicalChecks` |
| `PlaceSellOrder`, `ClosePosition` | `SellOptionPosition` |
| `CrashBuyer`, `CrashChecker` | the worker or server dies, or an activity's deadline cancels its writes |
| `NextDay` | `time.Since(entry_date)` |

A *checker* is one execution slot: the ten-minute cycle, the end-of-day review
and their retries take one each while they run. Nothing prevents overlap: the
review runs five minutes after a cycle, activities may take three minutes, and
a timed-out attempt goes on beside its retry.

An overlapping check may write back the lower peak and the unarmed flag it loaded,
and its sale overwrites the exit of a row that another has closed. Both happen in
the code. What holds of any number of checks is when that is over:
`RiskStateSettles` says that a peak or an armed flag that the row and every check
under way have is never lost, `ExitRecordSettles` that the exit of a closed
position stands, and nothing more is sold of it, once the checks that had loaded
it have ended.

`PositionLedger` is what the service's header promises: an order at the broker
precedes its record, a row is opened by a recorded buy and closed by a recorded
sale, a closed row stays closed. `ImplementsLedger` maps `status` to the status
of each row.

### EntryProtocol

`row` is today's part of `trade_candidates`, `pos` `paper_positions`. A *run* is
one execution of the activity, the request or the forced confirmation; it holds
the candidates it loaded with the stage each has reached, so a run works on
what it read, however the tables change. The activity's passes are sequential
(`NextAt`): demotions, then reversal probes, then evidence for every listed
row, then the decisions. The order *within* a pass (by confidence) is
abstracted to any order. Each limit is a query and a step of its own; a failed
limit query reads as "nothing open", as the dropped errors in the code do, and
is counted in `blind`.

Free choices: what bars, option chain, IV rank, premium budget and the broker
answer. The table's contents at the start are given: in this commit the scans
pass no option data to the screening gates, so they never answer `entry_ready`
(`ScanResults`; the theorem `NeverReadyCorrect` of `ResearchProofs` says so for every
chart and market), and the `confidence >= 70` bar cannot be passed by a
`NUMERIC(4,3)` column; `AboveBar` and the initial rows are parameters, so that
the protocol is checked for the rows it is written for.

### OpeningSignals, ContractChoice and EntryDecision

`EntryProtocol` leaves the verdicts on a candidate free; these modules say what
the verdicts are. `EntryDecision` follows one row through the activity: minutes
of the ticker and of SPY arrive (`TickerMinute`, `SpyMinute`), a reversal is
promoted and the signals are gathered (`GatherSignals`), the chain is asked for
(`ChainFails`, `NoContractFound`, `SelectContract`), the premium's rank may turn
it away (`IVRankTooHigh`), and `Decide` buys or not. `Interrupt` is the activity
cut off before it wrote a status: the retry starts over, with a longer window.

How the numbers are encoded:

- Prices of bars are integers; every quotient of the code is compared by
  cross-multiplication. `zone` is `entry_low + entry_high`, twice the midpoint
  the code computes.
- Of SPY's bars the code reads the first open and the last close, so `spy` is
  that pair.
- A maximum spread of 0 turns the chain filter's check of the spread off, as in the
  code (the runs use 8).
- A contract has |delta| in percent and its quotes in cents. `Penalty` is the
  code's composite times `1400 * ask`, which makes it an integer; two contracts
  are compared by multiplying with the other's ask. The term for open interest
  is left out because the feed gives none.
- `FillPrice` is the fill times `8 * ask`. `LimitPrices` rounds it to the cent;
  a tie may go either way, as it does with the binary float in `%.2f`.
- The chain is collected in a Go map, so among equal penalties any contract may
  be picked (`BestContracts`).

`strategy_rules.yaml` turns all checks on and uses the required and optional
scheme, so the count of signals that configurations without that scheme use is
left out. The rows of the runs hold both what the database may contain by its
types and what the engine stores in this commit: zero for zone and stop, because
the rules file has no families and `Analyze` fills the levels only for a family
that matched.

### ChartPatterns, ScreeningGates and DailyScreen

`ChartPatterns` has one operator per detector. The code tries every length of a
formation in nested loops and keeps the first of the best quality; here a
detector is the *set* of formations that pass its conditions, and `BestOf` picks
by quality and by `order`, the place in the loops. `ScreeningGates` is
`evaluateBranch` and the choice between the two branches, with the gates in the
order of the code and the score in thousandths of a point.

`DailyScreen` makes a state machine of them, because the verdict of a day
depends on what the day before left behind:

| action | code |
|---|---|
| `NextDay`, `BarForms` | the feed: a new bar, or the bar of today that moves on |
| `DailyScan` | the goroutine of one ticker in `RunDailyAnalysisActivity` |
| `RunPipeline` | the loop of `POST /api/run-analysis` |
| `Backtest`, `DryScan` | the loops of the two programs |
| `Assess` | `EvaluateRSVE` with option data, which only its tests pass |

A chart is the last 41 bars and what the bars before them left: the two
exponential averages, Wilder's range and the Bollinger rank, in hundredths, up
to yesterday. `Smoothed` and `SmoothedATR` are the recurrences of the code on
integers, rounded down. A Bollinger rank compares today's width with 63 earlier
ones, most of which lie before the window, so today's rank is a free choice;
yesterday's, which the base detector reads, is then what it was. `row` is the
ticker's row of the day with the conflict clause of `UpsertCandidate`; its write
may fail, which the code logs. `heard` is history.

### TradeOutcome and WalkForward

`TradeOutcome` holds a signal of the backtest for at most `HoldDays` bars. The
order of the exits in the loop is part of the model, with its optimistic
reading: a bar that touches the target and the stop hits the target. Prices are
in hundredths, and the division by 100 in `TrailLevel` rounds down.

`WalkForward` runs every configuration of a grid over rolling windows of the
records, then picks a result that sorts first. Means are multiplied by `Scale`,
which every number of trades divides. `ChanceSharpe` is the square of the
expected maximum of the Sharpe ratios, a constant of the size of the grid.
The filter and the sums of its loops are folds over the sequences; the square
root and the normal distribution behind it are left out. `LoadCandidates` is the
query of `cmd/wfresearch` as written: it selects no relative strength and scans
the VIX into the column of the Bollinger rank. That rank is a fraction and `bb`
and `bbMax` are in percent, so a VIX of 18 becomes a rank of 1800.

### Supervisor

The actions are the branches of `main` and of `runProcess`; `runner[c]` is where
the child's goroutine stands and `proc[c]` the operating system's process. The
children are external: they exit at any time, ignore SIGTERM if they like, and
obey SIGKILL. What happens before the first child (build, Docker, ports) is
left out: it blocks or ends the process without a child.

## Runs

| run | bounds | what it shows |
|---|---|---|
| `exit_path` | one position, 5 mids on and around the rules' boundaries, 3 quotes, 3 days, both directions, with and without level, any write failing | what the row knows and what is decided from it, along every sequence of prices, days and failed writes |
| `structure_fallback` (violation) | as above | without a structure level a put is closed at once: the premium stands in for a level of the underlying |
| `positions_overlap` | 1 candidate, 1 buyer, 2 checkers, 3 mids, 1 level, 2 buys, 1 fault | accounting of orders, the ledger, and when the risk state and an exit are final, under overlap, crash and failed writes |
| `positions_serial` | 2 candidates (call and put), 1 checker, 1 fault | tracked positions are closed, under the fairness of the schedules |
| `double_sell` (violation) | 2 checkers, no fault | what overlap alone does to a sale |
| `entry_races` | 2 rows today, 1 earlier position of the same ticker, 1 activity, 1 request, 1 fault | the limits up to their races; no doubled ticker |
| `entry_decided` | 1 activity, 1 forced confirmation, 1 fault | every loaded row is decided, beside forced confirmations |
| `entry_decision` | windows of up to 3 bars of 7 shapes, 6 rows, 5 prices of SPY, chains of up to 2 of 8 contracts | the verdicts on calls and puts, over growing windows, and the contract and its limit |
| `missing_zone` (violation) | as above | without a stored zone every call holds its level |
| `supervisor` | the code's `maxRestarts` = 3 | shutdown, clean exit, start of the worker while no probe hangs |
| `research` | 41 bars on 9 charts, one for each formation in either direction, one more day and its changes; signals over 3 bars of 10 shapes; records of 7 days with 3 configurations | the verdicts of the screens and of the programs that evaluate the strategy on history |
| `screen_silent` (violation) | the charts of `research` | missing option data is not passed over |

Why the bounds are enough. The rules compare one price with the premium and with
the peak, so a few prices at, just under and beyond each threshold reach every
combination of rules; a day before and after each time limit does the same
for the calendar (`RiskPath.cfg` puts the hard limit on day 3 instead of day 5; the
days between repeat day 2). In the concurrent models every hazard is a race of two: two
checks over one row, two confirmations over one free place, a scan against one
run. In `entry_decision` three
bars are what the volume rule asks for, and they already separate the first, a
middle and the last bar, which is all the rules tell apart; the bars lie on both
sides of every threshold, and so do the quotes. Ranking compares contracts in
pairs, so chains of two reach every order of two. In `research` the window of 41
bars is what the longest detector reads (a base of 40 and today), so no
formation is cut off; each chart carries one formation up to the day on which it
may break out, and the day that follows breaks out on more or less volume,
falls back or stays. `MaxDays` is 1 because a verdict reads nothing of the day
before but the averages, and today's bar moves only on the last day. Three bars
of holding are one to arm the trail, one to raise its peak and one to give back;
windows of two days with one or two records on a day separate the cases of the
leakage guard. One fault anywhere covers each error path and each crash point, and the
proofs remove these bounds for the properties they cover. `MaxBuys`, `MaxFaults`,
`MaxDays` and `MaxAge` (days saturate past the last rule's limit) are the only caps.
`Overlap.cfg` and `DoubleSell.cfg` use the symmetry of the two checkers; no liveness
property is checked under symmetry. Deadlock is not
checked where the system may stop: every position closed, every run returned,
the candidate decided, the supervisor gone,
the last bar held or the report written.

Fairness. `OptionPositions`: the schedules keep starting checks and a started
check goes on, and days pass (`WF` on `CheckerStep` and `NextDay`); buyers owe
nothing, faults never have to happen. Prices stay free, so only the hard time
limit forces an exit, and that is the point of `TrackedPositionsClose`.
`EntryProtocol`: a started run goes on, since its queries have deadlines and it
waits for no one. `Supervisor`: goroutines that can go on do and SIGKILL is obeyed;
a child need not exit of its own accord, and nothing makes the health probe
return, since its requests have no timeout (`main.go:281`; the thirty seconds are
looked at only between two requests). `StackComesUp` therefore has as its premise
that no probe hangs for ever; the shutdown does not need it.

## What is proved

The theorems hold for every number of candidates, buyers, checkers, runs and
rows (finite where cardinalities are compared), every price, percentage and
bound, under the assumptions named `...Assumption` in the modules; TLC evaluates
those assumptions on every run. They are not assumptions about behaviour: they
say what the constants are.

- `RiskPathProofs`: all properties of `exit_path`, and that a price at or under the
  stop is recorded as a stop loss whatever else fires (`StopLossCorrect`). First
  come the facts about one evaluation: the choice of the first rule among those
  that fire (`LeastOfSix`, `FirstMatchFires`), the type of a decision, that it
  never lowers the peak or disarms the flag, and that a hold means no rule fires.
  The inductive invariant joins the type, the peak as highest price seen and the
  flag as "some price followed through", all of the prices whose writes succeeded;
  the bands and the time stop follow from it by one more induction over the latest
  decision (`DecisionInv`), which tells what the row had before that check's write.
- `OptionPositionsProofs`: type correctness, by one lemma per actor.
  `SellsBounded` is not inductive. The strengthening is `SellAccounting` with
  `SaleLeftTheList`: while a row is open each accepted sale is lost or in flight;
  once it is closed only the checks that had loaded it can sell, and each of them
  at most once, since a position leaves the check's list when its sale begins.
  `BuysAccounted` counts the accepted buys of a candidate by what became of them,
  and explains an open row without details. With both, every step of
  `OptionPositions` is a step of `PositionLedger` or a stutter.
- `RiskStateSettles` and `ExitRecordSettles`, in the same module, hold for any
  number of overlapping checks. A step that writes a row's risk state computes it
  from what that check loaded, which the hypothesis bounds from below, by the
  monotonicity of one evaluation; a check that loads the position later loads what
  the row has. A sealed row has no check left that could sell or close it, and a
  load takes open rows only.
- `EntryProtocolProofs`: type correctness and the three limits. `OpenBounded`
  counts open positions together with the runs past the total check (`PastTotal`);
  the sum is inductive because a run enters `PastTotal` only when there is room
  or when its query failed, and leaves it when it inserts. For the other two it
  must be known which candidate a run past a check is about: `OneBuying` says that
  exactly one stands at "buying" between taking it up and giving it up, and `Step`
  sorts every step into a few kinds. `SameDirectionBounded` is then the same sum,
  per direction, in which a run counts under the direction it loaded, whatever
  scans write since. `ActivityNeverDoubles` rests on `HeldChecked`: while no
  query for a held ticker and no limit query has failed, no other row of the ticker
  is open from the check on, since what others insert are rows of today, of which a
  ticker has one. It is a claim about rows: two runs over one candidate may both
  order at the broker, and the second insert keeps the first one's row.
- `EntryDecisionProofs`: everything `entry_decision` checks, for windows of any
  length and chains of any size. `NotBothWays` rests on one required signal,
  since the market cannot have risen and fallen. `BlocksAreFinal` rests on windows
  only growing and on the row, with its stop, being the one that was loaded; a scan
  that moves the stop between two attempts is not modelled. `NotDominated`, `FillRejectsOnlyInverted` and `LimitInsideQuote`
  follow (the second one where the chain filter checks the spread,
  `MaxSpread > 0`) from what is known of the contract at each stage after its selection
  (`PickedFromChain`) and from arithmetic that is spelled out, product by product:
  the least composite multiplied by both asks, and the fill between mid and ask.
  `MirrorSymmetric` needs that the mirrored window of any length has the mirrored
  range (`RangeMirrored`), that a sum of volumes is what it was, and one lemma per
  signal and per reject.
- `SupervisorProofs`: type correctness and `CleanExitLeavesNoChild`, from an
  invariant that ties each process to the place of the goroutine that owns it.
- `ResearchProofs`: what the screens and the simulated trade guarantee, for every
  chart of any length, every bar, lookback and threshold. Three invariants carry
  it. `RowOfTheDay` ties the row to the statuses heard today. `Screened` says that
  a verdict is that of an evaluation of the chart as it is, since a new bar
  clears it; with `ChartOK` (the bars are what a feed delivers) the claims about
  a verdict become claims about one evaluation, and each detector gets a lemma
  that says what its formations tell of the bars (`PointsUp`, `PointsDown`).
  `OneWay` then rests on the fifth gate and on yesterday's low being no higher
  than its high; `TriggerAgrees` on the level being the extremum of the bars
  whose highs the close is above. `OutcomeInv` says that the running peak is the
  best price of the bars once the trail is armed and that no bar armed it before,
  so that the exit the loop takes is the first that the bars allow; a trailing
  exit wins because two per cent below a gain of four is a gain, from an entry of
  a dollar on. That a score lies between 0 and 100 points (`ScreenTypeCorrect`)
  takes a lemma for each of its terms: no term is negative and no divisor zero,
  because a branch with a score has passed its gates (`StockGatesPassed`) and so
  has the bars that the terms read. `ResearchTypeCorrect` puts the three programs
  of `MCResearch` together: the one that runs keeps its types, the others stay.
- `WalkForwardProofs`: the types, and everything `research` checks of the
  walk-forward, for every history, grid and length of window.
  `DrawdownIsWorstRunCorrect`
  compares the one-pass loop with the definition over all runs of trades: after k
  trades the loop holds the last partial sum, the highest of them and the deepest
  fall below it. `NoLeakageCorrect` needs `LeakInv`: the windows are chained by
  their dates, and together they trade no more records than `start` has passed.
  `LoadedNeverTradesCorrect` needs `LoadedInv`: a configuration that asks for
  relative strength, or for a rank below the VIX of every record, has windows and
  results without trades.
- `ExtremaAndFolds` is what these share. The library's induction theorems take an
  operator as a parameter, so induction is stated as "a set of naturals that is
  not empty has a least element" (well-founded induction, which needs none). With
  it finite sets of integers have extrema, and a function exists that folds a
  step over the subsets of an interval (`FoldExists`), which gives
  `FoldLeft` and the sums their values element by element.

The hypotheses about data that the proofs need are in the named assumptions:
histories are sorted by date as the query returns them, prices are positive, a
bar's low is no higher than its high.

Only model-checked: the liveness properties `TrackedPositionsClose`,
`LoadedIsDecided`, `ShutdownCompletes` and `StackComesUp`, because fairness and
ENABLED are out of the prover's reach. Every invariant and every action property
of a passing run is stated by a theorem.

## Where code and documents disagree

Each is a run that TLC violates; the traces are short enough to read.

1. `double_sell`: `internal/execution/options.go:14` calls both operations
   idempotent; the sell order comes before any write, so two checks that loaded
   the same row both sell it.
2. `missing_zone`: `confirmation.go:241` says the middle of the range stands in
   for a zone that was not stored; the comparison with the missing zone, which is
   zero, comes first and every call passes it.
3. `structure_fallback`: a missing structure level is replaced by the option
   premium and compared with the underlying.
4. `screen_silent`: `internal/strategy/rsve.go:63` says that an option gate passes
   silently when its data is unavailable; `evaluateBranch` stops before those gates
   as soon as one value is missing, so no caller's verdict ever passes all gates.
   The head of the same file (lines 19-21) says what the code does.

Met while modelling and stated by a property or a theorem instead of a run:

- `strategy_rules.yaml:96` states a hard cap on open positions; two confirmations
  that overlap exceed it. `OpenBounded` says by how much they can.
- `cmd/supervisor/main.go:9-11` promises a clean shutdown; giving up on one child
  leaves through `os.Exit(1)` and the other child stays. `CleanExitLeavesNoChild`
  is about the other ways out.
- `waitHealth` logs "worker starting anyway" after thirty seconds (`main.go:290`);
  a server that accepts the request and never answers keeps it from getting there.
  `StackComesUp` is about probes that return.
- `store.go:508` calls a column the highest mid-price seen. A failed write leaves it
  behind (`PeakIsHighestStored`), and an overlapping check may lower it
  (`RiskStateSettles`).
- `patterns.go:965` says that the bar of a retest closes above the level; the code
  accepts a close one per cent below it (above it, in the bearish detector).
- `loadCandidates` joins positions with a LEFT JOIN, so candidates that were never
  bought count as trades of no gain; with relative strength unset, and the
  VIX compared with a fraction in place of the Bollinger rank, every configuration
  of the grid turns every record away on both counts (`LoadedNeverTrades`), a
  configuration without trades has the least possible variance and sorts first,
  and its report says "better than chance".
- The backtest caps a loss at 10% of the premium where the live stop is at 25%,
  and a stop or target may lie outside a bar that opened beyond it.
- `alpaca.go:113-114` says that after the fallback to IEX only today's volume is
  small; the fallback fetches the whole range again, so every bar's volume is.

Disagreements that need no model checker: the score bar of 70 against the
`NUMERIC(4,3)` column; event types and a review's action outside their CHECK; an
attempt counter of the supervisor that a long healthy run does not reset; an IV rank
that counts today's snapshot among the past; the per-share premium budget;
`max_new_positions_per_day`, which nothing reads; the `entry_ready` status the
scans cannot reach. The option feed lists contracts of 4 to 25
days while the rules ask for 21 to 45 with a target of 30, so five days are
left. `alpaca.go:798-806` describes a ranking by priorities that ends with the
volume; the code adds three weighted distances and does not look at the volume.
The chain filter is named for a share of the mid and measures a share of the
ask.

## Not modelled

The legacy strategy engine and the indicators that only it reads are
floating-point numerics. The rules name no families, so it rejects every ticker; the
scan overwrites its verdict with that of the gates, and the levels it would give
stay zero. The opening-range pattern has no caller.
Floating-point error is left out of the gates and detectors: their comparisons are
exact on integers. The ranking of the scan's results, its email and summary, the
regime labels and tables of the backtest, and the square root and normal
distribution of the Sharpe tests are left out. Configuration is loaded once; its
values are constants. The migration runner and the workflow trigger are one-shot.
The reporting tables, the dashboard and the HTTP clients decide nothing.
`RunPositionReviewActivity` and the continuation workflow are not registered with
the worker, and the sell branches of the review loops cannot be reached since
every review holds. Start-up of the worker and registration of the schedules are
one-shot. The components marked `partly` say what is left out of each.

## Plan

Done, in this order: the exit rules (`MechanicalExit`, `RiskPath`), the
positions and their ledger, the entry protocol, the supervisor, one candidate's
decision, the screens with their detectors, the simulated trade, the
walk-forward, and the proofs above.

What remains worth doing:

1. IV rank and premium sizing in `EntryDecision`, and its verdicts in place of
   the free choices of `EntryProtocol`.
2. The summary counters of the scan and the end-of-day review as one workflow.
