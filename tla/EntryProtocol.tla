----------------------------- MODULE EntryProtocol -----------------------------
(***************************************************************************)
(* From today's candidates to new positions.  Three programs decide and    *)
(* buy at the same time, over the tables trade_candidates and              *)
(* paper_positions and without a lock or a transaction:                    *)
(*   - activities: RunOpeningConfirmationActivity (internal/workflow), run *)
(*     by two workflows and their retries;                                 *)
(*   - requests: POST /api/run-confirmation (internal/api);                *)
(*   - forcers: POST /api/force-confirm (internal/api).                    *)
(* Scans rewrite candidate rows and exits close positions meanwhile.       *)
(* Each query and each write is a step of its own.  What bars, option      *)
(* chains and the broker answer is a free choice.  The order among         *)
(* candidates (by score) is abstracted to any order.  One trade date; the  *)
(* broker's orders are counted in OptionPositions.                         *)
(***************************************************************************)
EXTENDS Naturals, FiniteSets

CONSTANTS
  Today,             \* trade_candidates rows of the trade date
  Earlier,           \* rows of earlier days whose position may still be open
  TickerOf,          \* the ticker of each row; (trade_date, ticker) is UNIQUE
  AboveBar,          \* today's rows with claude_confidence >= the minimum score
  BearishOf,         \* whether scans may find a row bearish, bullish or either
  Activities, Requests, Forcers,
  MaxShortlist,      \* max_entry_ready_to_confirm
  MaxOpenPositions,  \* max_open_positions
  MaxSameDirection,  \* max_same_direction
  MaxFaults          \* bound: failed queries and writes, crashes

Candidates  == Today \cup Earlier
ConfirmRuns == Activities \cup Requests
Runs        == ConfirmRuns \cup Forcers

ASSUME EntryAssumption ==
  /\ IsFiniteSet(Candidates) /\ Today \cap Earlier = {}
  /\ \A c, d \in Today : TickerOf[c] = TickerOf[d] => c = d
  /\ AboveBar \subseteq Today
  /\ BearishOf \in [Today -> SUBSET BOOLEAN]
  /\ IsFiniteSet(Runs) /\ ConfirmRuns # {}
  /\ Activities \cap Requests = {} /\ ConfirmRuns \cap Forcers = {}
  /\ MaxShortlist \in Nat \ {0}
  /\ MaxOpenPositions \in Nat \ {0}
  /\ MaxSameDirection \in Nat \ {0}
  /\ MaxFaults \in Nat

VARIABLES
  row,     \* trade_candidates, today's
  pos,     \* paper_positions, by candidate
  run,     \* where each execution stands
  faults,  \* faults so far
  blind    \* history: position queries that failed and were read as "nothing open"

vars == <<row, pos, run, faults, blind>>

\* "stock_signal_passed" stands for "option_blocked" too: they are treated alike.
Statuses == {"rejected", "stock_signal_passed", "structural_candidate",
             "entry_ready", "watch_only", "confirmed"}

\* reversal: setup_family is bearish_exhaustion_reversal.
CandidateRows == [status : Statuses, bearish : BOOLEAN, reversal : BOOLEAN]

\* by: the program whose insert made the row.
PositionRows == [status : {"none", "open", "closed"}, put : BOOLEAN,
                 by : {"none", "earlier", "activity", "request", "force"}]

NoPosition == [status |-> "none", put |-> FALSE, by |-> "none"]

\* Where a candidate stands in a run: to be demoted, to be probed for a
\* reversal, listed for evidence, passed or failed on evidence, being bought.
Stages == {"out", "demote", "probe", "listed", "failed", "passed", "buying"}

\* puts: the loaded candidates whose direction was bearish.
RunStates ==
  [pc : {"idle", "loaded", "loop", "held", "total", "direction", "promote", "insert"},
   work : [Candidates -> Stages], puts : SUBSET Candidates]

Idle == [pc |-> "idle", work |-> [c \in Candidates |-> "out"], puts |-> {}]

TypeOK ==
  /\ row \in [Today -> CandidateRows]
  /\ pos \in [Candidates -> PositionRows]
  /\ run \in [Runs -> RunStates]
  /\ faults \in Nat
  /\ blind \in Nat

Open == {c \in Candidates : pos[c].status = "open"}
OpenInDirection(put) == {c \in Open : pos[c].put = put}

\* The table after a scan, positions of earlier days within the limits.
Init ==
  /\ row \in [Today -> {r \in CandidateRows :
                          /\ r.status \notin {"watch_only", "confirmed"}
                          /\ r.reversal => r.bearish /\ r.status = "structural_candidate"}]
  /\ \A c \in Today : row[c].bearish \in BearishOf[c]
  /\ pos \in [Candidates -> {NoPosition} \cup
                [status : {"open"}, put : BOOLEAN, by : {"earlier"}]]
  /\ Open \subseteq Earlier
  /\ Cardinality(Open) <= MaxOpenPositions
  /\ \A put \in BOOLEAN : Cardinality(OpenInDirection(put)) <= MaxSameDirection
  /\ run = [r \in Runs |-> Idle]
  /\ faults = 0
  /\ blind = 0

Fault ==
  /\ faults < MaxFaults
  /\ faults' = faults + 1

NoFault == UNCHANGED faults

-------------------------------------------------------------------------------
(* What runs load, and how they move through it.                           *)

EntryReady == {c \in Today : row[c].status = "entry_ready"}
Reversals  == {c \in Today : row[c].status = "structural_candidate" /\ row[c].reversal}
BearishRows(S) == {c \in S : row[c].bearish}

At(r, stage) == {c \in Candidates : run[r].work[c] = stage}

\* r goes on with c moved to another stage; with nothing left to do it returns.
Moved(r, c, stage) ==
  LET work == [run[r].work EXCEPT ![c] = stage]
      left == {d \in Candidates : work[d] # "out"}
  IN  IF left = {} THEN Idle
      ELSE [pc |-> "loop", work |-> work, puts |-> run[r].puts \cap left]

Move(r, c, stage) == run' = [run EXCEPT ![r] = Moved(r, c, stage)]

\* UpdateCandidateStatus whose error is ignored.
SetStatus(c, status) ==
  \/ row' = [row EXCEPT ![c].status = status] /\ NoFault
  \/ UNCHANGED row /\ Fault

-------------------------------------------------------------------------------
(* RunOpeningConfirmationActivity up to the confirmation loop.             *)

\* Without an entry_ready row the activity returns, reversal rows or not; so it
\* does outside its window and when the query fails.
LoadEntryReady(a) ==
  /\ run[a].pc = "idle"
  /\ EntryReady # {}
  /\ run' = [run EXCEPT ![a] =
       [pc |-> "loaded", puts |-> BearishRows(EntryReady),
        work |-> [c \in Candidates |-> IF c \in EntryReady THEN "listed" ELSE "out"]]]
  /\ UNCHANGED <<row, pos, faults, blind>>

\* Mutant of ShortlistOf: what the cap cuts off is left alone, only what is
\* under the bar is demoted.
ShortlistOfBar(ready, list, probe) ==
  [c \in Candidates |-> CASE c \in list -> "listed"
                          [] c \in probe -> "probe"
                          [] c \in ready \ AboveBar -> "demote"
                          [] OTHER -> "out"]

\* Every loaded row that is not on the shortlist is demoted.
ShortlistOf(ready, list, probe) ==
  [c \in Candidates |-> CASE c \in list -> "listed"
                          [] c \in probe -> "probe"
                          [] c \in ready \ list -> "demote"
                          [] OTHER -> "out"]

\* Load the reversal rows (none if the query fails); list the best above the bar.
Shortlist(a) ==
  LET ready == At(a, "listed")
      able  == ready \cap AboveBar
  IN  /\ run[a].pc = "loaded"
      /\ \E list \in SUBSET able, probe \in {Reversals, {}} :
           /\ \/ Cardinality(list) = MaxShortlist
              \/ Cardinality(list) < MaxShortlist /\ list = able
           /\ IF probe = Reversals THEN NoFault ELSE Fault
           /\ run' = [run EXCEPT ![a] =
                [pc |-> "loop", work |-> ShortlistOf(ready, list, probe),
                 puts |-> run[a].puts \cup BearishRows(probe)]]
      /\ UNCHANGED <<row, pos, blind>>

\* The passes of the activity, one after the other: c is the next candidate when
\* it stands at this stage and none stands at an earlier one.
NextAt(r, c, stage, earlier) ==
  /\ run[r].pc = "loop"
  /\ c \in At(r, stage)
  /\ \A s \in earlier : At(r, s) = {}

Demote(a, c) ==
  /\ NextAt(a, c, "demote", {})
  /\ SetStatus(c, "watch_only")
  /\ Move(a, c, "out")
  /\ UNCHANGED <<pos, blind>>

\* A confirmed reversal is promoted and listed, unless the write fails; a
\* reversal that is not confirmed stays as it is.
ProbeReversal(a, c) ==
  /\ NextAt(a, c, "probe", {"demote"})
  /\ \/ /\ row' = [row EXCEPT ![c].status = "entry_ready"]
        /\ Move(a, c, "listed")
        /\ NoFault
     \/ UNCHANGED row /\ Move(a, c, "out") /\ NoFault
     \/ UNCHANGED row /\ Move(a, c, "out") /\ Fault
  /\ UNCHANGED <<pos, blind>>

\* Opening signals and option chain.  A hard block, or no contract that passes
\* the quality, fill and IV filters, demotes at once.
GatherEvidence(a, c) ==
  /\ NextAt(a, c, "listed", {"demote", "probe"})
  /\ \/ SetStatus(c, "watch_only") /\ Move(a, c, "out")
     \/ \E verdict \in {"failed", "passed"} : Move(a, c, verdict) /\ UNCHANGED <<row, faults>>
  /\ UNCHANGED <<pos, blind>>

RejectOnEvidence(a, c) ==
  /\ NextAt(a, c, "failed", {"demote", "probe", "listed", "buying"})
  /\ SetStatus(c, "watch_only")
  /\ Move(a, c, "out")
  /\ UNCHANGED <<pos, blind>>

\* "confirmed" is written before the limits are looked at and before the order.
ConfirmOnEvidence(a, c) ==
  /\ NextAt(a, c, "passed", {"demote", "probe", "listed", "buying"})
  /\ SetStatus(c, "confirmed")
  /\ run' = [run EXCEPT ![a] = [Moved(a, c, "buying") EXCEPT !.pc = "held"]]
  /\ UNCHANGED <<pos, blind>>

-------------------------------------------------------------------------------
(* RunConfirmation (HTTP) up to its limits.                                *)

LoadRequest(q) ==
  /\ run[q].pc = "idle"
  /\ EntryReady # {}
  /\ run' = [run EXCEPT ![q] =
       [pc |-> "loop", puts |-> BearishRows(EntryReady),
        work |-> [c \in Candidates |-> IF c \in EntryReady THEN "listed" ELSE "out"]]]
  /\ UNCHANGED <<row, pos, faults, blind>>

\* No score bar and no check for a held ticker: straight on to the limits.
DecideRequest(q, c) ==
  /\ NextAt(q, c, "listed", {"buying"})
  /\ \/ SetStatus(c, "watch_only") /\ Move(q, c, "out")
     \/ /\ SetStatus(c, "confirmed")
        /\ run' = [run EXCEPT ![q] = [Moved(q, c, "buying") EXCEPT !.pc = "total"]]
  /\ UNCHANGED <<pos, blind>>

-------------------------------------------------------------------------------
(* The limits, each a query of its own, and the buy.                       *)

\* The run goes on to next when the query's answer allows it, and gives the
\* candidate up when not.  A failed query reads as "nothing open" and allows.
Gate(r, c, allowed, next) ==
  /\ c \in At(r, "buying")
  /\ \/ allowed /\ run' = [run EXCEPT ![r].pc = next] /\ UNCHANGED <<faults, blind>>
     \/ ~allowed /\ Move(r, c, "out") /\ UNCHANGED <<faults, blind>>
     \/ run' = [run EXCEPT ![r].pc = next] /\ blind' = blind + 1 /\ Fault
  /\ UNCHANGED <<row, pos>>

\* Mutant of TickerHeld: only today's rows are looked at.
TickerHeldToday(c) == \E d \in Open \cap Today : TickerOf[d] = TickerOf[c]

TickerHeld(c) == \E d \in Open : TickerOf[d] = TickerOf[c]

CheckHeld(a, c) ==
  /\ run[a].pc = "held"
  /\ Gate(a, c, ~TickerHeld(c), "total")

\* Mutant of BelowTotal: one more than the limit.
BelowTotalByOne == Cardinality(Open) <= MaxOpenPositions

BelowTotal == Cardinality(Open) < MaxOpenPositions

CheckTotal(r, c) ==
  /\ run[r].pc = "total"
  /\ Gate(r, c, BelowTotal, "direction")

\* Mutant of BelowDirection: counts the other direction.
BelowOtherDirection(put) == Cardinality(OpenInDirection(~put)) < MaxSameDirection

BelowDirection(put) == Cardinality(OpenInDirection(put)) < MaxSameDirection

CheckDirection(r, c) ==
  /\ run[r].pc = "direction"
  /\ Gate(r, c, BelowDirection(c \in run[r].puts), "insert")

Program(r) == IF r \in Activities THEN "activity"
              ELSE IF r \in Requests THEN "request" ELSE "force"

\* The premium budget, the request's own choice of a contract or the broker may
\* still stop the buy; else the order is placed and the row inserted.  On a
\* candidate_id conflict the row there, open or closed, is kept.
Buy(r, c) ==
  /\ run[r].pc = "insert"
  /\ c \in At(r, "buying")
  /\ \/ /\ pos' = IF pos[c].status = "none"
                  THEN [pos EXCEPT ![c] = [status |-> "open", put |-> c \in run[r].puts,
                                           by |-> Program(r)]]
                  ELSE pos
        /\ NoFault
     \/ UNCHANGED <<pos, faults>>
     \/ UNCHANGED pos /\ Fault
  /\ Move(r, c, "out")
  /\ UNCHANGED <<row, blind>>

-------------------------------------------------------------------------------
(* ForceConfirm.  (Its branch for a ticker that has no row today but an    *)
(* open position orders again and changes nothing kept here.)              *)

PickForced(f, c) ==
  /\ run[f].pc = "idle"
  /\ row[c].status # "rejected"
  /\ run' = [run EXCEPT ![f] =
       [pc |-> "promote", work |-> [Idle.work EXCEPT ![c] = "buying"],
        puts |-> BearishRows({c})]]
  /\ UNCHANGED <<row, pos, faults, blind>>

\* No limit is looked at.  Buy covers the case without a qualifying contract,
\* which leaves the row "confirmed".
PromoteForced(f, c) ==
  /\ run[f].pc = "promote"
  /\ c \in At(f, "buying")
  /\ \/ /\ row' = [row EXCEPT ![c].status = "confirmed"]
        /\ run' = [run EXCEPT ![f].pc = "insert"]
        /\ NoFault
     \/ UNCHANGED row /\ Move(f, c, "out") /\ Fault
  /\ UNCHANGED <<pos, blind>>

-------------------------------------------------------------------------------
(* Everything else that writes the two tables, and crashes.                *)

\* Mutant of ScanResults: a status of EvaluateRSVE that is not mapped.
ScanResultsUnmapped == {"rejected", "stock_signal_passed", "paper_trade_created"}

\* What EvaluateRSVE answers: RunDailyAnalysisActivity and runPipeline pass it no
\* option data, so "paper_trade_created", which they would map to "entry_ready",
\* never comes.
ScanResults == {"rejected", "stock_signal_passed"}

\* A scan upserts the row; one that had already advanced keeps its status.
Rescan(c) ==
  /\ \E result \in ScanResults, bearish \in BearishOf[c] :
       row' = [row EXCEPT ![c] =
                 [status |-> IF @.status \in {"entry_ready", "confirmed", "stock_signal_passed"}
                             THEN @.status ELSE result,
                  bearish |-> bearish, reversal |-> FALSE]]
  /\ UNCHANGED <<pos, run, faults, blind>>

\* A mechanical exit closes the position.
ClosePosition(c) ==
  /\ pos[c].status = "open"
  /\ pos' = [pos EXCEPT ![c].status = "closed"]
  /\ UNCHANGED <<row, run, faults, blind>>

\* The process dies, or the activity's deadline cancels what is left of it.
Crash(r) ==
  /\ run[r].pc # "idle"
  /\ run' = [run EXCEPT ![r] = Idle]
  /\ Fault
  /\ UNCHANGED <<row, pos, blind>>

\* What a run does once it has loaded its candidates.
Continue(r) ==
  \/ r \in Activities /\
       \/ Shortlist(r)
       \/ \E c \in Today : \/ Demote(r, c)
                           \/ ProbeReversal(r, c)
                           \/ GatherEvidence(r, c)
                           \/ RejectOnEvidence(r, c)
                           \/ ConfirmOnEvidence(r, c)
                           \/ CheckHeld(r, c)
  \/ r \in Requests /\ \E c \in Today : DecideRequest(r, c)
  \/ r \in ConfirmRuns /\ \E c \in Today : CheckTotal(r, c) \/ CheckDirection(r, c)
  \/ r \in Forcers /\ \E c \in Today : PromoteForced(r, c)
  \/ \E c \in Today : Buy(r, c)

Start(r) ==
  \/ r \in Activities /\ LoadEntryReady(r)
  \/ r \in Requests /\ LoadRequest(r)
  \/ r \in Forcers /\ \E c \in Today : PickForced(r, c)

Next ==
  \/ \E r \in Runs : Start(r) \/ Continue(r) \/ Crash(r)
  \/ \E c \in Today : Rescan(c)
  \/ \E c \in Candidates : ClosePosition(c)

Spec == Init /\ [][Next]_vars

\* A run that has started goes on: nothing it waits for needs anyone else.
FairSpec == Spec /\ \A r \in Runs : WF_vars(Continue(r))

-------------------------------------------------------------------------------
\* Runs past the total check whose insert is still due.
PastTotal == {r \in ConfirmRuns : run[r].pc \in {"direction", "insert"}}

\* Runs past the direction check whose insert is due, by option type.
PastDirection(put) ==
  {r \in ConfirmRuns : run[r].pc = "insert" /\ (At(r, "buying") \subseteq run[r].puts) = put}

Limited(S) == {c \in S : pos[c].by # "force"}

\* The portfolio limit holds up to its races: the positions that did not come
\* from /api/force-confirm, with those about to be inserted, exceed the maximum
\* by at most one for every other run that checks at the same time and one for
\* every limit query that failed.
OpenBounded ==
  Cardinality(Limited(Open)) + Cardinality(PastTotal)
    <= MaxOpenPositions - 1 + Cardinality(ConfirmRuns) + blind

\* The same for the limit on positions in one direction, whatever direction the
\* scans give a candidate between a run's load and its buy.
SameDirectionBounded ==
  \A put \in BOOLEAN :
    Cardinality(Limited(OpenInDirection(put))) + Cardinality(PastDirection(put))
      <= MaxSameDirection - 1 + Cardinality(ConfirmRuns) + blind

\* "Don't open a second position if one is already open" (activities.go:695):
\* while neither the query for a held ticker nor a limit query fails, a row the
\* activity opened is the only open one of its ticker.  (Of the rows only: two
\* runs over one candidate may both order at the broker and share its row.)
ActivityNeverDoubles ==
  blind = 0 =>
    \A c, d \in Open :
      pos[c].by = "activity" /\ TickerOf[d] = TickerOf[c] => c = d

\* Every entry_ready row an activity loads is decided, on each of its early
\* returns too, unless a write fails or the process dies.
LoadedIsDecided ==
  \A a \in Activities, c \in Today :
    run[a].work[c] # "out" ~> (row[c].status # "entry_ready" \/ faults > 0)
===============================================================================
