---------------------------- MODULE OptionPositions ----------------------------
(***************************************************************************)
(* Paper option positions from the buy order to the closed row:            *)
(*   - Buyers run execution.BuyOptionPosition (internal/execution),        *)
(*     on behalf of the confirmation activity and the HTTP handlers;       *)
(*   - Checkers run runMechanicalChecks (internal/workflow/activities.go), *)
(*     on behalf of the ten-minute risk cycle, the end-of-day review and   *)
(*     their retries.  A checker is one execution slot of a worker.        *)
(* Both share the paper_positions table (internal/store) and the broker,   *)
(* which is external.  Each database write and each broker call is a step  *)
(* of its own.  The mid and quote fetches only feed the write that follows *)
(* them, so they are part of that write's step.                            *)
(*                                                                         *)
(* Left out because nothing reads them back: alpaca_order_id,              *)
(* last_option_price, last_risk_check_at, paper_position_events,           *)
(* position_reviews.                                                       *)
(***************************************************************************)
EXTENDS MechanicalExit, FiniteSets

CONSTANTS
  Candidates,  \* trade_candidates rows; candidate_id is UNIQUE in positions
  Bearish,     \* the candidates whose option is a put
  Buyers,      \* concurrent executions of a buy
  Checkers,    \* concurrent executions of the mechanical checks
  Mids,        \* option prices: what is paid at entry and what a check sees
  Quotes,      \* quotes of the underlying; 0 is a failed fetch
  Levels,      \* structure levels passed by buyers; 0 is "not set"
  MaxBuys,     \* bound: buy orders over the whole behaviour
  MaxFaults,   \* bound: rejections, failed writes and fetches, crashes
  MaxAge       \* days held at which the count saturates

ASSUME PositionsAssumption ==
  /\ Bearish \subseteq Candidates
  /\ IsFiniteSet(Buyers)
  /\ IsFiniteSet(Checkers) /\ Checkers # {}
  /\ Mids \subseteq Nat \ {0}
  /\ Quotes \subseteq Nat
  /\ Levels \subseteq Nat
  /\ MaxBuys \in Nat
  /\ MaxFaults \in Nat
  /\ MaxAge \in Nat /\ TimeStopDays <= MaxAge /\ MaxHoldDays <= MaxAge

VARIABLES
  pos,         \* paper_positions, by candidate
  buyer,       \* where each buy stands
  checker,     \* where each mechanical check stands
  bought,      \* broker: accepted buy orders, by candidate
  sold,        \* broker: accepted sell orders, by candidate
  orphaned,    \* history: accepted buys whose row insert never happened
  merged,      \* history: accepted buys that met a row already there
  undetailed,  \* history: accepted buys whose details were never stored
  lost,        \* history: accepted sells whose row update never happened
  faults       \* faults so far

\* What became of the accepted buy orders.
buys == <<bought, orphaned, merged, undetailed>>

vars == <<pos, buyer, checker, buys, sold, lost, faults>>

NoRow ==
  [status |-> "none", entry |-> 0, level |-> 0, age |-> 0, premium |-> 0,
   peak |-> 0, trailing |-> FALSE, reason |-> NoExit]

Rows ==
  [status : {"none", "open", "closed"},
   entry : Mids \cup {0},          \* entry_price
   level : Levels \cup {0},        \* structure_invalidation_level
   age : 0..MaxAge,                \* days since entry_date
   premium : Mids \cup {0},        \* option_premium; 0 = details not written
   peak : Mids \cup {0},           \* peak_option_price
   trailing : BOOLEAN,             \* trailing_active
   reason : ExitReasons \cup {NoExit}]

\* What a checker loaded of a row, and the days held as of that moment: what
\* later steps may change.  (entry and level never change once inserted.)
Snapshots ==
  [premium : Mids \cup {0}, peak : Mids \cup {0}, trailing : BOOLEAN, age : 0..MaxAge]

Snapshot(row) ==
  [premium |-> row.premium, peak |-> row.peak, trailing |-> row.trailing, age |-> row.age]

NoSnapshot == Snapshot(NoRow)

IdleBuyer == [pc |-> "idle"]

BuyerStates ==
  {IdleBuyer} \cup
  [pc : {"create", "details"}, cand : Candidates, price : Mids, level : Levels \cup {0}]

\* While pc is "sell" or "close", "cand" is the position being sold.
CheckerStates ==
  [pc : {"idle", "loop"}, todo : SUBSET Candidates, snap : [Candidates -> Snapshots]]
  \cup
  [pc : {"sell", "close"}, todo : SUBSET Candidates, snap : [Candidates -> Snapshots],
   cand : Candidates, reason : ExitReasons]

IdleChecker ==
  [pc |-> "idle", todo |-> {}, snap |-> [c \in Candidates |-> NoSnapshot]]

TypeOK ==
  /\ pos \in [Candidates -> Rows]
  /\ buyer \in [Buyers -> BuyerStates]
  /\ checker \in [Checkers -> CheckerStates]
  /\ bought \in [Candidates -> Nat]
  /\ sold \in [Candidates -> Nat]
  /\ orphaned \in [Candidates -> Nat]
  /\ merged \in [Candidates -> Nat]
  /\ undetailed \in [Candidates -> Nat]
  /\ lost \in [Candidates -> Nat]
  /\ faults \in Nat

Init ==
  /\ pos = [c \in Candidates |-> NoRow]
  /\ buyer = [b \in Buyers |-> IdleBuyer]
  /\ checker = [k \in Checkers |-> IdleChecker]
  /\ bought = [c \in Candidates |-> 0]
  /\ sold = [c \in Candidates |-> 0]
  /\ orphaned = [c \in Candidates |-> 0]
  /\ merged = [c \in Candidates |-> 0]
  /\ undetailed = [c \in Candidates |-> 0]
  /\ lost = [c \in Candidates |-> 0]
  /\ faults = 0

Fault ==
  /\ faults < MaxFaults
  /\ faults' = faults + 1

NoFault == UNCHANGED faults

\* One more of them for candidate c.
Count(history, c) == [history EXCEPT ![c] = @ + 1]

-------------------------------------------------------------------------------
(* BuyOptionPosition.  The order is placed first; the row follows.         *)

\* Step 1, for any candidate a caller picks: /api/force-confirm honours every
\* candidate of the day that is not rejected, confirmed and sold ones included.
\* (A rejected order changes nothing.)
PlaceBuyOrder(b, c, price, level) ==
  /\ buyer[b] = IdleBuyer
  /\ bought[c] < MaxBuys
  /\ bought' = Count(bought, c)
  /\ buyer' = [buyer EXCEPT ![b] =
                 [pc |-> "create", cand |-> c, price |-> price, level |-> level]]
  /\ NoFault
  /\ UNCHANGED <<pos, checker, sold, orphaned, merged, undetailed, lost>>

\* Mutant of NewRow: the two numbers swapped.
NewRowSwapped(price, level) ==
  [NoRow EXCEPT !.status = "open", !.entry = level, !.level = price]

NewRow(price, level) ==
  [NoRow EXCEPT !.status = "open", !.entry = price, !.level = level]

\* On a candidate_id conflict the existing row, open or closed, is kept as it is
\* (one contract, its entry price) and its id returned.
Insert(row, new) == IF row.status = "none" THEN new ELSE row

\* Step 2: insert the row.
CreatePaperPosition(b) ==
  LET c == buyer[b].cand
  IN  /\ buyer[b].pc = "create"
      /\ \/ /\ pos' = [pos EXCEPT ![c] = Insert(@, NewRow(buyer[b].price, buyer[b].level))]
            /\ buyer' = [buyer EXCEPT ![b].pc = "details"]
            /\ merged' = IF pos[c].status = "none" THEN merged ELSE Count(merged, c)
            /\ UNCHANGED orphaned
            /\ NoFault
         \/ /\ buyer' = [buyer EXCEPT ![b] = IdleBuyer]
            /\ orphaned' = Count(orphaned, c)
            /\ UNCHANGED <<pos, merged>>
            /\ Fault
      /\ UNCHANGED <<checker, bought, undetailed, sold, lost>>

\* Steps 3 and 4: link the order and store contract and premium, overwriting
\* what an earlier buy stored; a failure is logged and the buy still succeeds.
UpdateOptionDetails(b) ==
  LET c == buyer[b].cand
  IN  /\ buyer[b].pc = "details"
      /\ \/ /\ pos' = [pos EXCEPT ![c].premium = buyer[b].price]
            /\ UNCHANGED undetailed
            /\ NoFault
         \/ /\ undetailed' = Count(undetailed, c)
            /\ UNCHANGED pos
            /\ Fault
      /\ buyer' = [buyer EXCEPT ![b] = IdleBuyer]
      /\ UNCHANGED <<checker, bought, orphaned, merged, sold, lost>>

\* Mutant of ReorderHeldPosition: does not look for a position first.
ReorderAnyPosition(b, c, price) ==
  /\ buyer[b] = IdleBuyer
  /\ bought[c] < MaxBuys
  /\ bought' = Count(bought, c)
  /\ merged' = Count(merged, c)
  /\ buyer' = [buyer EXCEPT ![b] =
                 [pc |-> "details", cand |-> c, price |-> price, level |-> 0]]
  /\ NoFault
  /\ UNCHANGED <<pos, checker, sold, orphaned, undetailed, lost>>

\* /api/force-confirm for a ticker that is not among today's candidates but has
\* a position: order again and overwrite the details, without an insert.  The
\* row was open when the handler read it and may have been closed since.
ReorderHeldPosition(b, c, price) ==
  /\ buyer[b] = IdleBuyer
  /\ pos[c].status # "none"
  /\ bought[c] < MaxBuys
  /\ bought' = Count(bought, c)
  /\ merged' = Count(merged, c)
  /\ buyer' = [buyer EXCEPT ![b] =
                 [pc |-> "details", cand |-> c, price |-> price, level |-> 0]]
  /\ NoFault
  /\ UNCHANGED <<pos, checker, sold, orphaned, undetailed, lost>>

\* The process running the buy dies between two of its steps.
CrashBuyer(b) ==
  /\ buyer[b] # IdleBuyer
  /\ buyer' = [buyer EXCEPT ![b] = IdleBuyer]
  /\ \/ /\ buyer[b].pc = "create"
        /\ orphaned' = Count(orphaned, buyer[b].cand)
        /\ UNCHANGED undetailed
     \/ /\ buyer[b].pc = "details"
        /\ undetailed' = Count(undetailed, buyer[b].cand)
        /\ UNCHANGED orphaned
  /\ Fault
  /\ UNCHANGED <<pos, checker, bought, merged, sold, lost>>

-------------------------------------------------------------------------------
(* runMechanicalChecks and SellOptionPosition.                             *)

\* Mutant of OpenPositions: the query without its status filter.
AnyPositions == {c \in Candidates : pos[c].status # "none"}

OpenPositions == {c \in Candidates : pos[c].status = "open"}

\* The loop goes on with the positions left of the load, or returns.
Resume(k, left) ==
  IF left = {} THEN IdleChecker
  ELSE [pc |-> "loop", todo |-> left,
        snap |-> [c \in Candidates |-> IF c \in left THEN checker[k].snap[c] ELSE NoSnapshot]]

\* One query loads every open position.  A failed query ends the check, and so
\* does a rule set with the exits disabled.
LoadOpenPositions(k) ==
  /\ ExitsEnabled
  /\ checker[k].pc = "idle"
  /\ OpenPositions # {}
  /\ checker' = [checker EXCEPT ![k] =
       [pc |-> "loop", todo |-> OpenPositions,
        snap |-> [c \in Candidates |->
                    IF c \in OpenPositions THEN Snapshot(pos[c]) ELSE NoSnapshot]]]
  /\ NoFault
  /\ UNCHANGED <<pos, buyer, buys, sold, lost>>

\* A position without option details is passed over; so is one whose mid price
\* cannot be fetched.
SkipPosition(k, c) ==
  /\ checker[k].pc = "loop"
  /\ c \in checker[k].todo
  /\ \/ checker[k].snap[c].premium = 0 /\ NoFault
     \/ checker[k].snap[c].premium > 0 /\ Fault
  /\ checker' = [checker EXCEPT ![k] = Resume(k, checker[k].todo \ {c})]
  /\ UNCHANGED <<pos, buyer, buys, sold, lost>>

RiskState(c, snap, u) ==
  [premium |-> snap.premium, peak |-> snap.peak, trailing |-> snap.trailing,
   days |-> snap.age,
   direction |-> IF c \in Bearish THEN "bearish" ELSE "bullish",
   level |-> StructureLevel(pos[c].level, pos[c].entry),
   underlying |-> u]

\* Mutant of StartSale: no order is placed.
StartSaleUnordered(k, c, reason) ==
  [pc |-> "close", todo |-> checker[k].todo \ {c}, cand |-> c, reason |-> reason,
   snap |-> [checker[k].snap EXCEPT ![c] = NoSnapshot]]

StartSale(k, c, reason) ==
  [pc |-> "sell", todo |-> checker[k].todo \ {c}, cand |-> c, reason |-> reason,
   snap |-> [checker[k].snap EXCEPT ![c] = NoSnapshot]]

\* Evaluate the rules on what was loaded and persist the outcome, whatever the
\* row holds by now; a failed write is logged.  Then hold or go on to sell.
CheckPosition(k, c, mid, u) ==
  LET snap == checker[k].snap[c]
      dec  == Evaluate(RiskState(c, snap, u), mid)
  IN  /\ checker[k].pc = "loop"
      /\ c \in checker[k].todo
      /\ snap.premium > 0
      /\ \/ /\ pos' = [pos EXCEPT ![c].peak = dec.peak, ![c].trailing = dec.trailing]
            /\ NoFault
         \/ UNCHANGED pos /\ Fault
      /\ checker' = [checker EXCEPT ![k] =
           IF dec.reason = NoExit THEN Resume(k, checker[k].todo \ {c})
           ELSE StartSale(k, c, dec.reason)]
      /\ UNCHANGED <<buyer, buys, sold, lost>>

\* SellOptionPosition: the sell order first.  A rejected one leaves the
\* position open and the loop goes on.
PlaceSellOrder(k) ==
  /\ checker[k].pc = "sell"
  /\ \/ /\ sold' = Count(sold, checker[k].cand)
        /\ checker' = [checker EXCEPT ![k].pc = "close"]
        /\ NoFault
     \/ /\ checker' = [checker EXCEPT ![k] = Resume(k, checker[k].todo)]
        /\ UNCHANGED sold
        /\ Fault
  /\ UNCHANGED <<pos, buyer, buys, lost>>

\* Mutant of Closed: the exit reason without the status.
ClosedInNameOnly(row, reason) == [row EXCEPT !.reason = reason]

Closed(row, reason) == [row EXCEPT !.status = "closed", !.reason = reason]

\* Then the row, by id and whatever its status.  When the write fails, or the
\* activity's deadline has passed, the row keeps the status it had.
ClosePosition(k) ==
  LET c == checker[k].cand
  IN  /\ checker[k].pc = "close"
      /\ \/ /\ pos' = [pos EXCEPT ![c] = Closed(@, checker[k].reason)]
            /\ UNCHANGED lost
            /\ NoFault
         \/ /\ lost' = Count(lost, c)
            /\ UNCHANGED pos
            /\ Fault
      /\ checker' = [checker EXCEPT ![k] = Resume(k, checker[k].todo)]
      /\ UNCHANGED <<buyer, buys, sold>>

\* The worker running the check dies; the slot is free for the retry.
CrashChecker(k) ==
  /\ checker[k].pc # "idle"
  /\ checker' = [checker EXCEPT ![k] = IdleChecker]
  /\ lost' = IF checker[k].pc = "close"
             THEN Count(lost, checker[k].cand)
             ELSE lost
  /\ Fault
  /\ UNCHANGED <<pos, buyer, buys, sold>>

\* A day passes for every open position.
NextDay ==
  /\ \E c \in OpenPositions : pos[c].age < MaxAge
  /\ pos' = [c \in Candidates |->
               IF c \in OpenPositions /\ pos[c].age < MaxAge
               THEN [pos[c] EXCEPT !.age = @ + 1] ELSE pos[c]]
  /\ NoFault
  /\ UNCHANGED <<buyer, checker, buys, sold, lost>>

-------------------------------------------------------------------------------
BuyerStep(b) ==
  \/ \E c \in Candidates, price \in Mids, level \in Levels :
       PlaceBuyOrder(b, c, price, level)
  \/ \E c \in Candidates, price \in Mids : ReorderHeldPosition(b, c, price)
  \/ CreatePaperPosition(b)
  \/ UpdateOptionDetails(b)
  \/ CrashBuyer(b)

CheckerStep(k) ==
  \/ LoadOpenPositions(k)
  \/ \E c \in Candidates :
       \/ SkipPosition(k, c)
       \/ \E mid \in Mids, u \in Quotes : CheckPosition(k, c, mid, u)
  \/ PlaceSellOrder(k)
  \/ ClosePosition(k)

Next ==
  \/ \E b \in Buyers : BuyerStep(b)
  \/ \E k \in Checkers : CheckerStep(k) \/ CrashChecker(k)
  \/ NextDay

Spec == Init /\ [][Next]_vars

\* The schedules keep starting checks, a started check keeps running, and days
\* pass.  Buyers are under no obligation, and neither are faults.
FairSpec == Spec /\ WF_vars(NextDay) /\ \A k \in Checkers : WF_vars(CheckerStep(k))

-------------------------------------------------------------------------------
(* Sell orders accounted for.                                              *)

\* Checkers whose sell order is accepted and whose row update is still due.
InFlight(c) == {k \in Checkers : checker[k].pc = "close" /\ checker[k].cand = c}

\* Checkers that loaded the position while it was open and may yet sell it.
MaySell(c) ==
  {k \in Checkers : \/ c \in checker[k].todo
                    \/ checker[k].pc = "sell" /\ checker[k].cand = c}

\* A position is sold at most once per check that can run at the same time,
\* plus once per accepted sale whose row update was lost.  With one checker and
\* no lost update this is "sold at most once"; nothing in SellOptionPosition
\* claims the row first, so with more checkers it can be more.
SellsBounded ==
  \A c \in Candidates : sold[c] <= lost[c] + Cardinality(Checkers)

\* The strengthening that makes SellsBounded inductive: while the row is open
\* every accepted sale is either lost or about to be recorded; once it is
\* closed only the checkers that loaded it before can still sell it.
SellAccounting ==
  \A c \in Candidates :
    /\ pos[c].status = "none" =>
         sold[c] = 0 /\ lost[c] = 0 /\ InFlight(c) = {} /\ MaySell(c) = {}
    /\ pos[c].status = "open" => sold[c] = lost[c] + Cardinality(InFlight(c))
    /\ pos[c].status = "closed" =>
         sold[c] + Cardinality(MaySell(c)) <= lost[c] + Cardinality(Checkers)

\* A sale the loop is working on is no longer in its list of positions.
SaleLeftTheList ==
  \A k \in Checkers :
    checker[k].pc \in {"sell", "close"} => checker[k].cand \notin checker[k].todo

\* Buyers whose order is accepted and whose row insert is still due.
InsertDue(c) == {b \in Buyers : buyer[b].pc = "create" /\ buyer[b].cand = c}

\* Buyers that got or found a row and have yet to store its option details.
DetailsDue(c) == {b \in Buyers : buyer[b].pc = "details" /\ buyer[b].cand = c}

\* Where every accepted buy order of a candidate went: one made the row, which
\* stands for one contract whatever else the broker filled; the others never
\* reached their insert, are about to, or were folded into the row.  Nothing is
\* folded into a row that is not there.  And an open row that no check can see,
\* for want of its details, is one whose buy failed to store them or still will.
BuysAccounted ==
  \A c \in Candidates :
    /\ bought[c] = (IF pos[c].status = "none" THEN 0 ELSE 1)
                     + orphaned[c] + Cardinality(InsertDue(c)) + merged[c]
    /\ pos[c].status = "none" => merged[c] = 0
    /\ (pos[c].status = "open" /\ pos[c].premium = 0) =>
         DetailsDue(c) # {} \/ undetailed[c] > 0

\* The execution service's comment says callers can safely retry
\* (internal/execution/options.go:14): a position is sold once.
SoldAtMostOnce == \A c \in Candidates : sold[c] <= 1

\* The row and every check that has the position before it know of price p, or
\* know the trailing stop to be armed.
PeakSettled(c, p) ==
  /\ pos[c].peak >= p
  /\ \A k \in Checkers : c \in checker[k].todo => checker[k].snap[c].peak >= p

TrailSettled(c) ==
  /\ pos[c].trailing
  /\ \A k \in Checkers : c \in checker[k].todo => checker[k].snap[c].trailing

\* An overlapping check may write back the lower peak and the unarmed flag it
\* loaded, against their column comments (internal/store/store.go:508).  Only
\* such a check can: a peak or an armed flag that the row and every check under
\* way have is never lost again, by whatever check, buy, failure or crash.
RiskStateSettles ==
  [][\A c \in Candidates :
       /\ \A p \in Mids : PeakSettled(c, p) => PeakSettled(c, p)'
       /\ TrailSettled(c) => TrailSettled(c)']_vars

\* A closed position that no check under way has loaded or is selling.
Sealed(c) == pos[c].status = "closed" /\ MaySell(c) = {} /\ InFlight(c) = {}

\* ClosePosition overwrites the exit of a closed row, so the exit first recorded
\* is final only once the checks that loaded the position before have ended.  From
\* then on it is, however often the candidate is bought again: no check comes back
\* to the position, its exit reason stands and nothing more is sold of it.
ExitRecordSettles ==
  [][\A c \in Candidates : Sealed(c) =>
       Sealed(c)' /\ pos'[c].reason = pos[c].reason /\ sold'[c] = sold[c]]_vars

\* An open position whose option details are stored is eventually closed: the
\* hard time limit forces it, however often orders and writes fail before.
TrackedPositionsClose ==
  \A c \in Candidates :
    (pos[c].status = "open" /\ pos[c].premium > 0) ~> (pos[c].status = "closed")

\* The ledger this component implements.
Ledger == INSTANCE PositionLedger
            WITH status <- [c \in Candidates |-> pos[c].status]

\* Order first, record second, both ways; a closed row stays closed.
ImplementsLedger == Ledger!Spec
===============================================================================
