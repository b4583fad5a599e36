------------------------ MODULE OptionPositionsProofs ------------------------
(***************************************************************************)
(* OptionPositions for every number of candidates, buyers, checkers and    *)
(* faults: its types, how often a position can be sold, where every buy    *)
(* order went, that it implements PositionLedger, and when the risk state  *)
(* and the exit of a row are settled under overlapping checks.             *)
(***************************************************************************)
EXTENDS OptionPositions, ExtremaAndFolds, FiniteSetTheorems

\* The evaluator returns a documented reason and invents no price: the peak is
\* the stored one or the price it was given.
LEMMA EvaluateType ==
  ASSUME NEW S \in SUBSET Nat, NEW rs, NEW mid \in S,
         rs.peak \in S, rs.trailing \in BOOLEAN
  PROVE  /\ Evaluate(rs, mid).reason \in ExitReasons \cup {NoExit}
         /\ Evaluate(rs, mid).peak \in S
         /\ Evaluate(rs, mid).trailing \in BOOLEAN
<1> DEFINE hits == {i \in 1..6 : Fires(Priority[i], rs, mid)}
<1>1. FirstMatch(rs, mid) \in ExitReasons \cup {NoExit}
  <2>1. hits # {} => \E i \in hits : \A j \in hits : i <= j
    BY NaturalsHaveMin
  <2>2. hits # {} => (CHOOSE i \in hits : \A j \in hits : i <= j) \in 1..6
    BY <2>1
  <2> QED
    BY <2>2 DEF FirstMatch, ExitReasons
<1>2. RaisedPeak(rs, mid) \in S
  BY DEF RaisedPeak
<1>3. Armed(rs, mid) \in BOOLEAN
  BY DEF Armed, FollowedThrough
<1> QED
  BY <1>1, <1>2, <1>3 DEF Evaluate

USE ExitRulesAssumption, PositionsAssumption DEF buys, Count

-------------------------------------------------------------------------------
(* Types.                                                                  *)

LEMMA NoRowType == NoRow \in Rows /\ NoSnapshot \in Snapshots
<1>1. 0 \in 0..MaxAge
  OBVIOUS
<1> QED
  BY <1>1 DEF NoRow, Rows, NoSnapshot, Snapshot, Snapshots

LEMMA SnapshotType == ASSUME NEW row \in Rows PROVE Snapshot(row) \in Snapshots
  BY DEF Rows, Snapshot, Snapshots

\* What a check and a close write into a row.
LEMMA RowUpdateType ==
  ASSUME NEW row \in Rows, NEW peak \in Mids \cup {0}, NEW trailing \in BOOLEAN,
         NEW reason \in ExitReasons
  PROVE  /\ [row EXCEPT !.peak = peak, !.trailing = trailing] \in Rows
         /\ Closed(row, reason) \in Rows
  BY DEF Rows, Closed

\* What a buy writes into it.
LEMMA DetailsType ==
  ASSUME NEW row \in Rows, NEW premium \in Mids
  PROVE  [row EXCEPT !.premium = premium] \in Rows
  BY DEF Rows

\* What an insert makes of it.
LEMMA InsertType ==
  ASSUME NEW row \in Rows, NEW price \in Mids, NEW level \in Levels \cup {0}
  PROVE  Insert(row, NewRow(price, level)) \in Rows
<1>1. [NoRow EXCEPT !.status = "open", !.entry = price] \in Rows
  BY NoRowType DEF Rows
<1>2. [[NoRow EXCEPT !.status = "open", !.entry = price] EXCEPT !.level = level] \in Rows
  BY <1>1 DEF Rows
<1>3. NewRow(price, level) \in Rows
  BY <1>2 DEF NewRow
<1> QED
  BY <1>3 DEF Insert

\* The write of the risk state leaves every status as it is.
LEMMA RiskWriteStatus ==
  ASSUME pos \in [Candidates -> Rows], NEW c \in Candidates, NEW d, NEW peak, NEW trailing,
         pos' = [pos EXCEPT ![d].peak = peak, ![d].trailing = trailing]
  PROVE  pos'[c].status = pos[c].status
<1>1. pos[c] \in Rows
  OBVIOUS
<1>2. [[pos[c] EXCEPT !.peak = peak] EXCEPT !.trailing = trailing].status = pos[c].status
  BY <1>1 DEF Rows
<1>3. d \notin Candidates => pos' = pos
  OBVIOUS
<1>4. CASE d = c
  BY <1>2, <1>4
<1>5. CASE d # c
  BY <1>5
<1> QED
  BY <1>4, <1>5

\* A check changes no status.
LEMMA CheckPositionStatus ==
  ASSUME pos \in [Candidates -> Rows], NEW c \in Candidates,
         NEW k, NEW d, NEW mid, NEW u, CheckPosition(k, d, mid, u)
  PROVE  pos'[c].status = pos[c].status
<1>1. \/ UNCHANGED pos
      \/ \E peak, trailing : pos' = [pos EXCEPT ![d].peak = peak, ![d].trailing = trailing]
  BY Zenon DEF CheckPosition
<1> QED
  BY <1>1, RiskWriteStatus, Zenon

\* What a close and an insert do to a row's status.
LEMMA RowStatus ==
  ASSUME NEW row \in Rows, NEW reason, NEW price, NEW level
  PROVE  /\ Closed(row, reason).status = "closed"
         /\ \/ Insert(row, NewRow(price, level)).status = row.status
            \/ /\ row.status = "none"
               /\ Insert(row, NewRow(price, level)).status = "open"
  BY DEF Rows, Closed, Insert, NewRow, NoRow

LEMMA IdleCheckerType == IdleChecker \in CheckerStates
  BY NoRowType DEF IdleChecker, CheckerStates

\* What the type of a checker says of its fields.
LEMMA CheckerFields ==
  ASSUME NEW s \in CheckerStates
  PROVE  /\ s.pc \in {"idle", "loop", "sell", "close"}
         /\ s.todo \subseteq Candidates
         /\ s.snap \in [Candidates -> Snapshots]
         /\ s.pc \in {"sell", "close"} => s.cand \in Candidates /\ s.reason \in ExitReasons
  BY DEF CheckerStates

LEMMA ResumeType ==
  ASSUME checker \in [Checkers -> CheckerStates], NEW k \in Checkers,
         NEW left \in SUBSET Candidates
  PROVE  /\ Resume(k, left) \in CheckerStates
         /\ Resume(k, left).todo = left
         /\ Resume(k, left).pc \in {"idle", "loop"}
<1>1. checker[k].snap \in [Candidates -> Snapshots]
  BY CheckerFields
<1>2. CASE left = {}
  BY <1>2, IdleCheckerType DEF Resume, IdleChecker
<1>3. CASE left # {}
  BY <1>1, <1>3, NoRowType DEF Resume, CheckerStates
<1> QED
  BY <1>2, <1>3

\* A buyer that is not idle carries its candidate, price and level.
LEMMA BuyerFields ==
  ASSUME NEW s \in BuyerStates, s.pc # "idle"
  PROVE  /\ s \in [pc : {"create", "details"}, cand : Candidates, price : Mids,
                   level : Levels \cup {0}]
         /\ s.cand \in Candidates /\ s.price \in Mids /\ s.level \in Levels \cup {0}
  BY DEF BuyerStates, IdleBuyer

\* The buyers, the checkers and the table start with their types.
THEOREM InitType == Init => TypeOK
<1> SUFFICES ASSUME Init PROVE TypeOK
  OBVIOUS
<1> QED
  BY NoRowType, IdleCheckerType DEF Init, TypeOK, BuyerStates

LEMMA BuyerStepType ==
  ASSUME TypeOK, NEW b \in Buyers, BuyerStep(b)
  PROVE  TypeOK'
<1> USE DEF TypeOK, Fault, NoFault
<1>1. ASSUME NEW c \in Candidates, NEW price \in Mids, NEW level \in Levels,
             PlaceBuyOrder(b, c, price, level)
      PROVE  TypeOK'
  <2>1. [pc |-> "create", cand |-> c, price |-> price, level |-> level] \in BuyerStates
    BY DEF BuyerStates
  <2> QED
    BY <1>1, <2>1 DEF PlaceBuyOrder
<1>2. ASSUME NEW c \in Candidates, NEW price \in Mids, ReorderHeldPosition(b, c, price)
      PROVE  TypeOK'
  <2>1. [pc |-> "details", cand |-> c, price |-> price, level |-> 0] \in BuyerStates
    BY DEF BuyerStates
  <2> QED
    BY <1>2, <2>1 DEF ReorderHeldPosition
<1>3. IdleBuyer \in BuyerStates
  BY DEF BuyerStates
<1>4. CASE CreatePaperPosition(b)
  <2>1. buyer[b].pc = "create" /\ buyer[b] \in BuyerStates
    BY <1>4 DEF CreatePaperPosition
  <2>2. /\ buyer[b].cand \in Candidates /\ buyer[b].price \in Mids
        /\ buyer[b].level \in Levels \cup {0}
        /\ [buyer[b] EXCEPT !.pc = "details"] \in BuyerStates
    BY <2>1, BuyerFields DEF BuyerStates
  <2>3. \A row \in Rows : Insert(row, NewRow(buyer[b].price, buyer[b].level)) \in Rows
    BY <2>2, InsertType
  <2>4. pos' \in [Candidates -> Rows] /\ buyer' \in [Buyers -> BuyerStates]
    BY <1>3, <1>4, <2>2, <2>3 DEF CreatePaperPosition
  <2> QED
    BY <1>4, <2>2, <2>4 DEF CreatePaperPosition
<1>5. CASE UpdateOptionDetails(b)
  <2>1. buyer[b].pc = "details" /\ buyer[b] \in BuyerStates
    BY <1>5 DEF UpdateOptionDetails
  <2>2. buyer[b].cand \in Candidates /\ buyer[b].price \in Mids
    BY <2>1, BuyerFields
  <2>3. [pos[buyer[b].cand] EXCEPT !.premium = buyer[b].price] \in Rows
    <3>1. pos[buyer[b].cand] \in Rows
      BY <2>2
    <3> QED
      BY <2>2, <3>1, DetailsType
  <2> QED
    BY <1>3, <1>5, <2>2, <2>3 DEF UpdateOptionDetails
<1>6. CASE CrashBuyer(b)
  <2>1. buyer[b].pc \in {"create", "details"} => buyer[b].cand \in Candidates
    BY BuyerFields
  <2> QED
    BY <1>3, <1>6, <2>1 DEF CrashBuyer
<1> QED
  BY <1>1, <1>2, <1>4, <1>5, <1>6 DEF BuyerStep

LEMMA CheckerStepType ==
  ASSUME TypeOK, NEW k \in Checkers, CheckerStep(k) \/ CrashChecker(k)
  PROVE  TypeOK'
<1> USE DEF TypeOK, Fault, NoFault
<1>1. /\ checker[k] \in CheckerStates
      /\ checker[k].todo \subseteq Candidates
      /\ checker[k].snap \in [Candidates -> Snapshots]
  BY CheckerFields
<1>2. CASE LoadOpenPositions(k)
  <2>1. OpenPositions \subseteq Candidates
    BY DEF OpenPositions
  <2>2. [c \in Candidates |->
           IF c \in OpenPositions THEN Snapshot(pos[c]) ELSE NoSnapshot]
          \in [Candidates -> Snapshots]
    BY NoRowType, SnapshotType
  <2>3. checker'[k] \in CheckerStates
    BY <1>2, <2>1, <2>2 DEF LoadOpenPositions, CheckerStates
  <2> QED
    BY <1>2, <2>3 DEF LoadOpenPositions
<1>3. ASSUME NEW c \in Candidates, SkipPosition(k, c)
      PROVE  TypeOK'
  <2>1. Resume(k, checker[k].todo \ {c}) \in CheckerStates
    BY <1>1, ResumeType
  <2> QED
    BY <1>3, <2>1 DEF SkipPosition
<1>4. ASSUME NEW c \in Candidates, NEW mid \in Mids, NEW u \in Quotes,
             CheckPosition(k, c, mid, u)
      PROVE  TypeOK'
  <2> DEFINE snap == checker[k].snap[c]
             dec  == Evaluate(RiskState(c, snap, u), mid)
             left == checker[k].todo \ {c}
             sell == StartSale(k, c, dec.reason)
  <2>1. snap \in Snapshots
    BY <1>1
  <2>2. /\ dec.peak \in Mids \cup {0}
        /\ dec.trailing \in BOOLEAN
        /\ dec.reason \in ExitReasons \cup {NoExit}
    <3>1. /\ RiskState(c, snap, u).peak \in Mids \cup {0}
          /\ RiskState(c, snap, u).trailing \in BOOLEAN
      BY <2>1 DEF RiskState, Snapshots
    <3>2. Mids \cup {0} \in SUBSET Nat /\ mid \in Mids \cup {0}
      OBVIOUS
    <3> DEFINE prices == Mids \cup {0}
               state  == RiskState(c, snap, u)
    <3>3. /\ Evaluate(state, mid).reason \in ExitReasons \cup {NoExit}
          /\ Evaluate(state, mid).peak \in prices
          /\ Evaluate(state, mid).trailing \in BOOLEAN
      <4>1. /\ prices \in SUBSET Nat /\ mid \in prices
            /\ state.peak \in prices /\ state.trailing \in BOOLEAN
        BY <3>1, <3>2
      <4> HIDE DEF prices, state
      <4> QED
        BY <4>1, EvaluateType
    <3> QED
      BY <3>3
  <2>3. pos' \in [Candidates -> Rows]
    <3>1. [pos[c] EXCEPT !.peak = dec.peak, !.trailing = dec.trailing] \in Rows
      <4>1. pos[c] \in Rows
        OBVIOUS
      <4> HIDE DEF dec
      <4>2. PICK r : r \in ExitReasons
        BY DEF ExitReasons
      <4> QED
        BY <2>2, <4>1, <4>2, RowUpdateType
    <3> QED
      BY <1>4, <3>1 DEF CheckPosition
  <2>4. Resume(k, left) \in CheckerStates
    BY <1>1, ResumeType
  <2>5. dec.reason # NoExit => sell \in CheckerStates
    <3>1. [checker[k].snap EXCEPT ![c] = NoSnapshot] \in [Candidates -> Snapshots]
      BY <1>1, NoRowType
    <3> QED
      BY <1>1, <2>2, <3>1 DEF CheckerStates, StartSale
  <2>6. checker' \in [Checkers -> CheckerStates]
    BY <1>4, <2>4, <2>5 DEF CheckPosition
  <2> QED
    BY <1>4, <2>3, <2>6 DEF CheckPosition
<1>5. CASE PlaceSellOrder(k)
  <2>1. checker[k].cand \in Candidates
    BY <1>1, <1>5, CheckerFields DEF PlaceSellOrder
  <2>2. [checker[k] EXCEPT !.pc = "close"] \in CheckerStates
    BY <1>1, <1>5 DEF PlaceSellOrder, CheckerStates
  <2>3. Resume(k, checker[k].todo) \in CheckerStates
    BY <1>1, ResumeType
  <2> QED
    BY <1>5, <2>1, <2>2, <2>3 DEF PlaceSellOrder
<1>6. CASE ClosePosition(k)
  <2>1. checker[k].cand \in Candidates /\ checker[k].reason \in ExitReasons
    BY <1>1, <1>6, CheckerFields DEF ClosePosition
  <2>2. Resume(k, checker[k].todo) \in CheckerStates
    BY <1>1, ResumeType
  <2>3. Closed(pos[checker[k].cand], checker[k].reason) \in Rows
    BY <2>1, RowUpdateType
  <2>4. pos' \in [Candidates -> Rows]
    BY <1>6, <2>1, <2>3 DEF ClosePosition
  <2> QED
    BY <1>6, <2>1, <2>2, <2>4 DEF ClosePosition
<1>7. CASE CrashChecker(k)
  <2>1. checker[k].pc = "close" => checker[k].cand \in Candidates
    BY <1>1, CheckerFields
  <2> QED
    BY <1>7, <2>1, IdleCheckerType DEF CrashChecker
<1> QED
  BY <1>2, <1>3, <1>4, <1>5, <1>6, <1>7 DEF CheckerStep

LEMMA NextDayType ==
  ASSUME TypeOK, NextDay
  PROVE  TypeOK'
<1>1. ASSUME NEW c \in Candidates, pos[c].age < MaxAge
      PROVE  [pos[c] EXCEPT !.age = @ + 1] \in Rows
  <2>1. pos[c] \in Rows
    BY DEF TypeOK
  <2> QED
    BY <1>1, <2>1 DEF Rows
<1>2. pos' \in [Candidates -> Rows]
  BY <1>1 DEF NextDay, TypeOK
<1> QED
  BY <1>2 DEF NextDay, TypeOK, NoFault

LEMMA NextStepType ==
  ASSUME TypeOK, [Next]_vars
  PROVE  TypeOK'
<1>1. CASE Next
  BY <1>1, BuyerStepType, CheckerStepType, NextDayType DEF Next
<1>2. CASE UNCHANGED vars
  BY <1>2 DEF vars, TypeOK
<1> QED
  BY <1>1, <1>2

\* Every reachable state is well typed.
THEOREM PositionsTypeCorrect == Spec => []TypeOK
  BY InitType, NextStepType, PTL DEF Spec

-------------------------------------------------------------------------------
(* Sales.  The inductive invariant is TypeOK, SaleLeftTheList and          *)
(* SellAccounting together: SellsBounded says nothing of the sales still   *)
(* in flight, and SellAccounting counts one checker once only because a    *)
(* sale in progress has left the checker's list.                           *)

\* Steps that leave the checkers alone.
QuietStep ==
  \/ \E b \in Buyers : BuyerStep(b)
  \/ NextDay

LEMMA QuietStepFrame ==
  ASSUME QuietStep
  PROVE  UNCHANGED <<checker, sold, lost>>
  BY DEF QuietStep, BuyerStep, PlaceBuyOrder, ReorderHeldPosition,
         CreatePaperPosition, UpdateOptionDetails, CrashBuyer, NextDay

\* What a quiet step does to the status of a row: at most insert it.
LEMMA QuietStepStatus ==
  ASSUME TypeOK, QuietStep, NEW c \in Candidates
  PROVE  \/ pos'[c].status = pos[c].status
         \/ pos[c].status = "none" /\ pos'[c].status = "open"
<1>1. pos \in [Candidates -> Rows] /\ pos[c] \in Rows
  BY DEF TypeOK
<1>2. ASSUME NEW b \in Buyers, CreatePaperPosition(b)
      PROVE  \/ pos'[c].status = pos[c].status
             \/ pos[c].status = "none" /\ pos'[c].status = "open"
  BY <1>1, <1>2, RowStatus DEF CreatePaperPosition
<1>3. ASSUME NEW b \in Buyers, UpdateOptionDetails(b)
      PROVE  pos'[c].status = pos[c].status
  BY <1>1, <1>3 DEF UpdateOptionDetails, Rows
<1>4. CASE NextDay
  BY <1>1, <1>4 DEF NextDay, Rows
<1> QED
  BY <1>2, <1>3, <1>4 DEF QuietStep, BuyerStep, PlaceBuyOrder,
     ReorderHeldPosition, CrashBuyer

LEMMA SaleSets ==
  ASSUME NEW c
  PROVE  /\ InFlight(c) \subseteq Checkers /\ MaySell(c) \subseteq Checkers
         /\ IsFiniteSet(InFlight(c)) /\ IsFiniteSet(MaySell(c))
         /\ Cardinality(InFlight(c)) \in Nat /\ Cardinality(MaySell(c)) \in Nat
         /\ Cardinality(Checkers) \in Nat
<1>1. InFlight(c) \in SUBSET Checkers /\ MaySell(c) \in SUBSET Checkers
  BY DEF InFlight, MaySell
<1>2. IsFiniteSet(InFlight(c)) /\ IsFiniteSet(MaySell(c))
  BY <1>1, FS_Subset, PositionsAssumption
<1> QED
  BY <1>1, <1>2, FS_CardinalityType, PositionsAssumption

-------------------------------------------------------------------------------
LEMMA SaleLeftTheListStep ==
  ASSUME TypeOK, SaleLeftTheList, [Next]_vars
  PROVE  SaleLeftTheList'
<1>1. checker \in [Checkers -> CheckerStates]
  BY DEF TypeOK
<1>2. CASE UNCHANGED checker
  BY <1>2 DEF SaleLeftTheList
<1>3. ASSUME NEW k \in Checkers, CheckerStep(k) \/ CrashChecker(k)
      PROVE  SaleLeftTheList'
  <2>1. \A j \in Checkers : j # k => checker'[j] = checker[j]
    BY <1>1, <1>3, ZenonT(30) DEF CheckerStep, CrashChecker, LoadOpenPositions, SkipPosition,
       CheckPosition, PlaceSellOrder, ClosePosition
  <2>2. \A left \in SUBSET Candidates : Resume(k, left).pc \in {"idle", "loop"}
    BY <1>1, ResumeType
  <2>3. checker[k].todo \in SUBSET Candidates
    BY <1>1, CheckerFields
  <2>4. checker'[k].pc \in {"sell", "close"} => checker'[k].cand \notin checker'[k].todo
    <3>1. CASE LoadOpenPositions(k)
      BY <1>1, <3>1 DEF LoadOpenPositions
    <3>2. ASSUME NEW c \in Candidates, SkipPosition(k, c)
          PROVE  checker'[k].pc \in {"idle", "loop"}
      BY <1>1, <2>2, <2>3, <3>2 DEF SkipPosition
    <3>3. ASSUME NEW c \in Candidates, NEW mid \in Mids, NEW u \in Quotes,
                 CheckPosition(k, c, mid, u),
                 checker'[k].pc \in {"sell", "close"}
          PROVE  checker'[k].cand \notin checker'[k].todo
      <4>1. checker'[k] # Resume(k, checker[k].todo \ {c})
        BY <2>2, <2>3, <3>3
      <4>2. checker'[k].todo = checker[k].todo \ {c} /\ checker'[k].cand = c
        BY <1>1, <3>3, <4>1 DEF CheckPosition, StartSale
      <4> QED
        BY <4>2
    <3>4. CASE PlaceSellOrder(k)
      BY <1>1, <2>2, <2>3, <3>4 DEF PlaceSellOrder, SaleLeftTheList, CheckerStates
    <3>5. CASE ClosePosition(k)
      BY <1>1, <2>2, <2>3, <3>5 DEF ClosePosition
    <3>6. CASE CrashChecker(k)
      BY <1>1, <3>6 DEF CrashChecker, IdleChecker
    <3> QED
      BY <1>3, <3>1, <3>2, <3>3, <3>4, <3>5, <3>6 DEF CheckerStep
  <2> QED
    BY <2>1, <2>4 DEF SaleLeftTheList
<1> QED
  BY <1>2, <1>3, QuietStepFrame DEF Next, QuietStep, vars

-------------------------------------------------------------------------------
Accounted(c) ==
  /\ pos[c].status = "none" =>
       sold[c] = 0 /\ lost[c] = 0 /\ InFlight(c) = {} /\ MaySell(c) = {}
  /\ pos[c].status = "open" => sold[c] = lost[c] + Cardinality(InFlight(c))
  /\ pos[c].status = "closed" =>
       sold[c] + Cardinality(MaySell(c)) <= lost[c] + Cardinality(Checkers)

LEMMA AccountedQuiet ==
  ASSUME TypeOK, QuietStep \/ UNCHANGED vars, NEW c \in Candidates, Accounted(c)
  PROVE  Accounted(c)'
<1>1. UNCHANGED <<checker, sold, lost>>
  BY QuietStepFrame DEF vars
<1>2. InFlight(c)' = InFlight(c) /\ MaySell(c)' = MaySell(c)
  BY <1>1 DEF InFlight, MaySell
<1>3. \/ pos'[c].status = pos[c].status
      \/ pos[c].status = "none" /\ pos'[c].status = "open"
  BY QuietStepStatus DEF vars
<1>4. /\ sold'[c] = sold[c] /\ lost'[c] = lost[c]
      /\ Cardinality(InFlight(c)') = Cardinality(InFlight(c))
      /\ Cardinality(MaySell(c)') = Cardinality(MaySell(c))
  BY <1>1, <1>2
<1>5. CASE pos'[c].status = pos[c].status
  BY <1>2, <1>4, <1>5 DEF Accounted
<1>6. CASE pos[c].status = "none" /\ pos'[c].status = "open"
  <2>1. sold[c] = 0 /\ lost[c] = 0 /\ Cardinality(InFlight(c)) = 0
    BY <1>6, FS_EmptySet DEF Accounted
  <2> QED
    BY <1>4, <1>6, <2>1 DEF Accounted
<1> QED
  BY <1>3, <1>5, <1>6

\* Steps of a checker that place and record no sale: the checkers that may sell
\* a position can only become fewer, unless the position is open.
LEMMA AccountedChecking ==
  ASSUME TypeOK, NEW k \in Checkers, NEW c \in Candidates, Accounted(c),
         UNCHANGED <<sold, lost>>,
         pos'[c].status = pos[c].status,
         \A j \in Checkers : j # k => checker'[j] = checker[j],
         checker[k].pc # "close", checker'[k].pc # "close",
         pos[c].status # "open" => (k \in MaySell(c)' => k \in MaySell(c))
  PROVE  Accounted(c)'
<1>1. InFlight(c)' = InFlight(c)
  BY DEF InFlight
<1>2. pos[c].status # "open" => MaySell(c)' \subseteq MaySell(c)
  BY DEF MaySell
<1>3. MaySell(c)' \subseteq MaySell(c) =>
        Cardinality(MaySell(c)') \in Nat /\ Cardinality(MaySell(c)') <= Cardinality(MaySell(c))
  <2> DEFINE S == MaySell(c)
             T == MaySell(c)'
  <2>1. IsFiniteSet(S) /\ Cardinality(S) \in Nat
    BY SaleSets
  <2> HIDE DEF S, T
  <2>2. T \subseteq S => IsFiniteSet(T) /\ Cardinality(T) <= Cardinality(S)
    BY <2>1, FS_Subset
  <2>3. T \subseteq S => Cardinality(T) \in Nat
    BY <2>2, FS_CardinalityType
  <2> QED
    BY <2>2, <2>3 DEF S, T
<1>4. /\ sold[c] \in Nat /\ lost[c] \in Nat /\ Cardinality(MaySell(c)) \in Nat
      /\ Cardinality(Checkers) \in Nat
  BY SaleSets DEF TypeOK
<1>5. CASE pos[c].status = "none"
  BY <1>1, <1>2, <1>5 DEF Accounted
<1>6. CASE pos[c].status = "open"
  BY <1>1, <1>6 DEF Accounted
<1>7. CASE pos[c].status = "closed"
  BY <1>2, <1>3, <1>4, <1>7 DEF Accounted
<1>8. pos[c].status \in {"none", "open", "closed"}
  BY DEF TypeOK, Rows
<1> QED
  BY <1>5, <1>6, <1>7, <1>8

LEMMA LoadSkipCheckAccounted ==
  ASSUME TypeOK, NEW k \in Checkers, NEW c \in Candidates, Accounted(c),
         \/ LoadOpenPositions(k)
         \/ \E d \in Candidates : SkipPosition(k, d)
         \/ \E d \in Candidates, mid \in Mids, u \in Quotes : CheckPosition(k, d, mid, u)
  PROVE  Accounted(c)'
<1>1. checker \in [Checkers -> CheckerStates] /\ checker[k].todo \in SUBSET Candidates
  BY CheckerFields DEF TypeOK
<1>2. pos \in [Candidates -> Rows] /\ pos[c] \in Rows
  BY DEF TypeOK
<1>3. CASE LoadOpenPositions(k)
  <2>1. /\ checker'[k].todo = OpenPositions /\ checker'[k].pc = "loop"
        /\ \A j \in Checkers : j # k => checker'[j] = checker[j]
        /\ checker[k].pc = "idle" /\ UNCHANGED <<sold, lost, pos>>
    BY <1>1, <1>3 DEF LoadOpenPositions
  <2>2. pos[c].status # "open" => k \notin MaySell(c)'
    BY <2>1 DEF MaySell, OpenPositions
  <2> QED
    BY <2>1, <2>2, AccountedChecking
<1>4. ASSUME NEW d \in Candidates, SkipPosition(k, d)
      PROVE  Accounted(c)'
  <2>1. /\ checker'[k].todo = checker[k].todo \ {d}
        /\ checker'[k].pc \in {"idle", "loop"}
    BY <1>1, <1>4, ResumeType DEF SkipPosition
  <2>2. /\ \A j \in Checkers : j # k => checker'[j] = checker[j]
        /\ checker[k].pc = "loop" /\ UNCHANGED <<sold, lost, pos>>
    BY <1>1, <1>4 DEF SkipPosition
  <2>3. k \in MaySell(c)' => k \in MaySell(c)
    BY <2>1 DEF MaySell
  <2> QED
    BY <2>1, <2>2, <2>3, AccountedChecking
<1>5. ASSUME NEW d \in Candidates, NEW mid \in Mids, NEW u \in Quotes,
             CheckPosition(k, d, mid, u)
      PROVE  Accounted(c)'
  <2> DEFINE left == checker[k].todo \ {d}
             reason == Evaluate(RiskState(d, checker[k].snap[d], u), mid).reason
  <2>1. Resume(k, left).todo = left /\ Resume(k, left).pc \in {"idle", "loop"}
    BY <1>1, ResumeType
  <2>2. \/ checker'[k] = Resume(k, left)
        \/ checker'[k].todo = left /\ checker'[k].pc = "sell" /\ checker'[k].cand = d
    BY <1>1, <1>5 DEF CheckPosition, StartSale
  <2>3. /\ \A j \in Checkers : j # k => checker'[j] = checker[j]
        /\ checker[k].pc = "loop" /\ d \in checker[k].todo /\ UNCHANGED <<sold, lost>>
    BY <1>1, <1>5 DEF CheckPosition, StartSale
  <2>4. pos'[c].status = pos[c].status
    BY <1>2, <1>5, CheckPositionStatus, Zenon
  <2>5. k \in MaySell(c)' => k \in MaySell(c)
    BY <2>1, <2>2, <2>3 DEF MaySell
  <2>6. checker'[k].pc # "close"
    BY <2>1, <2>2
  <2> QED
    BY <2>3, <2>4, <2>5, <2>6, AccountedChecking
<1> QED
  BY <1>3, <1>4, <1>5

LEMMA PlaceSellAccounted ==
  ASSUME TypeOK, SaleLeftTheList, NEW k \in Checkers, NEW c \in Candidates,
         Accounted(c), PlaceSellOrder(k)
  PROVE  Accounted(c)'
<1>1. checker \in [Checkers -> CheckerStates] /\ checker[k].todo \in SUBSET Candidates
  BY CheckerFields DEF TypeOK
<1>2. /\ checker[k].pc = "sell" /\ checker[k].cand \notin checker[k].todo
      /\ checker[k].cand \in Candidates
      /\ \A j \in Checkers : j # k => checker'[j] = checker[j]
      /\ UNCHANGED <<pos, lost>>
  BY <1>1, CheckerFields DEF PlaceSellOrder, SaleLeftTheList
<1>3. CASE /\ sold' = [sold EXCEPT ![checker[k].cand] = @ + 1]
           /\ checker' = [checker EXCEPT ![k].pc = "close"]
  <2>1. /\ checker'[k].pc = "close" /\ checker'[k].todo = checker[k].todo
        /\ checker'[k].cand = checker[k].cand
    BY <1>1, <1>2, <1>3 DEF CheckerStates
  <2>2. CASE c # checker[k].cand
    <3>1. InFlight(c)' = InFlight(c) /\ MaySell(c)' = MaySell(c)
      BY <1>2, <2>1, <2>2 DEF InFlight, MaySell
    <3>2. sold'[c] = sold[c] /\ lost'[c] = lost[c] /\ pos'[c] = pos[c]
      BY <1>2, <1>3, <2>2 DEF TypeOK
    <3>3. /\ Cardinality(InFlight(c)') = Cardinality(InFlight(c))
          /\ Cardinality(MaySell(c)') = Cardinality(MaySell(c))
      BY <3>1
    <3> QED
      BY <3>1, <3>2, <3>3 DEF Accounted
  <2>3. CASE c = checker[k].cand
    <3>1. InFlight(c)' = InFlight(c) \cup {k} /\ k \notin InFlight(c)
      BY <1>2, <2>1, <2>3 DEF InFlight
    <3>2. MaySell(c)' = MaySell(c) \ {k} /\ k \in MaySell(c)
      BY <1>2, <2>1, <2>3 DEF MaySell
    <3>3. Cardinality(InFlight(c) \cup {k}) = Cardinality(InFlight(c)) + 1
      BY <3>1, SaleSets, FS_AddElement
    <3>4. Cardinality(MaySell(c) \ {k}) = Cardinality(MaySell(c)) - 1
      BY <3>2, SaleSets, FS_RemoveElement
    <3>5. /\ Cardinality(InFlight(c)') = Cardinality(InFlight(c)) + 1
          /\ Cardinality(MaySell(c)') = Cardinality(MaySell(c)) - 1
      BY <3>1, <3>2, <3>3, <3>4
    <3>6. sold'[c] = sold[c] + 1 /\ lost'[c] = lost[c] /\ pos'[c] = pos[c]
      BY <1>2, <1>3, <2>3 DEF TypeOK
    <3>7. /\ sold[c] \in Nat /\ lost[c] \in Nat
          /\ Cardinality(InFlight(c)) \in Nat /\ Cardinality(MaySell(c)) \in Nat
          /\ Cardinality(Checkers) \in Nat
      BY SaleSets DEF TypeOK
    <3>8. pos[c].status # "none"
      BY <3>2 DEF Accounted
    <3> QED
      BY <3>5, <3>6, <3>7, <3>8 DEF Accounted
  <2> QED
    BY <2>2, <2>3
<1>4. CASE /\ checker' = [checker EXCEPT ![k] = Resume(k, checker[k].todo)]
           /\ UNCHANGED sold
  <2>1. checker'[k].todo = checker[k].todo /\ checker'[k].pc \in {"idle", "loop"}
    BY <1>1, <1>4, ResumeType
  <2>2. k \in MaySell(c)' => k \in MaySell(c)
    BY <2>1 DEF MaySell
  <2> QED
    BY <1>2, <1>4, <2>1, <2>2, AccountedChecking
<1> QED
  BY <1>3, <1>4 DEF PlaceSellOrder

\* A recorded or a lost row update ends the sale the checker had in flight.
LEMMA EndOfSaleAccounted ==
  ASSUME TypeOK, SaleLeftTheList, NEW k \in Checkers, NEW c \in Candidates,
         Accounted(c), checker[k].pc = "close", UNCHANGED sold,
         \A j \in Checkers : j # k => checker'[j] = checker[j],
         checker'[k].pc \in {"idle", "loop"},
         checker'[k].todo \subseteq checker[k].todo,
         \/ /\ lost'[c] = lost[c]
            /\ pos'[c].status = IF c = checker[k].cand THEN "closed" ELSE pos[c].status
         \/ /\ lost'[c] = IF c = checker[k].cand THEN lost[c] + 1 ELSE lost[c]
            /\ pos'[c].status = pos[c].status
  PROVE  Accounted(c)'
<1>1. checker[k].cand \notin checker[k].todo
  BY DEF SaleLeftTheList
<1>2. /\ sold[c] \in Nat /\ lost[c] \in Nat
      /\ Cardinality(InFlight(c)) \in Nat /\ Cardinality(MaySell(c)) \in Nat
      /\ Cardinality(Checkers) \in Nat
      /\ pos[c].status \in {"none", "open", "closed"}
  BY SaleSets DEF TypeOK, Rows
<1>3. MaySell(c)' \subseteq MaySell(c)
  BY DEF MaySell
<1>4. Cardinality(MaySell(c)') \in Nat /\ Cardinality(MaySell(c)') <= Cardinality(MaySell(c))
  <2> DEFINE S == MaySell(c)
             T == MaySell(c)'
  <2>1. IsFiniteSet(S) /\ Cardinality(S) \in Nat /\ T \subseteq S
    BY <1>3, SaleSets
  <2> HIDE DEF S, T
  <2>2. IsFiniteSet(T) /\ Cardinality(T) <= Cardinality(S)
    BY <2>1, FS_Subset
  <2>3. Cardinality(T) \in Nat
    BY <2>2, FS_CardinalityType
  <2> QED
    BY <2>2, <2>3 DEF S, T
<1>5. CASE c # checker[k].cand
  <2>1. InFlight(c)' = InFlight(c)
    BY <1>5 DEF InFlight
  <2>2. /\ Cardinality(InFlight(c)') = Cardinality(InFlight(c))
        /\ sold'[c] = sold[c] /\ lost'[c] = lost[c] /\ pos'[c].status = pos[c].status
    BY <1>5, <2>1
  <2>3. CASE pos[c].status = "none"
    BY <1>3, <2>1, <2>2, <2>3 DEF Accounted
  <2>4. CASE pos[c].status = "open"
    BY <2>2, <2>4 DEF Accounted
  <2>5. CASE pos[c].status = "closed"
    BY <1>2, <1>4, <2>2, <2>5 DEF Accounted
  <2> QED
    BY <1>2, <2>3, <2>4, <2>5
<1>6. CASE c = checker[k].cand
  <2>1. k \in InFlight(c) /\ InFlight(c)' = InFlight(c) \ {k}
    BY <1>6 DEF InFlight
  <2>2. Cardinality(InFlight(c) \ {k}) = Cardinality(InFlight(c)) - 1
    BY <2>1, SaleSets, FS_RemoveElement
  <2>3. Cardinality(InFlight(c)') = Cardinality(InFlight(c)) - 1
    BY <2>1, <2>2
  <2>4. pos[c].status # "none"
    BY <2>1 DEF Accounted
  <2>5. Cardinality(InFlight(c)) + Cardinality(MaySell(c)) <= Cardinality(Checkers)
    <3>1. MaySell(c) \in SUBSET (Checkers \ InFlight(c))
      BY DEF MaySell, InFlight, SaleLeftTheList
    <3>2. /\ IsFiniteSet(Checkers \ InFlight(c))
          /\ Cardinality(Checkers \ InFlight(c)) = Cardinality(Checkers) - Cardinality(InFlight(c))
      <4>1. InFlight(c) \in SUBSET Checkers /\ IsFiniteSet(Checkers)
        BY SaleSets, PositionsAssumption
      <4>2. /\ IsFiniteSet(Checkers \ InFlight(c))
            /\ Cardinality(Checkers \ InFlight(c))
                 = Cardinality(Checkers) - Cardinality(Checkers \cap InFlight(c))
        BY <4>1, FS_Difference
      <4>3. Checkers \cap InFlight(c) = InFlight(c)
        BY <4>1
      <4> QED
        BY <4>2, <4>3
    <3>3. Cardinality(MaySell(c)) <= Cardinality(Checkers \ InFlight(c))
      BY <3>1, <3>2, FS_Subset
    <3> QED
      BY <1>2, <3>2, <3>3
  <2>6. CASE pos'[c].status = pos[c].status /\ lost'[c] = lost[c] + 1
    <3>1. CASE pos[c].status = "open"
      BY <1>2, <2>3, <2>6, <3>1 DEF Accounted
    <3>2. CASE pos[c].status = "closed"
      BY <1>2, <1>4, <2>6, <3>2 DEF Accounted
    <3> QED
      BY <1>2, <2>4, <3>1, <3>2
  <2>7. CASE pos'[c].status = "closed" /\ lost'[c] = lost[c]
    <3>1. CASE pos[c].status = "open"
      BY <1>2, <1>4, <2>5, <2>7, <3>1 DEF Accounted
    <3>2. CASE pos[c].status = "closed"
      BY <1>2, <1>4, <2>7, <3>2 DEF Accounted
    <3> QED
      BY <1>2, <2>4, <3>1, <3>2
  <2> QED
    BY <1>6, <2>6, <2>7
<1> QED
  BY <1>5, <1>6

LEMMA SellAccountingStep ==
  ASSUME TypeOK, SaleLeftTheList, SellAccounting, [Next]_vars
  PROVE  SellAccounting'
<1> SUFFICES ASSUME NEW c \in Candidates PROVE Accounted(c)'
  BY DEF SellAccounting, Accounted
<1>1. Accounted(c)
  BY DEF SellAccounting, Accounted
<1>2. CASE QuietStep \/ UNCHANGED vars
  BY <1>1, <1>2, AccountedQuiet
<1>3. ASSUME NEW k \in Checkers, CheckerStep(k) \/ CrashChecker(k)
      PROVE  Accounted(c)'
  <2>1. checker \in [Checkers -> CheckerStates] /\ checker[k].todo \in SUBSET Candidates
    BY CheckerFields DEF TypeOK
  <2>2. CASE \/ LoadOpenPositions(k)
             \/ \E d \in Candidates : SkipPosition(k, d)
             \/ \E d \in Candidates, mid \in Mids, u \in Quotes : CheckPosition(k, d, mid, u)
    BY <1>1, <2>2, LoadSkipCheckAccounted
  <2>3. CASE PlaceSellOrder(k)
    BY <1>1, <2>3, PlaceSellAccounted
  <2>4. CASE ClosePosition(k)
    <3>1. /\ checker'[k].pc \in {"idle", "loop"} /\ checker'[k].todo = checker[k].todo
          /\ checker[k].pc = "close" /\ UNCHANGED sold
          /\ \A j \in Checkers : j # k => checker'[j] = checker[j]
      BY <2>1, <2>4, ResumeType DEF ClosePosition
    <3>2. \/ /\ lost'[c] = lost[c]
             /\ pos'[c].status = IF c = checker[k].cand THEN "closed" ELSE pos[c].status
          \/ /\ lost'[c] = IF c = checker[k].cand THEN lost[c] + 1 ELSE lost[c]
             /\ pos'[c].status = pos[c].status
      BY <2>4, RowStatus DEF ClosePosition, TypeOK
    <3>3. checker'[k].todo \subseteq checker[k].todo
      BY <3>1
    <3> QED
      BY <1>1, <3>1, <3>2, <3>3, EndOfSaleAccounted
  <2>5. CASE CrashChecker(k)
    <3>1. /\ checker'[k].pc = "idle" /\ checker'[k].todo = {}
          /\ UNCHANGED <<sold, pos>>
          /\ \A j \in Checkers : j # k => checker'[j] = checker[j]
      BY <2>1, <2>5 DEF CrashChecker, IdleChecker
    <3>2. CASE checker[k].pc = "close"
      <4>1. lost'[c] = IF c = checker[k].cand THEN lost[c] + 1 ELSE lost[c]
        BY <2>5, <3>2 DEF CrashChecker, TypeOK
      <4>2. /\ checker'[k].todo \subseteq checker[k].todo
            /\ checker'[k].pc \in {"idle", "loop"}
            /\ pos'[c].status = pos[c].status
        BY <3>1
      <4> QED
        BY <1>1, <3>1, <3>2, <4>1, <4>2, EndOfSaleAccounted
    <3>3. CASE checker[k].pc # "close"
      <4>1. UNCHANGED lost /\ k \notin MaySell(c)'
        BY <2>5, <3>1, <3>3 DEF CrashChecker, MaySell
      <4> QED
        BY <1>1, <3>1, <3>3, <4>1, AccountedChecking
    <3> QED
      BY <3>2, <3>3
  <2> QED
    BY <1>3, <2>2, <2>3, <2>4, <2>5 DEF CheckerStep
<1> QED
  BY <1>2, <1>3 DEF Next, QuietStep

LEMMA SellAccountingInit == Init => SaleLeftTheList /\ SellAccounting
<1> SUFFICES ASSUME Init PROVE SaleLeftTheList /\ SellAccounting
  OBVIOUS
<1>1. \A c \in Candidates : InFlight(c) = {} /\ MaySell(c) = {}
  BY DEF Init, IdleChecker, InFlight, MaySell
<1>2. \A c \in Candidates : pos[c].status = "none"
  BY DEF Init, NoRow
<1> QED
  BY <1>1, <1>2 DEF Init, IdleChecker, SaleLeftTheList, SellAccounting

\* Every accepted sell order is recorded, lost or in flight, and a checker does
\* not sell twice from one load (runMechanicalChecks, SellOptionPosition).
THEOREM SellAccountingCorrect == Spec => [](SaleLeftTheList /\ SellAccounting)
<1>1. /\ TypeOK /\ TypeOK' /\ (SaleLeftTheList /\ SellAccounting) /\ [Next]_vars
      => (SaleLeftTheList /\ SellAccounting)'
  BY SaleLeftTheListStep, SellAccountingStep
<1> QED
  BY <1>1, SellAccountingInit, PositionsTypeCorrect, PTL DEF Spec

\* The position a check is selling has left the list it loaded, so that no pass
\* comes back to it.
THEOREM SaleLeftTheListCorrect == Spec => []SaleLeftTheList
  BY SellAccountingCorrect, PTL

\* A position is sold at most once per concurrent check plus once per lost
\* update, for any number of either.
THEOREM SellsBoundedCorrect == Spec => []SellsBounded
<1>1. TypeOK /\ SellAccounting => SellsBounded
  <2> SUFFICES ASSUME TypeOK, SellAccounting, NEW c \in Candidates
               PROVE  sold[c] <= lost[c] + Cardinality(Checkers)
    BY DEF SellsBounded
  <2>1. /\ sold[c] \in Nat /\ lost[c] \in Nat
        /\ Cardinality(InFlight(c)) \in Nat /\ Cardinality(MaySell(c)) \in Nat
        /\ Cardinality(Checkers) \in Nat
        /\ pos[c].status \in {"none", "open", "closed"}
    BY SaleSets DEF TypeOK, Rows
  <2>2. Cardinality(InFlight(c)) <= Cardinality(Checkers)
    BY SaleSets, FS_Subset, PositionsAssumption
  <2> QED
    BY <2>1, <2>2 DEF SellAccounting
<1> QED
  BY <1>1, SellAccountingCorrect, PositionsTypeCorrect, PTL

-------------------------------------------------------------------------------
(* Buys and the ledger.  The refinement needs both accountings: a row is   *)
(* inserted only for an accepted buy because a candidate without a row has *)
(* a buy for every insert still due, and a row is closed only after an     *)
(* accepted sale because an open one has a sale for every close still due. *)

LEMMA InsertDueFinite ==
  ASSUME NEW c
  PROVE  IsFiniteSet(InsertDue(c)) /\ Cardinality(InsertDue(c)) \in Nat
<1>1. InsertDue(c) \in SUBSET Buyers
  BY DEF InsertDue
<1>2. IsFiniteSet(InsertDue(c))
  BY <1>1, FS_Subset, PositionsAssumption
<1> QED
  BY <1>2, FS_CardinalityType

\* The parts of BuysAccounted for one candidate.
HasRow(c) == IF pos[c].status = "none" THEN 0 ELSE 1

Placed(c) == bought[c] = HasRow(c) + orphaned[c] + Cardinality(InsertDue(c)) + merged[c]

MergedInRow(c) == pos[c].status = "none" => merged[c] = 0

Undetailed(c) == pos[c].status = "open" /\ pos[c].premium = 0

DetailsAccounted(c) == Undetailed(c) => DetailsDue(c) # {} \/ undetailed[c] > 0

LEMMA BuysAccountedParts ==
  BuysAccounted <=>
    \A c \in Candidates : Placed(c) /\ MergedInRow(c) /\ DetailsAccounted(c)
  BY DEF BuysAccounted, Placed, HasRow, MergedInRow, DetailsAccounted, Undetailed

LEMMA BuysAccountedInit == Init => BuysAccounted
<1> SUFFICES ASSUME Init, NEW c \in Candidates
             PROVE  Placed(c) /\ MergedInRow(c) /\ DetailsAccounted(c)
  BY BuysAccountedParts
<1>1. InsertDue(c) = {}
  BY DEF Init, InsertDue, IdleBuyer
<1>2. Cardinality(InsertDue(c)) = 0
  BY <1>1, FS_EmptySet
<1>3. pos[c].status = "none"
  BY DEF Init, NoRow
<1> QED
  BY <1>2, <1>3 DEF Init, Placed, HasRow, MergedInRow, DetailsAccounted, Undetailed

\* A candidate without a row had none before the step.
LEMMA RowsStay ==
  ASSUME TypeOK, [Next]_vars, NEW c \in Candidates, pos[c].status # "none"
  PROVE  pos'[c].status # "none"
<1>1. pos \in [Candidates -> Rows] /\ pos[c] \in Rows
  BY DEF TypeOK
<1>2. CASE QuietStep
  BY <1>2, QuietStepStatus
<1>3. CASE UNCHANGED vars
  BY <1>3 DEF vars
<1>4. ASSUME NEW k \in Checkers, CheckerStep(k) \/ CrashChecker(k), pos' # pos
      PROVE  pos'[c].status # "none"
  <2>1. ASSUME NEW d \in Candidates, NEW mid \in Mids, NEW u \in Quotes,
               CheckPosition(k, d, mid, u)
        PROVE  pos'[c].status # "none"
    BY <1>1, <2>1, CheckPositionStatus, Zenon
  <2>2. CASE ClosePosition(k)
    BY <1>1, <2>2, RowStatus DEF ClosePosition
  <2> QED
    BY <1>4, <2>1, <2>2, Zenon DEF CheckerStep, CrashChecker, LoadOpenPositions, SkipPosition,
       PlaceSellOrder
<1> QED
  BY <1>2, <1>3, <1>4 DEF Next, QuietStep

LEMMA CheckerStepFrame ==
  ASSUME NEW k \in Checkers, CheckerStep(k) \/ CrashChecker(k)
  PROVE  UNCHANGED <<buyer, buys>>
  BY DEF CheckerStep, CrashChecker, LoadOpenPositions, SkipPosition, CheckPosition,
     PlaceSellOrder, ClosePosition

\* The checkers and the calendar give no candidate a row.
LEMMA RowsStayAway ==
  ASSUME TypeOK, SellAccounting, NEW c \in Candidates, pos[c].status = "none",
         NextDay \/ UNCHANGED vars \/ \E k \in Checkers : CheckerStep(k) \/ CrashChecker(k)
  PROVE  pos'[c].status = "none"
<1>1. pos \in [Candidates -> Rows] /\ pos[c] \in Rows
  BY DEF TypeOK
<1>2. CASE UNCHANGED pos
  BY <1>2
<1>3. CASE NextDay
  BY <1>1, <1>3 DEF NextDay, Rows
<1>4. ASSUME NEW k \in Checkers, NEW d \in Candidates, NEW mid \in Mids, NEW u \in Quotes,
             CheckPosition(k, d, mid, u)
      PROVE  pos'[c].status = "none"
  BY <1>1, <1>4, CheckPositionStatus, Zenon
<1>5. ASSUME NEW k \in Checkers, ClosePosition(k)
      PROVE  pos'[c].status = "none"
  <2>1. checker[k].cand # c
    BY <1>5 DEF ClosePosition, SellAccounting, InFlight
  <2> QED
    BY <1>1, <1>5, <2>1 DEF ClosePosition
<1> QED
  BY <1>2, <1>3, <1>4, <1>5, Zenon DEF CheckerStep, CrashChecker, LoadOpenPositions,
     SkipPosition, PlaceSellOrder, vars

\* What a buyer's step does to the row it is about, if there is one.
LEMMA BuyerRows ==
  ASSUME TypeOK, NEW b \in Buyers, BuyerStep(b), NEW c \in Candidates
  PROVE  \/ pos'[c].status = pos[c].status
         \/ /\ pos[c].status = "none" /\ pos'[c].status = "open"
            /\ CreatePaperPosition(b) /\ buyer[b].cand = c
<1>1. pos \in [Candidates -> Rows] /\ pos[c] \in Rows
  BY DEF TypeOK
<1>2. CASE CreatePaperPosition(b)
  BY <1>1, <1>2, RowStatus DEF CreatePaperPosition
<1>3. CASE UpdateOptionDetails(b)
  BY <1>1, <1>3 DEF UpdateOptionDetails, Rows
<1> QED
  BY <1>2, <1>3 DEF BuyerStep, PlaceBuyOrder, ReorderHeldPosition, CrashBuyer

\* One step of a buyer moves one order from one account to another.
LEMMA PlacedStep ==
  ASSUME TypeOK, NEW b \in Buyers, BuyerStep(b), NEW c \in Candidates,
         Placed(c), MergedInRow(c)
  PROVE  Placed(c)' /\ MergedInRow(c)'
<1> USE DEF TypeOK
<1>1. /\ buyer \in [Buyers -> BuyerStates] /\ bought[c] \in Nat /\ orphaned[c] \in Nat
      /\ merged[c] \in Nat /\ Cardinality(InsertDue(c)) \in Nat
      /\ HasRow(c) \in Nat
  BY InsertDueFinite DEF HasRow
<1> DEFINE creates == buyer[b].pc = "create" /\ buyer[b].cand = c
           due     == Cardinality(InsertDue(c))
           duenext == Cardinality(InsertDue(c)')
<1>2. /\ creates => Cardinality(InsertDue(c) \ {b}) = due - 1
      /\ ~creates => /\ Cardinality(InsertDue(c) \ {b}) = due
                     /\ Cardinality(InsertDue(c) \cup {b}) = due + 1
  <2>1. creates <=> b \in InsertDue(c)
    BY DEF InsertDue
  <2> QED
    BY <2>1, InsertDueFinite, FS_AddElement, FS_RemoveElement
<1>3. ASSUME NEW d \in Candidates, NEW price \in Mids, NEW level \in Levels,
             PlaceBuyOrder(b, d, price, level)
      PROVE  Placed(c)' /\ MergedInRow(c)'
  <2>1. ~creates /\ buyer[b].pc = "idle"
    BY <1>3 DEF PlaceBuyOrder, IdleBuyer
  <2>2. HasRow(c)' = HasRow(c) /\ UNCHANGED <<pos, orphaned, merged>>
    BY <1>3 DEF PlaceBuyOrder, HasRow
  <2>3. CASE d = c
    <3>1. InsertDue(c)' = InsertDue(c) \cup {b}
      BY <1>1, <1>3, <2>3 DEF PlaceBuyOrder, InsertDue
    <3>2. duenext = due + 1
      BY <1>2, <2>1, <3>1
    <3>3. bought'[c] = bought[c] + 1
      BY <1>3, <2>3 DEF PlaceBuyOrder
    <3> QED
      BY <1>1, <2>2, <3>2, <3>3 DEF Placed, MergedInRow
  <2>4. CASE d # c
    <3>1. InsertDue(c)' = InsertDue(c)
      BY <1>1, <1>3, <2>1, <2>4 DEF PlaceBuyOrder, InsertDue
    <3>2. duenext = due
      BY <3>1
    <3>3. bought'[c] = bought[c]
      BY <1>3, <2>4 DEF PlaceBuyOrder
    <3> QED
      BY <2>2, <3>2, <3>3 DEF Placed, MergedInRow
  <2> QED
    BY <2>3, <2>4
<1>4. ASSUME NEW d \in Candidates, NEW price \in Mids, ReorderHeldPosition(b, d, price)
      PROVE  Placed(c)' /\ MergedInRow(c)'
  <2>1. InsertDue(c)' = InsertDue(c)
    BY <1>1, <1>4 DEF ReorderHeldPosition, InsertDue, IdleBuyer
  <2>2. duenext = due
    BY <2>1
  <2>3. HasRow(c)' = HasRow(c) /\ UNCHANGED <<pos, orphaned>>
    BY <1>4 DEF ReorderHeldPosition, HasRow
  <2>4. CASE d = c
    <3>1. /\ bought'[c] = bought[c] + 1 /\ merged'[c] = merged[c] + 1
          /\ pos[c].status # "none"
      BY <1>4, <2>4 DEF ReorderHeldPosition
    <3> QED
      BY <1>1, <2>2, <2>3, <3>1 DEF Placed, MergedInRow
  <2>5. CASE d # c
    <3>1. bought'[c] = bought[c] /\ merged'[c] = merged[c]
      BY <1>4, <2>5 DEF ReorderHeldPosition
    <3> QED
      BY <2>2, <2>3, <3>1 DEF Placed, MergedInRow
  <2> QED
    BY <2>4, <2>5
<1>5. CASE CreatePaperPosition(b) \/ UpdateOptionDetails(b) \/ CrashBuyer(b)
  <2>1. buyer'[b].pc \in {"idle", "details"} /\ \A a \in Buyers : a # b => buyer'[a] = buyer[a]
    BY <1>1, <1>5 DEF CreatePaperPosition, UpdateOptionDetails, CrashBuyer, IdleBuyer,
       BuyerStates
  <2>2. InsertDue(c)' = InsertDue(c) \ {b}
    BY <2>1 DEF InsertDue
  <2>3. duenext = Cardinality(InsertDue(c) \ {b})
    BY <2>2
  <2>4. bought' = bought
    BY <1>5 DEF CreatePaperPosition, UpdateOptionDetails, CrashBuyer
  <2>5. \/ pos'[c].status = pos[c].status
        \/ /\ pos[c].status = "none" /\ pos'[c].status = "open"
           /\ CreatePaperPosition(b) /\ creates
    <3>1. CreatePaperPosition(b) => buyer[b].pc = "create"
      BY DEF CreatePaperPosition
    <3> QED
      BY <3>1, BuyerRows
  <2>6. CASE ~creates
    <3>1. orphaned'[c] = orphaned[c] /\ merged'[c] = merged[c]
      BY <1>5, <2>6 DEF CreatePaperPosition, UpdateOptionDetails, CrashBuyer
    <3>2. pos'[c].status = pos[c].status
      BY <2>5, <2>6
    <3> QED
      BY <1>2, <2>3, <2>4, <2>6, <3>1, <3>2 DEF Placed, MergedInRow, HasRow
  <2>7. CASE creates
    <3>1. duenext = due - 1
      BY <1>2, <2>3, <2>7
    <3>2. CASE orphaned' = [orphaned EXCEPT ![c] = @ + 1] /\ UNCHANGED <<pos, merged>>
      <4>1. orphaned'[c] = orphaned[c] + 1 /\ merged'[c] = merged[c] /\ HasRow(c)' = HasRow(c)
        BY <3>2 DEF HasRow
      <4> HIDE DEF due, duenext
      <4>2. due \in Nat /\ bought[c] = HasRow(c) + orphaned[c] + due + merged[c]
        BY <1>1 DEF Placed, due
      <4>3. bought'[c] = HasRow(c)' + orphaned'[c] + duenext + merged'[c]
        BY <1>1, <2>4, <3>1, <4>1, <4>2
      <4> QED
        BY <3>2, <4>3 DEF Placed, MergedInRow, duenext
    <3>3. CASE /\ UNCHANGED orphaned
               /\ pos' = [pos EXCEPT ![c] =
                            Insert(@, NewRow(buyer[b].price, buyer[b].level))]
               /\ merged' = IF pos[c].status = "none" THEN merged
                            ELSE [merged EXCEPT ![c] = @ + 1]
      <4>1. pos'[c] = Insert(pos[c], NewRow(buyer[b].price, buyer[b].level))
        BY <3>3
      <4>2. CASE pos[c].status = "none"
        <5>1. pos'[c].status = "open"
          BY <4>1, <4>2 DEF NoRow, NewRow, Insert
        <5>2. HasRow(c) = 0 /\ HasRow(c)' = 1 /\ merged'[c] = merged[c]
          BY <3>3, <4>2, <5>1 DEF HasRow
        <5> QED
          BY <1>1, <2>4, <3>1, <3>3, <5>1, <5>2 DEF Placed, MergedInRow
      <4>3. CASE pos[c].status # "none"
        <5>1. pos'[c].status # "none"
          BY <4>1, <4>3 DEF Insert
        <5>2. HasRow(c) = 1 /\ HasRow(c)' = 1 /\ merged'[c] = merged[c] + 1
          BY <3>3, <4>3, <5>1 DEF HasRow
        <5> QED
          BY <1>1, <2>4, <3>1, <3>3, <5>1, <5>2 DEF Placed, MergedInRow
      <4> QED
        BY <4>2, <4>3
    <3>4. ~UpdateOptionDetails(b)
      BY <2>7 DEF UpdateOptionDetails
    <3> QED
      BY <1>5, <2>7, <3>2, <3>3, <3>4 DEF CreatePaperPosition, CrashBuyer
  <2> QED
    BY <2>6, <2>7
<1> QED
  BY <1>3, <1>4, <1>5 DEF BuyerStep

\* A row without details was one before the step, or has just been inserted by a
\* buyer whose details are due.
LEMMA UndetailedBefore ==
  ASSUME TypeOK, [Next]_vars, NEW c \in Candidates, Undetailed(c)'
  PROVE  Undetailed(c) \/ DetailsDue(c)' # {}
<1>1. pos \in [Candidates -> Rows] /\ pos[c] \in Rows /\ buyer \in [Buyers -> BuyerStates]
  BY DEF TypeOK
<1>2. ASSUME UNCHANGED pos PROVE Undetailed(c)
  BY <1>2 DEF Undetailed
<1>3. ASSUME NEW b \in Buyers, CreatePaperPosition(b), pos' # pos
      PROVE  Undetailed(c) \/ DetailsDue(c)' # {}
  <2>1. CASE c = buyer[b].cand
    <3>1. buyer' = [buyer EXCEPT ![b].pc = "details"] /\ buyer[b].pc = "create"
      BY <1>3 DEF CreatePaperPosition
    <3>2. buyer'[b].pc = "details" /\ buyer'[b].cand = c
      BY <1>1, <2>1, <3>1 DEF BuyerStates, IdleBuyer
    <3> QED
      BY <3>2 DEF DetailsDue
  <2>2. CASE c # buyer[b].cand
    BY <1>1, <1>3, <2>2 DEF CreatePaperPosition, Undetailed
  <2> QED
    BY <2>1, <2>2
<1>4. ASSUME NEW b \in Buyers, UpdateOptionDetails(b), pos' # pos
      PROVE  Undetailed(c)
  <2>1. buyer[b].price \in Mids /\ buyer[b].price # 0
    BY <1>1, <1>4, BuyerFields DEF UpdateOptionDetails
  <2>2. pos' = [pos EXCEPT ![buyer[b].cand].premium = buyer[b].price]
    BY <1>4 DEF UpdateOptionDetails
  <2>3. CASE c = buyer[b].cand
    <3>1. pos'[c].premium = buyer[b].price
      BY <1>1, <2>2, <2>3 DEF Rows
    <3> QED
      BY <2>1, <3>1 DEF Undetailed
  <2>4. CASE c # buyer[b].cand
    BY <1>1, <2>2, <2>4 DEF Undetailed
  <2> QED
    BY <2>3, <2>4
<1>5. CASE NextDay
  BY <1>1, <1>5 DEF NextDay, Rows, Undetailed
<1>6. ASSUME NEW k \in Checkers, NEW d \in Candidates, NEW mid \in Mids, NEW u \in Quotes,
             CheckPosition(k, d, mid, u)
      PROVE  Undetailed(c)
  <2>1. ASSUME NEW peak, NEW trailing,
               pos' = [pos EXCEPT ![d].peak = peak, ![d].trailing = trailing]
        PROVE  Undetailed(c)
    BY <1>1, <2>1 DEF Rows, Undetailed
  <2>2. \/ UNCHANGED pos
        \/ \E peak, trailing : pos' = [pos EXCEPT ![d].peak = peak, ![d].trailing = trailing]
    BY <1>6, Zenon DEF CheckPosition
  <2> QED
    BY <1>2, <2>1, <2>2
<1>7. ASSUME NEW k \in Checkers, ClosePosition(k)
      PROVE  Undetailed(c)
  <2>1. ASSUME pos' = [pos EXCEPT ![checker[k].cand] = Closed(@, checker[k].reason)]
        PROVE  Undetailed(c)
    <3>1. c # checker[k].cand
      BY <1>1, <2>1, RowStatus DEF Undetailed
    <3> QED
      BY <1>1, <2>1, <3>1 DEF Undetailed
  <2>2. \/ UNCHANGED pos
        \/ pos' = [pos EXCEPT ![checker[k].cand] = Closed(@, checker[k].reason)]
    BY <1>7, Zenon DEF ClosePosition
  <2> QED
    BY <1>2, <2>1, <2>2
<1> QED
  BY <1>2, <1>3, <1>4, <1>5, <1>6, <1>7, Zenon DEF Next, BuyerStep, CheckerStep, CrashChecker,
     PlaceBuyOrder, ReorderHeldPosition, CrashBuyer, LoadOpenPositions, SkipPosition,
     PlaceSellOrder, vars

\* A buyer that is about to store details does, or is counted.
LEMMA DetailsAccountedStep ==
  ASSUME TypeOK, [Next]_vars, NEW c \in Candidates, DetailsAccounted(c)
  PROVE  DetailsAccounted(c)'
<1> SUFFICES ASSUME Undetailed(c)', Undetailed(c)
             PROVE  DetailsDue(c)' # {} \/ undetailed'[c] > 0
  BY UndetailedBefore DEF DetailsAccounted
<1>1. /\ undetailed \in [Candidates -> Nat] /\ undetailed[c] \in Nat
      /\ buyer \in [Buyers -> BuyerStates] /\ pos \in [Candidates -> Rows]
  BY DEF TypeOK
<1>2. CASE UNCHANGED <<buyer, undetailed>>
  BY <1>2 DEF DetailsAccounted, DetailsDue
<1>3. ASSUME NEW b \in Buyers, BuyerStep(b)
      PROVE  DetailsDue(c)' # {} \/ undetailed'[c] > 0
  <2>1. \A a \in Buyers : a # b => buyer'[a] = buyer[a]
    BY <1>1, <1>3 DEF BuyerStep, PlaceBuyOrder, ReorderHeldPosition, CreatePaperPosition,
       UpdateOptionDetails, CrashBuyer
  <2>2. CASE undetailed[c] > 0
    <3>1. undetailed' = undetailed \/ \E d : undetailed' = [undetailed EXCEPT ![d] = @ + 1]
      BY <1>3, Zenon DEF BuyerStep, PlaceBuyOrder, ReorderHeldPosition, CreatePaperPosition,
         UpdateOptionDetails, CrashBuyer
    <3> QED
      BY <1>1, <2>2, <3>1
  <2>3. CASE \E a \in DetailsDue(c) : a # b
    BY <2>1, <2>3 DEF DetailsDue
  <2>4. CASE b \in DetailsDue(c)
    <3>1. buyer[b].pc = "details" /\ buyer[b].cand = c
      BY <2>4 DEF DetailsDue
    <3>2. UpdateOptionDetails(b) \/ CrashBuyer(b)
      BY <1>3, <3>1 DEF BuyerStep, PlaceBuyOrder, ReorderHeldPosition, CreatePaperPosition,
         IdleBuyer
    <3>3. \/ undetailed' = [undetailed EXCEPT ![c] = @ + 1]
          \/ pos' = [pos EXCEPT ![c].premium = buyer[b].price]
      BY <3>1, <3>2 DEF UpdateOptionDetails, CrashBuyer
    <3>4. pos' # [pos EXCEPT ![c].premium = buyer[b].price]
      <4>1. buyer[b].price \in Mids /\ buyer[b].price # 0
        BY <1>1, <3>1, BuyerFields
      <4>2. pos' = [pos EXCEPT ![c].premium = buyer[b].price]
            => pos'[c].premium = buyer[b].price
        BY <1>1 DEF Rows
      <4> QED
        BY <4>1, <4>2 DEF Undetailed
    <3> QED
      BY <1>1, <3>3, <3>4
  <2> QED
    BY <2>2, <2>3, <2>4 DEF DetailsAccounted
<1> QED
  BY <1>2, <1>3, CheckerStepFrame DEF Next, NextDay, vars

LEMMA BuysAccountedStep ==
  ASSUME TypeOK, SellAccounting, BuysAccounted, [Next]_vars
  PROVE  BuysAccounted'
<1> SUFFICES ASSUME NEW c \in Candidates
             PROVE  Placed(c)' /\ MergedInRow(c)' /\ DetailsAccounted(c)'
  BY DEF BuysAccounted, Placed, HasRow, MergedInRow, DetailsAccounted, Undetailed
<1>1. Placed(c) /\ MergedInRow(c) /\ DetailsAccounted(c)
  BY BuysAccountedParts
<1>2. DetailsAccounted(c)'
  BY <1>1, DetailsAccountedStep
<1>3. ASSUME NEW b \in Buyers, BuyerStep(b)
      PROVE  Placed(c)' /\ MergedInRow(c)'
  BY <1>1, <1>3, PlacedStep
<1>4. CASE NextDay \/ UNCHANGED vars \/ \E k \in Checkers : CheckerStep(k) \/ CrashChecker(k)
  <2>1. UNCHANGED <<buyer, bought, orphaned, merged>>
    BY <1>4, CheckerStepFrame DEF NextDay, vars
  <2>2. pos'[c].status = "none" <=> pos[c].status = "none"
    BY <1>4, RowsStay, RowsStayAway
  <2>3. Cardinality(InsertDue(c)') = Cardinality(InsertDue(c))
    <3>1. InsertDue(c)' = InsertDue(c)
      BY <2>1 DEF InsertDue
    <3> QED
      BY <3>1
  <2>4. HasRow(c)' = HasRow(c)
    BY <2>2 DEF HasRow
  <2>5. MergedInRow(c)'
    BY <1>1, <2>1, <2>2 DEF MergedInRow
  <2> QED
    BY <1>1, <1>2, <2>1, <2>3, <2>4, <2>5 DEF Placed
<1> QED
  BY <1>2, <1>3, <1>4 DEF Next

\* For any number of buyers, candidates and faults, every accepted buy order is
\* the one of a row, lost before its insert, on its way to it or folded into the
\* row, and an open row without details is explained (BuyOptionPosition).
THEOREM BuysAccountedCorrect == Spec => []BuysAccounted
<1>1. TypeOK /\ SellAccounting /\ BuysAccounted /\ [Next]_vars => BuysAccounted'
  BY BuysAccountedStep
<1> QED
  BY <1>1, BuysAccountedInit, SellAccountingCorrect, PositionsTypeCorrect, PTL DEF Spec

-------------------------------------------------------------------------------
(* The refinement, step by step.                                           *)

status == [c \in Candidates |-> pos[c].status]

LEMMA QuietLedgerStep ==
  ASSUME TypeOK, BuysAccounted, QuietStep
  PROVE  [Ledger!Next]_(Ledger!vars)
<1> USE DEF TypeOK
<1>1. /\ UNCHANGED sold /\ \A c \in Candidates : pos[c] \in Rows
      /\ buyer \in [Buyers -> BuyerStates]
  BY QuietStepFrame
<1>2. ASSUME NEW b \in Buyers, NEW c \in Candidates,
             \/ \E price \in Mids, level \in Levels : PlaceBuyOrder(b, c, price, level)
             \/ \E price \in Mids : ReorderHeldPosition(b, c, price)
      PROVE  Ledger!Next
  <2>1. Ledger!Buy(c)
    BY <1>1, <1>2 DEF PlaceBuyOrder, ReorderHeldPosition, Ledger!Buy
  <2> QED
    BY <2>1 DEF Ledger!Next
<1>3. ASSUME NEW b \in Buyers, CreatePaperPosition(b)
      PROVE  [Ledger!Next]_(Ledger!vars)
  <2>0. PICK c \in Candidates : buyer[b].cand = c
    BY <1>1, <1>3, BuyerFields DEF CreatePaperPosition
  <2>1. buyer[b].pc = "create" /\ UNCHANGED bought
    BY <1>3 DEF CreatePaperPosition
  <2>2. CASE pos' = pos
    BY <1>1, <2>1, <2>2 DEF Ledger!vars
  <2>3. CASE pos' # pos
    <3>1. PICK new : /\ new.status = "open"
                     /\ pos' = [pos EXCEPT ![c] = Insert(@, new)]
      <4>1. NewRow(buyer[b].price, buyer[b].level).status = "open"
        BY DEF NoRow, NewRow
      <4> QED
        BY <1>3, <2>0, <2>3, <4>1 DEF CreatePaperPosition
    <3>2. pos[c].status = "none"
      BY <1>1, <2>3, <3>1 DEF Insert
    <3>3. bought[c] > 0
      <4>1. Cardinality(InsertDue(c)) # 0
        <5>1. b \in InsertDue(c)
          BY <2>0, <2>1 DEF InsertDue
        <5> QED
          BY <5>1, InsertDueFinite, FS_EmptySet
      <4>2. bought[c] = orphaned[c] + Cardinality(InsertDue(c)) + merged[c]
        <5>1. Cardinality(InsertDue(c)) \in Nat /\ orphaned[c] \in Nat /\ merged[c] \in Nat
          BY InsertDueFinite
        <5>2. Placed(c) /\ HasRow(c) = 0
          BY <3>2, BuysAccountedParts DEF HasRow
        <5> QED
          BY <5>1, <5>2 DEF Placed
      <4>3. /\ bought[c] \in Nat /\ orphaned[c] \in Nat /\ merged[c] \in Nat
            /\ Cardinality(InsertDue(c)) \in Nat
        BY <2>1, InsertDueFinite
      <4> QED
        BY <4>1, <4>2, <4>3
    <3>4. status' = [status EXCEPT ![c] = "open"]
      BY <2>1, <3>1, <3>2 DEF status, Insert
    <3>5. Ledger!RecordOpen(c)
      BY <1>1, <2>1, <3>2, <3>3, <3>4 DEF Ledger!RecordOpen, status
    <3>6. Ledger!Next
      BY <3>5 DEF Ledger!Next
    <3> QED
      BY <3>6
  <2> QED
    BY <2>2, <2>3
<1>4. ASSUME NEW b \in Buyers, UpdateOptionDetails(b) \/ CrashBuyer(b)
      PROVE  UNCHANGED Ledger!vars
  <2>1. UNCHANGED bought
    BY <1>4 DEF UpdateOptionDetails, CrashBuyer
  <2>2. \A c \in Candidates : pos'[c].status = pos[c].status
    BY <1>1, <1>4 DEF UpdateOptionDetails, CrashBuyer, Rows
  <2> QED
    BY <1>1, <2>1, <2>2 DEF Ledger!vars
<1>5. ASSUME NextDay
      PROVE  UNCHANGED Ledger!vars
  <2>1. UNCHANGED bought
    BY <1>5 DEF NextDay
  <2>2. \A c \in Candidates : pos'[c].status = pos[c].status
    BY <1>1, <1>5 DEF NextDay, Rows
  <2> QED
    BY <1>1, <2>1, <2>2 DEF Ledger!vars
<1> QED
  BY <1>2, <1>3, <1>4, <1>5 DEF QuietStep, BuyerStep

LEMMA CheckerLedgerStep ==
  ASSUME TypeOK, SellAccounting, NEW k \in Checkers, CheckerStep(k) \/ CrashChecker(k)
  PROVE  [Ledger!Next]_(Ledger!vars)
<1> USE DEF TypeOK
<1>1. /\ UNCHANGED bought /\ \A c \in Candidates : pos[c] \in Rows
      /\ checker[k] \in CheckerStates
  BY CheckerStepFrame
<1>2. CASE UNCHANGED <<pos, sold>>
  BY <1>1, <1>2 DEF Ledger!vars
<1>3. ASSUME NEW d \in Candidates, NEW mid \in Mids, NEW u \in Quotes, CheckPosition(k, d, mid, u)
      PROVE  UNCHANGED Ledger!vars
  <2>1. \A c \in Candidates : pos'[c].status = pos[c].status
    <3>1. ASSUME NEW p, NEW t, pos' = [pos EXCEPT ![d].peak = p, ![d].trailing = t]
          PROVE  \A c \in Candidates : pos'[c].status = pos[c].status
      BY <1>1, <3>1 DEF Rows
    <3> QED
      BY <1>3, <3>1 DEF CheckPosition
  <2>2. UNCHANGED sold
    BY <1>3 DEF CheckPosition
  <2> QED
    BY <1>1, <2>1, <2>2 DEF Ledger!vars
<1>4. ASSUME PlaceSellOrder(k), sold' # sold
      PROVE  Ledger!Next
  <2> DEFINE c == checker[k].cand
  <2>1. c \in Candidates /\ k \in MaySell(c) /\ UNCHANGED pos
    BY <1>1, <1>4, CheckerFields DEF PlaceSellOrder, MaySell
  <2>2. pos[c].status # "none"
    BY <2>1 DEF SellAccounting
  <2>3. Ledger!Sell(c)
    BY <1>1, <1>4, <2>1, <2>2 DEF PlaceSellOrder, Ledger!Sell
  <2> QED
    BY <2>1, <2>3 DEF Ledger!Next
<1>5. ASSUME ClosePosition(k), pos' # pos
      PROVE  [Ledger!Next]_(Ledger!vars)
  <2>0. PICK c \in Candidates : checker[k].cand = c
    BY <1>1, <1>5, CheckerFields DEF ClosePosition
  <2>1. /\ k \in InFlight(c) /\ UNCHANGED sold
        /\ pos[c].status \in {"none", "open", "closed"}
    BY <1>1, <1>5, <2>0 DEF ClosePosition, InFlight, Rows
  <2>2. status' = [status EXCEPT ![c] = "closed"]
    <3>1. pos' = [pos EXCEPT ![c] = Closed(@, checker[k].reason)]
      BY <1>5, <2>0 DEF ClosePosition
    <3>2. \A d \in Candidates : pos'[d].status = IF d = c THEN "closed" ELSE pos[d].status
      BY <1>1, <2>1, <3>1 DEF Rows, Closed
    <3> QED
      BY <2>1, <3>2 DEF status
  <2>3. CASE pos[c].status = "closed"
    <3>1. status' = status
      BY <2>1, <2>2, <2>3 DEF status
    <3> QED
      BY <1>1, <2>1, <3>1 DEF Ledger!vars, status
  <2>4. CASE pos[c].status = "open"
    <3>1. sold[c] > 0
      <4>1. Cardinality(InFlight(c)) # 0
        BY <2>1, SaleSets, FS_EmptySet
      <4>2. sold[c] = lost[c] + Cardinality(InFlight(c))
        BY <2>1, <2>4 DEF SellAccounting
      <4>3. sold[c] \in Nat /\ lost[c] \in Nat /\ Cardinality(InFlight(c)) \in Nat
        BY <2>1, SaleSets
      <4> QED
        BY <4>1, <4>2, <4>3
    <3>2. Ledger!RecordClose(c)
      BY <1>1, <2>1, <2>2, <2>4, <3>1 DEF Ledger!RecordClose, status
    <3>3. Ledger!Next
      BY <3>2 DEF Ledger!Next
    <3> QED
      BY <3>3
  <2>5. pos[c].status # "none"
    BY <2>1 DEF SellAccounting
  <2> QED
    BY <2>1, <2>3, <2>4, <2>5
<1> QED
  BY <1>2, <1>3, <1>4, <1>5 DEF CheckerStep, CrashChecker, LoadOpenPositions,
     SkipPosition, PlaceSellOrder, ClosePosition

\* Whatever fails, crashes or overlaps: the broker is asked before the database
\* records, on the way in and on the way out, and a closed row stays closed.
THEOREM PositionsImplementLedger == Spec => ImplementsLedger
<1>1. Init => Ledger!Init
  BY DEF Init, NoRow, Ledger!Init
<1>2. TypeOK /\ BuysAccounted /\ SellAccounting /\ [Next]_vars
      => [Ledger!Next]_(Ledger!vars)
  <2> SUFFICES ASSUME TypeOK, BuysAccounted, SellAccounting, [Next]_vars
               PROVE  [Ledger!Next]_(Ledger!vars)
    OBVIOUS
  <2>1. CASE UNCHANGED vars
    BY <2>1 DEF vars, Ledger!vars
  <2> QED
    BY <2>1, QuietLedgerStep, CheckerLedgerStep DEF Next, QuietStep
<1> QED
  BY <1>1, <1>2, PositionsTypeCorrect, BuysAccountedCorrect, SellAccountingCorrect, PTL
     DEF Spec, ImplementsLedger, Ledger!Spec

-------------------------------------------------------------------------------
(* Overlapping checks.  A check writes back what it has loaded or better,  *)
(* so a price or an armed flag that the row and all that is loaded have in *)
(* common cannot be lost; and only a check that has loaded a position can  *)
(* sell or close it.                                                       *)

\* A row that is yet to be inserted has no risk state.
Bare(row) == row.peak = 0 /\ row.trailing = FALSE

BareUntilInserted == \A c \in Candidates : pos[c].status = "none" => Bare(pos[c])

\* What the steps without a check do to a row.
Keeps(c) ==
  /\ pos'[c].status = pos[c].status /\ pos'[c].reason = pos[c].reason
  /\ pos'[c].peak = pos[c].peak /\ pos'[c].trailing = pos[c].trailing
Inserts(c) ==
  pos[c].status = "none" /\ pos'[c].status = "open" /\ Bare(pos'[c])

\* A buyer inserts a bare row,
LEMMA InsertRow ==
  ASSUME NEW row \in Rows, NEW price, NEW level
  PROVE  \/ Insert(row, NewRow(price, level)) = row
         \/ /\ row.status = "none"
            /\ Insert(row, NewRow(price, level)).status = "open"
            /\ Bare(Insert(row, NewRow(price, level)))
  BY DEF Insert, NewRow, NoRow, Bare

\* the steps without a check leave every other row alone,
LEMMA QuietRow ==
  ASSUME TypeOK, QuietStep \/ UNCHANGED vars, NEW c \in Candidates
  PROVE  Keeps(c) \/ Inserts(c)
<1>1. pos \in [Candidates -> Rows] /\ pos[c] \in Rows
  BY DEF TypeOK
<1>2. CASE UNCHANGED pos
  BY <1>2 DEF Keeps
<1>3. ASSUME NEW b \in Buyers, CreatePaperPosition(b), pos' # pos
      PROVE  Keeps(c) \/ Inserts(c)
  <2>1. PICK d : pos' = [pos EXCEPT ![d] = Insert(@, NewRow(buyer[b].price, buyer[b].level))]
    BY <1>3, Zenon DEF CreatePaperPosition
  <2>2. \/ pos'[c] = pos[c]
        \/ pos'[c] = Insert(pos[c], NewRow(buyer[b].price, buyer[b].level))
    BY <1>1, <2>1
  <2> DEFINE new == Insert(pos[c], NewRow(buyer[b].price, buyer[b].level))
  <2>3. \/ new = pos[c]
        \/ pos[c].status = "none" /\ new.status = "open" /\ Bare(new)
    BY <1>1, InsertRow
  <2> HIDE DEF new
  <2>4. pos'[c] = pos[c] \/ pos'[c] = new
    BY <2>2 DEF new
  <2> QED
    BY <2>3, <2>4, Zenon DEF Keeps, Inserts
<1>4. ASSUME NEW b \in Buyers, UpdateOptionDetails(b), pos' # pos
      PROVE  Keeps(c)
  BY <1>1, <1>4 DEF UpdateOptionDetails, Rows, Keeps
<1>5. CASE NextDay
  BY <1>1, <1>5 DEF NextDay, Rows, Keeps
<1> QED
  BY <1>2, <1>3, <1>4, <1>5, Zenon DEF QuietStep, BuyerStep, PlaceBuyOrder,
     ReorderHeldPosition, CrashBuyer, vars

\* a check brings its row to what it has loaded or better,
WritesBack(k, c) ==
  /\ c \in checker[k].todo
  /\ pos'[c].peak >= checker[k].snap[c].peak
  /\ checker[k].snap[c].trailing => pos'[c].trailing

SameRiskState(c) == pos'[c].peak = pos[c].peak /\ pos'[c].trailing = pos[c].trailing

LEMMA CheckRow ==
  ASSUME TypeOK, NEW k \in Checkers, NEW c \in Candidates,
         NEW d \in Candidates, NEW mid \in Mids, NEW u \in Quotes, CheckPosition(k, d, mid, u)
  PROVE  SameRiskState(c) \/ WritesBack(k, c)
<1> DEFINE snap  == checker[k].snap[d]
           state == RiskState(d, snap, u)
           peak  == Evaluate(state, mid).peak
           trailing == Evaluate(state, mid).trailing
<1>1. /\ pos \in [Candidates -> Rows] /\ pos[c] \in Rows
      /\ checker[k] \in CheckerStates /\ snap \in Snapshots
  BY CheckerFields DEF TypeOK
<1>2. /\ d \in checker[k].todo
      /\ UNCHANGED pos \/ pos' = [pos EXCEPT ![d].peak = peak, ![d].trailing = trailing]
  BY Zenon DEF CheckPosition
<1>3. state.peak = snap.peak /\ state.trailing = snap.trailing
  BY DEF RiskState
<1>4. snap.peak \in Nat /\ snap.trailing \in BOOLEAN /\ mid \in Nat
  <2> HIDE DEF snap
  <2>1. snap.peak \in Mids \cup {0}
    BY <1>1 DEF Snapshots
  <2>2. snap.trailing \in BOOLEAN
    BY <1>1 DEF Snapshots
  <2>3. mid \in Nat /\ Mids \cup {0} \subseteq Nat
    OBVIOUS
  <2> QED
    BY <2>1, <2>2, <2>3
<1>5. peak >= snap.peak /\ (snap.trailing => trailing)
  <2> HIDE DEF state
  <2>1. state.peak \in Nat /\ state.trailing \in BOOLEAN
    BY <1>3, <1>4
  <2>2. /\ Evaluate(state, mid).peak >= state.peak
        /\ state.trailing => Evaluate(state, mid).trailing
    BY <1>4, <2>1 DEF Evaluate, RaisedPeak, Armed
  <2> QED
    BY <1>3, <2>2
<1> HIDE DEF peak, trailing
<1>6. CASE UNCHANGED pos
  BY <1>6 DEF SameRiskState
<1>7. CASE pos' = [pos EXCEPT ![d].peak = peak, ![d].trailing = trailing]
  <2>1. CASE c = d
    <3>1. pos'[c].peak = peak /\ pos'[c].trailing = trailing
      BY <1>1, <1>7, <2>1 DEF Rows
    <3> QED
      BY <1>2, <1>5, <2>1, <3>1, Zenon DEF WritesBack
  <2>2. CASE c # d
    BY <1>1, <1>7, <2>2 DEF SameRiskState
  <2> QED
    BY <2>1, <2>2
<1> QED
  BY <1>2, <1>6, <1>7

\* and no other step of a checker touches the risk state.
LEMMA CheckerRow ==
  ASSUME TypeOK, NEW k \in Checkers, CheckerStep(k) \/ CrashChecker(k), NEW c \in Candidates
  PROVE  SameRiskState(c) \/ WritesBack(k, c)
<1>1. CASE UNCHANGED pos
  BY <1>1 DEF SameRiskState
<1>2. ASSUME NEW d \in Candidates, NEW mid \in Mids, NEW u \in Quotes, CheckPosition(k, d, mid, u)
      PROVE  SameRiskState(c) \/ WritesBack(k, c)
  BY <1>2, CheckRow
<1>3. CASE ClosePosition(k)
  <2>1. pos[c] \in Rows /\ pos \in [Candidates -> Rows]
    BY DEF TypeOK
  <2>2. pos'[c] = pos[c] \/ pos'[c] = Closed(pos[c], checker[k].reason)
    BY <1>3, <2>1 DEF ClosePosition
  <2> QED
    BY <2>1, <2>2 DEF Closed, Rows, SameRiskState
<1> QED
  BY <1>1, <1>2, <1>3, Zenon DEF CheckerStep, CrashChecker, LoadOpenPositions,
     SkipPosition, PlaceSellOrder

\* What a check has before it is what it had before it, or what the row says.
LEMMA LeftAsLoaded ==
  ASSUME NEW k \in Checkers, NEW left \in SUBSET Candidates, NEW c \in left
  PROVE  Resume(k, left).snap[c] = checker[k].snap[c]
  BY DEF Resume

LEMMA LoadedBefore ==
  ASSUME TypeOK, NEW k \in Checkers, CheckerStep(k) \/ CrashChecker(k),
         NEW c \in checker'[k].todo
  PROVE  \/ /\ c \in checker[k].todo
            /\ checker'[k].snap[c] = checker[k].snap[c]
         \/ pos[c].status = "open" /\ checker'[k].snap[c] = Snapshot(pos[c])
<1>1. /\ checker \in [Checkers -> CheckerStates] /\ checker[k] \in CheckerStates
      /\ checker[k].todo \in SUBSET Candidates
      /\ checker[k].snap \in [Candidates -> Snapshots]
  BY CheckerFields DEF TypeOK
<1>2. ASSUME NEW left \in SUBSET checker[k].todo, checker'[k] = Resume(k, left)
      PROVE  c \in checker[k].todo /\ checker'[k].snap[c] = checker[k].snap[c]
  BY <1>1, <1>2, ResumeType, LeftAsLoaded
<1>3. CASE LoadOpenPositions(k)
  BY <1>1, <1>3 DEF LoadOpenPositions, OpenPositions
<1>4. ASSUME NEW d \in Candidates, SkipPosition(k, d)
      PROVE  c \in checker[k].todo /\ checker'[k].snap[c] = checker[k].snap[c]
  BY <1>1, <1>2, <1>4 DEF SkipPosition
<1>5. ASSUME NEW d \in Candidates, NEW mid \in Mids, NEW u \in Quotes,
             CheckPosition(k, d, mid, u)
      PROVE  c \in checker[k].todo /\ checker'[k].snap[c] = checker[k].snap[c]
  <2> DEFINE left == checker[k].todo \ {d}
             reason == Evaluate(RiskState(d, checker[k].snap[d], u), mid).reason
  <2>1. checker'[k] = Resume(k, left) \/ checker'[k] = StartSale(k, d, reason)
    BY <1>1, <1>5 DEF CheckPosition
  <2> HIDE DEF reason
  <2>2. CASE checker'[k] = StartSale(k, d, reason)
    BY <1>1, <2>2 DEF StartSale
  <2> QED
    BY <1>2, <2>1, <2>2
<1>6. CASE PlaceSellOrder(k)
  <2>1. CASE checker' = [checker EXCEPT ![k].pc = "close"]
    <3>1. checker[k].pc = "sell"
      BY <1>6 DEF PlaceSellOrder
    <3>2. checker'[k].todo = checker[k].todo /\ checker'[k].snap = checker[k].snap
      BY <1>1, <2>1, <3>1 DEF CheckerStates
    <3> QED
      BY <3>2
  <2> QED
    BY <1>1, <1>2, <1>6, <2>1 DEF PlaceSellOrder
<1>7. CASE ClosePosition(k)
  BY <1>1, <1>2, <1>7 DEF ClosePosition
<1>8. CASE CrashChecker(k)
  BY <1>1, <1>8 DEF CrashChecker, IdleChecker
<1> QED
  BY <1>3, <1>4, <1>5, <1>6, <1>7, <1>8, Zenon DEF CheckerStep

\* A step of one check leaves the others where they were.
LEMMA OtherChecks ==
  ASSUME TypeOK, NEW k \in Checkers, CheckerStep(k) \/ CrashChecker(k),
         NEW j \in Checkers, j # k
  PROVE  checker'[j] = checker[j]
<1>1. checker \in [Checkers -> CheckerStates]
  BY DEF TypeOK
<1> QED
  BY <1>1, ZenonT(30) DEF CheckerStep, CrashChecker, LoadOpenPositions, SkipPosition,
     CheckPosition, PlaceSellOrder, ClosePosition

\* The rows that are yet to be inserted stay bare.
LEMMA BareInit == Init => BareUntilInserted
  BY DEF Init, BareUntilInserted, Bare, NoRow

LEMMA BareStep ==
  ASSUME TypeOK, SellAccounting, BareUntilInserted, [Next]_vars
  PROVE  BareUntilInserted'
<1> SUFFICES ASSUME NEW c \in Candidates, pos'[c].status = "none" PROVE Bare(pos'[c])
  BY Zenon DEF BareUntilInserted, Bare
<1>1. pos[c].status = "none"
  BY RowsStay
<1>2. Bare(pos[c])
  BY <1>1, Zenon DEF BareUntilInserted
<1>3. CASE QuietStep \/ UNCHANGED vars
  BY <1>2, <1>3, QuietRow, Zenon DEF Keeps, Inserts, Bare
<1>4. ASSUME NEW k \in Checkers, CheckerStep(k) \/ CrashChecker(k)
      PROVE  Bare(pos'[c])
  <2>1. c \notin checker[k].todo
    BY <1>1 DEF SellAccounting, MaySell
  <2>2. SameRiskState(c)
    BY <1>4, <2>1, CheckerRow DEF WritesBack
  <2> QED
    BY <1>2, <2>2, Zenon DEF Bare, SameRiskState
<1> QED
  BY <1>3, <1>4 DEF Next, QuietStep

\* A row with a risk state is there.
LEMMA SettledRow ==
  ASSUME BareUntilInserted, NEW c \in Candidates,
         pos[c].trailing \/ \E p \in Mids : pos[c].peak >= p
  PROVE  pos[c].status # "none"
<1>1. pos[c].status = "none" => pos[c].peak = 0 /\ ~pos[c].trailing
  BY Zenon DEF BareUntilInserted, Bare
<1>2. \A p \in Mids : ~(0 >= p)
  OBVIOUS
<1> QED
  BY <1>1, <1>2

\* A price that the row and every check under way know of stays known,
LEMMA PeakSettledStep ==
  ASSUME TypeOK, BareUntilInserted, [Next]_vars, NEW c \in Candidates, NEW p \in Mids,
         PeakSettled(c, p)
  PROVE  PeakSettled(c, p)'
<1>1. pos[c].status # "none"
  BY SettledRow DEF PeakSettled
<1>2. CASE QuietStep \/ UNCHANGED vars
  <2>1. UNCHANGED checker
    BY <1>2, QuietStepFrame DEF vars
  <2>2. pos'[c].peak = pos[c].peak
    BY <1>1, <1>2, QuietRow DEF Keeps, Inserts
  <2> QED
    BY <2>1, <2>2 DEF PeakSettled
<1>3. ASSUME NEW k \in Checkers, CheckerStep(k) \/ CrashChecker(k)
      PROVE  PeakSettled(c, p)'
  <2>1. p \in Nat /\ \A j \in Checkers : c \in checker[j].todo => checker[j].snap[c].peak \in Nat
    <3>1. \A s \in Snapshots : s.peak \in Mids \cup {0}
      BY DEF Snapshots
    <3>2. \A j \in Checkers : checker[j].snap \in [Candidates -> Snapshots]
      BY CheckerFields DEF TypeOK
    <3>3. Mids \cup {0} \subseteq Nat
      OBVIOUS
    <3> QED
      BY <3>1, <3>2, <3>3
  <2>2. pos'[c].peak >= p
    <3>1. CASE SameRiskState(c)
      BY <3>1 DEF SameRiskState, PeakSettled
    <3>2. CASE WritesBack(k, c)
      <4>1. pos'[c].peak \in Nat
        <5>1. TypeOK'
          BY NextStepType
        <5>2. pos'[c].peak \in Mids \cup {0}
          BY <5>1 DEF TypeOK, Rows
        <5>3. Mids \cup {0} \subseteq Nat
          OBVIOUS
        <5> QED
          BY <5>2, <5>3
      <4>2. /\ checker[k].snap[c].peak >= p /\ checker[k].snap[c].peak \in Nat
            /\ pos'[c].peak >= checker[k].snap[c].peak
        BY <2>1, <3>2 DEF WritesBack, PeakSettled
      <4> QED
        BY <2>1, <4>1, <4>2
    <3> QED
      BY <1>3, <3>1, <3>2, CheckerRow
  <2>3. ASSUME NEW j \in Checkers, c \in checker'[j].todo
        PROVE  checker'[j].snap[c].peak >= p
    <3>1. CASE checker'[j] = checker[j]
      BY <2>3, <3>1 DEF PeakSettled
    <3>2. CASE j = k
      <4>1. Snapshot(pos[c]).peak = pos[c].peak
        BY DEF Snapshot
      <4> QED
        BY <1>3, <2>3, <3>2, <4>1, LoadedBefore DEF PeakSettled
    <3> QED
      BY <1>3, <3>1, <3>2, OtherChecks
  <2> QED
    BY <2>2, <2>3 DEF PeakSettled
<1> QED
  BY <1>2, <1>3 DEF Next, QuietStep

\* and so does an armed trailing stop.
LEMMA TrailSettledStep ==
  ASSUME TypeOK, BareUntilInserted, [Next]_vars, NEW c \in Candidates, TrailSettled(c)
  PROVE  TrailSettled(c)'
<1>1. pos[c].status # "none"
  BY SettledRow, Zenon DEF TrailSettled
<1>2. CASE QuietStep \/ UNCHANGED vars
  <2>1. UNCHANGED checker
    BY <1>2, QuietStepFrame DEF vars
  <2>2. pos'[c].trailing = pos[c].trailing
    BY <1>1, <1>2, QuietRow, Zenon DEF Keeps, Inserts
  <2> QED
    BY <2>1, <2>2, Zenon DEF TrailSettled
<1>3. ASSUME NEW k \in Checkers, CheckerStep(k) \/ CrashChecker(k)
      PROVE  TrailSettled(c)'
  <2>1. pos'[c].trailing
    <3>1. SameRiskState(c) \/ WritesBack(k, c)
      BY <1>3, CheckerRow
    <3> QED
      BY <3>1, Zenon DEF SameRiskState, WritesBack, TrailSettled
  <2>2. ASSUME NEW j \in Checkers, c \in checker'[j].todo
        PROVE  checker'[j].snap[c].trailing
    <3>1. CASE checker'[j] = checker[j]
      BY <2>2, <3>1, Zenon DEF TrailSettled
    <3>2. CASE j = k
      <4>1. Snapshot(pos[c]).trailing = pos[c].trailing
        BY DEF Snapshot
      <4>2. \/ c \in checker[j].todo /\ checker'[j].snap[c] = checker[j].snap[c]
            \/ checker'[j].snap[c] = Snapshot(pos[c])
        BY <1>3, <2>2, <3>2, LoadedBefore
      <4> QED
        BY <4>1, <4>2, Zenon DEF TrailSettled
    <3> QED
      BY <1>3, <3>1, <3>2, OtherChecks
  <2> QED
    BY <2>1, <2>2, Zenon DEF TrailSettled
<1> QED
  BY <1>2, <1>3 DEF Next, QuietStep

\* However many checks overlap, whatever is bought again, fails or crashes: only a
\* check that loaded the position before can take a peak or an armed flag back
\* (runMechanicalChecks, UpdatePositionRiskState).
THEOREM RiskStateSettlesCorrect == Spec => RiskStateSettles
<1> DEFINE Settles ==
      \A c \in Candidates :
        /\ \A p \in Mids : PeakSettled(c, p) => PeakSettled(c, p)'
        /\ TrailSettled(c) => TrailSettled(c)'
<1>1. TypeOK /\ SellAccounting /\ BareUntilInserted /\ [Next]_vars => BareUntilInserted'
  BY BareStep
<1>2. TypeOK /\ BareUntilInserted /\ [Next]_vars => Settles
  BY PeakSettledStep, TrailSettledStep
<1>3. Settles => [Settles]_vars
  OBVIOUS
<1> QED
  BY <1>1, <1>2, BareInit, SellAccountingCorrect, PositionsTypeCorrect, PTL
     DEF Spec, RiskStateSettles

\* No step comes back to a position that is closed and that no check has before it.
LEMMA SealedStep ==
  ASSUME TypeOK, [Next]_vars, NEW c \in Candidates, Sealed(c)
  PROVE  Sealed(c)' /\ pos'[c].reason = pos[c].reason /\ sold'[c] = sold[c]
<1>1. /\ pos \in [Candidates -> Rows] /\ pos[c] \in Rows /\ pos[c].status = "closed"
      /\ checker \in [Checkers -> CheckerStates] /\ sold \in [Candidates -> Nat]
  BY DEF TypeOK, Sealed
<1>2. CASE QuietStep \/ UNCHANGED vars
  <2>1. UNCHANGED <<checker, sold>>
    BY <1>2, QuietStepFrame DEF vars
  <2>2. pos'[c].status = pos[c].status /\ pos'[c].reason = pos[c].reason
    BY <1>1, <1>2, QuietRow DEF Keeps, Inserts
  <2> QED
    BY <2>1, <2>2 DEF Sealed, MaySell, InFlight
<1>3. ASSUME NEW k \in Checkers, CheckerStep(k) \/ CrashChecker(k)
      PROVE  Sealed(c)' /\ pos'[c].reason = pos[c].reason /\ sold'[c] = sold[c]
  <2>1. /\ c \notin checker[k].todo
        /\ checker[k].pc \in {"sell", "close"} => checker[k].cand # c
    BY DEF Sealed, MaySell, InFlight
  <2>2. pos'[c] = pos[c]
    <3>1. ASSUME NEW d \in Candidates, NEW mid \in Mids, NEW u \in Quotes,
                 CheckPosition(k, d, mid, u)
          PROVE  pos'[c] = pos[c]
      <4>1. d # c
        BY <2>1, <3>1 DEF CheckPosition
      <4>2. \/ UNCHANGED pos
            \/ \E peak, trailing : pos' = [pos EXCEPT ![d].peak = peak, ![d].trailing = trailing]
        BY <3>1, Zenon DEF CheckPosition
      <4> QED
        BY <1>1, <4>1, <4>2
    <3>2. CASE ClosePosition(k)
      BY <1>1, <2>1, <3>2 DEF ClosePosition
    <3> QED
      BY <1>3, <3>1, <3>2, Zenon DEF CheckerStep, CrashChecker, LoadOpenPositions,
         SkipPosition, PlaceSellOrder
  <2>3. sold'[c] = sold[c]
    <3>1. CASE PlaceSellOrder(k)
      BY <1>1, <2>1, <3>1 DEF PlaceSellOrder
    <3> QED
      BY <1>3, <3>1, Zenon DEF CheckerStep, CrashChecker, LoadOpenPositions,
         SkipPosition, CheckPosition, ClosePosition
  <2>4. c \notin checker'[k].todo
    BY <1>1, <1>3, <2>1, LoadedBefore
  <2>5. checker'[k].pc \in {"sell", "close"} => checker'[k].cand # c
    <3>1. ASSUME NEW left \in SUBSET Candidates, checker'[k] = Resume(k, left)
          PROVE  checker'[k].pc \notin {"sell", "close"}
      BY <1>1, <3>1, ResumeType
    <3>2. checker[k].todo \in SUBSET Candidates /\ checker[k] \in CheckerStates
      BY <1>1, CheckerFields
    <3>3. CASE LoadOpenPositions(k)
      BY <1>1, <3>3 DEF LoadOpenPositions
    <3>4. ASSUME NEW d \in Candidates, SkipPosition(k, d)
          PROVE  checker'[k].pc \notin {"sell", "close"}
      BY <1>1, <3>1, <3>2, <3>4 DEF SkipPosition
    <3>5. ASSUME NEW d \in Candidates, NEW mid \in Mids, NEW u \in Quotes,
                 CheckPosition(k, d, mid, u), checker'[k].pc \in {"sell", "close"}
          PROVE  checker'[k].cand # c
      <4> DEFINE left == checker[k].todo \ {d}
                 reason == Evaluate(RiskState(d, checker[k].snap[d], u), mid).reason
      <4>1. checker'[k] = Resume(k, left) \/ checker'[k] = StartSale(k, d, reason)
        BY <1>1, <3>5 DEF CheckPosition
      <4>2. checker'[k].cand = d
        BY <3>1, <3>2, <3>5, <4>1 DEF StartSale
      <4>3. d # c
        BY <2>1, <3>5 DEF CheckPosition
      <4> QED
        BY <4>2, <4>3
    <3>6. CASE PlaceSellOrder(k)
      <4>1. CASE checker' = [checker EXCEPT ![k].pc = "close"]
        <5>1. checker[k].pc = "sell"
          BY <3>6 DEF PlaceSellOrder
        <5>2. checker'[k].cand = checker[k].cand
          BY <1>1, <3>2, <4>1, <5>1 DEF CheckerStates
        <5> QED
          BY <2>1, <5>1, <5>2
      <4> QED
        BY <1>1, <3>1, <3>2, <3>6, <4>1 DEF PlaceSellOrder
    <3>7. CASE ClosePosition(k)
      BY <1>1, <3>1, <3>2, <3>7 DEF ClosePosition
    <3>8. CASE CrashChecker(k)
      BY <1>1, <3>8 DEF CrashChecker, IdleChecker
    <3> QED
      BY <1>3, <3>3, <3>4, <3>5, <3>6, <3>7, <3>8, Zenon DEF CheckerStep
  <2>6. MaySell(c)' = {} /\ InFlight(c)' = {}
    <3>1. \A j \in Checkers : j # k => checker'[j] = checker[j]
      BY <1>3, OtherChecks
    <3>2. \A j \in Checkers : /\ c \notin checker[j].todo
                              /\ checker[j].pc \in {"sell", "close"} => checker[j].cand # c
      BY DEF Sealed, MaySell, InFlight
    <3>3. \A j \in Checkers : /\ c \notin checker'[j].todo
                              /\ checker'[j].pc \in {"sell", "close"} => checker'[j].cand # c
      BY <2>4, <2>5, <3>1, <3>2
    <3> QED
      BY <3>3 DEF MaySell, InFlight
  <2> QED
    BY <1>1, <2>2, <2>3, <2>6 DEF Sealed
<1> QED
  BY <1>2, <1>3 DEF Next, QuietStep

\* However many checks overlap: once the checks that had loaded it have ended, a
\* closed position keeps its exit and is not sold again (GetOpenPositionsForRiskCheck,
\* SellOptionPosition, ClosePosition).
THEOREM ExitRecordSettlesCorrect == Spec => ExitRecordSettles
<1>1. TypeOK /\ [Next]_vars
      => [\A c \in Candidates : Sealed(c) =>
            Sealed(c)' /\ pos'[c].reason = pos[c].reason /\ sold'[c] = sold[c]]_vars
  BY SealedStep
<1> QED
  BY <1>1, PositionsTypeCorrect, PTL DEF Spec, ExitRecordSettles
===============================================================================
