------------------------- MODULE EntryProtocolProofs -------------------------
(* The limits and the rule against a second position of a ticker, up to their  *)
(* races: for any number of runs, rows and faults and any limits.              *)
EXTENDS EntryProtocol, FiniteSetTheorems, TLAPS

\* The parts of TypeOK, each with the steps that can disturb it.
RowOK == row \in [Today -> CandidateRows]
PosOK == pos \in [Candidates -> PositionRows]
RunOK == run \in [Runs -> RunStates]
CountsOK == faults \in Nat /\ blind \in Nat

LEMMA TypeParts == TypeOK <=> RowOK /\ PosOK /\ RunOK /\ CountsOK
BY Zenon DEF TypeOK, RowOK, PosOK, RunOK, CountsOK

LEMMA IdleType == Idle \in RunStates
BY DEF Idle, RunStates, Stages

\* Moving a candidate leaves the run in its loop or idle.
LEMMA MovedType ==
  ASSUME RunOK, NEW r \in Runs, NEW c \in Candidates, NEW stage \in Stages
  PROVE  /\ Moved(r, c, stage) \in RunStates
         /\ Moved(r, c, stage).pc \in {"idle", "loop"}
<1> DEFINE work == [run[r].work EXCEPT ![c] = stage]
           left == {d \in Candidates : work[d] # "out"}
           next == [pc |-> "loop", work |-> work, puts |-> run[r].puts \cap left]
<1>1. run[r] \in RunStates
  BY DEF RunOK
<1>2. work \in [Candidates -> Stages] /\ run[r].puts \cap left \in SUBSET Candidates
  BY <1>1 DEF RunStates
<1>3. next \in RunStates /\ next.pc = "loop"
  BY <1>2 DEF RunStates
<1>4. Moved(r, c, stage) = IF left = {} THEN Idle ELSE next
  BY Zenon DEF Moved
<1> QED
  BY <1>3, <1>4, IdleType DEF Idle

\* Every step changes at most one run, to a state of the right type.
OneRun(r, to) == r \in Runs /\ to \in RunStates /\ run' = [run EXCEPT ![r] = to]

LEMMA MoveIsOneRun ==
  ASSUME RunOK, NEW r \in Runs, NEW c \in Candidates, NEW stage \in Stages,
         Move(r, c, stage)
  PROVE  \E to : OneRun(r, to) /\ to.pc \in {"idle", "loop"}
BY MovedType, Zenon DEF Move, OneRun

LEMMA OneRunType ==
  ASSUME RunOK, NEW r, NEW to, OneRun(r, to)
  PROVE  RunOK'
BY DEF RunOK, OneRun

-------------------------------------------------------------------------------
(* What each step does to the run that takes it.                           *)

\* A step after which its run is not past the total check.
Quiet(r) == \E to : OneRun(r, to) /\ to.pc \notin {"direction", "insert"}

LEMMA MoveIsQuiet ==
  ASSUME RunOK, NEW r \in Runs, NEW c \in Candidates, NEW stage \in Stages,
         Move(r, c, stage)
  PROVE  Quiet(r)
BY MoveIsOneRun, Zenon DEF Quiet

LEMMA StageNames ==
  /\ "out" \in Stages /\ "listed" \in Stages /\ "failed" \in Stages
  /\ "passed" \in Stages /\ "buying" \in Stages
BY DEF Stages

\* A jump of the run to another place.
LEMMA JumpType ==
  ASSUME RunOK, NEW r \in Runs,
         NEW pc \in {"held", "total", "direction", "insert"},
         run' = [run EXCEPT ![r].pc = pc]
  PROVE  \E to : OneRun(r, to) /\ to.pc = pc
<1> DEFINE to == [run[r] EXCEPT !.pc = pc]
<1>1. run[r] \in RunStates
  BY DEF RunOK
<1>2. to \in RunStates /\ to.pc = pc
  BY <1>1 DEF RunStates
<1>3. run' = [run EXCEPT ![r] = to]
  BY DEF RunOK
<1> QED
  BY <1>2, <1>3, Zenon DEF OneRun

\* A candidate is taken up for a buy.
LEMMA TakeUpType ==
  ASSUME RunOK, NEW r \in Runs, NEW c \in Candidates, NEW pc \in {"held", "total"},
         run' = [run EXCEPT ![r] = [Moved(r, c, "buying") EXCEPT !.pc = pc]]
  PROVE  Quiet(r)
<1> DEFINE to == [Moved(r, c, "buying") EXCEPT !.pc = pc]
<1>1. Moved(r, c, "buying") \in RunStates
  BY MovedType, StageNames
<1>2. to \in RunStates /\ to.pc = pc
  BY <1>1 DEF RunStates
<1>3. OneRun(r, to) /\ to.pc \notin {"direction", "insert"}
  BY <1>2 DEF OneRun
<1> QED
  BY <1>3, Zenon DEF Quiet

\* The three ways a run starts.
LEMMA StartIsQuiet ==
  ASSUME RunOK, NEW r \in Runs, Start(r)
  PROVE  Quiet(r)
<1> DEFINE work(S, stage) == [c \in Candidates |-> IF c \in S THEN stage ELSE "out"]
<1>1. ASSUME NEW pc \in {"loaded", "loop"},
             run' = [run EXCEPT ![r] = [pc |-> pc, puts |-> BearishRows(EntryReady),
                                        work |-> work(EntryReady, "listed")]]
      PROVE  Quiet(r)
  <2> DEFINE to == [pc |-> pc, puts |-> BearishRows(EntryReady), work |-> work(EntryReady, "listed")]
  <2>1. to \in RunStates /\ to.pc = pc
    BY DEF RunStates, Stages, BearishRows, EntryReady, Candidates
  <2> QED
    BY <1>1, <2>1 DEF Quiet, OneRun
<1>2. CASE r \in Activities /\ LoadEntryReady(r)
  BY <1>1, <1>2, Zenon DEF LoadEntryReady
<1>3. CASE r \in Requests /\ LoadRequest(r)
  BY <1>1, <1>3, Zenon DEF LoadRequest
<1>4. ASSUME NEW c \in Today, PickForced(r, c) PROVE Quiet(r)
  <2> DEFINE to == [pc |-> "promote", work |-> [Idle.work EXCEPT ![c] = "buying"],
                    puts |-> BearishRows({c})]
  <2>1. to \in RunStates /\ to.pc = "promote"
    BY DEF RunStates, Stages, BearishRows, Candidates, Idle
  <2> QED
    BY <1>4, <2>1 DEF PickForced, Quiet, OneRun
<1> QED
  BY <1>2, <1>3, <1>4 DEF Start

LEMMA ShortlistIsQuiet ==
  ASSUME RunOK, NEW r \in Runs, Shortlist(r)
  PROVE  Quiet(r)
<1>1. PICK list \in SUBSET (At(r, "listed") \cap AboveBar), probe \in {Reversals, {}} :
        run' = [run EXCEPT ![r] =
                 [pc |-> "loop", work |-> ShortlistOf(At(r, "listed"), list, probe),
                  puts |-> run[r].puts \cup BearishRows(probe)]]
  BY Zenon DEF Shortlist
<1> DEFINE to == [pc |-> "loop", work |-> ShortlistOf(At(r, "listed"), list, probe),
                  puts |-> run[r].puts \cup BearishRows(probe)]
<1>2. ShortlistOf(At(r, "listed"), list, probe) \in [Candidates -> Stages]
  BY DEF ShortlistOf, Stages
<1>3. run[r].puts \cup BearishRows(probe) \in SUBSET Candidates
  BY DEF RunOK, RunStates, BearishRows, Reversals, Candidates
<1>4. to \in RunStates /\ to.pc = "loop"
  BY <1>2, <1>3 DEF RunStates
<1> QED
  BY <1>1, <1>4 DEF Quiet, OneRun

\* The passes over the candidates.
LEMMA PassIsQuiet ==
  ASSUME RunOK, NEW r \in Runs, NEW c \in Today,
         \/ Demote(r, c) \/ ProbeReversal(r, c) \/ GatherEvidence(r, c)
         \/ RejectOnEvidence(r, c) \/ ConfirmOnEvidence(r, c) \/ DecideRequest(r, c)
         \/ CheckHeld(r, c)
  PROVE  Quiet(r)
<1> c \in Candidates
  BY DEF Candidates
<1>1. ASSUME NEW stage \in {"out", "listed", "failed", "passed"}, Move(r, c, stage)
      PROVE  Quiet(r)
  BY <1>1, MoveIsQuiet, StageNames
<1>2. ASSUME NEW pc \in {"held", "total"},
             run' = [run EXCEPT ![r] = [Moved(r, c, "buying") EXCEPT !.pc = pc]]
      PROVE  Quiet(r)
  BY <1>2, TakeUpType
<1>3. CASE Demote(r, c) \/ ProbeReversal(r, c) \/ GatherEvidence(r, c) \/ RejectOnEvidence(r, c)
  BY <1>1, <1>3, Zenon DEF Demote, ProbeReversal, GatherEvidence, RejectOnEvidence
<1>4. CASE ConfirmOnEvidence(r, c) \/ DecideRequest(r, c)
  BY <1>1, <1>2, <1>4, Zenon DEF ConfirmOnEvidence, DecideRequest
<1>5. CASE CheckHeld(r, c)
  <2>1. ASSUME run' = [run EXCEPT ![r].pc = "total"] PROVE Quiet(r)
    <3>1. \E to : OneRun(r, to) /\ to.pc = "total"
      BY <2>1, JumpType
    <3> QED
      BY <3>1 DEF Quiet
  <2> QED
    BY <1>1, <1>5, <2>1, Zenon DEF CheckHeld, Gate
<1> QED
  BY <1>3, <1>4, <1>5

\* Passing a limit, or not.
LEMMA GateType ==
  ASSUME RunOK, NEW r \in Runs, NEW c \in Today, NEW allowed,
         NEW next \in {"direction", "insert"}, Gate(r, c, allowed, next)
  PROVE  Quiet(r) \/ \E to : OneRun(r, to) /\ to.pc = next
<1>1. CASE Move(r, c, "out")
  BY <1>1, MoveIsQuiet, StageNames DEF Candidates
<1>2. CASE run' = [run EXCEPT ![r].pc = next]
  BY <1>2, JumpType
<1> QED
  BY <1>1, <1>2, Zenon DEF Gate

\* Each step changes one run or none, and to a state of the right type.
LEMMA RunStep ==
  ASSUME RunOK, [Next]_vars
  PROVE  UNCHANGED run \/ \E r, to : OneRun(r, to)
<1>1. ASSUME NEW r \in Runs, Quiet(r) PROVE \E q, to : OneRun(q, to)
  BY <1>1, Zenon DEF Quiet
<1>2. ASSUME NEW r \in Runs, Start(r) PROVE \E q, to : OneRun(q, to)
  BY <1>1, <1>2, StartIsQuiet
<1>3. ASSUME NEW r \in Runs, Continue(r) PROVE \E q, to : OneRun(q, to)
  <2>1. CASE Shortlist(r)
    BY <1>1, <2>1, ShortlistIsQuiet
  <2>2. ASSUME NEW c \in Today,
               \/ Demote(r, c) \/ ProbeReversal(r, c) \/ GatherEvidence(r, c)
               \/ RejectOnEvidence(r, c) \/ ConfirmOnEvidence(r, c) \/ DecideRequest(r, c)
               \/ CheckHeld(r, c)
        PROVE  \E q, to : OneRun(q, to)
    BY <1>1, <2>2, PassIsQuiet
  <2>3. ASSUME NEW c \in Today, CheckTotal(r, c) \/ CheckDirection(r, c)
        PROVE  \E q, to : OneRun(q, to)
    <3>1. PICK next \in {"direction", "insert"} : \E allowed : Gate(r, c, allowed, next)
      BY <2>3, Zenon DEF CheckTotal, CheckDirection
    <3>2. Quiet(r) \/ \E to : OneRun(r, to) /\ to.pc = next
      BY <3>1, GateType
    <3> QED
      BY <1>1, <3>2, Zenon
  <2>4. ASSUME NEW c \in Today, PromoteForced(r, c) PROVE \E q, to : OneRun(q, to)
    <3>1. CASE Move(r, c, "out")
      BY <1>1, <3>1, MoveIsQuiet, StageNames DEF Candidates
    <3>2. CASE run' = [run EXCEPT ![r].pc = "insert"]
      BY <3>2, JumpType, Zenon
    <3> QED
      BY <2>4, <3>1, <3>2, Zenon DEF PromoteForced
  <2>5. ASSUME NEW c \in Today, Buy(r, c) PROVE \E q, to : OneRun(q, to)
    <3>1. Move(r, c, "out")
      BY <2>5, Zenon DEF Buy
    <3> QED
      BY <1>1, <3>1, MoveIsQuiet, StageNames DEF Candidates
  <2> QED
    BY <1>3, <2>1, <2>2, <2>3, <2>4, <2>5, Zenon DEF Continue
<1>4. ASSUME NEW r \in Runs, Crash(r) PROVE \E q, to : OneRun(q, to)
  BY <1>4, IdleType, Zenon DEF Crash, OneRun
<1>5. CASE \E c \in Today : Rescan(c)
  BY <1>5, Zenon DEF Rescan
<1>6. CASE \E c \in Candidates : ClosePosition(c)
  BY <1>6, Zenon DEF ClosePosition
<1>7. CASE UNCHANGED vars
  BY <1>7, Zenon DEF vars
<1> QED
  BY <1>2, <1>3, <1>4, <1>5, <1>6, <1>7, Zenon DEF Next

-------------------------------------------------------------------------------
(* What each step does to the tables and the counts.                       *)

LEMMA SetStatusType ==
  ASSUME RowOK, NEW c \in Today, NEW status \in Statuses,
         SetStatus(c, status) \/ row' = [row EXCEPT ![c].status = status]
  PROVE  RowOK'
<1>1. CASE UNCHANGED row
  BY <1>1 DEF RowOK
<1>2. CASE row' = [row EXCEPT ![c].status = status]
  <2>1. row[c] \in CandidateRows
    BY DEF RowOK
  <2>2. [row[c] EXCEPT !.status = status] \in CandidateRows
    BY <2>1 DEF CandidateRows
  <2> QED
    BY <1>2, <2>2 DEF RowOK
<1> QED
  BY <1>1, <1>2, Zenon DEF SetStatus

LEMMA StatusNames ==
  "watch_only" \in Statuses /\ "confirmed" \in Statuses /\ "entry_ready" \in Statuses
BY DEF Statuses

LEMMA RowStep ==
  ASSUME RowOK, [Next]_vars
  PROVE  RowOK'
<1>1. CASE UNCHANGED row
  BY <1>1 DEF RowOK
<1>2. ASSUME NEW c \in Today, NEW status \in {"watch_only", "confirmed", "entry_ready"},
             SetStatus(c, status) \/ row' = [row EXCEPT ![c].status = status]
      PROVE  RowOK'
  <2>1. status \in Statuses
    BY StatusNames
  <2> QED
    BY <1>2, <2>1, SetStatusType, Zenon
<1>3. ASSUME NEW c \in Today, Rescan(c) PROVE RowOK'
  <2>1. PICK status \in Statuses, bearish \in BOOLEAN :
          row' = [row EXCEPT ![c] = [status |-> status, bearish |-> bearish, reversal |-> FALSE]]
    <3>1. row[c].status \in Statuses
      BY DEF RowOK, CandidateRows
    <3>2. ScanResults \subseteq Statuses
      BY DEF ScanResults, Statuses
    <3>3. BearishOf[c] \subseteq BOOLEAN
      BY EntryAssumption
    <3> QED
      BY <1>3, <3>1, <3>2, <3>3 DEF Rescan
  <2> QED
    BY <2>1 DEF RowOK, CandidateRows
<1>4. ASSUME NEW r \in Runs, Start(r) PROVE RowOK'
  BY <1>1, <1>4, Zenon DEF Start, LoadEntryReady, LoadRequest, PickForced
<1>5. ASSUME NEW r \in Runs, Continue(r) PROVE RowOK'
  <2>1. ASSUME NEW c \in Today,
               \/ Demote(r, c) \/ ProbeReversal(r, c) \/ GatherEvidence(r, c)
               \/ RejectOnEvidence(r, c) \/ ConfirmOnEvidence(r, c) \/ DecideRequest(r, c)
               \/ PromoteForced(r, c)
        PROVE  RowOK'
    BY <1>1, <1>2, <2>1, Zenon
       DEF Demote, ProbeReversal, GatherEvidence, RejectOnEvidence, ConfirmOnEvidence,
           DecideRequest, PromoteForced
  <2>2. ASSUME NEW c \in Today,
               CheckHeld(r, c) \/ CheckTotal(r, c) \/ CheckDirection(r, c) \/ Buy(r, c)
        PROVE  RowOK'
    BY <1>1, <2>2, Zenon DEF CheckHeld, CheckTotal, CheckDirection, Gate, Buy
  <2>3. CASE Shortlist(r)
    BY <1>1, <2>3, Zenon DEF Shortlist
  <2> QED
    BY <1>5, <2>1, <2>2, <2>3, Zenon DEF Continue
<1>6. CASE \E r \in Runs : Crash(r)
  BY <1>1, <1>6, Zenon DEF Crash
<1>7. CASE \E c \in Candidates : ClosePosition(c)
  BY <1>1, <1>7, Zenon DEF ClosePosition
<1>8. CASE UNCHANGED vars
  BY <1>1, <1>8, Zenon DEF vars
<1> QED
  BY <1>3, <1>4, <1>5, <1>6, <1>7, <1>8, Zenon DEF Next

\* The row a buy inserts.
Inserted(r, c) ==
  pos' = [pos EXCEPT ![c] = [status |-> "open", put |-> c \in run[r].puts, by |-> Program(r)]]

\* Positions change by an insert or a close, and in no other way.
LEMMA PosStep ==
  ASSUME [Next]_vars
  PROVE  \/ UNCHANGED pos
         \/ \E r \in Runs, c \in Today : Buy(r, c) /\ Inserted(r, c)
         \/ \E c \in Candidates : ClosePosition(c)
<1>1. ASSUME NEW r \in Runs, Start(r) PROVE UNCHANGED pos
  BY <1>1, Zenon DEF Start, LoadEntryReady, LoadRequest, PickForced
<1>2. ASSUME NEW r \in Runs, Continue(r)
      PROVE  UNCHANGED pos \/ \E c \in Today : Buy(r, c) /\ Inserted(r, c)
  <2>1. ASSUME NEW c \in Today,
               \/ Demote(r, c) \/ ProbeReversal(r, c) \/ GatherEvidence(r, c)
               \/ RejectOnEvidence(r, c) \/ ConfirmOnEvidence(r, c) \/ DecideRequest(r, c)
               \/ PromoteForced(r, c)
        PROVE  UNCHANGED pos
    BY <2>1, Zenon DEF Demote, ProbeReversal, GatherEvidence, RejectOnEvidence,
                       ConfirmOnEvidence, DecideRequest, PromoteForced
  <2>2. ASSUME NEW c \in Today, CheckHeld(r, c) \/ CheckTotal(r, c) \/ CheckDirection(r, c)
        PROVE  UNCHANGED pos
    BY <2>2, Zenon DEF CheckHeld, CheckTotal, CheckDirection, Gate
  <2>3. CASE Shortlist(r)
    BY <2>3, Zenon DEF Shortlist
  <2>4. ASSUME NEW c \in Today, Buy(r, c) PROVE UNCHANGED pos \/ Inserted(r, c)
    BY <2>4, Zenon DEF Buy, Inserted
  <2> QED
    BY <1>2, <2>1, <2>2, <2>3, <2>4, Zenon DEF Continue
<1>3. CASE \E r \in Runs : Crash(r)
  BY <1>3, Zenon DEF Crash
<1>4. CASE \E c \in Today : Rescan(c)
  BY <1>4, Zenon DEF Rescan
<1>5. CASE UNCHANGED vars
  BY <1>5, Zenon DEF vars
<1> QED
  BY <1>1, <1>2, <1>3, <1>4, <1>5, Zenon DEF Next

LEMMA PosType ==
  ASSUME PosOK, [Next]_vars
  PROVE  PosOK'
<1>1. CASE UNCHANGED pos
  BY <1>1 DEF PosOK
<1>2. ASSUME NEW r \in Runs, NEW c \in Today, Inserted(r, c) PROVE PosOK'
  <2>1. [status |-> "open", put |-> c \in run[r].puts, by |-> Program(r)] \in PositionRows
    BY DEF PositionRows, Program
  <2> QED
    BY <1>2, <2>1 DEF PosOK, Inserted
<1>3. ASSUME NEW c \in Candidates, ClosePosition(c) PROVE PosOK'
  <2>1. [pos[c] EXCEPT !.status = "closed"] \in PositionRows
    BY DEF PosOK, PositionRows
  <2> QED
    BY <1>3, <2>1 DEF PosOK, ClosePosition
<1> QED
  BY <1>1, <1>2, <1>3, PosStep, Zenon

\* faults and blind count by one.
LEMMA CountStep ==
  ASSUME [Next]_vars
  PROVE  faults' \in {faults, faults + 1} /\ blind' \in {blind, blind + 1}
<1>1. ASSUME NEW r \in Runs, Start(r) PROVE faults' = faults /\ blind' = blind
  BY <1>1, Zenon DEF Start, LoadEntryReady, LoadRequest, PickForced
<1>2. ASSUME NEW r \in Runs, Continue(r)
      PROVE  faults' \in {faults, faults + 1} /\ blind' \in {blind, blind + 1}
  <2> USE DEF Fault, NoFault, SetStatus
  <2>1. ASSUME NEW c \in Today,
               \/ Demote(r, c) \/ ProbeReversal(r, c) \/ GatherEvidence(r, c)
        PROVE  faults' \in {faults, faults + 1} /\ blind' = blind
    BY <2>1, Zenon DEF Demote, ProbeReversal, GatherEvidence
  <2>2. ASSUME NEW c \in Today,
               \/ RejectOnEvidence(r, c) \/ ConfirmOnEvidence(r, c) \/ DecideRequest(r, c)
               \/ PromoteForced(r, c)
        PROVE  faults' \in {faults, faults + 1} /\ blind' = blind
    BY <2>2, Zenon DEF RejectOnEvidence, ConfirmOnEvidence, DecideRequest, PromoteForced
  <2>3. ASSUME NEW c \in Today,
               CheckHeld(r, c) \/ CheckTotal(r, c) \/ CheckDirection(r, c)
        PROVE  faults' \in {faults, faults + 1} /\ blind' \in {blind, blind + 1}
    BY <2>3, Zenon DEF CheckHeld, CheckTotal, CheckDirection, Gate
  <2>4. ASSUME Shortlist(r) PROVE faults' \in {faults, faults + 1} /\ blind' = blind
    BY <2>4, Zenon DEF Shortlist
  <2>5. ASSUME NEW c \in Today, Buy(r, c)
        PROVE  faults' \in {faults, faults + 1} /\ blind' = blind
    BY <2>5, Zenon DEF Buy
  <2> QED
    BY <1>2, <2>1, <2>2, <2>3, <2>4, <2>5, Zenon DEF Continue
<1>3. CASE \E r \in Runs : Crash(r)
  BY <1>3, Zenon DEF Crash, Fault
<1>4. CASE \E c \in Today : Rescan(c)
  BY <1>4, Zenon DEF Rescan
<1>5. CASE \E c \in Candidates : ClosePosition(c)
  BY <1>5, Zenon DEF ClosePosition
<1>6. CASE UNCHANGED vars
  BY <1>6, Zenon DEF vars
<1> QED
  BY <1>1, <1>2, <1>3, <1>4, <1>5, <1>6, Zenon DEF Next

LEMMA InitType == Init => TypeOK
<1> SUFFICES ASSUME Init PROVE TypeOK
  OBVIOUS
<1>1. RowOK
  BY Zenon DEF Init, RowOK
<1>2. PosOK
  <2> DEFINE earlier == [status : {"open"}, put : BOOLEAN, by : {"earlier"}]
  <2>1. NoPosition \in PositionRows
    BY DEF NoPosition, PositionRows
  <2>2. ASSUME NEW p \in earlier PROVE p \in PositionRows
    BY DEF PositionRows
  <2>3. pos \in [Candidates -> {NoPosition} \cup earlier]
    BY Zenon DEF Init
  <2> QED
    BY <2>1, <2>2, <2>3 DEF PosOK
<1>3. RunOK
  BY IdleType, Zenon DEF Init, RunOK
<1>4. faults = 0 /\ blind = 0
  BY Zenon DEF Init
<1>5. CountsOK
  BY <1>4 DEF CountsOK
<1> QED
  BY <1>1, <1>2, <1>3, <1>5, TypeParts, Zenon

LEMMA NextType == TypeOK /\ [Next]_vars => TypeOK'
<1> SUFFICES ASSUME TypeOK, [Next]_vars PROVE TypeOK'
  OBVIOUS
<1>1. RowOK /\ PosOK /\ RunOK /\ CountsOK
  BY TypeParts, Zenon
<1>2. RowOK' /\ PosOK'
  BY <1>1, RowStep, PosType, Zenon
<1>3. RunOK'
  <2>1. CASE UNCHANGED run
    BY <1>1, <2>1 DEF RunOK
  <2>2. ASSUME NEW r, NEW to, OneRun(r, to) PROVE RunOK'
    BY <1>1, <2>2, OneRunType, Zenon
  <2> QED
    BY <1>1, <2>1, <2>2, RunStep, Zenon
<1>4. CountsOK'
  <2>1. faults' \in {faults, faults + 1} /\ blind' \in {blind, blind + 1}
    BY CountStep, Zenon
  <2> QED
    BY <1>1, <2>1 DEF CountsOK
<1> QED
  BY <1>2, <1>3, <1>4, Zenon DEF TypeOK, RowOK, PosOK, RunOK, CountsOK

\* The types of the entry protocol's state hold throughout.
THEOREM EntryTypeCorrect == Spec => []TypeOK
BY InitType, NextType, PTL DEF Spec

-------------------------------------------------------------------------------
(* The limit on open positions.  OpenBounded is inductive as it stands:    *)
(* counting the runs past the total check with the open positions makes an *)
(* insert a move from one term of the sum to the other, and at a check the *)
(* query itself bounds the first term.                                     *)

LEMMA FiniteSets ==
  /\ \A S : S \subseteq Candidates => IsFiniteSet(S) /\ Cardinality(S) \in Nat
  /\ \A S : S \subseteq Runs => IsFiniteSet(S) /\ Cardinality(S) \in Nat
BY EntryAssumption, FS_Subset, FS_CardinalityType

LEMMA PastTotalStep ==
  ASSUME RunOK, NEW r \in Runs, NEW to, OneRun(r, to)
  PROVE  /\ PastTotal' \subseteq PastTotal \cup {r}
         /\ to.pc \notin {"direction", "insert"} => PastTotal' = PastTotal \ {r}
         /\ r \notin ConfirmRuns => PastTotal' = PastTotal
BY DEF RunOK, OneRun, PastTotal, Runs

\* What a step does to the two terms of the sum.
Calm == PastTotal' \subseteq PastTotal /\ Limited(Open)' \subseteq Limited(Open)
Allowed == UNCHANGED pos /\ BelowTotal
Blind == /\ UNCHANGED pos /\ blind' = blind + 1
         /\ \E r \in Runs : PastTotal' \subseteq PastTotal \cup {r}
Moves == \E r \in PastTotal, c \in Candidates :
           /\ PastTotal' = PastTotal \ {r}
           /\ Limited(Open)' \subseteq Limited(Open) \cup {c}

LEMMA QuietIsCalm ==
  ASSUME RunOK, NEW r \in Runs, Quiet(r), UNCHANGED pos
  PROVE  Calm
<1>1. PICK to : OneRun(r, to) /\ to.pc \notin {"direction", "insert"}
  BY Zenon DEF Quiet
<1>2. PastTotal' \subseteq PastTotal
  BY <1>1, PastTotalStep
<1> QED
  BY <1>2 DEF Calm, Limited, Open

LEMMA TotalGate ==
  ASSUME RunOK, NEW r \in Runs, NEW c \in Today, CheckTotal(r, c)
  PROVE  Calm \/ Allowed \/ Blind
<1>1. CASE Move(r, c, "out") /\ UNCHANGED pos
  BY <1>1, MoveIsQuiet, QuietIsCalm, StageNames DEF Candidates
<1>2. CASE BelowTotal /\ UNCHANGED pos
  BY <1>2, Zenon DEF Allowed
<1>3. CASE run' = [run EXCEPT ![r].pc = "direction"] /\ blind' = blind + 1 /\ UNCHANGED pos
  <2>1. \E to : OneRun(r, to)
    BY <1>3, JumpType, Zenon
  <2>2. PastTotal' \subseteq PastTotal \cup {r}
    BY <2>1, PastTotalStep, Zenon
  <2> QED
    BY <1>3, <2>2, Zenon DEF Blind
<1> QED
  BY <1>1, <1>2, <1>3, Zenon DEF CheckTotal, Gate

LEMMA DirectionGate ==
  ASSUME RunOK, NEW r \in Runs, NEW c \in Today, CheckDirection(r, c)
  PROVE  Calm
<1>1. UNCHANGED pos
  BY Zenon DEF CheckDirection, Gate
<1>2. CASE Move(r, c, "out")
  BY <1>1, <1>2, MoveIsQuiet, QuietIsCalm, StageNames DEF Candidates
<1>3. CASE run' = [run EXCEPT ![r].pc = "insert"]
  <2>1. run[r].pc = "direction"
    BY Zenon DEF CheckDirection
  <2>2. PICK to : OneRun(r, to)
    BY <1>3, JumpType, Zenon
  <2>3. PastTotal' \subseteq PastTotal
    BY <2>1, <2>2, PastTotalStep DEF PastTotal
  <2> QED
    BY <1>1, <2>3 DEF Calm, Limited, Open
<1> QED
  BY <1>2, <1>3, Zenon DEF CheckDirection, Gate

LEMMA BuyMoves ==
  ASSUME RunOK, PosOK, NEW r \in Runs, NEW c \in Today, Buy(r, c)
  PROVE  Calm \/ Moves
<1> c \in Candidates
  BY DEF Candidates
<1>1. Quiet(r)
  <2>1. Move(r, c, "out")
    BY Zenon DEF Buy
  <2> QED
    BY <2>1, MoveIsQuiet, StageNames
<1>2. CASE UNCHANGED pos
  BY <1>1, <1>2, QuietIsCalm
<1>3. CASE Inserted(r, c)
  <2>1. PastTotal' = PastTotal \ {r}
    BY <1>1, PastTotalStep DEF Quiet
  <2>2. Limited(Open)' \subseteq Limited(Open) \cup {c}
    BY <1>3 DEF Inserted, Limited, Open, PosOK
  <2>3. CASE r \in ConfirmRuns
    <3>1. r \in PastTotal
      BY <2>3 DEF Buy, PastTotal
    <3> QED
      BY <2>1, <2>2, <3>1, Zenon DEF Moves
  <2>4. CASE r \notin ConfirmRuns
    <3>1. Program(r) = "force"
      BY <2>4 DEF Program, ConfirmRuns
    <3>2. pos'[c].by = "force"
      BY <1>3, <3>1 DEF Inserted, PosOK
    <3>3. Limited(Open)' \subseteq Limited(Open)
      BY <2>2, <3>2, <1>3 DEF Limited, Open, Inserted, PosOK
    <3> QED
      BY <2>1, <3>3 DEF Calm
  <2> QED
    BY <2>3, <2>4
<1> QED
  BY <1>2, <1>3, Zenon DEF Buy, Inserted

LEMMA PassLeavesPositions ==
  ASSUME NEW r \in Runs, NEW c \in Today,
         \/ Demote(r, c) \/ ProbeReversal(r, c) \/ GatherEvidence(r, c)
         \/ RejectOnEvidence(r, c) \/ ConfirmOnEvidence(r, c) \/ DecideRequest(r, c)
         \/ CheckHeld(r, c)
  PROVE  UNCHANGED pos
BY Zenon DEF Demote, ProbeReversal, GatherEvidence, RejectOnEvidence, ConfirmOnEvidence,
             DecideRequest, CheckHeld, Gate

LEMMA TotalStep ==
  ASSUME RunOK, PosOK, [Next]_vars
  PROVE  Calm \/ Allowed \/ Blind \/ Moves
<1>1. ASSUME NEW r \in Runs, Start(r) PROVE Calm
  <2>1. UNCHANGED pos
    BY <1>1, Zenon DEF Start, LoadEntryReady, LoadRequest, PickForced
  <2> QED
    BY <1>1, <2>1, StartIsQuiet, QuietIsCalm
<1>2. ASSUME NEW r \in Runs, Continue(r) PROVE Calm \/ Allowed \/ Blind \/ Moves
  <2>1. CASE Shortlist(r)
    <3>1. UNCHANGED pos
      BY <2>1, Zenon DEF Shortlist
    <3> QED
      BY <2>1, <3>1, ShortlistIsQuiet, QuietIsCalm
  <2>2. ASSUME NEW c \in Today,
               \/ Demote(r, c) \/ ProbeReversal(r, c) \/ GatherEvidence(r, c)
               \/ RejectOnEvidence(r, c) \/ ConfirmOnEvidence(r, c) \/ DecideRequest(r, c)
               \/ CheckHeld(r, c)
        PROVE  Calm
    BY <2>2, PassLeavesPositions, PassIsQuiet, QuietIsCalm
  <2>3. ASSUME NEW c \in Today, CheckTotal(r, c) PROVE Calm \/ Allowed \/ Blind
    BY <2>3, TotalGate
  <2>4. ASSUME NEW c \in Today, CheckDirection(r, c) PROVE Calm
    BY <2>4, DirectionGate
  <2>5. ASSUME r \in Forcers, NEW c \in Today, PromoteForced(r, c) PROVE Calm
    <3>1. UNCHANGED pos /\ (Move(r, c, "out") \/ run' = [run EXCEPT ![r].pc = "insert"])
      BY <2>5, Zenon DEF PromoteForced
    <3>2. CASE Move(r, c, "out")
      BY <3>1, <3>2, MoveIsQuiet, QuietIsCalm, StageNames DEF Candidates
    <3>3. CASE run' = [run EXCEPT ![r].pc = "insert"]
      <4>1. r \notin ConfirmRuns
        BY <2>5, EntryAssumption
      <4>2. PastTotal' = PastTotal
        BY <3>3, <4>1 DEF PastTotal, RunOK, Runs
      <4> QED
        BY <3>1, <4>2 DEF Calm, Limited, Open
    <3> QED
      BY <3>1, <3>2, <3>3
  <2>6. ASSUME NEW c \in Today, Buy(r, c) PROVE Calm \/ Moves
    BY <2>6, BuyMoves
  <2> QED
    BY <1>2, <2>1, <2>2, <2>3, <2>4, <2>5, <2>6, Zenon DEF Continue
<1>3. ASSUME NEW r \in Runs, Crash(r) PROVE Calm
  <2>1. UNCHANGED pos /\ run' = [run EXCEPT ![r] = Idle]
    BY <1>3, Zenon DEF Crash
  <2>2. Quiet(r)
    <3>1. Idle.pc \notin {"direction", "insert"}
      BY DEF Idle
    <3> QED
      BY <2>1, <3>1, IdleType, Zenon DEF Quiet, OneRun
  <2> QED
    BY <2>1, <2>2, QuietIsCalm
<1>4. ASSUME NEW c \in Today, Rescan(c) PROVE Calm
  BY <1>4 DEF Rescan, Calm, PastTotal, Limited, Open
<1>5. ASSUME NEW c \in Candidates, ClosePosition(c) PROVE Calm
  BY <1>5 DEF ClosePosition, Calm, PastTotal, Limited, Open, PosOK
<1>6. CASE UNCHANGED vars
  BY <1>6 DEF vars, Calm, PastTotal, Limited, Open
<1> QED
  BY <1>1, <1>2, <1>3, <1>4, <1>5, <1>6, Zenon DEF Next

\* The arithmetic of one step, on the sizes of the four sets: o and p of the
\* open and the passing, n of the runs, b the failed queries.
LEMMA Sums ==
  ASSUME NEW o \in Nat, NEW p \in Nat, NEW n \in Nat, NEW b \in Nat, NEW m \in Nat \ {0},
         NEW o2 \in Nat, NEW p2 \in Nat, NEW b2 \in {b, b + 1},
         \/ o + p <= m - 1 + n + b /\ o2 <= o /\ p2 <= p
         \/ o2 < m /\ p2 <= n
         \/ o + p <= m - 1 + n + b /\ o2 <= o /\ p2 <= p + 1 /\ b2 = b + 1
         \/ o + p <= m - 1 + n + b /\ p2 = p - 1 /\ o2 <= o + 1
  PROVE  o2 + p2 <= m - 1 + n + b2
OBVIOUS

LEMMA Sizes ==
  /\ Limited(Open) \subseteq Candidates /\ Open \subseteq Candidates
  /\ PastTotal \subseteq ConfirmRuns /\ ConfirmRuns \subseteq Runs
BY DEF Limited, Open, PastTotal, Runs

LEMMA Sizes2 ==
  /\ Limited(Open)' \subseteq Candidates /\ PastTotal' \subseteq ConfirmRuns
BY DEF Limited, Open, PastTotal

LEMMA CardLE ==
  ASSUME NEW S, NEW T, IsFiniteSet(T), S \subseteq T
  PROVE  Cardinality(S) <= Cardinality(T)
BY FS_Subset

LEMMA CardAdd ==
  ASSUME NEW S, NEW T, NEW x, IsFiniteSet(T), S \subseteq T \cup {x}
  PROVE  Cardinality(S) <= Cardinality(T) + 1
<1>1. /\ IsFiniteSet(T \cup {x})
      /\ Cardinality(T \cup {x}) \in {Cardinality(T), Cardinality(T) + 1}
  BY FS_AddElement
<1>2. Cardinality(S) <= Cardinality(T \cup {x})
  BY <1>1, CardLE
<1>3. Cardinality(T) \in Nat /\ Cardinality(S) \in Nat
  BY <1>1, FS_CardinalityType, FS_Subset
<1> QED
  BY <1>1, <1>2, <1>3

LEMMA BoundStep == TypeOK /\ OpenBounded /\ [Next]_vars => OpenBounded'
<1> SUFFICES ASSUME TypeOK, OpenBounded, [Next]_vars PROVE OpenBounded'
  OBVIOUS
<1> DEFINE o == Cardinality(Limited(Open))
           p == Cardinality(PastTotal)
           n == Cardinality(ConfirmRuns)
           o2 == Cardinality(Limited(Open)')
           p2 == Cardinality(PastTotal')
<1>1. RunOK /\ PosOK /\ CountsOK
  BY TypeParts, Zenon
<1>2. /\ IsFiniteSet(Limited(Open)) /\ IsFiniteSet(PastTotal)
      /\ IsFiniteSet(ConfirmRuns) /\ IsFiniteSet(Open)
      /\ o \in Nat /\ p \in Nat /\ n \in Nat /\ o2 \in Nat /\ p2 \in Nat
  BY Sizes, Sizes2, FiniteSets
<1>3. blind \in Nat /\ blind' \in {blind, blind + 1}
  BY <1>1, CountStep DEF CountsOK
<1>4. MaxOpenPositions \in Nat \ {0}
  BY EntryAssumption
<1>5. o + p <= MaxOpenPositions - 1 + n + blind
  BY Zenon DEF OpenBounded
<1>6. SUFFICES o2 + p2 <= MaxOpenPositions - 1 + n + blind'
  BY Zenon DEF OpenBounded
<1>7. Calm \/ Allowed \/ Blind \/ Moves
  BY <1>1, TotalStep
<1>8. CASE Calm
  <2>1. o2 <= o /\ p2 <= p
    BY <1>2, <1>8, CardLE DEF Calm
  <2> HIDE DEF o, p, n, o2, p2
  <2> QED
    BY <1>2, <1>3, <1>4, <1>5, <2>1, Sums
<1>9. CASE Allowed
  <2>1. Limited(Open)' \subseteq Open
    BY <1>9 DEF Allowed, Limited, Open
  <2>2. o2 <= Cardinality(Open) /\ Cardinality(Open) < MaxOpenPositions
    BY <1>2, <1>9, <2>1, CardLE DEF Allowed, BelowTotal
  <2>3. Cardinality(Open) \in Nat
    BY <1>2, FS_CardinalityType
  <2>4. p2 <= n
    BY <1>2, Sizes2, CardLE
  <2> HIDE DEF o, p, n, o2, p2
  <2>5. o2 < MaxOpenPositions
    BY <1>2, <1>4, <2>2, <2>3
  <2> QED
    BY <1>2, <1>3, <1>4, <2>4, <2>5, Sums
<1>10. CASE Blind
  <2>1. o2 <= o
    BY <1>2, <1>10 DEF Blind, Limited, Open
  <2>2. p2 <= p + 1
    BY <1>2, <1>10, CardAdd, Zenon DEF Blind
  <2>3. blind' = blind + 1
    BY <1>10, Zenon DEF Blind
  <2> HIDE DEF o, p, n, o2, p2
  <2> QED
    BY <1>2, <1>3, <1>4, <1>5, <2>1, <2>2, <2>3, Sums, ZenonT(30)
<1>11. CASE Moves
  <2>1. PICK r \in PastTotal, c \in Candidates :
          /\ PastTotal' = PastTotal \ {r}
          /\ Limited(Open)' \subseteq Limited(Open) \cup {c}
    BY <1>11, Zenon DEF Moves
  <2>2. p2 = p - 1
    BY <1>2, <2>1, FS_RemoveElement
  <2>3. o2 <= o + 1
    BY <1>2, <2>1, CardAdd
  <2> HIDE DEF o, p, n, o2, p2
  <2> QED
    BY <1>2, <1>3, <1>4, <1>5, <2>2, <2>3, Sums, ZenonT(30)
<1> QED
  BY <1>7, <1>8, <1>9, <1>10, <1>11

LEMMA BoundInit == Init => OpenBounded
<1> SUFFICES ASSUME Init PROVE OpenBounded
  OBVIOUS
<1>1. /\ Cardinality(Open) <= MaxOpenPositions /\ blind = 0
      /\ run = [r \in Runs |-> Idle]
  BY Zenon DEF Init
<1>2. PastTotal = {}
  BY <1>1 DEF PastTotal, Idle, Runs
<1>3. Limited(Open) \subseteq Open
  BY DEF Limited
<1>4. Cardinality(PastTotal) = 0
  BY <1>2, FS_EmptySet
<1>5. Cardinality(ConfirmRuns) \in Nat \ {0}
  BY EntryAssumption, Sizes, FiniteSets, FS_EmptySet
<1>6. /\ Cardinality(Limited(Open)) <= Cardinality(Open)
      /\ Cardinality(Limited(Open)) \in Nat /\ Cardinality(Open) \in Nat
  BY <1>3, Sizes, FiniteSets, CardLE
<1>7. MaxOpenPositions \in Nat
  BY EntryAssumption
<1> QED
  BY <1>1, <1>4, <1>5, <1>6, <1>7 DEF OpenBounded

\* The portfolio limit holds up to its races, whatever the number of runs.
THEOREM OpenBoundedCorrect == Spec => []OpenBounded
<1>1. Spec => [](TypeOK /\ OpenBounded)
  BY InitType, NextType, BoundInit, BoundStep, PTL DEF Spec
<1> QED
  BY <1>1, PTL

-------------------------------------------------------------------------------
(* One candidate at a time.  The two other properties need to know which   *)
(* candidate a run past a check is about: exactly one stands at "buying"   *)
(* while a run is between taking a candidate up and giving it up.          *)

Buying(s) == {c \in Candidates : s.work[c] = "buying"}

\* Where a run stands while it is about no candidate.
Resting == {"idle", "loaded", "loop"}

\* Between candidates nothing is being bought, and otherwise one of today's.
OneAtATime(s) ==
  IF s.pc \in Resting THEN Buying(s) = {} ELSE \E c \in Today : Buying(s) = {c}

OneBuying == \A r \in Runs : OneAtATime(run[r])

\* What a step makes of its run: nothing is being bought any more, or one
\* candidate is taken up.
Rests(r) == \E to : OneRun(r, to) /\ to.pc \in Resting /\ Buying(to) = {}
TakesUp(r) ==
  \E to : /\ OneRun(r, to)
          /\ to.pc \in {"held", "total", "promote"} /\ (r \in Activities => to.pc = "held")
          /\ \E c \in Today : Buying(to) = {c}

\* A check that was passed, in the light of the tables or blindly.
Passes(r, c, from, to, allowed) ==
  /\ run[r].pc = from /\ Buying(run[r]) = {c}
  /\ run' = [run EXCEPT ![r].pc = to]
  /\ \/ allowed /\ blind' = blind
     \/ blind' = blind + 1
Promotes(r, c) ==
  /\ r \in Forcers /\ Buying(run[r]) = {c} /\ run[r].pc = "promote"
  /\ run' = [run EXCEPT ![r].pc = "insert"]

\* A run is either about no candidate or somewhere in its checks.
LEMMA PcNames ==
  ASSUME NEW s \in RunStates
  PROVE  /\ s.pc \in Resting \/ s.pc \in {"held", "total", "direction", "promote", "insert"}
         /\ s.work \in [Candidates -> Stages] /\ s.puts \subseteq Candidates
BY DEF RunStates, Resting

\* What moving one candidate does to those being bought.
LEMMA MovedBuying ==
  ASSUME RunOK, NEW r \in Runs, NEW c \in Candidates, NEW stage \in Stages
  PROVE  /\ stage # "buying" => Buying(Moved(r, c, stage)) = Buying(run[r]) \ {c}
         /\ stage = "buying" => /\ Buying(Moved(r, c, stage)) = Buying(run[r]) \cup {c}
                                /\ Moved(r, c, stage).pc = "loop"
<1> DEFINE work == [run[r].work EXCEPT ![c] = stage]
           left == {d \in Candidates : work[d] # "out"}
           next == [pc |-> "loop", work |-> work, puts |-> run[r].puts \cap left]
<1>1. run[r].work \in [Candidates -> Stages]
  BY PcNames DEF RunOK
<1>2. Moved(r, c, stage) = IF left = {} THEN Idle ELSE next
  BY Zenon DEF Moved
<1>3. Buying(next) = IF stage = "buying" THEN Buying(run[r]) \cup {c} ELSE Buying(run[r]) \ {c}
  BY <1>1 DEF Buying
<1>4. Buying(next) \subseteq left /\ Buying(Idle) = {}
  BY DEF Buying, Idle
<1>5. stage = "buying" => c \in left
  BY <1>1
<1>6. next.pc = "loop"
  OBVIOUS
<1> HIDE DEF left, next
<1> QED
  BY <1>2, <1>3, <1>4, <1>5, <1>6

\* A candidate that leaves the run, or moves while nothing is being bought.
LEMMA MoveRests ==
  ASSUME RunOK, NEW r \in Runs, NEW c \in Candidates, NEW stage \in Stages \ {"buying"},
         Buying(run[r]) \subseteq {c}, Move(r, c, stage)
  PROVE  Rests(r)
<1> DEFINE to == Moved(r, c, stage)
<1>1. OneRun(r, to) /\ to.pc \in Resting
  BY MovedType DEF Move, OneRun, Resting
<1>2. Buying(to) = {}
  BY MovedBuying
<1> QED
  BY <1>1, <1>2, Zenon DEF Rests

\* Taking a candidate up makes it the only one being bought.
LEMMA TakeUpTakesUp ==
  ASSUME RunOK, NEW r \in Runs, NEW c \in Today, Buying(run[r]) = {},
         NEW pc \in {"held", "total"}, r \in Activities => pc = "held",
         run' = [run EXCEPT ![r] = [Moved(r, c, "buying") EXCEPT !.pc = pc]]
  PROVE  TakesUp(r)
<1> DEFINE from == Moved(r, c, "buying")
           to == [from EXCEPT !.pc = pc]
<1>1. c \in Candidates
  BY DEF Candidates
<1>2. from \in RunStates /\ Buying(from) = {c}
  BY <1>1, MovedType, MovedBuying, StageNames
<1> HIDE DEF from
<1>3. to \in RunStates /\ to.pc = pc /\ Buying(to) = {c}
  BY <1>2 DEF RunStates, Buying
<1>4. OneRun(r, to)
  BY <1>3 DEF OneRun, from
<1> HIDE DEF to
<1> QED
  BY <1>3, <1>4 DEF TakesUp

\* The steps that start a run,
LEMMA StartKind ==
  ASSUME RunOK, NEW r \in Runs, Start(r)
  PROVE  Rests(r) \/ TakesUp(r)
<1> DEFINE work(S, stage) == [c \in Candidates |-> IF c \in S THEN stage ELSE "out"]
<1>1. ASSUME NEW pc \in {"loaded", "loop"},
             run' = [run EXCEPT ![r] = [pc |-> pc, puts |-> BearishRows(EntryReady),
                                        work |-> work(EntryReady, "listed")]]
      PROVE  Rests(r)
  <2> DEFINE to == [pc |-> pc, puts |-> BearishRows(EntryReady), work |-> work(EntryReady, "listed")]
  <2>1. to \in RunStates /\ to.pc \in Resting
    BY DEF RunStates, Stages, BearishRows, EntryReady, Candidates, Resting
  <2>2. Buying(to) = {}
    BY DEF Buying
  <2> QED
    BY <1>1, <2>1, <2>2 DEF Rests, OneRun
<1>2. CASE r \in Activities /\ LoadEntryReady(r)
  BY <1>1, <1>2, Zenon DEF LoadEntryReady
<1>3. CASE r \in Requests /\ LoadRequest(r)
  BY <1>1, <1>3, Zenon DEF LoadRequest
<1>4. ASSUME r \in Forcers, NEW c \in Today, PickForced(r, c) PROVE TakesUp(r)
  <2> DEFINE to == [pc |-> "promote", work |-> [Idle.work EXCEPT ![c] = "buying"],
                    puts |-> BearishRows({c})]
  <2>1. to \in RunStates /\ to.pc = "promote"
    BY DEF RunStates, Stages, BearishRows, Candidates, Idle
  <2>2. Buying(to) = {c}
    BY DEF Buying, Idle, Candidates
  <2>3. r \notin Activities
    BY <1>4, EntryAssumption DEF ConfirmRuns
  <2>4. OneRun(r, to)
    BY <1>4, <2>1 DEF PickForced, OneRun
  <2> HIDE DEF to
  <2> QED
    BY <2>1, <2>2, <2>3, <2>4 DEF TakesUp
<1> QED
  BY <1>2, <1>3, <1>4 DEF Start

\* the one that shortlists,
LEMMA ShortlistRests ==
  ASSUME RunOK, NEW r \in Runs, Shortlist(r)
  PROVE  Rests(r)
<1>1. PICK list \in SUBSET (At(r, "listed") \cap AboveBar), probe \in {Reversals, {}} :
        run' = [run EXCEPT ![r] =
                 [pc |-> "loop", work |-> ShortlistOf(At(r, "listed"), list, probe),
                  puts |-> run[r].puts \cup BearishRows(probe)]]
  BY Zenon DEF Shortlist
<1> DEFINE to == [pc |-> "loop", work |-> ShortlistOf(At(r, "listed"), list, probe),
                  puts |-> run[r].puts \cup BearishRows(probe)]
<1>2. ShortlistOf(At(r, "listed"), list, probe) \in [Candidates -> Stages \ {"buying"}]
  BY DEF ShortlistOf, Stages
<1>3. run[r].puts \cup BearishRows(probe) \in SUBSET Candidates
  BY DEF RunOK, RunStates, BearishRows, Reversals, Candidates
<1>4. to \in RunStates /\ to.pc \in Resting
  BY <1>2, <1>3 DEF RunStates, Resting
<1>5. Buying(to) = {}
  BY <1>2 DEF Buying
<1> QED
  BY <1>1, <1>4, <1>5 DEF Rests, OneRun

LEMMA BuyingAt == \A r : At(r, "buying") = Buying(run[r])
BY DEF At, Buying

\* In the loop nothing is being bought; elsewhere the candidate at hand is.
LEMMA BuyingWhere ==
  ASSUME OneBuying, NEW r \in Runs
  PROVE  /\ run[r].pc = "loop" => Buying(run[r]) = {}
         /\ \A c : run[r].pc \notin Resting /\ c \in Buying(run[r]) => Buying(run[r]) = {c}
BY DEF OneBuying, OneAtATime, Resting

\* those of the activity's passes,
LEMMA PassKind ==
  ASSUME RunOK, OneBuying, NEW r \in Runs, NEW c \in Today,
         \/ r \in Activities /\ \/ Demote(r, c) \/ ProbeReversal(r, c) \/ GatherEvidence(r, c)
                                \/ RejectOnEvidence(r, c) \/ ConfirmOnEvidence(r, c)
         \/ r \in Requests /\ DecideRequest(r, c)
  PROVE  Rests(r) \/ TakesUp(r)
<1> c \in Candidates
  BY DEF Candidates
<1>0. Buying(run[r]) = {}
  BY BuyingWhere, Zenon DEF Demote, ProbeReversal, GatherEvidence, RejectOnEvidence,
     ConfirmOnEvidence, DecideRequest, NextAt
<1>1. ASSUME NEW stage \in {"out", "listed", "failed", "passed"}, Move(r, c, stage)
      PROVE  Rests(r)
  BY <1>0, <1>1, MoveRests DEF Stages
<1>2. CASE Demote(r, c) \/ ProbeReversal(r, c) \/ GatherEvidence(r, c) \/ RejectOnEvidence(r, c)
  BY <1>1, <1>2, Zenon DEF Demote, ProbeReversal, GatherEvidence, RejectOnEvidence
<1>3. CASE r \in Activities /\ ConfirmOnEvidence(r, c)
  BY <1>0, <1>3, TakeUpTakesUp DEF ConfirmOnEvidence
<1>4. CASE r \in Requests /\ DecideRequest(r, c)
  <2>1. r \notin Activities
    BY <1>4, EntryAssumption
  <2>2. CASE run' = [run EXCEPT ![r] = [Moved(r, c, "buying") EXCEPT !.pc = "total"]]
    BY <1>0, <2>1, <2>2, TakeUpTakesUp
  <2> QED
    BY <1>1, <1>4, <2>2, Zenon DEF DecideRequest
<1> QED
  BY <1>2, <1>3, <1>4

\* and the checks are steps of the kinds above.
LEMMA GateKind ==
  ASSUME RunOK, OneBuying, NEW r \in Runs, NEW c \in Today, NEW allowed, NEW to,
         NEW from \in {"held", "total", "direction"}, run[r].pc = from,
         Gate(r, c, allowed, to)
  PROVE  UNCHANGED pos /\ (Rests(r) \/ Passes(r, c, from, to, allowed))
<1>1. Buying(run[r]) = {c}
  BY BuyingWhere, BuyingAt DEF Gate, Resting
<1>2. CASE Move(r, c, "out")
  BY <1>1, <1>2, MoveRests, Zenon DEF Gate, Stages, Candidates
<1> QED
  BY <1>1, <1>2, Zenon DEF Gate, Passes

\* Every step is one of these.
Step ==
  \/ UNCHANGED <<run, pos>>
  \/ \E c \in Candidates : ClosePosition(c)
  \/ UNCHANGED pos /\ \E r \in Runs : Rests(r) \/ TakesUp(r)
  \/ UNCHANGED pos /\ \E r \in Activities, c \in Today :
       Passes(r, c, "held", "total", ~TickerHeld(c))
  \/ UNCHANGED pos /\ \E r \in ConfirmRuns, c \in Today :
       \/ Passes(r, c, "total", "direction", BelowTotal)
       \/ Passes(r, c, "direction", "insert", BelowDirection(c \in run[r].puts))
  \/ UNCHANGED pos /\ \E r \in Runs, c \in Today : Promotes(r, c)
  \/ \E r \in Runs, c \in Today :
       /\ Rests(r) /\ Inserted(r, c)
       /\ run[r].pc = "insert" /\ Buying(run[r]) = {c}

\* A step of a started run,
LEMMA ContinueKind ==
  ASSUME RunOK, OneBuying, NEW r \in Runs, Continue(r)
  PROVE  Step
<1>1. CASE r \in Activities /\ Shortlist(r)
  <2>1. UNCHANGED pos
    BY <1>1, Zenon DEF Shortlist
  <2> QED
    BY <1>1, <2>1, ShortlistRests, Zenon DEF Step
<1>2. ASSUME NEW c \in Today,
             \/ r \in Activities /\ \/ Demote(r, c) \/ ProbeReversal(r, c) \/ GatherEvidence(r, c)
                                    \/ RejectOnEvidence(r, c) \/ ConfirmOnEvidence(r, c)
             \/ r \in Requests /\ DecideRequest(r, c)
      PROVE  Step
  <2>1. UNCHANGED pos
    BY <1>2, PassLeavesPositions
  <2>2. Rests(r) \/ TakesUp(r)
    BY <1>2, PassKind
  <2> QED
    BY <2>1, <2>2, Zenon DEF Step
<1>3. ASSUME r \in Activities, NEW c \in Today, CheckHeld(r, c) PROVE Step
  <2>1. run[r].pc = "held" /\ Gate(r, c, ~TickerHeld(c), "total")
    BY <1>3, Zenon DEF CheckHeld
  <2>2. UNCHANGED pos /\ (Rests(r) \/ Passes(r, c, "held", "total", ~TickerHeld(c)))
    BY <2>1, GateKind
  <2> QED
    BY <1>3, <2>2, Zenon DEF Step
<1>4. ASSUME r \in ConfirmRuns, NEW c \in Today, CheckTotal(r, c) PROVE Step
  <2>1. run[r].pc = "total" /\ Gate(r, c, BelowTotal, "direction")
    BY <1>4, Zenon DEF CheckTotal
  <2>2. UNCHANGED pos /\ (Rests(r) \/ Passes(r, c, "total", "direction", BelowTotal))
    BY <2>1, GateKind
  <2> QED
    BY <1>4, <2>2, Zenon DEF Step
<1>5. ASSUME r \in ConfirmRuns, NEW c \in Today, CheckDirection(r, c) PROVE Step
  <2>1. run[r].pc = "direction" /\ Gate(r, c, BelowDirection(c \in run[r].puts), "insert")
    BY <1>5, Zenon DEF CheckDirection
  <2>2. \/ UNCHANGED pos /\ Rests(r)
        \/ UNCHANGED pos
             /\ Passes(r, c, "direction", "insert", BelowDirection(c \in run[r].puts))
    BY <2>1, GateKind
  <2> QED
    BY <1>5, <2>2, Zenon DEF Step
<1>6. ASSUME r \in Forcers, NEW c \in Today, PromoteForced(r, c) PROVE Step
  <2>1. UNCHANGED pos /\ run[r].pc = "promote" /\ c \in At(r, "buying")
    BY <1>6, Zenon DEF PromoteForced
  <2>2. Buying(run[r]) = {c}
    BY <2>1, BuyingWhere, BuyingAt DEF Resting
  <2>3. CASE Move(r, c, "out")
    <3>1. Rests(r)
      BY <2>2, <2>3, MoveRests DEF Stages, Candidates
    <3> QED
      BY <2>1, <3>1, Zenon DEF Step
  <2>4. CASE run' = [run EXCEPT ![r].pc = "insert"]
    BY <1>6, <2>1, <2>2, <2>4, Zenon DEF Step, Promotes
  <2> QED
    BY <1>6, <2>3, <2>4, Zenon DEF PromoteForced
<1>7. ASSUME NEW c \in Today, Buy(r, c) PROVE Step
  <2>1. run[r].pc = "insert" /\ c \in At(r, "buying") /\ Move(r, c, "out")
    BY <1>7, Zenon DEF Buy
  <2>2. Buying(run[r]) = {c}
    BY <2>1, BuyingWhere, BuyingAt DEF Resting
  <2>3. Rests(r)
    BY <2>1, <2>2, MoveRests DEF Stages, Candidates
  <2>4. UNCHANGED pos \/ Inserted(r, c)
    BY <1>7, Zenon DEF Buy, Inserted
  <2> QED
    BY <2>1, <2>2, <2>3, <2>4, Zenon DEF Step
<1> QED
  BY <1>1, <1>2, <1>3, <1>4, <1>5, <1>6, <1>7, Zenon DEF Continue

\* and any other, is of one of the kinds.
LEMMA StepKinds ==
  ASSUME RunOK, OneBuying, [Next]_vars
  PROVE  Step
<1>1. ASSUME NEW r \in Runs, Start(r) PROVE Step
  <2>1. UNCHANGED pos
    BY <1>1, Zenon DEF Start, LoadEntryReady, LoadRequest, PickForced
  <2> QED
    BY <1>1, <2>1, StartKind, Zenon DEF Step
<1>2. ASSUME NEW r \in Runs, Continue(r) PROVE Step
  BY <1>2, ContinueKind
<1>3. ASSUME NEW r \in Runs, Crash(r) PROVE Step
  <2>1. UNCHANGED pos /\ run' = [run EXCEPT ![r] = Idle]
    BY <1>3, Zenon DEF Crash
  <2>2. Idle.pc \in Resting /\ Buying(Idle) = {}
    BY DEF Idle, Resting, Buying
  <2>3. Rests(r)
    BY <2>1, <2>2, IdleType, Zenon DEF Rests, OneRun
  <2> QED
    BY <2>1, <2>3, Zenon DEF Step
<1>4. CASE \E c \in Today : Rescan(c)
  BY <1>4, Zenon DEF Rescan, Step
<1>5. CASE \E c \in Candidates : ClosePosition(c)
  BY <1>5, Zenon DEF Step
<1>6. CASE UNCHANGED vars
  BY <1>6, Zenon DEF vars, Step
<1> QED
  BY <1>1, <1>2, <1>3, <1>4, <1>5, <1>6, Zenon DEF Next

\* A run that moves on keeps its candidate and the directions it loaded.
Jumped(r, to) == [run[r] EXCEPT !.pc = to]

LEMMA JumpKeeps ==
  ASSUME RunOK, NEW r \in Runs, NEW c, NEW to \in {"total", "direction", "insert"},
         Buying(run[r]) = {c}, run' = [run EXCEPT ![r].pc = to]
  PROVE  /\ OneRun(r, Jumped(r, to)) /\ Jumped(r, to).pc = to
         /\ Buying(Jumped(r, to)) = {c} /\ Jumped(r, to).puts = run[r].puts
<1> DEFINE s == Jumped(r, to)
<1>1. run[r] \in RunStates
  BY DEF RunOK
<1>2. /\ s \in RunStates /\ s.pc = to /\ s.work = run[r].work /\ s.puts = run[r].puts
  BY <1>1 DEF RunStates, Jumped
<1>3. run' = [run EXCEPT ![r] = s]
  BY <1>1 DEF RunOK, Jumped
<1>4. Buying(s) = {c}
  BY <1>1, <1>2 DEF Buying
<1> QED
  BY <1>1, <1>2, <1>3, <1>4, Zenon DEF OneRun

\* Every step keeps OneBuying,
LEMMA OneBuyingStep ==
  ASSUME RunOK, OneBuying, [Next]_vars
  PROVE  OneBuying'
<1>1. ASSUME NEW r, NEW s, OneRun(r, s), OneAtATime(s) PROVE OneBuying'
  BY <1>1 DEF OneRun, RunOK, OneBuying
<1>2. ASSUME UNCHANGED run PROVE OneBuying'
  BY <1>2 DEF OneBuying
<1>3. ASSUME NEW r \in Runs, Rests(r) PROVE OneBuying'
  <2>1. PICK s : OneRun(r, s) /\ s.pc \in Resting /\ Buying(s) = {}
    BY <1>3, Zenon DEF Rests
  <2> QED
    BY <1>1, <2>1 DEF OneAtATime
<1>4. ASSUME NEW r \in Runs, TakesUp(r) PROVE OneBuying'
  <2>1. PICK s : /\ OneRun(r, s) /\ s.pc \in {"held", "total", "promote"}
                 /\ \E c \in Today : Buying(s) = {c}
    BY <1>4, Zenon DEF TakesUp
  <2> QED
    BY <1>1, <2>1 DEF OneAtATime, Resting
<1>5. ASSUME NEW r \in Runs, NEW c \in Today, NEW to \in {"total", "direction", "insert"},
             Buying(run[r]) = {c}, run' = [run EXCEPT ![r].pc = to]
      PROVE  OneBuying'
  <2>1. OneRun(r, Jumped(r, to)) /\ Jumped(r, to).pc = to /\ Buying(Jumped(r, to)) = {c}
    BY <1>5, JumpKeeps
  <2> QED
    BY <1>1, <2>1 DEF OneAtATime, Resting
<1>6. Activities \subseteq Runs /\ ConfirmRuns \subseteq Runs
  BY DEF Runs, ConfirmRuns
<1>7. CASE UNCHANGED <<run, pos>>
  BY <1>2, <1>7
<1>8. CASE \E c \in Candidates : ClosePosition(c)
  BY <1>2, <1>8, Zenon DEF ClosePosition
<1>9. CASE \E r \in Activities, c \in Today : Passes(r, c, "held", "total", ~TickerHeld(c))
  <2> "total" \in {"total", "direction", "insert"}
    OBVIOUS
  <2> QED
    BY <1>5, <1>6, <1>9, Zenon DEF Passes
<1>10. CASE \E r \in ConfirmRuns, c \in Today :
              \/ Passes(r, c, "total", "direction", BelowTotal)
              \/ Passes(r, c, "direction", "insert", BelowDirection(c \in run[r].puts))
  <2> "direction" \in {"total", "direction", "insert"} /\ "insert" \in {"total", "direction", "insert"}
    OBVIOUS
  <2> QED
    BY <1>5, <1>6, <1>10, Zenon DEF Passes
<1>11. CASE \E r \in Runs, c \in Today : Promotes(r, c)
  <2> "insert" \in {"total", "direction", "insert"}
    OBVIOUS
  <2> QED
    BY <1>5, <1>11, Zenon DEF Promotes
<1>12. Step
  BY StepKinds
<1> QED
  BY <1>3, <1>4, <1>7, <1>8, <1>9, <1>10, <1>11, <1>12, Zenon DEF Step

\* which holds at the start.
LEMMA OneBuyingInit == Init => OneBuying
BY DEF Init, OneBuying, OneAtATime, Resting, Idle, Buying

-------------------------------------------------------------------------------
(* The limit on positions in one direction.  The same sum as for the       *)
(* portfolio limit, per direction: a run is counted under the direction it *)
(* loaded for the candidate it is about, which is that of the row it       *)
(* inserts, whatever scans have written since.                             *)

\* A run past the check is counted under the direction it loaded.
LEMMA PastDirectionAre ==
  \A put \in BOOLEAN :
    PastDirection(put) =
      {r \in ConfirmRuns : run[r].pc = "insert" /\ (Buying(run[r]) \subseteq run[r].puts) = put}
BY BuyingAt DEF PastDirection

\* What a step of one run does to that count.
LEMMA PastDirectionStep ==
  ASSUME RunOK, NEW r, NEW s, OneRun(r, s), NEW put \in BOOLEAN
  PROVE  /\ PastDirection(put)' \subseteq PastDirection(put) \cup {r}
         /\ s.pc # "insert" => PastDirection(put)' = PastDirection(put) \ {r}
         /\ (Buying(s) \subseteq s.puts) # put => PastDirection(put)' = PastDirection(put) \ {r}
         /\ r \notin ConfirmRuns => PastDirection(put)' = PastDirection(put)
<1>1. /\ r \in Runs /\ run'[r] = s
      /\ \A q \in ConfirmRuns : q # r => run'[q] = run[q]
  BY DEF OneRun, RunOK, Runs
<1>2. PastDirection(put)' =
        {q \in ConfirmRuns : /\ run'[q].pc = "insert"
                             /\ (Buying(run'[q]) \subseteq run'[q].puts) = put}
  BY DEF PastDirection, At, Buying
<1> QED
  BY <1>1, <1>2, PastDirectionAre

\* What a step does to the two terms of the sum.
Terms(put) == Limited(OpenInDirection(put))
CalmIn(put) == PastDirection(put)' \subseteq PastDirection(put) /\ Terms(put)' \subseteq Terms(put)
AllowedIn(put) == UNCHANGED pos /\ BelowDirection(put)
BlindIn(put) == /\ UNCHANGED pos /\ blind' = blind + 1
                /\ \E r \in Runs : PastDirection(put)' \subseteq PastDirection(put) \cup {r}
MovesIn(put) == \E r \in PastDirection(put), c \in Candidates :
                  /\ PastDirection(put)' = PastDirection(put) \ {r}
                  /\ Terms(put)' \subseteq Terms(put) \cup {c}

\* Positions that stay leave their term alone.
LEMMA TermsUnchanged ==
  ASSUME UNCHANGED pos, NEW put \in BOOLEAN PROVE Terms(put)' = Terms(put)
BY DEF Terms, Limited, OpenInDirection, Open

\* An insert moves its run from one term to the other, or lowers the sum.
LEMMA InsertIn ==
  ASSUME RunOK, PosOK, NEW r \in Runs, NEW c \in Today, NEW put \in BOOLEAN,
         Rests(r), Inserted(r, c), run[r].pc = "insert", Buying(run[r]) = {c}
  PROVE  CalmIn(put) \/ MovesIn(put)
<1> c \in Candidates
  BY DEF Candidates
<1>1. PastDirection(put)' = PastDirection(put) \ {r}
  BY PastDirectionStep DEF Rests, Resting
<1>2. /\ pos'[c].put = (c \in run[r].puts) /\ pos'[c].by = Program(r)
      /\ \A d \in Candidates : d # c => pos'[d] = pos[d]
  BY DEF Inserted, PosOK
<1>3. Terms(put)' \subseteq Terms(put) \cup {c}
  BY <1>2 DEF Terms, Limited, OpenInDirection, Open
<1>4. CASE (c \in run[r].puts) # put
  <2>1. c \notin Terms(put)'
    BY <1>2, <1>4 DEF Terms, Limited, OpenInDirection
  <2> QED
    BY <1>1, <1>3, <2>1 DEF CalmIn
<1>5. CASE r \notin ConfirmRuns
  <2>1. c \notin Terms(put)'
    BY <1>2, <1>5 DEF Terms, Limited, Program, ConfirmRuns
  <2> QED
    BY <1>1, <1>3, <2>1 DEF CalmIn
<1>6. CASE (c \in run[r].puts) = put /\ r \in ConfirmRuns
  <2>1. r \in PastDirection(put)
    BY <1>6, PastDirectionAre
  <2> QED
    BY <1>1, <1>3, <2>1 DEF MovesIn
<1> QED
  BY <1>4, <1>5, <1>6

\* A passed check found room in its direction, or failed to look.
LEMMA PassIn ==
  ASSUME RunOK, NEW r \in Runs, NEW c \in Today, NEW put \in BOOLEAN, UNCHANGED pos,
         Passes(r, c, "direction", "insert", BelowDirection(c \in run[r].puts))
  PROVE  CalmIn(put) \/ AllowedIn(put) \/ BlindIn(put)
<1>0. Buying(run[r]) = {c} /\ run' = [run EXCEPT ![r].pc = "insert"]
  BY Zenon DEF Passes
<1> DEFINE s == Jumped(r, "insert")
<1>1. OneRun(r, s) /\ s.pc = "insert" /\ Buying(s) = {c} /\ s.puts = run[r].puts
  BY <1>0, JumpKeeps
<1> HIDE DEF s
<1>2. CASE (c \in run[r].puts) # put
  <2>1. PastDirection(put)' \subseteq PastDirection(put)
    BY <1>1, <1>2, PastDirectionStep
  <2> QED
    BY <2>1, TermsUnchanged DEF CalmIn
<1>3. CASE (c \in run[r].puts) = put
  <2>1. BelowDirection(put) \/ blind' = blind + 1
    BY <1>3 DEF Passes
  <2>2. PastDirection(put)' \subseteq PastDirection(put) \cup {r}
    BY <1>1, PastDirectionStep
  <2> QED
    BY <2>1, <2>2 DEF AllowedIn, BlindIn
<1> QED
  BY <1>2, <1>3

\* Every step is one of the four.
LEMMA DirectionStep ==
  ASSUME RunOK, PosOK, OneBuying, [Next]_vars, NEW put \in BOOLEAN
  PROVE  CalmIn(put) \/ AllowedIn(put) \/ BlindIn(put) \/ MovesIn(put)
<1>1. ASSUME UNCHANGED <<run, pos>> PROVE CalmIn(put)
  BY <1>1, TermsUnchanged DEF CalmIn, PastDirection, At
<1>2. ASSUME NEW c \in Candidates, ClosePosition(c) PROVE CalmIn(put)
  <2>1. Terms(put)' \subseteq Terms(put)
    BY <1>2 DEF ClosePosition, Terms, Limited, OpenInDirection, Open, PosOK, PositionRows
  <2>2. PastDirection(put)' = PastDirection(put)
    BY <1>2 DEF ClosePosition, PastDirection, At
  <2> QED
    BY <2>1, <2>2 DEF CalmIn
<1>3. ASSUME UNCHANGED pos, NEW r, NEW s, OneRun(r, s), s.pc # "insert" \/ r \notin ConfirmRuns
      PROVE  CalmIn(put)
  BY <1>3, PastDirectionStep, TermsUnchanged DEF CalmIn
<1>4. ASSUME UNCHANGED pos, NEW r \in Runs, Rests(r) \/ TakesUp(r) PROVE CalmIn(put)
  BY <1>3, <1>4 DEF Rests, TakesUp, Resting
<1>5. ASSUME UNCHANGED pos, NEW r \in Runs, NEW c \in Today, NEW from, NEW allowed,
             NEW to \in {"total", "direction"}, Passes(r, c, from, to, allowed)
      PROVE  CalmIn(put)
  <2>1. Buying(run[r]) = {c} /\ run' = [run EXCEPT ![r].pc = to]
    BY <1>5, Zenon DEF Passes
  <2>2. OneRun(r, Jumped(r, to)) /\ Jumped(r, to).pc = to
    BY <2>1, JumpKeeps
  <2> QED
    BY <1>3, <1>5, <2>2
<1>6. ASSUME UNCHANGED pos, NEW r \in Runs, NEW c \in Today, Promotes(r, c) PROVE CalmIn(put)
  <2>1. OneRun(r, Jumped(r, "insert"))
    <3>1. Buying(run[r]) = {c} /\ run' = [run EXCEPT ![r].pc = "insert"]
      BY <1>6, Zenon DEF Promotes
    <3> QED
      BY <3>1, JumpKeeps
  <2>2. r \notin ConfirmRuns
    BY <1>6, EntryAssumption DEF Promotes
  <2> QED
    BY <1>3, <1>6, <2>1, <2>2
<1>7. Activities \subseteq Runs /\ ConfirmRuns \subseteq Runs
  BY DEF Runs, ConfirmRuns
<1> QED
  BY <1>1, <1>2, <1>4, <1>5, <1>6, <1>7, InsertIn, PassIn, StepKinds DEF Step

\* The sets that are counted lie in finite ones.
LEMMA DirectionSizes ==
  ASSUME NEW put \in BOOLEAN
  PROVE  /\ Terms(put) \subseteq OpenInDirection(put) /\ OpenInDirection(put) \subseteq Candidates
         /\ PastDirection(put) \subseteq ConfirmRuns /\ ConfirmRuns \subseteq Runs
         /\ Terms(put)' \subseteq Candidates /\ PastDirection(put)' \subseteq ConfirmRuns
BY DEF Terms, Limited, OpenInDirection, Open, PastDirection, Runs

\* The bound, strengthened by the runs that will insert.
DirectionBounded(put) ==
  Cardinality(Terms(put)) + Cardinality(PastDirection(put))
    <= MaxSameDirection - 1 + Cardinality(ConfirmRuns) + blind

\* The bound is inductive in each direction,
LEMMA DirectionBoundStep ==
  ASSUME TypeOK, OneBuying, NEW put \in BOOLEAN, DirectionBounded(put), [Next]_vars
  PROVE  DirectionBounded(put)'
<1> DEFINE o == Cardinality(Terms(put))
           p == Cardinality(PastDirection(put))
           n == Cardinality(ConfirmRuns)
           o2 == Cardinality(Terms(put)')
           p2 == Cardinality(PastDirection(put)')
<1>1. RunOK /\ PosOK /\ CountsOK
  BY TypeParts, Zenon
<1>2. /\ IsFiniteSet(Terms(put)) /\ IsFiniteSet(PastDirection(put))
      /\ IsFiniteSet(ConfirmRuns) /\ IsFiniteSet(OpenInDirection(put))
      /\ o \in Nat /\ p \in Nat /\ n \in Nat /\ o2 \in Nat /\ p2 \in Nat
  BY DirectionSizes, FiniteSets
<1>3. blind \in Nat /\ blind' \in {blind, blind + 1}
  BY <1>1, CountStep DEF CountsOK
<1>4. MaxSameDirection \in Nat \ {0}
  BY EntryAssumption
<1>5. o + p <= MaxSameDirection - 1 + n + blind
  BY Zenon DEF DirectionBounded
<1>6. SUFFICES o2 + p2 <= MaxSameDirection - 1 + n + blind'
  BY Zenon DEF DirectionBounded
<1>7. CalmIn(put) \/ AllowedIn(put) \/ BlindIn(put) \/ MovesIn(put)
  BY <1>1, DirectionStep
<1>8. CASE CalmIn(put)
  <2>1. o2 <= o /\ p2 <= p
    BY <1>2, <1>8, CardLE DEF CalmIn
  <2> HIDE DEF o, p, n, o2, p2
  <2> QED
    BY <1>2, <1>3, <1>4, <1>5, <2>1, Sums
<1>9. CASE AllowedIn(put)
  <2>1. Terms(put)' \subseteq OpenInDirection(put)
    BY <1>9, TermsUnchanged, DirectionSizes DEF AllowedIn
  <2>2. /\ o2 <= Cardinality(OpenInDirection(put))
        /\ Cardinality(OpenInDirection(put)) < MaxSameDirection
    BY <1>2, <1>9, <2>1, CardLE DEF AllowedIn, BelowDirection
  <2>3. Cardinality(OpenInDirection(put)) \in Nat
    BY <1>2, FS_CardinalityType
  <2>4. p2 <= n
    BY <1>2, DirectionSizes, CardLE
  <2> HIDE DEF o, p, n, o2, p2
  <2>5. o2 < MaxSameDirection
    BY <1>2, <1>4, <2>2, <2>3
  <2> QED
    BY <1>2, <1>3, <1>4, <2>4, <2>5, Sums
<1>10. CASE BlindIn(put)
  <2>1. o2 = o
    BY <1>10, TermsUnchanged DEF BlindIn
  <2>2. p2 <= p + 1
    BY <1>2, <1>10, CardAdd, Zenon DEF BlindIn
  <2>3. blind' = blind + 1
    BY <1>10, Zenon DEF BlindIn
  <2> HIDE DEF o, p, n, o2, p2
  <2>4. o2 <= o
    BY <1>2, <2>1
  <2> QED
    BY <1>2, <1>3, <1>4, <1>5, <2>2, <2>3, <2>4, Sums, ZenonT(30)
<1>11. CASE MovesIn(put)
  <2>1. PICK r \in PastDirection(put), c \in Candidates :
          /\ PastDirection(put)' = PastDirection(put) \ {r}
          /\ Terms(put)' \subseteq Terms(put) \cup {c}
    BY <1>11, Zenon DEF MovesIn
  <2>2. p2 = p - 1
    BY <1>2, <2>1, FS_RemoveElement
  <2>3. o2 <= o + 1
    BY <1>2, <2>1, CardAdd
  <2> HIDE DEF o, p, n, o2, p2
  <2> QED
    BY <1>2, <1>3, <1>4, <1>5, <2>2, <2>3, Sums, ZenonT(30)
<1> QED
  BY <1>7, <1>8, <1>9, <1>10, <1>11

\* holds at the start,
LEMMA DirectionBoundInit ==
  ASSUME Init, NEW put \in BOOLEAN
  PROVE  DirectionBounded(put)
<1>1. /\ Cardinality(OpenInDirection(put)) <= MaxSameDirection /\ blind = 0
      /\ run = [r \in Runs |-> Idle]
  BY DEF Init
<1>2. PastDirection(put) = {}
  BY <1>1 DEF PastDirection, Idle, Runs
<1>3. Cardinality(PastDirection(put)) = 0
  BY <1>2, FS_EmptySet
<1>4. Cardinality(ConfirmRuns) \in Nat \ {0}
  BY EntryAssumption, DirectionSizes, FiniteSets, FS_EmptySet
<1>5. /\ Cardinality(Terms(put)) <= Cardinality(OpenInDirection(put))
      /\ Cardinality(Terms(put)) \in Nat /\ Cardinality(OpenInDirection(put)) \in Nat
  BY DirectionSizes, FiniteSets, CardLE
<1>6. MaxSameDirection \in Nat
  BY EntryAssumption
<1> QED
  BY <1>1, <1>3, <1>4, <1>5, <1>6 DEF DirectionBounded

\* and in both directions together is the property.
LEMMA SameDirectionParts == SameDirectionBounded <=> \A put \in BOOLEAN : DirectionBounded(put)
BY Zenon DEF SameDirectionBounded, DirectionBounded, Terms

\* The limit on positions in one direction holds up to its races, whatever the
\* number of runs and however often scans turn a row around.
THEOREM SameDirectionBoundedCorrect == Spec => []SameDirectionBounded
<1> DEFINE IInv == TypeOK /\ OneBuying /\ SameDirectionBounded
<1>1. Init => IInv
  BY InitType, OneBuyingInit, DirectionBoundInit, SameDirectionParts, Zenon
<1>2. IInv /\ [Next]_vars => IInv'
  <2> SUFFICES ASSUME IInv, [Next]_vars PROVE IInv'
    OBVIOUS
  <2>1. TypeOK' /\ OneBuying'
    BY NextType, OneBuyingStep, TypeParts, Zenon
  <2>2. \A put \in BOOLEAN : DirectionBounded(put)'
    BY DirectionBoundStep, SameDirectionParts, Zenon
  <2>3. SameDirectionBounded'
    BY <2>2, Zenon DEF SameDirectionBounded, DirectionBounded, Terms
  <2> QED
    BY <2>1, <2>3
<1> QED
  BY <1>1, <1>2, PTL DEF Spec

-------------------------------------------------------------------------------
(* No second position of a ticker.  While no limit query has failed, an    *)
(* activity that is past its check for a held ticker knows that no other   *)
(* row of the ticker is open: the check found none, and what anyone has    *)
(* inserted since is a row of today, of which the ticker has only one.     *)

\* No other row of c's ticker is open.
OnlyOpen(c) == \A d \in Open : TickerOf[d] = TickerOf[c] => d = c

\* What an activity past its check knows.
HeldChecked ==
  blind = 0 =>
    \A a \in Activities, c \in Today :
      Buying(run[a]) = {c} /\ run[a].pc \in {"total", "direction", "insert"} => OnlyOpen(c)

\* The activity only opens rows of today.
ActivityRows == \A c \in Candidates : pos[c].by = "activity" => c \in Today

\* A step opens none but rows of today,
LEMMA OpenStep ==
  ASSUME PosOK, RunOK, OneBuying, [Next]_vars
  PROVE  Open' \subseteq Open \cup Today
<1>1. ASSUME UNCHANGED pos PROVE Open' = Open
  BY <1>1 DEF Open
<1>2. ASSUME NEW c \in Candidates, ClosePosition(c) PROVE Open' \subseteq Open
  BY <1>2 DEF ClosePosition, Open, PosOK
<1>3. ASSUME NEW r, NEW c \in Today, Inserted(r, c) PROVE Open' \subseteq Open \cup Today
  BY <1>3 DEF Inserted, Open, PosOK
<1>4. Step
  BY StepKinds
<1> QED
  BY <1>1, <1>2, <1>3, <1>4 DEF Step

\* so what the check found stays true.
LEMMA OnlyOpenStep ==
  ASSUME PosOK, RunOK, OneBuying, [Next]_vars, NEW c \in Today, OnlyOpen(c)
  PROVE  OnlyOpen(c)'
BY OpenStep, EntryAssumption DEF OnlyOpen

\* A run that jumps within its checks keeps its candidate, the others stay.
LEMMA JumpOnly ==
  ASSUME RunOK, NEW r \in Runs, NEW c, NEW to \in {"total", "direction", "insert"},
         Buying(run[r]) = {c}, run' = [run EXCEPT ![r].pc = to]
  PROVE  \A a \in Runs : run'[a] = run[a] \/ (r = a /\ Buying(run'[a]) = {c})
<1>1. OneRun(r, Jumped(r, to)) /\ Jumped(r, to).pc = to /\ Buying(Jumped(r, to)) = {c}
  BY JumpKeeps
<1>2. PICK s : OneRun(r, s) /\ Buying(s) = {c}
  BY <1>1, Zenon
<1> QED
  BY <1>2 DEF OneRun, RunOK

\* Where an activity stands that is past the check after a step.
LEMMA PastHeldStep ==
  ASSUME PosOK, RunOK, OneBuying, CountsOK, [Next]_vars, blind' = blind,
         NEW a \in Activities, NEW c \in Today,
         Buying(run'[a]) = {c}, run'[a].pc \in {"total", "direction", "insert"}
  PROVE  \/ Buying(run[a]) = {c} /\ run[a].pc \in {"total", "direction", "insert"}
         \/ UNCHANGED pos /\ ~TickerHeld(c)
<1> DEFINE Past(s) == s.pc \in {"total", "direction", "insert"}
           Before == Buying(run[a]) = {c} /\ Past(run[a])
<1>1. a \in Runs
  BY DEF Runs, ConfirmRuns
<1>2. ASSUME run'[a] = run[a] PROVE Before
  BY <1>2
<1>3. ASSUME NEW r, NEW s, OneRun(r, s), ~Past(s) PROVE Before
  BY <1>1, <1>2, <1>3 DEF OneRun, RunOK
<1>4. CASE UNCHANGED <<run, pos>>
  BY <1>2, <1>4
<1>5. CASE \E d \in Candidates : ClosePosition(d)
  BY <1>2, <1>5, Zenon DEF ClosePosition
<1>6. ASSUME NEW r \in Runs, Rests(r) PROVE Before
  <2>1. PICK s : OneRun(r, s) /\ s.pc \in Resting
    BY <1>6, Zenon DEF Rests
  <2>2. ~Past(s)
    BY <2>1 DEF Resting
  <2> QED
    BY <1>3, <2>1, <2>2, Zenon
<1>7. ASSUME NEW r \in Runs, TakesUp(r) PROVE Before
  <2>1. PICK s : OneRun(r, s) /\ (r \in Activities => s.pc = "held")
    BY <1>7, Zenon DEF TakesUp
  <2> QED
    BY <1>1, <1>2, <2>1 DEF OneRun, RunOK
<1>8. ASSUME NEW r \in Runs, NEW d \in Today, NEW to \in {"total", "direction", "insert"},
             Buying(run[r]) = {d}, run' = [run EXCEPT ![r].pc = to]
      PROVE  run'[a] = run[a] \/ (r = a /\ d = c /\ Buying(run[a]) = {c})
  <2>1. \A q \in Runs : run'[q] = run[q] \/ (r = q /\ Buying(run'[q]) = {d})
    BY <1>8, JumpOnly
  <2>2. {d} = {c} => d = c
    OBVIOUS
  <2> QED
    BY <1>1, <1>8, <2>1, <2>2, Zenon
<1>9. ASSUME UNCHANGED pos, NEW r \in Activities, NEW d \in Today,
             Passes(r, d, "held", "total", ~TickerHeld(d))
      PROVE  Before \/ ~TickerHeld(c)
  <2>1. /\ r \in Runs /\ Buying(run[r]) = {d} /\ run' = [run EXCEPT ![r].pc = "total"]
        /\ ~TickerHeld(d) \/ blind' = blind + 1
    BY <1>9 DEF Passes, Runs, ConfirmRuns
  <2>2. blind' # blind + 1
    BY DEF CountsOK
  <2>3. "total" \in {"total", "direction", "insert"}
    OBVIOUS
  <2>4. run'[a] = run[a] \/ (r = a /\ d = c /\ Buying(run[a]) = {c})
    BY <1>1, <1>8, <2>1, <2>3, Zenon
  <2> QED
    BY <1>2, <1>9, <2>1, <2>2, <2>4, Zenon
<1>10. ASSUME NEW r \in Runs, NEW d \in Today,
              NEW from \in {"total", "direction"}, NEW to \in {"direction", "insert"},
              NEW allowed, Passes(r, d, from, to, allowed)
       PROVE  Before
  <2>1. /\ Buying(run[r]) = {d} /\ run' = [run EXCEPT ![r].pc = to] /\ run[r].pc = from
    BY <1>10, Zenon DEF Passes
  <2> QED
    BY <1>2, <1>8, <2>1
<1>11. ASSUME NEW r \in Runs, NEW d \in Today, Promotes(r, d) PROVE Before
  <2>1. /\ Buying(run[r]) = {d} /\ run' = [run EXCEPT ![r].pc = "insert"] /\ r \in Forcers
    BY <1>11, Zenon DEF Promotes
  <2>2. r # a
    BY <2>1, EntryAssumption DEF ConfirmRuns
  <2> QED
    BY <1>2, <1>8, <2>1, <2>2
<1>12. Step /\ ConfirmRuns \subseteq Runs
  BY StepKinds DEF Runs
<1>13. CASE \E r \in ConfirmRuns, d \in Today :
              \/ Passes(r, d, "total", "direction", BelowTotal)
              \/ Passes(r, d, "direction", "insert", BelowDirection(d \in run[r].puts))
  <2> /\ "total" \in {"total", "direction"} /\ "direction" \in {"total", "direction"}
      /\ "direction" \in {"direction", "insert"} /\ "insert" \in {"direction", "insert"}
    OBVIOUS
  <2> QED
    BY <1>10, <1>12, <1>13, Zenon
<1>14. CASE UNCHANGED pos /\ \E r \in Activities, d \in Today :
                               Passes(r, d, "held", "total", ~TickerHeld(d))
  BY <1>9, <1>14, Zenon
<1> QED
  BY <1>4, <1>5, <1>6, <1>7, <1>11, <1>12, <1>13, <1>14, Zenon DEF Step

\* Every step keeps HeldChecked,
LEMMA HeldCheckedStep ==
  ASSUME TypeOK, OneBuying, HeldChecked, [Next]_vars
  PROVE  HeldChecked'
<1>0. PosOK /\ RunOK /\ CountsOK
  BY TypeParts, Zenon
<1>1. SUFFICES ASSUME blind' = 0, NEW a \in Activities, NEW c \in Today,
                      Buying(run'[a]) = {c}, run'[a].pc \in {"total", "direction", "insert"}
               PROVE  OnlyOpen(c)'
  BY Zenon DEF HeldChecked, Buying
<1>2. blind = 0 /\ blind' = blind
  BY <1>0, <1>1, CountStep DEF CountsOK
<1>3. CASE Buying(run[a]) = {c} /\ run[a].pc \in {"total", "direction", "insert"}
  BY <1>0, <1>2, <1>3, OnlyOpenStep, Zenon DEF HeldChecked
<1>4. CASE UNCHANGED pos /\ ~TickerHeld(c)
  BY <1>4 DEF OnlyOpen, TickerHeld, Open
<1> QED
  BY <1>0, <1>1, <1>2, <1>3, <1>4, PastHeldStep, Zenon

\* and what it says makes every insert of an activity the only open row.
LEMMA ActivityStep ==
  ASSUME TypeOK, OneBuying, HeldChecked, ActivityRows, ActivityNeverDoubles, [Next]_vars
  PROVE  ActivityRows' /\ ActivityNeverDoubles'
<1>0. PosOK /\ RunOK /\ CountsOK
  BY TypeParts, Zenon
<1>1. blind' = 0 => blind = 0
  BY <1>0, CountStep DEF CountsOK
<1>2. CASE UNCHANGED pos
  BY <1>1, <1>2 DEF ActivityRows, ActivityNeverDoubles, Open
<1>3. ASSUME NEW c \in Candidates, ClosePosition(c)
      PROVE  ActivityRows' /\ ActivityNeverDoubles'
  <2>1. /\ \A d \in Candidates : pos'[d].by = pos[d].by
        /\ Open' \subseteq Open
    BY <1>0, <1>3 DEF ClosePosition, Open, PosOK, PositionRows
  <2>2. Open \subseteq Candidates
    BY DEF Open
  <2> QED
    BY <1>1, <2>1, <2>2 DEF ActivityRows, ActivityNeverDoubles
<1>4. ASSUME NEW r \in Runs, NEW c \in Today, Inserted(r, c),
             run[r].pc = "insert", Buying(run[r]) = {c}
      PROVE  ActivityRows' /\ ActivityNeverDoubles'
  <2>1. /\ c \in Candidates
        /\ pos'[c].by = Program(r)
        /\ \A d \in Candidates : d # c => pos'[d] = pos[d]
    BY <1>0, <1>4 DEF Inserted, PosOK, Candidates
  <2>2. Open \subseteq Candidates /\ Open' \subseteq Open \cup {c}
    BY <1>0, <2>1 DEF Open
  <2>3. ActivityRows'
    BY <2>1, <1>4 DEF ActivityRows
  <2>4. ASSUME blind' = 0, NEW d \in Open', NEW e \in Open', pos'[d].by = "activity",
               TickerOf[e] = TickerOf[d]
        PROVE  d = e
    <3>1. d \in Today /\ blind = 0
      BY <1>1, <2>2, <2>3, <2>4, Zenon DEF ActivityRows, Open
    <3>2. CASE e \in Today
      BY <2>4, <3>1, <3>2, EntryAssumption
    <3>3. CASE e # c /\ d # c
      BY <2>1, <2>2, <2>4, <3>1, <3>3 DEF ActivityNeverDoubles
    <3>4. CASE e # c /\ d = c
      <4>1. r \in Activities
        BY <2>1, <2>4, <3>4 DEF Program
      <4>2. OnlyOpen(c)
        BY <1>4, <3>1, <4>1 DEF HeldChecked
      <4> QED
        BY <2>2, <2>4, <3>4, <4>2 DEF OnlyOpen
    <3> QED
      BY <1>4, <3>2, <3>3, <3>4
  <2>5. ActivityNeverDoubles'
    BY <2>4, Zenon DEF ActivityNeverDoubles
  <2> QED
    BY <2>3, <2>5
<1>5. Step
  BY <1>0, StepKinds
<1> QED
  BY <1>2, <1>3, <1>4, <1>5, Zenon DEF Step

\* While no query for a held ticker and no limit query fails, a row the activity
\* opened is the only open one of its ticker: whatever the other programs insert
\* meanwhile and whichever executions of the activity overlap.
THEOREM ActivityNeverDoublesCorrect == Spec => []ActivityNeverDoubles
<1> DEFINE IInv == TypeOK /\ OneBuying /\ HeldChecked /\ ActivityRows /\ ActivityNeverDoubles
<1>1. Init => IInv
  <2> SUFFICES ASSUME Init PROVE IInv
    OBVIOUS
  <2>1. TypeOK /\ OneBuying
    BY InitType, OneBuyingInit, Zenon
  <2>2. /\ pos \in [Candidates -> {NoPosition} \cup
                     [status : {"open"}, put : BOOLEAN, by : {"earlier"}]]
        /\ run = [r \in Runs |-> Idle]
    BY Zenon DEF Init
  <2>3. \A c \in Candidates : pos[c].by # "activity"
    BY <2>2 DEF NoPosition
  <2>4. \A a \in Activities : run[a].pc = "idle"
    BY <2>2 DEF Idle, Runs, ConfirmRuns
  <2> QED
    BY <2>1, <2>3, <2>4 DEF HeldChecked, ActivityRows, ActivityNeverDoubles, Open
<1>2. IInv /\ [Next]_vars => IInv'
  BY NextType, OneBuyingStep, TypeParts, HeldCheckedStep, ActivityStep, Zenon
<1> QED
  BY <1>1, <1>2, PTL DEF Spec
===============================================================================
