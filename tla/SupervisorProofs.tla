--------------------------- MODULE SupervisorProofs ---------------------------
(* A clean exit of the supervisor leaves no child behind, for any number of    *)
(* restarts.                                                                   *)
EXTENDS Supervisor, TLAPS

\* The two halves of TypeOK: the flags, and what is kept of each child.
FlagsOK ==
  /\ main \in {"await ready", "running", "waiting"} \cup Ended
  /\ ctxDone \in BOOLEAN
  /\ ready \in BOOLEAN
  /\ probing \in BOOLEAN

ChildrenOK ==
  /\ runner \in [Children -> {"absent", "loop", "delay", "start", "run", "term", "kill", "returned"}]
  /\ attempt \in [Children -> 0..MaxRestarts]
  /\ proc \in [Children -> {"none", "up", "ended"}]

\* A child process belongs to a goroutine that has not let go of it, and main
\* returns only after every goroutine has, starting the worker's last; an attempt
\* under way is one of the MaxRestarts allowed.
Owned ==
  /\ \A c \in Children : proc[c] # "none" => runner[c] \in {"run", "term", "kill"}
  /\ \A c \in Children :
       runner[c] \in {"delay", "start", "run"} => attempt[c] < MaxRestarts
  /\ main = "await ready" => runner["worker"] = "absent"
  /\ main = "exited" => AllReturned

\* The inductive invariant: CleanExitLeavesNoChild follows from Owned.
IInv == ChildrenOK /\ Owned

LEMMA FlagsStep == FlagsOK /\ [Next]_vars => FlagsOK'
<1> SUFFICES ASSUME FlagsOK, [Next]_vars PROVE FlagsOK'
  OBVIOUS
<1> USE DEF FlagsOK, Ended
<1>1. CASE Signal
  BY <1>1, Zenon DEF Signal
<1>2. CASE MainStep
  BY <1>2, Zenon DEF MainStep, StartWorker, BeginShutdown, Exit
<1>3. CASE ProbeReturns
  BY <1>3, Zenon DEF ProbeReturns
<1>4. ASSUME NEW c \in Children, RunnerStep(c) PROVE FlagsOK'
  <2>1. CASE LoopHead(c)
    BY <2>1, Zenon DEF LoopHead
  <2>2. CASE Backoff(c)
    BY <2>2, Zenon DEF Backoff, RunnerOnly
  <2>3. CASE StartChild(c)
    BY <2>3, Zenon DEF StartChild
  <2>4. CASE ReapChild(c)
    BY <2>4, Zenon DEF ReapChild
  <2>5. CASE SendTerm(c) \/ TermTimeout(c)
    BY <2>5, Zenon DEF SendTerm, TermTimeout, RunnerOnly
  <2>6. CASE ReapStopped(c)
    BY <2>6, Zenon DEF ReapStopped
  <2> QED
    BY <1>4, <2>1, <2>2, <2>3, <2>4, <2>5, <2>6 DEF RunnerStep
<1>5. ASSUME NEW c \in Children, ChildEnds(c) PROVE FlagsOK'
  BY <1>5, Zenon DEF ChildEnds
<1>6. CASE UNCHANGED vars
  BY <1>6, Zenon DEF vars
<1> QED
  BY <1>1, <1>2, <1>3, <1>4, <1>5, <1>6 DEF Next

LEMMA AttemptArithmetic ==
  \A n \in 0..MaxRestarts :
    /\ ~(n >= MaxRestarts) => n < MaxRestarts
    /\ n < MaxRestarts => n + 1 \in 0..MaxRestarts
BY SupervisorAssumption

LEMMA InitIInv == Init => IInv
<1> SUFFICES ASSUME Init PROVE IInv
  OBVIOUS
<1>1. ChildrenOK
  <2>1. attempt = [c \in Children |-> 0]
    BY Zenon DEF Init
  <2>2. attempt \in [Children -> 0..MaxRestarts]
    BY <2>1, SupervisorAssumption
  <2> QED
    BY <2>2 DEF Init, ChildrenOK
<1>2. Owned
  <2>1. runner = [c \in Children |-> IF c = "server" THEN "loop" ELSE "absent"]
    BY Zenon DEF Init
  <2>2. main = "await ready" /\ proc = [c \in Children |-> "none"]
    BY Zenon DEF Init
  <2> QED
    BY <2>1, <2>2 DEF Owned, Children
<1> QED
  BY <1>1, <1>2 DEF IInv

\* Only LoopHead and Exit end main; LoopHead and Backoff lead to another
\* attempt, StartChild and the two reaps change what a goroutine owns.
LEMMA NextIInv == IInv /\ [Next]_vars => IInv'
<1> SUFFICES ASSUME IInv, [Next]_vars PROVE IInv'
  OBVIOUS
<1> "worker" \in Children
  BY DEF Children
<1> USE SupervisorAssumption DEF IInv, ChildrenOK, Owned, AllReturned, Goto
<1>1. CASE Signal
  BY <1>1 DEF Signal
<1>2. CASE StartWorker
  <2>1. /\ main' = "running"
        /\ runner' = [runner EXCEPT !["worker"] = "loop"]
        /\ attempt' = attempt /\ proc' = proc
    BY <1>2, Zenon DEF StartWorker, Goto
  <2>2. main = "await ready"
    BY <1>2, Zenon DEF StartWorker
  <2> QED
    BY <2>1, <2>2
<1>3. CASE BeginShutdown
  BY <1>3 DEF BeginShutdown
<1>4. CASE Exit
  BY <1>4 DEF Exit
<1>5. CASE ProbeReturns
  BY <1>5 DEF ProbeReturns
<1>6. ASSUME NEW c \in Children, RunnerStep(c) PROVE IInv'
  <2> main # "exited"
    BY <1>6 DEF RunnerStep, Alive, Ended
  <2>1. CASE LoopHead(c)
    <3>1. runner[c] = "loop" /\ attempt' = attempt /\ proc' = proc
      BY <2>1, Zenon DEF LoopHead
    <3>2. \/ Goto(c, "returned") /\ main' = main
          \/ main' = "gave up" /\ runner' = runner
          \/ /\ ~(attempt[c] >= MaxRestarts)
             /\ Goto(c, IF attempt[c] > 0 THEN "delay" ELSE "start")
             /\ main' = main
      BY <2>1, Zenon DEF LoopHead, AttemptsUsed
    <3>3. CASE ~(attempt[c] >= MaxRestarts)
      <4>1. attempt[c] < MaxRestarts
        <5>1. attempt[c] \in 0..MaxRestarts
          OBVIOUS
        <5> QED
          BY <3>3, <5>1, AttemptArithmetic, Zenon
      <4>2. PICK place \in {"delay", "start"} :
              Goto(c, IF attempt[c] > 0 THEN "delay" ELSE "start") <=> Goto(c, place)
        BY Zenon
      <4> QED
        BY <3>1, <3>2, <4>1, <4>2
    <3>4. CASE attempt[c] >= MaxRestarts
      BY <3>1, <3>2, <3>4
    <3> QED
      BY <3>3, <3>4
  <2>2. CASE Backoff(c)
    BY <2>2 DEF Backoff, RunnerOnly
  <2>3. CASE StartChild(c)
    <3>1. runner[c] = "start" /\ main' = main
      BY <2>3, Zenon DEF StartChild
    <3>2. \/ /\ Goto(c, "run")
             /\ proc' = [proc EXCEPT ![c] = "up"]
             /\ attempt' = attempt
          \/ /\ Goto(c, "loop")
             /\ proc' = proc
             /\ attempt' = [attempt EXCEPT ![c] = @ + 1]
      BY <2>3, Zenon DEF StartChild
    <3>3. attempt[c] + 1 \in 0..MaxRestarts
      <4>1. attempt[c] \in 0..MaxRestarts /\ attempt[c] < MaxRestarts
        BY <3>1
      <4> QED
        BY <4>1, AttemptArithmetic, Zenon
    <3> QED
      BY <3>1, <3>2, <3>3, ZenonT(30)
  <2>4. CASE ReapChild(c)
    <3>1. /\ runner[c] = "run" /\ main' = main
          /\ proc' = [proc EXCEPT ![c] = "none"]
      BY <2>4, Zenon DEF ReapChild
    <3>2. \/ Goto(c, "returned") /\ attempt' = attempt
          \/ Goto(c, "loop") /\ attempt' = [attempt EXCEPT ![c] = @ + 1]
      BY <2>4, Zenon DEF ReapChild
    <3>3. attempt[c] + 1 \in 0..MaxRestarts
      <4>1. attempt[c] \in 0..MaxRestarts /\ attempt[c] < MaxRestarts
        BY <3>1
      <4> QED
        BY <4>1, AttemptArithmetic, Zenon
    <3> QED
      BY <3>1, <3>2, <3>3, ZenonT(30)
  <2>5. CASE SendTerm(c)
    BY <2>5 DEF SendTerm, RunnerOnly
  <2>6. CASE TermTimeout(c)
    BY <2>6 DEF TermTimeout, RunnerOnly
  <2>7. CASE ReapStopped(c)
    BY <2>7 DEF ReapStopped
  <2> QED
    BY <1>6, <2>1, <2>2, <2>3, <2>4, <2>5, <2>6, <2>7 DEF RunnerStep
<1>7. ASSUME NEW c \in Children, ChildEnds(c) PROVE IInv'
  BY <1>7 DEF ChildEnds
<1>8. CASE UNCHANGED vars
  BY <1>8 DEF vars
<1> QED
  BY <1>1, <1>2, <1>3, <1>4, <1>5, <1>6, <1>7, <1>8 DEF Next, MainStep

\* The types of the supervisor's state hold throughout: in particular no child
\* is ever attempted more than MaxRestarts times.
THEOREM SupervisorTypeCorrect == Spec => []TypeOK
<1>1. Init => FlagsOK
  BY Zenon DEF Init, FlagsOK
<1>2. FlagsOK /\ IInv => TypeOK
  BY Zenon DEF FlagsOK, IInv, ChildrenOK, TypeOK
<1> QED
  BY <1>1, <1>2, FlagsStep, InitIInv, NextIInv, PTL DEF Spec

\* No child outlives a supervisor that exits after a signal.
THEOREM CleanExit == Spec => []CleanExitLeavesNoChild
<1>1. IInv => CleanExitLeavesNoChild
  BY DEF IInv, ChildrenOK, Owned, AllReturned, CleanExitLeavesNoChild
<1> QED
  BY <1>1, InitIInv, NextIInv, PTL DEF Spec
===============================================================================
