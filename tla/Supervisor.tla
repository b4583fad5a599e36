------------------------------ MODULE Supervisor ------------------------------
(***************************************************************************)
(* cmd/supervisor: one process that owns the server and the worker.  main  *)
(* and one runProcess goroutine per child take steps of their own; so do   *)
(* the signal handler and the health probe.  The children are external:    *)
(* they may exit at any time and may ignore SIGTERM, not SIGKILL.          *)
(* Everything before the children (build, Docker, ports) blocks or ends    *)
(* the process without a child and is left out.                            *)
(***************************************************************************)
EXTENDS Naturals

CONSTANT MaxRestarts  \* maxRestarts

ASSUME SupervisorAssumption == MaxRestarts \in Nat \ {0}

Children == {"server", "worker"}

VARIABLES
  main,      \* where main stands; "exited" after its return, "gave up" after os.Exit
  ctxDone,   \* the context is cancelled
  ready,     \* serverReady is closed
  probing,   \* a waitHealth goroutine runs
  runner,    \* where each runProcess stands
  attempt,   \* its loop variable
  proc       \* the operating system's process of each child

vars == <<main, ctxDone, ready, probing, runner, attempt, proc>>

Ended == {"exited", "gave up"}

TypeOK ==
  /\ main \in {"await ready", "running", "waiting"} \cup Ended
  /\ ctxDone \in BOOLEAN
  /\ ready \in BOOLEAN
  /\ probing \in BOOLEAN
  /\ runner \in [Children -> {"absent", "loop", "delay", "start", "run", "term", "kill", "returned"}]
  /\ attempt \in [Children -> 0..MaxRestarts]
  /\ proc \in [Children -> {"none", "up", "ended"}]

\* main has just spawned the server's goroutine.
Init ==
  /\ main = "await ready"
  /\ ctxDone = FALSE
  /\ ready = FALSE
  /\ probing = FALSE
  /\ runner = [c \in Children |-> IF c = "server" THEN "loop" ELSE "absent"]
  /\ attempt = [c \in Children |-> 0]
  /\ proc = [c \in Children |-> "none"]

Alive == main \notin Ended

\* A step of c's goroutine to another place in runProcess.
Goto(c, place) == runner' = [runner EXCEPT ![c] = place]
RunnerOnly(c)  == UNCHANGED <<main, ctxDone, ready, probing, attempt, proc>>

-------------------------------------------------------------------------------
(* main and the signal handler.                                            *)

\* The first SIGTERM or SIGINT cancels the context; later ones are swallowed.
Signal ==
  /\ Alive
  /\ ctxDone' = TRUE
  /\ UNCHANGED <<main, ready, probing, runner, attempt, proc>>

\* The select of main: with both channels ready either branch may be taken.
StartWorker ==
  /\ main = "await ready"
  /\ ready
  /\ main' = "running"
  /\ Goto("worker", "loop")
  /\ UNCHANGED <<ctxDone, ready, probing, attempt, proc>>

BeginShutdown ==
  /\ main \in {"await ready", "running"}
  /\ ctxDone
  /\ main' = "waiting"
  /\ UNCHANGED <<ctxDone, ready, probing, runner, attempt, proc>>

\* Mutant of AllReturned: the worker is not waited for.
ServerReturned == runner["server"] = "returned"

\* wg.Wait.
AllReturned == \A c \in Children : runner[c] \in {"absent", "returned"}

Exit ==
  /\ main = "waiting"
  /\ AllReturned
  /\ main' = "exited"
  /\ UNCHANGED <<ctxDone, ready, probing, runner, attempt, proc>>

\* waitHealth returns on a 200, or when its thirty seconds have passed between
\* two requests; the first one to return closes serverReady.  A request has no
\* timeout of its own: one that a server accepts and never answers keeps its
\* waitHealth from returning.
ProbeReturns ==
  /\ Alive
  /\ probing
  /\ ready' = TRUE
  /\ probing' = FALSE
  /\ UNCHANGED <<main, ctxDone, runner, attempt, proc>>

-------------------------------------------------------------------------------
(* runProcess.                                                             *)

\* Mutant of AttemptsUsed: one more.
AttemptsPassed(c) == attempt[c] > MaxRestarts

AttemptsUsed(c) == attempt[c] >= MaxRestarts

\* The head of the loop.
LoopHead(c) ==
  /\ runner[c] = "loop"
  /\ \/ ctxDone /\ Goto(c, "returned") /\ UNCHANGED main
     \/ /\ ~ctxDone /\ AttemptsUsed(c)
        /\ main' = "gave up"                       \* os.Exit(1)
        /\ UNCHANGED runner
     \/ /\ ~ctxDone /\ ~AttemptsUsed(c)
        /\ Goto(c, IF attempt[c] > 0 THEN "delay" ELSE "start")
        /\ UNCHANGED main
  /\ UNCHANGED <<ctxDone, ready, probing, attempt, proc>>

\* The backoff, cut short by the shutdown.
Backoff(c) ==
  /\ runner[c] = "delay"
  /\ Goto(c, "start") \/ (ctxDone /\ Goto(c, "returned"))
  /\ RunnerOnly(c)

\* Mutant of Probes: only the first attempt is probed.
ProbesFirst(c) == c = "server" /\ attempt[c] = 0

Probes(c) == c = "server"

\* Open the log file and start the binary; a failure counts as an attempt.
StartChild(c) ==
  /\ runner[c] = "start"
  /\ \/ /\ Goto(c, "run")
        /\ proc' = [proc EXCEPT ![c] = "up"]
        /\ probing' = (probing \/ (Probes(c) /\ ~ready))
        /\ UNCHANGED attempt
     \/ /\ Goto(c, "loop")
        /\ attempt' = [attempt EXCEPT ![c] = @ + 1]
        /\ UNCHANGED <<proc, probing>>
  /\ UNCHANGED <<main, ctxDone, ready>>

\* The child has exited: a crash, unless the shutdown has begun.
ReapChild(c) ==
  /\ runner[c] = "run"
  /\ proc[c] = "ended"
  /\ proc' = [proc EXCEPT ![c] = "none"]
  /\ IF ctxDone
     THEN Goto(c, "returned") /\ UNCHANGED attempt
     ELSE Goto(c, "loop") /\ attempt' = [attempt EXCEPT ![c] = @ + 1]
  /\ UNCHANGED <<main, ctxDone, ready, probing>>

SendTerm(c) ==
  /\ runner[c] = "run"
  /\ ctxDone
  /\ Goto(c, "term")
  /\ RunnerOnly(c)

\* Mutant of TermTimeout: waits for the child without a deadline.
TermNoTimeout(c) ==
  /\ runner[c] = "term"
  /\ proc[c] = "ended"
  /\ Goto(c, "kill")
  /\ RunnerOnly(c)

\* Ten seconds after SIGTERM the child is killed.
TermTimeout(c) ==
  /\ runner[c] = "term"
  /\ Goto(c, "kill")
  /\ RunnerOnly(c)

ReapStopped(c) ==
  /\ runner[c] \in {"term", "kill"}
  /\ proc[c] = "ended"
  /\ Goto(c, "returned")
  /\ proc' = [proc EXCEPT ![c] = "none"]
  /\ UNCHANGED <<main, ctxDone, ready, probing, attempt>>

-------------------------------------------------------------------------------
(* The children.                                                           *)

ChildEnds(c) ==
  /\ proc[c] = "up"
  /\ proc' = [proc EXCEPT ![c] = "ended"]
  /\ UNCHANGED <<main, ctxDone, ready, probing, runner, attempt>>

-------------------------------------------------------------------------------
RunnerStep(c) ==
  Alive /\ \/ LoopHead(c)
           \/ Backoff(c)
           \/ StartChild(c)
           \/ ReapChild(c)
           \/ SendTerm(c)
           \/ TermTimeout(c)
           \/ ReapStopped(c)

MainStep == StartWorker \/ BeginShutdown \/ Exit

Next ==
  \/ Signal
  \/ MainStep
  \/ ProbeReturns
  \/ \E c \in Children : RunnerStep(c) \/ ChildEnds(c)

Spec == Init /\ [][Next]_vars

\* Goroutines that can go on do, and SIGKILL is obeyed.  Nothing makes the probe
\* return: its requests have no timeout.
FairSpec ==
  /\ Spec
  /\ WF_vars(MainStep)
  /\ \A c \in Children :
       /\ WF_vars(RunnerStep(c))
       /\ WF_vars(runner[c] = "kill" /\ ChildEnds(c))

-------------------------------------------------------------------------------
\* When main returns after a signal, no child is left, whatever the children
\* did with SIGTERM and wherever the shutdown caught the two goroutines: in a
\* backoff, between start and select, or before the worker's first start.
CleanExitLeavesNoChild ==
  main = "exited" => \A c \in Children : proc[c] # "up"

\* A signal ends the supervisor, even if a child ignores SIGTERM.
ShutdownCompletes == ctxDone ~> main \in Ended

\* As long as no probe hangs, a server that has been started is followed by the
\* worker, healthy server or not and whichever attempt it was, unless the
\* supervisor is shut down or gives up: main waits on a channel that only a probe
\* closes, and every start of the server must leave one to close it.
StackComesUp ==
  []<>~probing =>
    (runner["server"] = "run" ~> (runner["worker"] # "absent" \/ main \in Ended))
===============================================================================
