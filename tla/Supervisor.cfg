\* maxRestarts as in cmd/supervisor/main.go.
CONSTANT MaxRestarts = 3
SPECIFICATION FairSpec
INVARIANTS
  TypeOK
  CleanExitLeavesNoChild
PROPERTIES
  ShutdownCompletes
  StackComesUp
CHECK_DEADLOCK FALSE
