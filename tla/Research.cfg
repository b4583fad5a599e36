\* The strategy's screens and the two programs that evaluate it on history.
CONSTANTS
  AllowedPatterns <- MCAllowed
  MinQuality = 60
  Config <- MCConfig
  Limits <- MCLimits
  PatternsEnabled = TRUE
  PatternRequired = FALSE
  ScoreWeight = 15
  Charts <- MCCharts
  Days <- MCDays
  Macros <- MCMacros
  Quotes <- MCQuotes
  MaxDays = 1
  Signals <- MCSignals
  Future <- MCFuture
  HoldDays = 3
  Histories <- MCHistories
  Databases <- MCDatabases
  Grid <- MCGrid
  TrainDays = 2
  TestDays = 2
  Scale = 2
  ChanceSharpe = 9
SPECIFICATION Spec
INVARIANTS
  TypeOK
  OneWay
  TriggerAgrees
  VerdictExplained
  SignalSurvivesRescan
  NeverReady
  WinIsGain
  ExitIsFirst
  NoLeakage
  DrawdownIsWorstRun
  LoadedNeverTrades
CHECK_DEADLOCK FALSE
