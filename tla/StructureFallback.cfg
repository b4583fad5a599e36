\* The rule percentages and day limits of strategy_rules.yaml.
CONSTANTS
  ExitsEnabled = TRUE
  StopLossPct = 25
  TakeProfitPct = 70
  TrailingStartPct = 35
  GivebackPct = 10
  TimeStopDays = 2
  MaxHoldDays = 5
  Premium = 100
  Mids <- MCMids
  Quotes <- MCQuotes
  Levels <- MCLevels
  LastDay = 6
SPECIFICATION Spec
INVARIANTS
  StructureExitNeedsALevel
CHECK_DEADLOCK FALSE
