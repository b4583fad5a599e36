\* The rule percentages and time stop of strategy_rules.yaml; the hard limit of five
\* days comes after three, a day after the time stop.
CONSTANTS
  ExitsEnabled = TRUE
  StopLossPct = 25
  TakeProfitPct = 70
  TrailingStartPct = 35
  GivebackPct = 10
  TimeStopDays = 2
  MaxHoldDays = 3
  Premium = 100
  Mids <- MCMids
  Quotes <- MCQuotes
  Levels <- MCLevels
  LastDay = 3
SPECIFICATION Spec
INVARIANTS
  TypeOK
  PeakIsHighestStored
  ArmedIffFollowedThrough
  TimeStopSparesFollowThrough
  HoldIsInsideEveryBand
CHECK_DEADLOCK FALSE
