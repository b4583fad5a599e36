\* Mechanical checks never overlap; two candidates, a call and a put.
CONSTANTS
  ExitsEnabled = TRUE
  StopLossPct = 25
  TakeProfitPct = 70
  TrailingStartPct = 35
  GivebackPct = 10
  TimeStopDays = 1
  MaxHoldDays = 2
  c1 = c1
  c2 = c2
  k1 = k1
  k2 = k2
  b1 = b1
  b2 = b2
  Candidates <- MCTwoCandidates
  Bearish <- MCBearish
  Buyers <- MCBuyers
  Checkers <- MCOneChecker
  Mids <- MCTwoMids
  Quotes <- MCTwoQuotes
  Levels <- MCOneLevel
  MaxBuys = 1
  MaxFaults = 1
  MaxAge = 2
SPECIFICATION FairSpec
PROPERTIES
  TrackedPositionsClose
CHECK_DEADLOCK FALSE
