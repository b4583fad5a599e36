\* Two mechanical checks may run at once.
CONSTANTS
  ExitsEnabled = TRUE
  StopLossPct = 25
  TakeProfitPct = 70
  TrailingStartPct = 35
  GivebackPct = 10
  TimeStopDays = 1
  MaxHoldDays = 2
  c1 = c1
  c2 = c2
  k1 = k1
  k2 = k2
  b1 = b1
  b2 = b2
  Candidates <- MCCandidates
  Bearish <- MCBearish
  Buyers <- MCBuyers
  Checkers <- MCTwoCheckers
  Mids <- MCMids
  Quotes <- MCQuotes
  Levels <- MCOneLevel
  MaxBuys = 2
  MaxFaults = 1
  MaxAge = 2
SYMMETRY Symmetry
SPECIFICATION Spec
INVARIANTS
  TypeOK
  SellsBounded
  SellAccounting
  BuysAccounted
PROPERTIES
  ImplementsLedger
  RiskStateSettles
  ExitRecordSettles
CHECK_DEADLOCK FALSE
