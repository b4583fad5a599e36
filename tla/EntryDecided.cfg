\* An activity beside forced confirmations; each row keeps its direction.
CONSTANTS
  c1 = c1
  c2 = c2
  e1 = e1
  a1 = a1
  q1 = q1
  f1 = f1
  T1 = T1
  T2 = T2
  Today <- MCToday
  Earlier <- MCEarlier
  TickerOf <- MCTickerOf
  AboveBar <- MCToday
  BearishOf <- MCOneDirection
  Activities <- MCActivities
  Requests <- MCNone
  Forcers <- MCForcers
  MaxShortlist = 1
  MaxOpenPositions = 1
  MaxSameDirection = 1
  MaxFaults = 1
SPECIFICATION FairSpec
PROPERTIES
  LoadedIsDecided
CHECK_DEADLOCK FALSE
