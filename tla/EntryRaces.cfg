\* An activity and a request over the same rows; scans may flip a direction.
CONSTANTS
  c1 = c1
  c2 = c2
  e1 = e1
  a1 = a1
  q1 = q1
  f1 = f1
  T1 = T1
  T2 = T2
  Today <- MCToday
  Earlier <- MCEarlier
  TickerOf <- MCTickerOf
  AboveBar <- MCToday
  BearishOf <- MCBearishOf
  Activities <- MCActivities
  Requests <- MCRequests
  Forcers <- MCNone
  MaxShortlist = 1
  MaxOpenPositions = 2
  MaxSameDirection = 1
  MaxFaults = 1
SPECIFICATION Spec
INVARIANTS
  TypeOK
  OpenBounded
  SameDirectionBounded
  ActivityNeverDoubles
CHECK_DEADLOCK FALSE
