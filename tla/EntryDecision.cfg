\* Windows of up to three bars, chains of up to two contracts.
CONSTANTS
  MinOptional = 1
  MinBars = 3
  DTEMin = 21
  DTEMax = 45
  AvoidBelow = 21
  TargetDTE = 30
  DeltaMin = 30
  DeltaMax = 75
  MinVolume = 50
  MaxSpread = 8
  Rows <- MCRows
  Bars <- MCBars
  SpyOpen = 400
  SpyCloses = {397, 399, 400, 401, 403}
  Window = 3
  Feeds <- MCFeeds
  PriceTop = 20
SPECIFICATION Spec
INVARIANTS
  TypeOK
  NotBothWays
  MirrorSymmetric
  NotDominated
  FillRejectsOnlyInverted
  LimitInsideQuote
PROPERTIES
  BlocksAreFinal
CHECK_DEADLOCK FALSE
