\* Three bars are enough for a call bought below the middle of its range.
CONSTANTS
  MinOptional = 1
  MinBars = 3
  DTEMin = 21
  DTEMax = 45
  AvoidBelow = 21
  TargetDTE = 30
  DeltaMin = 30
  DeltaMax = 75
  MinVolume = 50
  MaxSpread = 8
  Rows <- MCRows
  Bars <- MCBars
  SpyOpen = 400
  SpyCloses = {397, 399, 400, 401, 403}
  Window = 3
  Feeds <- MCFeeds
  PriceTop = 20
SPECIFICATION Spec
INVARIANTS
  RangeStandsInForZone
CHECK_DEADLOCK FALSE
