\* What the callers without option data get.
CONSTANTS
  AllowedPatterns <- MCAllowed
  MinQuality = 60
  Config <- MCConfig
  Limits <- MCLimits
  PatternsEnabled = TRUE
  PatternRequired = FALSE
  ScoreWeight = 15
  Charts <- MCCharts
  Days <- MCDays
  Macros <- MCMacros
  Quotes <- MCQuotes
  MaxDays = 1
SPECIFICATION ScreenSpec
INVARIANT UnavailablePasses
CHECK_DEADLOCK FALSE
