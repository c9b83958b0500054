\* Two ticks a second, so that rounding matters; long enough for the twelfth
\* failure, the first whose delay the cap cuts.
CONSTANTS
  Frequency = 2
  MaxFailed = 12
  MaxTick = 112
SPECIFICATION SessionSpec
INVARIANTS
  ReportedDelayExact
  GuessingIsSlow
CHECK_DEADLOCK FALSE
