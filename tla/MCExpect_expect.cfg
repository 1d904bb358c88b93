SPECIFICATION FairSpec
CONSTANTS
  Output <- MCOutput
  maxread = 2
  MaxCalls = 3
  Searches <- MCSearches
  DrainModes = {TRUE, FALSE}
INVARIANTS TypeOK Conserved SearchersAgree ReapedOnce EofJustified ThreadDiesLate
PROPERTIES InOrder CallsReturn ThreadStops
CHECK_DEADLOCK FALSE
