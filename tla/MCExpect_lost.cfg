SPECIFICATION Spec
CONSTANTS
  Output <- MCOutput
  maxread = 2
  MaxCalls = 2
  Searches <- MCSearches
  DrainModes = {TRUE}
INVARIANT EofMeansAll
CHECK_DEADLOCK FALSE
