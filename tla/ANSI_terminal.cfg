SPECIFICATION Spec
CONSTANTS
  Rows = 2
  Cols = 2
  Text = {"x"}
  Digits = {"0", "1", "2"}
  Self = self
  MaxNumber = 2
  MaxMemory = 4
  EmptyRegions = FALSE
INVARIANTS
  TypeOK
  OperandsReady
  Rectangular
PROPERTIES
  OutsideRegionStays
  ParametersAreOwn
