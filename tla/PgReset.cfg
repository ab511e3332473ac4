SPECIFICATION Spec
CONSTANTS
  MaxRuns = 2
  MaxCalls = 1
  MaxCrashes = 0
  MaxPieces = 1
  RowWords = {}
CHECK_DEADLOCK FALSE
PROPERTIES
  ResetIsComplete
