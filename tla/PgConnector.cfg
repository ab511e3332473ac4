SPECIFICATION FairSpec
CONSTANTS
  MaxRuns = 2
  MaxCalls = 3
  MaxCrashes = 2
  MaxPieces = 3
  RowWords = {"ERROR", "unexpectedly"}
CHECK_DEADLOCK FALSE
INVARIANTS
  TypeOK
  NoPhantomSuccess
  CrashIsReported
  NeverFatal
  WaitIsLimited
PROPERTIES
  EveryCallReturns
