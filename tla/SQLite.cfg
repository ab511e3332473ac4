SPECIFICATION FairSpec
CONSTANTS
  MaxCalls = 4
  MaxDeaths = 2
  uses_asan = TRUE
INVARIANTS
  TypeOK
  ResultIsOwn
  NobodyWaitsInVain
  ResetIsComplete
PROPERTIES
  EveryCallReturns
CHECK_DEADLOCK FALSE
