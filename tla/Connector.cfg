SPECIFICATION FairSpec
CONSTANTS
  MaxCalls = 2
  MaxServers = 2
  MaxRetries = 1
INVARIANTS
  TypeOK
  TimersAimAtCurrentStatement
  NoFalseTimeout
PROPERTIES
  EveryCallReturns
CHECK_DEADLOCK FALSE
