SPECIFICATION Spec
CONSTANTS
  MaxCalls = 2
  MaxServers = 3
  MaxRetries = 1
INVARIANTS
  TimeoutIsLogged
CHECK_DEADLOCK FALSE
