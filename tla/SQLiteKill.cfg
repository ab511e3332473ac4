SPECIFICATION Spec
CONSTANTS
  MaxCalls = 2
  MaxDeaths = 0
  uses_asan = TRUE
INVARIANTS
  OnlyTheChildIsKilled
CHECK_DEADLOCK FALSE
