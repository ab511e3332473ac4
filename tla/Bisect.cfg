SPECIFICATION FairSpec
CONSTANTS
  N = 5
  MaxFiles = 3
  MaxFlaky = 1
CHECK_DEADLOCK FALSE
INVARIANTS
  TypeOK
  ReportIsBoundary
  ReportsAreFiled
PROPERTIES
  ImplementsSearch
  SearchConverges
  EveryReportEnds
