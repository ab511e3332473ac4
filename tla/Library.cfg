SPECIFICATION Spec
CONSTANTS
  Gap = 2
  WordSize = 64
  LongSize = 128
  MaxIds = 1
  MaxStmts = 3
  MaxLevels = 2
  IdBound = 10
INVARIANTS
  TypeOK
  FreshNames
  LibraryTracksDatabase
