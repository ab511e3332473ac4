SPECIFICATION FairSpec
CONSTANTS
  Grammar <- SmallGrammar
  StmtTyped = {"select", "insert"}
  Interesting <- SmallInteresting
  MaxDepth = 4
  Energy = 1
  MaxUses = 2
INVARIANTS
  TypeOK
  CacheIsSound
  MatchesIndexTheCache
  MatchYieldsItsType
  ReferencesAreOwn
PROPERTIES
  RoundsConverge
  EveryRoundEnds
