SPECIFICATION FairSpec
CONSTANTS
  Seqs = {s1, s2, s3, s4}
  Nil = Nil
  Bits = {b1, b2, b3}
  MaxStmts = 1
  MaxLineages = 2
  MaxTries = 2
  BootLen = 1
  KeepUniqueCrash = 0
  FeedbackArg = "none"
PROPERTIES
  EveryLineageServed
  TurnsComeCloser
CHECK_DEADLOCK FALSE
