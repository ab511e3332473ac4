SPECIFICATION Spec
CONSTANTS
  Seqs = {s1, s2, s3, s4}
  Nil = Nil
  Bits = {b1, b2, b3}
  MaxStmts = 2
  MaxLineages = 2
  MaxTries = 2
  BootLen = 1
  KeepUniqueCrash = 1
  FeedbackArg = "none"
SYMMETRY Interchangeable
INVARIANTS
  CrashersStayOut
CHECK_DEADLOCK FALSE
