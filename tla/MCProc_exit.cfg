SPECIFICATION MCSpec
CONSTANTS
  NPROC = 4
  NCPU = 2
  MaxPid = 5
  KillTargets = {}
  AllocFails = FALSE
  None = None
  ZeroPids = 5
  MaxLine = 0
  Tokens = {"a"}
INVARIANTS SpuriousIsHarmless
CHECK_DEADLOCK FALSE
