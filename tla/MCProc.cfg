SPECIFICATION MCSpec
CONSTANTS
  NPROC = 3
  NCPU = 2
  MaxPid = 5
  KillTargets = {0, 3}
  AllocFails = TRUE
  None = None
  ZeroPids = 4
  MaxLine = 6
  Tokens = {"a", "|", "&", ";", ">", "(", ")"}
INVARIANTS TableSound NoLockCycle NoMissedEvent KillsTheNamed ParsesGrammar
CHECK_DEADLOCK FALSE
