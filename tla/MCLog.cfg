SPECIFICATION MCFairSpec
CONSTANTS
  Procs = {p1, p2}
  Blocks = {1, 2, 3, 4, 5}
  Vals = {v1, v2}
  NoBuf = NoBuf
  LOGSIZE = 6
  MAXOPBLOCKS = 3
  NLog = 6
  OpBlocks = 2
  RefMod = 4
  RecycleAfterReplay = FALSE
  MaxCalls = 3
  MaxCrashes = 2
  Parts = {"few", "many"}
  FewBlocks = {1, 2}
  FewCalls = 2
INVARIANTS LoggedStaysCached Durable ReservationSuffices
PROPERTIES AtomicCommit WriteAhead WaiterAdmitted
CHECK_DEADLOCK FALSE
