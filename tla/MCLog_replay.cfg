SPECIFICATION MCSpec
CONSTANTS
  Procs = {p1, p2}
  Blocks = {1, 2}
  Vals = {v1, v2}
  NoBuf = NoBuf
  LOGSIZE = 5
  MAXOPBLOCKS = 2
  NLog = 5
  OpBlocks = 2
  RefMod = 4
  RecycleAfterReplay = TRUE
  MaxCalls = 3
  MaxCrashes = 2
  Parts = {"few"}
  FewBlocks = {1, 2}
  FewCalls = 3
SYMMETRY Sym
INVARIANT LoggedStaysCached
CHECK_DEADLOCK FALSE
