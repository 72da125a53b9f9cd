SPECIFICATION MCSpec
CONSTANTS
  Procs = {p1, p2}
  None = None
  Names = {"a", "b"}
  NINODES = 3
  NINODE = 3
  Calls <- AllCalls
  MaxCalls = 7
  TreeMax = 4
  MaxCrashes = 1
SYMMETRY Sym
INVARIANTS RefsCounted WriteThrough TreeOnDisk NeverStuck
CHECK_DEADLOCK FALSE
