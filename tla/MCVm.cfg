SPECIFICATION MCSpec
CONSTANTS
  Procs = {1,2,3}
  NPages = 12
  PGSIZE = 2
  NDIR = 1
  MaxPages = 3
  UINT = 32
  Segments = {1}
  Deltas <- Changes
  MaxCalls = 4
INVARIANTS OneUse SizeIsMapped HeapSound ProgramStarts
CHECK_DEADLOCK FALSE
