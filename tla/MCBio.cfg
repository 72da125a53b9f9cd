SPECIFICATION MCSpec
CONSTANTS
  Procs = {p1, p2}
  Bufs = {u1, u2}
  Blocks = {b1, b2, b3}
  Vals = {v1, v2}
  None = None
  RefMod = 4
  MaxPinned = 1
  MaxOps = 2
  Callers = {p1, p2, p3}
  NUM = 8
  IdxMod = 16
  MaxReqs = 3
  Served = 15
INVARIANTS CacheSound ReadsLatest CompletionsAreAwaited
PROPERTIES BreadReturns RequestsFinish
CHECK_DEADLOCK FALSE
