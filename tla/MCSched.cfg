SPECIFICATION MCSpec
CONSTANTS
  NCPU = 2
  NPROC = 2
  None = None
  SleepTicks = {1}
  MaxTicks = 1
  Harts = {0, 1}
  Users = {1, 2}
  Vals = {1}
  Mortals = {1}
INVARIANTS LocksCounted NoLostWakeup RegistersKept
