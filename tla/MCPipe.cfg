SPECIFICATION Spec
CONSTANTS
  Writers = {w1, w2}
  Readers = {r1, r2}
  None = None
  PIPESIZE = 2
  CtrMod = 4
  MaxN = 2
SYMMETRY Sym
INVARIANTS NoLostWakeup
PROPERTIES IsFifo
CHECK_DEADLOCK FALSE
