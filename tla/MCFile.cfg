SPECIFICATION MCSpec
CONSTANTS
  Procs = {1,2}
  NFILE = 3
  NOFILE = 2
  Pages = {1}
INVARIANTS RefsCounted OutputIsMeaning
PROPERTIES CommandsEnd
