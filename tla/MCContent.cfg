SPECIFICATION MCSpec
CONSTANTS
  Procs = {1,2}
  Files = {1,2,3}
  Inodes = {1,2}
  NBlocks = 5
  BSIZE = 2
  NDIRECT = 1
  NINDIRECT = 2
  MAXOPBLOCKS = 6
  UINT = 16
  WriteSizes = {1,5}
  ReadSizes <- Counts
  Truncates = TRUE
  CopyFails = TRUE
  MaxCalls <- TwoAndOne
  FileIp <- FileIps
  Byte <- Numbers
INVARIANTS BitmapExact FitsReservation ContentIsText ImageSound
CHECK_DEADLOCK FALSE
