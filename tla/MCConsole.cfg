SPECIFICATION MCSpec
CONSTANTS
  Writers = {p1}
  Readers = {p2}
  Chars = {"a"}
  Keys = {"a", "cr", "eof", "bs", "kill", "dump"}
  Bytes = {b1, b2}
  OneByte = b1
  OutTyped = 1
  InBytes = 2
  OutKeys = {"a"}
  None = None
  UART_TX_BUF_SIZE = 3
  INPUT_BUF = 2
  CtrMod = 4
  Before = 3
  MaxN = 3
  MaxRead = 2
  MaxTyped = 3
  MaxWrites = 2
INVARIANTS NoLostInput NothingForgotten
PROPERTIES IsFifo IsTty
CHECK_DEADLOCK FALSE
