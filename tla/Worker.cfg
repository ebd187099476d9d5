SPECIFICATION FairSpec

CONSTANTS
  Fd = {1, 2, 3, 11, 12}
  UDT_FD_BASE = 10
  BufLen = 2
  BlSize = 1
  MaxData = 1

INVARIANTS
  WTypeOK

PROPERTIES
  Closes

CHECK_DEADLOCK FALSE
