CONSTANTS
  BlockSize = 2
  Blocks = 3
  UNINSTALL_DATA_MAX = 2
  MaxLen = 4
  MaxFaults = 1
SPECIFICATION Spec
CHECK_DEADLOCK FALSE
INVARIANTS
  UndoneIsOriginal
