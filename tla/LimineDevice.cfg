CONSTANTS
  BlockSize = 2
  Blocks = 3
  UNINSTALL_DATA_MAX = 2
  MaxLen = 4
  MaxFaults = 2
SPECIFICATION Spec
CHECK_DEADLOCK FALSE
INVARIANTS
  ReadsSeeWrites
PROPERTIES
  KeepsPromise
