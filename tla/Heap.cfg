CONSTANTS
  WORD = 256
  ALIGN = 2
  HEADER = 6
  SPARE = 4
  Arena = 48
  Sizes = {1, 5, 12, 255}
SPECIFICATION Spec
CHECK_DEADLOCK FALSE
INVARIANTS
  BlocksTile
  LiveIsReserved
  AtMostOnePair
