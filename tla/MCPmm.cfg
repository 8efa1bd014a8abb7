CONSTANTS
  PAGE = 2
  MaxAddr = 10
  KStart = 100
  KEnd = 102
  MemMaps <- SampleMaps
SPECIFICATION Spec
INVARIANTS
  FreeListWhole
  InitFindsUsable
PROPERTIES
  ImplementsPool
