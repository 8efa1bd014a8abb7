CONSTANTS
  MAX_TASKS = 4
  Pages = {p1, p2, p3, p4}
  BootStack = boot
  NULL = null
SYMMETRY PageSymmetry
SPECIFICATION SchedSpec
INVARIANTS
  SchedTypeOK
  OnCurrentStack
  SwitchTargetsSaved
  StacksDisjoint
  OneRunning
PROPERTIES
  NoReadyTaskPassedOver
