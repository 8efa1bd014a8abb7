CONSTANTS
  MAX_TASKS = 3
  Pages = {p1, p2}
  BootStack = boot
  NULL = null
  Word = 65536
  TimerFreq = 100
  FirstSleep = 20
  LoopSleep = 30
  BootLint0 = {"masked"}
  ThreadCalls = {}
SPECIFICATION FairSpec
PROPERTIES
  TimerInterruptsNotDelivered
