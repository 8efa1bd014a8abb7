CONSTANTS
  Disks <- AllDisks
  WORD = 4096
  UINT32_MAX = 400
  UNINSTALL_DATA_MAX = 256
  StageSectors = 44
  Signature <- MCSignature
  DigestLen = 2
  HexDigits = {"0", "c"}
  Files <- AllFiles
  Chars <- MCChars
  Argvs <- CommandLines
  InstallArgvs <- AllRests
  MaxRuns = 2
SPECIFICATION Spec
CHECK_DEADLOCK FALSE
INVARIANTS
  TableSurvives
  ConversionExact
  BootChain
  
  JournalNeverFull
  FoundIsFirst
  OnlySlotChanges
PROPERTIES
  EveryStepAdvances
  RunsEnd
