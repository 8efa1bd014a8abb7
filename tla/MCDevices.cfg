CONSTANTS
  KB_BUFFER_SIZE = 3
  Keys <- TheKeys
  scancode_table <- Plain
  scancode_shift_table <- Shifted
  fb_char_width = 2
  fb_char_height = 3
  Screens <- AllScreens
  Colors = {0, 128}
  MAX_TASKS = 3
  STACK = 30
  Depths = {0, 1, 3}
  Vectors = {0, 8, 14, 17, 32, 33}
  MaxGen = 1
  Messages <- MCMessages
  ExceptionVectors = {21, 22}
  MaxMessages = 2
  MaxExceptions = 2
SPECIFICATION Spec
CHECK_DEADLOCK FALSE
INVARIANTS
  TextLegible
  HandlerSees
PROPERTIES
  ImplementsQueue
  EveryCharRead
  Transparent
  ReportReachesLine
