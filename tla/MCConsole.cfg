SPECIFICATION Spec
CONSTANTS
  Width = 3
  Height = 2
  DebugMsgSize = 1
  Formats <- MCFormats
  Messages <- MCMessages
  Keys <- MCKeys
  KeysDuringPrints = FALSE
  MaxChars = 12
CHECK_DEADLOCK FALSE
INVARIANTS
  ScreenShowsTail
  NeverLost
  StoresOnScreen
