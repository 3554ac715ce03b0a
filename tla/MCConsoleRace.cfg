SPECIFICATION Spec
CONSTANTS
  Width = 3
  Height = 2
  DebugMsgSize = 1
  Formats <- MCFormats
  Messages <- MCMessages
  Keys <- RaceKeys
  KeysDuringPrints = TRUE
  MaxChars = 8
CHECK_DEADLOCK FALSE
INVARIANT
  NeverLost
