CONSTANTS
  Word = 3
  Byte = 2
  Bytes = 2
  Base32 = {"A", "B"}
  Align = 4
  Items = {1, 2}
  MaxNodes = 3
  Keys = {1, 2, 3, 4, 5, 6}
  MaxText = 3
  MaxArgs = 2
  RecvBuf = 4
  BadLines <- MCBadLines
  RecvLimits = {3, 6}
  MaxStream = 7
  ArgNames <- MCArgNames
  ArgValues <- MCArgValues
  Fourcc <- MCFourcc
  Inputs <- MCInputs
  Reads <- MCReads
  SizeMax = 63
  MAX_PASS_LEN = 7
  JournalSize = 16
  Nicks = {"ann", "bob"}
  Levels = {1, 2, 5, 8}
  Chains <- MCChains
  RoomSids = {1, 3, 5, 8, 10}
  MaxRoom = 2
  RestrictStart = 8
  RestrictStep = 2
  ToldStart = 4
  ToldEntry = 2
  HistoryMax = 2
  MaxHeard = 4
  MaxTime = 6
  MaxCount = 4
  FloodLimits <- MCFloodLimits
  MaxMessages = 5
  MaxClock = 6
  Setups <- MCSetups
SPECIFICATION Spec
INVARIANTS ContainersAgree   InfSound   HistoryExact 
 
CHECK_DEADLOCK FALSE
