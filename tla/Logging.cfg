CONSTANTS
  Levels = {"Error", "Info"}
  Texts <- MCTexts
  Files = {"default.log", "other.log", "bad"}
  Writable = {"default.log", "other.log"}
  null = null
  Threads = {console, io}
  Messages <- MCMessages
  MaxCalls = 3
  ShortIds = {"c"}
  LongIds = {"default", "chat"}
  Values <- MCValues
  OddValues <- MCOddValues
  MaxLines = 5
  noLogger = noLogger
SPECIFICATION MCSpec
INVARIANTS LastSetWins OneStreamPerFile LineAsMeant FlushedInTime SectionsApplied
SYMMETRY ThreadSymmetry
CHECK_DEADLOCK FALSE
