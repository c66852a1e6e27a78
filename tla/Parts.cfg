CONSTANTS
  Levels = {"Error", "Info"}
  Statements <- MCStatements
  kMaxLogPerCounter = 4
  MaxHits = 9
  Alphabet <- MCAlphabet
  noSuffix = noSuffix
  Lists <- MCLists
  Sources <- MCSources
  VLevels = {2, 10}
  MaxVCalls = 2
  LoggerIds = {"default", "chat"}
  Confs <- MCConfs
  SingleValues <- MCSingle
  MaxLoggers = 3
  nullptr = nullptr
  kBuffSize = 9
  kDefaultSubsecondPrecision = 3
  DateFormats <- MCFormats
  Moments <- MCMoments
  MicroSteps <- MCMicroSteps
  MilliSteps <- MCMilliSteps
  MaxSteps = 3
  MaxReports = 3
  LevelSeq <- MCLevelSeq
  Filenames <- MCFilenames
  Denied <- MCDenied
  Present <- MCPresent
  Limits = {0, 2, 3}
  LineSizes = {1, 2}
  MaxLogLines = 3
  ArgLists <- MCArgLists
  ArgLoggers = {"chat"}
  MaxArgCalls = 2
  noValue = noValue
  ping_frequency = 4
  ping_retry_max = 3
  Latency = 1
  MaxTime = 40
SPECIFICATION MCSpec
INVARIANTS OnlySilentTimedOut LoggedWhenDue NamedLevelCounts LoggersAsAsked DateAsMeant TimesShown
  FilesAsAsked ArgsAsGiven
CHECK_DEADLOCK FALSE
