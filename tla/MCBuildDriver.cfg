SPECIFICATION BuildSpec
CONSTANTS
  FileNames <- MCFileNames
  Characters <- MCCharacters
  Directories <- MCDirectories
  Examples <- MCExamples
  Sources <- MCSources
  FirstTests <- MCFirstTests
  Upper <- MCUpper
  Banner <- MCBanner
  Goodbye <- MCGoodbye
  PipeSize = 1
  FileSize = 4
  MaxRefused = 1
  MaxCalls = 2
INVARIANTS Truthful
PROPERTIES DriverReturns
CHECK_DEADLOCK FALSE
