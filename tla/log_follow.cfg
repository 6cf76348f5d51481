SPECIFICATION Spec
CONSTANTS
  Level = {"LOG_ERROR", "LOG_DEBUG"}
  LOG_ERROR = "LOG_ERROR"
  Missing = Missing
  Invalid = Invalid
  OutOfRange = OutOfRange
  MaxTime = 3
  TimesGrow = TRUE
INVARIANTS NoUseAfterFree LoadedFits
PROPERTIES StopIsHeeded StopReturns LevelFollowsFile
