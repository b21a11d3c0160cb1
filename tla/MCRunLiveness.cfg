\* A run of two attempts at most, one cancel, one reader, in either weather.
SPECIFICATION WeatherSpec
CONSTANTS
  c1 = c1
  Cancellers = {c1}
  MaxAttempts = 2
  MaxSelections = 2
  Kinds = {"plain", "isolated", "setup"}
  LauncherMayCrash = TRUE
  CancellerMayCrash = TRUE
  LockMayTimeOut = TRUE
  OthersHoldLock = TRUE
  WritesMayFail = TRUE
INVARIANTS
  ReportedIsReadable
PROPERTIES
  CancelReturns
  CalmSettles
  CalmCancels
CHECK_DEADLOCK FALSE
