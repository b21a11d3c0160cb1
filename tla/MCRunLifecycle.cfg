SPECIFICATION Spec
CONSTANTS
  c1 = c1
  c2 = c2
  Cancellers = {c1, c2}
  MaxAttempts = 3
  MaxSelections = 2
  Kinds = {"plain", "isolated", "setup"}
  LauncherMayCrash = TRUE
  CancellerMayCrash = TRUE
  LockMayTimeOut = TRUE
  OthersHoldLock = TRUE
  WritesMayFail = TRUE
INVARIANTS
  TypeOK
  TerminalLeavesNoChild
  CancelledReplyHolds
  OneLiveGeneration
  LockedReportAgrees
PROPERTIES
  ImplementsRunOutcome
SYMMETRY CancellerSymmetry
CHECK_DEADLOCK FALSE
