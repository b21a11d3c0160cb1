\* Two calls compete for one budget unit, each child tried twice, across a resume.
SPECIFICATION FairSpec
CONSTANTS
  a = a
  b = b
  Steps = {a, b}
  Keyed = {a}
  Total = 1
  Lives = 2
  Tries = 2
  Rejections = 0
  LateChildren = FALSE
INVARIANTS
  TypeOK
  NeverOverspent
  ExitLeavesNoChild
PROPERTIES
  AdoptsFinished
  ImplementsLedger
  SignalStops
CHECK_DEADLOCK FALSE
