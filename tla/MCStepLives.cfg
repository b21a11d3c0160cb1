\* One keyed call over three supervisors, a rejection, and children that register late.
SPECIFICATION Spec
CONSTANTS
  a = a
  b = b
  Steps = {a}
  Keyed = {a}
  Total = 2
  Lives = 3
  Tries = 1
  Rejections = 1
  LateChildren = TRUE
INVARIANTS
  ReplayAgrees
  KeyedSettleOnce
CHECK_DEADLOCK FALSE
