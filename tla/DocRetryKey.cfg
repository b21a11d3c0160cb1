\* One call without a key, rejected once, over three supervisors.
SPECIFICATION Spec
CONSTANTS
  a = a
  b = b
  Steps = {a}
  Keyed = {}
  Total = 2
  Lives = 3
  Tries = 1
  Rejections = 1
  LateChildren = FALSE
INVARIANTS
  AllSettleOnce
CHECK_DEADLOCK FALSE
