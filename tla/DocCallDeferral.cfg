\* A broker refusal of a grouped call.
SPECIFICATION StoresSpec
CONSTANTS
  Stores = {"health"}
  l1 = l1
  l2 = l2
  l3 = l3
  r1 = r1
  r2 = r2
  o = o
  e = e
  own = own
  a1 = a1
  n1 = n1
  c1 = c1
  c2 = c2
  t1 = t1
  t2 = t2
  d1 = d1
  d2 = d2
  Lead = Lead
  NoParty = NoParty
  Lanes = {l1, l2, l3}
  PushLanes = {l1}
  Senders = {Lead}
  Ending = {l1}
  Blocked <- CoordinatorMayNotWriteToL3
  PushBatch = 1
  MaxMail = 2
  MailDeaths = 1
  Runs = {r1, r2}
  NoRun = NoRun
  MaxAlias = 2
  MaxWrites = 4
  SliceLanes = {l1, l2, l3}
  SliceTrouble = 2
  Logs = {o, e}
  MaxBytes = 3
  RetentionDeaths = 2
  Owner = own
  Attached = {a1}
  Nested = {n1}
  Remover = Remover
  NoHolder = NoHolder
  Calls = {c1, c2}
  Patch = Patch
  ErrorItem = ErrorItem
  Texts = {t1, t2}
  StallSeconds = 2
  TerminalGrace = 1
  FailureLimit = 2
  OutputLimit = 1
  PendingLimit = 2
  Launches = {d1, d2}
  Forcing = {d2}
  Modes <- OneLaunchIsSafe
  KnownBad = 1
  MaxWall = 1
  HealthTrouble = 1
  NoMarker = NoMarker
  Corrupt = Corrupt
  Sessions <- TimedAndLooping
INVARIANTS
  RefusedCallIsJudged
CHECK_DEADLOCK FALSE
