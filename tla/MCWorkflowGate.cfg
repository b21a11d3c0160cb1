SPECIFICATION GateSpec
CONSTANTS
  Main = Main
  i1 = i1
  i2 = i2
  i3 = i3
  g1 = g1
  g2 = g2
  Items = {i1, i2, i3}
  Gates = {g1, g2}
  PlainGates = {g2}
  Results = {"r1", "r2"}
  Offers <- AllOffers
  Approve = "approve"
  Cap = 2
  MaxLives = 5
  MaxSteps = 2
  Catches = TRUE
CONSTRAINT WithinCalls
INVARIANTS TypeOK PausedIsQuiet PausedIsAnswerable GateExitsPaused AnswersWereAsked
PROPERTIES WaveEndsSupervisor PassedStaysPassed
CHECK_DEADLOCK FALSE
