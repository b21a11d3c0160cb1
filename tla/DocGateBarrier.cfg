SPECIFICATION FairSpec
CONSTANTS
  Main = Main
  Items = {i1}
  Gates = {g1}
  PlainGates = {}
  Results = {"r1"}
  Offers = {{"approve"}}
  Approve = "approve"
  Cap = 1
  MaxLives = 1
  MaxSteps = 2
  Catches = TRUE
PROPERTY GateEndsSupervisor
CHECK_DEADLOCK FALSE
