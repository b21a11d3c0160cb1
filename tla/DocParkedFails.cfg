\* A question that a bare resume has answered with an action it does not offer.
SPECIFICATION Spec
CONSTANTS
  Main = Main
  Items = {i1}
  Gates = {g1}
  PlainGates = {}
  Results = {"r1"}
  Offers = {{"retry", "accept"}}
  Approve = "approve"
  Cap = 1
  MaxLives = 3
  MaxSteps = 2
  Catches = FALSE
INVARIANT ParkedEndsPaused
CHECK_DEADLOCK FALSE
