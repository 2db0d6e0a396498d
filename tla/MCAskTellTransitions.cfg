CONSTANTS
  Clients = {c1, c2}
  Trials = 2
  SpaceSize = 1
  Values = {1, 2}
  Interrupts = 0
  None = None
SPECIFICATION Spec
INVARIANTS TransitionsLegal
CHECK_DEADLOCK FALSE
