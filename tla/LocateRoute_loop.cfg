SPECIFICATION Spec
CONSTANTS
  x1 = x1
  x2 = x2
  CommandIds = {x1, x2}
  Requests = {r1, r2}
  Bodies <- OwnDrawers
  ControllerCount = 1
  LedsPerController = 2
  MaxFaults = 0
CHECK_DEADLOCK FALSE
SYMMETRY Symmetric
INVARIANT ClosesTheLoop
