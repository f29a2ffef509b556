SPECIFICATION Spec
CONSTANTS
  x1 = x1
  x2 = x2
  CommandIds = {x1, x2}
  Requests = {r1, r2, r3}
  Bodies <- OwnDrawers
  ControllerCount = 2
  LedsPerController = 1
  MaxFaults = 0
CHECK_DEADLOCK FALSE
SYMMETRY Symmetric
INVARIANT ExpiredNeverAcknowledged
