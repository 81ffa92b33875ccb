CONSTANTS
  N = 2
  NumMsg <- MCThreeAndNone
  Deps <- MCSelfDeps
  MaxStops = 0
SPECIFICATION Spec
INVARIANTS DeliveredIsDeleted
CHECK_DEADLOCK FALSE
