CONSTANTS
  N = 2
  NumMsg <- MCTwoAndOne
  Deps <- MCSelfDeps
  MaxStops = 0
SPECIFICATION FairSpec
PROPERTIES FindPendingReturns
CHECK_DEADLOCK FALSE
