CONSTANTS
  N = 2
  NumMsg <- MCOneEach
  Deps <- MCOneOnTwo
  MaxStops = 0
SPECIFICATION Spec
INVARIANTS LogOrderCausality
CHECK_DEADLOCK FALSE
