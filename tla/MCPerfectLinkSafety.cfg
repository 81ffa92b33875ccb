CONSTANTS
  Proc = {1, 2, 3}
  t1 = t1
  t2 = t2
  Thread <- MCThreads
  Request <- MCRelay
  Threshold = 2
  MaxStops = 1
  MaxSendErrors = 1
SPECIFICATION Spec
SYMMETRY MCThreadSymmetry
INVARIANTS TypeOK OneHolder AckMeansTaken
PROPERTY RLSpec
CHECK_DEADLOCK FALSE
