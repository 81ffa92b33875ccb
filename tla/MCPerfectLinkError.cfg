CONSTANTS
  Proc = {1, 2}
  t1 = t1
  t2 = t2
  Thread <- MCThreads
  Request <- MCTwoMessages
  Threshold = 1
  MaxStops = 0
  MaxSendErrors = 1
SPECIFICATION FairSpec
PROPERTY Delivery
CHECK_DEADLOCK FALSE
