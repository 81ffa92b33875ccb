CONSTANTS
  Proc = {1, 2, 3}
  t1 = t1
  t2 = t2
  Thread = {t1}
  Request <- MCBroadcast
  Threshold = 2
  MaxStops = 1
  MaxSendErrors = 0
SPECIFICATION FairSpec
PROPERTIES Delivery Completion
CHECK_DEADLOCK FALSE
