CONSTANTS
  num_proc = 2
  no_msgs = 1
  MAX_SIZE = 8
  sender = sender
  Senders = {sender}
  Ids <- MCIds
  Fresh <- MCFresh
SPECIFICATION FairSpec
INVARIANTS TypeOK NoOverrun WrittenIsFound UnwrittenReadsZero CanDeliverIsMajority
PROPERTY CallsReturn
CHECK_DEADLOCK FALSE
