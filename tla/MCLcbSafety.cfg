CONSTANTS
  N = 2
  NumMsg <- MCThreeAndOne
  Deps <- MCAllOnOne
  MaxStops = 1
SPECIFICATION Spec
INVARIANTS TypeOK ClockCountsLog NothingDeliverablePending CausalOrder FifoLines LineCausality
  NoDuplication AllWrittenAtRest
PROPERTY ImplementsCausalBroadcast
CHECK_DEADLOCK FALSE
