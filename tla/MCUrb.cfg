CONSTANTS
  N = 4
  NumMsg <- MCOneBroadcaster
  TableMsgs = 2
  MAX_SIZE = 8192
  MaxStops = 1
SPECIFICATION FairSpec
INVARIANTS TypeOK AcksAreTrue MajorityHolds RelayedIffSeen IdsDiffer SurvivorRelays
  AgreementAtRest
PROPERTIES RBSpec UniformAgreement Validity
CHECK_DEADLOCK FALSE
