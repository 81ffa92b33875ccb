SPECIFICATION FairSpec
CONSTANTS
  s1 = s1
  s2 = s2
  main = main
  receiver = receiver
  Sender = {s1}
  Main = main
  Receiver = receiver
  NoThread = NoThread
  NoTask = NoTask
  Task <- MCTask
  NumMsg = 1
  NumProc = 1
  QueueLen = 1
  BufLines = 1
  MaxReceived = 1
  MaxRequeues = 1
  MaxErrors = 0

PROPERTY SignalEndsProcess
CHECK_DEADLOCK FALSE
