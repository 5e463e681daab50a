SPECIFICATION FairSpec
CONSTANTS
  OutboxCap = 1
  HubCap = 2
  SessionCap = 1
  PollMax = 1
  MaxPending = 2
  SocketRoom = 1
  MaxEvents = 3
  MaxRequests = 3
  MaxConns = 2
INVARIANT LossIsTold
INVARIANT NothingOutlives
PROPERTY PushesGoOut
PROPERTY QuitEnds
CHECK_DEADLOCK FALSE
