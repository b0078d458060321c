SPECIFICATION FairSpec
CHECK_DEADLOCK FALSE
CONSTANTS
  ReportRoom = 3
  QueueRoom = 2
  HasCAT = TRUE
  KissSize = 14
  Chunk = 1
  Stuffed = {2}
  SerialScripts <- Polls
  TcpScripts <- Conversations
  MaxEvents = 2
  MaxLosses = 1
  MaxEarly = 1
  MaxConnects = 2
INVARIANTS TypeOK RunInOrder PacketsInOrder
PROPERTIES CalledAsAsked ImplementsHostLink CommandsRun
