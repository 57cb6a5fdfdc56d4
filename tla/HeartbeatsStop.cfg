CONSTANTS
  c1 = c1
  c2 = c2
  Clients <- OneClient
  MaxFlags <- NoFlags
  MaxHeartbeats <- Heartbeats
SPECIFICATION FairSpec
PROPERTY HeartbeatsGoOn
CHECK_DEADLOCK FALSE
