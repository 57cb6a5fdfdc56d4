CONSTANTS
  c1 = c1
  c2 = c2
  Clients <- OneClient
  MaxFlags <- OneFlag
  MaxHeartbeats <- Heartbeats
SPECIFICATION Spec
INVARIANT FlagsSurvived
CHECK_DEADLOCK FALSE
