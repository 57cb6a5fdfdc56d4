CONSTANTS
  c1 = c1
  c2 = c2
  Clients <- TwoClients
  MaxFlags <- FlagOfC2
  MaxHeartbeats <- Heartbeats
SPECIFICATION CallbackFairSpec
INVARIANTS TypeOK AnswersMatch OneWorker CallbackFindsClient
PROPERTIES DeadClientForgotten BeatsInTurn
CHECK_DEADLOCK FALSE
