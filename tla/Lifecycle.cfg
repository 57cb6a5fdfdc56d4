SPECIFICATION Spec
CONSTANT Configs <- MCConfigs
CHECK_DEADLOCK FALSE
INVARIANTS
  TypeOK
  DeletedAfterEnd
  StopMeansSignalled
  PointersHold
PROPERTIES
  QuitStopsOnlyThere
