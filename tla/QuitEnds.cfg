SPECIFICATION Spec
CONSTANT Configs <- MCDefault
CHECK_DEADLOCK FALSE
PROPERTIES
  QuitEnds
