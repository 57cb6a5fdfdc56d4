SPECIFICATION Spec
CHECK_DEADLOCK FALSE
CONSTANTS
  g1 = g1
  g2 = g2
  e1 = e1
  e2 = e2
  e3 = e3
  Worker = Worker
  None = None
  Callers <- MCCallers
  Events <- MCEvents
  Valid <- MCValid
PROPERTIES
  EventsPushed
