\* Two scans that may overlap with each other and with main's check.
CONSTANTS
  main = main
  antidebug = antidebug
  Main = main
  AntiDebug = antidebug
  Workers = {}
  Scans = {s1, s2}
  NoThread = NoThread
  Checked <- MCChecked
  ContextOf <- MCContextOf
SPECIFICATION FairSpec
INVARIANTS TypeOK SuspendsBalanced
PROPERTIES SuspendedRunsAgain AlarmMeansSuspended
\* Scans that have suspended each other stop the client for good.
CHECK_DEADLOCK FALSE
