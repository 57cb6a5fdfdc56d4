SPECIFICATION Spec
CHECK_DEADLOCK FALSE
CONSTANTS
  exe = exe
  big = big
  small = small
  late = late
  orig = orig
  swapped = swapped
  patched = patched
  Game = Game
  Monitor = Monitor
  None = None
  Main = exe
  Records <- MCRecords
  Later <- MCLater
  Count <- MCCount
  Signed <- MCSigned
  Bases <- MCBases
  Home <- MCHome
  Places <- MCPlaces
  Contents <- MCContents
  Original = orig
  Sum <- MCSum
  PageChecked <- MCPageChecked
  Changing <- MCChanging
  Worlds <- MCWorlds
INVARIANTS
  TypeOK
  VerdictsInOrder
  ViolationMeansChange
PROPERTIES
  LoadJudged
  TamperRecorded
