SPECIFICATION Spec
CHECK_DEADLOCK FALSE
CONSTANTS
  Pids = {8, 12}
  Byte = 2
  Answers <- MCAnswers
  Texts <- MCTexts
  MaxStarts = 2
  MaxChanges = 2
INVARIANTS
  TypeOK
  FlagHasGround
PROPERTIES
  BlacklistedFlagged
