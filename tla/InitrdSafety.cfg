SPECIFICATION Spec
CONSTANTS Names <- UserNames
  InitialNames <- ImageFiles
  WIDTH = 4
  Garbage <- OldMemory
  MaxNodes = 3
INVARIANTS TypeOK ListedIsFound
PROPERTY OthersStay
CHECK_DEADLOCK FALSE
