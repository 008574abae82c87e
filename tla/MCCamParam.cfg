SPECIFICATION Spec
CONSTANTS
  BYTE = 3
  MARK = 1
  EXPMIN = 2
  EXPMAX = 4
  AOIMAX = 4
  HMIN = 1
  ROWMAX = 1
  IDMAX = 2
  Default <- MCDefault
  Lossy = TRUE
  EarlyCommands = FALSE
INVARIANTS TypeOK MarkerLast LiveIsSaved RowInRange PairsBounded SensorFollows
