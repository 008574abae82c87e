SPECIFICATION Spec
CONSTANTS
  BYTE = 3
  MARK = 1
  EXPMIN = 2
  EXPMAX = 4
  AOIMAX = 3
  HMIN = 1
  ROWMAX = 1
  IDMAX = 1
  Default <- MCDefault
  Lossy = FALSE
  EarlyCommands = TRUE
INVARIANT SensorFollows
