SPECIFICATION Spec
CONSTANTS
  Banks = {"SRAMIN", "SRAMEX"}
  Tables <- MCTables
  memblksize = 2
  NULL = NULL
  Para <- MCPara
  Nets <- MCNets
  Unchecked <- MCUnchecked
  Stks <- MCStks
  RETRIES = 5
INVARIANTS TypeOK PoolSound BuffersHeld
