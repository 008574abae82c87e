SPECIFICATION FairSpec
CONSTANTS
  Banks = {"SRAMIN", "SRAMEX"}
  Tables <- MCAmple
  memblksize = 2
  NULL = NULL
  Para <- MCPara
  Nets <- MCNets
  Unchecked <- MCUnchecked
  Stks <- MCStks
  RETRIES = 5
PROPERTY StartsWithLink
