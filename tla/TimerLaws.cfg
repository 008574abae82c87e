SPECIFICATION Spec
CONSTANTS
  U32 = 18
  MSEC = 2
  OS_TICKS_PER_SEC = 2
  IP_TMR_INTERVAL = 4
  ARP_TMR_INTERVAL = 7
  MEMP_NUM_SYS_TIMEOUT = 2
  MboxBound = 1
  Lag = 1
  NULL = NULL
  Msg = {m}
INVARIANTS TypeOK AllArmed NeverLate NotEarly
PROPERTIES TimersFire
