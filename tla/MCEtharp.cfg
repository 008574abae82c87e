SPECIFICATION Spec
CONSTANTS
  U32 = 7
  MSEC = 1
  OS_TICKS_PER_SEC = 1
  IP_TMR_INTERVAL = 3
  ARP_TMR_INTERVAL = 5
  MEMP_NUM_SYS_TIMEOUT = 2
  MboxBound = 1
  Lag = 1
  NULL = NULL
  Peer = Peer
  Addr = {Peer, h1, h2}
  Msg = {m}
  ARP_TABLE_SIZE = 2
  ARP_MAXAGE = 3
  ARP_AGE_REREQUEST_USED = 1
  ARP_MAXPENDING = 2
INVARIANTS TypeOK TableSound
PROPERTIES LeastDestructive
SYMMETRY Others
