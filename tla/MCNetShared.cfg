SPECIFICATION Spec
CONSTANTS
  ETH_RX_DESC_CNT = 2
  MEMP_NUM_TCPIP_MSG_INPKT = 2
  MEMP_NUM_NETBUF = 2
  MAX_QUEUE_ENTRIES = 6
  NETRECV_FIFO_NUM = 3
  NETSEND_FIFO_NUM = 3
  ImgPackets = 3
  NONE = NONE
CHECK_DEADLOCK FALSE
INVARIANT MessageLive
