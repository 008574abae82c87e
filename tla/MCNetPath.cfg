SPECIFICATION Spec
CONSTANTS
  ETH_RX_DESC_CNT = 2
  MEMP_NUM_TCPIP_MSG_INPKT = 1
  MEMP_NUM_NETBUF = 2
  MAX_QUEUE_ENTRIES = 4
  NETRECV_FIFO_NUM = 2
  NETSEND_FIFO_NUM = 2
  ImgPackets = 3
  NONE = NONE
CHECK_DEADLOCK FALSE
INVARIANTS TypeOK MailboxesOpen DescriptorsInOrder PoliteSafe
PROPERTY Served
