SPECIFICATION FairSpec
CONSTANTS
  NETRECV_FIFO_NUM = 2
  NETSEND_FIFO_NUM = 2
  SemMax = 2
  Commands = {"SET_SHUTTER", "GET_CAMINFO"}
INVARIANTS TypeOK NoneStranded ReplyFits
PROPERTIES RecvRefines SendRefines CommandTaken ReplyTaken
