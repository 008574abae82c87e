-------------------------------- MODULE MCBoot --------------------------------
(* Boot with blocks of two bytes and one slot in each message ring.        *)
EXTENDS Boot

MCPara == [name |-> "CurrentCamPara", bank |-> "SRAMEX", size |-> 2]

(* The buffers of netmem_malloc in its order; the three frame buffers are  *)
(* by far the largest.                                                     *)
MCNets ==
  << [name |-> "netcam_line_buf0", bank |-> "SRAMIN", size |-> 3],
     [name |-> "netcam_line_buf1", bank |-> "SRAMIN", size |-> 3],
     [name |-> "imgbuf0", bank |-> "SRAMEX", size |-> 4],
     [name |-> "imgbuf1", bank |-> "SRAMEX", size |-> 4],
     [name |-> "imgbuf2", bank |-> "SRAMEX", size |-> 4],
     [name |-> "netsendfifobuf", bank |-> "SRAMEX", size |-> 1],
     [name |-> "netrecvfifobuf", bank |-> "SRAMEX", size |-> 1],
     [name |-> "netsend_line_buf", bank |-> "SRAMEX", size |-> 1],
     [name |-> "netrecv_line_buf", bank |-> "SRAMEX", size |-> 1] >>

MCUnchecked == {"imgbuf0", "imgbuf1", "imgbuf2"}

MCStks ==
  << [name |-> "TCPIP_THREAD_TASK_STK", bank |-> "SRAMIN", size |-> 4],
     [name |-> "LWIP_DHCP_TASK_STK", bank |-> "SRAMIN", size |-> 1] >>

(* Pools that are large enough for every buffer and two or three attempts, *)
(* and pools in which some buffer does not fit.                            *)
MCTables == [SRAMIN : {3, 6, 11, 12}, SRAMEX : {8, 10, 11, 13}]

(* Pools that are large enough for every buffer and for three attempts.    *)
MCAmple == [SRAMIN : {13}, SRAMEX : {11}]
=============================================================================
