-------------------------------- MODULE NetPath --------------------------------
(***************************************************************************)
(* The way of a packet through the camera: the Ethernet DMA and its        *)
(* receive descriptors, the interrupt handler that passes one frame to     *)
(* tcpip_thread, the lwIP connection udpconn from which udp_thread         *)
(* receives, and the two tasks, udp_send_task and imgcamera_task, that     *)
(* send through the same connection.                                       *)
(*                                                                         *)
(* udp_dataprocess_task and the two rings around it are modelled in        *)
(* CmdFifo; here they only count what waits in them.  What a frame holds   *)
(* is chosen when somebody looks at it.                                    *)
(***************************************************************************)
EXTENDS Naturals, Sequences, FiniteSets

CONSTANTS
  ETH_RX_DESC_CNT,
  MEMP_NUM_TCPIP_MSG_INPKT, MEMP_NUM_NETBUF,
  MAX_QUEUE_ENTRIES,        (* size of the mailboxes of tcpip_thread and udpconn *)
  NETRECV_FIFO_NUM, NETSEND_FIFO_NUM,
  ImgPackets,               (* packets of an image, the short one at its end included *)
  NONE

ASSUME NetAssumption ==
  /\ {ETH_RX_DESC_CNT, MEMP_NUM_TCPIP_MSG_INPKT, MEMP_NUM_NETBUF} \subseteq Nat \ {0}
  /\ {NETRECV_FIFO_NUM, NETSEND_FIFO_NUM} \subseteq Nat \ {0, 1}
  /\ ImgPackets \in Nat /\ ImgPackets >= 2
  /\ MAX_QUEUE_ENTRIES \in Nat
  /\ MAX_QUEUE_ENTRIES > MEMP_NUM_TCPIP_MSG_INPKT + 2
  /\ MAX_QUEUE_ENTRIES > MEMP_NUM_NETBUF

VARIABLES
  own,               \* does the DMA own receive descriptor d?
  dma,               \* descriptor the DMA fills next
  CurRxDesc, current_pbuf_idx,
  RI,                \* the receive flag of the DMA, which raises the interrupt
  isr,               \* control of ETH_IRQHandler
  mbox,              \* mailbox of tcpip_thread
  cur,               \* message tcpip_thread handles, or NONE
  recvmbox,          \* netbufs received on udpconn: the frames they refer to
  udp,               \* control of udp_thread
  recvbuf,           \* frame of the netbuf it holds, or NONE
  netrecv, netsend,  \* commands and replies waiting in the rings
  dp,                \* control of udp_dataprocess_task
  pc,                \* control of the two tasks that send
  left,              \* packets of the image that are still to be sent
  op_completed,      \* count of the semaphore of udpconn
  fault,             \* was memory used that is not there any more?
  polite             \* did the host so far send only to an idle camera?

rxVars  == <<own, dma, CurRxDesc, current_pbuf_idx, RI, isr>>
ipVars  == <<mbox, cur, recvmbox>>
udpVars == <<udp, recvbuf>>
dpVars  == <<netrecv, netsend, dp>>
outVars == <<pc, left, op_completed>>
vars == <<rxVars, ipVars, udpVars, dpVars, outVars, fault, polite>>

Desc == 0..ETH_RX_DESC_CNT-1

(* Fault: the index is set back one too late.                              *)
Incr_Late(d) == IF d < ETH_RX_DESC_CNT THEN d + 1 ELSE 0

(* INCR_RX_DESC_INDEX, and the wrap of current_pbuf_idx.                   *)
Incr(d) == (d + 1) % ETH_RX_DESC_CNT

(* A reference to a received frame: the custom pbuf, its buffer, and       *)
(* whether the two are still those of the frame.                           *)
Frame == [p : Desc, b : Desc, whole : BOOLEAN]

Senders == {"send", "img"}

(* A packet, or a call of a sender; a call is live until the sender        *)
(* returns from it, for the message lies on its stack.                     *)
Inpkt == [type : {"INPKT"}, f : Frame]
ApiMsg == [type : {"API"}, by : Senders, live : BOOLEAN]

ASSUME NoneAssumption == NONE \notin Frame \cup Inpkt \cup ApiMsg

Init ==
  /\ own = [d \in Desc |-> TRUE] /\ dma = 0 /\ CurRxDesc = 0 /\ current_pbuf_idx = 0
  /\ RI = FALSE /\ isr = "idle"
  /\ mbox = <<>> /\ cur = NONE /\ recvmbox = <<>>
  /\ udp = "recv" /\ recvbuf = NONE
  /\ netrecv = 0 /\ netsend = 0 /\ dp = "ready"
  /\ pc = [t \in Senders |-> "idle"] /\ left = 0 /\ op_completed = 0
  /\ fault = FALSE /\ polite = TRUE

-----------------------------------------------------------------------------
(* Pools, mailboxes and references.                                        *)
HoldsNetbuf(t) == pc[t] \in {"apimsg", "sem", "wait", "return"}

Netbufs == Len(recvmbox) + (IF udp = "recv" THEN 0 ELSE 1) + Cardinality({t \in Senders : HoldsNetbuf(t)})

Inpkts == Cardinality({i \in 1..Len(mbox) : mbox[i].type = "INPKT"})
            + (IF cur # NONE /\ cur.type = "INPKT" THEN 1 ELSE 0)

(* A mailbox that is full passes for one that does not exist.              *)
sys_mbox_valid(m) == Len(m) < MAX_QUEUE_ENTRIES

(* The references when those to the frames in lost are no longer whole.    *)
Lose(f, lost) == [f EXCEPT !.whole = @ /\ f \notin lost]
LoseMsg(m, lost) == IF m.type = "INPKT" THEN [m EXCEPT !.f = Lose(@, lost)] ELSE m
LoseMbox(q, lost) == [i \in DOMAIN q |-> LoseMsg(q[i], lost)]
LoseRecv(q, lost) == [i \in DOMAIN q |-> Lose(q[i], lost)]
LoseCur(lost) == IF cur = NONE THEN NONE ELSE LoseMsg(cur, lost)
LoseUdp(lost) == IF recvbuf = NONE THEN NONE ELSE Lose(recvbuf, lost)

(* Nothing is under way in the camera.                                     *)
Quiet ==
  /\ own = [d \in Desc |-> TRUE] /\ ~RI /\ isr = "idle"
  /\ mbox = <<>> /\ cur = NONE /\ recvmbox = <<>> /\ udp = "recv"
  /\ netrecv = 0 /\ netsend = 0 /\ dp = "ready"
  /\ \A t \in Senders : pc[t] = "idle"

-----------------------------------------------------------------------------
(* The scheduler: interrupts first, then the most urgent task.             *)
Prio == [send |-> 3, dataprocess |-> 4, tcpip |-> 5, udp |-> 6, img |-> 14]

Ready(t) ==
  \/ t = "send" /\ (pc.send \in {"apimsg", "sem", "return"} \/ (pc.send = "idle" /\ netsend > 0))
  \/ t = "dataprocess" /\ (dp \in {"reply", "readback"} \/ (dp = "ready" /\ netrecv > 0))
  \/ t = "tcpip" /\ (cur # NONE \/ mbox # <<>>)
  \/ t = "udp" /\ (udp # "recv" \/ recvmbox # <<>>)
  \/ t = "img" /\ pc.img \in {"new", "apimsg", "sem", "return"}

Runs(t) ==
  /\ ~fault /\ isr = "idle" /\ ~RI
  /\ Ready(t)
  /\ \A u \in DOMAIN Prio : Prio[u] < Prio[t] => ~Ready(u)

-----------------------------------------------------------------------------
(* The DMA puts a frame into its next descriptor; a frame that finds none  *)
(* is lost, and no interrupt tells.                                        *)
RxFrame ==
  /\ ~fault /\ own[dma]
  /\ own' = [own EXCEPT ![dma] = FALSE]
  /\ dma' = Incr(dma)
  /\ RI' = TRUE
  /\ LET lost == {f \in Frame : f.b = dma}
     IN  /\ mbox' = LoseMbox(mbox, lost) /\ cur' = LoseCur(lost)
         /\ recvmbox' = LoseRecv(recvmbox, lost) /\ recvbuf' = LoseUdp(lost)
  /\ polite' = (polite /\ Quiet)
  /\ UNCHANGED <<CurRxDesc, current_pbuf_idx, isr, udp, dpVars, outVars, fault>>

(* Fault: the frame is passed on although no message is left for it.       *)
tcpip_input_NoPool(q, f) ==
  IF sys_mbox_valid(q) THEN Append(q, [type |-> "INPKT", f |-> f]) ELSE q

(* tcpip_input: the frame goes to tcpip_thread if there is room.           *)
tcpip_input(q, f) ==
  IF sys_mbox_valid(q) /\ Inpkts < MEMP_NUM_TCPIP_MSG_INPKT
  THEN Append(q, [type |-> "INPKT", f |-> f])
  ELSE q

(* Fault: the descriptor that comes next is given back.                    *)
BuildRxDescriptors_Next(o, first) == [o EXCEPT ![Incr(first)] = TRUE]

(* HAL_ETH_BuildRxDescriptors: the descriptor goes back to the DMA.        *)
BuildRxDescriptors(o, first) == [o EXCEPT ![first] = TRUE]

(* ETH_IRQHandler: the frame of the current descriptor gets the next       *)
(* custom pbuf, is passed on or freed, and its descriptor goes back to the *)
(* DMA at once.                                                            *)
EthInput ==
  /\ ~fault /\ isr = "idle" /\ RI
  /\ isr' = "clear"
  /\ IF own[CurRxDesc]
     THEN UNCHANGED <<own, CurRxDesc, current_pbuf_idx, ipVars, recvbuf>>
     ELSE LET lost == {f \in Frame : f.p = current_pbuf_idx}
              f == [p |-> current_pbuf_idx, b |-> CurRxDesc, whole |-> TRUE]
          IN  /\ mbox' = tcpip_input(LoseMbox(mbox, lost), f) /\ cur' = LoseCur(lost)
              /\ recvmbox' = LoseRecv(recvmbox, lost) /\ recvbuf' = LoseUdp(lost)
              /\ CurRxDesc' = Incr(CurRxDesc)
              /\ current_pbuf_idx' = Incr(current_pbuf_idx)
              /\ own' = BuildRxDescriptors(own, CurRxDesc)
  /\ UNCHANGED <<dma, RI, udp, dpVars, outVars, fault, polite>>

(* Its end: the flag is cleared, also for a frame that came meanwhile.     *)
EthClear ==
  /\ ~fault /\ isr = "clear" /\ isr' = "idle" /\ RI' = FALSE
  /\ UNCHANGED <<own, dma, CurRxDesc, current_pbuf_idx, ipVars, udpVars, dpVars, outVars, fault, polite>>

-----------------------------------------------------------------------------
(* tcpip_thread.                                                           *)
TcpipFetch ==
  /\ Runs("tcpip") /\ cur = NONE
  /\ cur' = Head(mbox) /\ mbox' = Tail(mbox)
  /\ UNCHANGED <<rxVars, recvmbox, udpVars, dpVars, outVars, fault, polite>>

(* sys_sem_signal of op_completed: to the most urgent sender that waits,   *)
(* or into the count.                                                      *)
Signal ==
  LET waiting == {t \in Senders : pc[t] = "wait"}
  IN  IF waiting = {}
      THEN op_completed' = op_completed + 1 /\ UNCHANGED pc
      ELSE LET t == CHOOSE t \in waiting : \A u \in waiting : Prio[t] <= Prio[u]
           IN  pc' = [pc EXCEPT ![t] = "return"] /\ UNCHANGED op_completed

(* Fault: the end of do_send is not signalled.                             *)
do_send_NoAck ==
  /\ Runs("tcpip") /\ cur # NONE /\ cur.type = "API" /\ cur' = NONE
  /\ fault' = ~cur.live
  /\ UNCHANGED <<rxVars, mbox, recvmbox, udpVars, dpVars, outVars, polite>>

(* Fault: the end of do_send is signalled twice.                           *)
do_send_AckTwice ==
  /\ Runs("tcpip") /\ cur # NONE /\ cur.type = "API" /\ cur' = NONE
  /\ IF pc.send = "wait" THEN pc' = [pc EXCEPT !.send = "return"] /\ op_completed' = 1
                         ELSE op_completed' = 2 /\ UNCHANGED pc
  /\ UNCHANGED <<rxVars, mbox, recvmbox, udpVars, dpVars, left, fault, polite>>

(* do_send: the packet is sent and the caller told.  The message and the   *)
(* netbuf of a call that is over are memory that is not there any more.    *)
do_send ==
  /\ Runs("tcpip") /\ cur # NONE /\ cur.type = "API" /\ cur' = NONE
  /\ IF cur.live THEN Signal /\ UNCHANGED fault
                 ELSE fault' = TRUE /\ UNCHANGED <<pc, op_completed>>
  /\ UNCHANGED <<rxVars, mbox, recvmbox, udpVars, dpVars, left, polite>>

(* A packet for udpconn (recv_udp) becomes a netbuf if there is one.       *)
recv_udp ==
  /\ Runs("tcpip") /\ cur # NONE /\ cur.type = "INPKT" /\ cur' = NONE
  /\ sys_mbox_valid(recvmbox) /\ Netbufs < MEMP_NUM_NETBUF
  /\ recvmbox' = Append(recvmbox, cur.f)
  /\ UNCHANGED <<rxVars, mbox, udpVars, dpVars, outVars, fault, polite>>

(* A packet for somebody else, or one that finds no netbuf, is freed       *)
(* (pbuf_free): its custom pbuf is cleared, also for another frame that    *)
(* was given the same one.                                                 *)
Drop ==
  /\ Runs("tcpip") /\ cur # NONE /\ cur.type = "INPKT" /\ cur' = NONE
  /\ LET lost == {f \in Frame : f.p = cur.f.p}
     IN  /\ mbox' = LoseMbox(mbox, lost)
         /\ recvmbox' = LoseRecv(recvmbox, lost) /\ recvbuf' = LoseUdp(lost)
  /\ UNCHANGED <<rxVars, udp, dpVars, outVars, fault, polite>>

-----------------------------------------------------------------------------
(* udp_thread: a netbuf is received, its data go into the ring with        *)
(* interrupts off if they are a command, and it is deleted.                *)
UdpRecv ==
  /\ Runs("udp") /\ udp = "recv" /\ udp' = "copy"
  /\ sys_mbox_valid(recvmbox)
  /\ recvbuf' = Head(recvmbox) /\ recvmbox' = Tail(recvmbox)
  /\ UNCHANGED <<rxVars, mbox, cur, dpVars, outVars, fault, polite>>

UdpCopy(command) ==
  /\ Runs("udp") /\ udp = "copy" /\ udp' = "delete"
  /\ netrecv' = IF command /\ netrecv < NETRECV_FIFO_NUM-1 THEN netrecv + 1 ELSE netrecv
  /\ UNCHANGED <<rxVars, ipVars, recvbuf, netsend, dp, outVars, fault, polite>>

UdpDelete ==
  /\ Runs("udp") /\ udp = "delete" /\ udp' = "recv"
  /\ recvbuf' = NONE
  /\ LET lost == {f \in Frame : f.p = recvbuf.p}
     IN  /\ mbox' = LoseMbox(mbox, lost) /\ cur' = LoseCur(lost)
         /\ recvmbox' = LoseRecv(recvmbox, lost)
  /\ UNCHANGED <<rxVars, dpVars, outVars, fault, polite>>

(* udp_dataprocess_task takes a command that is no request for an image:   *)
(* it ends at once, goes on to a reply ("reply"), or waits for the EEPROM, *)
(* after which it ends ("save"), replies ("info") or sets the shutter      *)
(* ("exposure").                                                           *)
DpSwitch ==
  /\ Runs("dataprocess") /\ dp = "ready"
  /\ netrecv' = netrecv - 1 /\ dp' \in {"ready", "reply", "save", "info", "exposure"}
  /\ UNCHANGED <<rxVars, ipVars, udpVars, netsend, outVars, fault, polite>>

(* A request for an image, unless one is under way.  imgcamera_task knows  *)
(* three values of data2; of any other it sends nothing, and the request   *)
(* stands for ever ("stuck").                                              *)
WATCH_IMAGE(known) ==
  /\ Runs("dataprocess") /\ dp = "ready" /\ netrecv' = netrecv - 1
  /\ IF pc.img = "idle"
     THEN pc' = [pc EXCEPT !.img = IF known THEN "new" ELSE "stuck"] /\ left' = ImgPackets
     ELSE UNCHANGED <<pc, left>>
  /\ UNCHANGED <<rxVars, ipVars, udpVars, netsend, dp, op_completed, fault, polite>>

(* The reply; GET_CAMINFO falls through to SET_STARTY240, which may save.  *)
DpReply ==
  /\ Runs("dataprocess") /\ dp = "reply" /\ dp' \in {"ready", "save"}
  /\ netsend' = IF netsend < NETSEND_FIFO_NUM-1 THEN netsend + 1 ELSE netsend
  /\ UNCHANGED <<rxVars, ipVars, udpVars, netrecv, outVars, fault, polite>>

(* cmos_set_Shutter, 5 ms after a write: the sensor is read back, and if   *)
(* it does not hold the value, or there is the other half to set, it is    *)
(* written again.  After it SET_PARA_RESET goes on saving.                 *)
DpShutter ==
  /\ Runs("dataprocess") /\ dp = "readback" /\ dp' \in {"shutter", "ready", "save"}
  /\ UNCHANGED <<rxVars, ipVars, udpVars, netrecv, netsend, outVars, fault, polite>>

(* A wait is over, for the EEPROM or for the sensor.                       *)
DpDelayOver ==
  /\ ~fault
  /\ \/ dp = "save" /\ dp' = "ready"
     \/ dp = "info" /\ dp' = "reply"
     \/ dp = "exposure" /\ dp' = "shutter"
     \/ dp = "shutter" /\ dp' = "readback"
  /\ UNCHANGED <<rxVars, ipVars, udpVars, netrecv, netsend, outVars, fault, polite>>

-----------------------------------------------------------------------------
(* The tasks that send.  netbuf_new may find no netbuf, and its result is  *)
(* used unchecked.                                                         *)
NetbufNew(t) ==
  IF Netbufs < MEMP_NUM_NETBUF THEN pc' = [pc EXCEPT ![t] = "apimsg"] /\ UNCHANGED fault
                               ELSE fault' = TRUE /\ UNCHANGED pc

SendNew ==
  /\ Runs("send") /\ pc.send = "idle"
  /\ netsend' = netsend - 1
  /\ NetbufNew("send")
  /\ UNCHANGED <<rxVars, ipVars, udpVars, netrecv, dp, left, op_completed, polite>>

ImgNew ==
  /\ Runs("img") /\ pc.img = "new"
  /\ NetbufNew("img")
  /\ UNCHANGED <<rxVars, ipVars, udpVars, dpVars, left, op_completed, polite>>

(* tcpip_apimsg: the call is posted...                                     *)
tcpip_apimsg(t) ==
  /\ Runs(t) /\ pc[t] = "apimsg"
  /\ IF sys_mbox_valid(mbox)
     THEN /\ mbox' = Append(mbox, [type |-> "API", by |-> t, live |-> TRUE])
          /\ pc' = [pc EXCEPT ![t] = "sem"]
     ELSE pc' = [pc EXCEPT ![t] = "return"] /\ UNCHANGED mbox
  /\ UNCHANGED <<rxVars, cur, recvmbox, udpVars, dpVars, left, op_completed, fault, polite>>

(* ...and its end awaited (sys_arch_sem_wait).                             *)
SemWait(t) ==
  /\ Runs(t) /\ pc[t] = "sem"
  /\ IF op_completed > 0
     THEN op_completed' = op_completed - 1 /\ pc' = [pc EXCEPT ![t] = "return"]
     ELSE pc' = [pc EXCEPT ![t] = "wait"] /\ UNCHANGED op_completed
  /\ UNCHANGED <<rxVars, ipVars, udpVars, dpVars, left, fault, polite>>

(* The call returns, and with it goes its message.                         *)
Over(t, m) == IF m.type = "API" /\ m.by = t THEN [m EXCEPT !.live = FALSE] ELSE m
CallOver(t) ==
  /\ Runs(t) /\ pc[t] = "return"
  /\ mbox' = [i \in DOMAIN mbox |-> Over(t, mbox[i])]
  /\ cur' = IF cur = NONE THEN NONE ELSE Over(t, cur)
  /\ UNCHANGED <<rxVars, recvmbox, udpVars, dpVars, op_completed, fault, polite>>

SendReturn ==
  /\ CallOver("send")
  /\ pc' = [pc EXCEPT !.send = "idle"]
  /\ UNCHANGED left

(* imgcamera_task goes on to the next packet, with a new netbuf, or, among *)
(* the lines of an image of mode 0, with the same.                         *)
ImgReturn(next) ==
  /\ CallOver("img")
  /\ left' = left - 1
  /\ next \in (IF left' = 0 THEN {"idle"} ELSE IF left' = 1 THEN {"new"} ELSE {"new", "apimsg"})
  /\ pc' = [pc EXCEPT !.img = next]

-----------------------------------------------------------------------------
ETH_IRQHandler == EthInput \/ EthClear
tcpip_thread == TcpipFetch \/ do_send \/ recv_udp \/ Drop
udp_thread == UdpRecv \/ (\E command \in BOOLEAN : UdpCopy(command)) \/ UdpDelete
udp_dataprocess_task ==
  DpSwitch \/ (\E known \in BOOLEAN : WATCH_IMAGE(known)) \/ DpReply \/ DpShutter \/ DpDelayOver
udp_send_task == SendNew \/ tcpip_apimsg("send") \/ SemWait("send") \/ SendReturn
imgcamera_task ==
  ImgNew \/ tcpip_apimsg("img") \/ SemWait("img")
    \/ (\E next \in {"idle", "new", "apimsg"} : ImgReturn(next))

Next ==
  \/ RxFrame \/ ETH_IRQHandler
  \/ tcpip_thread \/ udp_thread \/ udp_dataprocess_task
  \/ udp_send_task \/ imgcamera_task

(* Interrupts are taken, a task that runs goes on, and a delay ends.       *)
Fairness ==
  /\ WF_vars(ETH_IRQHandler)
  /\ WF_vars(tcpip_thread) /\ WF_vars(udp_thread) /\ WF_vars(udp_dataprocess_task)
  /\ WF_vars(udp_send_task) /\ WF_vars(imgcamera_task)

Spec == Init /\ [][Next]_vars /\ Fairness

-----------------------------------------------------------------------------
(* Every variable has its type; in particular no custom pbuf or descriptor *)
(* outside of its array is ever named.                                     *)
TypeOK ==
  /\ own \in [Desc -> BOOLEAN] /\ {dma, CurRxDesc, current_pbuf_idx} \subseteq Desc
  /\ RI \in BOOLEAN /\ isr \in {"idle", "clear"}
  /\ mbox \in Seq(Inpkt \cup ApiMsg) /\ cur \in Inpkt \cup ApiMsg \cup {NONE}
  /\ recvmbox \in Seq(Frame) /\ recvbuf \in Frame \cup {NONE}
  /\ udp \in {"recv", "copy", "delete"} /\ (udp = "recv" <=> recvbuf = NONE)
  /\ netrecv \in 0..NETRECV_FIFO_NUM-1 /\ netsend \in 0..NETSEND_FIFO_NUM-1
  /\ dp \in {"ready", "reply", "save", "info", "exposure", "shutter", "readback"}
  /\ pc \in [Senders -> {"idle", "new", "apimsg", "sem", "wait", "return", "stuck"}]
  /\ left \in 0..ImgPackets /\ op_completed \in Nat
  /\ fault \in BOOLEAN /\ polite \in BOOLEAN

(* No mailbox is ever full, whatever the host sends: sys_mbox_valid never  *)
(* takes a mailbox for a missing one, so that netconn_recv never reports a *)
(* closed connection and udp_thread never closes it, tcpip_apimsg never    *)
(* refuses a call, and sys_mbox_post never spins.                          *)
MailboxesOpen == sys_mbox_valid(mbox) /\ sys_mbox_valid(recvmbox)

(* The driver and the DMA go round the ring in step, with the custom pbufs *)
(* beside them: the descriptors that the DMA does not own are those from   *)
(* CurRxDesc up to the one the DMA fills next, whatever was lost.          *)
DescriptorsInOrder ==
  LET full == Cardinality({d \in Desc : ~own[d]})
  IN  /\ \A k \in 0..ETH_RX_DESC_CNT-1 :
           own[(CurRxDesc + k) % ETH_RX_DESC_CNT] <=> k >= full
      /\ dma = (CurRxDesc + full) % ETH_RX_DESC_CNT
      /\ current_pbuf_idx = CurRxDesc

(* Every call in the mailbox of tcpip_thread is one its task still waits   *)
(* for: tcpip_apimsg does not return before the function was called.       *)
MessageLive ==
  /\ \A i \in 1..Len(mbox) : mbox[i].type = "API" => mbox[i].live
  /\ cur # NONE /\ cur.type = "API" => cur.live

(* Every frame that is referred to is still in its buffer.                 *)
FramesWhole ==
  /\ \A i \in 1..Len(mbox) : mbox[i].type = "INPKT" => mbox[i].f.whole
  /\ cur # NONE /\ cur.type = "INPKT" => cur.f.whole
  /\ \A i \in 1..Len(recvmbox) : recvmbox[i].whole
  /\ recvbuf # NONE => recvbuf.whole

(* A frame in a descriptor has its interrupt still to come.                *)
Announced == (\E d \in Desc : ~own[d]) => RI /\ isr = "idle"

(* As long as the host sends a packet only when the camera is done with    *)
(* the one before, and with the image it asked for, nothing goes wrong: no *)
(* task returns from tcpip_apimsg too early, no frame is overwritten, no   *)
(* interrupt is lost, and netbuf_new, whose result nobody checks, always   *)
(* finds a netbuf.                                                         *)
PoliteSafe == polite => ~fault /\ MessageLive /\ FramesWhole /\ Announced

(* The sensor does not for ever refuse the value that cmos_set_Shutter     *)
(* writes: its loops have no other end.                                    *)
SensorAnswers == []<>(dp \notin {"shutter", "readback"})

(* The host asks for images of the three modes only.                       *)
ModesKnown == [](pc.img # "stuck")

(* For such a host, if it asks only for images the camera knows and the    *)
(* sensor takes the shutter it is given, the camera always comes to the    *)
(* end of its work: every frame is handled, every command carried out,     *)
(* every reply and image sent, and every call of tcpip_apimsg answered.    *)
Served == []polite /\ ModesKnown /\ SensorAnswers => []<>Quiet

=============================================================================
