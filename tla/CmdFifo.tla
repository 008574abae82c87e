------------------------------- MODULE CmdFifo -------------------------------
(***************************************************************************)
(* The command path: udp_thread puts received commands into the ring       *)
(* netrecv, udp_dataprocess_task takes them out and puts replies into the  *)
(* ring netsend, udp_send_task takes those out and sends them through the  *)
(* tcpip thread.  Each ring is announced by a uC/OS-II semaphore.          *)
(*                                                                         *)
(* Neither ring has a lock of its own.  Writes to netrecv happen with      *)
(* interrupts off; everything else relies on the fixed priorities of the   *)
(* tasks, so the functions are modelled statement by statement and a task  *)
(* takes a step only while no task of higher priority is ready.            *)
(***************************************************************************)
EXTENDS Naturals, Sequences

CONSTANTS
  NETRECV_FIFO_NUM,
  NETSEND_FIFO_NUM,
  SemMax,            (* largest count of a semaphore: 65535 in uC/OS-II *)
  Commands           (* events of the packets that arrive *)

(* WATCH_IMAGE is handled without blocking, SET_PARA stands for the events *)
(* that only write the EEPROM, SET_SHUTTER for SET_DETECTPARA and          *)
(* SET_PARA_RESET, which also call cmos_set_Shutter, DEFAULT for an event  *)
(* no case of the switch takes.                                            *)
Events == {"WATCH_IMAGE", "SET_PARA", "SET_SHUTTER", "GET_CAMVER", "GET_CAMINFO", "DEFAULT"}

ASSUME FifoAssumption ==
  /\ NETRECV_FIFO_NUM \in Nat \ {0, 1}
  /\ NETSEND_FIFO_NUM \in Nat \ {0, 1}
  /\ SemMax \in Nat
  /\ SemMax + 1 >= NETRECV_FIFO_NUM
  /\ SemMax + 1 >= NETSEND_FIFO_NUM
  /\ Commands \subseteq Events

VARIABLES
  netrecvfifordpos, netrecvfifowrpos, netrecvfifobuf,
  netsendfifordpos, netsendfifowrpos, netsendfifobuf,
  msg_netrecvok, msg_netsendready,
  udp_flag,
  netrecv_line_buf, \* is byte 0 0xAA, is byte 1 0xAC, which event follows?
  udp,              \* control of udp_thread
  dp,               \* control of udp_dataprocess_task
  event,            \* event of the command it handles
  temp,             \* `temp` of netsend_fifo_write
  sp                \* control of udp_send_task

recvVars == <<netrecvfifordpos, netrecvfifowrpos, netrecvfifobuf, msg_netrecvok>>
sendVars == <<netsendfifordpos, netsendfifowrpos, netsendfifobuf, msg_netsendready>>
udpVars  == <<netrecv_line_buf, udp>>
dpVars   == <<dp, event, temp>>
vars     == <<recvVars, sendVars, udp_flag, udpVars, dpVars, sp>>

(* The line buffer, and a command, as three cells: two bytes of head and   *)
(* the rest.                                                               *)
LINE_SIZE == 3
Lines(E) == [head1 : BOOLEAN, head2 : BOOLEAN, event : E]

(* What arrives: a pbuf that holds the first len cells of a command, none  *)
(* included, or one that is longer than the line buffer.                   *)
Packets == [len : 0..LINE_SIZE+1, line : Lines(Commands)]

Init ==
  /\ netrecvfifordpos = 0 /\ netrecvfifowrpos = 0 /\ msg_netrecvok = 0
  /\ netrecvfifobuf = [s \in 0..NETRECV_FIFO_NUM-1 |-> "DEFAULT"]
  /\ netsendfifordpos = 0 /\ netsendfifowrpos = 0 /\ msg_netsendready = 0
  /\ netsendfifobuf = [s \in 0..NETSEND_FIFO_NUM-1 |-> "DEFAULT"]
  /\ udp_flag = 0
  /\ netrecv_line_buf \in Lines(Commands)   \* as the SDRAM comes up
  /\ udp = "connect" /\ dp = "flag" /\ event = "DEFAULT" /\ temp = 0 /\ sp = "pend"

-----------------------------------------------------------------------------
(* The scheduler.                                                          *)

(* Fault: the tcpip thread is given the lowest priority.                   *)
Prio_TcpipLast == [send |-> 3, dataprocess |-> 4, tcpip |-> 7, udp |-> 6]

(* The priorities of the four tasks (a smaller number is more urgent).     *)
Prio == [send |-> 3, dataprocess |-> 4, tcpip |-> 5, udp |-> 6]

(* A task is ready unless it waits for a semaphore, a delay or an answer   *)
(* of the tcpip thread; that thread has work when a task waits for it.     *)
Ready(t) ==
  \/ t = "send" /\ sp # "wait" /\ (sp = "pend" => msg_netsendready > 0)
  \/ t = "dataprocess" /\ dp \notin {"delay", "save", "save2", "shutter"}
                       /\ (dp = "pend" => msg_netrecvok > 0)
  \/ t = "tcpip" /\ sp = "wait"
  \/ t = "udp"

(* Interrupts are off, and so no task is switched, while udp_thread walks  *)
(* along the pbufs of a packet.                                            *)
Runs(t) ==
  IF udp = "walk" THEN t = "udp"
  ELSE Ready(t) /\ \A u \in DOMAIN Prio : Prio[u] < Prio[t] => ~Ready(u)

(* OSSemPost: the count sticks at its limit.                               *)
OSSemPost(cnt) == IF cnt < SemMax THEN cnt + 1 ELSE cnt

(* Fault: a position wraps one slot too late.                              *)
Wrap_Late(pos, num) == IF pos > num THEN 0 ELSE pos

(* A position that has run past the last slot starts again at 0.           *)
Wrap(pos, num) == IF pos >= num THEN 0 ELSE pos

-----------------------------------------------------------------------------
(* udp_thread.                                                             *)
UdpConnect ==
  /\ Runs("udp") /\ udp = "connect"
  /\ udp' = "recv"
  /\ udp_flag' = 1
  /\ UNCHANGED <<recvVars, sendVars, netrecv_line_buf, dpVars, sp>>

(* netconn_recv reports that the connection is gone.                       *)
UdpClose ==
  /\ Runs("udp") /\ udp = "recv"
  /\ udp' = "connect"
  /\ udp_flag' = 0
  /\ UNCHANGED <<recvVars, sendVars, netrecv_line_buf, dpVars, sp>>

(* Fault: no slot is kept free, a full ring looks empty.                   *)
netrecv_fifo_write_NoFull(cmd) ==
  LET wr == Wrap(netrecvfifowrpos + 1, NETRECV_FIFO_NUM)
  IN  /\ netrecvfifowrpos' = wr
      /\ netrecvfifobuf' = [netrecvfifobuf EXCEPT ![wr] = cmd]

(* Called with interrupts off, so it is one step.                          *)
netrecv_fifo_write(cmd) ==
  LET wr == Wrap(netrecvfifowrpos + 1, NETRECV_FIFO_NUM)
  IN  IF netrecvfifordpos = wr
      THEN UNCHANGED <<netrecvfifowrpos, netrecvfifobuf>>
      ELSE /\ netrecvfifowrpos' = wr
           /\ netrecvfifobuf' = [netrecvfifobuf EXCEPT ![wr] = cmd]

(* The line buffer after packet p: a packet that is too long is not copied *)
(* into it, a short one leaves the rest of it as it was.                   *)
LineAfter(p) ==
  LET copied(n) == n <= p.len /\ p.len <= LINE_SIZE
  IN  [head1 |-> IF copied(1) THEN p.line.head1 ELSE netrecv_line_buf.head1,
       head2 |-> IF copied(2) THEN p.line.head2 ELSE netrecv_line_buf.head2,
       event |-> IF copied(3) THEN p.line.event ELSE netrecv_line_buf.event]

Headed(line) == line.head1 /\ line.head2

(* Fault: the command is queued and nobody is told.                        *)
UdpRecv_NoPost(line, more) ==
  /\ Runs("udp") /\ udp \in {"recv", "walk"}
  /\ udp' = IF more THEN "walk" ELSE "recv"
  /\ netrecv_line_buf' = line
  /\ IF Headed(line)
     THEN netrecv_fifo_write(line.event)
     ELSE UNCHANGED <<netrecvfifowrpos, netrecvfifobuf>>
  /\ UNCHANGED <<netrecvfifordpos, msg_netrecvok, sendVars, udp_flag, dpVars, sp>>

(* A packet arrives, or the walk comes to its next pbuf, and leaves `line` *)
(* in the line buffer; the semaphore is posted whether or not the command  *)
(* fits.                                                                   *)
UdpRecv(line, more) ==
  /\ Runs("udp") /\ udp \in {"recv", "walk"}
  /\ udp' = IF more THEN "walk" ELSE "recv"
  /\ netrecv_line_buf' = line
  /\ IF Headed(line)
     THEN /\ netrecv_fifo_write(line.event)
          /\ msg_netrecvok' = OSSemPost(msg_netrecvok)
     ELSE UNCHANGED <<netrecvfifowrpos, netrecvfifobuf, msg_netrecvok>>
  /\ UNCHANGED <<netrecvfifordpos, sendVars, udp_flag, dpVars, sp>>

udp_thread ==
  \/ UdpConnect
  \/ UdpClose
  \/ \E line \in {LineAfter(p) : p \in Packets}, more \in BOOLEAN : UdpRecv(line, more)

-----------------------------------------------------------------------------
(* udp_dataprocess_task.                                                   *)
DpGoto(from, to) == Runs("dataprocess") /\ dp = from /\ dp' = to

DpFlag ==
  /\ DpGoto("flag", IF udp_flag = 1 THEN "pend" ELSE "delay")
  /\ UNCHANGED <<recvVars, sendVars, udp_flag, udpVars, event, temp, sp>>

DpPend ==
  /\ DpGoto("pend", "read")
  /\ msg_netrecvok' = msg_netrecvok - 1
  /\ UNCHANGED <<netrecvfifordpos, netrecvfifowrpos, netrecvfifobuf, sendVars, udp_flag,
                 udpVars, event, temp, sp>>

(* netrecv_fifo_read: empty, or the read position moves...                 *)
DpReadEmpty ==
  /\ DpGoto("read", "flag")
  /\ netrecvfifordpos = netrecvfifowrpos
  /\ UNCHANGED <<recvVars, sendVars, udp_flag, udpVars, event, temp, sp>>

DpRead ==
  /\ DpGoto("read", "read2")
  /\ netrecvfifordpos # netrecvfifowrpos
  /\ netrecvfifordpos' = netrecvfifordpos + 1
  /\ UNCHANGED <<netrecvfifowrpos, netrecvfifobuf, msg_netrecvok, sendVars, udp_flag,
                 udpVars, event, temp, sp>>

(* ...and wraps; the packet is copied out of its slot.                     *)
DpRead2 ==
  /\ DpGoto("read2", "switch")
  /\ netrecvfifordpos' = Wrap(netrecvfifordpos, NETRECV_FIFO_NUM)
  /\ event' = netrecvfifobuf[netrecvfifordpos']
  /\ UNCHANGED <<netrecvfifowrpos, netrecvfifobuf, msg_netrecvok, sendVars, udp_flag,
                 udpVars, temp, sp>>

(* An event that is ignored, changes nothing or needs no delay ends the    *)
(* pass; a changed value is saved; GET_CAMINFO saves changed AOI values    *)
(* before it replies; a new exposure is saved and goes to the sensor.      *)
DpSwitch ==
  /\ \/ event \notin {"GET_CAMVER", "GET_CAMINFO"} /\ DpGoto("switch", "flag")
     \/ event = "SET_PARA" /\ DpGoto("switch", "save2")
     \/ event = "SET_SHUTTER" /\ DpGoto("switch", "shutter")
     \/ event \in {"GET_CAMVER", "GET_CAMINFO"} /\ DpGoto("switch", "write")
     \/ event = "GET_CAMINFO" /\ DpGoto("switch", "save")
  /\ UNCHANGED <<recvVars, sendVars, udp_flag, udpVars, event, temp, sp>>

(* cmos_set_Shutter after a wait: a register that does not read back what  *)
(* was written is written again, as often as it takes; then the case ends, *)
(* or SET_PARA_RESET goes on to save.                                      *)
DpShutter ==
  /\ \E next \in {"shutter", "save2", "flag"} : DpGoto("readback", next)
  /\ UNCHANGED <<recvVars, sendVars, udp_flag, udpVars, event, temp, sp>>

(* netsend_fifo_write: wrpos++, wrap, test for full, copy byte by byte.    *)
DpWrite ==
  /\ DpGoto("write", "wrap")
  /\ temp' = netsendfifowrpos
  /\ netsendfifowrpos' = netsendfifowrpos + 1
  /\ UNCHANGED <<recvVars, netsendfifordpos, netsendfifobuf, msg_netsendready, udp_flag,
                 udpVars, event, sp>>

DpWrap ==
  /\ DpGoto("wrap", "full")
  /\ netsendfifowrpos' = Wrap(netsendfifowrpos, NETSEND_FIFO_NUM)
  /\ UNCHANGED <<recvVars, netsendfifordpos, netsendfifobuf, msg_netsendready, udp_flag,
                 udpVars, event, temp, sp>>

DpFull ==
  /\ DpGoto("full", IF netsendfifordpos = netsendfifowrpos THEN "post" ELSE "copy")
  /\ netsendfifowrpos' = IF netsendfifordpos = netsendfifowrpos THEN temp ELSE netsendfifowrpos
  /\ UNCHANGED <<recvVars, netsendfifordpos, netsendfifobuf, msg_netsendready, udp_flag,
                 udpVars, event, temp, sp>>

(* A slot that is half copied holds no packet.                             *)
DpCopy ==
  /\ DpGoto("copy", "copy2")
  /\ netsendfifobuf' = [netsendfifobuf EXCEPT ![netsendfifowrpos] = "torn"]
  /\ UNCHANGED <<recvVars, netsendfifordpos, netsendfifowrpos, msg_netsendready, udp_flag,
                 udpVars, event, temp, sp>>

DpCopy2 ==
  /\ DpGoto("copy2", "post")
  /\ netsendfifobuf' = [netsendfifobuf EXCEPT ![netsendfifowrpos] = event]
  /\ UNCHANGED <<recvVars, netsendfifordpos, netsendfifowrpos, msg_netsendready, udp_flag,
                 udpVars, event, temp, sp>>

(* Fault: the send task is not told about the reply.                       *)
DpPost_Lost ==
  /\ DpGoto("post", "flag")
  /\ UNCHANGED <<recvVars, sendVars, udp_flag, udpVars, event, temp, sp>>

(* Posted also when the write failed.  GET_CAMINFO has no break and runs   *)
(* into SET_STARTY240, which saves the row if it is in range.              *)
DpPost ==
  /\ \/ DpGoto("post", "flag")
     \/ event = "GET_CAMINFO" /\ DpGoto("post", "save2")
  /\ msg_netsendready' = OSSemPost(msg_netsendready)
  /\ UNCHANGED <<recvVars, netsendfifordpos, netsendfifowrpos, netsendfifobuf, udp_flag,
                 udpVars, event, temp, sp>>

udp_dataprocess_task ==
  \/ DpFlag \/ DpPend \/ DpReadEmpty \/ DpRead \/ DpRead2 \/ DpSwitch
  \/ DpShutter \/ DpWrite \/ DpWrap \/ DpFull \/ DpCopy \/ DpCopy2 \/ DpPost

(* The tick ends a delay: the pause while the connection is down, the      *)
(* 10 ms after each EEPROM byte ("save" before a reply, "save2" at the     *)
(* end of a case), which another byte may follow, or the 5 ms between a    *)
(* write to the sensor and its reading back.                               *)
DpDelayEnds ==
  /\ udp # "walk"
  /\ \/ dp = "delay" /\ dp' = "flag"
     \/ dp = "save"  /\ dp' = "write"
     \/ dp = "save2" /\ dp' = "flag"
     \/ dp = "shutter" /\ dp' = "readback"
  /\ UNCHANGED <<recvVars, sendVars, udp_flag, udpVars, event, temp, sp>>

-----------------------------------------------------------------------------
(* udp_send_task and the tcpip thread it waits for.                        *)
SpGoto(from, to) == Runs("send") /\ sp = from /\ sp' = to

SpPend ==
  /\ SpGoto("pend", "read")
  /\ msg_netsendready' = msg_netsendready - 1
  /\ UNCHANGED <<recvVars, netsendfifordpos, netsendfifowrpos, netsendfifobuf, udp_flag,
                 udpVars, dpVars>>

(* netsend_fifo_read: empty, or the read position moves...                 *)
SpRead ==
  /\ SpGoto("read", IF netsendfifordpos = netsendfifowrpos THEN "pend" ELSE "read2")
  /\ netsendfifordpos' = IF netsendfifordpos = netsendfifowrpos THEN netsendfifordpos
                                                               ELSE netsendfifordpos + 1
  /\ UNCHANGED <<recvVars, netsendfifowrpos, netsendfifobuf, msg_netsendready, udp_flag,
                 udpVars, dpVars>>

(* Fault: the read position is not wrapped.                                *)
SpRead2_NoWrap ==
  /\ SpGoto("read2", "wait")
  /\ UNCHANGED <<recvVars, sendVars, udp_flag, udpVars, dpVars>>

(* ...wrap, copy the slot into a netbuf, and wait in netconn_send.         *)
SpRead2 ==
  /\ SpGoto("read2", "wait")
  /\ netsendfifordpos' = Wrap(netsendfifordpos, NETSEND_FIFO_NUM)
  /\ UNCHANGED <<recvVars, netsendfifowrpos, netsendfifobuf, msg_netsendready, udp_flag,
                 udpVars, dpVars>>

(* tcpip_thread hands the packet to the driver and wakes the sender.       *)
tcpip_thread ==
  /\ Runs("tcpip")
  /\ sp' = "sent"
  /\ UNCHANGED <<recvVars, sendVars, udp_flag, udpVars, dpVars>>

(* The send failed because the connection is gone, or it did not.          *)
SpSent ==
  /\ SpGoto("sent", "pend")
  /\ udp_flag' \in {udp_flag, 0}
  /\ UNCHANGED <<recvVars, sendVars, udpVars, dpVars>>

udp_send_task == SpPend \/ SpRead \/ SpRead2 \/ SpSent

Next ==
  \/ udp_thread
  \/ udp_dataprocess_task
  \/ DpDelayEnds
  \/ udp_send_task
  \/ tcpip_thread

Spec == Init /\ [][Next]_vars

(* A task that stays ready runs, and the pbufs of a packet end; udp_thread *)
(* need not receive any.  A tick that comes with interrupts off is taken   *)
(* afterwards, so a delay ends however many packets arrive.  The tcpip     *)
(* thread also runs when udp_dataprocess_task only pauses, time and again, *)
(* for a while: a delay is far longer than the thread needs for a packet.  *)
Fairness ==
  /\ WF_vars(udp_dataprocess_task)
  /\ SF_vars(DpDelayEnds)
  /\ WF_vars(udp = "walk" /\ \E p \in Packets : UdpRecv(LineAfter(p), FALSE))
  /\ WF_vars(udp_send_task)
  /\ SF_vars(tcpip_thread)

FairSpec == Spec /\ Fairness

-----------------------------------------------------------------------------
(* Positions lie inside the rings except for the step before they are      *)
(* wrapped, and no counter leaves its range.                               *)
RecvTypes ==
  /\ netrecvfifordpos \in 0..NETRECV_FIFO_NUM
  /\ netrecvfifordpos = NETRECV_FIFO_NUM => dp = "read2"
  /\ netrecvfifowrpos \in 0..NETRECV_FIFO_NUM-1
  /\ netrecvfifobuf \in [0..NETRECV_FIFO_NUM-1 -> Events]
  /\ msg_netrecvok \in 0..SemMax

SendTypes ==
  /\ netsendfifordpos \in 0..NETSEND_FIFO_NUM
  /\ netsendfifordpos = NETSEND_FIFO_NUM => sp = "read2"
  /\ netsendfifowrpos \in 0..NETSEND_FIFO_NUM
  /\ netsendfifowrpos = NETSEND_FIFO_NUM => dp = "wrap"
  /\ netsendfifobuf \in [0..NETSEND_FIFO_NUM-1 -> Events \cup {"torn"}]
  /\ msg_netsendready \in 0..SemMax
  /\ temp \in 0..NETSEND_FIFO_NUM-1

LineTypes == netrecv_line_buf \in Lines(Events)

TaskTypes ==
  /\ udp_flag \in 0..1
  /\ udp \in {"connect", "recv", "walk"}
  /\ dp \in {"flag", "delay", "pend", "read", "read2", "switch", "save", "write", "wrap",
             "full", "copy", "copy2", "post", "save2", "shutter", "readback"}
  /\ event \in Events
  /\ sp \in {"pend", "read", "read2", "wait", "sent"}

TypeOK == RecvTypes /\ SendTypes /\ LineTypes /\ TaskTypes

(* The k-th unread slot of a ring and the number of them.                  *)
Slot(rd, k, num) == IF rd + k < num THEN rd + k ELSE rd + k - num
Used(rd, wr, num) == IF rd <= wr THEN wr - rd ELSE wr + num - rd
Unread(rd, wr, num, buf) == [k \in 1..Used(rd, wr, num) |-> buf[Slot(rd, k, num)]]

(* The positions as the abstract queue sees them: a position about to wrap *)
(* stands for 0, and a reply is in the queue once it has been copied.      *)
RecvRd == Wrap(netrecvfifordpos, NETRECV_FIFO_NUM)
SendRd == Wrap(netsendfifordpos, NETSEND_FIFO_NUM)
Writing == dp \in {"wrap", "full", "copy", "copy2"}
SendWr == IF Writing THEN temp ELSE netsendfifowrpos

RecvUsed == Used(RecvRd, netrecvfifowrpos, NETRECV_FIFO_NUM)
SendUsed == Used(SendRd, SendWr, NETSEND_FIFO_NUM)

(* The ring of commands is a queue of NETRECV_FIFO_NUM - 1 places: no      *)
(* command is lost once accepted, taken twice or overwritten while it is   *)
(* handled, whichever task is interrupted where.                           *)
RecvQueue == INSTANCE MsgQueue WITH
  Msg <- Events, Cap <- NETRECV_FIFO_NUM - 1,
  q   <- Unread(RecvRd, netrecvfifowrpos, NETRECV_FIFO_NUM, netrecvfifobuf),
  out <- netrecvfifobuf[RecvRd]

(* The ring of replies is a queue too, and a reply that is still being     *)
(* copied is never sent.                                                   *)
SendQueue == INSTANCE MsgQueue WITH
  Msg <- Events, Cap <- NETSEND_FIFO_NUM - 1,
  q   <- Unread(SendRd, SendWr, NETSEND_FIFO_NUM, netsendfifobuf),
  out <- netsendfifobuf[SendRd]

RecvRefines == RecvQueue!Spec
SendRefines == SendQueue!Spec

(* The semaphores never fall behind the rings: every unread message has a  *)
(* post that its reader has not consumed, although failed writes post and  *)
(* the counts saturate.                                                    *)
RecvPosted == RecvUsed <= msg_netrecvok + (IF dp = "read" THEN 1 ELSE 0)
SendPosted == SendUsed <= msg_netsendready + (IF sp = "read" THEN 1 ELSE 0)
                                           + (IF dp = "post" THEN 1 ELSE 0)

NoneStranded == RecvPosted /\ SendPosted

(* A reply never meets a full ring when that ring is at least as long as   *)
(* the ring of commands (both have 60 slots): udp_thread takes no packet   *)
(* while a reply waits to be sent.                                         *)
ReplyFits ==
  NETSEND_FIFO_NUM >= NETRECV_FIFO_NUM /\ dp = "full" => netsendfifordpos # netsendfifowrpos

(* While a reply is being written the send task is not ready, so it sees   *)
(* neither a position nor a slot half changed; and udp_thread never writes *)
(* while a command is read.                                                *)
WriteInv ==
  /\ udp = "walk" => ~Writing /\ dp \notin {"read", "read2"}
  /\ Writing => ~Ready("send")
  /\ dp = "wrap" => netsendfifowrpos = temp + 1
  /\ dp \in {"full", "copy", "copy2"} => netsendfifowrpos = Wrap(temp + 1, NETSEND_FIFO_NUM)
  /\ dp \in {"copy", "copy2"} => netsendfifowrpos # netsendfifordpos

(* The sensor always reads back in the end what was written to it; nothing *)
(* in the code makes it so (MT9P031D.c:115, 125), and no fairness says it. *)
SensorAnswers == []<>(dp \notin {"shutter", "readback"})

(* With a sensor that answers, every accepted command is eventually taken  *)
(* unless the link goes down.                                              *)
CommandTaken ==
  SensorAnswers =>
    \A s \in 0..NETRECV_FIFO_NUM-1 :
      (\E k \in 1..RecvUsed : s = Slot(RecvRd, k, NETRECV_FIFO_NUM))
        ~> (RecvRd = s \/ udp_flag = 0)

(* Every queued reply is eventually taken for sending, even while the      *)
(* sensor does not answer.                                                 *)
ReplyTaken ==
  \A s \in 0..NETSEND_FIFO_NUM-1 :
    (\E k \in 1..SendUsed : s = Slot(SendRd, k, NETSEND_FIFO_NUM)) ~> (SendRd = s)
=============================================================================
