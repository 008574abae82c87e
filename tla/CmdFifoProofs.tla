---------------------------- MODULE CmdFifoProofs ----------------------------
(***************************************************************************)
(* Proofs about CmdFifo for rings of any length, any limit of the          *)
(* semaphores that is not below the rings' capacity, and any commands.     *)
(***************************************************************************)
EXTENDS CmdFifo, SequenceTheorems, TLAPS

(* What is unread is a sequence of the ring's contents.                    *)
LEMMA UnreadSeq ==
  ASSUME NEW num \in Nat \ {0}, NEW rd \in 0..num-1, NEW wr \in 0..num-1,
         NEW S, NEW buf \in [0..num-1 -> S]
  PROVE  /\ Used(rd, wr, num) \in 0..num-1
         /\ Unread(rd, wr, num, buf) \in Seq(S)
         /\ Len(Unread(rd, wr, num, buf)) = Used(rd, wr, num)
<1> DEFINE n == Used(rd, wr, num)
<1>1. n \in 0..num-1
  BY DEF Used
<1> HIDE DEF n
<1>2. \A k \in 1..n : Slot(rd, k, num) \in 0..num-1
  BY <1>1 DEF Slot
<1>3. \A k \in 1..n : buf[Slot(rd, k, num)] \in S
  BY <1>2
<1>4. [k \in 1..n |-> buf[Slot(rd, k, num)]] \in Seq(S)
  BY <1>1, <1>3
<1> QED
  BY <1>1, <1>4 DEF Unread, n

(* A write to the slot behind the last unread one touches no message.      *)
LEMMA RingAside ==
  ASSUME NEW num \in Nat \ {0}, NEW rd \in 0..num-1, NEW wr \in 0..num-1,
         NEW buf, NEW new, Wrap(wr + 1, num) # rd,
         \A s \in 0..num-1 : s # Wrap(wr + 1, num) => new[s] = buf[s]
  PROVE  Unread(rd, wr, num, new) = Unread(rd, wr, num, buf)
<1> DEFINE w == Wrap(wr + 1, num)
           n == Used(rd, wr, num)
<1>1. w \in 0..num-1 /\ w # rd
  BY DEF Wrap
<1>2. n \in 0..num-1
  BY DEF Used
<1>3. ASSUME NEW k \in 1..n PROVE Slot(rd, k, num) \in 0..num-1 /\ Slot(rd, k, num) # w
  BY <1>1, <1>2 DEF Slot, Used, Wrap
<1> HIDE DEF n
<1>4. \A k \in 1..n : new[Slot(rd, k, num)] = buf[Slot(rd, k, num)]
  BY <1>3
<1> QED
  BY <1>4 DEF Unread, n

(* Moving the write position appends the message in its slot.              *)
LEMMA RingPut ==
  ASSUME NEW num \in Nat \ {0}, NEW rd \in 0..num-1, NEW wr \in 0..num-1,
         NEW S, NEW buf \in [0..num-1 -> S], Wrap(wr + 1, num) # rd
  PROVE  /\ Len(Unread(rd, wr, num, buf)) < num - 1
         /\ Unread(rd, Wrap(wr + 1, num), num, buf)
              = Append(Unread(rd, wr, num, buf), buf[Wrap(wr + 1, num)])
<1> DEFINE w == Wrap(wr + 1, num)
           n == Used(rd, wr, num)
           s == Unread(rd, wr, num, buf)
           t == Unread(rd, w, num, buf)
<1>1. w \in 0..num-1 /\ w # rd
  BY DEF Wrap
<1>2. n \in 0..num-1 /\ s \in Seq(S) /\ Len(s) = n
  BY UnreadSeq
<1>3. Used(rd, w, num) = n + 1 /\ Slot(rd, n + 1, num) = w
  BY <1>1 DEF Used, Slot, Wrap
<1>4. t \in Seq(S) /\ Len(t) = n + 1
  BY <1>1, <1>3, UnreadSeq
<1>5. n + 1 < num
  BY <1>1, <1>3 DEF Used
<1>6. \A k \in 1..n : s[k] = buf[Slot(rd, k, num)]
  BY DEF Unread
<1>7. \A k \in 1..n+1 : t[k] = buf[Slot(rd, k, num)]
  BY <1>3 DEF Unread
<1>8. buf[w] \in S
  BY <1>1
<1> HIDE DEF w, n, s, t
<1>9. /\ Append(s, buf[w]) \in Seq(S) /\ Len(Append(s, buf[w])) = n + 1
      /\ \A k \in 1..n : Append(s, buf[w])[k] = s[k]
      /\ Append(s, buf[w])[n + 1] = buf[w]
  BY <1>2, <1>8
<1>10. \A k \in 1..n+1 : t[k] = Append(s, buf[w])[k]
  BY <1>2, <1>3, <1>6, <1>7, <1>9
<1>11. t = Append(s, buf[w])
  BY <1>4, <1>9, <1>10, SeqEqual
<1> QED
  BY <1>2, <1>5, <1>11 DEF w, s, t

(* Moving the read position takes the first message.                       *)
LEMMA RingGet ==
  ASSUME NEW num \in Nat \ {0}, NEW rd \in 0..num-1, NEW wr \in 0..num-1,
         NEW S, NEW buf \in [0..num-1 -> S], rd # wr
  PROVE  /\ Unread(rd, wr, num, buf) # <<>>
         /\ buf[Wrap(rd + 1, num)] = Head(Unread(rd, wr, num, buf))
         /\ Unread(Wrap(rd + 1, num), wr, num, buf) = Tail(Unread(rd, wr, num, buf))
<1> DEFINE r == Wrap(rd + 1, num)
           n == Used(rd, wr, num)
           s == Unread(rd, wr, num, buf)
           t == Unread(r, wr, num, buf)
<1>1. r \in 0..num-1 /\ r = Slot(rd, 1, num)
  BY DEF Wrap, Slot
<1>2. n \in 1..num-1 /\ Used(r, wr, num) = n - 1
  BY DEF Used, Wrap
<1>3. s \in Seq(S) /\ Len(s) = n
  BY UnreadSeq
<1>4. t \in Seq(S) /\ Len(t) = n - 1
  BY <1>1, <1>2, UnreadSeq
<1>5. \A k \in 1..n-1 : Slot(r, k, num) = Slot(rd, k + 1, num)
  BY <1>2 DEF Slot, Wrap
<1>6. \A k \in 1..n : s[k] = buf[Slot(rd, k, num)]
  BY DEF Unread
<1>7. \A k \in 1..n-1 : t[k] = buf[Slot(r, k, num)]
  BY <1>2 DEF Unread
<1> HIDE DEF r, n, s, t
<1>8. s # <<>>
  BY <1>2, <1>3
<1>9. /\ Tail(s) \in Seq(S) /\ Len(Tail(s)) = n - 1
      /\ \A k \in 1..n-1 : Tail(s)[k] = s[k + 1]
      /\ Head(s) = s[1]
  BY <1>2, <1>3, <1>8, HeadTailProperties
<1>10. \A k \in 1..n-1 : t[k] = Tail(s)[k]
  BY <1>2, <1>5, <1>6, <1>7, <1>9
<1>11. t = Tail(s)
  BY <1>4, <1>9, <1>10, SeqEqual
<1>12. buf[r] = Head(s)
  BY <1>1, <1>2, <1>6, <1>9
<1> QED
  BY <1>8, <1>11, <1>12 DEF r, s, t

(* Whatever packet arrives, the line buffer holds a head and an event.     *)
LEMMA LineTyped ==
  ASSUME TypeOK, NEW line \in {LineAfter(p) : p \in Packets}
  PROVE  line \in Lines(Events)
<1>1. PICK p \in Packets : line = LineAfter(p)
  OBVIOUS
<1>2. netrecv_line_buf \in Lines(Events) /\ p.line \in Lines(Events)
  BY FifoAssumption DEF TypeOK, LineTypes, Packets, Lines
<1> QED
  BY <1>1, <1>2 DEF LineAfter, Lines

-----------------------------------------------------------------------------
(* Every step keeps the types: a task disturbs the ring it works on and    *)
(* its own control.                                                        *)
LEMMA TypeOKStep == TypeOK /\ [Next]_vars => TypeOK'
<1> SUFFICES ASSUME TypeOK, [Next]_vars PROVE TypeOK'
  OBVIOUS
<1> USE FifoAssumption DEF TypeOK
<1>r. UNCHANGED recvVars /\ (dp' = dp \/ dp # "read2") => RecvTypes'
  BY DEF recvVars, RecvTypes
<1>s. UNCHANGED <<sendVars, temp>> /\ (sp' = sp \/ sp # "read2") /\ (dp' = dp \/ dp # "wrap") => SendTypes'
  BY DEF sendVars, SendTypes
<1>l. UNCHANGED udpVars => LineTypes'
  BY DEF udpVars, LineTypes
<1>1. CASE UdpConnect \/ UdpClose
  <2>1. LineTypes' /\ TaskTypes'
    BY <1>1 DEF UdpConnect, UdpClose, LineTypes, TaskTypes, dpVars
  <2> QED
    BY <1>1, <1>r, <1>s, <2>1 DEF UdpConnect, UdpClose, dpVars
<1>2. ASSUME NEW line \in {LineAfter(p) : p \in Packets}, NEW more \in BOOLEAN, UdpRecv(line, more) PROVE TypeOK'
  <2>1. line \in Lines(Events) /\ netrecv_line_buf' = line
    BY <1>2, LineTyped DEF UdpRecv
  <2>2. line.event \in Events
    BY <2>1 DEF Lines
  <2>3. RecvTypes'
    BY <1>2, <2>2 DEF UdpRecv, netrecv_fifo_write, OSSemPost, Wrap, RecvTypes, dpVars
  <2>4. TaskTypes'
    BY <1>2 DEF UdpRecv, TaskTypes, dpVars
  <2>5. SendTypes'
    BY <1>2, <1>s DEF UdpRecv, dpVars
  <2> QED
    BY <2>1, <2>3, <2>4, <2>5 DEF LineTypes
<1>3. CASE udp_dataprocess_task
  <2>1. TaskTypes'
    BY <1>3 DEF udp_dataprocess_task, DpFlag, DpPend, DpReadEmpty, DpRead, DpRead2, DpSwitch, DpShutter,
                DpWrite, DpWrap, DpFull, DpCopy, DpCopy2, DpPost, DpGoto, udpVars,
                TaskTypes, RecvTypes, Wrap
  <2>2. LineTypes'
    BY <1>3, <1>l DEF udp_dataprocess_task, DpFlag, DpPend, DpReadEmpty, DpRead, DpRead2,
                DpSwitch, DpShutter, DpWrite, DpWrap, DpFull, DpCopy, DpCopy2, DpPost
  <2>3. CASE DpFlag \/ DpReadEmpty \/ DpSwitch \/ DpShutter
    BY <2>1, <2>2, <2>3, <1>r, <1>s DEF DpFlag, DpReadEmpty, DpSwitch, DpShutter, DpGoto
  <2>4. CASE DpPend \/ DpRead \/ DpRead2
    <3>1. RecvTypes'
      BY <2>4 DEF DpPend, DpRead, DpRead2, DpGoto, Runs, Ready, Wrap, RecvTypes
    <3>2. SendTypes'
      BY <2>4, <1>s DEF DpPend, DpRead, DpRead2, DpGoto
    <3> QED
      BY <2>1, <2>2, <3>1, <3>2
  <2>5. CASE DpWrite \/ DpWrap \/ DpFull
    <3>1. SendTypes'
      BY <2>5 DEF DpWrite, DpWrap, DpFull, DpGoto, Wrap, SendTypes
    <3>2. RecvTypes'
      BY <2>5, <1>r DEF DpWrite, DpWrap, DpFull, DpGoto
    <3> QED
      BY <2>1, <2>2, <3>1, <3>2
  <2>6. CASE DpCopy \/ DpCopy2 \/ DpPost
    <3>1. SendTypes'
      BY <2>6 DEF DpCopy, DpCopy2, DpPost, DpGoto, OSSemPost, SendTypes, TaskTypes
    <3>2. RecvTypes'
      BY <2>6, <1>r DEF DpCopy, DpCopy2, DpPost, DpGoto
    <3> QED
      BY <2>1, <2>2, <3>1, <3>2
  <2> QED
    BY <1>3, <2>3, <2>4, <2>5, <2>6 DEF udp_dataprocess_task
<1>4. CASE DpDelayEnds
  <2>1. TaskTypes'
    BY <1>4 DEF DpDelayEnds, TaskTypes, udpVars
  <2> QED
    BY <1>4, <1>r, <1>s, <1>l, <2>1 DEF DpDelayEnds
<1>5. CASE udp_send_task \/ tcpip_thread
  <2>1. TaskTypes' /\ RecvTypes'
    BY <1>5, <1>r DEF udp_send_task, tcpip_thread, SpPend, SpRead, SpRead2, SpSent,
                SpGoto, udpVars, dpVars, TaskTypes
  <2>2. SendTypes'
    BY <1>5 DEF udp_send_task, tcpip_thread, SpPend, SpRead, SpRead2, SpSent,
                SpGoto, Runs, Ready, Wrap, dpVars, sendVars, SendTypes
  <2>3. LineTypes'
    BY <1>5, <1>l DEF udp_send_task, tcpip_thread, SpPend, SpRead, SpRead2, SpSent
  <2> QED
    BY <2>1, <2>2, <2>3
<1>6. CASE UNCHANGED vars
  <2>1. TaskTypes'
    BY <1>6 DEF vars, udpVars, dpVars, TaskTypes
  <2> QED
    BY <1>6, <1>r, <1>s, <1>l, <2>1 DEF vars, dpVars
<1> QED
  BY <1>1, <1>2, <1>3, <1>4, <1>5, <1>6 DEF Next, udp_thread

(* The initial state has the types.                                        *)
LEMMA TypeOKInit == Init => TypeOK
<1> SUFFICES ASSUME Init PROVE TypeOK
  OBVIOUS
<1> USE FifoAssumption
<1>1. RecvTypes /\ SendTypes
  BY DEF Init, RecvTypes, SendTypes, Events
<1>2. LineTypes
  BY DEF Init, LineTypes, Lines
<1>3. TaskTypes
  BY DEF Init, TaskTypes, Events
<1> QED
  BY <1>1, <1>2, <1>3 DEF TypeOK

(* Type correctness of the command path.                                   *)
THEOREM TypeCorrect == Spec => []TypeOK
BY TypeOKInit, TypeOKStep, PTL DEF Spec

-----------------------------------------------------------------------------
(* The scheduler: who does not run while whom is ready.                    *)
LEMMA Preempted ==
  /\ Runs("dataprocess") => Ready("dataprocess") /\ ~Ready("send")
  /\ Runs("tcpip") => ~Ready("dataprocess") /\ udp # "walk"
  /\ Runs("udp") => ~Ready("dataprocess") \/ udp = "walk"
  /\ Runs("send") => Ready("send") /\ udp # "walk"
  /\ Runs("dataprocess") => udp # "walk"
BY DEF Runs, Prio

(* A task in the middle of a write is ready.                               *)
LEMMA WriterReady == Writing => Ready("dataprocess")
BY DEF Writing, Ready

(* The send task does not become ready while a reply is written.           *)
LEMMA WriteStep == TypeOK /\ WriteInv /\ [Next]_vars => WriteInv'
<1> SUFFICES ASSUME TypeOK, WriteInv, [Next]_vars PROVE WriteInv'
  OBVIOUS
<1> USE FifoAssumption
<1>1. CASE udp_dataprocess_task
  <2>1. ~Ready("send") /\ udp # "walk" /\ udp' = udp
    BY <1>1, Preempted DEF udp_dataprocess_task, DpFlag, DpPend, DpReadEmpty, DpRead, DpRead2,
         DpSwitch, DpShutter, DpWrite, DpWrap, DpFull, DpCopy, DpCopy2, DpPost, DpGoto, udpVars
  <2>2. CASE DpWrite
    BY <2>1, <2>2 DEF DpWrite, DpGoto, WriteInv, Writing, Ready
  <2>3. CASE DpWrap
    BY <2>1, <2>3 DEF DpWrap, DpGoto, WriteInv, Writing, Ready
  <2>4. CASE DpFull \/ DpCopy
    BY <2>1, <2>4 DEF DpFull, DpCopy, DpGoto, WriteInv, Writing, Ready
  <2>5. CASE dp' \notin {"wrap", "full", "copy", "copy2"}
    BY <2>1, <2>5 DEF WriteInv, Writing
  <2> QED
    BY <1>1, <2>2, <2>3, <2>4, <2>5 DEF udp_dataprocess_task, DpFlag, DpPend, DpReadEmpty,
         DpRead, DpRead2, DpSwitch, DpShutter, DpCopy2, DpPost, DpGoto
<1>2. CASE ~Writing /\ dp' \in {dp, "flag", "write", "readback"} /\ udp' # "walk"
  BY <1>2 DEF WriteInv, Writing
<1>3. CASE tcpip_thread \/ udp_send_task
  <2>1. ~Writing /\ dp' = dp /\ udp' # "walk"
    BY <1>3, Preempted, WriterReady DEF WriteInv, tcpip_thread, udp_send_task, SpPend,
         SpRead, SpRead2, SpSent, SpGoto, dpVars, udpVars
  <2> QED
    BY <1>2, <2>1
<1>4. CASE udp_thread
  <2>1. Runs("udp") /\ dp' = dp
    BY <1>4 DEF udp_thread, UdpConnect, UdpClose, UdpRecv, dpVars
  <2>2. ~Writing /\ dp \notin {"read", "read2"}
    BY <2>1, Preempted, WriterReady DEF WriteInv, Ready
  <2> QED
    BY <2>1, <2>2 DEF WriteInv, Writing
<1>5. CASE DpDelayEnds
  BY <1>2, <1>5 DEF DpDelayEnds, Writing, udpVars
<1>6. CASE UNCHANGED vars
  BY <1>6 DEF vars, sendVars, udpVars, dpVars, WriteInv, Writing, Ready
<1> QED
  BY <1>1, <1>3, <1>4, <1>5, <1>6 DEF Next

(* The inductive invariant of the rings.                                   *)
Inv == TypeOK /\ WriteInv

(* It holds in every reachable state.                                      *)
LEMMA InvCorrect == Spec => []Inv
<1>1. Init => WriteInv
  BY DEF Init, WriteInv, Writing
<1> QED
  BY <1>1, TypeOKInit, TypeOKStep, WriteStep, PTL DEF Spec, Inv

-----------------------------------------------------------------------------
(* The ring of commands implements the abstract queue.                     *)
LEMMA RecvStep == Inv /\ [Next]_vars =>
  [RecvQueue!Next]_<<Unread(RecvRd, netrecvfifowrpos, NETRECV_FIFO_NUM, netrecvfifobuf),
                     netrecvfifobuf[RecvRd]>>
<1> DEFINE num == NETRECV_FIFO_NUM
           q == Unread(RecvRd, netrecvfifowrpos, num, netrecvfifobuf)
           out == netrecvfifobuf[RecvRd]
<1> SUFFICES ASSUME Inv, [Next]_vars
             PROVE  RecvQueue!Put \/ RecvQueue!Get \/ UNCHANGED <<q, out>>
  BY DEF RecvQueue!Next
<1> USE FifoAssumption
<1>0. /\ num \in Nat \ {0} /\ RecvRd \in 0..num-1 /\ netrecvfifowrpos \in 0..num-1
      /\ netrecvfifobuf \in [0..num-1 -> Events]
  BY DEF Inv, TypeOK, RecvTypes, RecvRd, Wrap
<1>1. ASSUME NEW line \in {LineAfter(p) : p \in Packets}, NEW more \in BOOLEAN, UdpRecv(line, more), Headed(line),
             Wrap(netrecvfifowrpos + 1, num) # netrecvfifordpos
      PROVE  RecvQueue!Put
  <2> DEFINE w == Wrap(netrecvfifowrpos + 1, num)
             m == line.event
             new == [netrecvfifobuf EXCEPT ![w] = m]
  <2>1. /\ netrecvfifowrpos' = w /\ netrecvfifobuf' = new /\ netrecvfifordpos' = netrecvfifordpos
    BY <1>1 DEF UdpRecv, netrecv_fifo_write
  <2>2. m \in Events
    BY <1>1, LineTyped DEF Lines, Inv
  <2>3. RecvRd = netrecvfifordpos /\ RecvRd' = RecvRd
    BY <1>1, <2>1, Preempted DEF UdpRecv, Ready, Inv, WriteInv, TypeOK, RecvTypes, RecvRd, Wrap
  <2>4. w # RecvRd /\ w \in 0..num-1
    BY <1>0, <1>1, <2>3 DEF Wrap
  <2>5. new \in [0..num-1 -> Events] /\ new[w] = m
    BY <1>0, <2>2, <2>4
  <2>6. new[RecvRd] = out /\ Unread(RecvRd, netrecvfifowrpos, num, new) = q
    <3>1. \A s \in 0..num-1 : s # w => new[s] = netrecvfifobuf[s]
      BY <1>0, <2>4
    <3> HIDE FifoAssumption DEF new
    <3>2. ASSUME NEW n, n = num PROVE Unread(RecvRd, netrecvfifowrpos, n, new) =
                                       Unread(RecvRd, netrecvfifowrpos, n, netrecvfifobuf)
      <4>1. /\ n \in Nat \ {0} /\ RecvRd \in 0..n-1 /\ netrecvfifowrpos \in 0..n-1
            /\ Wrap(netrecvfifowrpos + 1, n) # RecvRd
            /\ \A s \in 0..n-1 : s # Wrap(netrecvfifowrpos + 1, n) => new[s] = netrecvfifobuf[s]
        BY <1>0, <2>4, <3>1, <3>2
      <4> HIDE DEF num
      <4> QED
        BY <4>1, RingAside
    <3> QED
      BY <1>0, <2>4, <3>1, <3>2
  <2> HIDE DEF new, m
  <2>7. /\ Len(Unread(RecvRd, netrecvfifowrpos, num, new)) < num - 1
        /\ Unread(RecvRd, w, num, new) = Append(Unread(RecvRd, netrecvfifowrpos, num, new), new[w])
    BY <1>0, <2>4, <2>5, RingPut
  <2>8. /\ Unread(RecvRd, netrecvfifowrpos, num, netrecvfifobuf)' = Append(q, m)
        /\ netrecvfifobuf[RecvRd]' = out /\ Len(q) < num - 1
    BY <2>1, <2>3, <2>5, <2>6, <2>7
  <2> QED
    BY <2>2, <2>8 DEF RecvQueue!Put
<1>2. CASE DpRead
  <2>1. /\ netrecvfifordpos' = netrecvfifordpos + 1 /\ netrecvfifordpos # netrecvfifowrpos
        /\ UNCHANGED <<netrecvfifowrpos, netrecvfifobuf>> /\ dp = "read"
    BY <1>2 DEF DpRead, DpGoto
  <2>2. RecvRd # netrecvfifowrpos /\ RecvRd' = Wrap(RecvRd + 1, num)
    BY <2>1 DEF Inv, TypeOK, RecvTypes, RecvRd, Wrap
  <2> HIDE FifoAssumption
  <2>3. q # <<>>
    BY <1>0, <2>2, RingGet
  <2>4. netrecvfifobuf[Wrap(RecvRd + 1, num)] = Head(q)
    BY <1>0, <2>2, RingGet
  <2>5. Unread(Wrap(RecvRd + 1, num), netrecvfifowrpos, num, netrecvfifobuf) = Tail(q)
    BY <1>0, <2>2, RingGet
  <2> QED
    BY <2>1, <2>2, <2>3, <2>4, <2>5 DEF RecvQueue!Get
<1>3. CASE UNCHANGED <<RecvRd, netrecvfifowrpos, netrecvfifobuf>>
  BY <1>3
<1>4. CASE DpRead2
  <2>1. UNCHANGED <<netrecvfifowrpos, netrecvfifobuf>> /\ RecvRd' = RecvRd
    BY <1>4 DEF DpRead2, DpGoto, RecvRd, Wrap, Inv, TypeOK, RecvTypes
  <2> QED
    BY <1>3, <2>1
<1>5. ASSUME NEW line \in {LineAfter(p) : p \in Packets}, NEW more \in BOOLEAN, UdpRecv(line, more) PROVE RecvQueue!Put \/ UNCHANGED <<q, out>>
  <2>1. CASE Headed(line) /\ Wrap(netrecvfifowrpos + 1, num) # netrecvfifordpos
    BY <1>1, <1>5, <2>1
  <2>2. CASE ~(Headed(line) /\ Wrap(netrecvfifowrpos + 1, num) # netrecvfifordpos)
    <3>1. UNCHANGED <<netrecvfifordpos, netrecvfifowrpos, netrecvfifobuf>>
      BY <1>5, <2>2 DEF UdpRecv, netrecv_fifo_write
    <3> QED
      BY <3>1 DEF RecvRd
  <2> QED
    BY <2>1, <2>2
<1>6. CASE UNCHANGED <<netrecvfifordpos, netrecvfifowrpos, netrecvfifobuf>>
  BY <1>6 DEF RecvRd
<1> QED
  BY <1>2, <1>4, <1>5, <1>6
  DEF Next, vars, recvVars, udp_thread, UdpConnect, UdpClose, udp_dataprocess_task, DpFlag,
      DpPend, DpReadEmpty, DpSwitch, DpShutter, DpWrite, DpWrap, DpFull, DpCopy, DpCopy2, DpPost,
      DpDelayEnds, udp_send_task, SpPend, SpRead, SpRead2, SpSent, tcpip_thread

(* The ring of commands is a bounded queue, whatever the tasks' timing.    *)
THEOREM RecvImplements == Spec => RecvRefines
<1>1. Init => RecvQueue!Init
  BY FifoAssumption DEF Init, RecvQueue!Init, Unread, Used, RecvRd, Wrap
<1> QED
  BY <1>1, RecvStep, InvCorrect, PTL DEF Spec, RecvRefines, RecvQueue!Spec

-----------------------------------------------------------------------------
(* The ring of replies implements the abstract queue.  A reply enters the  *)
(* queue with the last byte of its copy.                                   *)
LEMMA SendStep == Inv /\ [Next]_vars =>
  [SendQueue!Next]_<<Unread(SendRd, SendWr, NETSEND_FIFO_NUM, netsendfifobuf),
                     netsendfifobuf[SendRd]>>
<1> DEFINE num == NETSEND_FIFO_NUM
           q == Unread(SendRd, SendWr, num, netsendfifobuf)
           out == netsendfifobuf[SendRd]
           S == Events \cup {"torn"}
<1> SUFFICES ASSUME Inv, [Next]_vars
             PROVE  SendQueue!Put \/ SendQueue!Get \/ UNCHANGED <<q, out>>
  BY DEF SendQueue!Next
<1>0. /\ num \in Nat \ {0} /\ SendRd \in 0..num-1 /\ SendWr \in 0..num-1
      /\ netsendfifobuf \in [0..num-1 -> S]
  BY FifoAssumption DEF Inv, TypeOK, SendTypes, SendRd, SendWr, Writing, Wrap
<1>3. CASE UNCHANGED <<SendRd, SendWr, netsendfifobuf>>
  BY <1>3
<1>4. CASE DpCopy \/ DpCopy2
  <2> DEFINE w == Wrap(SendWr + 1, num)
             new == netsendfifobuf'
  <2>1. PICK x \in S : netsendfifobuf' = [netsendfifobuf EXCEPT ![netsendfifowrpos] = x]
    BY <1>4 DEF DpCopy, DpCopy2, Inv, TypeOK, TaskTypes
  <2>2. SendWr = temp /\ netsendfifowrpos = w /\ netsendfifowrpos # netsendfifordpos
    BY <1>4 DEF DpCopy, DpCopy2, DpGoto, Inv, WriteInv, SendWr, Writing
  <2>3. SendRd = netsendfifordpos /\ SendRd' = SendRd
    <3>1. ~Ready("send")
      BY <1>4, Preempted DEF DpCopy, DpCopy2, DpGoto
    <3>2. sp # "read2"
      BY <3>1 DEF Ready
    <3>3. netsendfifordpos' = netsendfifordpos /\ netsendfifordpos \in 0..num-1
      BY <1>4, <3>2, FifoAssumption DEF DpCopy, DpCopy2, Inv, TypeOK, SendTypes
    <3> QED
      BY <3>3, FifoAssumption DEF SendRd, Wrap
  <2>4. w # SendRd /\ w \in 0..num-1
    BY <1>0, <2>2, <2>3 DEF Wrap
  <2>5. new \in [0..num-1 -> S] /\ new[w] = x /\ \A s \in 0..num-1 : s # w => new[s] = netsendfifobuf[s]
    <3> HIDE DEF w, S
    <3>1. new = [netsendfifobuf EXCEPT ![w] = x]
      BY <2>1, <2>2
    <3> QED
      BY <1>0, <2>1, <2>4, <3>1
  <2>6. new[SendRd] = out
    BY <1>0, <2>4, <2>5
  <2> HIDE DEF new
  <2>7. Unread(SendRd, SendWr, num, new) = q
    BY <1>0, <2>4, <2>5, RingAside
  <2>8. CASE DpCopy
    <3>1. SendWr' = SendWr
      BY <2>2, <2>8 DEF DpCopy, DpGoto, SendWr, Writing
    <3> QED
      BY <2>3, <2>6, <2>7, <3>1 DEF new
  <2>9. CASE DpCopy2
    <3>1. SendWr' = w /\ new[w] = event /\ event \in Events
      BY <1>0, <2>2, <2>4, <2>9 DEF DpCopy2, DpGoto, SendWr, Writing, Inv, TypeOK, TaskTypes, new
    <3>2. Unread(SendRd, w, num, new) = Append(Unread(SendRd, SendWr, num, new), new[w])
      BY <1>0, <2>4, <2>5, RingPut
    <3>3. Len(Unread(SendRd, SendWr, num, new)) < num - 1
      BY <1>0, <2>4, <2>5, RingPut
    <3>4. /\ Unread(SendRd, SendWr, num, netsendfifobuf)' = Append(q, event)
          /\ netsendfifobuf[SendRd]' = out /\ Len(q) < num - 1
      BY <2>3, <2>6, <2>7, <3>1, <3>2, <3>3 DEF new
    <3> QED
      BY <3>1, <3>4 DEF SendQueue!Put
  <2> QED
    BY <1>4, <2>8, <2>9
<1>5. CASE SpRead /\ netsendfifordpos # netsendfifowrpos
  <2>1. /\ netsendfifordpos' = netsendfifordpos + 1 /\ netsendfifordpos # netsendfifowrpos
        /\ UNCHANGED <<netsendfifowrpos, netsendfifobuf, dp, temp>> /\ sp = "read"
    BY <1>5 DEF SpRead, SpGoto, dpVars
  <2>2. ~Writing
    BY <1>5, Preempted DEF SpRead, SpGoto, Inv, WriteInv
  <2>3. /\ SendRd # SendWr /\ SendRd' = Wrap(SendRd + 1, num) /\ SendWr' = SendWr
    BY <2>1, <2>2, FifoAssumption DEF Inv, TypeOK, SendTypes, SendRd, SendWr, Writing, Wrap
  <2>4. q # <<>>
    BY <1>0, <2>3, RingGet
  <2>5. netsendfifobuf[Wrap(SendRd + 1, num)] = Head(q)
    BY <1>0, <2>3, RingGet
  <2>6. Unread(Wrap(SendRd + 1, num), SendWr, num, netsendfifobuf) = Tail(q)
    BY <1>0, <2>3, RingGet
  <2> QED
    BY <2>1, <2>3, <2>4, <2>5, <2>6 DEF SendQueue!Get
<1>6. CASE DpWrite \/ DpWrap \/ DpFull
  <2>1. UNCHANGED <<netsendfifordpos, netsendfifobuf>> /\ SendWr' = SendWr
    BY <1>6 DEF DpWrite, DpWrap, DpFull, DpGoto, SendWr, Writing
  <2> QED
    BY <1>3, <2>1 DEF SendRd
<1>7. CASE SpRead2
  <2>1. SendRd' = SendRd /\ UNCHANGED netsendfifobuf /\ SendWr' = SendWr
    BY <1>7, FifoAssumption DEF SpRead2, SpGoto, SendRd, SendWr, Writing, Wrap, Inv, TypeOK,
         SendTypes, dpVars
  <2> QED
    BY <1>3, <2>1
<1>8. CASE /\ UNCHANGED <<netsendfifordpos, netsendfifowrpos, netsendfifobuf>>
           /\ UNCHANGED <<dp, temp>> \/ (~Writing /\ ~Writing')
  <2>1. SendWr' = SendWr /\ SendRd' = SendRd
    BY <1>8 DEF SendWr, SendRd, Writing
  <2> QED
    BY <1>3, <1>8, <2>1
<1>9. CASE DpFlag \/ DpPend \/ DpReadEmpty \/ DpRead \/ DpRead2 \/ DpSwitch \/ DpShutter \/ DpPost \/ DpDelayEnds
  BY <1>8, <1>9 DEF DpFlag, DpPend, DpReadEmpty, DpRead, DpRead2, DpSwitch, DpShutter, DpPost, DpDelayEnds,
                    DpGoto, sendVars, Writing
<1>10. CASE \/ udp_thread \/ SpPend \/ SpSent \/ tcpip_thread \/ UNCHANGED vars
            \/ SpRead /\ netsendfifordpos = netsendfifowrpos
  BY <1>8, <1>10 DEF udp_thread, UdpConnect, UdpClose, UdpRecv, SpPend, SpRead, SpSent,
                     SpGoto, tcpip_thread, vars, sendVars, dpVars
<1> QED
  BY <1>4, <1>5, <1>6, <1>7, <1>9, <1>10 DEF Next, udp_dataprocess_task, udp_send_task

(* The ring of replies is a bounded queue: priorities take the place of a  *)
(* lock, and no half-copied reply is sent.                                 *)
THEOREM SendImplements == Spec => SendRefines
<1>1. Init => SendQueue!Init
  BY FifoAssumption DEF Init, SendQueue!Init, Unread, Used, SendRd, SendWr, Writing, Wrap
<1> QED
  BY <1>1, SendStep, InvCorrect, PTL DEF Spec, SendRefines, SendQueue!Spec

-----------------------------------------------------------------------------
(* How the number of unread messages changes.                              *)
LEMMA UsedSteps ==
  ASSUME NEW num \in Nat \ {0}, NEW rd \in 0..num-1, NEW wr \in 0..num-1
  PROVE  /\ Used(rd, wr, num) \in 0..num-1
         /\ Wrap(wr + 1, num) # rd => Used(rd, Wrap(wr + 1, num), num) = Used(rd, wr, num) + 1
         /\ rd # wr => Used(Wrap(rd + 1, num), wr, num) = Used(rd, wr, num) - 1
         /\ rd = wr => Used(rd, wr, num) = 0
BY DEF Used, Wrap

(* A command and its post are one step, its pend and its read are two.     *)
LEMMA RecvPostedStep == Inv /\ RecvPosted /\ [Next]_vars => RecvPosted'
<1> SUFFICES ASSUME Inv, RecvPosted, [Next]_vars PROVE RecvPosted'
  OBVIOUS
<1> DEFINE num == NETRECV_FIFO_NUM
           wr == netrecvfifowrpos
<1>0. /\ num \in Nat \ {0} /\ RecvRd \in 0..num-1 /\ wr \in 0..num-1
      /\ msg_netrecvok \in 0..SemMax /\ SemMax \in Nat /\ num - 1 <= SemMax
  BY FifoAssumption DEF Inv, TypeOK, RecvTypes, RecvRd, Wrap
<1>1. /\ RecvUsed \in 0..num-1
      /\ Wrap(wr + 1, num) # RecvRd => Used(RecvRd, Wrap(wr + 1, num), num) = RecvUsed + 1
      /\ RecvRd # wr => Used(Wrap(RecvRd + 1, num), wr, num) = RecvUsed - 1
      /\ RecvRd = wr => RecvUsed = 0
  BY <1>0, UsedSteps DEF RecvUsed
<1>2. ASSUME NEW line \in {LineAfter(p) : p \in Packets}, NEW more \in BOOLEAN, UdpRecv(line, more) PROVE RecvPosted'
  <2>1. ~Ready("dataprocess") \/ udp = "walk"
    BY <1>2, Preempted DEF UdpRecv
  <2>2. dp # "read" /\ dp # "read2" /\ dp' = dp
    BY <1>2, <2>1 DEF Ready, UdpRecv, Inv, WriteInv, dpVars
  <2>3. RecvRd = netrecvfifordpos /\ RecvRd' = RecvRd
    BY <1>2, <2>2, FifoAssumption DEF UdpRecv, RecvRd, Wrap, Inv, TypeOK, RecvTypes
  <2>4. CASE Headed(line)
    <3>1. msg_netrecvok' = OSSemPost(msg_netrecvok)
      BY <1>2, <2>4 DEF UdpRecv
    <3>2. \/ wr' = wr
          \/ wr' = Wrap(wr + 1, num) /\ Wrap(wr + 1, num) # RecvRd
      BY <1>2, <2>3, <2>4 DEF UdpRecv, netrecv_fifo_write
    <3>3. wr' \in 0..num-1
      BY <1>0, <3>2 DEF Wrap
    <3>4. RecvUsed' = Used(RecvRd, wr', num)
      BY <2>3 DEF RecvUsed
    <3>5. RecvUsed' \in 0..num-1
      BY <1>0, <3>3, <3>4, UsedSteps
    <3>6. RecvUsed' <= RecvUsed + 1
      <4>1. CASE wr' = wr
        <5>1. RecvUsed' = RecvUsed
          BY <3>4, <4>1 DEF RecvUsed
        <5> QED
          BY <1>0, <1>1, <5>1
      <4>2. CASE wr' = Wrap(wr + 1, num) /\ Wrap(wr + 1, num) # RecvRd
        <5>1. RecvUsed' = RecvUsed + 1
          BY <1>1, <3>4, <4>2
        <5> QED
          BY <1>0, <1>1, <5>1
      <4> QED
        BY <3>2, <4>1, <4>2
    <3> QED
      BY <1>0, <1>1, <2>2, <3>1, <3>5, <3>6 DEF OSSemPost, RecvPosted
  <2>5. CASE ~Headed(line)
    BY <1>2, <2>2, <2>3, <2>5 DEF UdpRecv, RecvPosted, RecvUsed
  <2> QED
    BY <2>4, <2>5
<1>3. CASE DpPend
  <2>1. /\ RecvUsed' = RecvUsed /\ msg_netrecvok' = msg_netrecvok - 1
        /\ dp = "pend" /\ dp' = "read"
    BY <1>3 DEF DpPend, DpGoto, RecvUsed, RecvRd
  <2> QED
    BY <1>0, <1>1, <2>1 DEF RecvPosted
<1>4. CASE DpReadEmpty
  <2>1. RecvRd = wr /\ RecvUsed' = RecvUsed /\ msg_netrecvok' = msg_netrecvok
    BY <1>0, <1>4 DEF DpReadEmpty, DpGoto, RecvUsed, RecvRd, Wrap, recvVars
  <2> QED
    BY <1>0, <1>1, <2>1 DEF RecvPosted
<1>5. CASE DpRead
  <2>1. RecvRd # wr /\ RecvRd' = Wrap(RecvRd + 1, num) /\ wr' = wr
    BY <1>5, FifoAssumption DEF DpRead, DpGoto, Inv, TypeOK, RecvTypes, RecvRd, Wrap
  <2>2. /\ RecvUsed' = RecvUsed - 1 /\ msg_netrecvok' = msg_netrecvok
        /\ dp = "read" /\ dp' # "read"
    BY <1>1, <1>5, <2>1 DEF DpRead, DpGoto, RecvUsed
  <2> QED
    BY <1>0, <1>1, <2>2 DEF RecvPosted
<1>6. CASE DpRead2
  <2>1. RecvRd' = RecvRd /\ UNCHANGED <<wr, msg_netrecvok>> /\ dp # "read" /\ dp' # "read"
    BY <1>6, FifoAssumption DEF DpRead2, DpGoto, Inv, TypeOK, RecvTypes, RecvRd, Wrap
  <2> QED
    BY <2>1 DEF RecvPosted, RecvUsed
<1>7. CASE UNCHANGED recvVars /\ dp # "read" /\ dp' # "read"
  BY <1>7 DEF RecvPosted, RecvUsed, RecvRd, recvVars
<1>8. CASE UNCHANGED <<recvVars, dp>>
  BY <1>8 DEF RecvPosted, RecvUsed, RecvRd, recvVars
<1> QED
  BY <1>2, <1>3, <1>4, <1>5, <1>6, <1>7, <1>8
  DEF Next, vars, dpVars, udp_thread, UdpConnect, UdpClose, udp_dataprocess_task, DpFlag,
      DpSwitch, DpShutter, DpWrite, DpWrap, DpFull, DpCopy, DpCopy2, DpPost, DpGoto, DpDelayEnds,
      udp_send_task, SpPend, SpRead, SpRead2, SpSent, tcpip_thread

(* A reply is posted right after it was copied, and the send task cannot   *)
(* look at the ring in between.                                            *)
LEMMA SendPostedStep == Inv /\ SendPosted /\ [Next]_vars => SendPosted'
<1> SUFFICES ASSUME Inv, SendPosted, [Next]_vars PROVE SendPosted'
  OBVIOUS
<1> DEFINE num == NETSEND_FIFO_NUM
<1>0. /\ num \in Nat \ {0} /\ SendRd \in 0..num-1 /\ SendWr \in 0..num-1
      /\ msg_netsendready \in 0..SemMax /\ SemMax \in Nat /\ num - 1 <= SemMax
  BY FifoAssumption DEF Inv, TypeOK, SendTypes, SendRd, SendWr, Writing, Wrap
<1>1. /\ SendUsed \in 0..num-1
      /\ Wrap(SendWr + 1, num) # SendRd => Used(SendRd, Wrap(SendWr + 1, num), num) = SendUsed + 1
      /\ SendRd # SendWr => Used(Wrap(SendRd + 1, num), SendWr, num) = SendUsed - 1
      /\ SendRd = SendWr => SendUsed = 0
  BY <1>0, UsedSteps DEF SendUsed
<1>2. CASE DpCopy2
  <2>1. ~Ready("send")
    BY <1>2, Preempted DEF DpCopy2, DpGoto
  <2>2. sp # "read2" /\ sp # "read"
    BY <2>1 DEF Ready
  <2>3. SendRd = netsendfifordpos /\ SendRd' = SendRd
    BY <1>2, <2>2, FifoAssumption DEF DpCopy2, SendRd, Wrap, Inv, TypeOK, SendTypes
  <2>4. SendWr' = Wrap(SendWr + 1, num) /\ Wrap(SendWr + 1, num) # SendRd
    BY <1>2, <2>3 DEF DpCopy2, DpGoto, Inv, WriteInv, SendWr, Writing
  <2>5. /\ SendUsed' = SendUsed + 1 /\ msg_netsendready' = msg_netsendready
        /\ dp = "copy2" /\ dp' = "post" /\ sp' = sp
    BY <1>1, <1>2, <2>3, <2>4 DEF DpCopy2, DpGoto, SendUsed
  <2> QED
    BY <1>0, <1>1, <2>2, <2>5 DEF SendPosted
<1>3. CASE DpPost
  <2>1. /\ SendUsed' = SendUsed /\ msg_netsendready' = OSSemPost(msg_netsendready)
        /\ dp = "post" /\ dp' # "post" /\ sp' = sp
    BY <1>3 DEF DpPost, DpGoto, SendUsed, SendRd, SendWr, Writing
  <2> QED
    BY <1>0, <1>1, <2>1 DEF SendPosted, OSSemPost
<1>4. CASE SpPend
  <2>1. /\ SendUsed' = SendUsed /\ msg_netsendready' = msg_netsendready - 1
        /\ sp = "pend" /\ sp' = "read" /\ dp' = dp
    BY <1>4 DEF SpPend, SpGoto, SendUsed, SendRd, SendWr, Writing, dpVars
  <2> QED
    BY <1>0, <1>1, <2>1 DEF SendPosted
<1>5. CASE SpRead
  <2>1. ~Writing /\ sp = "read" /\ dp' = dp /\ sp' # "read" /\ UNCHANGED <<temp, netsendfifowrpos>>
    BY <1>5, Preempted DEF SpRead, SpGoto, Inv, WriteInv, dpVars, sendVars
  <2>2. SendRd = netsendfifordpos /\ SendWr = netsendfifowrpos /\ SendWr' = SendWr
    BY <2>1, FifoAssumption DEF SendRd, SendWr, Writing, Wrap, Inv, TypeOK, SendTypes
  <2>3. CASE netsendfifordpos = netsendfifowrpos
    <3>1. SendRd' = SendRd /\ msg_netsendready' = msg_netsendready /\ SendRd = SendWr
      BY <1>5, <2>2, <2>3 DEF SpRead, SendRd
    <3>2. SendUsed' = 0
      BY <1>1, <2>2, <3>1 DEF SendUsed
    <3> QED
      BY <1>0, <3>1, <3>2 DEF SendPosted
  <2>4. CASE netsendfifordpos # netsendfifowrpos
    <3>1. /\ SendRd' = Wrap(SendRd + 1, num) /\ msg_netsendready' = msg_netsendready
          /\ SendRd # SendWr
      BY <1>5, <2>2, <2>4 DEF SpRead, SendRd
    <3>2. SendUsed' = SendUsed - 1
      BY <1>1, <2>2, <3>1 DEF SendUsed
    <3> QED
      BY <1>0, <1>1, <2>1, <3>1, <3>2 DEF SendPosted
  <2> QED
    BY <2>3, <2>4
<1>6. CASE /\ SendRd' = SendRd /\ SendWr' = SendWr /\ msg_netsendready' = msg_netsendready
           /\ dp' = dp \/ dp # "post"
           /\ sp' = sp \/ (sp # "read" /\ sp' # "read")
  BY <1>0, <1>1, <1>6 DEF SendPosted, SendUsed
<1>7. CASE DpWrite \/ DpWrap \/ DpFull \/ DpCopy
  BY <1>6, <1>7 DEF DpWrite, DpWrap, DpFull, DpCopy, DpGoto, SendWr, SendRd, Writing
<1>8. CASE SpRead2
  <2>1. SendRd' = SendRd /\ SendWr' = SendWr /\ dp' = dp
    BY <1>8, FifoAssumption DEF SpRead2, SpGoto, SendRd, SendWr, Writing, Wrap, Inv, TypeOK,
         SendTypes, dpVars
  <2> QED
    BY <1>6, <1>8, <2>1 DEF SpRead2, SpGoto
<1>9. CASE DpFlag \/ DpPend \/ DpReadEmpty \/ DpRead \/ DpRead2 \/ DpSwitch \/ DpShutter \/ DpDelayEnds
  BY <1>6, <1>9 DEF DpFlag, DpPend, DpReadEmpty, DpRead, DpRead2, DpSwitch, DpShutter, DpDelayEnds,
                    DpGoto, sendVars, SendWr, SendRd, Writing
<1>10. CASE udp_thread \/ SpSent \/ tcpip_thread \/ UNCHANGED vars
  <2>1. UNCHANGED <<sendVars, dpVars>> /\ (sp' = sp \/ (sp # "read" /\ sp' # "read"))
    BY <1>10 DEF udp_thread, UdpConnect, UdpClose, UdpRecv, SpSent, SpGoto, tcpip_thread, vars,
                 Runs, Ready
  <2> QED
    BY <1>6, <2>1 DEF sendVars, dpVars, SendWr, SendRd, Writing
<1> QED
  BY <1>2, <1>3, <1>4, <1>5, <1>7, <1>8, <1>9, <1>10
  DEF Next, udp_dataprocess_task, udp_send_task

(* No command and no reply is left behind without a post for its reader.   *)
THEOREM NothingStranded == Spec => []NoneStranded
<1>1. Init => NoneStranded
  BY FifoAssumption DEF Init, NoneStranded, RecvPosted, SendPosted, RecvUsed, SendUsed, Used,
                        RecvRd, SendRd, SendWr, Writing, Wrap
<1>2. Inv /\ NoneStranded /\ [Next]_vars => NoneStranded'
  BY RecvPostedStep, SendPostedStep DEF NoneStranded, Inv
<1> QED
  BY <1>1, <1>2, InvCorrect, PTL DEF Spec

-----------------------------------------------------------------------------
(* A command that was taken and may still be answered, and a reply that    *)
(* udp_send_task has taken but not yet sent.                               *)
Taken == IF dp \in {"read2", "switch", "save", "write", "wrap", "full", "copy", "copy2"} THEN 1 ELSE 0
Leaving == IF sp \in {"read2", "wait"} THEN 1 ELSE 0

(* udp_thread writes only when nothing waits to be sent.                   *)
WalkInv == udp = "walk" => SendUsed = 0 /\ Leaving = 0

(* So the commands and replies in the camera are never more than a full    *)
(* ring of commands and the one that is handled.                           *)
Budget == RecvUsed + SendUsed + Taken + Leaving <= NETRECV_FIFO_NUM

FitInv == NoneStranded /\ WalkInv /\ Budget

(* Only udp_thread and a read change the number of unread commands.        *)
LEMMA RecvUsedStep ==
  ASSUME Inv, [Next]_vars
  PROVE  /\ RecvUsed \in 0..NETRECV_FIFO_NUM-1
         /\ RecvUsed' = RecvUsed \/ udp_thread \/ DpRead
         /\ DpRead => RecvUsed' = RecvUsed - 1
<1> DEFINE num == NETRECV_FIFO_NUM
           wr == netrecvfifowrpos
<1>0. num \in Nat \ {0} /\ RecvRd \in 0..num-1 /\ wr \in 0..num-1
  BY FifoAssumption DEF Inv, TypeOK, RecvTypes, RecvRd, Wrap
<1>1. RecvUsed \in 0..num-1 /\ (RecvRd # wr => Used(Wrap(RecvRd + 1, num), wr, num) = RecvUsed - 1)
  BY <1>0, UsedSteps DEF RecvUsed
<1>2. CASE DpRead
  <2>1. RecvRd # wr /\ RecvRd' = Wrap(RecvRd + 1, num) /\ wr' = wr
    BY <1>2, FifoAssumption DEF DpRead, DpGoto, Inv, TypeOK, RecvTypes, RecvRd, Wrap
  <2>2. RecvUsed' = RecvUsed - 1
    BY <1>1, <2>1 DEF RecvUsed
  <2> QED
    BY <1>1, <1>2, <2>2
<1>3. CASE DpRead2
  <2>1. RecvRd' = RecvRd /\ UNCHANGED wr
    BY <1>3, FifoAssumption DEF DpRead2, DpGoto, Inv, TypeOK, RecvTypes, RecvRd, Wrap
  <2>2. RecvUsed' = RecvUsed
    BY <2>1 DEF RecvUsed
  <2>3. ~DpRead
    BY <1>3 DEF DpRead, DpRead2, DpGoto
  <2> QED
    BY <1>1, <2>2, <2>3
<1>4. CASE UNCHANGED <<netrecvfifordpos, netrecvfifowrpos>>
  <2>1. RecvUsed' = RecvUsed
    BY <1>4 DEF RecvUsed, RecvRd
  <2>2. ~DpRead
    BY <1>4, FifoAssumption DEF DpRead, Inv, TypeOK, RecvTypes
  <2> QED
    BY <1>1, <2>1, <2>2
<1> QED
  BY <1>1, <1>2, <1>3, <1>4
  DEF Next, vars, recvVars, udp_dataprocess_task, DpFlag, DpPend, DpReadEmpty, DpSwitch, DpShutter, DpWrite, DpWrap,
      DpFull, DpCopy, DpCopy2, DpPost, DpDelayEnds, udp_send_task, SpPend, SpRead, SpRead2, SpSent, tcpip_thread

(* Only a reply that is complete and a read change the number of replies.  *)
LEMMA SendUsedStep ==
  ASSUME Inv, [Next]_vars
  PROVE  /\ SendUsed \in 0..NETSEND_FIFO_NUM-1
         /\ \/ SendUsed' = SendUsed
            \/ DpCopy2 /\ SendUsed' = SendUsed + 1
            \/ SpRead /\ sp' = "read2" /\ SendUsed' = SendUsed - 1
         /\ SpRead /\ sp' = "read2" => SendUsed' = SendUsed - 1
<1> DEFINE num == NETSEND_FIFO_NUM
<1>0. num \in Nat \ {0} /\ SendRd \in 0..num-1 /\ SendWr \in 0..num-1
  BY FifoAssumption DEF Inv, TypeOK, SendTypes, SendRd, SendWr, Writing, Wrap
<1>1. /\ SendUsed \in 0..num-1
      /\ Wrap(SendWr + 1, num) # SendRd => Used(SendRd, Wrap(SendWr + 1, num), num) = SendUsed + 1
      /\ SendRd # SendWr => Used(Wrap(SendRd + 1, num), SendWr, num) = SendUsed - 1
  BY <1>0, UsedSteps DEF SendUsed
<1>2. CASE DpCopy2
  <2>1. sp # "read2" /\ ~SpRead
    <3>1. ~Ready("send") /\ dp' # dp
      BY <1>2, Preempted DEF DpCopy2, DpGoto
    <3> QED
      BY <3>1 DEF Ready, SpRead, dpVars
  <2>2. SendRd = netsendfifordpos /\ SendRd' = SendRd
    BY <1>2, <2>1, FifoAssumption DEF DpCopy2, SendRd, Wrap, Inv, TypeOK, SendTypes
  <2>3. SendWr' = Wrap(SendWr + 1, num) /\ Wrap(SendWr + 1, num) # SendRd
    BY <1>2, <2>2 DEF DpCopy2, DpGoto, Inv, WriteInv, SendWr, Writing
  <2>4. SendUsed' = SendUsed + 1
    BY <1>1, <2>2, <2>3 DEF SendUsed
  <2> QED
    BY <1>1, <1>2, <2>1, <2>4
<1>3. CASE SpRead
  <2>1. ~Writing /\ sp = "read" /\ dp' = dp /\ UNCHANGED <<temp, netsendfifowrpos>>
    BY <1>3, Preempted DEF SpRead, SpGoto, Inv, WriteInv, dpVars, sendVars
  <2>2. SendRd = netsendfifordpos /\ SendWr = netsendfifowrpos /\ SendWr' = SendWr
    BY <2>1, FifoAssumption DEF SendRd, SendWr, Writing, Wrap, Inv, TypeOK, SendTypes
  <2>3. CASE netsendfifordpos = netsendfifowrpos
    <3>1. SendRd' = SendRd /\ sp' = "pend"
      BY <1>3, <2>2, <2>3 DEF SpRead, SpGoto, SendRd
    <3> QED
      BY <1>1, <2>2, <3>1 DEF SendUsed
  <2>4. CASE netsendfifordpos # netsendfifowrpos
    <3>1. SendRd' = Wrap(SendRd + 1, num) /\ SendRd # SendWr /\ sp' = "read2"
      BY <1>3, <2>2, <2>4 DEF SpRead, SpGoto, SendRd
    <3>2. SendUsed' = SendUsed - 1
      BY <1>1, <2>2, <3>1 DEF SendUsed
    <3> QED
      BY <1>1, <1>3, <3>1, <3>2
  <2> QED
    BY <2>3, <2>4
<1>4. ASSUME ~SpRead, SendRd' = SendRd, SendWr' = SendWr
      PROVE  SendUsed' = SendUsed
  BY <1>4 DEF SendUsed
<1>5. CASE ~SpRead /\ (DpWrite \/ DpWrap \/ DpFull \/ DpCopy)
  BY <1>1, <1>4, <1>5 DEF DpWrite, DpWrap, DpFull, DpCopy, DpGoto, SendWr, SendRd, Writing
<1>6. CASE ~SpRead /\ SpRead2
  <2>1. SendRd' = SendRd /\ SendWr' = SendWr
    BY <1>6, FifoAssumption DEF SpRead2, SpGoto, SendRd, SendWr, Writing, Wrap, Inv, TypeOK, SendTypes, dpVars
  <2> QED
    BY <1>1, <1>4, <1>6, <2>1
<1>7. CASE ~SpRead /\ (DpFlag \/ DpPend \/ DpReadEmpty \/ DpRead \/ DpRead2 \/ DpSwitch \/ DpShutter \/ DpPost \/ DpDelayEnds)
  BY <1>1, <1>4, <1>7 DEF DpFlag, DpPend, DpReadEmpty, DpRead, DpRead2, DpSwitch, DpShutter, DpPost, DpDelayEnds,
                    DpGoto, sendVars, SendWr, SendRd, Writing
<1>8. CASE ~SpRead /\ (udp_thread \/ SpPend \/ SpSent \/ tcpip_thread \/ UNCHANGED vars)
  <2>1. UNCHANGED <<netsendfifordpos, netsendfifowrpos, dpVars>>
    BY <1>8 DEF udp_thread, UdpConnect, UdpClose, UdpRecv, SpPend, SpSent, SpGoto, tcpip_thread, vars, sendVars
  <2> QED
    BY <1>1, <1>4, <1>8, <2>1 DEF dpVars, SendWr, SendRd, Writing
<1> QED
  BY <1>2, <1>3, <1>5, <1>6, <1>7, <1>8
  DEF Next, udp_dataprocess_task, udp_send_task

(* udp_thread runs only when no reply waits and none is on its way.        *)
LEMMA UdpSeesNoReply ==
  ASSUME Inv, NoneStranded, WalkInv, udp_thread
  PROVE  SendUsed = 0 /\ Leaving = 0
<1>1. Runs("udp")
  BY DEF udp_thread, UdpConnect, UdpClose, UdpRecv
<1>2. CASE udp = "walk"
  BY <1>2 DEF WalkInv
<1>3. CASE udp # "walk"
  <2>1. ~Ready("send") /\ ~Ready("dataprocess") /\ ~Ready("tcpip")
    BY <1>1, <1>3 DEF Runs, Prio
  <2>2. sp = "pend" /\ ~(msg_netsendready > 0) /\ dp # "post"
    BY <2>1 DEF Ready
  <2>3. SendUsed \in Nat /\ msg_netsendready \in Nat
    <3>1. [Next]_vars
      BY DEF Next
    <3> QED
      BY <3>1, SendUsedStep, FifoAssumption DEF Inv, TypeOK, SendTypes
  <2>4. SendUsed <= msg_netsendready
    BY <2>2, <2>3 DEF NoneStranded, SendPosted
  <2> QED
    BY <2>2, <2>3, <2>4 DEF Leaving
<1> QED
  BY <1>2, <1>3

(* The number of replies after a step is a number.                         *)
LEMMA SendUsedNext ==
  ASSUME Inv, [Next]_vars
  PROVE  SendUsed' \in Nat
<1>1. TypeOK'
  BY TypeOKStep DEF Inv
<1>2. /\ NETSEND_FIFO_NUM \in Nat \ {0} /\ SendRd' \in 0..NETSEND_FIFO_NUM-1
      /\ SendWr' \in 0..NETSEND_FIFO_NUM-1
  BY <1>1, FifoAssumption DEF TypeOK, SendTypes, SendRd, SendWr, Writing, Wrap
<1> QED
  BY <1>2, UsedSteps DEF SendUsed

(* A command moves from ring to ring, and none is added while a reply is   *)
(* in the camera.                                                          *)
LEMMA FitStep == Inv /\ FitInv /\ [Next]_vars => FitInv'
<1> SUFFICES ASSUME Inv, FitInv, [Next]_vars PROVE FitInv'
  OBVIOUS
<1> DEFINE N == NETRECV_FIFO_NUM
           r1 == RecvUsed'
           s1 == SendUsed'
           t1 == Taken'
           l1 == Leaving'
<1>0. NoneStranded /\ WalkInv
  BY DEF FitInv
<1>1. NoneStranded'
  BY <1>0, RecvPostedStep, SendPostedStep DEF NoneStranded
<1>2. /\ N \in Nat /\ RecvUsed \in Nat /\ SendUsed \in Nat /\ Taken \in Nat /\ Leaving \in Nat
      /\ RecvUsed + SendUsed + Taken + Leaving <= N
  <2>1. RecvUsed \in 0..N-1 /\ SendUsed \in 0..NETSEND_FIFO_NUM-1
    BY RecvUsedStep, SendUsedStep
  <2>2. RecvUsed + SendUsed + Taken + Leaving <= N
    BY DEF FitInv, Budget
  <2>3. Taken \in Nat /\ Leaving \in Nat
    BY DEF Taken, Leaving
  <2> QED
    BY <2>1, <2>2, <2>3, FifoAssumption
<1>3. t1 \in 0..1 /\ l1 \in 0..1
  BY DEF Taken, Leaving
<1>4. r1 \in 0..N-1
  <2>1. TypeOK'
    BY TypeOKStep DEF Inv
  <2>2. N \in Nat \ {0} /\ RecvRd' \in 0..N-1 /\ netrecvfifowrpos' \in 0..N-1
    BY <2>1, FifoAssumption DEF TypeOK, RecvTypes, RecvRd, Wrap
  <2> QED
    BY <2>2, UsedSteps DEF RecvUsed
<1>5. CASE udp_thread
  <2>1. SendUsed = 0 /\ Leaving = 0
    BY <1>0, <1>5, UdpSeesNoReply
  <2>2. UNCHANGED <<netsendfifordpos, netsendfifowrpos, dpVars, sp>>
    BY <1>5 DEF udp_thread, UdpConnect, UdpClose, UdpRecv, sendVars
  <2>3. s1 = 0 /\ l1 = 0
    BY <2>1, <2>2 DEF SendUsed, SendRd, SendWr, Writing, dpVars, Leaving
  <2>4. r1 + s1 + t1 + l1 <= N
    <3> HIDE DEF r1, s1, t1, l1
    <3> QED
      BY <1>2, <1>4, <1>3, <2>3
  <2> QED
    BY <1>1, <2>3, <2>4 DEF FitInv, WalkInv, Budget
<1>6. CASE ~udp_thread
  <2>1. CASE UNCHANGED <<dp, sp, udp>> /\ r1 = RecvUsed /\ s1 = SendUsed
    BY <1>0, <1>1, <1>2, <2>1 DEF FitInv, WalkInv, Budget, Taken, Leaving
  <2>2. ASSUME udp' # "walk", r1 + s1 + t1 + l1 <= RecvUsed + SendUsed + Taken + Leaving,
               s1 \in Nat
        PROVE  FitInv'
    <3>1. Budget'
      <4>1. r1 \in Nat
        BY <1>2, <1>4
      <4>2. r1 + s1 + t1 + l1 <= N
        <5> HIDE DEF r1, s1, t1, l1
        <5> QED
          BY <1>2, <1>3, <2>2, <4>1
      <4> QED
        BY <4>2 DEF Budget
    <3> QED
      BY <1>1, <2>2, <3>1 DEF FitInv, WalkInv
  <2>3. CASE udp_dataprocess_task
    <3>1. udp' # "walk" /\ l1 = Leaving
      BY <2>3, Preempted DEF udp_dataprocess_task, DpFlag, DpPend, DpReadEmpty, DpRead, DpRead2, DpSwitch, DpShutter,
           DpWrite, DpWrap, DpFull, DpCopy, DpCopy2, DpPost, DpGoto, udpVars, Leaving
    <3>2. CASE DpRead
      <4>1. Taken = 0 /\ t1 = 1 /\ dp' # "post" /\ dp = "read" /\ sp' = sp
        BY <3>2 DEF DpRead, DpGoto, Taken
      <4>2. r1 = RecvUsed - 1
        BY <3>2, RecvUsedStep
      <4>3. s1 = SendUsed
        BY <4>1, SendUsedStep DEF DpCopy2, DpGoto, SpRead, SpGoto
      <4>9. s1 \in Nat /\ r1 + s1 + t1 + l1 <= RecvUsed + SendUsed + Taken + Leaving
        <5> HIDE DEF r1, s1, t1, l1
        <5> QED
          BY <1>2, <1>3, <3>1, <4>1, <4>2, <4>3
      <4> QED
        BY <2>2, <3>1, <4>9
    <3>3. CASE DpCopy2
      <4>1. Taken = 1 /\ t1 = 0 /\ dp = "copy2" /\ sp' = sp
        BY <3>3 DEF DpCopy2, DpGoto, Taken
      <4>2. r1 = RecvUsed
        BY <1>6, <4>1, RecvUsedStep DEF DpRead, DpGoto
      <4>3. s1 \in {SendUsed, SendUsed + 1}
        BY <4>1, SendUsedStep DEF SpRead, SpGoto
      <4>9. s1 \in Nat /\ r1 + s1 + t1 + l1 <= RecvUsed + SendUsed + Taken + Leaving
        <5> HIDE DEF r1, s1, t1, l1
        <5> QED
          BY <1>2, <1>3, <3>1, <4>1, <4>2, <4>3
      <4> QED
        BY <2>2, <3>1, <4>9
    <3>4. CASE ~DpRead /\ ~DpCopy2
      <4>1. t1 <= Taken /\ sp' = sp
        BY <2>3, <3>4 DEF udp_dataprocess_task, DpFlag, DpPend, DpReadEmpty, DpRead2, DpSwitch, DpShutter, DpWrite,
             DpWrap, DpFull, DpCopy, DpPost, DpGoto, Taken
      <4>2. r1 = RecvUsed
        BY <1>6, <3>4, RecvUsedStep
      <4>3. s1 = SendUsed
        BY <3>4, <4>1, SendUsedStep DEF SpRead, SpGoto
      <4>9. s1 \in Nat /\ r1 + s1 + t1 + l1 <= RecvUsed + SendUsed + Taken + Leaving
        <5> HIDE DEF r1, s1, t1, l1
        <5> QED
          BY <1>2, <1>3, <3>1, <4>1, <4>2, <4>3
      <4> QED
        BY <2>2, <3>1, <4>9
    <3> QED
      BY <3>2, <3>3, <3>4
  <2>4. CASE DpDelayEnds
    <3>1. udp' # "walk" /\ t1 = Taken /\ l1 = Leaving /\ sp' = sp /\ dp \in {"delay", "save", "save2", "shutter"}
      BY <2>4 DEF DpDelayEnds, Taken, Leaving, udpVars
    <3>2. r1 = RecvUsed
      BY <1>6, <3>1, RecvUsedStep DEF DpRead, DpGoto
    <3>3. s1 = SendUsed
      BY <3>1, SendUsedStep DEF DpCopy2, SpRead, DpGoto, SpGoto
    <3>9. s1 \in Nat /\ r1 + s1 + t1 + l1 <= RecvUsed + SendUsed + Taken + Leaving
      <4> HIDE DEF r1, s1, t1, l1
      <4> QED
        BY <1>2, <1>3, <3>1, <3>2, <3>3
    <3> QED
      BY <2>2, <3>1, <3>9
  <2>5. CASE udp_send_task \/ tcpip_thread
    <3>1. udp' # "walk" /\ dp' = dp /\ t1 = Taken
      BY <2>5, Preempted DEF udp_send_task, SpPend, SpRead, SpRead2, SpSent, SpGoto, tcpip_thread, udpVars,
           dpVars, Taken
    <3>2. r1 = RecvUsed
      BY <1>6, <3>1, RecvUsedStep DEF DpRead, DpGoto
    <3>3. ~DpCopy2
      BY <3>1 DEF DpCopy2, DpGoto
    <3>4. CASE SpRead /\ sp' = "read2"
      <4>1. Leaving = 0 /\ l1 = 1
        BY <3>4 DEF SpRead, SpGoto, Leaving
      <4>2. s1 = SendUsed - 1
        BY <3>4, SendUsedStep
      <4>3. s1 \in Nat
        BY SendUsedNext
      <4>9. s1 \in Nat /\ r1 + s1 + t1 + l1 <= RecvUsed + SendUsed + Taken + Leaving
        <5> HIDE DEF r1, s1, t1, l1
        <5> QED
          BY <1>2, <1>3, <3>1, <3>2, <4>1, <4>2, <4>3
      <4> QED
        BY <2>2, <3>1, <4>9
    <3>5. CASE ~(SpRead /\ sp' = "read2")
      <4>1. l1 <= Leaving
        BY <2>5, <3>5 DEF udp_send_task, SpPend, SpRead, SpRead2, SpSent, SpGoto, tcpip_thread, Leaving
      <4>2. s1 = SendUsed
        BY <3>3, <3>5, SendUsedStep
      <4>9. s1 \in Nat /\ r1 + s1 + t1 + l1 <= RecvUsed + SendUsed + Taken + Leaving
        <5> HIDE DEF r1, s1, t1, l1
        <5> QED
          BY <1>2, <1>3, <3>1, <3>2, <4>1, <4>2
      <4> QED
        BY <2>2, <3>1, <4>9
    <3> QED
      BY <3>4, <3>5
  <2>6. CASE UNCHANGED vars
    <3>1. UNCHANGED <<dp, sp, udp>> /\ r1 = RecvUsed /\ s1 = SendUsed
      BY <2>6 DEF vars, recvVars, sendVars, udpVars, dpVars, RecvUsed, RecvRd, SendUsed, SendRd, SendWr, Writing
    <3> QED
      BY <2>1, <3>1
  <2> QED
    BY <1>6, <2>3, <2>4, <2>5, <2>6 DEF Next
<1> QED
  BY <1>5, <1>6

(* A reply always finds room in its ring when that ring is at least as     *)
(* long as the ring of commands, as it is (both have 60 slots).            *)
THEOREM RepliesFit == Spec => []ReplyFits
<1>1. Init => FitInv
  BY FifoAssumption DEF Init, FitInv, NoneStranded, RecvPosted, SendPosted, WalkInv, Budget, Taken, Leaving,
                        RecvUsed, SendUsed, Used, RecvRd, SendRd, SendWr, Writing, Wrap
<1>2. Inv /\ FitInv => ReplyFits
  <2> SUFFICES ASSUME Inv, FitInv, NETSEND_FIFO_NUM >= NETRECV_FIFO_NUM, dp = "full",
                      netsendfifordpos = netsendfifowrpos
               PROVE  FALSE
    BY DEF ReplyFits
  <2> DEFINE num == NETSEND_FIFO_NUM
  <2>1. ~Ready("send") /\ Writing /\ netsendfifowrpos = Wrap(temp + 1, num)
    BY DEF Inv, WriteInv, Writing
  <2>2. sp = "wait" \/ (sp = "pend" /\ ~(msg_netsendready > 0))
    BY <2>1 DEF Ready, Inv, TypeOK, TaskTypes
  <2>3. /\ num \in Nat \ {0, 1} /\ NETRECV_FIFO_NUM \in Nat /\ temp \in 0..num-1
        /\ msg_netsendready \in Nat
    BY FifoAssumption DEF Inv, TypeOK, SendTypes
  <2>4. SendRd = Wrap(temp + 1, num) /\ SendWr = temp
    BY <2>1, <2>3 DEF SendRd, SendWr, Wrap
  <2>5. SendUsed = num - 1
    BY <2>3, <2>4 DEF SendUsed, Used, Wrap
  <2>6. RecvUsed \in Nat /\ Taken = 1
    <3>1. RecvRd \in 0..NETRECV_FIFO_NUM-1 /\ netrecvfifowrpos \in 0..NETRECV_FIFO_NUM-1
      BY FifoAssumption DEF Inv, TypeOK, RecvTypes, RecvRd, Wrap
    <3>2. NETRECV_FIFO_NUM \in Nat \ {0}
      BY FifoAssumption
    <3>3. RecvUsed \in 0..NETRECV_FIFO_NUM-1
      BY <3>1, <3>2, UsedSteps DEF RecvUsed
    <3> QED
      BY <3>3 DEF Taken
  <2>7. CASE sp = "wait"
    <3>1. Leaving = 1
      BY <2>7 DEF Leaving
    <3>2. RecvUsed + SendUsed + Taken + Leaving <= NETRECV_FIFO_NUM
      BY DEF FitInv, Budget
    <3> QED
      BY <2>3, <2>5, <2>6, <3>1, <3>2
  <2>8. CASE sp = "pend" /\ ~(msg_netsendready > 0)
    <3>1. SendUsed <= 0
      BY <2>3, <2>8 DEF FitInv, NoneStranded, SendPosted
    <3> QED
      BY <2>3, <2>5, <3>1
  <2> QED
    BY <2>2, <2>7, <2>8
<1> QED
  BY <1>1, <1>2, FitStep, InvCorrect, PTL DEF Spec
=============================================================================
