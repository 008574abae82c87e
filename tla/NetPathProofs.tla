---------------------------- MODULE NetPathProofs ----------------------------
(***************************************************************************)
(* Proofs about the way of a packet: the types, the ring of descriptors,   *)
(* the room in the mailboxes and the safety of a polite host, for any      *)
(* number of descriptors and any size of the pools and the rings.          *)
(***************************************************************************)
EXTENDS NetPath, TLAPS, FiniteSetTheorems, SequenceTheorems

Msg == Inpkt \cup ApiMsg

(* The messages of one type in a mailbox, and in the hands of tcpip_thread.*)
Places(q, ty) == {i \in 1..Len(q) : q[i].type = ty}
Count(q, ty) == Cardinality(Places(q, ty))
InHand(ty) == IF cur # NONE /\ cur.type = ty THEN 1 ELSE 0

(* The answers that the senders have not taken yet.                        *)
Due(t) == IF pc[t] \in {"sem", "wait"} THEN 1 ELSE 0
Held(t) == IF HoldsNetbuf(t) THEN 1 ELSE 0

(* An image under way has packets left.                                    *)
LeftInv == pc["img"] # "idle" => left > 0

(* The pools are never exceeded, and every call in the mailbox and every   *)
(* count of the semaphore belongs to a sender that waits.                  *)
PoolInv ==
  /\ Inpkts <= MEMP_NUM_TCPIP_MSG_INPKT
  /\ Netbufs <= MEMP_NUM_NETBUF
  /\ Count(mbox, "API") + InHand("API") + op_completed <= Due("send") + Due("img")

(* n descriptors, from CurRxDesc on, hold a frame.                         *)
RingAt(n) ==
  /\ \A k \in Desc : own[(CurRxDesc + k) % ETH_RX_DESC_CNT] <=> k >= n
  /\ dma = (CurRxDesc + n) % ETH_RX_DESC_CNT

RingInv ==
  /\ \E n \in 0..ETH_RX_DESC_CNT : RingAt(n)
  /\ current_pbuf_idx = CurRxDesc

Inv == TypeOK /\ LeftInv /\ RingInv /\ PoolInv

-----------------------------------------------------------------------------
(* The camera of a polite host.  A frame on its way to udp_thread finds    *)
(* everything else at rest.                                                *)
NoCall == mbox = <<>> /\ cur = NONE /\ op_completed = 0
AllIdle == \A t \in Senders : pc[t] = "idle"
AtRest == netrecv = 0 /\ netsend = 0 /\ dp = "ready" /\ AllIdle /\ op_completed = 0

Whole(m) == m \in Inpkt /\ m.f.whole

Arriving ==
  /\ AtRest
  /\ \A d \in Desc \ {CurRxDesc} : own[d]
  /\ ~own[CurRxDesc] => RI /\ isr = "idle"
  /\ \/ ~own[CurRxDesc] /\ mbox = <<>> /\ cur = NONE /\ recvmbox = <<>> /\ udp = "recv"
     \/ own[CurRxDesc] /\ Len(mbox) = 1 /\ Whole(mbox[1]) /\ cur = NONE /\ recvmbox = <<>> /\ udp = "recv"
     \/ own[CurRxDesc] /\ mbox = <<>> /\ cur # NONE /\ Whole(cur) /\ recvmbox = <<>> /\ udp = "recv"
     \/ own[CurRxDesc] /\ mbox = <<>> /\ cur = NONE /\ Len(recvmbox) = 1 /\ recvmbox[1].whole /\ udp = "recv"
     \/ own[CurRxDesc] /\ mbox = <<>> /\ cur = NONE /\ recvmbox = <<>> /\ udp = "copy" /\ recvbuf.whole

(* Afterwards a single job is under way: a command that waits or is being  *)
(* carried out, a reply that waits, or a task that sends; beside these two *)
(* the last byte of a command may still be saved.                          *)
Call(t) == [type |-> "API", by |-> t, live |-> TRUE]
Called(t) ==
  /\ op_completed = 0
  /\ \/ Len(mbox) = 1 /\ mbox[1] = Call(t) /\ cur = NONE
     \/ mbox = <<>> /\ cur = Call(t)
Answered == mbox = <<>> /\ cur = NONE /\ op_completed = 1

Sending(t) ==
  /\ netrecv = 0 /\ netsend = 0 /\ dp \in {"ready", "save"}
  /\ \A u \in Senders \ {t} : pc[u] = "idle"
  /\ pc[t] \notin {"sem", "wait"} => NoCall
  /\ pc[t] = "sem" => Called(t) \/ Answered
  /\ pc[t] = "wait" => Called(t)

Job ==
  \/ netrecv = 1 /\ netsend = 0 /\ dp = "ready" /\ AllIdle /\ NoCall
  \/ netrecv = 0 /\ netsend = 1 /\ dp \in {"ready", "save"} /\ AllIdle /\ NoCall
  \/ netrecv = 0 /\ netsend = 0 /\ AllIdle /\ NoCall
  \/ \E t \in Senders : Sending(t)

(* Of the frame there is at most what udp_thread has still to delete.      *)
Delivered ==
  /\ \A d \in Desc : own[d]
  /\ recvmbox = <<>> /\ udp # "copy" /\ (udp = "delete" => recvbuf.whole)

Working == Delivered /\ Job

PoliteInv == polite => ~fault /\ (Arriving \/ Working)

-----------------------------------------------------------------------------
(* Sequences.                                                              *)

(* A position is set back at the end of the ring.                          *)
LEMMA RingIndex ==
  ASSUME NEW C \in Nat \ {0}, NEW a \in 0..C-1, NEW b \in 0..C
  PROVE  (a + b) % C = IF a + b < C THEN a + b ELSE a + b - C
<1>1. CASE a + b < C
  BY <1>1
<1>2. CASE ~(a + b < C)
  BY <1>2
<1> QED
  BY <1>1, <1>2

(* A frame that loses its place stays a frame.                             *)
LEMMA LoseType ==
  ASSUME NEW f \in Frame, NEW lost
  PROVE  Lose(f, lost) \in Frame
<1>1. f.p \in Desc /\ f.b \in Desc /\ f.whole \in BOOLEAN
  BY DEF Frame
<1> DEFINE w == f.whole /\ f \notin lost
<1>2. w \in BOOLEAN
  OBVIOUS
<1>3. Lose(f, lost) = [f EXCEPT !.whole = w]
  BY DEF Lose
<1> HIDE DEF w
<1> QED
  BY <1>1, <1>2, <1>3 DEF Frame

(* A message that loses its frame stays a message of its type.             *)
LEMMA LoseMsgType ==
  ASSUME NEW m \in Msg, NEW lost
  PROVE  /\ LoseMsg(m, lost) \in Msg /\ LoseMsg(m, lost).type = m.type
         /\ m.type = "API" => LoseMsg(m, lost) = m
<1>1. CASE m.type = "INPKT"
  <2>1. m \in Inpkt /\ m.f \in Frame
    BY <1>1 DEF Msg, Inpkt, ApiMsg
  <2> DEFINE g == Lose(m.f, lost)
  <2>2. g \in Frame
    BY <2>1, LoseType
  <2>3. LoseMsg(m, lost) = [m EXCEPT !.f = g]
    BY <1>1 DEF LoseMsg
  <2> HIDE DEF g
  <2> QED
    BY <1>1, <2>1, <2>2, <2>3 DEF Msg, Inpkt
<1>2. CASE m.type # "INPKT"
  BY <1>2 DEF LoseMsg
<1> QED
  BY <1>1, <1>2

(* Losing frames changes neither the number nor the types of messages.     *)
LEMMA LoseMboxType ==
  ASSUME NEW q \in Seq(Msg), NEW lost
  PROVE  /\ LoseMbox(q, lost) \in Seq(Msg)
         /\ Len(LoseMbox(q, lost)) = Len(q)
         /\ \A i \in 1..Len(q) : LoseMbox(q, lost)[i].type = q[i].type
         /\ \A i \in 1..Len(q) : q[i].type = "API" => LoseMbox(q, lost)[i] = q[i]
<1> DEFINE r == LoseMbox(q, lost)
<1>1. \A i \in 1..Len(q) : q[i] \in Msg
  OBVIOUS
<1>2. \A i \in 1..Len(q) : r[i] = LoseMsg(q[i], lost)
  BY DEF LoseMbox
<1>3. \A i \in 1..Len(q) : r[i] \in Msg /\ r[i].type = q[i].type /\ (q[i].type = "API" => r[i] = q[i])
  BY <1>1, <1>2, LoseMsgType
<1>4. r = [i \in 1..Len(q) |-> r[i]]
  BY DEF LoseMbox
<1> HIDE DEF r
<1>5. r \in Seq(Msg) /\ Len(r) = Len(q)
  BY <1>3, <1>4, LenProperties, IsASeq
<1> QED
  BY <1>3, <1>5 DEF r

(* Nor the number of received packets.                                     *)
LEMMA LoseRecvType ==
  ASSUME NEW q \in Seq(Frame), NEW lost
  PROVE  LoseRecv(q, lost) \in Seq(Frame) /\ Len(LoseRecv(q, lost)) = Len(q)
<1> DEFINE r == LoseRecv(q, lost)
<1>1. \A i \in 1..Len(q) : q[i] \in Frame
  OBVIOUS
<1>2. \A i \in 1..Len(q) : r[i] = Lose(q[i], lost)
  BY DEF LoseRecv
<1>3. \A i \in 1..Len(q) : r[i] \in Frame
  BY <1>1, <1>2, LoseType
<1>4. r = [i \in 1..Len(q) |-> r[i]]
  BY DEF LoseRecv
<1> HIDE DEF r
<1> QED
  BY <1>3, <1>4, LenProperties, IsASeq DEF r

(* A call that is over is a message still.                                 *)
LEMMA OverType ==
  ASSUME NEW m \in Msg, NEW t \in Senders
  PROVE  /\ Over(t, m) \in Msg /\ Over(t, m).type = m.type
         /\ m.type = "INPKT" => Over(t, m) = m
<1>1. CASE m.type = "API" /\ m.by = t
  <2>1. m \in ApiMsg
    BY <1>1 DEF Msg, Inpkt, ApiMsg
  <2> QED
    BY <1>1, <2>1 DEF Over, Msg, ApiMsg
<1>2. CASE ~(m.type = "API" /\ m.by = t)
  BY <1>2 DEF Over
<1> QED
  BY <1>1, <1>2

(* The end of a call changes neither the number nor the types of messages. *)
LEMMA OverMboxType ==
  ASSUME NEW q \in Seq(Msg), NEW t \in Senders, NEW r, r = [i \in DOMAIN q |-> Over(t, q[i])]
  PROVE  /\ r \in Seq(Msg) /\ Len(r) = Len(q)
         /\ \A i \in 1..Len(q) : r[i].type = q[i].type
<1>1. \A i \in 1..Len(q) : q[i] \in Msg
  OBVIOUS
<1>2. \A i \in 1..Len(q) : r[i] = Over(t, q[i])
  OBVIOUS
<1>3. \A i \in 1..Len(q) : r[i] \in Msg /\ r[i].type = q[i].type
  BY <1>1, <1>2, OverType
<1>4. r = [i \in 1..Len(q) |-> r[i]]
  OBVIOUS
<1> QED
  BY <1>3, <1>4, LenProperties, IsASeq

(* Messages are counted.                                                   *)
LEMMA CountType ==
  ASSUME NEW q \in Seq(Msg), NEW ty
  PROVE  IsFiniteSet(Places(q, ty)) /\ Count(q, ty) \in Nat
<1>1. IsFiniteSet(1..Len(q))
  BY FS_Interval
<1> QED
  BY <1>1, FS_Subset, FS_CardinalityType DEF Places, Count

(* Counts depend on the types of messages only.                            *)
LEMMA CountSame ==
  ASSUME NEW q \in Seq(Msg), NEW r \in Seq(Msg), Len(r) = Len(q),
         \A i \in 1..Len(q) : r[i].type = q[i].type, NEW ty
  PROVE  Count(r, ty) = Count(q, ty)
BY DEF Count, Places

(* Hence losing frames does not change them.                               *)
LEMMA CountLosing ==
  ASSUME NEW q \in Seq(Msg), NEW lost, NEW ty
  PROVE  Count(LoseMbox(q, lost), ty) = Count(q, ty)
<1> DEFINE r == LoseMbox(q, lost)
<1>1. r \in Seq(Msg) /\ Len(r) = Len(q) /\ \A i \in 1..Len(q) : r[i].type = q[i].type
  BY LoseMboxType
<1> HIDE DEF r
<1>2. Count(r, ty) = Count(q, ty)
  BY <1>1, CountSame
<1> QED
  BY <1>2 DEF r

(* An empty mailbox.                                                       *)
LEMMA CountEmpty ==
  ASSUME NEW ty
  PROVE  Count(<<>>, ty) = 0
<1>1. Places(<<>>, ty) = {}
  BY DEF Places
<1> QED
  BY <1>1, FS_EmptySet DEF Count

(* A message is posted.                                                    *)
LEMMA CountAppend ==
  ASSUME NEW q \in Seq(Msg), NEW m \in Msg, NEW ty
  PROVE  Count(Append(q, m), ty) = Count(q, ty) + (IF m.type = ty THEN 1 ELSE 0)
<1> DEFINE r == Append(q, m)
<1>1. /\ Len(r) = Len(q) + 1 /\ Len(q) \in Nat
      /\ \A i \in 1..Len(q) : r[i] = q[i]
      /\ r[Len(q) + 1] = m
  BY AppendProperties
<1>2. IsFiniteSet(Places(q, ty)) /\ Len(q) + 1 \notin Places(q, ty)
  <2>1. Len(q) + 1 \notin Places(q, ty)
    BY <1>1 DEF Places
  <2> QED
    BY <2>1, CountType
<1>3. Places(r, ty) = Places(q, ty) \cup (IF m.type = ty THEN {Len(q) + 1} ELSE {})
  <2> HIDE DEF r
  <2> QED BY <1>1 DEF Places
<1>4. CASE m.type = ty
  <2>1. Places(r, ty) = Places(q, ty) \cup {Len(q) + 1}
    BY <1>3, <1>4
  <2>2. Cardinality(Places(q, ty) \cup {Len(q) + 1}) = Cardinality(Places(q, ty)) + 1
    BY <1>2, FS_AddElement
  <2> QED
    BY <1>4, <2>1, <2>2 DEF Count
<1>5. CASE m.type # ty
  BY <1>3, <1>5, CountType DEF Count
<1> QED
  BY <1>4, <1>5

(* A message is fetched.                                                   *)
LEMMA CountTail ==
  ASSUME NEW q \in Seq(Msg), q # <<>>, NEW ty
  PROVE  Count(q, ty) = Count(Tail(q), ty) + (IF Head(q).type = ty THEN 1 ELSE 0)
<1> DEFINE r == Tail(q)
           S == Places(r, ty)
           T == Places(q, ty) \ {1}
           f == [i \in S |-> i + 1]
<1>1. /\ r \in Seq(Msg) /\ Len(q) \in Nat \ {0} /\ Len(r) = Len(q) - 1
      /\ \A i \in 1..Len(r) : r[i] = q[i + 1]
      /\ Head(q) = q[1]
  BY HeadTailProperties
<1> HIDE DEF r
<1>2. IsFiniteSet(S)
  BY <1>1, CountType
<1>3. f \in Bijection(S, T)
  <2>1. f \in [S -> T]
    BY <1>1 DEF Places
  <2>2. \A i, j \in S : f[i] = f[j] => i = j
    BY DEF Places
  <2>3. \A j \in T : \E i \in S : f[i] = j
    <3> SUFFICES ASSUME NEW j \in T
                 PROVE  \E i \in S : f[i] = j
      OBVIOUS
    <3>1. j - 1 \in S
      BY <1>1 DEF Places
    <3> QED
      BY <3>1 DEF Places
  <2> QED
    BY <2>1, <2>2, <2>3 DEF Bijection, Injection, Surjection, IsInjective
<1>4. Cardinality(T) = Cardinality(S)
  BY <1>2, <1>3, FS_Bijection DEF ExistsBijection
<1>5. 1 \in Places(q, ty) <=> Head(q).type = ty
  BY <1>1 DEF Places
<1>6. Cardinality(T) = IF 1 \in Places(q, ty) THEN Count(q, ty) - 1 ELSE Count(q, ty)
  BY CountType, FS_RemoveElement DEF Count
<1> QED
  BY <1>4, <1>5, <1>6, CountType DEF r, Count

(* Every message is a packet or a call.                                    *)
LEMMA CountAll ==
  ASSUME NEW q \in Seq(Msg)
  PROVE  Len(q) = Count(q, "INPKT") + Count(q, "API")
<1> DEFINE S == Places(q, "INPKT")
           T == Places(q, "API")
<1>1. \A i \in 1..Len(q) : q[i].type \in {"INPKT", "API"}
  BY DEF Msg, Inpkt, ApiMsg
<1>2. S \cup T = 1..Len(q) /\ S \cap T = {}
  BY <1>1 DEF Places
<1>3. Cardinality(1..Len(q)) = Len(q)
  <2>1. Len(q) \in Int /\ 1 \in Int /\ Len(q) >= 0
    BY LenProperties
  <2>2. Cardinality(1..Len(q)) = IF 1 > Len(q) THEN 0 ELSE Len(q)-1+1
    BY <2>1, FS_Interval
  <2> QED
    BY <2>1, <2>2
<1>4. Cardinality(S \cap T) = 0
  BY <1>2, FS_EmptySet
<1>5. Cardinality(S \cup T) = Cardinality(S) + Cardinality(T) - Cardinality(S \cap T)
  BY CountType, FS_Union
<1>6. Cardinality(S) \in Nat /\ Cardinality(T) \in Nat
  BY CountType DEF Count
<1>7. Count(q, "INPKT") = Cardinality(S) /\ Count(q, "API") = Cardinality(T)
  BY DEF Count
<1>8. Len(q) = Cardinality(S) + Cardinality(T) - Cardinality(S \cap T)
  BY <1>2, <1>3, <1>5
<1> HIDE DEF S, T
<1> QED
  BY <1>4, <1>6, <1>7, <1>8

(* The senders that hold a netbuf.                                         *)
LEMMA HeldIs ==
  Cardinality({t \in Senders : HoldsNetbuf(t)}) = Held("send") + Held("img")
<1> DEFINE S == {t \in Senders : HoldsNetbuf(t)}
<1>1. S = (IF HoldsNetbuf("send") THEN {"send"} ELSE {}) \cup (IF HoldsNetbuf("img") THEN {"img"} ELSE {})
  BY DEF Senders
<1>2. Cardinality({"send"}) = 1 /\ Cardinality({"img"}) = 1 /\ Cardinality({}) = 0
  BY FS_Singleton, FS_EmptySet
<1>3. IsFiniteSet({"send"}) /\ Cardinality({"send"} \cup {"img"}) = 2
  <2>1. IsFiniteSet({"send"})
    BY FS_Singleton
  <2>2. "img" \notin {"send"}
    OBVIOUS
  <2>3. Cardinality({"send"} \cup {"img"}) = Cardinality({"send"}) + 1
    BY <2>1, <2>2, FS_AddElement
  <2> QED
    BY <1>2, <2>1, <2>3
<1>4. CASE HoldsNetbuf("send") /\ HoldsNetbuf("img")
  BY <1>1, <1>3, <1>4 DEF Held
<1>5. CASE HoldsNetbuf("send") /\ ~HoldsNetbuf("img")
  <2>1. S = {"send"}
    BY <1>1, <1>5
  <2> QED BY <2>1, <1>2, <1>5 DEF Held
<1>6. CASE ~HoldsNetbuf("send") /\ HoldsNetbuf("img")
  <2>1. S = {"img"}
    BY <1>1, <1>6
  <2> QED BY <2>1, <1>2, <1>6 DEF Held
<1>7. CASE ~HoldsNetbuf("send") /\ ~HoldsNetbuf("img")
  <2>1. S = {}
    BY <1>1, <1>7
  <2> QED BY <2>1, <1>2, <1>7 DEF Held
<1> QED
  BY <1>4, <1>5, <1>6, <1>7

(* The netbufs in use, one holder at a time.                               *)
LEMMA NetbufsIs ==
  Netbufs = Len(recvmbox) + (IF udp = "recv" THEN 0 ELSE 1) + (Held("send") + Held("img"))
BY HeldIs DEF Netbufs

(* The messages of received packets in use.                                *)
LEMMA InpktsIs == Inpkts = Count(mbox, "INPKT") + InHand("INPKT")
BY DEF Inpkts, Count, Places, InHand

-----------------------------------------------------------------------------
(* Types.                                                                  *)
RxTypes ==
  /\ own \in [Desc -> BOOLEAN] /\ dma \in Desc /\ CurRxDesc \in Desc /\ current_pbuf_idx \in Desc
  /\ RI \in BOOLEAN /\ isr \in {"idle", "clear"}
IpTypes == mbox \in Seq(Msg) /\ (cur # NONE => cur \in Msg) /\ recvmbox \in Seq(Frame)
UdpTypes ==
  /\ udp \in {"recv", "copy", "delete"}
  /\ udp = "recv" => recvbuf = NONE
  /\ udp # "recv" => recvbuf \in Frame
DpTypes ==
  /\ netrecv \in 0..NETRECV_FIFO_NUM-1 /\ netsend \in 0..NETSEND_FIFO_NUM-1
  /\ dp \in {"ready", "reply", "save", "info", "exposure", "shutter", "readback"}
OutTypes ==
  /\ pc \in [Senders -> {"idle", "new", "apimsg", "sem", "wait", "return", "stuck"}]
  /\ left \in 0..ImgPackets /\ op_completed \in Nat
FlagTypes == fault \in BOOLEAN /\ polite \in BOOLEAN

(* TypeOK in parts, by the task they belong to.                            *)
LEMMA TypeParts ==
  TypeOK <=> RxTypes /\ IpTypes /\ UdpTypes /\ DpTypes /\ OutTypes /\ FlagTypes
BY NoneAssumption DEF TypeOK, RxTypes, IpTypes, UdpTypes, DpTypes, OutTypes, FlagTypes, Msg

(* What a step can be.                                                     *)
RxStep  == RxFrame \/ EthInput \/ EthClear
IpStep  == TcpipFetch \/ do_send \/ recv_udp \/ Drop
UdpStep == UdpRecv \/ (\E command \in BOOLEAN : UdpCopy(command)) \/ UdpDelete
DpPlain == DpSwitch \/ DpReply \/ DpShutter \/ DpDelayOver
DpStep  == DpPlain \/ (\E known \in BOOLEAN : WATCH_IMAGE(known))
OutStep ==
  \/ SendNew \/ ImgNew \/ (\E t \in Senders : tcpip_apimsg(t)) \/ (\E t \in Senders : SemWait(t))
  \/ SendReturn \/ (\E next \in {"idle", "new", "apimsg"} : ImgReturn(next))
Step == RxStep \/ IpStep \/ UdpStep \/ DpStep \/ OutStep \/ UNCHANGED vars

(* These are all the steps there are.                                      *)
LEMMA StepCases == [Next]_vars => Step
BY DEF Next, ETH_IRQHandler, tcpip_thread, udp_thread, udp_dataprocess_task, udp_send_task,
       imgcamera_task, Senders, Step, RxStep, IpStep, UdpStep, DpPlain, DpStep, OutStep

(* The descriptor after another is a descriptor.                           *)
LEMMA IncrType ==
  ASSUME NEW d \in Desc
  PROVE  Incr(d) \in Desc
BY NetAssumption DEF Desc, Incr

(* Every step keeps the types of the driver,                               *)
LEMMA RxTypesStep ==
  ASSUME TypeOK, Step
  PROVE  RxTypes'
<1> USE DEF RxTypes
<1>0. RxTypes
  BY TypeParts
<1>1. CASE RxFrame
  <2>1. dma' \in Desc
    BY <1>0, <1>1, IncrType DEF RxFrame
  <2> QED
    BY <1>0, <1>1, <2>1 DEF RxFrame
<1>2. CASE EthInput
  <2>1. CurRxDesc' \in Desc /\ current_pbuf_idx' \in Desc
    BY <1>0, <1>2, IncrType DEF EthInput
  <2>2. own' \in [Desc -> BOOLEAN]
    BY <1>0, <1>2 DEF EthInput, BuildRxDescriptors
  <2> QED
    BY <1>0, <1>2, <2>1, <2>2 DEF EthInput
<1>3. CASE EthClear
  BY <1>0, <1>3 DEF EthClear
<1>4. CASE IpStep
  BY <1>0, <1>4 DEF IpStep, TcpipFetch, do_send, recv_udp, Drop, rxVars
<1>5. CASE UdpStep
  BY <1>0, <1>5 DEF UdpStep, UdpRecv, UdpCopy, UdpDelete, rxVars
<1>6. CASE DpStep
  BY <1>0, <1>6 DEF DpStep, DpPlain, DpSwitch, WATCH_IMAGE, DpReply, DpShutter, DpDelayOver, rxVars
<1>7. CASE OutStep
  BY <1>0, <1>7 DEF OutStep, SendNew, ImgNew, tcpip_apimsg, SemWait, SendReturn, ImgReturn, CallOver, rxVars
<1>8. CASE UNCHANGED vars
  BY <1>0, <1>8 DEF vars, rxVars
<1> QED
  BY <1>1, <1>2, <1>3, <1>4, <1>5, <1>6, <1>7, <1>8 DEF Step, RxStep

(* References that may have lost their frames.                             *)
LEMMA Losing ==
  ASSUME IpTypes, NEW lost
  PROVE  /\ LoseMbox(mbox, lost) \in Seq(Msg) /\ LoseRecv(recvmbox, lost) \in Seq(Frame)
         /\ cur # NONE => LoseCur(lost) \in Msg /\ LoseCur(lost).type = cur.type
         /\ cur = NONE => LoseCur(lost) = NONE
BY LoseMboxType, LoseRecvType, LoseMsgType DEF IpTypes, LoseCur

(* of the mailboxes,                                                       *)
LEMMA IpTypesStep ==
  ASSUME TypeOK, Step
  PROVE  IpTypes'
<1>0. RxTypes /\ IpTypes /\ UdpTypes
  BY TypeParts
<1>1. CASE RxFrame
  BY <1>0, <1>1, Losing DEF RxFrame, IpTypes
<1>2. CASE EthInput
  <2>1. CASE own[CurRxDesc]
    BY <1>0, <1>2, <2>1 DEF EthInput, IpTypes, ipVars
  <2>2. CASE ~own[CurRxDesc]
    <3> DEFINE lost == {f \in Frame : f.p = current_pbuf_idx}
               g == [p |-> current_pbuf_idx, b |-> CurRxDesc, whole |-> TRUE]
    <3>1. /\ mbox' = tcpip_input(LoseMbox(mbox, lost), g) /\ cur' = LoseCur(lost)
          /\ recvmbox' = LoseRecv(recvmbox, lost)
      BY <1>2, <2>2 DEF EthInput
    <3>2. g \in Frame
      BY <1>0 DEF RxTypes, Frame
    <3> HIDE DEF lost, g
    <3>3. [type |-> "INPKT", f |-> g] \in Msg
      BY <3>2 DEF Msg, Inpkt
    <3>4. mbox' \in Seq(Msg)
      BY <1>0, <3>1, <3>3, Losing DEF tcpip_input
    <3> QED
      BY <1>0, <3>1, <3>4, Losing DEF IpTypes
  <2> QED
    BY <2>1, <2>2
<1>3. CASE EthClear \/ UNCHANGED vars
  BY <1>0, <1>3 DEF EthClear, vars, ipVars, IpTypes
<1>4. CASE TcpipFetch
  <2>1. mbox # <<>>
    BY <1>4 DEF TcpipFetch, Runs, Ready
  <2>2. Head(mbox) \in Msg /\ Tail(mbox) \in Seq(Msg)
    BY <1>0, <2>1 DEF IpTypes
  <2> QED
    BY <1>0, <1>4, <2>2 DEF TcpipFetch, IpTypes
<1>5. CASE do_send
  BY <1>0, <1>5 DEF do_send, IpTypes
<1>6. CASE recv_udp
  <2>1. cur.f \in Frame
    BY <1>0, <1>6 DEF recv_udp, IpTypes, Msg, Inpkt, ApiMsg
  <2> QED
    BY <1>0, <1>6, <2>1 DEF recv_udp, IpTypes
<1>7. CASE Drop
  BY <1>0, <1>7, Losing DEF Drop, IpTypes
<1>8. CASE UdpRecv
  <2>1. recvmbox # <<>>
    BY <1>8 DEF UdpRecv, Runs, Ready
  <2> QED
    BY <1>0, <1>8, <2>1 DEF UdpRecv, IpTypes
<1>9. CASE \E command \in BOOLEAN : UdpCopy(command)
  BY <1>0, <1>9 DEF UdpCopy, ipVars, IpTypes
<1>10. CASE UdpDelete
  BY <1>0, <1>10, Losing DEF UdpDelete, IpTypes
<1>11. CASE DpStep
  BY <1>0, <1>11 DEF DpStep, DpPlain, DpSwitch, WATCH_IMAGE, DpReply, DpShutter, DpDelayOver, ipVars, IpTypes
<1>12. CASE SendNew \/ ImgNew \/ (\E t \in Senders : SemWait(t))
  BY <1>0, <1>12 DEF SendNew, ImgNew, SemWait, ipVars, IpTypes
<1>13. ASSUME NEW t \in Senders, tcpip_apimsg(t)
       PROVE  IpTypes'
  <2>1. [type |-> "API", by |-> t, live |-> TRUE] \in Msg
    BY DEF Msg, ApiMsg
  <2> QED
    BY <1>0, <1>13, <2>1 DEF tcpip_apimsg, IpTypes
<1>14. ASSUME NEW t \in Senders, CallOver(t)
       PROVE  IpTypes'
  <2>1. mbox' \in Seq(Msg)
    BY <1>0, <1>14, OverMboxType DEF CallOver, IpTypes
  <2>2. cur' # NONE => cur' \in Msg
    BY <1>0, <1>14, OverType DEF CallOver, IpTypes
  <2> QED
    BY <1>0, <1>14, <2>1, <2>2 DEF CallOver, IpTypes
<1>15. CASE SendReturn \/ (\E next \in {"idle", "new", "apimsg"} : ImgReturn(next))
  BY <1>14, <1>15 DEF SendReturn, ImgReturn, Senders
<1> QED
  BY <1>1, <1>2, <1>3, <1>4, <1>5, <1>6, <1>7, <1>8, <1>9, <1>10, <1>11, <1>12, <1>13, <1>15
  DEF Step, RxStep, IpStep, UdpStep, OutStep

(* of udp_thread,                                                          *)
LEMMA UdpTypesStep ==
  ASSUME TypeOK, Step
  PROVE  UdpTypes'
<1>0. IpTypes /\ UdpTypes
  BY TypeParts
<1>1. ASSUME NEW lost
      PROVE  (udp = "recv" => LoseUdp(lost) = NONE) /\ (udp # "recv" => LoseUdp(lost) \in Frame)
  BY <1>0, LoseType, NoneAssumption DEF UdpTypes, LoseUdp
<1>2. CASE RxFrame \/ Drop
  BY <1>0, <1>1, <1>2 DEF RxFrame, Drop, UdpTypes
<1>3. CASE EthInput
  BY <1>0, <1>1, <1>3 DEF EthInput, UdpTypes
<1>4. CASE EthClear \/ UNCHANGED vars
  BY <1>0, <1>4 DEF EthClear, vars, udpVars, UdpTypes
<1>5. CASE TcpipFetch \/ do_send \/ recv_udp
  BY <1>0, <1>5 DEF TcpipFetch, do_send, recv_udp, udpVars, UdpTypes
<1>6. CASE UdpRecv
  <2>1. recvmbox # <<>>
    BY <1>6 DEF UdpRecv, Runs, Ready
  <2>2. Head(recvmbox) \in Frame
    BY <1>0, <2>1 DEF IpTypes
  <2> QED
    BY <1>6, <2>2 DEF UdpRecv, UdpTypes
<1>7. CASE \E command \in BOOLEAN : UdpCopy(command)
  BY <1>0, <1>7 DEF UdpCopy, UdpTypes
<1>8. CASE UdpDelete
  BY <1>0, <1>8 DEF UdpDelete, UdpTypes
<1>9. CASE DpStep
  BY <1>0, <1>9 DEF DpStep, DpPlain, DpSwitch, WATCH_IMAGE, DpReply, DpShutter, DpDelayOver, udpVars, UdpTypes
<1>10. CASE OutStep
  BY <1>0, <1>10
  DEF OutStep, SendNew, ImgNew, tcpip_apimsg, SemWait, SendReturn, ImgReturn, CallOver, udpVars, UdpTypes
<1> QED
  BY <1>2, <1>3, <1>4, <1>5, <1>6, <1>7, <1>8, <1>9, <1>10 DEF Step, RxStep, IpStep, UdpStep

(* of the rings,                                                           *)
LEMMA DpTypesStep ==
  ASSUME TypeOK, Step
  PROVE  DpTypes'
<1> USE NetAssumption DEF DpTypes
<1>0. DpTypes /\ NETRECV_FIFO_NUM \in Nat /\ NETSEND_FIFO_NUM \in Nat
  BY TypeParts
<1>1. CASE RxStep \/ UNCHANGED vars
  BY <1>0, <1>1 DEF RxStep, RxFrame, EthInput, EthClear, dpVars, vars
<1>2. CASE IpStep
  BY <1>0, <1>2 DEF IpStep, TcpipFetch, do_send, recv_udp, Drop, dpVars
<1>3. CASE UdpRecv \/ UdpDelete
  BY <1>0, <1>3 DEF UdpRecv, UdpDelete, dpVars
<1>4. CASE \E command \in BOOLEAN : UdpCopy(command)
  BY <1>0, <1>4 DEF UdpCopy
<1>5. CASE DpReply
  BY <1>0, <1>5 DEF DpReply
<1>6. CASE DpSwitch \/ (\E known \in BOOLEAN : WATCH_IMAGE(known))
  <2>1. netrecv > 0
    BY <1>6 DEF WATCH_IMAGE, DpSwitch, Runs, Ready
  <2> QED
    BY <1>0, <1>6, <2>1 DEF WATCH_IMAGE, DpSwitch
<1>7. CASE DpDelayOver \/ DpShutter
  BY <1>0, <1>7 DEF DpDelayOver, DpShutter
<1>8. CASE SendNew
  <2>1. netsend > 0
    BY <1>8 DEF SendNew, Runs, Ready
  <2> QED
    BY <1>0, <1>8, <2>1 DEF SendNew
<1>9. CASE ImgNew \/ (\E t \in Senders : tcpip_apimsg(t)) \/ (\E t \in Senders : SemWait(t))
  BY <1>0, <1>9 DEF ImgNew, tcpip_apimsg, SemWait, dpVars
<1>10. CASE SendReturn \/ (\E next \in {"idle", "new", "apimsg"} : ImgReturn(next))
  BY <1>0, <1>10 DEF SendReturn, ImgReturn, CallOver, dpVars
<1> QED
  BY <1>1, <1>2, <1>3, <1>4, <1>5, <1>6, <1>7, <1>8, <1>9, <1>10 DEF Step, UdpStep, DpPlain, DpStep, OutStep

(* What a signal does: a sender that waits goes on, or the count grows.    *)
LEMMA Signalled ==
  ASSUME OutTypes, Signal
  PROVE  \/ /\ \A t \in Senders : pc[t] # "wait"
            /\ op_completed' = op_completed + 1 /\ UNCHANGED pc
         \/ \E t \in Senders : /\ pc[t] = "wait" /\ pc' = [pc EXCEPT ![t] = "return"]
                               /\ UNCHANGED op_completed
<1> DEFINE waiting == {t \in Senders : pc[t] = "wait"}
           t0 == CHOOSE t \in waiting : \A u \in waiting : Prio[t] <= Prio[u]
<1>1. CASE waiting = {}
  BY <1>1 DEF Signal
<1>2. CASE waiting # {}
  <2>1. \E t \in waiting : \A u \in waiting : Prio[t] <= Prio[u]
    BY <1>2 DEF Senders, Prio
  <2>2. t0 \in waiting
    BY <2>1
  <2>3. pc' = [pc EXCEPT ![t0] = "return"] /\ UNCHANGED op_completed
    BY <1>2 DEF Signal
  <2> HIDE DEF t0
  <2> QED
    BY <2>2, <2>3
<1> QED
  BY <1>1, <1>2

(* of the two senders,                                                     *)
LEMMA OutTypesStep ==
  ASSUME TypeOK, LeftInv, Step
  PROVE  OutTypes' /\ LeftInv'
<1> USE DEF OutTypes, LeftInv, Senders
<1>0. OutTypes /\ ImgPackets \in Nat /\ ImgPackets >= 2
  BY TypeParts, NetAssumption
<1>1. CASE RxStep \/ UNCHANGED vars
  BY <1>0, <1>1 DEF RxStep, RxFrame, EthInput, EthClear, outVars, vars
<1>2. CASE TcpipFetch \/ recv_udp \/ Drop
  BY <1>0, <1>2 DEF TcpipFetch, recv_udp, Drop, outVars
<1>3. CASE do_send
  <2>1. CASE cur.live
    BY <1>0, <1>3, <2>1, Signalled DEF do_send
  <2>2. CASE ~cur.live
    BY <1>0, <1>3, <2>2 DEF do_send
  <2> QED
    BY <2>1, <2>2
<1>4. CASE UdpStep
  BY <1>0, <1>4 DEF UdpStep, UdpRecv, UdpCopy, UdpDelete, outVars
<1>5. CASE DpPlain
  BY <1>0, <1>5 DEF DpPlain, DpSwitch, DpReply, DpShutter, DpDelayOver, outVars
<1>6. CASE \E known \in BOOLEAN : WATCH_IMAGE(known)
  BY <1>0, <1>6 DEF WATCH_IMAGE
<1>7. CASE SendNew \/ ImgNew
  BY <1>0, <1>7 DEF SendNew, ImgNew, NetbufNew
<1>8. CASE \E t \in Senders : tcpip_apimsg(t)
  BY <1>0, <1>8 DEF tcpip_apimsg
<1>9. CASE \E t \in Senders : SemWait(t)
  BY <1>0, <1>9 DEF SemWait
<1>10. CASE SendReturn
  BY <1>0, <1>10 DEF SendReturn, CallOver
<1>11. CASE \E next \in {"idle", "new", "apimsg"} : ImgReturn(next)
  BY <1>0, <1>11 DEF ImgReturn, CallOver
<1> QED
  BY <1>1, <1>2, <1>3, <1>4, <1>5, <1>6, <1>7, <1>8, <1>9, <1>10, <1>11
  DEF Step, IpStep, DpStep, OutStep

(* and of the flags.                                                       *)
LEMMA FlagTypesStep ==
  ASSUME TypeOK, Step
  PROVE  FlagTypes'
<1> USE DEF FlagTypes
<1>0. FlagTypes
  BY TypeParts
<1>1. CASE RxFrame
  BY <1>0, <1>1 DEF RxFrame, Quiet
<1>2. CASE EthInput \/ EthClear \/ UNCHANGED vars
  BY <1>0, <1>2 DEF EthInput, EthClear, vars
<1>3. CASE IpStep
  BY <1>0, <1>3 DEF IpStep, TcpipFetch, do_send, recv_udp, Drop
<1>4. CASE UdpStep
  BY <1>0, <1>4 DEF UdpStep, UdpRecv, UdpCopy, UdpDelete
<1>5. CASE DpStep
  BY <1>0, <1>5 DEF DpStep, DpPlain, DpSwitch, WATCH_IMAGE, DpReply, DpShutter, DpDelayOver
<1>6. CASE OutStep
  BY <1>0, <1>6
  DEF OutStep, SendNew, ImgNew, NetbufNew, tcpip_apimsg, SemWait, SendReturn, ImgReturn, CallOver
<1> QED
  BY <1>1, <1>2, <1>3, <1>4, <1>5, <1>6 DEF Step, RxStep

(* Every step keeps TypeOK.                                                *)
LEMMA TypeStep == TypeOK /\ LeftInv /\ Step => TypeOK' /\ LeftInv'
<1> SUFFICES ASSUME TypeOK, LeftInv, Step
             PROVE  TypeOK' /\ LeftInv'
  OBVIOUS
<1>1. RxTypes' /\ IpTypes' /\ UdpTypes' /\ DpTypes' /\ OutTypes' /\ FlagTypes'
  BY RxTypesStep, IpTypesStep, UdpTypesStep, DpTypesStep, OutTypesStep, FlagTypesStep
<1>2. TypeOK'
  BY <1>1, NoneAssumption DEF TypeOK, RxTypes, IpTypes, UdpTypes, DpTypes, OutTypes, FlagTypes, Msg
<1> QED
  BY <1>2, OutTypesStep

-----------------------------------------------------------------------------
(* The ring of descriptors.                                                *)

(* The k-th descriptor from c on.                                          *)
At(c, k) == IF c + k < ETH_RX_DESC_CNT THEN c + k ELSE c + k - ETH_RX_DESC_CNT

(* The descriptor k places behind c.                                       *)
LEMMA AtIs ==
  ASSUME NEW c \in Desc, NEW k \in 0..ETH_RX_DESC_CNT
  PROVE  (c + k) % ETH_RX_DESC_CNT = At(c, k) /\ At(c, k) \in Desc
<1>1. ETH_RX_DESC_CNT \in Nat \ {0} /\ c \in 0..ETH_RX_DESC_CNT-1
  BY NetAssumption DEF Desc
<1>2. (c + k) % ETH_RX_DESC_CNT = IF c + k < ETH_RX_DESC_CNT THEN c + k ELSE c + k - ETH_RX_DESC_CNT
  BY <1>1, RingIndex
<1> QED
  BY <1>1, <1>2 DEF At, Desc

(* The next one.                                                           *)
LEMMA IncrIs ==
  ASSUME NEW c \in Desc
  PROVE  Incr(c) = At(c, 1)
<1>1. 1 \in 0..ETH_RX_DESC_CNT
  BY NetAssumption
<1> QED
  BY <1>1, AtIs DEF Incr

(* RingAt without a modulus.                                               *)
LEMMA RingAtIs ==
  ASSUME RxTypes, NEW n \in 0..ETH_RX_DESC_CNT
  PROVE  RingAt(n) <=> /\ \A k \in Desc : own[At(CurRxDesc, k)] <=> k >= n
                       /\ dma = At(CurRxDesc, n)
<1>1. \A k \in Desc : k \in 0..ETH_RX_DESC_CNT
  BY NetAssumption DEF Desc
<1>2. \A k \in 0..ETH_RX_DESC_CNT : (CurRxDesc + k) % ETH_RX_DESC_CNT = At(CurRxDesc, k)
  BY AtIs DEF RxTypes
<1> QED
  BY <1>1, <1>2 DEF RingAt

(* Every step keeps the descriptors that hold a frame together: the DMA    *)
(* fills the one behind them, the driver gives back the first.             *)
LEMMA RingStep ==
  ASSUME TypeOK, RingInv, Step
  PROVE  RingInv'
<1> DEFINE C == ETH_RX_DESC_CNT
<1>0. RxTypes /\ RxTypes' /\ C \in Nat \ {0}
  BY TypeParts, RxTypesStep, NetAssumption
<1>1. PICK n \in 0..C : RingAt(n)
  BY DEF RingInv
<1>2. /\ \A k \in Desc : own[At(CurRxDesc, k)] <=> k >= n
      /\ dma = At(CurRxDesc, n)
  BY <1>0, <1>1, RingAtIs
<1>3. CASE RxFrame
  <2>1. n # C
    <3> SUFFICES ASSUME n = C
                 PROVE  FALSE
      OBVIOUS
    <3>1. At(CurRxDesc, C) = CurRxDesc /\ At(CurRxDesc, 0) = CurRxDesc /\ 0 \in Desc
      BY <1>0 DEF At, RxTypes, Desc
    <3>2. ~own[CurRxDesc]
      BY <1>0, <1>2, <3>1
    <3> QED
      BY <1>2, <1>3, <3>1, <3>2 DEF RxFrame
  <2>2. n \in Desc /\ n + 1 \in 0..C
    BY <1>0, <2>1 DEF Desc
  <2>3. \A k \in Desc : At(CurRxDesc, k) = At(CurRxDesc, n) <=> k = n
    BY <1>0, <2>2 DEF At, RxTypes, Desc
  <2>4. own' = [own EXCEPT ![dma] = FALSE] /\ UNCHANGED CurRxDesc /\ dma' = Incr(dma)
    BY <1>3 DEF RxFrame
  <2>5. \A k \in Desc : own'[At(CurRxDesc, k)] <=> k >= n + 1
    <3> SUFFICES ASSUME NEW k \in Desc
                 PROVE  own'[At(CurRxDesc, k)] <=> k >= n + 1
      OBVIOUS
    <3>1. At(CurRxDesc, k) \in Desc
      BY <1>0 DEF At, RxTypes, Desc
    <3>2. CASE k = n
      BY <1>0, <1>2, <2>2, <2>4, <3>1, <3>2 DEF RxTypes, Desc
    <3>3. CASE k # n
      <4>1. own'[At(CurRxDesc, k)] = own[At(CurRxDesc, k)]
        BY <1>0, <1>2, <2>3, <2>4, <3>1, <3>3 DEF RxTypes
      <4>2. k >= n <=> k >= n + 1
        BY <2>2, <3>3 DEF Desc
      <4> QED
        BY <1>2, <4>1, <4>2
    <3> QED
      BY <3>2, <3>3
  <2>6. dma' = At(CurRxDesc, n + 1)
    <3>1. dma' = At(dma, 1)
      BY <1>0, <2>4, IncrIs DEF RxTypes
    <3> QED
      BY <1>0, <1>2, <2>2, <3>1 DEF At, RxTypes, Desc
  <2>7. RingAt(n + 1)'
    <3>1. \A k \in Desc : own'[At(CurRxDesc', k)] <=> k >= n + 1
      BY <2>4, <2>5
    <3>2. dma' = At(CurRxDesc', n + 1)
      BY <2>4, <2>6
    <3>3. \A k \in 0..C : (CurRxDesc' + k) % ETH_RX_DESC_CNT = At(CurRxDesc', k)
      BY <1>0, AtIs DEF RxTypes
    <3>4. \A k \in Desc : k \in 0..C
      BY <1>0 DEF Desc
    <3> QED
      BY <2>2, <3>1, <3>2, <3>3, <3>4 DEF RingAt
  <2>8. (current_pbuf_idx = CurRxDesc)'
    BY <1>3 DEF RxFrame, RingInv
  <2> QED
    BY <2>2, <2>7, <2>8 DEF RingInv
<1>4. CASE EthInput
  <2>1. CASE own[CurRxDesc]
    <3>1. UNCHANGED <<own, dma, CurRxDesc, current_pbuf_idx>>
      BY <1>4, <2>1 DEF EthInput
    <3> QED
      BY <1>1, <3>1 DEF RingInv, RingAt
  <2>2. CASE ~own[CurRxDesc]
    <3>1. /\ own' = [own EXCEPT ![CurRxDesc] = TRUE] /\ CurRxDesc' = Incr(CurRxDesc)
          /\ current_pbuf_idx' = Incr(current_pbuf_idx) /\ UNCHANGED dma
      BY <1>4, <2>2 DEF EthInput, BuildRxDescriptors
    <3>2. CurRxDesc' = At(CurRxDesc, 1)
      BY <1>0, <3>1, IncrIs DEF RxTypes
    <3>3. n > 0
      <4>1. At(CurRxDesc, 0) = CurRxDesc /\ 0 \in Desc
        BY <1>0 DEF At, RxTypes, Desc
      <4>2. ~(0 >= n)
        BY <1>2, <2>2, <4>1
      <4> QED
        BY <4>2
    <3>4. n - 1 \in 0..C
      BY <1>0, <3>3
    <3>5. \A k \in Desc : own'[At(CurRxDesc', k)] <=> k >= n - 1
      <4> SUFFICES ASSUME NEW k \in Desc
                   PROVE  own'[At(CurRxDesc', k)] <=> k >= n - 1
        OBVIOUS
      <4>1. CASE k = C - 1
        <5>1. At(CurRxDesc', k) = CurRxDesc
          BY <1>0, <3>2, <4>1 DEF At, RxTypes, Desc
        <5>2. own'[CurRxDesc] = TRUE
          BY <1>0, <3>1 DEF RxTypes
        <5>3. k >= n - 1
          BY <1>0, <4>1
        <5> QED
          BY <5>1, <5>2, <5>3
      <4>2. CASE k # C - 1
        <5>1. k + 1 \in Desc
          BY <1>0, <4>2 DEF Desc
        <5>2. At(CurRxDesc', k) = At(CurRxDesc, k + 1) /\ At(CurRxDesc, k + 1) # CurRxDesc
          BY <1>0, <3>2, <4>2 DEF At, RxTypes, Desc
        <5>3. At(CurRxDesc, k + 1) \in Desc
          BY <1>0, <5>1 DEF At, RxTypes, Desc
        <5>4. own'[At(CurRxDesc, k + 1)] = own[At(CurRxDesc, k + 1)]
          BY <1>0, <3>1, <5>2, <5>3 DEF RxTypes
        <5>5. k + 1 >= n <=> k >= n - 1
          BY DEF Desc
        <5> QED
          BY <1>2, <5>1, <5>2, <5>4, <5>5
      <4> QED
        BY <4>1, <4>2
    <3>6. dma' = At(CurRxDesc', n - 1)
      BY <1>0, <1>2, <3>1, <3>2, <3>3 DEF At, RxTypes, Desc
    <3>7. RingAt(n - 1)'
      <4>1. \A k \in 0..C : (CurRxDesc' + k) % ETH_RX_DESC_CNT = At(CurRxDesc', k)
        BY <1>0, AtIs DEF RxTypes
      <4>2. \A k \in Desc : k \in 0..C
        BY <1>0 DEF Desc
      <4> QED
        BY <3>4, <3>5, <3>6, <4>1, <4>2 DEF RingAt
    <3>8. (current_pbuf_idx = CurRxDesc)'
      BY <3>1 DEF RingInv
    <3> QED
      BY <3>4, <3>7, <3>8 DEF RingInv
  <2> QED
    BY <2>1, <2>2
<1>5. ASSUME UNCHANGED <<own, dma, CurRxDesc, current_pbuf_idx>>
      PROVE  RingInv'
  BY <1>1, <1>5 DEF RingInv, RingAt
<1>6. CASE EthClear \/ UNCHANGED vars
  BY <1>5, <1>6 DEF EthClear, vars, rxVars
<1>7. CASE IpStep
  BY <1>5, <1>7 DEF IpStep, TcpipFetch, do_send, recv_udp, Drop, rxVars
<1>8. CASE UdpStep
  BY <1>5, <1>8 DEF UdpStep, UdpRecv, UdpCopy, UdpDelete, rxVars
<1>9. CASE DpStep
  BY <1>5, <1>9 DEF DpStep, DpPlain, DpSwitch, WATCH_IMAGE, DpReply, DpShutter, DpDelayOver, rxVars
<1>10. CASE OutStep
  BY <1>5, <1>10
  DEF OutStep, SendNew, ImgNew, tcpip_apimsg, SemWait, SendReturn, ImgReturn, CallOver, rxVars
<1> QED
  BY <1>3, <1>4, <1>6, <1>7, <1>8, <1>9, <1>10 DEF Step, RxStep

(* RingAt(n) says how many descriptors hold a frame.                       *)
LEMMA RingCount ==
  ASSUME RxTypes, NEW n \in 0..ETH_RX_DESC_CNT, RingAt(n)
  PROVE  Cardinality({d \in Desc : ~own[d]}) = n
<1> DEFINE C == ETH_RX_DESC_CNT
           S == 0..n-1
           T == {d \in Desc : ~own[d]}
           f == [k \in S |-> At(CurRxDesc, k)]
<1>0. C \in Nat \ {0} /\ S \subseteq Desc /\ n \in Nat
  BY NetAssumption DEF Desc
<1>1. /\ \A k \in Desc : own[At(CurRxDesc, k)] <=> k >= n
      /\ \A k \in Desc : At(CurRxDesc, k) \in Desc
  <2>1. \A k \in Desc : At(CurRxDesc, k) \in Desc
    BY <1>0 DEF At, RxTypes, Desc
  <2> QED
    BY <2>1, RingAtIs
<1>2. f \in [S -> T]
  <2> SUFFICES ASSUME NEW k \in S
               PROVE  At(CurRxDesc, k) \in T
    OBVIOUS
  <2>1. ~(k >= n) /\ k \in Desc
    BY <1>0
  <2> QED
    BY <1>1, <2>1
<1>3. \A i, j \in S : f[i] = f[j] => i = j
  BY <1>0 DEF At, RxTypes, Desc
<1>4. \A d \in T : \E k \in S : f[k] = d
  <2> SUFFICES ASSUME NEW d \in T
               PROVE  \E k \in S : At(CurRxDesc, k) = d
    OBVIOUS
  <2> DEFINE k == IF d >= CurRxDesc THEN d - CurRxDesc ELSE d - CurRxDesc + C
  <2>1. k \in Desc /\ At(CurRxDesc, k) = d
    BY <1>0 DEF At, RxTypes, Desc
  <2>2. ~(k >= n)
    BY <1>1, <2>1
  <2> HIDE DEF k
  <2>3. k \in S
    BY <1>0, <2>1, <2>2 DEF Desc
  <2> QED
    BY <2>1, <2>3
<1>5. ExistsBijection(S, T)
  <2> HIDE DEF f, S, T
  <2>1. f \in Injection(S, T)
    BY <1>2, <1>3 DEF Injection, IsInjective
  <2>2. f \in Surjection(S, T)
    BY <1>2, <1>4 DEF Surjection
  <2> QED
    BY <2>1, <2>2 DEF ExistsBijection, Bijection
<1>6. IsFiniteSet(S) /\ Cardinality(S) = n
  <2>1. 0 \in Int /\ n - 1 \in Int
    BY <1>0
  <2>2. IsFiniteSet(S) /\ Cardinality(S) = IF 0 > n - 1 THEN 0 ELSE n - 1 - 0 + 1
    BY <2>1, FS_Interval
  <2> QED
    BY <1>0, <2>2
<1> QED
  BY <1>5, <1>6, FS_Bijection

(* Then the descriptors are in order.                                      *)
LEMMA RingInOrder ==
  ASSUME TypeOK, RingInv
  PROVE  DescriptorsInOrder
<1>1. PICK n \in 0..ETH_RX_DESC_CNT : RingAt(n)
  BY DEF RingInv
<1>2. Cardinality({d \in Desc : ~own[d]}) = n
  BY <1>1, RingCount, TypeParts
<1> QED
  BY <1>1, <1>2 DEF DescriptorsInOrder, RingAt, RingInv, Desc

-----------------------------------------------------------------------------
(* The messages and the netbufs.                                           *)

(* The mailbox and the message in hand keep the types of their messages.   *)
Kept == \A ty \in {"INPKT", "API"} : Count(mbox, ty)' = Count(mbox, ty) /\ InHand(ty)' = InHand(ty)

(* When types stay, counts stay.                                           *)
LEMMA KeptWhen ==
  ASSUME IpTypes, IpTypes', Len(mbox') = Len(mbox), \A i \in 1..Len(mbox) : mbox'[i].type = mbox[i].type,
         cur = NONE <=> cur' = NONE, cur # NONE => cur'.type = cur.type
  PROVE  Kept
<1>1. \A ty : Count(mbox', ty) = Count(mbox, ty)
  BY CountSame DEF IpTypes
<1> QED
  BY <1>1 DEF Kept, InHand, Count, Places

(* A frame that is lost takes no message with it.                          *)
LEMMA KeptLosing ==
  ASSUME IpTypes, IpTypes', NEW lost, mbox' = LoseMbox(mbox, lost), cur' = LoseCur(lost)
  PROVE  Kept
<1>1. Len(mbox') = Len(mbox) /\ \A i \in 1..Len(mbox) : mbox'[i].type = mbox[i].type
  BY LoseMboxType DEF IpTypes
<1>2. (cur = NONE <=> cur' = NONE) /\ (cur # NONE => cur'.type = cur.type)
  BY Losing, NoneAssumption DEF Msg
<1> QED
  BY <1>1, <1>2, KeptWhen

(* Nor does a step that leaves the messages alone,                         *)
LEMMA KeptSame ==
  ASSUME UNCHANGED <<mbox, cur>>
  PROVE  Kept
BY DEF Kept, InHand, Count, Places

(* nor the end of a call.                                                  *)
LEMMA KeptOver ==
  ASSUME IpTypes, IpTypes', NEW t \in Senders, CallOver(t)
  PROVE  Kept
<1>1. Len(mbox') = Len(mbox) /\ \A i \in 1..Len(mbox) : mbox'[i].type = mbox[i].type
  <2>1. mbox' = [i \in DOMAIN mbox |-> Over(t, mbox[i])] /\ mbox \in Seq(Msg)
    BY DEF CallOver, IpTypes
  <2> HIDE DEF CallOver
  <2> QED
    BY <2>1, OverMboxType
<1>2. (cur = NONE <=> cur' = NONE) /\ (cur # NONE => cur'.type = cur.type)
  BY OverType, NoneAssumption DEF CallOver, IpTypes, Msg
<1> QED
  BY <1>1, <1>2, KeptWhen

(* The numbers PoolInv adds up.                                            *)
LEMMA Numbers ==
  ASSUME TypeOK
  PROVE  /\ \A ty \in {"INPKT", "API"} : Count(mbox, ty) \in Nat /\ InHand(ty) \in 0..1
         /\ \A t \in Senders : Due(t) \in 0..1 /\ Held(t) \in 0..1
         /\ Len(recvmbox) \in Nat /\ op_completed \in Nat
         /\ MEMP_NUM_NETBUF \in Nat /\ MEMP_NUM_TCPIP_MSG_INPKT \in Nat
BY CountType, LenProperties, TypeParts, NetAssumption DEF IpTypes, OutTypes, InHand, Due, Held

(* PoolInv in those numbers.                                               *)
InpktsFit == Count(mbox, "INPKT") + InHand("INPKT") <= MEMP_NUM_TCPIP_MSG_INPKT
NetbufsFit == Len(recvmbox) + (IF udp = "recv" THEN 0 ELSE 1) + (Held("send") + Held("img")) <= MEMP_NUM_NETBUF
CallsDue == Count(mbox, "API") + InHand("API") + op_completed <= Due("send") + Due("img")

(* PoolInv in parts.                                                       *)
LEMMA PoolParts == PoolInv <=> InpktsFit /\ NetbufsFit /\ CallsDue
BY NetbufsIs, InpktsIs DEF PoolInv, InpktsFit, NetbufsFit, CallsDue

(* The same in the next state.                                             *)
LEMMA PoolPartsNext == PoolInv' <=> InpktsFit' /\ NetbufsFit' /\ CallsDue'
<1>1. (PoolInv <=> InpktsFit /\ NetbufsFit /\ CallsDue)'
  BY PoolParts, PTL
<1> QED
  BY <1>1

(* Pools that are not exceeded leave room in the mailboxes.                *)
LEMMA MailboxesOpenLemma ==
  ASSUME TypeOK, PoolInv
  PROVE  MailboxesOpen
<1>1. InpktsFit /\ NetbufsFit /\ CallsDue
  BY PoolParts
<1>2. /\ Count(mbox, "INPKT") \in Nat /\ InHand("INPKT") \in 0..1
      /\ Count(mbox, "API") \in Nat /\ InHand("API") \in 0..1
      /\ Due("send") \in 0..1 /\ Held("send") \in 0..1
      /\ Due("img") \in 0..1 /\ Held("img") \in 0..1
      /\ Len(recvmbox) \in Nat /\ op_completed \in Nat
  BY Numbers DEF Senders
<1>3. Len(mbox) = Count(mbox, "INPKT") + Count(mbox, "API")
  BY CountAll, TypeParts DEF IpTypes
<1>4. /\ MEMP_NUM_NETBUF \in Nat /\ MEMP_NUM_TCPIP_MSG_INPKT \in Nat /\ MAX_QUEUE_ENTRIES \in Nat
      /\ MAX_QUEUE_ENTRIES > MEMP_NUM_TCPIP_MSG_INPKT + 2 /\ MAX_QUEUE_ENTRIES > MEMP_NUM_NETBUF
  BY NetAssumption
<1>5. Len(mbox) < MAX_QUEUE_ENTRIES
  BY <1>1, <1>2, <1>3, <1>4 DEF InpktsFit, CallsDue
<1>6. Len(recvmbox) < MAX_QUEUE_ENTRIES
  BY <1>1, <1>2, <1>4 DEF NetbufsFit
<1> QED
  BY <1>5, <1>6 DEF MailboxesOpen, sys_mbox_valid

(* A signal pays one of the answers that are due.                          *)
LEMMA SignalDue ==
  ASSUME OutTypes, Signal
  PROVE  /\ \/ /\ op_completed' = op_completed + 1
               /\ Due("send")' + Due("img")' = Due("send") + Due("img")
            \/ /\ op_completed' = op_completed
               /\ Due("send")' + Due("img")' = Due("send") + Due("img") - 1
         /\ Held("send")' = Held("send") /\ Held("img")' = Held("img")
<1>1. CASE op_completed' = op_completed + 1 /\ UNCHANGED pc
  BY <1>1 DEF Due, Held, HoldsNetbuf
<1>2. ASSUME NEW t \in Senders, pc[t] = "wait", pc' = [pc EXCEPT ![t] = "return"], UNCHANGED op_completed
      PROVE  /\ Due("send")' + Due("img")' = Due("send") + Due("img") - 1
             /\ Held("send")' = Held("send") /\ Held("img")' = Held("img")
  BY <1>2 DEF Due, Held, HoldsNetbuf, OutTypes, Senders
<1> QED
  BY <1>1, <1>2, Signalled

(* Every step keeps the messages of packets within their pool,             *)
LEMMA InpktsStep ==
  ASSUME TypeOK, TypeOK', InpktsFit, Step
  PROVE  InpktsFit'
<1>0. /\ IpTypes /\ IpTypes' /\ RxTypes
      /\ Count(mbox, "INPKT") \in Nat /\ InHand("INPKT") \in 0..1
      /\ MEMP_NUM_TCPIP_MSG_INPKT \in Nat
  <2>1. IpTypes'
    BY IpTypesStep
  <2> QED
    BY <2>1, TypeParts, Numbers
<1>1. ASSUME Kept
      PROVE  InpktsFit'
  BY <1>1 DEF InpktsFit, Kept
<1>2. CASE RxFrame
  BY <1>0, <1>1, <1>2, KeptLosing DEF RxFrame
<1>3. CASE EthInput
  <2>1. CASE own[CurRxDesc]
    BY <1>1, <1>3, <2>1, KeptSame DEF EthInput, ipVars
  <2>2. CASE ~own[CurRxDesc]
    <3> DEFINE lost == {f \in Frame : f.p = current_pbuf_idx}
               g == [p |-> current_pbuf_idx, b |-> CurRxDesc, whole |-> TRUE]
               q == LoseMbox(mbox, lost)
               m == [type |-> "INPKT", f |-> g]
    <3>1. mbox' = tcpip_input(q, g) /\ cur' = LoseCur(lost)
      BY <1>3, <2>2 DEF EthInput
    <3>2. m \in Msg /\ m.type = "INPKT"
      BY <1>0 DEF RxTypes, Frame, Msg, Inpkt
    <3>3. q \in Seq(Msg) /\ Count(q, "INPKT") = Count(mbox, "INPKT")
      BY <1>0, LoseMboxType, CountLosing DEF IpTypes
    <3>4. InHand("INPKT")' = InHand("INPKT")
      BY <1>0, <3>1, Losing, NoneAssumption DEF InHand, Msg
    <3>5. mbox' = q \/ (mbox' = Append(q, m) /\ Inpkts < MEMP_NUM_TCPIP_MSG_INPKT)
      BY <3>1 DEF tcpip_input
    <3> HIDE DEF lost, g, q, m
    <3>6. CASE mbox' = q
      <4>1. Count(mbox, "INPKT")' = Count(q, "INPKT")
        BY <3>6 DEF Count, Places
      <4> QED
        BY <3>3, <3>4, <4>1 DEF InpktsFit
    <3>7. CASE mbox' = Append(q, m) /\ Inpkts < MEMP_NUM_TCPIP_MSG_INPKT
      <4>1. Count(Append(q, m), "INPKT") = Count(q, "INPKT") + 1
        BY <3>2, <3>3, CountAppend
      <4>2. Count(mbox, "INPKT")' = Count(mbox, "INPKT") + 1
        BY <3>3, <3>7, <4>1 DEF Count, Places
      <4> QED
        BY <1>0, <3>4, <3>7, <4>2, InpktsIs DEF InpktsFit
    <3> QED
      BY <3>5, <3>6, <3>7
  <2> QED
    BY <2>1, <2>2
<1>4. CASE EthClear \/ UNCHANGED vars
  BY <1>1, <1>4, KeptSame DEF EthClear, vars, ipVars
<1>5. CASE TcpipFetch
  <2>1. mbox # <<>> /\ cur = NONE /\ cur' = Head(mbox) /\ mbox' = Tail(mbox)
    BY <1>5 DEF TcpipFetch, Runs, Ready
  <2>2. Count(mbox, "INPKT") = Count(Tail(mbox), "INPKT") + (IF Head(mbox).type = "INPKT" THEN 1 ELSE 0)
    BY <1>0, <2>1, CountTail DEF IpTypes
  <2>3. Count(mbox, "INPKT")' = Count(Tail(mbox), "INPKT") /\ Count(mbox, "INPKT")' \in Nat
    <3>1. Count(mbox', "INPKT") \in Nat
      BY <1>0, CountType DEF IpTypes
    <3> QED
      BY <2>1, <3>1 DEF Count, Places
  <2>4. InHand("INPKT") = 0 /\ InHand("INPKT")' = (IF Head(mbox).type = "INPKT" THEN 1 ELSE 0)
    <3>1. cur' # NONE
      BY <1>0, <2>1, NoneAssumption DEF IpTypes, Msg
    <3> QED
      BY <2>1, <3>1 DEF InHand
  <2> QED
    BY <1>0, <2>2, <2>3, <2>4 DEF InpktsFit
<1>6. ASSUME cur' = NONE, Count(mbox, "INPKT")' = Count(mbox, "INPKT")
      PROVE  InpktsFit'
  BY <1>0, <1>6 DEF InpktsFit, InHand
<1>7. CASE do_send \/ recv_udp
  BY <1>6, <1>7 DEF do_send, recv_udp, Count, Places
<1>8. CASE Drop
  <2>1. PICK lost : mbox' = LoseMbox(mbox, lost)
    BY <1>8 DEF Drop
  <2>2. Count(LoseMbox(mbox, lost), "INPKT") = Count(mbox, "INPKT")
    BY <1>0, CountLosing DEF IpTypes
  <2>3. Count(mbox, "INPKT")' = Count(mbox', "INPKT")
    BY DEF Count, Places
  <2>4. Count(mbox, "INPKT")' = Count(mbox, "INPKT")
    BY <2>1, <2>2, <2>3
  <2> QED
    BY <1>6, <1>8, <2>4 DEF Drop
<1>9. CASE UdpRecv \/ \E command \in BOOLEAN : UdpCopy(command)
  BY <1>1, <1>9, KeptSame DEF UdpRecv, UdpCopy, ipVars
<1>10. CASE UdpDelete
  BY <1>0, <1>1, <1>10, KeptLosing DEF UdpDelete
<1>11. CASE DpStep
  BY <1>1, <1>11, KeptSame DEF DpStep, DpPlain, DpSwitch, WATCH_IMAGE, DpReply, DpShutter, DpDelayOver, ipVars
<1>12. CASE SendNew \/ ImgNew \/ (\E t \in Senders : SemWait(t))
  BY <1>1, <1>12, KeptSame DEF SendNew, ImgNew, SemWait, ipVars
<1>13. ASSUME NEW t \in Senders, tcpip_apimsg(t)
       PROVE  InpktsFit'
  <2>1. UNCHANGED cur
    BY <1>13 DEF tcpip_apimsg
  <2>2. CASE UNCHANGED mbox
    BY <1>1, <2>1, <2>2, KeptSame
  <2>3. CASE mbox' = Append(mbox, Call(t))
    <3>1. Call(t) \in Msg /\ Call(t).type # "INPKT"
      BY DEF Msg, ApiMsg, Call
    <3>2. Count(Append(mbox, Call(t)), "INPKT") = Count(mbox, "INPKT")
      BY <1>0, <3>1, CountAppend DEF IpTypes
    <3> QED
      BY <2>1, <2>3, <3>2 DEF InpktsFit, InHand, Count, Places
  <2> QED
    BY <1>13, <2>2, <2>3 DEF tcpip_apimsg, Call
<1>14. CASE SendReturn \/ (\E next \in {"idle", "new", "apimsg"} : ImgReturn(next))
  <2>1. \E t \in Senders : CallOver(t)
    BY <1>14 DEF SendReturn, ImgReturn, Senders
  <2> QED
    BY <1>0, <1>1, <2>1, KeptOver
<1> QED
  BY <1>2, <1>3, <1>4, <1>5, <1>7, <1>8, <1>9, <1>10, <1>11, <1>12, <1>13, <1>14
  DEF Step, RxStep, IpStep, UdpStep, OutStep

(* the netbufs within theirs,                                              *)
LEMMA NetbufsStep ==
  ASSUME TypeOK, NetbufsFit, Step
  PROVE  NetbufsFit'
<1> DEFINE Taken == IF udp = "recv" THEN 0 ELSE 1
<1>0. /\ IpTypes /\ OutTypes /\ UdpTypes
      /\ Held("send") \in 0..1 /\ Held("img") \in 0..1 /\ Len(recvmbox) \in Nat
      /\ MEMP_NUM_NETBUF \in Nat
  BY TypeParts, Numbers DEF Senders
<1>1. ASSUME Held("send")' + Held("img")' = Held("send") + Held("img"), Taken' = Taken,
             Len(recvmbox)' = Len(recvmbox)
      PROVE  NetbufsFit'
  BY <1>1 DEF NetbufsFit
<1>2. ASSUME NEW lost, recvmbox' = LoseRecv(recvmbox, lost)
      PROVE  Len(recvmbox)' = Len(recvmbox)
  BY <1>0, <1>2, LoseRecvType DEF IpTypes
<1>3. ASSUME UNCHANGED pc
      PROVE  Held("send")' + Held("img")' = Held("send") + Held("img")
  BY <1>3 DEF Held, HoldsNetbuf
<1>4. CASE RxFrame
  BY <1>1, <1>2, <1>3, <1>4 DEF RxFrame, outVars
<1>5. CASE EthInput
  <2>1. Len(recvmbox)' = Len(recvmbox)
    BY <1>2, <1>5 DEF EthInput, ipVars
  <2> QED
    BY <1>1, <1>3, <1>5, <2>1 DEF EthInput, outVars
<1>6. CASE EthClear \/ UNCHANGED vars
  BY <1>1, <1>3, <1>6 DEF EthClear, vars, ipVars, udpVars, outVars
<1>7. CASE TcpipFetch
  BY <1>1, <1>3, <1>7 DEF TcpipFetch, udpVars, outVars
<1>8. CASE do_send
  <2>1. Held("send")' + Held("img")' = Held("send") + Held("img")
    BY <1>0, <1>3, <1>8, SignalDue DEF do_send
  <2> QED
    BY <1>1, <1>8, <2>1 DEF do_send, udpVars
<1>9. CASE recv_udp
  <2>1. Len(recvmbox)' = Len(recvmbox) + 1
    <3>1. cur.f \in Frame
      BY <1>0, <1>9 DEF recv_udp, IpTypes, Msg, Inpkt, ApiMsg
    <3> QED
      BY <1>0, <1>9, <3>1, AppendProperties DEF recv_udp, IpTypes
  <2>2. Netbufs < MEMP_NUM_NETBUF /\ Taken' = Taken
    BY <1>9 DEF recv_udp, udpVars
  <2>3. Held("send")' + Held("img")' = Held("send") + Held("img")
    BY <1>3, <1>9 DEF recv_udp, outVars
  <2>4. Len(recvmbox) + Taken + (Held("send") + Held("img")) < MEMP_NUM_NETBUF
    BY <2>2, NetbufsIs
  <2> QED
    BY <1>0, <2>1, <2>2, <2>3, <2>4 DEF NetbufsFit
<1>10. CASE Drop
  BY <1>1, <1>2, <1>3, <1>10 DEF Drop, outVars
<1>11. CASE UdpRecv
  <2>1. recvmbox # <<>> /\ Taken = 0 /\ Taken' = 1 /\ recvmbox' = Tail(recvmbox)
    BY <1>11 DEF UdpRecv, Runs, Ready
  <2>2. Len(recvmbox)' = Len(recvmbox) - 1
    BY <1>0, <2>1 DEF IpTypes
  <2> QED
    BY <1>0, <1>3, <1>11, <2>1, <2>2 DEF UdpRecv, outVars, NetbufsFit
<1>12. CASE \E command \in BOOLEAN : UdpCopy(command)
  BY <1>1, <1>3, <1>12 DEF UdpCopy, ipVars, outVars
<1>13. CASE UdpDelete
  <2>1. Taken = 1 /\ Taken' = 0
    BY <1>13 DEF UdpDelete
  <2>2. Len(recvmbox)' = Len(recvmbox)
    BY <1>2, <1>13 DEF UdpDelete
  <2> QED
    BY <1>0, <1>3, <1>13, <2>1, <2>2 DEF UdpDelete, outVars, NetbufsFit
<1>14. CASE DpPlain
  BY <1>1, <1>3, <1>14 DEF DpPlain, DpSwitch, DpReply, DpShutter, DpDelayOver, ipVars, udpVars, outVars
<1>15. CASE \E known \in BOOLEAN : WATCH_IMAGE(known)
  <2>1. Held("send")' + Held("img")' = Held("send") + Held("img")
    BY <1>0, <1>15 DEF WATCH_IMAGE, Held, HoldsNetbuf, OutTypes, Senders
  <2> QED
    BY <1>1, <1>15, <2>1 DEF WATCH_IMAGE, ipVars, udpVars
<1>16. ASSUME NEW t \in Senders, NetbufNew(t), UNCHANGED <<recvmbox, udp>>
       PROVE  NetbufsFit'
  <2>1. CASE UNCHANGED pc
    BY <1>1, <1>3, <1>16, <2>1
  <2>2. CASE pc' = [pc EXCEPT ![t] = "apimsg"] /\ Netbufs < MEMP_NUM_NETBUF
    <3>1. Held("send")' + Held("img")' <= Held("send") + Held("img") + 1
      BY <1>0, <2>2 DEF Held, HoldsNetbuf, OutTypes, Senders
    <3>2. Len(recvmbox) + Taken + (Held("send") + Held("img")) < MEMP_NUM_NETBUF
      BY <2>2, NetbufsIs
    <3>3. Len(recvmbox)' = Len(recvmbox) /\ Taken' = Taken
      BY <1>16
    <3>4. Held("send")' \in 0..1 /\ Held("img")' \in 0..1
      BY DEF Held
    <3> QED
      BY <1>0, <3>1, <3>2, <3>3, <3>4 DEF NetbufsFit
  <2> QED
    BY <1>16, <2>1, <2>2 DEF NetbufNew
<1>17. CASE SendNew \/ ImgNew
  BY <1>16, <1>17 DEF SendNew, ImgNew, ipVars, udpVars, Senders
<1>18. ASSUME NEW t \in Senders, NEW v, pc[t] \in {"apimsg", "sem", "return"}, pc' = [pc EXCEPT ![t] = v],
              UNCHANGED <<recvmbox, udp>>
       PROVE  NetbufsFit'
  <2>1. Held("send")' <= Held("send") /\ Held("img")' <= Held("img")
    BY <1>0, <1>18 DEF Held, HoldsNetbuf, OutTypes, Senders
  <2>2. Held("send")' \in 0..1 /\ Held("img")' \in 0..1
    BY DEF Held
  <2>3. Len(recvmbox)' = Len(recvmbox) /\ Taken' = Taken
    BY <1>18
  <2> QED
    BY <1>0, <2>1, <2>2, <2>3 DEF NetbufsFit
<1>19. CASE \E t \in Senders : tcpip_apimsg(t)
  BY <1>18, <1>19 DEF tcpip_apimsg, udpVars
<1>20. CASE \E t \in Senders : SemWait(t)
  BY <1>18, <1>20 DEF SemWait, ipVars, udpVars
<1>21. CASE SendReturn \/ (\E next \in {"idle", "new", "apimsg"} : ImgReturn(next))
  BY <1>18, <1>21 DEF SendReturn, ImgReturn, CallOver, udpVars, Senders
<1> QED
  BY <1>4, <1>5, <1>6, <1>7, <1>8, <1>9, <1>10, <1>11, <1>12, <1>13, <1>14, <1>15, <1>17, <1>19, <1>20, <1>21
  DEF Step, RxStep, IpStep, UdpStep, DpStep, OutStep

(* and the calls to those of senders that wait.                            *)
LEMMA CallsStep ==
  ASSUME TypeOK, PoolInv, Step
  PROVE  CallsDue'
<1> DEFINE A == Count(mbox, "API")
           a == InHand("API")
           D == Due("send") + Due("img")
<1>0. /\ IpTypes /\ IpTypes' /\ OutTypes /\ RxTypes
      /\ A \in Nat /\ a \in 0..1 /\ op_completed \in Nat
      /\ Due("send") \in 0..1 /\ Due("img") \in 0..1
      /\ A + a + op_completed <= D
  <2>1. CallsDue
    BY PoolParts
  <2>2. IpTypes'
    BY IpTypesStep
  <2> QED
    BY <2>1, <2>2, TypeParts, Numbers DEF Senders, CallsDue
<1>1. ASSUME Kept, UNCHANGED op_completed, D' = D
      PROVE  CallsDue'
  BY <1>0, <1>1 DEF CallsDue, Kept
<1>2. ASSUME UNCHANGED pc
      PROVE  D' = D
  BY <1>2 DEF Due
<1>3. CASE RxFrame
  BY <1>0, <1>1, <1>2, <1>3, KeptLosing DEF RxFrame, outVars
<1>4. CASE EthInput
  <2>1. UNCHANGED <<pc, op_completed>>
    BY <1>4 DEF EthInput, outVars
  <2>2. CASE own[CurRxDesc]
    BY <1>1, <1>2, <1>4, <2>1, <2>2, KeptSame DEF EthInput, ipVars
  <2>3. CASE ~own[CurRxDesc]
    <3> DEFINE lost == {f \in Frame : f.p = current_pbuf_idx}
               g == [p |-> current_pbuf_idx, b |-> CurRxDesc, whole |-> TRUE]
               q == LoseMbox(mbox, lost)
               m == [type |-> "INPKT", f |-> g]
    <3>1. mbox' = tcpip_input(q, g) /\ cur' = LoseCur(lost)
      BY <1>4, <2>3 DEF EthInput
    <3>2. m \in Msg /\ m.type # "API"
      BY <1>0 DEF RxTypes, Frame, Msg, Inpkt
    <3>3. q \in Seq(Msg) /\ Count(q, "API") = A
      <4>1. /\ mbox \in Seq(Msg) /\ q \in Seq(Msg) /\ Len(q) = Len(mbox)
            /\ \A i \in 1..Len(mbox) : q[i].type = mbox[i].type
        BY <1>0, LoseMboxType DEF IpTypes
      <4> HIDE DEF q
      <4> QED
        BY <4>1, CountSame
    <3>4. a' = a
      BY <1>0, <3>1, Losing, NoneAssumption DEF InHand, Msg
    <3>5. mbox' = q \/ mbox' = Append(q, m)
      BY <3>1 DEF tcpip_input
    <3> HIDE DEF lost, g, q, m
    <3>6. Count(Append(q, m), "API") = Count(q, "API")
      BY <1>0, <3>2, <3>3, CountAppend
    <3>7. A' = A
      BY <3>3, <3>5, <3>6 DEF Count, Places
    <3> QED
      BY <1>0, <1>2, <2>1, <3>4, <3>7 DEF CallsDue
  <2> QED
    BY <2>2, <2>3
<1>5. CASE EthClear \/ UNCHANGED vars
  BY <1>1, <1>2, <1>5, KeptSame DEF EthClear, vars, ipVars, outVars
<1>6. CASE TcpipFetch
  <2>1. mbox # <<>> /\ cur = NONE /\ cur' = Head(mbox) /\ mbox' = Tail(mbox) /\ UNCHANGED <<pc, op_completed>>
    BY <1>6 DEF TcpipFetch, Runs, Ready, outVars
  <2>2. A = Count(Tail(mbox), "API") + (IF Head(mbox).type = "API" THEN 1 ELSE 0)
    BY <1>0, <2>1, CountTail DEF IpTypes
  <2>3. A' = Count(Tail(mbox), "API") /\ A' \in Nat
    <3>1. Count(mbox', "API") \in Nat
      BY <1>0, CountType DEF IpTypes
    <3> QED
      BY <2>1, <3>1 DEF Count, Places
  <2>4. a = 0 /\ a' = (IF Head(mbox).type = "API" THEN 1 ELSE 0)
    <3>1. cur' # NONE
      BY <1>0, <2>1, NoneAssumption DEF IpTypes, Msg
    <3> QED
      BY <2>1, <3>1 DEF InHand
  <2>5. D' = D
    BY <1>2, <2>1
  <2>6. A' + a' = A + a
    BY <1>0, <2>2, <2>3, <2>4
  <2> QED
    BY <1>0, <2>1, <2>5, <2>6 DEF CallsDue
<1>7. CASE do_send
  <2>1. a = 1 /\ a' = 0 /\ A' = A
    BY <1>7 DEF do_send, InHand, Count, Places
  <2>2. CASE cur.live
    <3>1. Signal
      BY <1>7, <2>2 DEF do_send
    <3>2. CASE op_completed' = op_completed + 1 /\ D' = D
      BY <1>0, <2>1, <3>2 DEF CallsDue
    <3>3. CASE op_completed' = op_completed /\ D' = D - 1
      BY <1>0, <2>1, <3>3 DEF CallsDue
    <3> QED
      BY <1>0, <3>1, <3>2, <3>3, SignalDue
  <2>3. CASE ~cur.live
    <3>1. UNCHANGED <<pc, op_completed>>
      BY <1>7, <2>3 DEF do_send
    <3> QED
      BY <1>0, <1>2, <2>1, <3>1 DEF CallsDue
  <2> QED
    BY <2>2, <2>3
<1>8. CASE recv_udp \/ Drop
  <2>1. a = 0 /\ a' = 0
    BY <1>8 DEF recv_udp, Drop, InHand
  <2>2. mbox' = mbox \/ \E lost : mbox' = LoseMbox(mbox, lost)
    BY <1>8 DEF recv_udp, Drop
  <2>3. \A lost : Count(LoseMbox(mbox, lost), "API") = A
    BY <1>0, CountLosing DEF IpTypes
  <2>4. A' = A
    <3>1. A' = Count(mbox', "API")
      BY DEF Count, Places
    <3> QED
      BY <2>2, <2>3, <3>1
  <2>5. UNCHANGED <<pc, op_completed>>
    BY <1>8 DEF recv_udp, Drop, outVars
  <2> QED
    BY <1>0, <1>2, <2>1, <2>4, <2>5 DEF CallsDue
<1>9. CASE UdpRecv \/ \E command \in BOOLEAN : UdpCopy(command)
  BY <1>1, <1>2, <1>9, KeptSame DEF UdpRecv, UdpCopy, ipVars, outVars
<1>10. CASE UdpDelete
  BY <1>0, <1>1, <1>2, <1>10, KeptLosing DEF UdpDelete, outVars
<1>11. CASE DpPlain
  BY <1>1, <1>2, <1>11, KeptSame DEF DpPlain, DpSwitch, DpReply, DpShutter, DpDelayOver, ipVars, outVars
<1>12. CASE \E known \in BOOLEAN : WATCH_IMAGE(known)
  <2>1. D' = D
    BY <1>0, <1>12 DEF WATCH_IMAGE, Due, OutTypes, Senders
  <2> QED
    BY <1>1, <1>12, <2>1, KeptSame DEF WATCH_IMAGE, ipVars
<1>13. CASE SendNew \/ ImgNew
  <2>1. D' = D
    BY <1>0, <1>13 DEF SendNew, ImgNew, NetbufNew, Due, OutTypes, Senders
  <2> QED
    BY <1>1, <1>13, <2>1, KeptSame DEF SendNew, ImgNew, ipVars
<1>14. ASSUME NEW t \in Senders, tcpip_apimsg(t)
       PROVE  CallsDue'
  <2>1. UNCHANGED <<cur, op_completed>> /\ sys_mbox_valid(mbox)
    BY <1>14, MailboxesOpenLemma DEF tcpip_apimsg, MailboxesOpen
  <2>2. mbox' = Append(mbox, Call(t)) /\ pc[t] = "apimsg" /\ pc' = [pc EXCEPT ![t] = "sem"]
    BY <1>14, <2>1 DEF tcpip_apimsg, Call
  <2>3. Call(t) \in Msg /\ Call(t).type = "API"
    BY DEF Msg, ApiMsg, Call
  <2>4. Count(Append(mbox, Call(t)), "API") = A + 1
    BY <1>0, <2>3, CountAppend DEF IpTypes
  <2>5. A' = A + 1 /\ a' = a
    BY <2>1, <2>2, <2>4 DEF Count, Places, InHand
  <2>6. D' = D + 1
    BY <1>0, <2>2 DEF Due, OutTypes, Senders
  <2> QED
    BY <1>0, <2>1, <2>5, <2>6 DEF CallsDue
<1>15. ASSUME NEW t \in Senders, SemWait(t)
       PROVE  CallsDue'
  <2>1. A' = A /\ a' = a
    BY <1>15 DEF SemWait, ipVars, Count, Places, InHand
  <2>2. CASE op_completed > 0
    <3>1. op_completed' = op_completed - 1 /\ pc[t] = "sem" /\ pc' = [pc EXCEPT ![t] = "return"]
      BY <1>15, <2>2 DEF SemWait
    <3>2. D' = D - 1
      BY <1>0, <3>1 DEF Due, OutTypes, Senders
    <3> QED
      BY <1>0, <2>1, <2>2, <3>1, <3>2 DEF CallsDue
  <2>3. CASE ~(op_completed > 0)
    <3>1. op_completed' = op_completed /\ pc[t] = "sem" /\ pc' = [pc EXCEPT ![t] = "wait"]
      BY <1>15, <2>3 DEF SemWait
    <3>2. D' = D
      BY <1>0, <3>1 DEF Due, OutTypes, Senders
    <3> QED
      BY <1>0, <2>1, <3>1, <3>2 DEF CallsDue
  <2> QED
    BY <2>2, <2>3
<1>16. CASE SendReturn \/ (\E next \in {"idle", "new", "apimsg"} : ImgReturn(next))
  <2>1. \E t \in Senders : CallOver(t)
    BY <1>16 DEF SendReturn, ImgReturn, Senders
  <2>2. D' = D
    BY <1>0, <1>16 DEF SendReturn, ImgReturn, CallOver, Due, OutTypes, Senders
  <2>3. Kept /\ UNCHANGED op_completed
    BY <1>0, <2>1, KeptOver DEF CallOver
  <2> QED
    BY <1>1, <2>2, <2>3
<1> QED
  BY <1>3, <1>4, <1>5, <1>6, <1>7, <1>8, <1>9, <1>10, <1>11, <1>12, <1>13, <1>14, <1>15, <1>16
  DEF Step, RxStep, IpStep, UdpStep, DpStep, OutStep

(* Every step keeps PoolInv.                                               *)
LEMMA PoolStep ==
  ASSUME TypeOK, LeftInv, PoolInv, Step
  PROVE  PoolInv'
<1>1. InpktsFit' /\ NetbufsFit' /\ CallsDue'
  BY PoolParts, TypeStep, InpktsStep, NetbufsStep, CallsStep
<1> QED
  BY <1>1, PoolPartsNext

-----------------------------------------------------------------------------
(* Init.                                                                   *)
LEMMA InvInit == Init => Inv
<1> SUFFICES ASSUME Init
             PROVE  Inv
  OBVIOUS
<1>1. 0 \in Desc /\ ETH_RX_DESC_CNT \in Nat \ {0}
  BY NetAssumption DEF Desc
<1>2. RxTypes /\ IpTypes /\ UdpTypes
  BY <1>1 DEF Init, RxTypes, IpTypes, UdpTypes
<1>3. DpTypes
  BY NetAssumption DEF Init, DpTypes
<1>4. OutTypes /\ FlagTypes
  <2>1. 0 \in 0..ImgPackets
    BY NetAssumption
  <2> QED
    BY <2>1 DEF Init, OutTypes, FlagTypes
<1>5. TypeOK
  BY <1>2, <1>3, <1>4, TypeParts
<1>6. LeftInv
  BY DEF Init, LeftInv, Senders
<1>7. RingInv
  <2>1. \A k \in Desc : (0 + k) % ETH_RX_DESC_CNT \in Desc /\ k >= 0
    BY <1>1 DEF Desc
  <2>2. 0 = (0 + 0) % ETH_RX_DESC_CNT
    BY <1>1
  <2>3. RingAt(0)
    BY <2>1, <2>2 DEF Init, RingAt
  <2> QED
    BY <1>1, <2>3 DEF RingInv, Init
<1>8. PoolInv
  <2>1. mbox = <<>> /\ cur = NONE /\ recvmbox = <<>> /\ udp = "recv" /\ op_completed = 0
    BY DEF Init
  <2>2. Count(mbox, "INPKT") = 0 /\ Count(mbox, "API") = 0 /\ InHand("INPKT") = 0 /\ InHand("API") = 0
    BY <2>1, CountEmpty DEF InHand
  <2>3. Due("send") = 0 /\ Due("img") = 0 /\ Held("send") = 0 /\ Held("img") = 0 /\ Len(recvmbox) = 0
    BY <2>1 DEF Init, Senders, Due, Held, HoldsNetbuf
  <2> QED
    BY <1>5, <2>1, <2>2, <2>3, PoolParts, Numbers DEF InpktsFit, NetbufsFit, CallsDue
<1> QED
  BY <1>5, <1>6, <1>7, <1>8 DEF Inv

(* Every step keeps the invariant.                                         *)
LEMMA InvStep == Inv /\ [Next]_vars => Inv'
BY StepCases, TypeStep, RingStep, PoolStep DEF Inv

(* The inductive invariant.                                                *)
THEOREM InvCorrect == Spec => []Inv
BY InvInit, InvStep, PTL DEF Spec

(* Every variable keeps its type, and no index leaves its array.           *)
THEOREM TypeCorrect == Spec => []TypeOK
<1>1. Inv => TypeOK
  BY DEF Inv
<1> QED
  BY <1>1, InvCorrect, PTL

(* Driver and DMA go round the ring in step, whatever frames arrive and    *)
(* whatever interrupts are lost.                                           *)
THEOREM RingStaysInOrder == Spec => []DescriptorsInOrder
<1>1. Inv => DescriptorsInOrder
  BY RingInOrder DEF Inv
<1> QED
  BY <1>1, InvCorrect, PTL

(* No mailbox is ever full: the pools are smaller, and at most two calls   *)
(* of the senders are under way, even when one of them took the answer     *)
(* meant for the other.                                                    *)
THEOREM MailboxesStayOpen == Spec => []MailboxesOpen
<1>1. Inv => MailboxesOpen
  BY MailboxesOpenLemma DEF Inv
<1> QED
  BY <1>1, InvCorrect, PTL

-----------------------------------------------------------------------------
(* A polite host.                                                          *)

(* Nothing to lose: no reference, or none to a frame.                      *)
LEMMA LoseNothing ==
  ASSUME NEW lost
  PROVE  /\ LoseMbox(<<>>, lost) = <<>> /\ LoseRecv(<<>>, lost) = <<>>
         /\ \A q \in Seq(Msg) : Len(q) = 1 /\ q[1].type = "API" => LoseMbox(q, lost) = q
<1>1. LoseMbox(<<>>, lost) = <<>> /\ LoseRecv(<<>>, lost) = <<>>
  BY DEF LoseMbox, LoseRecv
<1>2. ASSUME NEW q \in Seq(Msg), Len(q) = 1, q[1].type = "API"
      PROVE  LoseMbox(q, lost) = q
  <2>1. \A i \in 1..Len(q) : q[i].type = "API"
    BY <1>2
  <2>2. /\ LoseMbox(q, lost) \in Seq(Msg) /\ Len(LoseMbox(q, lost)) = Len(q)
        /\ \A i \in 1..Len(q) : LoseMbox(q, lost)[i] = q[i]
    BY <2>1, LoseMboxType
  <2> QED
    BY <2>2, SeqEqual
<1> QED
  BY <1>1, <1>2

(* With a sender that is not idle everything else is at rest.              *)
LEMMA OneSender ==
  ASSUME Arriving \/ Working, NEW t \in Senders, pc[t] # "idle"
  PROVE  Delivered /\ Sending(t)
BY DEF Arriving, AtRest, Working, Job, AllIdle, Sending

(* A frame arrives at a camera at rest.                                    *)
LEMMA PoliteRx ==
  ASSUME Inv, PoliteInv, polite', RxFrame
  PROVE  ~fault' /\ Arriving'
<1>1. polite /\ Quiet /\ ~fault
  BY DEF RxFrame
<1>2. RxTypes /\ IpTypes /\ UdpTypes /\ ETH_RX_DESC_CNT \in Nat \ {0}
  BY TypeParts, NetAssumption DEF Inv
<1>3. op_completed = 0
  <2>1. CASE Arriving
    BY <2>1 DEF Arriving, AtRest
  <2>2. CASE Working
    BY <1>1, <2>2 DEF Working, Job, NoCall, Sending, Quiet
  <2> QED
    BY <1>1, <2>1, <2>2 DEF PoliteInv
<1>4. dma = CurRxDesc
  <2>1. PICK n \in 0..ETH_RX_DESC_CNT : RingAt(n)
    BY DEF Inv, RingInv
  <2>2. own[At(CurRxDesc, 0)] <=> 0 >= n
    BY <1>2, <2>1, RingAtIs DEF Desc
  <2>3. At(CurRxDesc, 0) = CurRxDesc /\ own[CurRxDesc]
    BY <1>1, <1>2 DEF At, RxTypes, Desc, Quiet
  <2>4. n = 0
    BY <2>2, <2>3
  <2>5. dma = At(CurRxDesc, n)
    BY <1>2, <2>1, RingAtIs
  <2> QED
    BY <2>3, <2>4, <2>5
<1>5. /\ own' = [own EXCEPT ![CurRxDesc] = FALSE] /\ UNCHANGED <<CurRxDesc, isr, udp>> /\ RI'
      /\ \A d \in Desc : own[d]
  BY <1>1, <1>4 DEF RxFrame, Quiet
<1>6. ~own'[CurRxDesc'] /\ \A d \in Desc \ {CurRxDesc'} : own'[d]
  BY <1>2, <1>5 DEF RxTypes
<1>7. mbox' = <<>> /\ cur' = NONE /\ recvmbox' = <<>>
  BY <1>1, LoseNothing DEF RxFrame, Quiet, LoseCur
<1>8. AtRest'
  BY <1>1, <1>3 DEF RxFrame, Quiet, AtRest, AllIdle, dpVars, outVars
<1> QED
  BY <1>1, <1>5, <1>6, <1>7, <1>8 DEF Arriving, RxFrame, Quiet

(* A step that leaves the descriptors, the mailboxes and the tasks alone.  *)
LEMMA PoliteSame ==
  ASSUME Arriving \/ Working, own[CurRxDesc] \/ UNCHANGED <<RI, isr>>,
         UNCHANGED <<own, CurRxDesc, ipVars, udpVars, dpVars, outVars>>
  PROVE  Arriving' \/ Working'
<1>1. CASE Arriving
  <2>1. AtRest'
    BY <1>1 DEF Arriving, AtRest, AllIdle, dpVars, outVars
  <2>2. Arriving'
    BY <1>1, <2>1 DEF Arriving, ipVars, udpVars, Whole
  <2> QED
    BY <2>2
<1>2. CASE Working
  <2>1. Delivered'
    BY <1>2 DEF Working, Delivered, ipVars, udpVars
  <2>2. Job'
    BY <1>2 DEF Working, Job, Sending, Called, Answered, NoCall, AllIdle, Call, ipVars, dpVars, outVars
  <2> QED
    BY <2>1, <2>2 DEF Working
<1> QED
  BY <1>1, <1>2

(* The interrupt handler passes the only frame on.                         *)
LEMMA PoliteEthInput ==
  ASSUME Inv, ~fault, Arriving \/ Working, EthInput
  PROVE  ~fault' /\ (Arriving' \/ Working')
<1>0. RxTypes /\ IpTypes /\ UdpTypes
  BY TypeParts DEF Inv
<1>1. CASE own[CurRxDesc]
  BY <1>1, PoliteSame DEF EthInput, udpVars
<1>2. CASE ~own[CurRxDesc]
  <2> DEFINE lost == {f \in Frame : f.p = current_pbuf_idx}
             g == [p |-> current_pbuf_idx, b |-> CurRxDesc, whole |-> TRUE]
             m == [type |-> "INPKT", f |-> g]
  <2>1. /\ Arriving /\ mbox = <<>> /\ cur = NONE /\ recvmbox = <<>> /\ udp = "recv"
    BY <1>0, <1>2 DEF Working, Delivered, Arriving, RxTypes
  <2>2. /\ mbox' = tcpip_input(LoseMbox(mbox, lost), g) /\ cur' = LoseCur(lost)
        /\ recvmbox' = LoseRecv(recvmbox, lost) /\ own' = [own EXCEPT ![CurRxDesc] = TRUE]
        /\ UNCHANGED <<udp, dpVars, outVars, fault>>
    BY <1>2 DEF EthInput, BuildRxDescriptors
  <2>3. LoseMbox(mbox, lost) = <<>> /\ cur' = NONE /\ recvmbox' = <<>>
    BY <2>1, <2>2, LoseNothing DEF LoseCur
  <2>4. mbox' = <<>> \/ mbox' = Append(<<>>, m)
    BY <2>2, <2>3 DEF tcpip_input
  <2>5. Whole(m)
    BY <1>0 DEF Whole, Inpkt, Frame, RxTypes
  <2> HIDE DEF lost, g, m
  <2>6. \A d \in Desc : own'[d]
    BY <1>0, <2>1, <2>2 DEF Arriving, RxTypes
  <2>7. CurRxDesc' \in Desc
    BY <1>0, <1>2, IncrType DEF EthInput, RxTypes
  <2>8. AtRest'
    BY <2>1, <2>2 DEF Arriving, AtRest, AllIdle, dpVars, outVars
  <2>9. CASE mbox' = <<>>
    <3>1. Delivered'
      BY <2>1, <2>2, <2>3, <2>6 DEF Delivered
    <3>2. Job'
      BY <2>3, <2>8, <2>9 DEF Job, NoCall, AtRest
    <3> QED
      BY <2>2, <3>1, <3>2 DEF Working
  <2>10. CASE mbox' = Append(<<>>, m)
    <3>1. Len(mbox') = 1 /\ mbox'[1] = m
      BY <2>10
    <3>2. Whole(mbox'[1])
      BY <2>5, <3>1
    <3> QED
      BY <2>1, <2>2, <2>3, <2>6, <2>7, <2>8, <3>1, <3>2 DEF Arriving, Whole
  <2> QED
    BY <2>4, <2>9, <2>10
<1> QED
  BY <1>1, <1>2

(* tcpip_thread.                                                           *)
LEMMA PoliteFetch ==
  ASSUME Inv, ~fault, Arriving \/ Working, TcpipFetch
  PROVE  ~fault' /\ (Arriving' \/ Working')
<1>0. RxTypes /\ IpTypes
  BY TypeParts DEF Inv
<1>1. /\ mbox # <<>> /\ cur = NONE /\ cur' = Head(mbox) /\ mbox' = Tail(mbox)
      /\ UNCHANGED <<rxVars, recvmbox, udpVars, dpVars, outVars, fault>>
  BY DEF TcpipFetch, Runs, Ready
<1>2. ASSUME Len(mbox) = 1
      PROVE  cur' = mbox[1] /\ mbox' = <<>>
  BY <1>0, <1>1, <1>2 DEF IpTypes
<1>3. CASE Arriving
  <2>1. Len(mbox) = 1 /\ Whole(mbox[1]) /\ own[CurRxDesc] /\ recvmbox = <<>> /\ udp = "recv"
    BY <1>1, <1>3 DEF Arriving
  <2>2. AtRest'
    BY <1>1, <1>3 DEF Arriving, AtRest, AllIdle, dpVars, outVars
  <2>3. cur' # NONE
    BY <1>2, <2>1, NoneAssumption DEF Whole
  <2>4. Whole(cur') /\ mbox' = <<>>
    BY <1>2, <2>1
  <2>5. own'[CurRxDesc'] /\ \A d \in Desc \ {CurRxDesc'} : own'[d]
    BY <1>1, <1>3, <2>1 DEF Arriving, rxVars
  <2> QED
    BY <1>1, <2>1, <2>2, <2>3, <2>4, <2>5 DEF Arriving, Whole, udpVars
<1>4. CASE Working
  <2>1. PICK t \in Senders : Sending(t)
    BY <1>1, <1>4 DEF Working, Job, NoCall
  <2>2. pc[t] \in {"sem", "wait"} /\ Called(t) /\ Len(mbox) = 1 /\ mbox[1] = Call(t)
    BY <1>1, <2>1 DEF Sending, NoCall, Called, Answered
  <2>3. Called(t)'
    BY <1>1, <1>2, <2>2 DEF Called, Call, outVars
  <2>4. Sending(t)'
    BY <1>1, <2>1, <2>2, <2>3 DEF Sending, dpVars, outVars
  <2>5. Delivered'
    BY <1>1, <1>4 DEF Working, Delivered, rxVars, udpVars
  <2> QED
    BY <1>1, <2>4, <2>5 DEF Working, Job
<1> QED
  BY <1>3, <1>4

(* tcpip_thread handles the only call, whose message is alive.             *)
LEMMA PoliteDoSend ==
  ASSUME Inv, ~fault, Arriving \/ Working, do_send
  PROVE  ~fault' /\ Working'
<1>0. OutTypes
  BY TypeParts DEF Inv
<1>1. /\ cur # NONE /\ cur.type = "API" /\ cur' = NONE
      /\ UNCHANGED <<rxVars, mbox, recvmbox, udpVars, dpVars>>
  BY DEF do_send
<1>2. Working
  BY <1>1 DEF Arriving, Whole, Inpkt
<1>3. PICK t \in Senders : Sending(t)
  BY <1>1, <1>2 DEF Working, Job, NoCall
<1>4. pc[t] \in {"sem", "wait"} /\ op_completed = 0 /\ mbox = <<>> /\ cur = Call(t)
  BY <1>1, <1>3 DEF Sending, NoCall, Called, Answered
<1>5. Signal /\ UNCHANGED fault
  BY <1>4 DEF do_send, Call
<1>6. Delivered'
  BY <1>1, <1>2 DEF Working, Delivered, rxVars, udpVars
<1>7. netrecv' = 0 /\ netsend' = 0 /\ dp' \in {"ready", "save"} /\ mbox' = <<>>
  BY <1>1, <1>3, <1>4 DEF Sending, dpVars
<1>8. CASE pc[t] = "sem"
  <2>1. \A u \in Senders : pc[u] # "wait"
    BY <1>3, <1>8 DEF Sending
  <2>2. op_completed' = 1 /\ UNCHANGED pc
    BY <1>0, <1>4, <1>5, <2>1, Signalled
  <2>3. Sending(t)'
    BY <1>1, <1>3, <1>7, <1>8, <2>2 DEF Sending, Answered
  <2> QED
    BY <1>5, <1>6, <2>3 DEF Working, Job
<1>9. CASE pc[t] = "wait"
  <2>1. \A u \in Senders : pc[u] = "wait" => u = t
    BY <1>3 DEF Sending
  <2>2. pc' = [pc EXCEPT ![t] = "return"] /\ op_completed' = 0
    BY <1>0, <1>4, <1>5, <1>9, <2>1, Signalled
  <2>3. pc'[t] = "return" /\ \A u \in Senders \ {t} : pc'[u] = "idle"
    BY <1>0, <1>3, <2>2 DEF Sending, OutTypes
  <2>4. Sending(t)'
    BY <1>1, <1>7, <2>2, <2>3 DEF Sending, NoCall
  <2> QED
    BY <1>5, <1>6, <2>4 DEF Working, Job
<1> QED
  BY <1>4, <1>8, <1>9

(* tcpip_thread handles the only packet.                                   *)
LEMMA PoliteInput ==
  ASSUME Inv, ~fault, Arriving \/ Working, recv_udp \/ Drop
  PROVE  ~fault' /\ (Arriving' \/ Working')
<1>0. RxTypes /\ IpTypes
  BY TypeParts DEF Inv
<1>1. /\ cur # NONE /\ cur.type = "INPKT" /\ cur' = NONE
      /\ UNCHANGED <<rxVars, udp, dpVars, outVars, fault>>
  BY DEF recv_udp, Drop, udpVars
<1>2. Arriving
  <2> SUFFICES ASSUME Working
               PROVE  FALSE
    OBVIOUS
  <2>1. PICK t \in Senders : Sending(t)
    BY <1>1 DEF Working, Job, NoCall
  <2>2. cur = Call(t)
    BY <1>1, <2>1 DEF Sending, NoCall, Called, Answered
  <2> QED
    BY <1>1, <2>2 DEF Call
<1>3. /\ own[CurRxDesc] /\ mbox = <<>> /\ Whole(cur) /\ recvmbox = <<>> /\ udp = "recv"
  BY <1>1, <1>2 DEF Arriving
<1>4. AtRest'
  BY <1>1, <1>2 DEF Arriving, AtRest, AllIdle, dpVars, outVars
<1>5. \A d \in Desc : own[d]
  BY <1>2, <1>3 DEF Arriving
<1>6. own'[CurRxDesc'] /\ \A d \in Desc : own'[d]
  BY <1>1, <1>3, <1>5 DEF rxVars
<1>7. CASE recv_udp
  <2>1. mbox' = <<>> /\ recvmbox' = Append(<<>>, cur.f) /\ cur.f.whole
    BY <1>3, <1>7 DEF recv_udp, Whole
  <2>2. Len(recvmbox') = 1 /\ recvmbox'[1] = cur.f
    BY <2>1
  <2>3. recvmbox'[1].whole
    BY <2>1, <2>2
  <2> QED
    BY <1>1, <1>3, <1>4, <1>6, <2>1, <2>2, <2>3 DEF Arriving
<1>8. CASE Drop
  <2>1. mbox' = <<>> /\ recvmbox' = <<>>
    BY <1>3, <1>8, LoseNothing DEF Drop
  <2>2. Delivered'
    BY <1>1, <1>3, <1>6, <2>1 DEF Delivered
  <2>3. Job'
    BY <1>1, <1>4, <2>1 DEF Job, AtRest, NoCall
  <2> QED
    BY <1>1, <2>2, <2>3 DEF Working
<1> QED
  BY <1>7, <1>8

(* udp_thread.                                                             *)
LEMMA PoliteUdp ==
  ASSUME Inv, ~fault, Arriving \/ Working, UdpStep
  PROVE  ~fault' /\ (Arriving' \/ Working')
<1>0. RxTypes /\ IpTypes /\ UdpTypes /\ NETRECV_FIFO_NUM \in Nat
  BY TypeParts, NetAssumption DEF Inv
<1>1. CASE UdpRecv
  <2>1. /\ recvmbox # <<>> /\ udp' = "copy" /\ recvbuf' = Head(recvmbox) /\ recvmbox' = Tail(recvmbox)
        /\ UNCHANGED <<rxVars, mbox, cur, dpVars, outVars, fault>>
    BY <1>1 DEF UdpRecv, Runs, Ready
  <2>2. Arriving /\ Len(recvmbox) = 1 /\ recvmbox[1].whole /\ own[CurRxDesc] /\ mbox = <<>> /\ cur = NONE
    BY <2>1 DEF Arriving, Working, Delivered
  <2>3. recvbuf'.whole /\ recvmbox' = <<>>
    BY <1>0, <2>1, <2>2 DEF IpTypes
  <2>4. AtRest'
    BY <2>1, <2>2 DEF Arriving, AtRest, AllIdle, dpVars, outVars
  <2>5. own'[CurRxDesc'] /\ \A d \in Desc \ {CurRxDesc'} : own'[d]
    BY <2>1, <2>2 DEF Arriving, rxVars
  <2> QED
    BY <2>1, <2>2, <2>3, <2>4, <2>5 DEF Arriving
<1>2. CASE \E command \in BOOLEAN : UdpCopy(command)
  <2>1. /\ udp = "copy" /\ udp' = "delete" /\ netrecv' \in {netrecv, netrecv + 1}
        /\ UNCHANGED <<rxVars, ipVars, recvbuf, netsend, dp, outVars, fault>>
    BY <1>2 DEF UdpCopy
  <2>2. /\ Arriving /\ recvbuf.whole /\ own[CurRxDesc] /\ mbox = <<>> /\ cur = NONE
        /\ recvmbox = <<>> /\ AtRest
    BY <2>1 DEF Arriving, Working, Delivered
  <2>3. \A d \in Desc : own[d]
    BY <2>2 DEF Arriving
  <2>4. Delivered'
    BY <2>1, <2>2, <2>3 DEF Delivered, rxVars, ipVars
  <2>5. netrecv' \in {0, 1} /\ netsend' = 0 /\ dp' = "ready" /\ AllIdle' /\ NoCall'
    BY <2>1, <2>2 DEF AtRest, AllIdle, NoCall, ipVars, outVars
  <2>6. Job'
    BY <2>5 DEF Job
  <2> QED
    BY <2>1, <2>4, <2>6 DEF Working
<1>3. CASE UdpDelete
  <2>1. PICK lost : /\ mbox' = LoseMbox(mbox, lost) /\ cur' = LoseCur(lost)
                    /\ recvmbox' = LoseRecv(recvmbox, lost)
    BY <1>3 DEF UdpDelete
  <2>2. udp = "delete" /\ udp' = "recv" /\ UNCHANGED <<rxVars, dpVars, outVars, fault>>
    BY <1>3 DEF UdpDelete
  <2>3. Working
    BY <2>2 DEF Arriving
  <2>4. Delivered'
    BY <2>1, <2>2, <2>3, LoseNothing DEF Working, Delivered, rxVars
  <2>5. UNCHANGED <<mbox, cur>>
    <3>1. CASE mbox = <<>> /\ cur = NONE
      BY <2>1, <3>1, LoseNothing DEF LoseCur
    <3>2. ASSUME NEW t \in Senders, Called(t)
          PROVE  UNCHANGED <<mbox, cur>>
      <4>1. CASE Len(mbox) = 1 /\ mbox[1] = Call(t) /\ cur = NONE
        <5>1. mbox \in Seq(Msg) /\ mbox[1].type = "API"
          BY <1>0, <4>1 DEF IpTypes, Call
        <5> QED
          BY <2>1, <4>1, <5>1, LoseNothing DEF LoseCur
      <4>2. CASE mbox = <<>> /\ cur = Call(t)
        <5>1. LoseMsg(Call(t), lost) = Call(t)
          BY DEF LoseMsg, Call
        <5>2. Call(t) # NONE
          <6>1. Call(t) \in ApiMsg
            BY DEF Call, ApiMsg
          <6> QED
            BY <6>1, NoneAssumption
        <5> QED
          BY <2>1, <4>2, <5>1, <5>2, LoseNothing DEF LoseCur
      <4> QED
        BY <3>2, <4>1, <4>2 DEF Called
    <3> QED
      BY <2>3, <3>1, <3>2 DEF Working, Job, NoCall, Sending, Answered
  <2>6. Job'
    BY <2>2, <2>3, <2>5
    DEF Working, Job, Sending, Called, Answered, NoCall, AllIdle, Call, dpVars, outVars
  <2> QED
    BY <2>2, <2>4, <2>6 DEF Working
<1> QED
  BY <1>1, <1>2, <1>3 DEF UdpStep

(* udp_dataprocess_task.                                                   *)
LEMMA PoliteDp ==
  ASSUME Inv, ~fault, Arriving \/ Working, DpStep
  PROVE  ~fault' /\ Working'
<1>0. DpTypes /\ OutTypes /\ NETSEND_FIFO_NUM \in Nat
  BY TypeParts, NetAssumption DEF Inv
<1>1. UNCHANGED <<rxVars, ipVars, udpVars, op_completed, fault>>
  BY DEF DpStep, DpPlain, DpSwitch, WATCH_IMAGE, DpReply, DpShutter, DpDelayOver, outVars
<1>2. netrecv > 0 \/ dp # "ready"
  BY DEF DpStep, DpPlain, DpSwitch, WATCH_IMAGE, DpReply, DpShutter, DpDelayOver, Runs, Ready
<1>3. Working
  BY <1>0, <1>2 DEF Arriving, AtRest
<1>4. Delivered'
  BY <1>1, <1>3 DEF Working, Delivered, rxVars, ipVars, udpVars
<1>5. CASE dp = "save"
  <2>1. dp' = "ready" /\ UNCHANGED <<pc, netrecv, netsend>>
    BY <1>5 DEF DpStep, DpPlain, DpSwitch, WATCH_IMAGE, DpReply, DpShutter, DpDelayOver, outVars
  <2>2. Job'
    BY <1>1, <1>3, <1>5, <2>1
    DEF Working, Job, AllIdle, NoCall, Sending, Called, Answered, Call, ipVars
  <2> QED
    BY <1>1, <1>4, <2>2 DEF Working
<1>6. CASE dp # "save"
  <2>1. AllIdle /\ NoCall /\ netsend = 0 /\ (netrecv = 0 \/ (netrecv = 1 /\ dp = "ready"))
    BY <1>0, <1>2, <1>3, <1>6 DEF Working, Job, Sending
  <2>2. NoCall'
    BY <1>1, <2>1 DEF NoCall, ipVars
  <2>3. CASE DpDelayOver \/ DpShutter
    <3>1. netrecv' = 0 /\ netsend' = 0 /\ UNCHANGED pc
      BY <2>1, <2>3 DEF DpDelayOver, DpShutter, outVars
    <3> QED
      BY <1>1, <1>4, <2>1, <2>2, <3>1 DEF Working, Job, AllIdle
  <2>4. CASE DpReply
    <3>1. netrecv' = 0 /\ netsend' \in {0, 1} /\ dp' \in {"ready", "save"} /\ UNCHANGED pc
      BY <2>1, <2>4 DEF DpReply, outVars
    <3> QED
      BY <1>1, <1>4, <2>1, <2>2, <3>1 DEF Working, Job, AllIdle
  <2>5. CASE DpSwitch
    <3>1. netrecv > 0
      BY <2>5 DEF DpSwitch, Runs, Ready
    <3>2. netrecv' = 0 /\ netsend' = 0 /\ UNCHANGED pc
      BY <2>1, <2>5, <3>1 DEF DpSwitch, outVars
    <3> QED
      BY <1>1, <1>4, <2>1, <2>2, <3>2 DEF Working, Job, AllIdle
  <2>6. ASSUME NEW known \in BOOLEAN, WATCH_IMAGE(known)
        PROVE  ~fault' /\ Working'
    <3>1. netrecv > 0 /\ dp = "ready"
      BY <2>6 DEF WATCH_IMAGE, Runs, Ready
    <3>2. pc["img"] = "idle" /\ "img" \in Senders
      BY <2>1 DEF AllIdle, Senders
    <3>3. netrecv' = 0 /\ netsend' = 0 /\ dp' = "ready"
      BY <2>1, <2>6, <3>1 DEF WATCH_IMAGE
    <3>4. PICK v \in {"new", "stuck"} : pc' = [pc EXCEPT !["img"] = v]
      BY <2>6, <3>2 DEF WATCH_IMAGE
    <3>5. pc'["img"] = v /\ \A u \in Senders \ {"img"} : pc'[u] = "idle"
      BY <1>0, <2>1, <3>2, <3>4 DEF AllIdle, OutTypes
    <3>6. Sending("img")'
      BY <2>2, <3>3, <3>5 DEF Sending
    <3> QED
      BY <1>1, <1>4, <3>2, <3>6 DEF Working, Job
  <2> QED
    BY <2>3, <2>4, <2>5, <2>6 DEF DpStep, DpPlain
<1> QED
  BY <1>5, <1>6

(* The tasks that send.                                                    *)
LEMMA PoliteNew ==
  ASSUME Inv, MEMP_NUM_NETBUF >= 2, ~fault, Delivered, NEW t \in Senders,
         \A u \in Senders : ~HoldsNetbuf(u), NetbufNew(t)
  PROVE  ~fault' /\ pc' = [pc EXCEPT ![t] = "apimsg"]
<1>1. Len(recvmbox) = 0 /\ Held("send") = 0 /\ Held("img") = 0
  BY DEF Delivered, Held, Senders
<1>2. Netbufs <= 1
  BY <1>1, NetbufsIs
<1>3. Netbufs \in Nat /\ MEMP_NUM_NETBUF \in Nat
  BY <1>1, NetbufsIs, NetAssumption
<1>4. Netbufs < MEMP_NUM_NETBUF
  BY <1>2, <1>3
<1> QED
  BY <1>4 DEF NetbufNew

(* The only task that sends gets its netbuf and its answer.                *)
LEMMA PoliteOut ==
  ASSUME Inv, MEMP_NUM_NETBUF >= 2, ~fault, Arriving \/ Working, OutStep
  PROVE  ~fault' /\ Working'
<1>0. DpTypes /\ OutTypes /\ IpTypes
  BY TypeParts DEF Inv
<1>1. UNCHANGED <<rxVars, recvmbox, udpVars, dp, netrecv>>
  BY DEF OutStep, SendNew, ImgNew, tcpip_apimsg, SemWait, SendReturn, ImgReturn, CallOver, ipVars, dpVars
<1>2. ASSUME Delivered
      PROVE  Delivered'
  BY <1>1, <1>2 DEF Delivered, rxVars, udpVars
<1>3. ASSUME NEW t \in Senders, NEW v, Delivered, netrecv = 0, dp \in {"ready", "save"}, netsend' = 0, ~fault',
             \A u \in Senders \ {t} : pc[u] = "idle", pc' = [pc EXCEPT ![t] = v],
             v \notin {"sem", "wait"} => NoCall',
             v = "sem" => Called(t)', v = "wait" => Called(t)'
      PROVE  ~fault' /\ Working'
  <2>1. pc'[t] = v /\ \A u \in Senders \ {t} : pc'[u] = "idle"
    BY <1>0, <1>3 DEF OutTypes
  <2>2. Sending(t)'
    BY <1>1, <1>3, <2>1 DEF Sending
  <2> QED
    BY <1>2, <1>3, <2>2 DEF Working, Job
<1>4. CASE SendNew
  <2>1. /\ netsend > 0 /\ pc["send"] = "idle" /\ netsend' = netsend - 1 /\ NetbufNew("send")
        /\ UNCHANGED <<ipVars, op_completed>>
    BY <1>4 DEF SendNew, Runs, Ready
  <2>2. Delivered /\ netsend = 1 /\ netrecv = 0 /\ dp \in {"ready", "save"} /\ AllIdle /\ NoCall
    BY <1>0, <2>1 DEF Arriving, AtRest, Working, Job, Sending
  <2>3. "send" \in Senders /\ \A u \in Senders : ~HoldsNetbuf(u)
    BY <2>2 DEF AllIdle, HoldsNetbuf, Senders
  <2>4. ~fault' /\ pc' = [pc EXCEPT !["send"] = "apimsg"]
    BY <2>1, <2>2, <2>3, PoliteNew
  <2>5. NoCall' /\ netsend' = 0
    BY <2>1, <2>2 DEF NoCall, ipVars
  <2> QED
    BY <1>3, <2>2, <2>3, <2>4, <2>5 DEF AllIdle
<1>5. CASE ImgNew
  <2>1. pc["img"] = "new" /\ NetbufNew("img") /\ UNCHANGED <<ipVars, dpVars, op_completed>>
    BY <1>5 DEF ImgNew
  <2>2. "img" \in Senders /\ Delivered /\ Sending("img")
    BY <2>1, OneSender DEF Senders
  <2>3. \A u \in Senders : ~HoldsNetbuf(u)
    BY <2>1, <2>2 DEF Sending, HoldsNetbuf
  <2>4. ~fault' /\ pc' = [pc EXCEPT !["img"] = "apimsg"]
    BY <2>1, <2>2, <2>3, PoliteNew
  <2>5. NoCall' /\ netsend' = 0
    BY <2>1, <2>2 DEF Sending, NoCall, ipVars, dpVars
  <2> QED
    BY <1>3, <2>2, <2>4, <2>5 DEF Sending
<1>6. ASSUME NEW t \in Senders, tcpip_apimsg(t)
      PROVE  ~fault' /\ Working'
  <2>1. pc[t] = "apimsg" /\ UNCHANGED <<cur, dpVars, op_completed, fault>>
    BY <1>6 DEF tcpip_apimsg
  <2>2. Delivered /\ Sending(t)
    BY <2>1, OneSender
  <2>3. NoCall
    BY <2>1, <2>2 DEF Sending
  <2>4. sys_mbox_valid(mbox)
    BY MailboxesOpenLemma DEF Inv, MailboxesOpen
  <2>5. mbox' = Append(<<>>, Call(t)) /\ pc' = [pc EXCEPT ![t] = "sem"]
    BY <1>6, <2>3, <2>4 DEF tcpip_apimsg, NoCall, Call
  <2>6. Len(mbox') = 1 /\ mbox'[1] = Call(t)
    BY <2>5
  <2>7. Called(t)'
    BY <2>1, <2>3, <2>6 DEF Called, NoCall, Call
  <2>8. netsend' = 0 /\ ~fault'
    BY <2>1, <2>2 DEF Sending, dpVars
  <2> QED
    BY <1>3, <2>2, <2>5, <2>7, <2>8 DEF Sending
<1>7. ASSUME NEW t \in Senders, SemWait(t)
      PROVE  ~fault' /\ Working'
  <2>1. pc[t] = "sem" /\ UNCHANGED <<ipVars, dpVars, fault>>
    BY <1>7 DEF SemWait
  <2>2. Delivered /\ Sending(t)
    BY <2>1, OneSender
  <2>3. netsend' = 0 /\ ~fault'
    BY <2>1, <2>2 DEF Sending, dpVars
  <2>4. CASE Called(t)
    <3>1. op_completed' = 0 /\ pc' = [pc EXCEPT ![t] = "wait"]
      BY <1>7, <2>4 DEF SemWait, Called
    <3>2. Called(t)'
      BY <2>1, <2>4, <3>1 DEF Called, Call, ipVars
    <3> QED
      BY <1>3, <2>2, <2>3, <3>1, <3>2 DEF Sending
  <2>5. CASE Answered
    <3>1. op_completed' = 0 /\ pc' = [pc EXCEPT ![t] = "return"]
      BY <1>7, <2>5 DEF SemWait, Answered
    <3>2. NoCall'
      BY <2>1, <2>5, <3>1 DEF Answered, NoCall, ipVars
    <3> QED
      BY <1>3, <2>2, <2>3, <3>1, <3>2 DEF Sending
  <2> QED
    BY <2>1, <2>2, <2>4, <2>5 DEF Sending
<1>8. ASSUME NEW t \in Senders, CallOver(t), NEW v \in {"idle", "new", "apimsg"}, pc' = [pc EXCEPT ![t] = v]
      PROVE  ~fault' /\ Working'
  <2>1. pc[t] = "return" /\ UNCHANGED <<dpVars, op_completed, fault>>
    BY <1>8 DEF CallOver
  <2>2. Delivered /\ Sending(t) /\ NoCall
    BY <2>1, OneSender DEF Sending
  <2>3. NoCall'
    BY <1>8, <2>1, <2>2 DEF CallOver, NoCall
  <2>4. netsend' = 0 /\ ~fault'
    BY <2>1, <2>2 DEF Sending, dpVars
  <2> QED
    BY <1>3, <1>8, <2>2, <2>3, <2>4 DEF Sending
<1>9. CASE SendReturn
  BY <1>8, <1>9 DEF SendReturn, Senders
<1>10. CASE \E next \in {"idle", "new", "apimsg"} : ImgReturn(next)
  BY <1>8, <1>10 DEF ImgReturn, Senders
<1> QED
  BY <1>4, <1>5, <1>6, <1>7, <1>9, <1>10 DEF OutStep

(* Every step keeps a polite host safe.                                    *)
LEMMA PoliteStep ==
  ASSUME MEMP_NUM_NETBUF >= 2, Inv, PoliteInv, Step
  PROVE  PoliteInv'
<1> SUFFICES ASSUME polite'
             PROVE  ~fault' /\ (Arriving' \/ Working')
  BY DEF PoliteInv
<1>1. polite
  <2>1. CASE RxStep \/ UNCHANGED vars
    BY <2>1 DEF RxStep, RxFrame, EthInput, EthClear, vars
  <2>2. CASE IpStep \/ UdpStep
    BY <2>2 DEF IpStep, TcpipFetch, do_send, recv_udp, Drop, UdpStep, UdpRecv, UdpCopy, UdpDelete
  <2>3. CASE DpStep
    BY <2>3 DEF DpStep, DpPlain, DpSwitch, WATCH_IMAGE, DpReply, DpShutter, DpDelayOver
  <2>4. CASE OutStep
    BY <2>4 DEF OutStep, SendNew, ImgNew, tcpip_apimsg, SemWait, SendReturn, ImgReturn, CallOver
  <2> QED
    BY <2>1, <2>2, <2>3, <2>4 DEF Step
<1>2. ~fault /\ (Arriving \/ Working)
  BY <1>1 DEF PoliteInv
<1>3. CASE EthClear
  <2>1. own[CurRxDesc]
    <3>1. RxTypes
      BY TypeParts DEF Inv
    <3> QED
      BY <1>2, <1>3, <3>1 DEF EthClear, Arriving, Working, Delivered, RxTypes
  <2> QED
    BY <1>2, <1>3, <2>1, PoliteSame DEF EthClear
<1>4. CASE UNCHANGED vars
  BY <1>2, <1>4, PoliteSame DEF vars, rxVars
<1> QED
  BY <1>2, <1>3, <1>4, PoliteRx, PoliteEthInput, PoliteFetch, PoliteDoSend, PoliteInput, PoliteUdp, PoliteDp,
     PoliteOut DEF Step, RxStep, IpStep

(* While a job is under way every message is a call that is awaited.       *)
LEMMA WorkingCalls ==
  ASSUME Working
  PROVE  /\ \A i \in 1..Len(mbox) : mbox[i].type = "API" /\ mbox[i].live
         /\ cur # NONE => cur.type = "API" /\ cur.live
<1>1. CASE mbox = <<>> /\ cur = NONE
  BY <1>1
<1>2. ASSUME NEW t \in Senders, Called(t)
      PROVE  /\ \A i \in 1..Len(mbox) : mbox[i].type = "API" /\ mbox[i].live
             /\ cur # NONE => cur.type = "API" /\ cur.live
  <2>1. Call(t).type = "API" /\ Call(t).live
    BY DEF Call
  <2>2. CASE Len(mbox) = 1 /\ mbox[1] = Call(t) /\ cur = NONE
    <3>1. \A i \in 1..Len(mbox) : i = 1
      BY <2>2
    <3> QED
      BY <2>1, <2>2, <3>1
  <2>3. CASE mbox = <<>> /\ cur = Call(t)
    BY <2>1, <2>3
  <2> QED
    BY <1>2, <2>2, <2>3 DEF Called
<1>3. (mbox = <<>> /\ cur = NONE) \/ \E t \in Senders : Called(t)
  BY DEF Working, Job, NoCall, Sending, Answered
<1> QED
  BY <1>1, <1>2, <1>3

(* PoliteInv is what PoliteSafe asks for.                                  *)
LEMMA PoliteImplies ==
  ASSUME Inv, PoliteInv
  PROVE  PoliteSafe
<1> SUFFICES ASSUME polite
             PROVE  ~fault /\ MessageLive /\ FramesWhole /\ Announced
  BY DEF PoliteSafe
<1>1. ~fault /\ (Arriving \/ Working)
  BY DEF PoliteInv
<1>2. RxTypes /\ IpTypes /\ UdpTypes
  BY TypeParts DEF Inv
<1>3. MessageLive
  <2>1. CASE Arriving
    BY <2>1 DEF Arriving, MessageLive, Whole, Inpkt
  <2>2. CASE Working
    BY <2>2, WorkingCalls DEF MessageLive
  <2> QED
    BY <1>1, <2>1, <2>2
<1>4. FramesWhole
  <2>1. CASE Arriving
    BY <1>2, <2>1 DEF Arriving, FramesWhole, Whole, UdpTypes
  <2>2. CASE Working
    <3>1. /\ \A i \in 1..Len(mbox) : mbox[i].type # "INPKT"
          /\ cur # NONE => cur.type # "INPKT"
      BY <2>2, WorkingCalls
    <3>2. recvmbox = <<>> /\ (recvbuf # NONE => recvbuf.whole)
      BY <1>2, <2>2 DEF Working, Delivered, UdpTypes
    <3> QED
      BY <3>1, <3>2 DEF FramesWhole
  <2> QED
    BY <1>1, <2>1, <2>2
<1>5. Announced
  BY <1>1 DEF Announced, Arriving, Working, Delivered
<1> QED
  BY <1>1, <1>3, <1>4, <1>5

(* Nothing goes wrong as long as the host waits for the camera, provided   *)
(* that there are two netbufs (opt.h:324), one for the command udp_thread  *)
(* still holds and one for its reply.                                      *)
THEOREM PoliteIsSafe == MEMP_NUM_NETBUF >= 2 /\ Spec => []PoliteSafe
<1> SUFFICES ASSUME MEMP_NUM_NETBUF >= 2
             PROVE  Spec => []PoliteSafe
  OBVIOUS
<1>1. Init => PoliteInv
  BY InvInit, TypeParts
  DEF Init, Inv, PoliteInv, Working, Delivered, Job, AllIdle, NoCall
<1>2. Inv /\ PoliteInv /\ [Next]_vars => PoliteInv'
  BY StepCases, PoliteStep
<1>3. Inv /\ PoliteInv => PoliteSafe
  BY PoliteImplies
<1> QED
  BY <1>1, <1>2, <1>3, InvCorrect, PTL DEF Spec
=============================================================================
