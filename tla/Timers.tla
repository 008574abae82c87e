-------------------------------- MODULE Timers --------------------------------
(***************************************************************************)
(* The clock of lwIP: the timer list of timers.c, which tcpip_thread works *)
(* off while it waits for a message, and the port's sys_arch_mbox_fetch,   *)
(* which waits on a uC/OS-II queue and reports how long it waited.         *)
(*                                                                         *)
(* The list holds differences: the time of an entry counts from the expiry *)
(* of the entry before it.  Only waiting is counted; the time the thread   *)
(* spends on a message is not.  The tick of the kernel and the tasks and   *)
(* interrupts that post messages run beside the thread.                    *)
(***************************************************************************)
EXTENDS Naturals, Sequences, FiniteSets

CONSTANTS
  U32,                  (* values of a u32_t: 2^32 *)
  MSEC,                 (* milliseconds in a second *)
  OS_TICKS_PER_SEC,
  IP_TMR_INTERVAL, ARP_TMR_INTERVAL,
  MEMP_NUM_SYS_TIMEOUT,
  Msg,                  (* messages for tcpip_thread *)
  NULL,                 (* no message *)
  MboxBound,            (* messages waiting at a time, a bound of the model *)
  Lag                   (* ticks for which tcpip_thread may be ready and not run while
                           it waits for a message, a bound of the model *)

Handlers == {"ip_reass_timer", "arp_timer"}

Interval == [ip_reass_timer |-> IP_TMR_INTERVAL, arp_timer |-> ARP_TMR_INTERVAL]

ASSUME TimersAssumption ==
  /\ {U32, MSEC, OS_TICKS_PER_SEC, MboxBound} \subseteq Nat \ {0}
  /\ \A h \in Handlers : Interval[h] \in 1..U32-1
  /\ MEMP_NUM_SYS_TIMEOUT \in Nat /\ MEMP_NUM_SYS_TIMEOUT >= Cardinality(Handlers)
  /\ NULL \notin Msg
  /\ Lag \in Nat
  /\ \A h \in Handlers : (Interval[h] + Lag) * MSEC < U32

VARIABLES
  next_timeout,  \* the list: a sequence of [h, time]
  OSTime,        \* ticks since start, a u32_t
  mbox,          \* messages in the mailbox of tcpip_thread
  pc,            \* control of tcpip_thread
  timeout,       \* OSTime when the wait began
  dly,           \* ticks until OSQPend gives up; 0 is for ever
  msg,           \* the message that is handled, or NULL
  hurried        \* was a message ever fetched in the tick in which the wait began?

waitVars == <<timeout, dly>>
timerVars == <<next_timeout, OSTime, mbox, pc, waitVars, msg, hurried>>

-----------------------------------------------------------------------------
(* Expiry of the entries of list l, counted from the last expiry.          *)
Expiry(l) ==
  LET sum[k \in 0..Len(l)] == IF k = 0 THEN 0 ELSE sum[k-1] + l[k].time IN sum

(* Fault: the entry behind the new one keeps its difference.               *)
sys_timeout_NoSplit(l, msecs, handler) ==
  LET due == Expiry(l)
      k   == Cardinality({i \in 1..Len(l) : due[i] <= msecs})
  IN  SubSeq(l, 1, k) \o <<[h |-> handler, time |-> msecs - due[k]]>> \o SubSeq(l, k+1, Len(l))

(* sys_timeout: behind the entries that expire no later, and the entry     *)
(* after it counts from it.  Nothing happens when the pool is empty.       *)
sys_timeout(l, msecs, handler) ==
  LET due  == Expiry(l)
      k    == Cardinality({i \in 1..Len(l) : due[i] <= msecs})
      new  == [h |-> handler, time |-> msecs - due[k]]
      rest == [i \in 1..Len(l)-k |-> IF i = 1 THEN [l[k+1] EXCEPT !.time = @ - new.time]
                                              ELSE l[k+i]]
  IN  IF Len(l) = MEMP_NUM_SYS_TIMEOUT THEN l ELSE SubSeq(l, 1, k) \o <<new>> \o rest

(* Milliseconds as ticks for OSQPend.                                      *)
UcosTimeout(ms) ==
  LET ticks == ((ms * OS_TICKS_PER_SEC) % U32) \div MSEC
  IN  IF ms # 0 /\ ticks < 1 THEN 1 ELSE ticks

(* Fault: a delay that has passed is reported as one tick more.            *)
Elapsed_Twice(begin, end) ==
  ((2 * ((end + U32 - begin) % U32) * MSEC) % U32) \div OS_TICKS_PER_SEC + 1

(* Fault: the time is measured exactly.                                    *)
Elapsed_Exact(begin, end) == (((end + U32 - begin) % U32) * MSEC) \div OS_TICKS_PER_SEC

(* What sys_arch_mbox_fetch reports for a message: one more than the       *)
(* ticks between; but when both times are equal the difference is taken    *)
(* around the whole range of a u32_t.                                      *)
Elapsed(begin, end) ==
  LET ticks == IF end > begin THEN end - begin ELSE U32 - 1 - begin + end
  IN  ((ticks * MSEC) % U32) \div OS_TICKS_PER_SEC + 1

-----------------------------------------------------------------------------
TimersInit ==
  /\ next_timeout = sys_timeout(sys_timeout(<<>>, IP_TMR_INTERVAL, "ip_reass_timer"),
                                ARP_TMR_INTERVAL, "arp_timer")
  /\ OSTime = 0 /\ mbox = <<>> /\ pc = "fetch" /\ timeout = 0 /\ dly = 0 /\ msg = NULL
  /\ hurried = FALSE

(* Ticks since the wait began.                                             *)
Passed == (OSTime + U32 - timeout) % U32

(* OSTimeTick: time goes on, and OSQPend gives up when its delay is over.  *)
OSTimeTick ==
  /\ pc = "pend" => Passed < Lag
  /\ pc = "got" => Passed < Head(next_timeout).time + Lag
  /\ OSTime' = (OSTime + 1) % U32
  /\ IF pc = "wait"
     THEN /\ dly' = IF dly = 0 THEN 0 ELSE dly - 1
          /\ pc' = IF dly = 1 THEN "expire" ELSE pc
     ELSE UNCHANGED <<dly, pc>>
  /\ UNCHANGED <<next_timeout, mbox, timeout, msg, hurried>>

(* OSQPost: to the waiting thread or into the queue.                       *)
OSQPost(m) ==
  /\ Len(mbox) < MboxBound
  /\ IF pc = "wait" THEN pc' = "got" /\ msg' = m /\ UNCHANGED mbox
                    ELSE mbox' = Append(mbox, m) /\ UNCHANGED <<pc, msg>>
  /\ UNCHANGED <<next_timeout, OSTime, waitVars, hurried>>

(* sys_timeouts_mbox_fetch: an entry whose time has come is not waited     *)
(* for; otherwise sys_arch_mbox_fetch takes the time and...                *)
Fetch ==
  /\ pc = "fetch"
  /\ IF next_timeout # <<>> /\ Head(next_timeout).time = 0
     THEN pc' = "expire" /\ UNCHANGED waitVars
     ELSE /\ pc' = "pend"
          /\ timeout' = OSTime
          /\ dly' = IF next_timeout = <<>> THEN 0 ELSE UcosTimeout(Head(next_timeout).time)
  /\ UNCHANGED <<next_timeout, OSTime, mbox, msg, hurried>>

(* ...takes a message or waits for one (OSQPend).                          *)
OSQPend ==
  /\ pc = "pend"
  /\ IF mbox = <<>> THEN pc' = "wait" /\ UNCHANGED <<mbox, msg>>
     ELSE pc' = "got" /\ msg' = Head(mbox) /\ mbox' = Tail(mbox)
  /\ UNCHANGED <<next_timeout, OSTime, waitVars, hurried>>

(* Fault: more is taken off the first entry than it has.                   *)
Got_Unclamped ==
  /\ pc = "got" /\ pc' = "work" /\ timeout' = 0 /\ dly' = 0
  /\ next_timeout' = [next_timeout EXCEPT ![1].time = @ - Elapsed(timeout, OSTime)]
  /\ hurried' = (hurried \/ OSTime = timeout)
  /\ UNCHANGED <<OSTime, mbox, msg>>

(* A message came: the time of the wait is taken off the first entry.      *)
Got ==
  /\ pc = "got" /\ pc' = "work" /\ timeout' = 0 /\ dly' = 0
  /\ LET time_needed == Elapsed(timeout, OSTime)
     IN  next_timeout' = IF next_timeout = <<>> THEN <<>>
           ELSE [next_timeout EXCEPT ![1].time = IF time_needed < @ THEN @ - time_needed ELSE 0]
  /\ hurried' = (hurried \/ OSTime = timeout)
  /\ UNCHANGED <<OSTime, mbox, msg>>

(* Fault: the handler runs before its entry is taken off the list.         *)
Expire_Rearm(handler) ==
  /\ pc = "expire" /\ pc' = "fetch" /\ timeout' = 0 /\ dly' = 0
  /\ handler = Head(next_timeout).h
  /\ next_timeout' = Tail(sys_timeout(next_timeout, Interval[handler], handler))
  /\ UNCHANGED <<OSTime, mbox, msg, hurried>>

(* The wait timed out, or there was none: the first entry is taken off     *)
(* and its handler called, which arms the timer again.                     *)
Expire(handler) ==
  /\ pc = "expire" /\ pc' = "fetch" /\ timeout' = 0 /\ dly' = 0
  /\ handler = Head(next_timeout).h
  /\ next_timeout' = sys_timeout(Tail(next_timeout), Interval[handler], handler)
  /\ UNCHANGED <<OSTime, mbox, msg, hurried>>

(* tcpip_thread is done with the message.                                  *)
Work ==
  /\ pc = "work" /\ pc' = "fetch" /\ msg' = NULL
  /\ UNCHANGED <<next_timeout, OSTime, mbox, waitVars, hurried>>

-----------------------------------------------------------------------------
TimersTypes ==
  /\ next_timeout \in Seq([h : Handlers, time : 0..U32-1])
  /\ OSTime \in 0..U32-1 /\ timeout \in 0..U32-1 /\ dly \in 0..U32-1
  /\ mbox \in Seq(Msg) /\ msg \in Msg \cup {NULL}
  /\ pc \in {"fetch", "pend", "wait", "got", "work", "expire"}
  /\ hurried \in BOOLEAN

=============================================================================
