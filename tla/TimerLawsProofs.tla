---------------------------- MODULE TimerLawsProofs ----------------------------
(***************************************************************************)
(* Proofs about the clock of lwIP: the timers stay on their list, and one  *)
(* that is observed is neither late nor early, for all intervals, all      *)
(* bounds of the model and all widths of OSTime in which the longest wait  *)
(* fits.                                                                   *)
(***************************************************************************)
EXTENDS TimerLaws, TimersProofs

(* Time of the entry that expires first.                                   *)
First == next_timeout[1].time

(* Where the ticks of a wait are: OSQPend has counted First - dly of them, *)
(* the clock Passed, which is at most Lag more.                            *)
ClockInv ==
  /\ pc = "pend" => dly = First /\ First > 0 /\ Passed <= Lag
  /\ pc \in {"wait", "got"} => dly \in 1..First /\ First <= Passed + dly
  /\ pc = "wait" => Passed + dly <= Lag + First
  /\ pc = "got" => Passed <= Lag + First

(* What was waited for the observed timer and is not yet taken off its     *)
(* time is what OSQPend has counted of this wait.                          *)
LateInv ==
  /\ Due <= Interval[obs]
  /\ pc \in {"fetch", "work", "pend"} => Due + counted <= Interval[obs]
  /\ pc \in {"wait", "got"} => Due + counted + dly <= Interval[obs] + First
  /\ pc = "expire" => Due + counted <= Interval[obs] + First

(* What is not yet taken off the time of the observed timer has been spent *)
(* already.                                                                *)
EarlyInv ==
  ~hurried /\ spent < Interval[obs] =>
    /\ pc \in {"fetch", "work"} => Due + spent >= Interval[obs]
    /\ pc \in {"pend", "wait", "got"} => Due + spent >= Interval[obs] + Passed
    /\ pc = "expire" => Due + spent >= Interval[obs] + First

Inv == TypeOK /\ Armed(next_timeout)
LawInv == Inv /\ ClockInv /\ LateInv /\ EarlyInv

-----------------------------------------------------------------------------
(* The time until the timer o of a list expires.                           *)
LEMMA DueOf ==
  ASSUME NEW l, Armed(l), NEW o \in Handlers
  PROVE  Expiry(l)[CHOOSE i \in 1..Len(l) : l[i].h = o] =
           IF l[1].h = o THEN l[1].time ELSE l[1].time + l[2].time
<1>1. /\ l \in Seq(Entry) /\ Len(l) = 2 /\ Len(l) \in 0..2 /\ Len(l) >= 1 /\ l[1].h # l[2].h
      /\ l[1].h \in Handlers /\ l[2].h \in Handlers
  BY ArmedParts DEF Armed
<1>2. Expiry(l)[1] = l[1].time /\ Expiry(l)[2] = l[1].time + l[2].time
  BY <1>1, ExpiryIs, Zenon
<1>3. CASE l[1].h = o
  <2>1. (CHOOSE i \in 1..Len(l) : l[i].h = o) = 1
    BY <1>1, <1>3
  <2> QED
    BY <1>2, <1>3, <2>1
<1>4. CASE l[1].h # o
  <2>1. l[2].h = o
    BY <1>1, <1>4 DEF Handlers
  <2>2. (CHOOSE i \in 1..Len(l) : l[i].h = o) = 2
    BY <1>1, <1>4, <2>1
  <2> QED
    BY <1>2, <1>4, <2>2
<1> QED
  BY <1>3, <1>4

(* The same for the observed timer, and the types of all the numbers.      *)
LEMMA DueIs ==
  ASSUME Inv
  PROVE  /\ Due = IF next_timeout[1].h = obs THEN First ELSE First + next_timeout[2].time
         /\ First \in 0..U32-1 /\ First \in Nat /\ next_timeout[2].time \in Nat
         /\ Due \in Nat /\ Due >= First
         /\ First = Head(next_timeout).time
<1>1. /\ Head(next_timeout) = next_timeout[1]
      /\ next_timeout[1].time \in 0..U32-1 /\ next_timeout[2].time \in 0..U32-1
  BY ArmedParts DEF Inv
<1>2. Due = IF next_timeout[1].h = obs THEN First ELSE First + next_timeout[2].time
  BY DueOf DEF Inv, TypeOK, Due, First
<1> QED
  BY <1>1, <1>2, Constants DEF First

(* Subtraction of u32_t values.                                            *)
LEMMA PassedIs ==
  ASSUME TimersTypes
  PROVE  /\ Passed = IF OSTime >= timeout THEN OSTime - timeout ELSE OSTime + U32 - timeout
         /\ Passed \in 0..U32-1
<1>1. OSTime \in 0..U32-1 /\ timeout \in 0..U32-1 /\ U32 \in Nat \ {0}
  BY Constants DEF TimersTypes
<1>2. CASE OSTime >= timeout
  <2>1. OSTime + U32 - timeout = (OSTime - timeout) + U32 /\ OSTime - timeout \in 0..U32-1
    BY <1>1, <1>2
  <2>2. \A x \in 0..U32-1 : (x + U32) % U32 = x
    BY <1>1
  <2>3. Passed = OSTime - timeout
    BY <2>1, <2>2 DEF Passed
  <2> QED
    BY <1>2, <2>1, <2>3
<1>3. CASE ~(OSTime >= timeout)
  <2>1. OSTime + U32 - timeout \in 0..U32-1
    BY <1>1, <1>3
  <2>2. \A x \in 0..U32-1 : x % U32 = x
    BY <1>1
  <2>3. Passed = OSTime + U32 - timeout
    BY <2>1, <2>2 DEF Passed
  <2> QED
    BY <1>3, <2>1, <2>3
<1> QED
  BY <1>2, <1>3

(* One tick more, also when OSTime wraps around.                           *)
LEMMA PassedTick ==
  ASSUME TimersTypes, Passed + 1 < U32, OSTime' = (OSTime + 1) % U32, timeout' = timeout,
         TimersTypes'
  PROVE  Passed' = Passed + 1
<1>1. OSTime \in 0..U32-1 /\ timeout \in 0..U32-1 /\ U32 \in Nat \ {0}
  BY Constants DEF TimersTypes
<1>2. OSTime' = IF OSTime = U32-1 THEN 0 ELSE OSTime + 1
  BY <1>1
<1>3. Passed = IF OSTime >= timeout THEN OSTime - timeout ELSE OSTime + U32 - timeout
  BY PassedIs
<1>4. Passed' = IF OSTime' >= timeout' THEN OSTime' - timeout' ELSE OSTime' + U32 - timeout'
  <2>1. OSTime' \in 0..U32-1 /\ timeout' \in 0..U32-1
    BY DEF TimersTypes
  <2>2. \A x, y \in 0..U32-1 : (x + U32 - y) % U32 = IF x >= y THEN x - y ELSE x + U32 - y
    <3> SUFFICES ASSUME NEW x \in 0..U32-1, NEW y \in 0..U32-1
                 PROVE  (x + U32 - y) % U32 = IF x >= y THEN x - y ELSE x + U32 - y
      OBVIOUS
    <3> QED
      BY <1>1
  <2> QED
    BY <2>1, <2>2 DEF Passed
<1> QED
  BY <1>1, <1>2, <1>3, <1>4

(* With as many ticks as milliseconds, conversions that do not overflow    *)
(* are exact.                                                              *)
LEMMA Exact ==
  ASSUME MSEC = OS_TICKS_PER_SEC, NEW t \in Nat, t * MSEC < U32
  PROVE  ((t * MSEC) % U32) \div MSEC = t
<1>1. t * MSEC \in Nat /\ MSEC \in Nat \ {0} /\ U32 \in Nat \ {0}
  BY Constants
<1>2. (t * MSEC) % U32 = t * MSEC
  BY <1>1
<1>3. (t * MSEC) \div MSEC = t
  BY <1>1
<1> QED
  BY <1>2, <1>3

(* With a tick of one millisecond a timeout is not rounded.                *)
LEMMA UcosExact ==
  ASSUME MSEC = OS_TICKS_PER_SEC, NEW t \in Nat, t * MSEC < U32
  PROVE  UcosTimeout(t) = t
<1>1. ((t * OS_TICKS_PER_SEC) % U32) \div MSEC = t
  BY Exact
<1> QED
  BY <1>1 DEF UcosTimeout

(* What is reported for a wait is not less than what has passed, and at    *)
(* most one tick more if anything has passed.                              *)
LEMMA ElapsedBound ==
  ASSUME MSEC = OS_TICKS_PER_SEC, TimersTypes, Passed * MSEC < U32
  PROVE  /\ Elapsed(timeout, OSTime) \in Nat
         /\ Elapsed(timeout, OSTime) >= Passed
         /\ OSTime # timeout => Elapsed(timeout, OSTime) <= Passed + 1
<1>1. OSTime \in 0..U32-1 /\ timeout \in 0..U32-1 /\ U32 \in Nat \ {0} /\ MSEC \in Nat \ {0}
  BY Constants DEF TimersTypes
<1>2. /\ Passed = IF OSTime >= timeout THEN OSTime - timeout ELSE OSTime + U32 - timeout
      /\ Passed \in Nat
  BY PassedIs, <1>1
<1>3. Elapsed(timeout, OSTime) \in Nat
  BY <1>1, ElapsedType
<1> DEFINE P == Passed
<1> HIDE DEF P
<1>4. CASE OSTime > timeout
  <2>1. Elapsed(timeout, OSTime) = ((P * MSEC) % U32) \div MSEC + 1
    BY <1>1, <1>2, <1>4 DEF Elapsed, P
  <2>2. ((P * MSEC) % U32) \div MSEC = P
    BY <1>2, Exact DEF P
  <2> QED
    BY <1>2, <1>3, <2>1, <2>2 DEF P
<1>5. CASE OSTime < timeout
  <2>1. PICK q \in Nat : Passed = q + 1
    BY <1>1, <1>2, <1>5
  <2>2. U32 - 1 - timeout + OSTime = q
    BY <1>1, <1>2, <1>5, <2>1
  <2>3. ~(OSTime > timeout)
    BY <1>1, <1>5
  <2>4. Elapsed(timeout, OSTime) = ((q * MSEC) % U32) \div MSEC + 1
    BY <2>2, <2>3, Zenon DEF Elapsed
  <2>5. q * MSEC < U32
    <3>1. q * MSEC <= (q + 1) * MSEC /\ q * MSEC \in Nat /\ (q + 1) * MSEC \in Nat
      BY <1>1
    <3>2. (q + 1) * MSEC < U32
      BY <2>1
    <3> QED
      BY <1>1, <3>1, <3>2
  <2>6. ((q * MSEC) % U32) \div MSEC = q
    BY <2>5, Exact
  <2> QED
    BY <1>3, <2>1, <2>4, <2>6
<1>6. CASE OSTime = timeout
  BY <1>1, <1>2, <1>3, <1>6
<1> QED
  BY <1>1, <1>4, <1>5, <1>6

-----------------------------------------------------------------------------
(* What is observed has its type.                                          *)
ObsTypes == obs \in Handlers /\ counted \in Nat /\ spent \in 0..Interval[obs]

(* Init.                                                                   *)
LEMMA InvInit == Init => Inv
<1> SUFFICES ASSUME Init PROVE Inv
  OBVIOUS
<1>1. TimersInv
  BY TimersInitInv DEF Init
<1>2. ObsTypes
  BY Constants DEF Init, ObsTypes
<1> QED
  BY <1>1, <1>2 DEF Inv, TypeOK, TimersInv, ObsTypes

(* Spend leaves its count within the interval.                             *)
LEMMA SpendType ==
  ASSUME ObsTypes, Spend
  PROVE  spent' \in 0..Interval[obs]
BY Constants DEF ObsTypes, Spend

(* Every step keeps the list of timers as it should be.                    *)
LEMMA InvStep == Inv /\ [Next]_vars => Inv'
<1> SUFFICES ASSUME Inv, [Next]_vars PROVE Inv'
  OBVIOUS
<1>1. TimersInv /\ ObsTypes
  BY DEF Inv, TypeOK, TimersInv, ObsTypes
<1>2. SUFFICES TimersInv' /\ ObsTypes'
  BY DEF Inv, TypeOK, TimersInv, ObsTypes
<1>3. CASE Tick
  BY <1>1, <1>3, OSTimeTickInv, SpendType DEF Tick, ObsTypes
<1>4. CASE Post
  BY <1>1, <1>4, OSQPostInv DEF Post, ObsTypes
<1>5. CASE Fetch /\ UNCHANGED <<obs, counted, spent>>
  BY <1>1, <1>5, FetchInv DEF ObsTypes
<1>6. CASE OSQPend /\ UNCHANGED <<obs, counted, spent>>
  BY <1>1, <1>6, OSQPendInv DEF ObsTypes
<1>7. CASE Work /\ UNCHANGED <<obs, counted, spent>>
  BY <1>1, <1>7, WorkInv DEF ObsTypes
<1>8. CASE Got /\ Spend /\ UNCHANGED <<obs, counted>>
  BY <1>1, <1>8, GotInv, SpendType DEF ObsTypes
<1>9. ASSUME NEW h \in Handlers, HandlerCall(h) PROVE TimersInv' /\ ObsTypes'
  <2>1. TimersInv'
    BY <1>1, <1>9, ExpireInv DEF HandlerCall
  <2>2. ObsTypes'
    BY <1>1, <1>9, Constants DEF HandlerCall, ObsTypes
  <2> QED
    BY <2>1, <2>2
<1>10. CASE UNCHANGED vars
  BY <1>1, <1>10, StutterInv DEF vars, ObsTypes
<1> QED
  BY <1>3, <1>4, <1>5, <1>6, <1>7, <1>8, <1>9, <1>10 DEF Next, tcpip_thread

(* The list holds both timers in every state of the clock.                 *)
THEOREM InvCorrect == Spec => []Inv
  BY InvInit, InvStep, PTL DEF Spec

(* Every number of the clock stays in the range of its type, the list      *)
(* included.                                                               *)
THEOREM TypeCorrect == Spec => []TypeOK
<1>1. Inv => TypeOK
  BY DEF Inv
<1> QED
  BY <1>1, InvCorrect, PTL

(* No cyclic timer is lost from the list or doubled on it (timers.c).      *)
THEOREM TimersStayArmed == Spec => []AllArmed
<1>1. Inv => AllArmed
  <2> SUFFICES ASSUME Inv, NEW h \in Handlers
               PROVE  Cardinality({i \in DOMAIN next_timeout : next_timeout[i].h = h}) = 1
    BY DEF AllArmed
  <2>1. DOMAIN next_timeout = 1..2 /\ next_timeout[1].h # next_timeout[2].h
        /\ next_timeout[1].h \in Handlers /\ next_timeout[2].h \in Handlers
    BY ArmedParts DEF Inv, Armed
  <2>2. next_timeout[1].h = h \/ next_timeout[2].h = h
    BY <2>1 DEF Handlers
  <2>3. PICK k \in 1..2 : {i \in DOMAIN next_timeout : next_timeout[i].h = h} = {k}
    <3>1. CASE next_timeout[1].h = h
      <4>1. {i \in DOMAIN next_timeout : next_timeout[i].h = h} = {1}
        BY <2>1, <3>1
      <4> QED
        BY <4>1
    <3>2. CASE next_timeout[2].h = h
      <4>1. {i \in DOMAIN next_timeout : next_timeout[i].h = h} = {2}
        BY <2>1, <3>2
      <4> QED
        BY <4>1
    <3> QED
      BY <2>2, <3>1, <3>2
  <2> QED
    BY <2>3, FS_Singleton
<1> QED
  BY <1>1, InvCorrect, PTL

-----------------------------------------------------------------------------
(* The laws.  Each action keeps LawInv; the other timer expires without    *)
(* the observed one losing time, and the observed one is armed in full.    *)
LEMMA RearmDue ==
  ASSUME NEW e \in Entry, NEW hd \in Handlers, hd # e.h, NEW o \in Handlers,
         NEW l, l = sys_timeout(<<e>>, Interval[hd], hd)
  PROVE  (IF l[1].h = o THEN l[1].time ELSE l[1].time + l[2].time) =
           IF o = hd THEN Interval[hd] ELSE e.time
<1>1. /\ Interval[hd] \in 0..U32-1 /\ Interval[hd] \in Nat /\ e.time \in Nat
      /\ (o = hd \/ o = e.h)
  BY Constants DEF Entry, Handlers
<1>2. l = IF e.time <= Interval[hd]
          THEN <<e, [h |-> hd, time |-> Interval[hd] - e.time]>>
          ELSE <<[h |-> hd, time |-> Interval[hd]], [h |-> e.h, time |-> e.time - Interval[hd]]>>
  BY <1>1, SysTimeoutOne
<1>3. CASE e.time <= Interval[hd]
  BY <1>1, <1>2, <1>3
<1>4. CASE ~(e.time <= Interval[hd])
  BY <1>1, <1>2, <1>4
<1> QED
  BY <1>3, <1>4

(* The laws hold initially.                                                *)
LEMMA LawInit == Init => LawInv
<1> SUFFICES ASSUME Init PROVE LawInv
  OBVIOUS
<1>1. Inv /\ obs \in Handlers /\ pc = "fetch" /\ counted = 0 /\ spent = 0
  BY InvInit DEF Init, TimersInit
<1>2. Due = Interval[obs]
  <2> DEFINE e == [h |-> "ip_reass_timer", time |-> IP_TMR_INTERVAL]
  <2>1. /\ IP_TMR_INTERVAL \in 1..U32-1 /\ Interval["ip_reass_timer"] = IP_TMR_INTERVAL
        /\ ARP_TMR_INTERVAL \in 1..U32-1 /\ Interval["arp_timer"] = ARP_TMR_INTERVAL
    BY Constants DEF Handlers, Interval
  <2>2. e \in Entry /\ sys_timeout(<<>>, IP_TMR_INTERVAL, "ip_reass_timer") = <<e>>
    BY <2>1, SysTimeoutEmpty, Constants DEF Handlers, Entry
  <2>3. next_timeout = sys_timeout(<<e>>, Interval["arp_timer"], "arp_timer")
    BY <2>1, <2>2 DEF Init, TimersInit
  <2>4. Due = IF next_timeout[1].h = obs THEN next_timeout[1].time
                                         ELSE next_timeout[1].time + next_timeout[2].time
    BY <1>1, DueIs DEF First
  <2>5. e.h = "ip_reass_timer" /\ e.time = IP_TMR_INTERVAL
    OBVIOUS
  <2> HIDE DEF e
  <2>6. Due = IF obs = "arp_timer" THEN Interval["arp_timer"] ELSE e.time
    BY <1>1, <2>2, <2>3, <2>4, <2>5, RearmDue DEF Handlers
  <2> QED
    BY <1>1, <2>1, <2>5, <2>6 DEF Handlers
<1>3. Interval[obs] \in Nat
  BY <1>1, Constants
<1> QED
  BY <1>1, <1>2, <1>3 DEF LawInv, ClockInv, LateInv, EarlyInv

(* The numbers of a state, and how large a wait can become.                *)
LEMMA Numbers ==
  ASSUME LawInv
  PROVE  /\ Interval[obs] \in Nat /\ Lag \in Nat /\ U32 \in Nat /\ MSEC \in Nat \ {0}
         /\ Due \in Nat /\ First \in Nat /\ First <= Due /\ Due <= Interval[obs]
         /\ Passed \in Nat /\ dly \in Nat /\ counted \in Nat /\ spent \in 0..Interval[obs]
         /\ Interval[obs] + Lag < U32
         /\ \A x \in Nat : x <= Interval[obs] + Lag => x * MSEC < U32
<1>1. /\ Interval[obs] \in Nat /\ Lag \in Nat /\ U32 \in Nat /\ MSEC \in Nat \ {0}
      /\ (Interval[obs] + Lag) * MSEC < U32
  BY Constants DEF LawInv, Inv, TypeOK
<1>2. \A x \in Nat : x <= Interval[obs] + Lag => x * MSEC < U32
  <2> SUFFICES ASSUME NEW x \in Nat, x <= Interval[obs] + Lag PROVE x * MSEC < U32
    OBVIOUS
  <2> DEFINE y == Interval[obs] + Lag
  <2>1. y \in Nat /\ x <= y /\ y * MSEC < U32
    BY <1>1
  <2> HIDE DEF y
  <2>2. x * MSEC <= y * MSEC /\ x * MSEC \in Nat /\ y * MSEC \in Nat
    BY <1>1, <2>1
  <2> QED
    BY <1>1, <2>1, <2>2
<1>3. Interval[obs] + Lag < U32
  <2> DEFINE y == Interval[obs] + Lag
  <2>1. y \in Nat /\ y * MSEC < U32
    BY <1>1
  <2> HIDE DEF y
  <2>2. y <= y * MSEC /\ y * MSEC \in Nat
    BY <1>1, <2>1
  <2>3. y < U32
    BY <1>1, <2>1, <2>2
  <2> QED
    BY <2>3 DEF y
<1>4. Due \in Nat /\ First \in Nat /\ First <= Due
  BY DueIs DEF LawInv
<1>5. Passed \in Nat
  BY PassedIs, <1>1 DEF LawInv, Inv, TypeOK
<1> QED
  BY <1>1, <1>2, <1>3, <1>4, <1>5 DEF LawInv, LateInv, Inv, TypeOK, TimersTypes

(* A step that leaves the list alone leaves the times alone.               *)
LEMMA SameList ==
  ASSUME next_timeout' = next_timeout, obs' = obs
  PROVE  Due' = Due /\ First' = First
BY DEF Due, First

(* A tick, which a wait has not been credited for yet.                     *)
LEMMA TickLaw ==
  ASSUME LawInv, Inv', Tick
  PROVE  LawInv'
<1>1. /\ Due' = Due /\ First' = First /\ obs' = obs /\ hurried' = hurried /\ timeout' = timeout
      /\ OSTime' = (OSTime + 1) % U32 /\ First = Head(next_timeout).time
  BY SameList, DueIs DEF Tick, OSTimeTick, LawInv
<1>2. spent' = IF spent < Interval[obs] THEN spent + 1 ELSE spent
  BY DEF Tick, Spend
<1>3. CASE pc \in {"fetch", "work", "expire"}
  <2>1. pc' = pc /\ counted' = counted
    BY <1>3 DEF Tick, OSTimeTick
  <2> QED
    BY <1>1, <1>2, <1>3, <2>1, Numbers DEF LawInv, ClockInv, LateInv, EarlyInv
<1>4. CASE pc \in {"pend", "wait", "got"}
  <2>1. Passed < Lag + First
    BY <1>1, <1>4, Numbers DEF LawInv, ClockInv, Tick, OSTimeTick
  <2>2. Passed' = Passed + 1
    <3>1. Passed + 1 < U32
      BY <2>1, Numbers
    <3>2. TimersTypes /\ TimersTypes'
      BY DEF LawInv, Inv, TypeOK
    <3> QED
      BY <1>1, <3>1, <3>2, PassedTick
  <2>3. CASE pc \in {"pend", "got"}
    <3>1. pc' = pc /\ counted' = counted /\ dly' = dly
          /\ (pc = "pend" => Passed < Lag) /\ (pc = "got" => Passed < First + Lag)
      BY <1>1, <2>3 DEF Tick, OSTimeTick
    <3> QED
      BY <1>1, <1>2, <2>2, <2>3, <3>1, Numbers DEF LawInv, ClockInv, LateInv, EarlyInv
  <2>4. CASE pc = "wait"
    <3>1. dly \in 1..First
      BY <2>4 DEF LawInv, ClockInv
    <3>2. counted' = counted + 1 /\ dly' = dly - 1 /\ pc' = IF dly = 1 THEN "expire" ELSE "wait"
      BY <2>4, <3>1, Numbers DEF Tick, OSTimeTick
    <3> QED
      BY <1>1, <1>2, <2>2, <2>4, <3>1, <3>2, Numbers DEF LawInv, ClockInv, LateInv, EarlyInv
  <2> QED
    BY <1>4, <2>3, <2>4
<1> QED
  BY <1>3, <1>4 DEF LawInv, Inv, TypeOK, TimersTypes

(* A message is put into the mailbox.                                      *)
LEMMA PostLaw ==
  ASSUME LawInv, Inv', Post
  PROVE  LawInv'
<1>1. PICK m \in Msg : OSQPost(m)
  BY DEF Post
<1>2. /\ UNCHANGED <<next_timeout, OSTime, timeout, dly, hurried, obs, counted, spent>>
      /\ pc' = IF pc = "wait" THEN "got" ELSE pc
  BY <1>1 DEF Post, OSQPost, waitVars
<1>3. Due' = Due /\ First' = First /\ Passed' = Passed
  BY <1>2, SameList DEF Passed
<1> QED
  BY <1>2, <1>3, Numbers DEF LawInv, ClockInv, LateInv, EarlyInv

(* tcpip_thread begins to wait for the first timer.                        *)
LEMMA FetchLaw ==
  ASSUME MSEC = OS_TICKS_PER_SEC, LawInv, Inv', Fetch, UNCHANGED <<obs, counted, spent>>
  PROVE  LawInv'
<1>1. /\ UNCHANGED <<next_timeout, OSTime, hurried, obs, counted, spent>> /\ pc = "fetch"
      /\ next_timeout # <<>> /\ First = Head(next_timeout).time
  BY DueIs, ArmedParts DEF Fetch, LawInv, Inv
<1>2. Due' = Due /\ First' = First
  BY <1>1, SameList
<1>3. CASE First = 0
  <2>1. pc' = "expire"
    BY <1>1, <1>3 DEF Fetch
  <2>2. ClockInv'
    BY <2>1 DEF ClockInv
  <2>3. LateInv'
    BY <1>1, <1>2, <1>3, <2>1, Numbers DEF LawInv, LateInv
  <2>4. EarlyInv'
    BY <1>1, <1>2, <1>3, <2>1, Numbers DEF LawInv, EarlyInv
  <2> QED
    BY <2>2, <2>3, <2>4 DEF LawInv
<1>4. CASE First # 0
  <2>1. pc' = "pend" /\ timeout' = OSTime' /\ dly' = UcosTimeout(First)
    BY <1>1, <1>4 DEF Fetch
  <2>2. UcosTimeout(First) = First
    <3>1. First \in Nat /\ First * MSEC < U32
      BY Numbers
    <3> QED
      BY <3>1, UcosExact
  <2>3. Passed' = 0
    <3>1. OSTime' \in 0..U32-1 /\ timeout' \in 0..U32-1 /\ U32 \in Nat \ {0}
      BY Constants DEF Inv, TypeOK, TimersTypes
    <3>2. OSTime' + U32 - timeout' = U32
      <4>1. timeout' = OSTime'
        BY <2>1
      <4>2. \A x \in 0..U32-1 : x + U32 - x = U32
        BY <3>1
      <4> QED
        BY <3>1, <4>1, <4>2
    <3>3. \A n \in Nat \ {0} : n % n = 0
      OBVIOUS
    <3> QED
      BY <3>1, <3>2, <3>3 DEF Passed
  <2>4. ClockInv'
    BY <1>2, <1>4, <2>1, <2>2, <2>3, Numbers DEF ClockInv
  <2>5. LateInv'
    BY <1>1, <1>2, <2>1, Numbers DEF LawInv, LateInv
  <2>6. EarlyInv'
    BY <1>1, <1>2, <2>1, <2>3, Numbers DEF LawInv, EarlyInv
  <2> QED
    BY <2>4, <2>5, <2>6 DEF LawInv
<1> QED
  BY <1>3, <1>4

(* The wait ends, with a message or without.                               *)
LEMMA PendLaw ==
  ASSUME LawInv, Inv', OSQPend, UNCHANGED <<obs, counted, spent>>
  PROVE  LawInv'
<1>1. /\ UNCHANGED <<next_timeout, OSTime, timeout, dly, hurried, obs, counted, spent>>
      /\ pc = "pend" /\ pc' \in {"wait", "got"}
  BY DEF OSQPend, waitVars
<1>2. Due' = Due /\ First' = First /\ Passed' = Passed
  BY <1>1, SameList DEF Passed
<1> QED
  BY <1>1, <1>2, Numbers DEF LawInv, ClockInv, LateInv, EarlyInv

(* A message is handled, which takes no time on lwIP's clock.              *)
LEMMA WorkLaw ==
  ASSUME LawInv, Inv', Work, UNCHANGED <<obs, counted, spent>>
  PROVE  LawInv'
<1>1. /\ UNCHANGED <<next_timeout, OSTime, timeout, dly, hurried, obs, counted, spent>>
      /\ pc = "work" /\ pc' = "fetch"
  BY DEF Work, waitVars
<1>2. Due' = Due /\ First' = First /\ Passed' = Passed
  BY <1>1, SameList DEF Passed
<1> QED
  BY <1>1, <1>2, Numbers DEF LawInv, ClockInv, LateInv, EarlyInv

(* The time of a wait is subtracted from the first timer.                  *)
LEMMA GotLaw ==
  ASSUME MSEC = OS_TICKS_PER_SEC, LawInv, Inv', Got, Spend, UNCHANGED <<obs, counted>>
  PROVE  LawInv'
<1> DEFINE t == Elapsed(timeout, OSTime)
<1>1. Inv /\ TimersInv /\ pc = "got" /\ pc' = "work" /\ First = Head(next_timeout).time
  BY DueIs DEF Got, LawInv, Inv, TypeOK, TimersInv
<1>2. First' = Left /\ next_timeout'[1].h = next_timeout[1].h /\ next_timeout'[2] = next_timeout[2]
  BY <1>1, GotList DEF First
<1>3. /\ Due = IF next_timeout[1].h = obs THEN First ELSE First + next_timeout[2].time
      /\ Due' = IF next_timeout[1].h = obs THEN First' ELSE First' + next_timeout[2].time
      /\ next_timeout[2].time \in Nat
  <2>1. Due' = IF next_timeout'[1].h = obs' THEN First' ELSE First' + next_timeout'[2].time
    BY DueOf DEF Inv, TypeOK, Due, First
  <2> QED
    BY <1>1, <1>2, <2>1, DueIs
<1>4. Passed <= Lag + First /\ dly \in 1..First /\ First <= Passed + dly
  BY <1>1 DEF LawInv, ClockInv
<1>5. t \in Nat /\ t >= Passed /\ (OSTime # timeout => t <= Passed + 1)
  <2>1. Passed * MSEC < U32
    BY <1>4, Numbers
  <2> QED
    BY <1>1, <2>1, ElapsedBound DEF TimersInv
<1>6. Left = IF t < First THEN First - t ELSE 0
  BY <1>1 DEF Left
<1>7. Due' = Due - (IF t < First THEN t ELSE First)
  <2> HIDE DEF t
  <2>1. First \in Nat
    BY Numbers
  <2>2. First' = First - (IF t < First THEN t ELSE First) /\ First' \in Nat
    BY <1>2, <1>5, <1>6, <2>1
  <2> QED
    BY <1>3, <1>5, <2>1, <2>2
<1>8. (hurried' = (hurried \/ OSTime = timeout))
  BY DEF Got
<1>9. spent' = IF spent < Interval[obs] THEN spent + 1 ELSE spent
  BY DEF Spend
<1> HIDE DEF t
<1>10. LateInv'
  BY <1>1, <1>4, <1>5, <1>7, Numbers DEF LawInv, LateInv
<1>11. EarlyInv'
  <2> SUFFICES ASSUME ~hurried', spent' < Interval[obs]
               PROVE  Due' + spent' >= Interval[obs]
    BY <1>1 DEF EarlyInv
  <2>1. ~hurried /\ OSTime # timeout
    BY <1>8
  <2>2. spent < Interval[obs] /\ spent' = spent + 1
    BY <1>9, Numbers
  <2>3. Due + spent >= Interval[obs] + Passed
    BY <1>1, <2>1, <2>2 DEF LawInv, EarlyInv
  <2>4. t <= Passed + 1
    BY <1>5, <2>1
  <2> QED
    BY <1>5, <1>7, <2>2, <2>3, <2>4, Numbers
<1>12. ClockInv'
  BY <1>1 DEF ClockInv
<1> QED
  BY <1>10, <1>11, <1>12 DEF LawInv

(* The first timer expires, and its handler arms it again.                 *)
LEMMA HandlerLaw ==
  ASSUME LawInv, Inv', NEW hd \in Handlers, HandlerCall(hd)
  PROVE  LawInv'
<1>1. /\ Inv /\ pc = "expire" /\ pc' = "fetch" /\ hd = next_timeout[1].h /\ obs' = obs
      /\ hurried' = hurried /\ next_timeout[2] \in Entry /\ hd # next_timeout[2].h
      /\ next_timeout' = sys_timeout(<<next_timeout[2]>>, Interval[hd], hd)
      /\ obs \in Handlers
  BY ArmedParts DEF HandlerCall, Expire, LawInv, Inv, Armed, TypeOK
<1>2. Due' = IF obs = hd THEN Interval[hd] ELSE next_timeout[2].time
  <2>1. Due' = IF next_timeout'[1].h = obs THEN next_timeout'[1].time
                                           ELSE next_timeout'[1].time + next_timeout'[2].time
    <3>1. Due' = IF next_timeout'[1].h = obs' THEN next_timeout'[1].time
                                              ELSE next_timeout'[1].time + next_timeout'[2].time
      BY DueOf DEF Inv, TypeOK, Due
    <3> QED
      BY <1>1, <3>1
  <2> QED
    BY <1>1, <2>1, RearmDue
<1>3. /\ Due = IF hd = obs THEN First ELSE First + next_timeout[2].time
      /\ next_timeout[2].time \in Nat
  BY <1>1, DueIs
<1>4. CASE hd = obs
  <2>1. counted' = 0 /\ spent' = 0 /\ Due' = Interval[obs]
    BY <1>2, <1>4 DEF HandlerCall
  <2> QED
    BY <1>1, <2>1, Numbers DEF LawInv, ClockInv, LateInv, EarlyInv
<1>5. CASE hd # obs
  <2>1. counted' = counted /\ spent' = spent /\ Due = First + Due'
    BY <1>2, <1>3, <1>5 DEF HandlerCall
  <2>2. Due' \in Nat
    BY <1>2, <1>3, <1>5
  <2> QED
    BY <1>1, <2>1, <2>2, Numbers DEF LawInv, ClockInv, LateInv, EarlyInv
<1> QED
  BY <1>4, <1>5

(* Every step keeps the laws.                                              *)
LEMMA LawStep ==
  ASSUME MSEC = OS_TICKS_PER_SEC, Inv, LawInv, [Next]_vars
  PROVE  LawInv'
<1>1. Inv'
  BY InvStep
<1>2. CASE UNCHANGED vars
  <2>1. UNCHANGED <<next_timeout, OSTime, timeout, dly, pc, hurried, obs, counted, spent>>
    BY <1>2 DEF vars, timerVars, waitVars
  <2>2. Due' = Due /\ First' = First /\ Passed' = Passed
    BY <2>1, SameList DEF Passed
  <2> QED
    BY <1>1, <2>1, <2>2 DEF LawInv, ClockInv, LateInv, EarlyInv
<1> QED
  BY <1>1, <1>2, TickLaw, PostLaw, FetchLaw, PendLaw, WorkLaw, GotLaw, HandlerLaw
  DEF Next, tcpip_thread

(* With a tick of one millisecond no timer is late by more than the work   *)
(* between two waits.                                                      *)
THEOREM TimersAreNotLate ==
  MSEC = OS_TICKS_PER_SEC /\ Spec => []NeverLate
<1>1. LawInv => NeverLate
  BY DEF LawInv, LateInv, NeverLate
<1>2. CASE MSEC = OS_TICKS_PER_SEC
  <2>1. Inv /\ LawInv /\ [Next]_vars => LawInv'
    BY <1>2, LawStep
  <2> QED
    BY <1>1, <2>1, LawInit, InvCorrect, PTL DEF Spec
<1> QED
  BY <1>2

(* With a tick of one millisecond a timer is early by at most one          *)
(* millisecond for each message fetched since it was armed (sys_arch.c).   *)
THEOREM TimersAreNotEarly ==
  MSEC = OS_TICKS_PER_SEC /\ Spec => []NotEarly
<1>1. LawInv => NotEarly
  <2> SUFFICES ASSUME LawInv, ~hurried PROVE Due + spent >= Interval[obs]
    BY DEF NotEarly
  <2>1. pc \in {"fetch", "pend", "wait", "got", "work", "expire"}
    BY DEF LawInv, Inv, TypeOK, TimersTypes
  <2>2. CASE spent < Interval[obs]
    BY <2>1, <2>2, Numbers DEF LawInv, EarlyInv
  <2>3. CASE ~(spent < Interval[obs])
    BY <2>3, Numbers
  <2> QED
    BY <2>2, <2>3
<1>2. CASE MSEC = OS_TICKS_PER_SEC
  <2>1. Inv /\ LawInv /\ [Next]_vars => LawInv'
    BY <1>2, LawStep
  <2> QED
    BY <1>1, <2>1, LawInit, InvCorrect, PTL DEF Spec
<1> QED
  BY <1>2
=============================================================================
