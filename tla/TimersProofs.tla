----------------------------- MODULE TimersProofs -----------------------------
(***************************************************************************)
(* Lemmas about the timer list of Timers, for any intervals and any size   *)
(* of the pool that holds the two timers.                                  *)
(***************************************************************************)
EXTENDS Timers, SequenceTheorems, FiniteSetTheorems, TLAPS

Entry == [h : Handlers, time : 0..U32-1]

(* The constants, as TimersAssumption has them.                            *)
LEMMA Constants ==
  /\ U32 \in Nat /\ U32 >= 2 /\ MSEC \in Nat \ {0} /\ OS_TICKS_PER_SEC \in Nat \ {0}
  /\ MEMP_NUM_SYS_TIMEOUT \in Nat /\ MEMP_NUM_SYS_TIMEOUT >= 2 /\ MboxBound \in Nat
  /\ Lag \in Nat /\ NULL \notin Msg
  /\ \A h \in Handlers : Interval[h] \in 1..U32-1 /\ (Interval[h] + Lag) * MSEC < U32
<1>1. Cardinality(Handlers) = 2
  <2>1. IsFiniteSet({"ip_reass_timer"}) /\ Cardinality({"ip_reass_timer"}) = 1
    BY FS_Singleton
  <2>2. Handlers = {"ip_reass_timer"} \cup {"arp_timer"} /\ "arp_timer" \notin {"ip_reass_timer"}
    BY DEF Handlers
  <2> QED
    BY <2>1, <2>2, FS_AddElement
<1> QED
  BY <1>1, TimersAssumption DEF Handlers

(* The recursive function of Expiry satisfies its equation on the lists    *)
(* that occur.                                                             *)
LEMMA ExpiryIs ==
  ASSUME NEW l \in Seq(Entry), Len(l) \in 0..2
  PROVE  /\ Expiry(l)[0] = 0
         /\ Len(l) >= 1 => Expiry(l)[1] = l[1].time
         /\ Len(l) = 2 => Expiry(l)[2] = l[1].time + l[2].time
<1>1. Len(l) \in 0..2 /\ \A i \in 1..Len(l) : l[i].time \in Nat
  <2>1. Len(l) \in Nat /\ \A i \in 1..Len(l) : l[i] \in Entry
    BY LenProperties, ElementOfSeq
  <2>2. \A e \in Entry : e.time \in Nat
    BY Constants DEF Entry
  <2> QED
    BY <2>1, <2>2
<1> DEFINE Step(f) == [k \in 0..Len(l) |-> IF k = 0 THEN 0 ELSE f[k-1] + l[k].time]
           g == [k \in 0..Len(l) |-> IF k = 0 THEN 0 ELSE IF k = 1 THEN l[1].time
                                      ELSE l[1].time + l[2].time]
<1>2. g = Step(g)
  <2>1. SUFFICES ASSUME NEW i \in 0..Len(l)
                 PROVE  g[i] = IF i = 0 THEN 0 ELSE g[i-1] + l[i].time
    OBVIOUS
  <2>2. CASE i = 0
    BY <2>2
  <2>3. CASE i = 1
    BY <1>1, <2>3
  <2>4. CASE i = 2
    BY <1>1, <2>4
  <2> QED
    BY <1>1, <2>2, <2>3, <2>4
<1>3. Expiry(l) = CHOOSE f : f = Step(f)
  BY DEF Expiry
<1>4. Expiry(l) = Step(Expiry(l))
  BY <1>2, <1>3
<1> QED
  BY <1>1, <1>4

(* Two entries make a list of two.                                         *)
LEMMA Pair ==
  ASSUME NEW a, NEW b
  PROVE  <<a>> \o <<b>> = <<a, b>> /\ <<a, b>> \o <<>> = <<a, b>>
<1> DEFINE S == {a, b}
<1>1. <<a>> \in Seq(S) /\ <<b>> \in Seq(S) /\ <<a, b>> \in Seq(S)
  OBVIOUS
<1>2. <<a>> \o <<b>> \in Seq(S) /\ Len(<<a>> \o <<b>>) = 2
  BY <1>1, ConcatProperties
<1>3. (<<a>> \o <<b>>)[1] = a /\ (<<a>> \o <<b>>)[2] = b
  BY <1>1, ConcatProperties
<1>4. \A i \in 1..2 : (<<a>> \o <<b>>)[i] = <<a, b>>[i]
  BY <1>3
<1> HIDE DEF S
<1>5. <<a>> \o <<b>> = <<a, b>>
  BY <1>1, <1>2, <1>4, SeqEqual
<1> QED
  BY <1>1, <1>5, ConcatEmptySeq

(* What sys_timeout makes of an empty list.                                *)
LEMMA SysTimeoutEmpty ==
  ASSUME NEW ms \in 0..U32-1, NEW hd \in Handlers
  PROVE  sys_timeout(<<>>, ms, hd) = <<[h |-> hd, time |-> ms]>>
<1>1. <<>> \in Seq(Entry) /\ Len(<<>>) = 0 /\ Len(<<>>) \in 0..2
  BY EmptySeq
<1>2. Expiry(<<>>)[0] = 0
  BY <1>1, ExpiryIs
<1>3. 0 = Cardinality({i \in 1..Len(<<>>) : Expiry(<<>>)[i] <= ms})
  <2>1. {i \in 1..Len(<<>>) : Expiry(<<>>)[i] <= ms} = {}
    BY <1>1
  <2> QED
    BY <2>1, FS_EmptySet
<1>4. ms - Expiry(<<>>)[0] = ms
  BY <1>2, Constants
<1>5. SubSeq(<<>>, 1, 0) = <<>>
  BY SubSeqEmpty
<1>6. Len(<<>>) # MEMP_NUM_SYS_TIMEOUT
  BY <1>1, Constants
<1>7. sys_timeout(<<>>, ms, hd) =
        SubSeq(<<>>, 1, 0) \o <<[h |-> hd, time |-> ms - Expiry(<<>>)[0]]>>
          \o [i \in 1..Len(<<>>)-0 |->
                IF i = 1 THEN [<<>>[0+1] EXCEPT !.time = @ - (ms - Expiry(<<>>)[0])] ELSE <<>>[0+i]]
  BY <1>3, <1>6, Zenon DEF sys_timeout
<1>8. [i \in 1..Len(<<>>)-0 |->
         IF i = 1 THEN [<<>>[0+1] EXCEPT !.time = @ - (ms - Expiry(<<>>)[0])] ELSE <<>>[0+i]] = <<>>
  BY <1>1
<1> QED
  BY <1>4, <1>5, <1>7, <1>8

(* A list of one entry: the new one goes behind it when it expires no      *)
(* earlier, and in front of it otherwise; each counts from the one before. *)
LEMMA SysTimeoutOne ==
  ASSUME NEW e \in Entry, NEW ms \in 0..U32-1, NEW hd \in Handlers
  PROVE  sys_timeout(<<e>>, ms, hd) =
           IF e.time <= ms THEN <<e, [h |-> hd, time |-> ms - e.time]>>
                           ELSE <<[h |-> hd, time |-> ms], [h |-> e.h, time |-> e.time - ms]>>
<1>1. <<e>> \in Seq(Entry) /\ Len(<<e>>) = 1 /\ Len(<<e>>) \in 0..2 /\ <<e>>[1] = e
  OBVIOUS
<1>2. Expiry(<<e>>)[0] = 0 /\ Expiry(<<e>>)[1] = e.time
  <2>1. Len(<<e>>) >= 1
    BY <1>1
  <2> QED
    BY <1>1, <2>1, ExpiryIs, Zenon
<1>3. e.time \in Nat /\ e.h \in Handlers /\ e = [h |-> e.h, time |-> e.time] /\ ms \in Nat
  BY Constants DEF Entry
<1>4. Len(<<e>>) # MEMP_NUM_SYS_TIMEOUT
  BY <1>1, Constants
<1>5. CASE e.time <= ms
  <2>1. 1 = Cardinality({i \in 1..Len(<<e>>) : Expiry(<<e>>)[i] <= ms})
    <3>1. {i \in 1..Len(<<e>>) : Expiry(<<e>>)[i] <= ms} = {1}
      BY <1>1, <1>2, <1>5
    <3> QED
      BY <3>1, FS_Singleton
  <2>2. sys_timeout(<<e>>, ms, hd) =
          SubSeq(<<e>>, 1, 1) \o <<[h |-> hd, time |-> ms - Expiry(<<e>>)[1]]>>
            \o [i \in 1..Len(<<e>>)-1 |->
                  IF i = 1 THEN [<<e>>[1+1] EXCEPT !.time = @ - (ms - Expiry(<<e>>)[1])]
                           ELSE <<e>>[1+i]]
    BY <1>4, <2>1, Zenon DEF sys_timeout
  <2>3. [i \in 1..Len(<<e>>)-1 |->
           IF i = 1 THEN [<<e>>[1+1] EXCEPT !.time = @ - (ms - Expiry(<<e>>)[1])]
                    ELSE <<e>>[1+i]] = <<>>
    BY <1>1
  <2>4. SubSeq(<<e>>, 1, 1) = <<e>>
    BY <1>1, SubSeqFull
  <2> QED
    BY <1>2, <1>5, <2>2, <2>3, <2>4, Pair
<1>6. CASE ~(e.time <= ms)
  <2>1. 0 = Cardinality({i \in 1..Len(<<e>>) : Expiry(<<e>>)[i] <= ms})
    <3>1. {i \in 1..Len(<<e>>) : Expiry(<<e>>)[i] <= ms} = {}
      BY <1>1, <1>2, <1>6
    <3> QED
      BY <3>1, FS_EmptySet
  <2>2. sys_timeout(<<e>>, ms, hd) =
          SubSeq(<<e>>, 1, 0) \o <<[h |-> hd, time |-> ms - Expiry(<<e>>)[0]]>>
            \o [i \in 1..Len(<<e>>)-0 |->
                  IF i = 1 THEN [<<e>>[0+1] EXCEPT !.time = @ - (ms - Expiry(<<e>>)[0])]
                           ELSE <<e>>[0+i]]
    BY <1>4, <2>1, Zenon DEF sys_timeout
  <2>3. ms - Expiry(<<e>>)[0] = ms
    BY <1>2, <1>3
  <2>4. [i \in 1..Len(<<e>>)-0 |->
           IF i = 1 THEN [<<e>>[0+1] EXCEPT !.time = @ - (ms - Expiry(<<e>>)[0])]
                    ELSE <<e>>[0+i]] = <<[h |-> e.h, time |-> e.time - ms]>>
    <3>1. [e EXCEPT !.time = @ - ms] = [h |-> e.h, time |-> e.time - ms]
      BY <1>3
    <3> QED
      BY <1>1, <2>3, <3>1
  <2>5. SubSeq(<<e>>, 1, 0) = <<>>
    BY SubSeqEmpty
  <2>6. <<>> \o <<[h |-> hd, time |-> ms]>> = <<[h |-> hd, time |-> ms]>>
    OBVIOUS
  <2> QED
    BY <1>6, <2>2, <2>3, <2>4, <2>5, <2>6, Pair
<1> QED
  BY <1>5, <1>6

-----------------------------------------------------------------------------
(* Arithmetic of the conversions between milliseconds and ticks.           *)
LEMMA ModDiv ==
  ASSUME NEW x \in Nat, NEW m \in Nat \ {0}
  PROVE  x % m \in 0..m-1 /\ x \div m \in 0..x
OBVIOUS

(* A timeout in ticks fits 32 bits.                                        *)
LEMMA UcosTimeoutType ==
  ASSUME NEW ms \in Nat
  PROVE  UcosTimeout(ms) \in 0..U32-1
<1>1. ms * OS_TICKS_PER_SEC \in Nat
  BY Constants
<1> DEFINE r == (ms * OS_TICKS_PER_SEC) % U32
<1>2. r \in 0..U32-1
  BY <1>1, ModDiv, Constants
<1> HIDE DEF r
<1>3. r \div MSEC \in 0..r
  BY <1>2, ModDiv, Constants
<1> QED
  BY <1>2, <1>3, Constants DEF UcosTimeout, r

(* The time reported for a wait.                                           *)
LEMMA ElapsedType ==
  ASSUME NEW begin \in 0..U32-1, NEW end \in 0..U32-1
  PROVE  Elapsed(begin, end) \in Nat
<1> DEFINE ticks == IF end > begin THEN end - begin ELSE U32 - 1 - begin + end
           r == (ticks * MSEC) % U32
<1>1. ticks \in Nat
  BY Constants
<1> HIDE DEF ticks
<1>2. r \in 0..U32-1
  BY <1>1, ModDiv, Constants
<1> HIDE DEF r
<1>3. r \div OS_TICKS_PER_SEC \in 0..r
  BY <1>2, ModDiv, Constants
<1> QED
  BY <1>2, <1>3, Constants DEF Elapsed, r, ticks

-----------------------------------------------------------------------------
(* The list holds the two cyclic timers, each of them once.                *)
Armed(l) == l \in Seq(Entry) /\ Len(l) = 2 /\ l[1].h # l[2].h

TimersInv == TimersTypes /\ Armed(next_timeout)

(* The parts of a list that is Armed.                                      *)
LEMMA ArmedParts ==
  ASSUME NEW l, Armed(l)
  PROVE  /\ l = <<l[1], l[2]>> /\ l # <<>> /\ DOMAIN l = 1..2
         /\ l[1] \in Entry /\ l[2] \in Entry
         /\ Head(l) = l[1] /\ Tail(l) = <<l[2]>>
         /\ \A i \in 1..2 : l[i].h \in Handlers /\ l[i].time \in 0..U32-1
<1>1. l \in Seq(Entry) /\ Len(l) = 2
  BY DEF Armed
<1>2. l[1] \in Entry /\ l[2] \in Entry /\ DOMAIN l = 1..2
  BY <1>1, LenProperties, ElementOfSeq
<1>3. l = <<l[1], l[2]>> /\ l # <<>>
  BY <1>1, <1>2
<1>4. Head(l) = l[1]
  BY <1>3
<1>5. Tail(l) = <<l[2]>>
  <2>1. Tail(<<l[1], l[2]>>) = <<l[2]>>
    OBVIOUS
  <2> QED
    BY <1>3, <2>1, Zenon
<1> QED
  BY <1>2, <1>3, <1>4, <1>5 DEF Entry

(* Two entries of different timers are a list that is Armed.               *)
LEMMA ArmedPair ==
  ASSUME NEW a \in Entry, NEW b \in Entry, a.h # b.h
  PROVE  Armed(<<a, b>>)
BY DEF Armed

(* A timer that is armed again is behind or in front of the other one.     *)
LEMMA Rearm ==
  ASSUME NEW e \in Entry, NEW hd \in Handlers, hd # e.h
  PROVE  Armed(sys_timeout(<<e>>, Interval[hd], hd))
<1>1. Interval[hd] \in 0..U32-1 /\ Interval[hd] \in Nat /\ e.time \in 0..U32-1 /\ e.h \in Handlers
  BY Constants DEF Entry
<1>2. CASE e.time <= Interval[hd]
  <2>1. sys_timeout(<<e>>, Interval[hd], hd) = <<e, [h |-> hd, time |-> Interval[hd] - e.time]>>
    BY <1>1, <1>2, SysTimeoutOne
  <2>2. [h |-> hd, time |-> Interval[hd] - e.time] \in Entry
    BY <1>1, <1>2, Constants DEF Entry
  <2> QED
    BY <2>1, <2>2, ArmedPair
<1>3. CASE ~(e.time <= Interval[hd])
  <2>1. sys_timeout(<<e>>, Interval[hd], hd) =
          <<[h |-> hd, time |-> Interval[hd]], [h |-> e.h, time |-> e.time - Interval[hd]]>>
    BY <1>1, <1>3, SysTimeoutOne
  <2>2. /\ [h |-> hd, time |-> Interval[hd]] \in Entry
        /\ [h |-> e.h, time |-> e.time - Interval[hd]] \in Entry
    BY <1>1, <1>3, Constants DEF Entry
  <2> QED
    BY <2>1, <2>2, ArmedPair
<1> QED
  BY <1>2, <1>3

(* Time taken off the first entry leaves the list Armed.                   *)
LEMMA Reduced ==
  ASSUME NEW l, Armed(l), NEW t \in 0..U32-1
  PROVE  /\ Armed([l EXCEPT ![1].time = t])
         /\ [l EXCEPT ![1].time = t] = <<[h |-> l[1].h, time |-> t], l[2]>>
<1>1. /\ l = <<l[1], l[2]>> /\ l[1] \in Entry /\ l[2] \in Entry /\ l[1].h # l[2].h
      /\ l \in Seq(Entry) /\ Len(l) = 2
  BY ArmedParts DEF Armed
<1>2. [l[1] EXCEPT !.time = t] = [h |-> l[1].h, time |-> t] /\ [h |-> l[1].h, time |-> t] \in Entry
  BY <1>1 DEF Entry
<1>3. [l EXCEPT ![1].time = t] = <<[h |-> l[1].h, time |-> t], l[2]>>
  BY <1>1, <1>2
<1>4. [h |-> l[1].h, time |-> t].h # l[2].h
  BY <1>1
<1>5. Armed(<<[h |-> l[1].h, time |-> t], l[2]>>)
  BY <1>1, <1>2, <1>4, ArmedPair, Zenon
<1> QED
  BY <1>3, <1>5, Zenon

(* Init.                                                                   *)
LEMMA TimersInitInv ==
  TimersInit => TimersInv
<1> SUFFICES ASSUME TimersInit PROVE TimersInv
  OBVIOUS
<1>1. IP_TMR_INTERVAL \in 0..U32-1 /\ Interval["arp_timer"] = ARP_TMR_INTERVAL
  BY Constants DEF Handlers, Interval
<1>2. sys_timeout(<<>>, IP_TMR_INTERVAL, "ip_reass_timer") =
        <<[h |-> "ip_reass_timer", time |-> IP_TMR_INTERVAL]>>
  BY <1>1, SysTimeoutEmpty DEF Handlers
<1>3. [h |-> "ip_reass_timer", time |-> IP_TMR_INTERVAL] \in Entry
  BY <1>1 DEF Entry, Handlers
<1>4. Armed(next_timeout)
  BY <1>1, <1>2, <1>3, Rearm DEF TimersInit, Handlers
<1>5. /\ OSTime \in 0..U32-1 /\ timeout \in 0..U32-1 /\ dly \in 0..U32-1
      /\ mbox \in Seq(Msg) /\ msg = NULL /\ pc = "fetch"
  BY Constants DEF TimersInit
<1>6. hurried \in BOOLEAN
  BY DEF TimersInit
<1> QED
  BY <1>4, <1>5, <1>6 DEF TimersInv, TimersTypes, Armed, Entry

-----------------------------------------------------------------------------
(* Each action of the clock keeps the list Armed and the types.            *)
LEMMA OSTimeTickInv ==
  ASSUME TimersInv, OSTimeTick
  PROVE  TimersInv'
<1>1. OSTime' \in 0..U32-1
  BY ModDiv, Constants DEF TimersInv, TimersTypes, OSTimeTick
<1>2. dly' \in 0..U32-1 /\ pc' \in {"fetch", "pend", "wait", "got", "work", "expire"}
  BY Constants DEF TimersInv, TimersTypes, OSTimeTick
<1>3. UNCHANGED <<next_timeout, mbox, timeout, msg, hurried>>
  BY DEF OSTimeTick
<1> QED
  BY <1>1, <1>2, <1>3 DEF TimersInv, TimersTypes, Armed

(* A post leaves the list alone.                                           *)
LEMMA OSQPostInv ==
  ASSUME TimersInv, NEW m \in Msg, OSQPost(m)
  PROVE  TimersInv'
<1>1. mbox' \in Seq(Msg) /\ msg' \in Msg \cup {NULL}
  <2>1. Append(mbox, m) \in Seq(Msg)
    BY DEF TimersInv, TimersTypes
  <2> QED
    BY <2>1 DEF TimersInv, TimersTypes, OSQPost
<1>2. pc' \in {"fetch", "pend", "wait", "got", "work", "expire"}
  BY DEF TimersInv, TimersTypes, OSQPost
<1>3. UNCHANGED <<next_timeout, OSTime, timeout, dly, hurried>>
  BY DEF OSQPost, waitVars
<1> QED
  BY <1>1, <1>2, <1>3 DEF TimersInv, TimersTypes, Armed

(* So does the beginning of a wait,                                        *)
LEMMA FetchInv ==
  ASSUME TimersInv, Fetch
  PROVE  TimersInv'
<1>1. next_timeout # <<>> /\ Head(next_timeout).time \in Nat
  BY ArmedParts, Constants DEF TimersInv
<1>2. timeout' \in 0..U32-1 /\ dly' \in 0..U32-1 /\ pc' \in {"pend", "expire"}
  BY <1>1, UcosTimeoutType DEF TimersInv, TimersTypes, Fetch, waitVars
<1>3. UNCHANGED <<next_timeout, OSTime, mbox, msg, hurried>>
  BY DEF Fetch
<1> QED
  BY <1>2, <1>3 DEF TimersInv, TimersTypes, Armed

(* and its end.                                                            *)
LEMMA OSQPendInv ==
  ASSUME TimersInv, OSQPend
  PROVE  TimersInv'
<1>1. mbox' \in Seq(Msg) /\ msg' \in Msg \cup {NULL} /\ pc' \in {"wait", "got"}
  <2>1. CASE mbox = <<>>
    BY <2>1 DEF TimersInv, TimersTypes, OSQPend
  <2>2. CASE mbox # <<>>
    BY <2>2, HeadTailProperties DEF TimersInv, TimersTypes, OSQPend
  <2> QED
    BY <2>1, <2>2
<1>2. UNCHANGED <<next_timeout, OSTime, timeout, dly, hurried>>
  BY DEF OSQPend, waitVars
<1> QED
  BY <1>1, <1>2 DEF TimersInv, TimersTypes, Armed

(* What is left of the first entry when a message has come.                *)
Left == LET t == Elapsed(timeout, OSTime)
        IN  IF t < Head(next_timeout).time THEN Head(next_timeout).time - t ELSE 0

(* A wait with a message only shortens the time of the first timer.        *)
LEMMA GotList ==
  ASSUME TimersInv, Got
  PROVE  /\ Left \in 0..Head(next_timeout).time
         /\ Armed(next_timeout')
         /\ next_timeout' = <<[h |-> next_timeout[1].h, time |-> Left], next_timeout[2]>>
<1>1. /\ Armed(next_timeout) /\ next_timeout # <<>> /\ Head(next_timeout) = next_timeout[1]
      /\ Head(next_timeout).time \in 0..U32-1
  BY ArmedParts DEF TimersInv
<1>2. Elapsed(timeout, OSTime) \in Nat
  BY ElapsedType DEF TimersInv, TimersTypes
<1>3. Left \in 0..Head(next_timeout).time
  BY <1>1, <1>2, Constants DEF Left
<1>4. Left \in 0..U32-1
  BY <1>1, <1>3, Constants
<1>5. next_timeout' = [next_timeout EXCEPT ![1].time = Left]
  BY <1>1 DEF Got, Left
<1> QED
  BY <1>1, <1>3, <1>4, <1>5, Reduced

(* Hence both timers stay armed.                                           *)
LEMMA GotInv ==
  ASSUME TimersInv, Got
  PROVE  TimersInv'
<1>1. Armed(next_timeout')
  BY GotList
<1>2. timeout' \in 0..U32-1 /\ dly' \in 0..U32-1 /\ pc' = "work" /\ UNCHANGED <<OSTime, mbox, msg>>
  BY Constants DEF Got
<1>3. hurried' \in BOOLEAN
  BY DEF Got
<1> QED
  BY <1>1, <1>2, <1>3 DEF TimersInv, TimersTypes, Armed, Entry

(* A timer that expires is armed again by its handler: the pool has room.  *)
LEMMA ExpireInv ==
  ASSUME TimersInv, NEW hd \in Handlers, Expire(hd)
  PROVE  TimersInv'
<1>1. /\ Tail(next_timeout) = <<next_timeout[2]>> /\ next_timeout[2] \in Entry
      /\ hd # next_timeout[2].h
  BY ArmedParts DEF TimersInv, Armed, Expire
<1>2. Armed(next_timeout')
  BY <1>1, Rearm DEF Expire
<1>3. /\ timeout' \in 0..U32-1 /\ dly' \in 0..U32-1 /\ pc' = "fetch"
      /\ UNCHANGED <<OSTime, mbox, msg, hurried>>
  BY Constants DEF Expire
<1> QED
  BY <1>2, <1>3 DEF TimersInv, TimersTypes, Armed, Entry

(* Handling a message leaves the list alone.                               *)
LEMMA WorkInv ==
  ASSUME TimersInv, Work
  PROVE  TimersInv'
BY DEF TimersInv, TimersTypes, Armed, Work, waitVars

(* So does a step of others.                                               *)
LEMMA StutterInv ==
  ASSUME TimersInv, UNCHANGED timerVars
  PROVE  TimersInv'
BY DEF TimersInv, TimersTypes, Armed, timerVars, waitVars
=============================================================================
