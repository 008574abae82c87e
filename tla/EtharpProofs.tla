----------------------------- MODULE EtharpProofs -----------------------------
(***************************************************************************)
(* Proofs about the ARP cache: its types and its integrity, for any number *)
(* of hosts, any size of the table and any ages.                           *)
(***************************************************************************)
EXTENDS Etharp, TimersProofs, WellFoundedInduction

ArpEntry == [state : {"EMPTY", "PENDING"} \cup Stable, ip : Addr, ctime : 0..ARP_MAXAGE-1, q : BOOLEAN]

TableTypes == arp_table \in [Entries -> ArpEntry]

Inv == TimersInv /\ TableTypes /\ TableSound

(* A packet waits on entry e only if e is pending.                         *)
QueueSound(e) == e.q => e.state = "PENDING"

-----------------------------------------------------------------------------
(* An empty entry has no packet queued.                                    *)
LEMMA EmptyEntry ==
  EMPTY \in ArpEntry /\ QueueSound(EMPTY) /\ EMPTY.state = "EMPTY"
<1>1. EMPTY.q = FALSE /\ EMPTY.state = "EMPTY" /\ EMPTY.ip \in Addr /\ EMPTY.ctime \in 0..ARP_MAXAGE-1
  BY EtharpAssumption DEF EMPTY
<1>2. EMPTY \in ArpEntry
  BY <1>1 DEF EMPTY, ArpEntry
<1> QED
  BY <1>1, <1>2 DEF QueueSound

(* An entry keeps its address while it ages, unless it is given up.        *)
LEMMA AgedEntry ==
  ASSUME NEW e \in ArpEntry, QueueSound(e)
  PROVE  /\ Aged(e) \in ArpEntry /\ QueueSound(Aged(e))
         /\ Aged(e).state # "EMPTY" => e.state # "EMPTY" /\ Aged(e).ip = e.ip
<1>1. e.ctime \in 0..ARP_MAXAGE-1 /\ ARP_MAXAGE \in Nat /\ e.ip \in Addr
  BY EtharpAssumption DEF ArpEntry
<1>2. CASE e.state = "EMPTY"
  BY <1>2 DEF Aged
<1>3. CASE e.state # "EMPTY" /\ (e.ctime + 1 >= ARP_MAXAGE \/ (e.state = "PENDING" /\ e.ctime + 1 >= ARP_MAXPENDING))
  BY <1>3, EmptyEntry DEF Aged
<1>4. CASE e.state # "EMPTY" /\ ~(e.ctime + 1 >= ARP_MAXAGE \/ (e.state = "PENDING" /\ e.ctime + 1 >= ARP_MAXPENDING))
  <2> DEFINE s == IF e.state = "REREQUESTING" THEN "STABLE" ELSE e.state
             c == e.ctime + 1
             r == [e EXCEPT !.ctime = c, !.state = s]
  <2>1. Aged(e) = r
    BY <1>4 DEF Aged
  <2>2. ~(e.ctime + 1 >= ARP_MAXAGE)
    BY <1>4
  <2>3. c \in 0..ARP_MAXAGE-1
    BY <1>1, <2>2
  <2>4. /\ s \in {"EMPTY", "PENDING"} \cup Stable
        /\ (s = "PENDING" <=> e.state = "PENDING") /\ (s = "EMPTY" <=> e.state = "EMPTY")
    BY DEF ArpEntry, Stable
  <2> HIDE DEF s, c
  <2>5. r \in ArpEntry /\ r.state = s /\ r.ip = e.ip
    BY <2>3, <2>4 DEF ArpEntry
  <2>6. r.q = e.q
    BY DEF ArpEntry
  <2> HIDE DEF r
  <2>7. QueueSound(r)
    BY <2>4, <2>5, <2>6 DEF QueueSound
  <2> QED
    BY <1>4, <2>1, <2>5, <2>7
<1> QED
  BY <1>2, <1>3, <1>4

(* An address that is in the table is found.                               *)
LEMMA FindMatching ==
  ASSUME TableSound, NEW a, Matching(a) # {}
  PROVE  etharp_find_entry(a) \in Matching(a)
<1>1. \A i, j \in Matching(a) : i = j
  BY DEF TableSound, Matching
<1>2. \A i \in Matching(a) : i \in Nat
  BY EtharpAssumption DEF Matching, Entries
<1>3. \E i \in Matching(a) : \A j \in Matching(a) : i <= j
  BY <1>1, <1>2
<1> QED
  BY <1>3 DEF etharp_find_entry

(* The table stays as it is.                                               *)
LEMMA TableSame ==
  ASSUME TableTypes, TableSound, UNCHANGED arp_table
  PROVE  TableTypes' /\ TableSound'
BY DEF TableTypes, TableSound

(* An entry for address a may be put in the place of the one found for it. *)
LEMMA PutEntry ==
  ASSUME TableTypes, TableSound, NEW a \in Addr, NEW e \in ArpEntry, QueueSound(e), e.ip = a,
         arp_table' = [arp_table EXCEPT ![etharp_find_entry(a)] = e]
  PROVE  TableTypes' /\ TableSound'
<1> DEFINE k == etharp_find_entry(a)
<1>1. CASE k \notin Entries
  <2>1. arp_table' = arp_table
    BY <1>1 DEF TableTypes
  <2> QED
    BY <2>1, TableSame
<1>2. CASE k \in Entries
  <2>1. \A i \in Entries : i # k /\ arp_table[i].state # "EMPTY" => arp_table[i].ip # a
    <3> SUFFICES ASSUME NEW i \in Entries, arp_table[i].state # "EMPTY", arp_table[i].ip = a
                 PROVE  i = k
      OBVIOUS
    <3>1. i \in Matching(a)
      BY DEF Matching
    <3>2. k \in Matching(a)
      BY <3>1, FindMatching
    <3> QED
      BY <3>1, <3>2 DEF Matching, TableSound
  <2> HIDE DEF k
  <2>2. \A i \in Entries : arp_table'[i] = IF i = k THEN e ELSE arp_table[i]
    BY <1>2 DEF TableTypes, k
  <2>3. TableTypes'
    BY DEF TableTypes
  <2>4. \A i \in Entries : arp_table'[i].q => arp_table'[i].state = "PENDING"
    BY <2>2 DEF TableSound, QueueSound
  <2>5. ASSUME NEW i \in Entries, NEW j \in Entries, arp_table'[i].state # "EMPTY",
               arp_table'[j].state # "EMPTY", arp_table'[i].ip = arp_table'[j].ip
        PROVE  i = j
    BY <2>1, <2>2, <2>5 DEF TableSound
  <2> QED
    BY <2>3, <2>4, <2>5 DEF TableSound
<1> QED
  BY <1>1, <1>2

(* Looking up an address to send to keeps the table sound.                 *)
LEMMA OutputTable ==
  ASSUME TableTypes, TableSound, NEW a \in Addr, etharp_output(a)
  PROVE  /\ TableTypes' /\ TableSound'
         /\ \E f \in ArpEntry :
              f.ip = a /\ arp_table' = [arp_table EXCEPT ![etharp_find_entry(a)] = f]
<1> DEFINE k == etharp_find_entry(a)
           e == IF k \in Matching(a) THEN arp_table[k] ELSE [EMPTY EXCEPT !.ip = a, !.state = "PENDING"]
           F(requested, copied) ==
             IF e.state = "STABLE" /\ e.ctime >= ARP_AGE_REREQUEST_USED /\ requested
             THEN [e EXCEPT !.state = "REREQUESTING"]
             ELSE IF e.state = "PENDING" /\ copied THEN [e EXCEPT !.q = TRUE] ELSE e
<1>1. PICK requested \in BOOLEAN, copied \in BOOLEAN :
        arp_table' = [arp_table EXCEPT ![k] = F(requested, copied)]
  BY DEF etharp_output
<1> DEFINE f == F(requested, copied)
<1>2. e \in ArpEntry /\ e.ip = a /\ QueueSound(e)
  <2>1. CASE k \in Matching(a)
    BY <2>1 DEF Matching, TableTypes, TableSound, QueueSound
  <2>2. CASE k \notin Matching(a)
    <3> DEFINE r == [EMPTY EXCEPT !.ip = a, !.state = "PENDING"]
    <3>1. EMPTY \in ArpEntry
      BY EmptyEntry
    <3>2. r \in ArpEntry /\ r.ip = a /\ r.state = "PENDING"
      BY <3>1 DEF ArpEntry
    <3> HIDE DEF r
    <3>3. e = r
      BY <2>2 DEF r
    <3> QED
      BY <3>2, <3>3 DEF QueueSound
  <2> QED
    BY <2>1, <2>2
<1>3. f \in ArpEntry /\ QueueSound(f) /\ f.ip = a
  <2>1. CASE e.state = "STABLE" /\ e.ctime >= ARP_AGE_REREQUEST_USED /\ requested
    <3>1. f = [e EXCEPT !.state = "REREQUESTING"]
      BY <2>1
    <3> HIDE DEF e, f
    <3>2. f \in ArpEntry /\ f.ip = a /\ f.q = e.q
      BY <1>2, <3>1 DEF ArpEntry, Stable
    <3>3. ~e.q
      BY <1>2, <2>1 DEF QueueSound
    <3> QED
      BY <3>2, <3>3 DEF QueueSound
  <2>2. CASE ~(e.state = "STABLE" /\ e.ctime >= ARP_AGE_REREQUEST_USED /\ requested)
             /\ e.state = "PENDING" /\ copied
    <3>1. f = [e EXCEPT !.q = TRUE]
      BY <2>2
    <3> HIDE DEF e, f
    <3>2. f \in ArpEntry /\ f.ip = a /\ f.state = "PENDING"
      BY <1>2, <2>2, <3>1 DEF ArpEntry
    <3> QED
      BY <3>2 DEF QueueSound
  <2>3. CASE ~(e.state = "STABLE" /\ e.ctime >= ARP_AGE_REREQUEST_USED /\ requested)
             /\ ~(e.state = "PENDING" /\ copied)
    <3>1. f = e
      BY <2>3
    <3> QED
      BY <1>2, <3>1
  <2> QED
    BY <2>1, <2>2, <2>3
<1>4. arp_table' = [arp_table EXCEPT ![k] = f]
  BY <1>1
<1> HIDE DEF f
<1> QED
  BY <1>3, <1>4, PutEntry

(* Learning an address keeps the table sound.                              *)
LEMMA UpdateTable ==
  ASSUME TableTypes, TableSound, NEW a \in Addr, NEW try_hard \in BOOLEAN,
         etharp_update_arp_entry(a, try_hard)
  PROVE  /\ TableTypes' /\ TableSound'
         /\ \/ UNCHANGED arp_table
            \/ \E f \in ArpEntry :
                 f.ip = a /\ arp_table' = [arp_table EXCEPT ![etharp_find_entry(a)] = f]
<1> DEFINE e == [state |-> "STABLE", ip |-> a, ctime |-> 0, q |-> FALSE]
<1>1. CASE try_hard \/ Matching(a) # {}
  <2>1. arp_table' = [arp_table EXCEPT ![etharp_find_entry(a)] = e]
    BY <1>1 DEF etharp_update_arp_entry
  <2>2. e \in ArpEntry /\ QueueSound(e) /\ e.ip = a
    <3>1. 0 \in 0..ARP_MAXAGE-1
      BY EtharpAssumption
    <3> QED
      BY <3>1 DEF ArpEntry, Stable, QueueSound
  <2> HIDE DEF e
  <2> QED
    BY <2>1, <2>2, PutEntry
<1>2. CASE ~(try_hard \/ Matching(a) # {})
  BY <1>2 DEF etharp_update_arp_entry, TableTypes, TableSound
<1> QED
  BY <1>1, <1>2

(* Ageing keeps the table sound: it may empty an entry but never renames   *)
(* one.                                                                    *)
LEMMA AgedTable ==
  ASSUME TableTypes, TableSound, arp_table' = [i \in Entries |-> Aged(arp_table[i])]
  PROVE  TableTypes' /\ TableSound'
<1>1. \A i \in Entries : arp_table[i] \in ArpEntry /\ QueueSound(arp_table[i])
  BY DEF TableTypes, TableSound, QueueSound
<1>2. \A i \in Entries : /\ arp_table'[i] \in ArpEntry /\ QueueSound(arp_table'[i])
                         /\ arp_table'[i].state # "EMPTY" =>
                              arp_table[i].state # "EMPTY" /\ arp_table'[i].ip = arp_table[i].ip
  BY <1>1, AgedEntry
<1>3. TableTypes'
  BY <1>2 DEF TableTypes
<1>4. ASSUME NEW i \in Entries, NEW j \in Entries, arp_table'[i].state # "EMPTY",
             arp_table'[j].state # "EMPTY", arp_table'[i].ip = arp_table'[j].ip
      PROVE  i = j
  BY <1>2, <1>4 DEF TableSound
<1> QED
  BY <1>2, <1>3, <1>4 DEF TableSound, QueueSound

-----------------------------------------------------------------------------
(* Init.                                                                   *)
LEMMA InvInit == Init => Inv
<1> SUFFICES ASSUME Init PROVE Inv
  OBVIOUS
<1>1. TimersInv
  BY TimersInitInv DEF Init
<1>2. arp_table = [i \in Entries |-> EMPTY]
  BY DEF Init
<1>3. TableTypes /\ TableSound
  BY <1>2, EmptyEntry DEF TableTypes, TableSound, QueueSound
<1> QED
  BY <1>1, <1>3 DEF Inv

(* Every step keeps the invariant.                                         *)
LEMMA InvStep == Inv /\ [Next]_vars => Inv'
<1> SUFFICES ASSUME Inv, [Next]_vars PROVE Inv'
  OBVIOUS
<1> USE DEF Inv
<1>1. CASE Tick
  BY <1>1, OSTimeTickInv, TableSame DEF Tick
<1>2. ASSUME NEW m \in Msg, Post(m) PROVE Inv'
  BY <1>2, OSQPostInv, TableSame DEF Post
<1>3. CASE (Fetch \/ OSQPend \/ Got) /\ UNCHANGED arp_table
  BY <1>3, FetchInv, OSQPendInv, GotInv, TableSame
<1>4. ASSUME NEW a \in Addr, Send(a) PROVE Inv'
  BY <1>4, WorkInv, OutputTable DEF Send
<1>5. ASSUME NEW a \in Addr, NEW for_us \in BOOLEAN, ArpInput(a, for_us) PROVE Inv'
  BY <1>5, WorkInv, UpdateTable DEF ArpInput
<1>6. CASE ip_reass_timer
  BY <1>6, ExpireInv, TableSame DEF ip_reass_timer, Handlers
<1>7. CASE arp_timer
  BY <1>7, ExpireInv, AgedTable DEF arp_timer, Handlers
<1>8. CASE UNCHANGED vars
  BY <1>8, StutterInv, TableSame DEF vars
<1> QED
  BY <1>1, <1>2, <1>3, <1>4, <1>5, <1>6, <1>7, <1>8 DEF Next, tcpip_thread

(* The clock and the table satisfy Inv in every state.                     *)
THEOREM InvCorrect == Spec => []Inv
  BY InvInit, InvStep, PTL DEF Spec

(* Ages stay below ARP_MAXAGE and all other fields in their ranges.        *)
THEOREM TypeCorrect == Spec => []TypeOK
<1>1. Inv => TypeOK
  BY DEF Inv, TimersInv, TableTypes, ArpEntry, TypeOK
<1> QED
  BY <1>1, InvCorrect, PTL

(* No address has two entries, and a packet waits only on a pending one,   *)
(* also after a packet could not be copied (etharp.c:1147).                *)
THEOREM TableIsSound == Spec => []TableSound
<1>1. Inv => TableSound
  BY DEF Inv
<1> QED
  BY <1>1, InvCorrect, PTL

-----------------------------------------------------------------------------
(* A set of numbers that is not empty has a least element.                 *)
LEMMA Least ==
  ASSUME NEW S \in SUBSET Nat, S # {}
  PROVE  \E x \in S : \A y \in S : x <= y
<1> DEFINE R == OpToRel(<, Nat)
<1>1. IsWellFoundedOn(R, Nat)
  BY NatLessThanWellFounded
<1>2. \A x, y \in Nat : x < y => <<x, y>> \in R
  BY DEF OpToRel
<1> HIDE DEF R
<1>3. PICK x \in S : \A y \in S : ~(<<y, x>> \in R)
  BY <1>1, WFMin
<1>4. \A y \in S : ~(y < x)
  BY <1>2, <1>3
<1> QED
  BY <1>4

(* The oldest of some entries is one of them, and none is older.           *)
LEMMA OldestIn ==
  ASSUME TableTypes, NEW S \in SUBSET Entries, S # {}
  PROVE  Oldest(S) \in S /\ \A j \in S : arp_table[j].ctime <= arp_table[Oldest(S)].ctime
<1> DEFINE C(i) == arp_table[i].ctime
           T == {ARP_MAXAGE - C(i) : i \in S}
<1>0. ARP_MAXAGE \in Nat /\ ARP_TABLE_SIZE \in Nat
  BY EtharpAssumption
<1>1. \A i \in S : C(i) \in 0..ARP_MAXAGE-1 /\ i \in 1..ARP_TABLE_SIZE
  BY DEF TableTypes, ArpEntry, Entries
<1> HIDE DEF C
<1>2. T \in SUBSET Nat /\ T # {}
  BY <1>0, <1>1
<1>3. PICK t \in T : \A y \in T : t <= y
  BY <1>2, Least
<1>4. PICK k \in S : t = ARP_MAXAGE - C(k)
  BY <1>3
<1>5. \A j \in S : C(j) <= C(k)
  <2> SUFFICES ASSUME NEW j \in S PROVE C(j) <= C(k)
    OBVIOUS
  <2>1. ARP_MAXAGE - C(j) \in T
    OBVIOUS
  <2>2. ARP_MAXAGE - C(k) <= ARP_MAXAGE - C(j)
    BY <1>3, <1>4, <2>1
  <2> QED
    BY <1>0, <1>1, <2>2
<1> DEFINE U == {ARP_TABLE_SIZE - i : i \in {j \in S : C(j) = C(k)}}
<1> HIDE DEF T
<1>6. U \in SUBSET Nat /\ U # {}
  BY <1>0, <1>1
<1>7. PICK u \in U : \A y \in U : u <= y
  BY <1>6, Least
<1>8. PICK i \in S : C(i) = C(k) /\ u = ARP_TABLE_SIZE - i
  BY <1>7
<1>9. \A j \in S : C(j) = C(k) => j <= i
  <2> SUFFICES ASSUME NEW j \in S, C(j) = C(k) PROVE j <= i
    OBVIOUS
  <2>1. ARP_TABLE_SIZE - j \in U
    OBVIOUS
  <2>2. ARP_TABLE_SIZE - i <= ARP_TABLE_SIZE - j
    BY <1>7, <1>8, <2>1
  <2> QED
    BY <1>0, <1>1, <2>2
<1> HIDE DEF U
<1>10. \A j \in S : C(j) < C(i) \/ (C(j) = C(i) /\ j <= i)
  <2> SUFFICES ASSUME NEW j \in S PROVE C(j) < C(i) \/ (C(j) = C(i) /\ j <= i)
    OBVIOUS
  <2>1. C(j) <= C(i) /\ C(j) \in Nat /\ C(i) \in Nat
    BY <1>1, <1>5, <1>8
  <2>2. C(j) < C(i) \/ C(j) = C(i)
    BY <2>1
  <2> QED
    BY <1>8, <1>9, <2>2
<1>11. /\ Oldest(S) \in S
       /\ \A j \in S : C(j) < C(Oldest(S)) \/ (C(j) = C(Oldest(S)) /\ j <= Oldest(S))
  BY <1>10 DEF Oldest, C
<1>12. \A j \in S : C(j) <= C(Oldest(S))
  <2> SUFFICES ASSUME NEW j \in S PROVE C(j) <= C(Oldest(S))
    OBVIOUS
  <2>1. C(j) \in Nat /\ C(Oldest(S)) \in Nat
    BY <1>1, <1>11
  <2> QED
    BY <1>11, <2>1
<1> QED
  BY <1>11, <1>12 DEF C

(* What etharp_find_entry gives up for an address that has no entry.       *)
LEMMA FindOther ==
  ASSUME TableTypes, TableSound, NEW a, Matching(a) = {}, NEW k, k = etharp_find_entry(a),
         k \in Entries, arp_table[k].state # "EMPTY"
  PROVE  /\ \A j \in Entries : arp_table[j].state # "EMPTY"
         /\ arp_table[k].q => \A j \in Entries : arp_table[j].q
         /\ arp_table[k].state \in Stable =>
              \A j \in Entries : arp_table[j].state \in Stable =>
                arp_table[j].ctime <= arp_table[k].ctime
<1> DEFINE empty == InState({"EMPTY"}, FALSE)
           stable == InState(Stable, FALSE) \cup InState(Stable, TRUE)
           idle == InState({"PENDING"}, FALSE)
           queue == InState({"PENDING"}, TRUE)
<1>0. \A i \in Entries : /\ arp_table[i].state \in {"EMPTY", "PENDING"} \cup Stable
                         /\ arp_table[i].q \in BOOLEAN
                         /\ arp_table[i].q => arp_table[i].state = "PENDING"
  BY DEF TableTypes, ArpEntry, TableSound
<1>1. /\ \A i \in Entries : arp_table[i].state = "EMPTY" => i \in empty
      /\ \A i \in Entries : arp_table[i].state \in Stable => i \in stable
      /\ \A i \in Entries : arp_table[i].state = "PENDING" => i \in idle \/ i \in queue
      /\ \A i \in empty : arp_table[i].state = "EMPTY"
      /\ \A i \in stable : arp_table[i].state \in Stable
      /\ \A i \in idle : arp_table[i].state = "PENDING" /\ ~arp_table[i].q
      /\ \A i \in queue : arp_table[i].state = "PENDING" /\ arp_table[i].q
      /\ empty \subseteq Entries /\ stable \subseteq Entries
      /\ idle \subseteq Entries /\ queue \subseteq Entries
  BY <1>0 DEF InState
<1>2. k = IF empty # {} THEN CHOOSE i \in empty : \A j \in empty : i <= j
          ELSE IF stable # {} THEN Oldest(stable)
          ELSE IF idle # {} THEN Oldest(idle) ELSE Oldest(queue)
  BY DEF etharp_find_entry
<1> HIDE DEF empty, stable, idle, queue
<1>3. empty = {}
  <2> SUFFICES ASSUME empty # {} PROVE FALSE
    OBVIOUS
  <2>1. empty \in SUBSET Nat
    BY <1>1, EtharpAssumption DEF Entries
  <2>2. \E i \in empty : \A j \in empty : i <= j
    BY <2>1, Least
  <2>3. k \in empty
    BY <1>2, <2>2
  <2> QED
    BY <1>1, <2>3
<1>4. \A j \in Entries : arp_table[j].state # "EMPTY"
  BY <1>1, <1>3
<1>5. CASE stable # {}
  <2>1. k = Oldest(stable)
    BY <1>2, <1>3, <1>5
  <2>2. k \in stable /\ \A j \in stable : arp_table[j].ctime <= arp_table[k].ctime
    BY <1>1, <1>5, <2>1, OldestIn
  <2>3. arp_table[k].state # "PENDING"
    BY <1>1, <2>2 DEF Stable
  <2> QED
    BY <1>0, <1>1, <1>4, <2>2, <2>3
<1>6. CASE stable = {} /\ idle # {}
  <2>1. k = Oldest(idle)
    BY <1>2, <1>3, <1>6
  <2>2. k \in idle
    BY <1>1, <1>6, <2>1, OldestIn
  <2>3. arp_table[k].state = "PENDING" /\ ~arp_table[k].q
    BY <1>1, <2>2
  <2> QED
    BY <1>4, <2>3 DEF Stable
<1>7. CASE stable = {} /\ idle = {}
  <2>1. \A j \in Entries : arp_table[j].state = "PENDING"
    BY <1>0, <1>1, <1>4, <1>7
  <2>2. \A j \in Entries : arp_table[j].q
    BY <1>1, <1>7, <2>1
  <2> QED
    BY <1>4, <2>1, <2>2 DEF Stable
<1> QED
  BY <1>5, <1>6, <1>7

(* One step of LeastDestructive.                                           *)
Sparing ==
  \A i \in Entries : Recycled(i) =>
    /\ \A j \in Entries : arp_table[j].state # "EMPTY"
    /\ arp_table[i].q => \A j \in Entries : arp_table[j].q
    /\ arp_table[i].state \in Stable =>
         \A j \in Entries : arp_table[j].state \in Stable =>
           arp_table[j].ctime <= arp_table[i].ctime

(* Putting an entry in the place found for its address spares the rest.    *)
LEMMA PutSparing ==
  ASSUME TableTypes, TableSound, NEW a, NEW f \in ArpEntry, f.ip = a,
         arp_table' = [arp_table EXCEPT ![etharp_find_entry(a)] = f]
  PROVE  Sparing
<1> DEFINE k == etharp_find_entry(a)
<1>0. \A i \in Entries : arp_table'[i] = IF i = k THEN f ELSE arp_table[i]
  BY DEF TableTypes
<1> HIDE DEF k
<1> SUFFICES ASSUME NEW i \in Entries, Recycled(i)
             PROVE  /\ \A j \in Entries : arp_table[j].state # "EMPTY"
                    /\ arp_table[i].q => \A j \in Entries : arp_table[j].q
                    /\ arp_table[i].state \in Stable =>
                         \A j \in Entries : arp_table[j].state \in Stable =>
                           arp_table[j].ctime <= arp_table[i].ctime
  BY DEF Sparing
<1>1. i = k /\ arp_table[k].state # "EMPTY" /\ arp_table[k].ip # a
  BY <1>0 DEF Recycled
<1>2. Matching(a) = {}
  <2> SUFFICES ASSUME Matching(a) # {} PROVE FALSE
    OBVIOUS
  <2>1. k \in Matching(a)
    BY FindMatching DEF k
  <2> QED
    BY <1>1, <2>1 DEF Matching
<1> QED
  BY <1>1, <1>2, FindOther DEF k

(* A table that stays as it is.                                            *)
LEMMA SameSparing ==
  ASSUME UNCHANGED arp_table
  PROVE  Sparing
BY DEF Sparing, Recycled

(* Recycling is least destructive (etharp.c:355), for any number of hosts  *)
(* and entries.                                                            *)
THEOREM RecyclingSpares == Spec => LeastDestructive
<1>1. ASSUME Inv, [Next]_vars PROVE Sparing
  <2> USE <1>1
  <2>1. CASE Tick
    BY <2>1, SameSparing DEF Tick
  <2>2. ASSUME NEW m \in Msg, Post(m) PROVE Sparing
    BY <2>2, SameSparing DEF Post
  <2>3. CASE (Fetch \/ OSQPend \/ Got) /\ UNCHANGED arp_table
    BY <2>3, SameSparing
  <2>4. ASSUME NEW a \in Addr, Send(a) PROVE Sparing
    BY <2>4, OutputTable, PutSparing DEF Send, Inv
  <2>5. ASSUME NEW a \in Addr, NEW for_us \in BOOLEAN, ArpInput(a, for_us) PROVE Sparing
    BY <2>5, UpdateTable, PutSparing, SameSparing DEF ArpInput, Inv
  <2>6. CASE ip_reass_timer
    BY <2>6, SameSparing DEF ip_reass_timer
  <2>7. CASE arp_timer
    <3>1. \A i \in Entries : /\ arp_table'[i] = Aged(arp_table[i])
                             /\ arp_table[i] \in ArpEntry /\ QueueSound(arp_table[i])
      BY <2>7 DEF arp_timer, Inv, TableTypes, TableSound, QueueSound
    <3>2. \A i \in Entries : ~Recycled(i)
      BY <3>1, AgedEntry DEF Recycled
    <3> QED
      BY <3>2 DEF Sparing
  <2>8. CASE UNCHANGED vars
    BY <2>8, SameSparing DEF vars
  <2> QED
    BY <2>1, <2>2, <2>3, <2>4, <2>5, <2>6, <2>7, <2>8 DEF Next, tcpip_thread
<1>2. Inv /\ [Next]_vars => [Sparing]_vars
  BY <1>1
<1> QED
  BY <1>2, InvCorrect, PTL DEF Spec, LeastDestructive, Sparing
=============================================================================
