------------------------------ MODULE BootProofs ------------------------------
(***************************************************************************)
(* Proofs about the memory pools and about starting the camera, for pools, *)
(* blocks and buffers of any size.                                         *)
(***************************************************************************)
EXTENDS Boot, TLAPS

MemTypes ==
  /\ memtblsize \in Tables
  /\ DOMAIN memmap = Banks
  /\ \A b \in Banks : memmap[b] \in [0..memtblsize[b]-1 -> Nat]
  /\ live \subseteq [bank : Banks, off : Nat, n : Nat]

MemInv == MemTypes /\ PoolSound

Pointers == [Names -> Nat \cup {NULL}]

(* Where main is in its loops.                                             *)
CtrlInv ==
  /\ pc \in {"para", "net", "nettest", "netfree", "stk", "stkfree", "lan", "up"}
  /\ k \in CASE pc \in {"net", "netfree"} -> 1..Len(Nets)
             [] pc \in {"stk", "stkfree"} -> 1..Len(Stks)
             [] OTHER -> {1}
  /\ netres \in 0..1 /\ (pc = "netfree" => netres = 1)
  /\ retry \in 0..RETRIES /\ link \in BOOLEAN
  /\ ptr \in Pointers

(* The buffers whose pointers are up to date: those of netmem_malloc that  *)
(* were asked for and not given back, and likewise the stacks.             *)
NetsAt ==
  CASE pc = "net" -> 1..k-1
    [] pc = "netfree" -> k..Len(Nets)
    [] pc = "nettest" \/ (pc \in {"stk", "stkfree", "lan", "up"} /\ netres = 0) -> 1..Len(Nets)
    [] OTHER -> {}
StksAt ==
  CASE pc = "stk" -> 1..k-1
    [] pc = "stkfree" -> k..Len(Stks)
    [] pc \in {"lan", "up"} -> 1..Len(Stks)
    [] OTHER -> {}
Mine == {Nets[j] : j \in NetsAt} \cup {Stks[j] : j \in StksAt}

(* Each of them has its allocation or none, and no two have the same one.  *)
Owns(S) ==
  /\ \A a \in S : ptr[a.name] = NULL \/ Held(a)
  /\ \A a, c \in S : a # c /\ a.bank = c.bank /\ ptr[a.name] # NULL => ptr[a.name] # ptr[c.name]
OwnInv == Owns(Mine)

(* The buffers that were tested and found.                                 *)
FoundInv ==
  /\ pc \in {"stk", "stkfree", "lan", "up"} /\ netres = 0 =>
       \A a \in Elems(Nets) : a.name \notin Unchecked => ptr[a.name] # NULL
  /\ pc \in {"lan", "up"} => \A a \in Elems(Stks) : ptr[a.name] # NULL

Inv == MemInv /\ CtrlInv /\ OwnInv /\ FoundInv

-----------------------------------------------------------------------------
(* A buffer that is not empty needs at least one block.                    *)
LEMMA Blocks ==
  ASSUME NEW size \in Nat
  PROVE  nmemb(size) \in Nat /\ (size # 0 => nmemb(size) > 0)
<1>1. memblksize \in Nat \ {0}
  BY MallocAssumption
<1>2. size \div memblksize \in Nat /\ size % memblksize \in Nat
  BY <1>1
<1>3. size < memblksize => size % memblksize = size
  BY <1>1
<1>4. size >= memblksize => size \div memblksize > 0
  BY <1>1
<1> QED
  BY <1>1, <1>2, <1>3, <1>4 DEF nmemb

(* The tables are functions on the blocks of their banks.                  *)
LEMMA TableLength ==
  ASSUME MemTypes, NEW b \in Banks
  PROVE  memtblsize[b] \in Nat
BY MallocAssumption DEF MemTypes

(* Table f differs from memmap in n blocks of bank b, in which it holds v. *)
Differs(f, b, off, n, v) ==
  /\ DOMAIN f = Banks
  /\ \A c \in Banks : f[c] \in [0..memtblsize[c]-1 -> Nat]
  /\ \A c \in Banks : \A o \in 0..memtblsize[c]-1 :
       f[c][o] = IF c = b /\ o >= off /\ o < off + n THEN v ELSE memmap[c][o]

(* Filled changes a run of blocks of one pool and nothing else.            *)
LEMMA FilledIs ==
  ASSUME MemTypes, NEW b \in Banks, NEW off \in Nat, NEW n \in Nat, NEW v \in Nat,
         NEW f, f = Filled(b, off, n, v)
  PROVE  Differs(f, b, off, n, v)
<1> DEFINE g == [o \in DOMAIN memmap[b] |-> IF o >= off /\ o < off + n THEN v ELSE memmap[b][o]]
<1>1. f = [memmap EXCEPT ![b] = g]
  BY DEF Filled
<1>2. DOMAIN memmap = Banks /\ memmap[b] \in [0..memtblsize[b]-1 -> Nat]
      /\ \A c \in Banks : memmap[c] \in [0..memtblsize[c]-1 -> Nat]
  BY DEF MemTypes
<1>3. g \in [0..memtblsize[b]-1 -> Nat]
      /\ \A o \in 0..memtblsize[b]-1 : g[o] = IF o >= off /\ o < off + n THEN v ELSE memmap[b][o]
  BY <1>2
<1> HIDE DEF g
<1>4. DOMAIN f = Banks /\ \A c \in Banks : f[c] = IF c = b THEN g ELSE memmap[c]
  BY <1>1, <1>2
<1>5. \A c \in Banks : f[c] \in [0..memtblsize[c]-1 -> Nat]
  BY <1>2, <1>3, <1>4
<1>6. \A c \in Banks : \A o \in 0..memtblsize[c]-1 :
        f[c][o] = IF c = b /\ o >= off /\ o < off + n THEN v ELSE memmap[c][o]
  BY <1>2, <1>3, <1>4
<1> QED
  BY <1>4, <1>5, <1>6 DEF Differs

(* The types of an allocation and what PoolSound says of it.               *)
LEMMA LiveIs ==
  ASSUME MemInv, NEW a \in live
  PROVE  /\ a.bank \in Banks /\ a.off \in Nat /\ a.n \in Nat /\ a.n > 0
         /\ a.off + a.n <= memtblsize[a.bank] /\ memtblsize[a.bank] \in Nat
         /\ \A o \in 0..memtblsize[a.bank]-1 :
              a.off <= o /\ o < a.off + a.n => memmap[a.bank][o] = a.n
<1>1. a.bank \in Banks /\ a.off \in Nat /\ a.n \in Nat
  BY DEF MemInv, MemTypes
<1>2. memtblsize[a.bank] \in Nat
  BY <1>1, TableLength DEF MemInv
<1> QED
  BY <1>1, <1>2 DEF MemInv, PoolSound, InPool, MarksOwn, Covers

(* Pools that are left alone stay sound.                                   *)
LEMMA MemSame ==
  ASSUME MemInv, UNCHANGED memVars
  PROVE  MemInv'
BY DEF MemInv, MemTypes, PoolSound, InPool, MarksOwn, MarkedIsLive, Disjoint, Covers, memVars

(* mymalloc keeps the pools sound, takes nothing from anybody, and returns *)
(* NULL or an allocation that begins where no other one does.              *)
LEMMA Malloc ==
  ASSUME MemInv, NEW b \in Banks, NEW size \in Nat, NEW p, mymalloc(b, size, p)
  PROVE  /\ MemInv' /\ live \subseteq live'
         /\ \/ p = NULL
            \/ /\ p \in Nat /\ [bank |-> b, off |-> p, n |-> nmemb(size)] \in live'
               /\ \A a \in live : a.bank = b => a.off # p
<1> DEFINE n == nmemb(size)
           new == [bank |-> b, off |-> p, n |-> n]
<1>1. CASE size = 0 \/ Room(b, n) = {}
  <2>1. p = NULL /\ UNCHANGED memVars
    BY <1>1 DEF mymalloc, memVars
  <2>2. live' = live
    BY <2>1 DEF memVars
  <2> QED
    BY <2>1, <2>2, MemSame
<1>2. CASE ~(size = 0 \/ Room(b, n) = {})
  <2>1. /\ p \in Room(b, n) /\ memmap' = Filled(b, p, n, n) /\ live' = live \cup {new}
        /\ memtblsize' = memtblsize
    BY <1>2 DEF mymalloc
  <2>2. n \in Nat /\ n > 0
    BY <1>2, Blocks
  <2>3. memtblsize[b] \in Nat /\ memtblsize \in Tables
    BY TableLength DEF MemInv, MemTypes
  <2> HIDE DEF n
  <2>4. p \in 0..memtblsize[b]-1 /\ p + n <= memtblsize[b] /\ \A i \in 0..n-1 : memmap[b][p + i] = 0
    BY <2>1 DEF Room
  <2>5. p \in Nat
    BY <2>3, <2>4
  <2>6. \A o \in 0..memtblsize[b]-1 : p <= o /\ o < p + n => memmap[b][o] = 0
    <3> SUFFICES ASSUME NEW o \in 0..memtblsize[b]-1, p <= o, o < p + n PROVE memmap[b][o] = 0
      OBVIOUS
    <3>1. o - p \in 0..n-1 /\ p + (o - p) = o
      BY <2>2, <2>3, <2>5
    <3> QED
      BY <2>4, <3>1
  <2>7. \A c \in Banks : \A o \in 0..memtblsize[c]-1 :
          memmap'[c][o] = IF c = b /\ o >= p /\ o < p + n THEN n ELSE memmap[c][o]
    <3>1. Differs(memmap', b, p, n, n)
      BY <2>1, <2>2, <2>5, FilledIs DEF MemInv
    <3> QED
      BY <3>1 DEF Differs
  <2>8. MemTypes'
    <3>1. DOMAIN memmap' = Banks /\ \A c \in Banks : memmap'[c] \in [0..memtblsize'[c]-1 -> Nat]
      BY <2>1, <2>2, <2>5, FilledIs DEF MemInv, Differs
    <3>2. new \in [bank : Banks, off : Nat, n : Nat]
      BY <2>2, <2>5
    <3> QED
      BY <2>1, <2>3, <3>1, <3>2 DEF MemInv, MemTypes
  <2>9. \A a \in live : \A o \in 0..memtblsize[b]-1 :
          a.bank = b /\ a.off <= o /\ o < a.off + a.n => ~(p <= o /\ o < p + n)
    <3> SUFFICES ASSUME NEW a \in live, NEW o \in 0..memtblsize[b]-1,
                        a.bank = b, a.off <= o, o < a.off + a.n, p <= o, o < p + n
                 PROVE  FALSE
      OBVIOUS
    <3>1. memmap[b][o] = a.n /\ a.n > 0 /\ a.n \in Nat
      BY LiveIs
    <3>2. memmap[b][o] = 0
      BY <2>6
    <3> QED
      BY <3>1, <3>2
  <2>10. \A a \in live' : InPool(a)' /\ MarksOwn(a)'
    <3>1. ASSUME NEW a \in live PROVE InPool(a)' /\ MarksOwn(a)'
      <4>1. /\ a.bank \in Banks /\ a.off \in Nat /\ a.n \in Nat /\ a.n > 0
            /\ a.off + a.n <= memtblsize[a.bank]
            /\ \A o \in 0..memtblsize[a.bank]-1 :
                 a.off <= o /\ o < a.off + a.n => memmap[a.bank][o] = a.n
        BY LiveIs
      <4>2. ASSUME NEW o \in 0..memtblsize[a.bank]-1, a.off <= o, o < a.off + a.n
            PROVE  memmap'[a.bank][o] = a.n
        BY <2>7, <2>9, <4>1, <4>2
      <4> QED
        BY <2>1, <4>1, <4>2 DEF InPool, MarksOwn, Covers
    <3>2. InPool(new)' /\ MarksOwn(new)'
      <4>1. new.bank = b /\ new.off = p /\ new.n = n
        OBVIOUS
      <4>2. ASSUME NEW o \in 0..memtblsize[b]-1, p <= o, o < p + n
            PROVE  memmap'[b][o] = n
        BY <2>2, <2>3, <2>5, <2>7, <4>2
      <4> HIDE DEF new
      <4> QED
        BY <2>1, <2>2, <2>4, <4>1, <4>2 DEF InPool, MarksOwn, Covers
    <3> QED
      BY <2>1, <3>1, <3>2
  <2>11. MarkedIsLive'
    <3> SUFFICES ASSUME NEW c \in Banks, NEW o \in 0..memtblsize'[c]-1, memmap'[c][o] # 0
                 PROVE  \E a \in live' : Covers(a, c, o)
      BY DEF MarkedIsLive, Covers
    <3>1. CASE c = b /\ o >= p /\ o < p + n
      <4>1. Covers(new, c, o)
        BY <2>3, <2>5, <3>1, <2>1 DEF Covers
      <4> QED
        BY <2>1, <4>1
    <3>2. CASE ~(c = b /\ o >= p /\ o < p + n)
      <4>1. memmap[c][o] # 0
        BY <2>1, <2>7, <3>2
      <4> QED
        BY <2>1, <4>1 DEF MemInv, PoolSound, MarkedIsLive
    <3> QED
      BY <3>1, <3>2
  <2>12. Disjoint'
    <3> SUFFICES ASSUME NEW a1 \in live', NEW a2 \in live', NEW o \in 0..memtblsize[a1.bank]-1,
                        Covers(a1, a1.bank, o), Covers(a2, a1.bank, o)
                 PROVE  a1 = a2
      BY <2>1 DEF Disjoint, Covers
    <3>1. new.bank = b /\ new.off = p /\ new.n = n
      OBVIOUS
    <3> HIDE DEF new
    <3>2. CASE a1 \in live /\ a2 \in live
      BY <3>2 DEF MemInv, PoolSound, Disjoint
    <3>3. CASE a1 = new /\ a2 \in live
      BY <2>9, <3>1, <3>3 DEF Covers
    <3>4. CASE a1 \in live /\ a2 = new
      BY <2>9, <3>1, <3>4 DEF Covers
    <3> QED
      BY <2>1, <3>2, <3>3, <3>4
  <2>13. MemInv'
    BY <2>8, <2>10, <2>11, <2>12 DEF MemInv, PoolSound
  <2>14. ASSUME NEW a \in live, a.bank = b PROVE a.off # p
    <3>1. a.off \in Nat /\ a.n \in Nat /\ a.n > 0 /\ a.off \in 0..memtblsize[b]-1
      BY <2>14, LiveIs
    <3> QED
      BY <2>2, <2>5, <2>9, <2>14, <3>1
  <2> QED
    BY <2>1, <2>5, <2>13, <2>14 DEF n
<1> QED
  BY <1>1, <1>2

(* myfree with the pointer of an allocation takes back just that one.      *)
LEMMA Free ==
  ASSUME MemInv, NEW b \in Banks, NEW p \in Nat, NEW n,
         [bank |-> b, off |-> p, n |-> n] \in live, myfree(b, p)
  PROVE  MemInv' /\ live' = live \ {[bank |-> b, off |-> p, n |-> n]}
<1> DEFINE a0 == [bank |-> b, off |-> p, n |-> n]
<1>1. a0 \in live /\ a0.bank = b /\ a0.off = p /\ a0.n = n
  OBVIOUS
<1> HIDE DEF a0
<1>2. /\ n \in Nat /\ n > 0 /\ p + n <= memtblsize[b] /\ memtblsize[b] \in Nat
      /\ \A o \in 0..memtblsize[b]-1 : p <= o /\ o < p + n => memmap[b][o] = n
  BY <1>1, LiveIs
<1>3. memmap[b][p] = n
  BY <1>2
<1>4. p # NULL
  BY MallocAssumption
<1>5. /\ memmap' = Filled(b, p, n, 0) /\ live' = live \ {a0} /\ memtblsize' = memtblsize
  BY <1>3, <1>4 DEF myfree, a0
<1>6. memtblsize \in Tables
  BY DEF MemInv, MemTypes
<1>7. \A c \in Banks : \A o \in 0..memtblsize[c]-1 :
        memmap'[c][o] = IF c = b /\ o >= p /\ o < p + n THEN 0 ELSE memmap[c][o]
  <2>1. Differs(memmap', b, p, n, 0)
    BY <1>2, <1>5, FilledIs DEF MemInv
  <2> QED
    BY <2>1 DEF Differs
<1>8. MemTypes'
  <2>1. DOMAIN memmap' = Banks /\ \A c \in Banks : memmap'[c] \in [0..memtblsize'[c]-1 -> Nat]
    BY <1>2, <1>5, FilledIs DEF MemInv, Differs
  <2> QED
    BY <1>5, <1>6, <2>1 DEF MemInv, MemTypes
<1>9. \A a \in live' : \A o \in 0..memtblsize[a.bank]-1 :
        Covers(a, a.bank, o) => ~(a.bank = b /\ o >= p /\ o < p + n)
  <2> SUFFICES ASSUME NEW a \in live, a # a0, NEW o \in 0..memtblsize[a.bank]-1,
                      Covers(a, a.bank, o), a.bank = b, o >= p, o < p + n
               PROVE  FALSE
    BY <1>5
  <2>1. Covers(a0, a.bank, o)
    BY <1>1, <1>2 DEF Covers
  <2> QED
    BY <1>1, <2>1 DEF MemInv, PoolSound, Disjoint
<1>10. ASSUME NEW a \in live' PROVE InPool(a)' /\ MarksOwn(a)'
  <2>1. /\ a \in live /\ a.bank \in Banks /\ a.n \in Nat /\ a.n > 0
        /\ a.off + a.n <= memtblsize[a.bank]
        /\ \A o \in 0..memtblsize[a.bank]-1 : Covers(a, a.bank, o) => memmap[a.bank][o] = a.n
    BY <1>5, <1>10, LiveIs DEF Covers
  <2>2. ASSUME NEW o \in 0..memtblsize[a.bank]-1, Covers(a, a.bank, o)
        PROVE  memmap'[a.bank][o] = a.n
    BY <1>7, <1>9, <1>10, <2>1, <2>2
  <2> QED
    BY <1>5, <2>1, <2>2 DEF InPool, MarksOwn, Covers
<1>11. MarkedIsLive'
  <2> SUFFICES ASSUME NEW c \in Banks, NEW o \in 0..memtblsize[c]-1, memmap'[c][o] # 0
               PROVE  \E a \in live' : Covers(a, c, o)
    BY <1>5 DEF MarkedIsLive, Covers
  <2>1. ~(c = b /\ o >= p /\ o < p + n) /\ memmap[c][o] # 0
    BY <1>7
  <2>2. PICK a \in live : Covers(a, c, o)
    BY <2>1 DEF MemInv, PoolSound, MarkedIsLive
  <2>3. a # a0
    BY <1>1, <1>2, <2>1, <2>2 DEF Covers
  <2> QED
    BY <1>5, <2>2, <2>3
<1>12. Disjoint'
  BY <1>5 DEF MemInv, PoolSound, Disjoint, Covers
<1>13. MemInv'
  BY <1>8, <1>10, <1>11, <1>12 DEF MemInv, PoolSound
<1> QED
  BY <1>5, <1>13 DEF a0

-----------------------------------------------------------------------------
(* Each buffer has a bank, a size and a pointer.                           *)
LEMMA BufIs ==
  ASSUME NEW a \in Bufs
  PROVE  a.bank \in Banks /\ a.size \in Nat /\ a.name \in Names
BY BootAssumption DEF Names

(* Allocating one more buffer.                                             *)
LEMMA AllocOwn ==
  ASSUME MemInv, ptr \in Pointers, NEW a \in Bufs, AllocBuf(a),
         NEW S, S \subseteq Bufs, Owns(S), \A c \in S : c.name # a.name
  PROVE  /\ MemInv' /\ ptr' \in Pointers /\ Owns(S \cup {a})'
         /\ \A c \in Bufs : c.name # a.name => ptr'[c.name] = ptr[c.name]
<1>1. a.bank \in Banks /\ a.size \in Nat /\ a.name \in Names
  BY BufIs
<1>2. PICK p : mymalloc(a.bank, a.size, p) /\ ptr' = [ptr EXCEPT ![a.name] = p]
  BY DEF AllocBuf
<1>3. /\ MemInv' /\ live \subseteq live'
      /\ \/ p = NULL
         \/ /\ p \in Nat /\ [bank |-> a.bank, off |-> p, n |-> nmemb(a.size)] \in live'
            /\ \A x \in live : x.bank = a.bank => x.off # p
  BY <1>1, <1>2, Malloc
<1>4. ptr' \in Pointers
  BY <1>1, <1>2, <1>3 DEF Pointers
<1>5. ptr'[a.name] = p
  BY <1>1, <1>2 DEF Pointers
<1>6. \A c \in Bufs : c.name # a.name => ptr'[c.name] = ptr[c.name]
  BY <1>2, BufIs DEF Pointers
<1>7. ASSUME NEW c \in S PROVE ptr'[c.name] = ptr[c.name] /\ (ptr[c.name] = NULL \/ Held(c)')
  <2>1. ptr'[c.name] = ptr[c.name]
    BY <1>6, <1>7
  <2> QED
    BY <1>3, <1>7, <2>1 DEF Owns, Held
<1>8. ptr'[a.name] = NULL \/ Held(a)'
  BY <1>3, <1>5 DEF Held
<1>9. ASSUME NEW c \in S, c.bank = a.bank, ptr[c.name] # NULL PROVE ptr[c.name] # p
  <2> DEFINE x == [bank |-> c.bank, off |-> ptr[c.name], n |-> nmemb(c.size)]
  <2>1. x \in live
    BY <1>9 DEF Owns, Held
  <2>2. x.bank = a.bank /\ x.off = ptr[c.name]
    BY <1>9
  <2> HIDE DEF x
  <2>3. p # NULL => \A y \in live : y.bank = a.bank => y.off # p
    BY <1>3
  <2> QED
    BY <1>9, <2>1, <2>2, <2>3
<1>10. \A c \in S \cup {a} : ptr'[c.name] = NULL \/ Held(c)'
  BY <1>7, <1>8
<1>11. ASSUME NEW c \in S \cup {a}, NEW d \in S \cup {a}, c # d, c.bank = d.bank, ptr'[c.name] # NULL
       PROVE  ptr'[c.name] # ptr'[d.name]
  <2>1. CASE c \in S /\ d \in S
    BY <1>7, <1>11, <2>1 DEF Owns
  <2>2. CASE c \in S /\ d = a
    BY <1>5, <1>7, <1>9, <1>11, <2>2
  <2>3. CASE c = a /\ d \in S
    BY <1>5, <1>7, <1>9, <1>11, <2>3
  <2> QED
    BY <1>11, <2>1, <2>2, <2>3
<1> QED
  BY <1>3, <1>4, <1>6, <1>10, <1>11 DEF Owns, Held

(* Giving one buffer back.                                                 *)
LEMMA FreeOwn ==
  ASSUME MemInv, ptr \in Pointers, NEW S, S \subseteq Bufs, Owns(S), NEW a \in S, FreeBuf(a)
  PROVE  MemInv' /\ ptr' = ptr /\ Owns(S \ {a})'
<1>1. a.bank \in Banks /\ a.size \in Nat /\ a.name \in Names /\ ptr[a.name] \in Nat \cup {NULL}
  BY BufIs DEF Pointers
<1>2. myfree(a.bank, ptr[a.name]) /\ ptr' = ptr
  BY DEF FreeBuf
<1>3. CASE ptr[a.name] = NULL
  <2>1. UNCHANGED memVars
    BY <1>2, <1>3 DEF myfree, memVars
  <2>2. Owns(S \ {a})'
    BY <1>2, <2>1 DEF Owns, Held, memVars
  <2> QED
    BY <1>2, <2>1, <2>2, MemSame
<1>4. CASE ptr[a.name] # NULL
  <2> DEFINE Rec(c) == [bank |-> c.bank, off |-> ptr[c.name], n |-> nmemb(c.size)]
  <2>1. ptr[a.name] \in Nat /\ Rec(a) \in live
    BY <1>1, <1>4 DEF Owns, Held
  <2>2. MemInv' /\ live' = live \ {Rec(a)}
    BY <1>1, <1>2, <2>1, Free
  <2>3. ASSUME NEW c \in S \ {a}, ptr[c.name] # NULL PROVE Rec(c) \in live'
    <3>1. Rec(c) \in live
      BY <2>3 DEF Owns, Held
    <3>2. ~(c.bank = a.bank /\ ptr[c.name] = ptr[a.name])
      BY <2>3 DEF Owns
    <3>3. Rec(c).bank = c.bank /\ Rec(c).off = ptr[c.name]
          /\ Rec(a).bank = a.bank /\ Rec(a).off = ptr[a.name]
      OBVIOUS
    <3>4. Rec(c) # Rec(a)
      BY <3>2, <3>3
    <3> QED
      BY <2>2, <3>1, <3>4
  <2>4. \A c \in S \ {a} : ptr'[c.name] = NULL \/ Held(c)'
    BY <1>2, <2>3 DEF Held
  <2>5. \A c, d \in S \ {a} : c # d /\ c.bank = d.bank /\ ptr'[c.name] # NULL
                                => ptr'[c.name] # ptr'[d.name]
    BY <1>2 DEF Owns
  <2> QED
    BY <1>2, <2>2, <2>4, <2>5 DEF Owns, Held
<1> QED
  BY <1>3, <1>4

(* Nothing is lost when memory and pointers are left alone, or when fewer  *)
(* buffers are asked for.                                                  *)
LEMMA OwnSame ==
  ASSUME UNCHANGED <<memVars, ptr>>, NEW S, Owns(S)
  PROVE  Owns(S)'
BY DEF Owns, Held, memVars

(* What holds for the pointers of some buffers holds for fewer of them.    *)
LEMMA OwnFewer ==
  ASSUME NEW S, NEW T, T \subseteq S, Owns(S)'
  PROVE  Owns(T)'
BY DEF Owns, Held

(* What BootAssumption says of the two sequences of buffers.               *)
LEMMA Buffers ==
  /\ Len(Nets) \in Nat \ {0} /\ DOMAIN Nets = 1..Len(Nets)
  /\ Len(Stks) \in Nat \ {0} /\ DOMAIN Stks = 1..Len(Stks)
  /\ \A j \in 1..Len(Nets) : Nets[j] \in Bufs /\ Nets[j] \in Elems(Nets)
  /\ \A j \in 1..Len(Stks) : Stks[j] \in Bufs /\ Stks[j] \in Elems(Stks)
  /\ \A i, j \in 1..Len(Nets) : i # j => Nets[i].name # Nets[j].name
  /\ \A i, j \in 1..Len(Stks) : i # j => Stks[i].name # Stks[j].name
  /\ \A i \in 1..Len(Nets), j \in 1..Len(Stks) : Nets[i].name # Stks[j].name
<1>1. /\ Len(Nets) \in Nat \ {0} /\ DOMAIN Nets = 1..Len(Nets)
      /\ Len(Stks) \in Nat \ {0} /\ DOMAIN Stks = 1..Len(Stks)
  BY BootAssumption
<1>2. \A j \in 1..Len(Nets) : Nets[j] \in Bufs /\ Nets[j] \in Elems(Nets)
  BY <1>1 DEF Bufs, Elems
<1>3. \A j \in 1..Len(Stks) : Stks[j] \in Bufs /\ Stks[j] \in Elems(Stks)
  BY <1>1 DEF Bufs, Elems
<1>4. \A i, j \in 1..Len(Nets) : i # j => Nets[i].name # Nets[j].name
  BY <1>1, BootAssumption
<1>5. \A i, j \in 1..Len(Stks) : i # j => Stks[i].name # Stks[j].name
  BY <1>1, BootAssumption
<1> QED
  BY <1>1, <1>2, <1>3, <1>4, <1>5, BootAssumption

(* The indices are indices.                                                *)
LEMMA AtTypes ==
  ASSUME CtrlInv
  PROVE  NetsAt \subseteq 1..Len(Nets) /\ StksAt \subseteq 1..Len(Stks) /\ Mine \subseteq Bufs
<1>1. NetsAt \subseteq 1..Len(Nets)
  BY Buffers DEF NetsAt, CtrlInv
<1>2. StksAt \subseteq 1..Len(Stks)
  BY Buffers DEF StksAt, CtrlInv
<1> QED
  BY <1>1, <1>2, Buffers DEF Mine

(* Init.                                                                   *)
LEMMA InvInit == Init => Inv
<1> SUFFICES ASSUME Init PROVE Inv
  OBVIOUS
<1>1. pc = "para" /\ k = 1 /\ netres = 0 /\ retry = 0 /\ live = {} /\ memtblsize \in Tables
      /\ memmap = [b \in Banks |-> [o \in 0..memtblsize[b]-1 |-> 0]]
  BY DEF Init, my_mem_init
<1>2. MemInv
  BY <1>1 DEF MemInv, MemTypes, PoolSound, MarkedIsLive, Disjoint
<1>3. CtrlInv
  <2>1. ptr \in Pointers
    BY DEF Init, Pointers
  <2>2. link \in BOOLEAN
    BY DEF Init
  <2>3. netres \in 0..1 /\ retry \in 0..RETRIES
    BY <1>1, BootAssumption
  <2> QED
    BY <1>1, <2>1, <2>2, <2>3 DEF CtrlInv
<1>4. Mine = {}
  BY <1>1 DEF Mine, NetsAt, StksAt
<1> QED
  BY <1>1, <1>2, <1>3, <1>4 DEF Inv, OwnInv, Owns, FoundInv

(* The packet of parameters is allocated first.                            *)
LEMMA ParaStep ==
  ASSUME Inv, InitCamParaPacket
  PROVE  Inv'
<1>1. pc = "para" /\ pc' = "net" /\ k = 1 /\ k' = 1 /\ UNCHANGED <<netres, retry, link>>
  BY DEF Inv, CtrlInv, InitCamParaPacket
<1>2. MemInv' /\ ptr' \in Pointers
  <2>1. CASE AllocBuf(Para)
    <3>1. Owns({}) /\ Para \in Bufs
      BY DEF Owns, Bufs
    <3> QED
      BY <2>1, <3>1, AllocOwn DEF Inv, CtrlInv
  <2>2. CASE UNCHANGED <<memVars, ptr>>
    BY <2>2, MemSame DEF Inv, CtrlInv
  <2> QED
    BY <2>1, <2>2 DEF InitCamParaPacket
<1>3. CtrlInv'
  BY <1>1, <1>2, Buffers DEF Inv, CtrlInv
<1>4. Mine' = {}
  BY <1>1 DEF Mine, NetsAt, StksAt
<1> QED
  BY <1>1, <1>2, <1>3, <1>4 DEF Inv, OwnInv, Owns, FoundInv

(* One more buffer of the camera is allocated, or its pointer is NULL.     *)
LEMMA NetMallocStep ==
  ASSUME Inv, netmem_malloc
  PROVE  Inv'
<1>1. /\ pc = "net" /\ k \in 1..Len(Nets) /\ UNCHANGED <<netres, retry, link>>
      /\ AllocBuf(Nets[k])
      /\ \/ k < Len(Nets) /\ k' = k + 1 /\ pc' = "net"
         \/ ~(k < Len(Nets)) /\ k' = 1 /\ pc' = "nettest"
  BY DEF Inv, CtrlInv, netmem_malloc, Loop
<1>2. PICK S, a : S = Mine /\ a = Nets[k]
  OBVIOUS
<1>3. S \subseteq Bufs /\ Owns(S) /\ S = {Nets[j] : j \in 1..k-1}
  BY <1>1, <1>2, AtTypes DEF Inv, OwnInv, Mine, NetsAt, StksAt
<1>4. \A c \in S : c.name # a.name
  BY <1>1, <1>2, <1>3, Buffers
<1>5. MemInv' /\ ptr' \in Pointers /\ Owns(S \cup {a})'
  BY <1>1, <1>2, <1>3, <1>4, Buffers, AllocOwn DEF Inv, CtrlInv
<1>6. Mine' \subseteq S \cup {a}
  <2>1. NetsAt' \subseteq 1..k /\ StksAt' = {}
    BY <1>1, <1>2, Buffers DEF NetsAt, StksAt
  <2>2. \A j \in 1..k : j = k \/ j \in 1..k-1
    BY <1>1, <1>2, Buffers
  <2> QED
    BY <1>2, <1>3, <2>1, <2>2 DEF Mine
<1>7. CtrlInv'
  BY <1>1, <1>2, <1>5, Buffers DEF Inv, CtrlInv
<1>8. OwnInv'
  BY <1>5, <1>6, OwnFewer DEF OwnInv
<1>9. FoundInv'
  BY <1>1 DEF FoundInv
<1> QED
  BY <1>5, <1>7, <1>8, <1>9 DEF Inv

(* The pointers are tested: every buffer that is tested was found, or all  *)
(* are given back.                                                         *)
LEMMA NetTestStep ==
  ASSUME Inv, netmem_test
  PROVE  Inv'
<1> DEFINE failed == \E a \in Elems(Nets) : a.name \notin Unchecked /\ ptr[a.name] = NULL
<1>1. /\ pc = "nettest" /\ k = 1 /\ UNCHANGED <<memVars, ptr, k, retry, link>>
      /\ \/ failed /\ pc' = "netfree" /\ netres' = 1
         \/ ~failed /\ pc' = "stk" /\ netres' = 0
  BY DEF Inv, CtrlInv, netmem_test
<1>2. PICK S : S = Mine
  OBVIOUS
<1>3. Mine' \subseteq S
  <2>1. NetsAt' \subseteq 1..Len(Nets) /\ StksAt' = {} /\ NetsAt = 1..Len(Nets)
    BY <1>1 DEF NetsAt, StksAt
  <2> QED
    BY <1>2, <2>1 DEF Mine
<1>4. OwnInv'
  <2>1. Owns(S)'
    BY <1>1, <1>2, OwnSame DEF Inv, OwnInv
  <2> QED
    BY <1>3, <2>1, OwnFewer DEF OwnInv
<1>5. CtrlInv'
  <2>1. k' \in 1..Len(Nets) /\ k' \in 1..Len(Stks)
    BY <1>1, Buffers
  <2>2. ptr' \in Pointers /\ retry' \in 0..RETRIES /\ link' \in BOOLEAN
    BY <1>1 DEF Inv, CtrlInv
  <2> QED
    BY <1>1, <2>1, <2>2 DEF CtrlInv
<1>6. FoundInv'
  BY <1>1 DEF FoundInv
<1> QED
  BY <1>1, <1>4, <1>5, <1>6, MemSame DEF Inv

(* One more buffer is given back.                                          *)
LEMMA NetFreeStep ==
  ASSUME Inv, netmem_free
  PROVE  Inv'
<1>1. /\ pc = "netfree" /\ k \in 1..Len(Nets) /\ netres = 1 /\ UNCHANGED <<netres, retry, link>>
      /\ FreeBuf(Nets[k])
      /\ \/ k < Len(Nets) /\ k' = k + 1 /\ pc' = "netfree"
         \/ ~(k < Len(Nets)) /\ k' = 1 /\ pc' = "stk"
  BY DEF Inv, CtrlInv, netmem_free, Loop
<1>2. PICK S, a : S = Mine /\ a = Nets[k]
  OBVIOUS
<1>3. S \subseteq Bufs /\ Owns(S) /\ S = {Nets[j] : j \in k..Len(Nets)}
  BY <1>1, <1>2, AtTypes DEF Inv, OwnInv, Mine, NetsAt, StksAt
<1>4. a \in S
  BY <1>1, <1>2, <1>3, Buffers
<1>5. MemInv' /\ ptr' = ptr /\ Owns(S \ {a})'
  BY <1>1, <1>2, <1>3, <1>4, FreeOwn DEF Inv, CtrlInv
<1>6. Mine' \subseteq S \ {a}
  <2>1. NetsAt' \subseteq k+1..Len(Nets) /\ StksAt' = {}
    BY <1>1, <1>2, Buffers DEF NetsAt, StksAt
  <2>2. \A j \in k+1..Len(Nets) : j \in k..Len(Nets) /\ Nets[j] # a
    BY <1>1, <1>2, Buffers
  <2> QED
    BY <1>2, <1>3, <2>1, <2>2 DEF Mine
<1>7. CtrlInv'
  BY <1>1, <1>2, <1>5, Buffers DEF Inv, CtrlInv
<1>8. OwnInv'
  BY <1>5, <1>6, OwnFewer DEF OwnInv
<1>9. FoundInv'
  BY <1>1 DEF FoundInv
<1> QED
  BY <1>5, <1>7, <1>8, <1>9 DEF Inv

(* One more stack is allocated, or its pointer is NULL; after the last,    *)
(* both were found or both are given back.                                 *)
LEMMA StkMallocStep ==
  ASSUME Inv, lwip_comm_mem_malloc
  PROVE  Inv'
<1>1. /\ pc = "stk" /\ k \in 1..Len(Stks) /\ UNCHANGED <<netres, retry, link>>
      /\ AllocBuf(Stks[k])
      /\ \/ k < Len(Stks) /\ k' = k + 1 /\ pc' = "stk"
         \/ ~(k < Len(Stks)) /\ k' = 1 /\ pc' = "stkfree"
         \/ /\ ~(k < Len(Stks)) /\ k' = 1 /\ pc' = "lan"
            /\ \A a \in Elems(Stks) : ptr'[a.name] # NULL
  BY DEF Inv, CtrlInv, lwip_comm_mem_malloc
<1>2. PICK S, a : S = Mine /\ a = Stks[k]
  OBVIOUS
<1>3. S \subseteq Bufs /\ Owns(S)
  BY <1>2, AtTypes DEF Inv, OwnInv
<1>4. S = {Nets[j] : j \in NetsAt} \cup {Stks[j] : j \in 1..k-1} /\ NetsAt \subseteq 1..Len(Nets)
  BY <1>1, <1>2, AtTypes DEF Inv, Mine, StksAt
<1>5. \A c \in S : c.name # a.name
  BY <1>1, <1>2, <1>4, Buffers
<1>6. /\ MemInv' /\ ptr' \in Pointers /\ Owns(S \cup {a})'
      /\ \A c \in Bufs : c.name # a.name => ptr'[c.name] = ptr[c.name]
  BY <1>1, <1>2, <1>3, <1>5, Buffers, AllocOwn DEF Inv, CtrlInv
<1>7. Mine' \subseteq S \cup {a}
  <2>1. NetsAt' = NetsAt
    BY <1>1 DEF NetsAt
  <2>2. StksAt' \subseteq 1..k
    BY <1>1, <1>2, Buffers DEF StksAt
  <2>3. \A j \in 1..k : j = k \/ j \in 1..k-1
    BY <1>1, <1>2, Buffers
  <2> QED
    BY <1>2, <1>4, <2>1, <2>2, <2>3 DEF Mine
<1>8. CtrlInv'
  BY <1>1, <1>2, <1>6, Buffers DEF Inv, CtrlInv
<1>9. OwnInv'
  BY <1>6, <1>7, OwnFewer DEF OwnInv
<1>10. FoundInv'
  <2>1. \A c \in Elems(Nets) : ptr'[c.name] = ptr[c.name]
    <3>1. \A c \in Elems(Nets) : c \in Bufs /\ c.name # a.name
      BY <1>1, <1>2, Buffers, BootAssumption DEF Bufs
    <3> QED
      BY <1>6, <3>1
  <2> QED
    BY <1>1, <2>1 DEF Inv, FoundInv
<1> QED
  BY <1>6, <1>8, <1>9, <1>10 DEF Inv

(* One more stack is given back.                                           *)
LEMMA StkFreeStep ==
  ASSUME Inv, lwip_comm_mem_free
  PROVE  Inv'
<1>1. /\ pc = "stkfree" /\ k \in 1..Len(Stks) /\ UNCHANGED <<netres, retry, link>>
      /\ FreeBuf(Stks[k])
      /\ \/ k < Len(Stks) /\ k' = k + 1 /\ pc' = "stkfree"
         \/ ~(k < Len(Stks)) /\ k' = 1 /\ pc' = "stk"
  BY DEF Inv, CtrlInv, lwip_comm_mem_free, Loop
<1>2. PICK S, a : S = Mine /\ a = Stks[k]
  OBVIOUS
<1>3. S \subseteq Bufs /\ Owns(S)
  BY <1>2, AtTypes DEF Inv, OwnInv
<1>4. /\ S = {Nets[j] : j \in NetsAt} \cup {Stks[j] : j \in k..Len(Stks)}
      /\ NetsAt \subseteq 1..Len(Nets)
  BY <1>1, <1>2, AtTypes DEF Inv, Mine, StksAt
<1>5. a \in S
  BY <1>1, <1>2, <1>4, Buffers
<1>6. MemInv' /\ ptr' = ptr /\ Owns(S \ {a})'
  BY <1>1, <1>2, <1>3, <1>5, FreeOwn DEF Inv, CtrlInv
<1>7. Mine' \subseteq S \ {a}
  <2>1. NetsAt' = NetsAt
    BY <1>1 DEF NetsAt
  <2>2. StksAt' \subseteq k+1..Len(Stks)
    BY <1>1, <1>2, Buffers DEF StksAt
  <2>3. \A j \in k+1..Len(Stks) : j \in k..Len(Stks) /\ Stks[j] # a
    BY <1>1, <1>2, Buffers
  <2>4. \A j \in NetsAt : Nets[j] # a
    BY <1>1, <1>2, <1>4, Buffers
  <2> QED
    BY <1>2, <1>4, <2>1, <2>2, <2>3, <2>4 DEF Mine
<1>8. CtrlInv'
  BY <1>1, <1>2, <1>6, Buffers DEF Inv, CtrlInv
<1>9. OwnInv'
  BY <1>6, <1>7, OwnFewer DEF OwnInv
<1>10. FoundInv'
  BY <1>1, <1>6 DEF Inv, FoundInv
<1> QED
  BY <1>6, <1>8, <1>9, <1>10 DEF Inv

(* The rest of lwip_comm_init takes nothing from the pools.                *)
LEMMA LanStep ==
  ASSUME Inv, lwip_comm_init
  PROVE  Inv'
<1>1. /\ pc = "lan" /\ k = 1 /\ UNCHANGED <<memVars, ptr, k, netres, link>>
      /\ pc' \in {"up", "stk", "lan"} /\ retry' \in 0..RETRIES
  BY BootAssumption DEF Inv, CtrlInv, lwip_comm_init
<1>2. PICK S : S = Mine
  OBVIOUS
<1>3. Mine' \subseteq S
  <2>1. NetsAt' = NetsAt /\ StksAt' \subseteq StksAt
    BY <1>1 DEF NetsAt, StksAt
  <2> QED
    BY <1>2, <2>1 DEF Mine
<1>4. OwnInv'
  <2>1. Owns(S)'
    BY <1>1, <1>2, OwnSame DEF Inv, OwnInv
  <2> QED
    BY <1>3, <2>1, OwnFewer DEF OwnInv
<1>5. CtrlInv'
  BY <1>1, Buffers DEF Inv, CtrlInv
<1>6. FoundInv'
  BY <1>1 DEF Inv, FoundInv
<1> QED
  BY <1>1, <1>4, <1>5, <1>6, MemSame DEF Inv

(* A step in which only the link may change.                               *)
LEMMA LinkStep ==
  ASSUME Inv, UNCHANGED <<memVars, pc, k, ptr, netres, retry>>, link' \in BOOLEAN
  PROVE  Inv'
<1>1. PICK S : S = Mine
  OBVIOUS
<1>2. Mine' = S
  BY <1>1 DEF Mine, NetsAt, StksAt
<1>3. OwnInv'
  BY <1>1, <1>2, OwnSame DEF Inv, OwnInv
<1>4. CtrlInv'
  BY DEF Inv, CtrlInv
<1>5. FoundInv'
  BY DEF Inv, FoundInv
<1> QED
  BY <1>3, <1>4, <1>5, MemSame DEF Inv

(* Every step of main keeps the invariant.                                 *)
LEMMA InvStep == Inv /\ [Next]_vars => Inv'
<1> SUFFICES ASSUME Inv, [Next]_vars PROVE Inv'
  OBVIOUS
<1>1. CASE LinkChange
  BY <1>1, LinkStep DEF LinkChange
<1>2. CASE UNCHANGED vars
  BY <1>2, LinkStep DEF vars, Inv, CtrlInv
<1> QED
  BY <1>1, <1>2, ParaStep, NetMallocStep, NetTestStep, NetFreeStep, StkMallocStep, StkFreeStep,
     LanStep DEF Next, main

(* Inv holds in every state.                                               *)
THEOREM InvCorrect == Spec => []Inv
  BY InvInit, InvStep, PTL DEF Spec

(* The tables of the pools and the pointers of main have their types.      *)
THEOREM TypeCorrect == Spec => []TypeOK
<1>1. Inv => TypeOK
  <2> SUFFICES ASSUME Inv PROVE TypeOK
    OBVIOUS
  <2>1. k \in 1..(Len(Nets) + Len(Stks))
    BY Buffers DEF Inv, CtrlInv
  <2> QED
    BY <2>1 DEF Inv, MemInv, MemTypes, CtrlInv, Pointers, TypeOK
<1> QED
  BY <1>1, InvCorrect, PTL

(* No block is handed out twice and myfree gives back what mymalloc took,  *)
(* whatever main asks for and gives back (malloc.c).                       *)
THEOREM PoolsAreSound == Spec => []PoolSound
<1>1. Inv => PoolSound
  BY DEF Inv, MemInv
<1> QED
  BY <1>1, InvCorrect, PTL

(* When the tasks start they have their stacks and the buffers that were   *)
(* tested, no two of them in the same place (main.c, lwip_comm.c).         *)
THEOREM BuffersAreHeld == Spec => []BuffersHeld
<1>1. Inv => BuffersHeld
  <2> SUFFICES ASSUME Inv, pc = "up"
               PROVE  /\ \A a \in Used : Held(a)
                      /\ \A a, c \in Used : a # c /\ a.bank = c.bank => ptr[a.name] # ptr[c.name]
    BY DEF BuffersHeld
  <2>1. Used \subseteq Mine
    <3>1. Elems(Stks) = {Stks[j] : j \in StksAt} /\ (netres = 0 => Elems(Nets) = {Nets[j] : j \in NetsAt})
      BY Buffers DEF Elems, StksAt, NetsAt
    <3> QED
      BY <3>1 DEF Used, Mine
  <2>2. \A a \in Used : ptr[a.name] # NULL
    BY DEF Inv, FoundInv, Used
  <2> QED
    BY <2>1, <2>2 DEF Inv, OwnInv, Owns
<1> QED
  BY <1>1, InvCorrect, PTL
=============================================================================
