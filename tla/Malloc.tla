-------------------------------- MODULE Malloc --------------------------------
(***************************************************************************)
(* The memory pools of malloc.c: each bank has a table with one entry per  *)
(* block, 0 for a free block and the length of its allocation for a block  *)
(* in use.  A pointer stands for the number of its first block.  The       *)
(* variable live is not in the code: it records the allocations that have  *)
(* been handed out and not been taken back.                                *)
(***************************************************************************)
EXTENDS Naturals

CONSTANTS
  Banks,       (* the pools: SRAMIN, SRAMEX                     *)
  Tables,      (* lengths the tables may have, as [Banks -> Nat] *)
  memblksize,  (* bytes in a block                              *)
  NULL         (* no pointer                                    *)

ASSUME MallocAssumption ==
  /\ Tables \subseteq [Banks -> Nat]
  /\ memblksize \in Nat \ {0}
  /\ NULL \notin Nat

VARIABLES memtblsize, memmap, live

memVars == <<memtblsize, memmap, live>>

(* my_mem_init.  The length of a table is a constant of the code; here it  *)
(* is one of Tables.                                                       *)
my_mem_init ==
  /\ memtblsize \in Tables
  /\ memmap = [b \in Banks |-> [o \in 0..memtblsize[b]-1 |-> 0]]
  /\ live = {}

(* Blocks needed for size bytes.                                           *)
nmemb(size) == size \div memblksize + (IF size % memblksize = 0 THEN 0 ELSE 1)

(* Where n free blocks in a row begin.                                     *)
Room(b, n) ==
  {off \in 0..memtblsize[b]-1 : /\ off + n <= memtblsize[b]
                                /\ \A i \in 0..n-1 : memmap[b][off + i] = 0}

(* The table of bank b with v in the n blocks from block off on.           *)
Filled(b, off, n, v) ==
  [memmap EXCEPT ![b] = [o \in DOMAIN @ |-> IF o >= off /\ o < off + n THEN v ELSE @[o]]]

(* Fault: the last block of an allocation is not marked.                   *)
mymalloc_Short(b, size, ptr) ==
  LET n == nmemb(size)
  IN  /\ IF size = 0 \/ Room(b, n) = {}
         THEN ptr = NULL /\ UNCHANGED <<memmap, live>>
         ELSE /\ ptr \in Room(b, n)
              /\ \A off \in Room(b, n) : off <= ptr
              /\ memmap' = Filled(b, ptr, n - 1, n)
              /\ live' = live \cup {[bank |-> b, off |-> ptr, n |-> n]}
      /\ UNCHANGED memtblsize

(* my_mem_malloc looks for room from the end of the table; ptr is what     *)
(* mymalloc returns.                                                       *)
mymalloc(b, size, ptr) ==
  LET n == nmemb(size)
  IN  /\ IF size = 0 \/ Room(b, n) = {}
         THEN ptr = NULL /\ UNCHANGED <<memmap, live>>
         ELSE /\ ptr \in Room(b, n)
              /\ \A off \in Room(b, n) : off <= ptr
              /\ memmap' = Filled(b, ptr, n, n)
              /\ live' = live \cup {[bank |-> b, off |-> ptr, n |-> n]}
      /\ UNCHANGED memtblsize

(* myfree and my_mem_free: the entry at ptr says how many blocks to clear. *)
myfree(b, ptr) ==
  /\ IF ptr = NULL
     THEN UNCHANGED <<memmap, live>>
     ELSE /\ memmap' = Filled(b, ptr, memmap[b][ptr], 0)
          /\ live' = live \ {[bank |-> b, off |-> ptr, n |-> memmap[b][ptr]]}
  /\ UNCHANGED memtblsize

-----------------------------------------------------------------------------
(* Does block o of bank b belong to allocation a?                          *)
Covers(a, b, o) == a.bank = b /\ a.off <= o /\ o < a.off + a.n

(* An allocation lies in its pool and marks all of its blocks with its     *)
(* length; a block that is marked belongs to one; no two overlap.          *)
InPool(a) == a.n > 0 /\ a.off + a.n <= memtblsize[a.bank]
MarksOwn(a) ==
  \A o \in 0..memtblsize[a.bank]-1 : Covers(a, a.bank, o) => memmap[a.bank][o] = a.n
MarkedIsLive ==
  \A b \in Banks : \A o \in 0..memtblsize[b]-1 :
    memmap[b][o] # 0 => \E a \in live : Covers(a, b, o)
Disjoint ==
  \A a1, a2 \in live : \A o \in 0..memtblsize[a1.bank]-1 :
    Covers(a1, a1.bank, o) /\ Covers(a2, a1.bank, o) => a1 = a2

(* The tables and the allocations handed out agree, so that a block is     *)
(* never handed out twice and myfree gives back what mymalloc took.        *)
PoolSound ==
  /\ \A a \in live : InPool(a) /\ MarksOwn(a)
  /\ MarkedIsLive
  /\ Disjoint
=============================================================================
