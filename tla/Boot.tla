--------------------------------- MODULE Boot ---------------------------------
(***************************************************************************)
(* Starting the camera: main sets up the memory pools, the parameters, the *)
(* buffers of the image and the command path and the network, and tries    *)
(* the network again until lwip_comm_init succeeds.  Nothing else runs     *)
(* before the tasks are created, so only the link of the LAN8720 can       *)
(* change between two steps.                                               *)
(***************************************************************************)
EXTENDS Malloc, Sequences

CONSTANTS
  Para,        (* [name, bank, size] of CurrentCamPara                      *)
  Nets,        (* of the buffers of netmem_malloc, in order                 *)
  Unchecked,   (* names of those whose pointers netmem_malloc does not test *)
  Stks,        (* of the two task stacks of lwip_comm_mem_malloc, in order  *)
  RETRIES      (* attempts to start the LAN8720 beyond the first: 5         *)

Elems(s) == {s[j] : j \in DOMAIN s}
Bufs  == {Para} \cup Elems(Nets) \cup Elems(Stks)
Names == {a.name : a \in Bufs}

(* Every buffer has a pointer of its own.                                  *)
ASSUME BootAssumption ==
  /\ RETRIES \in Nat
  /\ \A s \in {Nets, Stks} : Len(s) \in Nat \ {0} /\ DOMAIN s = 1..Len(s)
  /\ \A a \in Bufs : a.bank \in Banks /\ a.size \in Nat
  /\ \A s \in {Nets, Stks} : \A i, j \in DOMAIN s : s[i].name = s[j].name => i = j
  /\ \A a \in Elems(Nets), c \in Elems(Stks) : a.name # c.name

VARIABLES
  pc,
  k,      \* the buffer a loop has come to
  ptr,    \* the pointers, by name
  netres, \* what netmem_malloc returned; main does not look at it
  retry,
  link    \* is there a link at the LAN8720?

vars == <<memVars, pc, k, ptr, netres, retry, link>>

Init ==
  /\ my_mem_init
  /\ pc = "para" /\ k = 1
  /\ ptr = [a \in Names |-> NULL]
  /\ netres = 0 /\ retry = 0
  /\ link \in BOOLEAN

(* mymalloc for buffer a, its pointer stored.                              *)
AllocBuf(a) == \E p \in (0..memtblsize[a.bank]-1) \cup {NULL} :
                 /\ mymalloc(a.bank, a.size, p)
                 /\ ptr' = [ptr EXCEPT ![a.name] = p]

(* myfree; the pointer keeps its value.                                    *)
FreeBuf(a) == myfree(a.bank, ptr[a.name]) /\ UNCHANGED ptr

(* Go on with the next of a sequence of buffers, or to pc = next.          *)
Loop(bufs, next) ==
  IF k < Len(bufs) THEN k' = k + 1 /\ pc' = pc ELSE k' = 1 /\ pc' = next

InitCamParaPacket ==
  /\ pc = "para" /\ pc' = "net"
  /\ IF ptr[Para.name] = NULL THEN AllocBuf(Para) ELSE UNCHANGED <<memVars, ptr>>
  /\ UNCHANGED <<k, netres, retry, link>>

netmem_malloc ==
  /\ pc = "net"
  /\ AllocBuf(Nets[k])
  /\ Loop(Nets, "nettest")
  /\ UNCHANGED <<netres, retry, link>>

(* The test at the end of netmem_malloc.                                   *)
netmem_test ==
  LET failed == \E a \in Elems(Nets) : a.name \notin Unchecked /\ ptr[a.name] = NULL
  IN  /\ pc = "nettest"
      /\ pc' = IF failed THEN "netfree" ELSE "stk"
      /\ netres' = IF failed THEN 1 ELSE 0
      /\ UNCHANGED <<memVars, ptr, k, retry, link>>

netmem_free ==
  /\ pc = "netfree"
  /\ FreeBuf(Nets[k])
  /\ Loop(Nets, "stk")
  /\ UNCHANGED <<netres, retry, link>>

(* Fault: one stack is enough.                                             *)
lwip_comm_mem_malloc_Any ==
  /\ pc = "stk"
  /\ AllocBuf(Stks[k])
  /\ IF k < Len(Stks)
     THEN k' = k + 1 /\ pc' = pc
     ELSE k' = 1 /\ pc' = IF \A a \in Elems(Stks) : ptr'[a.name] = NULL THEN "stkfree" ELSE "lan"
  /\ UNCHANGED <<netres, retry, link>>

(* lwip_comm_init begins with the stacks of two tasks.                     *)
lwip_comm_mem_malloc ==
  /\ pc = "stk"
  /\ AllocBuf(Stks[k])
  /\ IF k < Len(Stks)
     THEN k' = k + 1 /\ pc' = pc
     ELSE k' = 1 /\ pc' = IF \E a \in Elems(Stks) : ptr'[a.name] = NULL THEN "stkfree" ELSE "lan"
  /\ UNCHANGED <<netres, retry, link>>

(* One stack is missing: both are given back, lwip_comm_init returns and   *)
(* main calls it again.                                                    *)
lwip_comm_mem_free ==
  /\ pc = "stkfree"
  /\ FreeBuf(Stks[k])
  /\ Loop(Stks, "stk")
  /\ UNCHANGED <<netres, retry, link>>

(* LAN8720_Init succeeds when the chip answers and has a link.             *)
LAN8720_Init == link

(* Fault: the attempts of earlier rounds count.                            *)
lwip_comm_init_KeepRetry ==
  /\ pc = "lan"
  /\ IF LAN8720_Init
     THEN pc' = "up" /\ retry' = retry
     ELSE /\ pc' = IF retry + 1 > RETRIES THEN "stk" ELSE pc
          /\ retry' = retry + 1
  /\ UNCHANGED <<memVars, ptr, k, netres, link>>

(* With the stacks allocated lwip_comm_init starts the LAN8720; when one   *)
(* try and RETRIES more fail it returns, and main calls it again.  The     *)
(* interface is then added, which cannot fail (ethernetif_init returns     *)
(* ERR_OK).                                                                *)
lwip_comm_init ==
  /\ pc = "lan"
  /\ IF LAN8720_Init
     THEN pc' = "up" /\ retry' = retry
     ELSE IF retry + 1 > RETRIES THEN pc' = "stk" /\ retry' = 0
                                 ELSE pc' = pc /\ retry' = retry + 1
  /\ UNCHANGED <<memVars, ptr, k, netres, link>>

(* The cable is plugged in or out.                                         *)
LinkChange ==
  /\ link' = ~link
  /\ UNCHANGED <<memVars, pc, k, ptr, netres, retry>>

main ==
  \/ InitCamParaPacket
  \/ netmem_malloc
  \/ netmem_test
  \/ netmem_free
  \/ lwip_comm_mem_malloc
  \/ lwip_comm_mem_free
  \/ lwip_comm_init

Next == main \/ LinkChange

Spec == Init /\ [][Next]_vars

(* main is the only thread.                                                *)
FairSpec == Spec /\ WF_vars(main)

-----------------------------------------------------------------------------
(* Tables and pointers have their types.                                   *)
TypeOK ==
  /\ memtblsize \in Tables
  /\ DOMAIN memmap = Banks
  /\ \A b \in Banks : memmap[b] \in [0..memtblsize[b]-1 -> Nat]
  /\ live \subseteq [bank : Banks, off : Nat, n : Nat]
  /\ pc \in {"para", "net", "nettest", "netfree", "stk", "stkfree", "lan", "up"}
  /\ k \in 1..(Len(Nets) + Len(Stks))
  /\ ptr \in [Names -> Nat \cup {NULL}]
  /\ netres \in 0..1 /\ retry \in 0..RETRIES /\ link \in BOOLEAN

(* The pointer of buffer a leads to an allocation of its size.             *)
Held(a) == [bank |-> a.bank, off |-> ptr[a.name], n |-> nmemb(a.size)] \in live

(* When the tasks start, both of their stacks and, if netmem_malloc        *)
(* reported success, every buffer it tests are allocated, and no two share *)
(* memory: whatever was given back or lost in earlier attempts.            *)
Used == Elems(Stks) \cup (IF netres = 0 THEN {a \in Elems(Nets) : a.name \notin Unchecked} ELSE {})

BuffersHeld ==
  pc = "up" => /\ \A a \in Used : Held(a)
               /\ \A a1, a2 \in Used : a1 # a2 /\ a1.bank = a2.bank => ptr[a1.name] # ptr[a2.name]

(* "If it fails try again" (lwip_comm.c:132): the loop of main that calls  *)
(* lwip_comm_init again ends once the link is there for good.              *)
StartsWithLink == <>[]link => <>(pc = "up")
=============================================================================
