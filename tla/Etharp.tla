-------------------------------- MODULE Etharp --------------------------------
(***************************************************************************)
(* The ARP cache of lwIP, aged by arp_timer on the clock of module Timers. *)
(* tcpip_thread looks addresses up when it sends a packet and learns them  *)
(* from ARP frames; both come as messages of its mailbox.  An address that *)
(* is not known is asked for, and one packet may wait for the answer.      *)
(* Hosts answer when they like, and memory for a request or for the copy   *)
(* of a packet may be lacking.                                             *)
(***************************************************************************)
EXTENDS Timers

CONSTANTS
  Addr,          (* addresses of hosts on the network *)
  Peer,          (* the one the camera sends its images to *)
  ARP_TABLE_SIZE,
  ARP_MAXAGE, ARP_AGE_REREQUEST_USED, ARP_MAXPENDING

ASSUME EtharpAssumption ==
  /\ Peer \in Addr
  /\ {ARP_TABLE_SIZE, ARP_MAXAGE} \subseteq Nat \ {0}
  /\ ARP_MAXPENDING \in 1..ARP_MAXAGE /\ ARP_AGE_REREQUEST_USED \in 1..ARP_MAXAGE

VARIABLE
  arp_table      \* [state, ip, ctime, q : is a packet queued?] for each entry

vars == <<timerVars, arp_table>>

Entries == 1..ARP_TABLE_SIZE

(* The address left in an empty entry does not matter.                     *)
EMPTY   == [state |-> "EMPTY", ip |-> Peer, ctime |-> 0, q |-> FALSE]
Stable  == {"STABLE", "REREQUESTING"}

Init ==
  /\ TimersInit
  /\ arp_table = [i \in Entries |-> EMPTY]

-----------------------------------------------------------------------------
(* etharp_find_entry.                                                      *)
Matching(a) == {i \in Entries : arp_table[i].state # "EMPTY" /\ arp_table[i].ip = a}
InState(S, q) == {i \in Entries : arp_table[i].state \in S /\ arp_table[i].q = q}

(* The last of the oldest entries of a set.                                *)
Oldest(S) ==
  CHOOSE i \in S : \A j \in S : \/ arp_table[j].ctime < arp_table[i].ctime
                                \/ arp_table[j].ctime = arp_table[i].ctime /\ j <= i

(* Fault: a pending entry is recycled whether a packet waits there or not. *)
etharp_find_entry_AnyPending(a) ==
  LET empty == InState({"EMPTY"}, FALSE)
      stable == InState(Stable, FALSE) \cup InState(Stable, TRUE)
  IN  IF Matching(a) # {} THEN CHOOSE i \in Matching(a) : \A j \in Matching(a) : i <= j
      ELSE IF empty # {} THEN CHOOSE i \in empty : \A j \in empty : i <= j
      ELSE IF stable # {} THEN Oldest(stable)
      ELSE Oldest(InState({"PENDING"}, FALSE) \cup InState({"PENDING"}, TRUE))

(* The entry of address a; or else the first empty entry, the oldest       *)
(* stable one, the oldest pending one without or with a queued packet.     *)
etharp_find_entry(a) ==
  LET empty == InState({"EMPTY"}, FALSE)
      stable == InState(Stable, FALSE) \cup InState(Stable, TRUE)
  IN  IF Matching(a) # {} THEN CHOOSE i \in Matching(a) : \A j \in Matching(a) : i <= j
      ELSE IF empty # {} THEN CHOOSE i \in empty : \A j \in empty : i <= j
      ELSE IF stable # {} THEN Oldest(stable)
      ELSE IF InState({"PENDING"}, FALSE) # {} THEN Oldest(InState({"PENDING"}, FALSE))
      ELSE Oldest(InState({"PENDING"}, TRUE))

(* Fault: an entry lives one tick too long.                                *)
Aged_Late(e) ==
  IF e.state = "EMPTY" THEN e
  ELSE IF \/ e.ctime + 1 > ARP_MAXAGE
          \/ e.state = "PENDING" /\ e.ctime + 1 > ARP_MAXPENDING
       THEN EMPTY
       ELSE [e EXCEPT !.ctime = @ + 1]

(* etharp_tmr: one entry a tick of arp_timer older.                        *)
Aged(e) ==
  IF e.state = "EMPTY" THEN e
  ELSE IF \/ e.ctime + 1 >= ARP_MAXAGE
          \/ e.state = "PENDING" /\ e.ctime + 1 >= ARP_MAXPENDING
       THEN EMPTY
       ELSE [e EXCEPT !.ctime = @ + 1,
                      !.state = IF @ = "REREQUESTING" THEN "STABLE" ELSE @]

(* etharp_output, etharp_query: the packet is sent, and the address asked  *)
(* for again when its entry is about to expire; or the address is asked    *)
(* for and a copy of the packet waits, in place of one that waited before. *)
(* A request that cannot be sent is tried again with the next packet; a    *)
(* packet that cannot be copied is dropped, and its entry is pending all   *)
(* the same.                                                               *)
etharp_output(a) ==
  LET i == etharp_find_entry(a)
      e == IF i \in Matching(a) THEN arp_table[i] ELSE [EMPTY EXCEPT !.ip = a, !.state = "PENDING"]
  IN  \E requested, copied \in BOOLEAN :
        arp_table' = [arp_table EXCEPT ![i] =
          IF e.state = "STABLE" /\ e.ctime >= ARP_AGE_REREQUEST_USED /\ requested
          THEN [e EXCEPT !.state = "REREQUESTING"]
          ELSE IF e.state = "PENDING" /\ copied THEN [e EXCEPT !.q = TRUE] ELSE e]

(* Fault: the packet that waited is forgotten on the entry.                *)
etharp_update_arp_entry_KeepQ(a, try_hard) ==
  IF try_hard \/ Matching(a) # {}
  THEN arp_table' = [arp_table EXCEPT ![etharp_find_entry(a)] =
         [state |-> "STABLE", ip |-> a, ctime |-> 0, q |-> @.q]]
  ELSE UNCHANGED arp_table

(* etharp_update_arp_entry: a known address is refreshed, a new one gets   *)
(* an entry if the frame was for the camera; the packet that waited is     *)
(* sent.                                                                   *)
etharp_update_arp_entry(a, try_hard) ==
  IF try_hard \/ Matching(a) # {}
  THEN arp_table' = [arp_table EXCEPT ![etharp_find_entry(a)] =
         [state |-> "STABLE", ip |-> a, ctime |-> 0, q |-> FALSE]]
  ELSE UNCHANGED arp_table

-----------------------------------------------------------------------------
Tick == OSTimeTick /\ UNCHANGED arp_table

(* Whoever sends something posts a message: a task through the API, the    *)
(* driver for a frame.                                                     *)
Post(m) == OSQPost(m) /\ UNCHANGED arp_table

(* do_send or an answer to a ping.  What a message is about shows when it  *)
(* is handled.                                                             *)
Send(a) == Work /\ etharp_output(a)

(* etharp_arp_input: an ARP frame of address a, directed to the camera or  *)
(* to somebody else.                                                       *)
ArpInput(a, for_us) == Work /\ etharp_update_arp_entry(a, for_us)

ip_reass_timer == Expire("ip_reass_timer") /\ UNCHANGED arp_table

arp_timer ==
  /\ Expire("arp_timer")
  /\ arp_table' = [i \in Entries |-> Aged(arp_table[i])]

tcpip_thread ==
  \/ (Fetch \/ OSQPend \/ Got) /\ UNCHANGED arp_table
  \/ \E a \in Addr : Send(a)
  \/ \E a \in Addr, for_us \in BOOLEAN : ArpInput(a, for_us)
  \/ ip_reass_timer
  \/ arp_timer

Next == Tick \/ (\E m \in Msg : Post(m)) \/ tcpip_thread

Spec == Init /\ [][Next]_vars

-----------------------------------------------------------------------------
TypeOK ==
  /\ TimersTypes
  /\ arp_table \in [Entries -> [state : {"EMPTY", "PENDING"} \cup Stable, ip : Addr,
                                ctime : 0..ARP_MAXAGE-1, q : BOOLEAN]]

(* An address never has two entries, and a packet waits only on an entry   *)
(* that is pending: it is neither kept when the answer has come nor left   *)
(* behind when the entry expires or is recycled (etharp.c:369), also when  *)
(* a packet for the same address could not be copied (etharp.c:1147).      *)
TableSound ==
  /\ \A i, j \in Entries : arp_table[i].state # "EMPTY" /\ arp_table[j].state # "EMPTY"
                           /\ arp_table[i].ip = arp_table[j].ip => i = j
  /\ \A i \in Entries : arp_table[i].q => arp_table[i].state = "PENDING"

(* Recycling is "least destructive" (etharp.c:355): an entry goes to       *)
(* another host only when none is free, a packet that waits is given up    *)
(* for it only when a packet waits on every entry, and an address that is  *)
(* known only when none was known for longer.                              *)
Recycled(i) ==
  /\ arp_table[i].state # "EMPTY" /\ arp_table'[i].state # "EMPTY"
  /\ arp_table'[i].ip # arp_table[i].ip

LeastDestructive ==
  [][\A i \in Entries : Recycled(i) =>
       /\ \A j \in Entries : arp_table[j].state # "EMPTY"
       /\ arp_table[i].q => \A j \in Entries : arp_table[j].q
       /\ arp_table[i].state \in Stable =>
            \A j \in Entries : arp_table[j].state \in Stable =>
              arp_table[j].ctime <= arp_table[i].ctime]_vars
=============================================================================
