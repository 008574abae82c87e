------------------------------ MODULE TimerLaws ------------------------------
(***************************************************************************)
(* What the clock of module Timers promises the handlers on its list.  One *)
(* timer, any one, is observed: the time that was really waited since it   *)
(* was armed and all that has happened since then.                         *)
(***************************************************************************)
EXTENDS Timers

VARIABLES
  obs,      \* the timer that is observed
  counted,  \* ticks tcpip_thread waited in OSQPend since it was armed
  spent     \* ticks and messages since it was armed, up to its interval

vars == <<timerVars, obs, counted, spent>>

Init == TimersInit /\ obs \in Handlers /\ counted = 0 /\ spent = 0

Spend == spent' = IF spent < Interval[obs] THEN spent + 1 ELSE spent

Tick ==
  /\ OSTimeTick /\ Spend
  /\ counted' = IF pc = "wait" THEN counted + 1 ELSE counted
  /\ UNCHANGED obs

Post == (\E m \in Msg : OSQPost(m)) /\ UNCHANGED <<obs, counted, spent>>

HandlerCall(h) ==
  /\ Expire(h)
  /\ IF h = obs THEN counted' = 0 /\ spent' = 0 ELSE UNCHANGED <<counted, spent>>
  /\ UNCHANGED obs

tcpip_thread ==
  \/ (Fetch \/ OSQPend \/ Work) /\ UNCHANGED <<obs, counted, spent>>
  \/ Got /\ Spend /\ UNCHANGED <<obs, counted>>
  \/ \E h \in Handlers : HandlerCall(h)

Next == Tick \/ Post \/ tcpip_thread

(* The tick never stops, and tcpip_thread runs when it can: the tasks of   *)
(* higher priority wait for something most of the time.                    *)
Fairness == WF_vars(Tick) /\ WF_vars(tcpip_thread)

Spec == Init /\ [][Next]_vars /\ Fairness

-----------------------------------------------------------------------------
TypeOK ==
  /\ TimersTypes
  /\ obs \in Handlers /\ counted \in Nat /\ spent \in 0..Interval[obs]

(* Milliseconds of waiting after which the observed timer will expire.     *)
Due == Expiry(next_timeout)[CHOOSE i \in 1..Len(next_timeout) : next_timeout[i].h = obs]

(* Every cyclic timer is on the list exactly once, however the timers      *)
(* expire in turn and arm themselves again: the pool never runs dry and no *)
(* handler is lost or doubled (timers.c).                                  *)
AllArmed ==
  \A h \in Handlers : Cardinality({i \in DOMAIN next_timeout : next_timeout[i].h = h}) = 1

(* No timer is late by more than the work between two waits: what has been *)
(* waited for a timer since it was armed is taken off its time, across     *)
(* interrupted waits, other timers on the list and the overflow of OSTime. *)
NeverLate == pc \in {"fetch", "work"} => Due + counted <= Interval[obs]

(* A timer is early by at most one millisecond for each message that was   *)
(* fetched since it was armed, as long as no message comes in the very     *)
(* tick in which the wait began (sys_arch.c:130).                          *)
NotEarly == hurried \/ Due + spent >= Interval[obs]

(* Every timer expires again and again, and no stream of messages keeps it *)
(* from doing so although only waiting is counted.                         *)
TimersFire == \A h \in Handlers : []<><<HandlerCall(h)>>_vars
=============================================================================
