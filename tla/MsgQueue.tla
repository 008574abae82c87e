------------------------------- MODULE MsgQueue -------------------------------
(***************************************************************************)
(* What a message ring promises its two ends: a queue of at most Cap       *)
(* messages that are taken in the order in which they were put, each once, *)
(* and a message taken that nobody changes until the next one is taken.    *)
(* A put into a full queue does nothing.                                   *)
(***************************************************************************)
EXTENDS Naturals, Sequences

CONSTANTS Msg, Cap

VARIABLES q, out

Init == q = <<>>

Put == \E m \in Msg : Len(q) < Cap /\ q' = Append(q, m) /\ out' = out

Get == q # <<>> /\ out' = Head(q) /\ q' = Tail(q)

Next == Put \/ Get

Spec == Init /\ [][Next]_<<q, out>>
=============================================================================
