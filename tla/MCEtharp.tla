------------------------------- MODULE MCEtharp -------------------------------
(* The peer and two more hosts, which may be exchanged for each other.     *)
EXTENDS Etharp, TLC

Others == Permutations(Addr \ {Peer})
=============================================================================
