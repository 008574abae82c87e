------------------------------ MODULE MCCamParam ------------------------------
(***************************************************************************)
(* Instances of CamParam.  A byte has three values, so an exposure or an   *)
(* AOI start may change in either byte, and 2 is the byte of a new chip.   *)
(***************************************************************************)
EXTENDS CamParam

MCDefault ==
  [id |-> 1, exposureh |-> 1, exposurel |-> 0, aoishowheight |-> 0,
   aoishowstartyh |-> 0, aoishowstartyl |-> 1, fixed |-> 0,
   status |-> 0, starty240 |-> 1, marker |-> 1]
=============================================================================
