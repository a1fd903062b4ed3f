------------------------------ MODULE MCRtLink ------------------------------
(* Instances of RtLink for TLC: the ways a link can be up, the orders of   *)
(* argument evaluation a build can have.                                   *)
EXTENDS RtLink

CONSTANTS d1, d2

InOrder  == {{}}
AnyOrder == SUBSET {"speed", "full"}

TwoUpStates ==
  {[on |-> TRUE, speed |-> 100, full |-> FALSE, autoNeg |-> FALSE],
   [on |-> TRUE, speed |-> 1000, full |-> TRUE, autoNeg |-> TRUE]}
=============================================================================
