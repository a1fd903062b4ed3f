----------------------------- MODULE MCRtRxRing -----------------------------
(* Instances of RtRxRing for TLC: a packet ring of eight elements over a   *)
(* fragment ring of four (the framework makes powers of two).              *)
EXTENDS RtRxRing
=============================================================================
