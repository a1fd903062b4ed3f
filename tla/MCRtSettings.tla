---------------------------- MODULE MCRtSettings ----------------------------
(* An instance of RtSettings for TLC: two queues, one address, which is in *)
(* the list or not, a filter that closes the receiver, one with a bit of   *)
(* each flag, and one that sets every bit of MAR; resets that take some of *)
(* the registers, all or none.                                             *)
EXTENDS RtSettings

HashLast == [a \in Addresses |-> 63]

FiltersFew == {{}, {"Directed", "Broadcast", "Multicast"}, {"Promiscuous"}}

ResetAny == {"mar", "cpcr"}
=============================================================================
