------------------------------ MODULE MCRtRss ------------------------------
(* An instance of RtRss for TLC: a table of four entries in two planes of  *)
(* two words, a key of two words.                                          *)
EXTENDS MCRtStart, RtRss

(* Every index to a queue of its own, then two of them exchanged.          *)
TwoUpdates   == {[i \in 0 .. 3 |-> i], [i \in {1, 2} |-> 3 - i]}
OneKey       == {<<{"k1"}, {"k2"}>>}
OneProtocols == {{"IPv4", "Tcp"}}
OneBuffer    == {[low |-> {"low"}, high |-> {"high"}]}
=============================================================================
