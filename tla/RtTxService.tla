---------------------------- MODULE RtTxService ----------------------------
(***************************************************************************)
(* What a transmit queue promises the framework: the packets it is handed  *)
(* go out on the wire in order, each once and whole, and come back in      *)
(* order, and a packet comes back only when it has been transmitted or is  *)
(* one the driver was told to ignore.  RtTxRing implements it.             *)
(***************************************************************************)
EXTENDS Integers, Sequences

CONSTANT Slots        \* the elements of the packet ring

VARIABLE outstanding  \* the packets handed over, oldest first

Packet == [slot : Slots, ignored : BOOLEAN, sent : BOOLEAN]

(* A packet that need not go out, or need not go out any more.             *)
Settled(p) == p.ignored \/ p.sent

Init == outstanding = <<>>

Submit ==
  \E s \in Slots, i \in BOOLEAN :
    outstanding' = Append(outstanding, [slot |-> s, ignored |-> i, sent |-> FALSE])

(* The oldest packet still to go out is transmitted.                       *)
Transmit ==
  \E k \in 1 .. Len(outstanding) :
    /\ ~Settled(outstanding[k])
    /\ \A j \in 1 .. k - 1 : Settled(outstanding[j])
    /\ outstanding' = [outstanding EXCEPT ![k].sent = TRUE]

(* The first n packets, all settled, go back to the framework.             *)
Return ==
  \E n \in 1 .. Len(outstanding) :
    /\ \A j \in 1 .. n : Settled(outstanding[j])
    /\ outstanding' = SubSeq(outstanding, n + 1, Len(outstanding))

Next == Submit \/ Transmit \/ Return

Spec == Init /\ [][Next]_outstanding
=============================================================================
