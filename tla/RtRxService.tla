---------------------------- MODULE RtRxService ----------------------------
(***************************************************************************)
(* What a receive queue promises the framework: the buffers it is given    *)
(* are filled in order, and come back in order; a buffer comes back        *)
(* unfilled only when the queue is cancelled, and then all of them do.     *)
(* RtRxRing implements it.                                                 *)
(***************************************************************************)
EXTENDS Integers, Sequences

CONSTANT Fragments    \* the elements of the fragment ring

VARIABLE outstanding  \* the buffers handed over, oldest first

Buffer == [fragment : Fragments, filled : BOOLEAN]

Init == outstanding = <<>>

Provide ==
  \E f \in Fragments :
    outstanding' = Append(outstanding, [fragment |-> f, filled |-> FALSE])

(* The oldest empty buffer receives a frame.                               *)
Receive ==
  \E k \in 1 .. Len(outstanding) :
    /\ ~outstanding[k].filled
    /\ \A j \in 1 .. k - 1 : outstanding[j].filled
    /\ outstanding' = [outstanding EXCEPT ![k].filled = TRUE]

(* The first n buffers, all filled, are indicated.                         *)
Indicate ==
  \E n \in 1 .. Len(outstanding) :
    /\ \A j \in 1 .. n : outstanding[j].filled
    /\ outstanding' = SubSeq(outstanding, n + 1, Len(outstanding))

Cancel == outstanding' = <<>>

Next == Provide \/ Receive \/ Indicate \/ Cancel

Spec == Init /\ [][Next]_outstanding
=============================================================================
