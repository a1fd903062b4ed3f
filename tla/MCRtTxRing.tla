----------------------------- MODULE MCRtTxRing -----------------------------
(* Instances of RtTxRing for TLC: rings of four elements (the framework    *)
(* makes powers of two).                                                   *)
EXTENDS RtTxRing

(* What is left of a state without the data nothing reads any more: the    *)
(* packets and TCBs of slots handed back, the descriptors that are free.   *)
PostedSlots == SlotsBetween(pBegin, CASE pc = "post" -> pi
                                 [] pc \in {"fields", "status"} -> PAdd(pi, 1)
                                 [] OTHER -> pNext)

LiveData ==
  <<pBegin, pNext, pEnd, fBegin, fNext, fEnd, txDescIndex, pc, poll, hwIndex, frame,
    sent, garbled,
    IF pc \in {"idle", "stopped"} THEN 0 ELSE pi,
    pc \in {"post", "fields", "status"} /\ programmed,
    [s \in SlotsBetween(pBegin, pEnd) |-> packet[s]],
    [s \in {s \in PostedSlots : ~packet[s].Ignore} |-> tcb[s]],
    {<<j, desc[j]>> : j \in {j \in Frags : desc[j].own}},
    IF pc = "status" THEN desc[txDescIndex].frag ELSE 0>>
=============================================================================
