------------------------------ MODULE RtRxRing ------------------------------
(***************************************************************************)
(* The receive data path of one queue: EvtRxQueueAdvance indicates the     *)
(* frames the device has written and posts fresh buffers, EvtRxQueueCancel *)
(* takes everything back (rxqueue.cpp, netringiterator.h), while the       *)
(* device fills the descriptors it owns.  Descriptor i stands for fragment *)
(* i of the ring.                                                          *)
(*                                                                         *)
(* The framework changes the rings only between two calls; the device      *)
(* works at any time, so the driver is cut at every access to a            *)
(* descriptor.  The framework gives a queue as many packets as buffers,    *)
(* cancels it between two calls, whatever is posted, may go on advancing   *)
(* it until the stop, and starts it with empty rings at index 0.           *)
(***************************************************************************)
EXTENDS Integers, Sequences, FiniteSets

CONSTANTS
  NumPackets,    \* NumberOfElements of the packet ring, and of RxdBase
  NumFragments   \* NumberOfElements of the fragment ring

ASSUME RingAssumption ==
  /\ NumPackets \in Nat \ {0, 1} /\ NumFragments \in Nat \ {0, 1}
  /\ NumFragments <= NumPackets

Slots == 0 .. NumPackets - 1
Frags == 0 .. NumFragments - 1

VARIABLES
  pBegin, pEnd,          \* the indices of the packet ring
  fBegin, fNext, fEnd,   \* the indices of the fragment ring
  packet,                \* the NET_PACKETs
  desc,                  \* rx->RxdBase; fresh: it holds the address of the
                         \* buffer now at its index of the fragment ring
  pc,                    \* where the running callback is; "stopped" before Start
  fi, pi,                \* the indices of its fragment and packet iterators
  cancel,                \* EvtRxQueueCancel: "no", "running", or "done"; it is
                         \* "stranded" if it left NextIndex behind EndIndex
  receiver,              \* "on", "draining" (CR_RE cleared) or "off"
  hwIndex,               \* the descriptor the device looks at next
  landed                 \* history: fragments filled and not handed back

ringVars == <<pBegin, pEnd, fBegin, fNext, fEnd>>
vars     == <<pBegin, pEnd, fBegin, fNext, fEnd, packet, desc, pc, fi, pi, cancel,
              receiver, hwIndex, landed>>

(* NetRingIncrementIndex and NetRingAdvanceIndex.                          *)
PAdd(i, n) == (i + n) % NumPackets
FAdd(i, n) == (i + n) % NumFragments

(* How many elements lie from b up to e.                                   *)
Count(b, e) == (e - b) % NumFragments

(* A cancel has not returned the buffers.                                  *)
Holding == cancel \in {"no", "running"}

Zero == [own |-> FALSE, eor |-> FALSE, fresh |-> FALSE]

Init ==
  /\ pBegin = 0 /\ pEnd = 0 /\ fBegin = 0 /\ fNext = 0 /\ fEnd = 0
  /\ packet = [s \in Slots |-> [FragmentIndex |-> 0, Ignore |-> FALSE]]
  /\ desc = [j \in Slots |-> Zero]
  /\ pc = "stopped" /\ fi = 0 /\ pi = 0 /\ cancel = "no"
  /\ receiver = "off" /\ hwIndex = 0 /\ landed = <<>>

-----------------------------------------------------------------------------
(* The framework: start, stop, and the buffers it provides.                *)

(* Mutant: the descriptors keep what the last run left in them.            *)
StartNotZeroed ==
  /\ pc = "stopped"
  /\ pBegin' = 0 /\ pEnd' = 0 /\ fBegin' = 0 /\ fNext' = 0 /\ fEnd' = 0
  /\ hwIndex' = 0 /\ receiver' = "on"
  /\ cancel' = "no"
  /\ pc' = "idle"
  /\ UNCHANGED <<packet, desc, fi, pi, landed>>

(* Mutant: the device is not told the start address again.                 *)
StartKeepsDevice ==
  /\ pc = "stopped"
  /\ pBegin' = 0 /\ pEnd' = 0 /\ fBegin' = 0 /\ fNext' = 0 /\ fEnd' = 0
  /\ desc' = [j \in Slots |-> Zero]
  /\ receiver' = "on"
  /\ cancel' = "no"
  /\ pc' = "idle"
  /\ UNCHANGED <<packet, fi, pi, hwIndex, landed>>

(* EvtRxQueueStart on rings the framework has emptied.                     *)
Start ==
  /\ pc = "stopped"
  /\ pBegin' = 0 /\ pEnd' = 0 /\ fBegin' = 0 /\ fNext' = 0 /\ fEnd' = 0
  /\ desc' = [j \in Slots |-> Zero]
  /\ hwIndex' = 0 /\ receiver' = "on"
  /\ cancel' = "no"
  /\ pc' = "idle"
  /\ UNCHANGED <<packet, fi, pi, landed>>

(* EvtRxQueueStop of a cancelled queue, whose receiver is disabled.        *)
Stop ==
  /\ pc = "idle" /\ ~Holding
  /\ pc' = "stopped"
  /\ UNCHANGED <<ringVars, packet, desc, fi, pi, cancel, receiver, hwIndex, landed>>

Provide ==
  /\ pc = "idle" /\ cancel = "no"
  /\ Count(fBegin, fEnd) < NumFragments - 1
  /\ packet' = [packet EXCEPT ![pEnd].Ignore = FALSE]
  /\ desc' = [desc EXCEPT ![fEnd].fresh = FALSE]
  /\ pEnd' = PAdd(pEnd, 1) /\ fEnd' = FAdd(fEnd, 1)
  /\ UNCHANGED <<pBegin, fBegin, fNext, pc, fi, pi, cancel, receiver, hwIndex, landed>>

-----------------------------------------------------------------------------
(* EvtRxQueueAdvance, also called after a cancel.                          *)

AdvanceBegin ==
  /\ pc = "idle"
  /\ fi' = fBegin /\ pi' = pBegin
  /\ pc' = "indicate"
  /\ UNCHANGED <<ringVars, packet, desc, cancel, receiver, hwIndex, landed>>

(* Mutant: does not look at the ownership flag.                            *)
IndicatingUnowned == fi # fNext

(* One turn of the loop of RxIndicateReceives.  It ends at the end of what *)
(* was posted or at a descriptor the device still owns.                    *)
Indicating == fi # fNext /\ ~desc[fi].own

IndicateOne ==
  /\ pc = "indicate" /\ Indicating
  /\ packet' = [packet EXCEPT ![pi].FragmentIndex = fi]
  /\ fi' = FAdd(fi, 1) /\ pi' = PAdd(pi, 1)
  /\ UNCHANGED <<ringVars, desc, pc, cancel, receiver, hwIndex, landed>>

(* Mutant: drains to the end of what was posted.                           *)
IndicateEndAll ==
  /\ pc = "indicate" /\ cancel # "running" /\ ~Indicating
  /\ fBegin' = fNext /\ pBegin' = PAdd(pi, Count(fi, fNext))
  /\ landed' = SubSeq(landed, Count(fBegin, fi) + 1, Len(landed))
  /\ fi' = fNext
  /\ pc' = "post"
  /\ UNCHANGED <<pEnd, fNext, fEnd, packet, desc, pi, cancel, receiver, hwIndex>>

(* The iterators are set, and RxPostBuffers begins.                        *)
IndicateEnd ==
  /\ pc = "indicate" /\ cancel # "running" /\ ~Indicating
  /\ fBegin' = fi /\ pBegin' = pi
  /\ landed' = SubSeq(landed, Count(fBegin, fi) + 1, Len(landed))
  /\ fi' = fNext
  /\ pc' = "post"
  /\ UNCHANGED <<pEnd, fNext, fEnd, packet, desc, pi, cancel, receiver, hwIndex>>

(* The fields of RtPostRxDescriptor that precede its memory barrier.       *)
PostFields ==
  /\ pc = "post" /\ fi # fEnd
  /\ desc' = [desc EXCEPT ![fi].fresh = TRUE]
  /\ pc' = "status"
  /\ UNCHANGED <<ringVars, packet, fi, pi, cancel, receiver, hwIndex, landed>>

(* Mutant: no end-of-ring flag.                                            *)
PostStatusNoEor ==
  /\ pc = "status"
  /\ desc' = [desc EXCEPT ![fi].own = TRUE]
  /\ fi' = FAdd(fi, 1)
  /\ pc' = "post"
  /\ UNCHANGED <<ringVars, packet, pi, cancel, receiver, hwIndex, landed>>

(* The status of RtPostRxDescriptor, which gives the descriptor away.      *)
PostStatus ==
  /\ pc = "status"
  /\ desc' = [desc EXCEPT ![fi].own = TRUE, ![fi].eor = (fi = NumFragments - 1)]
  /\ fi' = FAdd(fi, 1)
  /\ pc' = "post"
  /\ UNCHANGED <<ringVars, packet, pi, cancel, receiver, hwIndex, landed>>

(* Mutant: forgets NetFragmentIteratorSet.                                 *)
PostEndUnset ==
  /\ pc = "post" /\ fi = fEnd
  /\ pc' = "idle"
  /\ UNCHANGED <<ringVars, packet, desc, fi, pi, cancel, receiver, hwIndex, landed>>

PostEnd ==
  /\ pc = "post" /\ fi = fEnd
  /\ fNext' = fi
  /\ pc' = "idle"
  /\ UNCHANGED <<pBegin, pEnd, fBegin, fEnd, packet, desc, fi, pi, cancel, receiver, hwIndex, landed>>

-----------------------------------------------------------------------------
(* EvtRxQueueCancel.                                                       *)

(* The receiver is disabled, which takes effect when the device is done    *)
(* with what it has begun; RxIndicateReceives then grabs what it can.      *)
CancelBegin ==
  /\ pc = "idle" /\ cancel = "no"
  /\ receiver' = "draining"
  /\ cancel' = "running"
  /\ fi' = fBegin /\ pi' = pBegin
  /\ pc' = "indicate"
  /\ UNCHANGED <<ringVars, packet, desc, hwIndex, landed>>

(* The packets left are marked ignored and both rings emptied, at once:    *)
(* the device may own their descriptors, and NextIndex stays where it is.  *)
CancelEnd ==
  /\ pc = "indicate" /\ cancel = "running" /\ ~Indicating
  /\ packet' = [s \in Slots |->
       IF (s - pi) % NumPackets < (pEnd - pi) % NumPackets
       THEN [packet[s] EXCEPT !.Ignore = TRUE] ELSE packet[s]]
  /\ pBegin' = pEnd /\ fBegin' = fEnd
  /\ landed' = <<>>
  /\ cancel' = IF fNext = fEnd THEN "done" ELSE "stranded"
  /\ pc' = "idle"
  /\ UNCHANGED <<pEnd, fNext, fEnd, desc, fi, pi, receiver, hwIndex>>

-----------------------------------------------------------------------------
(* The device.                                                             *)

(* Until it is at rest, also into a buffer that a cancel has handed back.  *)
HwReceive ==
  /\ receiver # "off" /\ desc[hwIndex].own
  /\ desc' = [desc EXCEPT ![hwIndex].own = FALSE]
  /\ landed' = IF Holding THEN Append(landed, hwIndex) ELSE landed
  /\ hwIndex' = IF desc[hwIndex].eor THEN 0 ELSE hwIndex + 1
  /\ UNCHANGED <<ringVars, packet, pc, fi, pi, cancel, receiver>>

HwQuiet ==
  /\ receiver = "draining"
  /\ receiver' = "off"
  /\ UNCHANGED <<ringVars, packet, desc, pc, fi, pi, cancel, hwIndex, landed>>

-----------------------------------------------------------------------------
Advance == IndicateOne \/ IndicateEnd \/ PostFields \/ PostStatus \/ PostEnd \/ CancelEnd

Next ==
  \/ Start \/ Stop \/ Provide \/ AdvanceBegin \/ CancelBegin
  \/ Advance \/ HwReceive \/ HwQuiet

Spec == Init /\ [][Next]_vars

(* The framework goes on advancing the queue and a callback ends.  No      *)
(* frame need ever arrive, nor a disabled receiver come to rest.           *)
FairSpec == Spec /\ WF_vars(AdvanceBegin) /\ WF_vars(Advance)

-----------------------------------------------------------------------------
(* Types.  The end-of-ring flag keeps the device within the ring.          *)
TypeOK ==
  /\ {pBegin, pEnd, pi} \subseteq Slots
  /\ {fBegin, fNext, fEnd, fi, hwIndex} \subseteq Frags
  /\ packet \in [Slots -> [FragmentIndex : Frags, Ignore : BOOLEAN]]
  /\ desc \in [Slots -> [own : BOOLEAN, eor : BOOLEAN, fresh : BOOLEAN]]
  /\ pc \in {"stopped", "idle", "indicate", "post", "status"}
  /\ cancel \in {"no", "running", "done", "stranded"}
  /\ receiver \in {"on", "draining", "off"}
  /\ landed \in Seq(Frags)

(* What RxIndicateReceives hands back was received, in the order of        *)
(* arrival: the n-th packet names the n-th fragment the device filled.     *)
(* Not so in an Advance after a cancel that found buffers unposted: the    *)
(* drain iterator then runs from EndIndex round to NextIndex.              *)
IndicatedWasReceived ==
  pc = "indicate" /\ cancel # "stranded" =>
    LET n == Count(fBegin, fi)
    IN  /\ n <= Len(landed) /\ n = (pi - pBegin) % NumPackets
        /\ \A k \in 1 .. n : packet[PAdd(pBegin, k - 1)].FragmentIndex = landed[k]

(* Until a cancel hands the buffers back, a descriptor the device owns     *)
(* holds the address of a buffer that is in the ring and has not been      *)
(* handed back.  EvtRxQueueCancel itself waits for nothing: after it the   *)
(* device may fill buffers the framework has got back.                     *)
BuffersHeld ==
  \A j \in Slots : Holding /\ desc[j].own =>
    desc[j].fresh /\ Count(fBegin, j) < Count(fBegin, fEnd)

(* The device and the driver look at the same descriptor: the device's     *)
(* next one is the first posted and not filled.  Were they apart, the      *)
(* device would wait at a descriptor the driver never posts.               *)
Aligned == receiver = "on" => hwIndex = FAdd(fBegin, Len(landed))

-----------------------------------------------------------------------------
(* The inductive invariant.  Fragments are counted from BeginIndex.        *)

(* How many of them the driver has given to the device.                    *)
Posted == Count(fBegin, IF pc \in {"post", "status"} THEN fi ELSE fNext)

(* A cancelled queue has no frame that waits, and if all its buffers were  *)
(* posted nothing to indicate or to post either.                           *)
Phases ==
  /\ receiver = "on" <=> pc # "stopped" /\ cancel = "no"
  /\ pc = "stopped" /\ cancel = "no" => fBegin = fEnd /\ ~\E j \in Slots : desc[j].own
  /\ pc = "stopped" \/ ~Holding => landed = <<>>
  /\ cancel = "done" => fBegin = fEnd /\ fNext = fEnd
  /\ cancel = "running" => pc = "indicate"

(* BeginIndex, the iterator, NextIndex and EndIndex follow one another.    *)
Iterators ==
  /\ pc # "stopped" /\ cancel # "stranded" =>
       /\ Count(fBegin, fNext) <= Count(fBegin, fEnd)
       /\ pc = "indicate" => Count(fBegin, fi) <= Count(fBegin, fNext)
       /\ pc \in {"post", "status"} => Count(fBegin, fNext) <= Posted /\ Posted <= Count(fBegin, fEnd)
  /\ pc = "status" => fi # fEnd /\ desc[fi].fresh

(* The device owns what it was given and has not filled, and is to fill    *)
(* the first of these next; the last descriptor sends it back to the first.*)
Ownership ==
  /\ \A j \in Slots : desc[j].own => j \in Frags /\ (desc[j].eor <=> j = NumFragments - 1)
  /\ pc # "stopped" /\ Holding =>
       /\ Len(landed) <= Posted
       /\ \A k \in 1 .. Len(landed) : landed[k] = FAdd(fBegin, k - 1)
       /\ hwIndex = FAdd(fBegin, Len(landed))
       /\ \A j \in Slots :
            /\ desc[j].own <=> j \in Frags /\ Len(landed) <= Count(fBegin, j) /\ Count(fBegin, j) < Posted
            /\ desc[j].own => desc[j].fresh

(* No run leaves what holds of the rings, the descriptors and the device   *)
(* together, from which the other properties follow.                       *)
IInv == TypeOK /\ Phases /\ Iterators /\ Ownership /\ IndicatedWasReceived

-----------------------------------------------------------------------------
(* The ring implements the service, handed-over buffers being those from   *)
(* BeginIndex up to EndIndex, and none once a cancel has stranded it.      *)
Service == INSTANCE RtRxService WITH
  Fragments   <- Frags,
  outstanding <- [k \in 1 .. IF cancel = "stranded" THEN 0 ELSE Count(fBegin, fEnd) |->
                    [fragment |-> FAdd(fBegin, k - 1),
                     filled   |-> \E n \in 1 .. Len(landed) : landed[n] = FAdd(fBegin, k - 1)]]

(* Buffers are filled in order, and come back in order and only when       *)
(* filled or cancelled: every step is a step of RtRxService.               *)
Implements == Service!Spec

(* A frame the device wrote is handed to the framework: the queue never    *)
(* stays behind a filled buffer.                                           *)
FramesIndicated ==
  \A j \in Frags : (landed # <<>> /\ fBegin = j) ~> (fBegin # j \/ landed = <<>>)
=============================================================================
