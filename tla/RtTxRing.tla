------------------------------ MODULE RtTxRing ------------------------------
(***************************************************************************)
(* The transmit data path: EvtTxQueueAdvance posts the packets of the      *)
(* framework's ring to the descriptor ring of the device and takes back    *)
(* those the device has finished (txqueue.cpp, netringiterator.h), while   *)
(* the device fetches descriptors and hands them back.                     *)
(*                                                                         *)
(* The framework changes the rings only between two calls of               *)
(* EvtTxQueueAdvance; the device works at any time, so the driver is cut   *)
(* at every access to memory the device also uses: the fields and then the *)
(* status of one descriptor, the poll register, the status of the first    *)
(* descriptor of one packet.  Indices wrap as NetRingIncrementIndex does.  *)
(***************************************************************************)
EXTENDS Integers, Sequences, FiniteSets

CONSTANTS
  NumPackets,    \* NumberOfElements of the packet ring
  NumFragments,  \* NumberOfElements of the fragment ring, and NumTxDesc
  MaxFragments,  \* the most fragments the framework gives one packet
  WriteBack      \* "packet": the device hands a packet's descriptors back
                 \* together; "descriptor": each when it has read its buffer

ASSUME RingAssumption ==
  /\ NumPackets \in Nat \ {0, 1} /\ NumFragments \in Nat \ {0, 1}
  /\ MaxFragments \in 1 .. NumFragments - 1
  /\ WriteBack \in {"packet", "descriptor"}

Slots == 0 .. NumPackets - 1
Frags == 0 .. NumFragments - 1

VARIABLES
  pBegin, pNext, pEnd,   \* the indices of the packet ring
  fBegin, fNext, fEnd,   \* the indices of the fragment ring
  packet,                \* the NET_PACKETs
  tcb,                   \* tx->PacketContext
  desc,                  \* tx->TxdBase
  txDescIndex,           \* tx->TxDescIndex
  pc,                    \* where EvtTxQueueAdvance is; "stopped" before Start
  pi,                    \* the index of its packet iterator
  programmed,            \* programmedPackets
  poll,                  \* TPPoll_NPQ is set
  hwIndex,               \* the descriptor the device looks at next
  frame,                 \* what it has read of the frame it is fetching
  sent,                  \* history: outstanding packets sent whole and in order
  garbled                \* history: some frame was not exactly one packet

ringVars == <<pBegin, pNext, pEnd, fBegin, fNext, fEnd, packet>>
pcVars   == <<pc, pi, programmed>>
hwVars   == <<hwIndex, frame, sent, garbled>>
vars     == <<pBegin, pNext, pEnd, fBegin, fNext, fEnd, packet, tcb, desc, txDescIndex,
              pc, pi, programmed, poll, hwIndex, frame, sent, garbled>>

(* NetRingIncrementIndex and NetRingAdvanceIndex.                          *)
PAdd(i, n) == (i + n) % NumPackets
FAdd(i, n) == (i + n) % NumFragments

(* The slots from b up to e, e excluded.                                   *)
SlotsBetween(b, e) == {PAdd(b, k) : k \in 0 .. ((e - b) % NumPackets) - 1}

(* Mutant: one fragment too far.                                           *)
FragmentEndPast(s) == FAdd(packet[s].FragmentIndex, packet[s].FragmentCount + 1)

(* NetPacketIteratorGetFragments: where the fragments of packet s end.     *)
FragmentEnd(s) == FAdd(packet[s].FragmentIndex, packet[s].FragmentCount)

(* The fragments of packet s in order.                                     *)
Fragments(s) ==
  [k \in 1 .. packet[s].FragmentCount |-> FAdd(packet[s].FragmentIndex, k - 1)]

Zero == [own |-> FALSE, fs |-> FALSE, ls |-> FALSE, eor |-> FALSE, frag |-> 0]

Init ==
  /\ pBegin = 0 /\ pNext = 0 /\ pEnd = 0
  /\ fBegin = 0 /\ fNext = 0 /\ fEnd = 0
  /\ packet = [s \in Slots |-> [FragmentIndex |-> 0, FragmentCount |-> 0, Ignore |-> FALSE]]
  /\ tcb = [s \in Slots |-> [FirstTxDescIdx |-> 0, NumTxDesc |-> 0]]
  /\ desc = [j \in Frags |-> Zero]
  /\ txDescIndex = 0
  /\ pc = "stopped" /\ pi = 0 /\ programmed = FALSE /\ poll = FALSE
  /\ hwIndex = 0 /\ frame = <<>> /\ sent = {} /\ garbled = FALSE

-----------------------------------------------------------------------------
(* The framework.                                                          *)

(* Mutant: goes on at the descriptor where the last run stopped.           *)
StartKeepsIndex ==
  /\ pc = "stopped"
  /\ desc' = [j \in Frags |-> Zero]
  /\ hwIndex' = 0 /\ frame' = <<>>
  /\ pc' = "idle"
  /\ UNCHANGED <<ringVars, tcb, txDescIndex, pi, programmed, poll, sent, garbled>>

(* EvtTxQueueStart: descriptors zeroed, both sides at the first one.       *)
Start ==
  /\ pc = "stopped"
  /\ desc' = [j \in Frags |-> Zero]
  /\ txDescIndex' = 0
  /\ hwIndex' = 0 /\ frame' = <<>>
  /\ pc' = "idle"
  /\ UNCHANGED <<ringVars, tcb, pi, programmed, poll, sent, garbled>>

(* EvtTxQueueStop, once the cancelled queue has been drained: cancelling   *)
(* does nothing itself.                                                    *)
Stop ==
  /\ pc = "idle" /\ pBegin = pEnd
  /\ pc' = "stopped"
  /\ UNCHANGED <<ringVars, tcb, desc, txDescIndex, pi, programmed, poll, hwVars>>

(* A packet of n fragments, none if it is to be ignored; a ring of N       *)
(* elements holds at most N - 1.                                           *)
Submit(n) ==
  /\ pc = "idle"
  /\ PAdd(pEnd, 1) # pBegin
  /\ ((fEnd - fBegin) % NumFragments) + n < NumFragments
  /\ packet' = [packet EXCEPT ![pEnd] =
       [FragmentIndex |-> fEnd, FragmentCount |-> n, Ignore |-> n = 0]]
  /\ pEnd' = PAdd(pEnd, 1)
  /\ fEnd' = FAdd(fEnd, n)
  /\ UNCHANGED <<pBegin, pNext, fBegin, fNext, tcb, desc, txDescIndex, pcVars, poll, hwVars>>

-----------------------------------------------------------------------------
(* EvtTxQueueAdvance, first part: RtTransmitPackets.                       *)

AdvanceBegin ==
  /\ pc = "idle" /\ pBegin # pEnd
  /\ pi' = pNext /\ programmed' = FALSE
  /\ pc' = "post"
  /\ UNCHANGED <<ringVars, tcb, desc, txDescIndex, poll, hwVars>>

PostIgnored ==
  /\ pc = "post" /\ pi # pEnd /\ packet[pi].Ignore
  /\ pi' = PAdd(pi, 1)
  /\ UNCHANGED <<ringVars, tcb, desc, txDescIndex, pc, programmed, poll, hwVars>>

(* Mutant: takes the packet index for the descriptor index.                *)
PostPacketBySlot ==
  /\ pc = "post" /\ pi # pEnd /\ ~packet[pi].Ignore
  /\ tcb' = [tcb EXCEPT ![pi] = [FirstTxDescIdx |-> pi, NumTxDesc |-> 0]]
  /\ pc' = "fields"
  /\ UNCHANGED <<ringVars, desc, txDescIndex, pi, programmed, poll, hwVars>>

PostPacket ==
  /\ pc = "post" /\ pi # pEnd /\ ~packet[pi].Ignore
  /\ tcb' = [tcb EXCEPT ![pi] = [FirstTxDescIdx |-> txDescIndex, NumTxDesc |-> 0]]
  /\ pc' = "fields"
  /\ UNCHANGED <<ringVars, desc, txDescIndex, pi, programmed, poll, hwVars>>

(* The fields of RtPostTxDescriptor that precede its memory barrier.       *)
PostFields ==
  /\ pc = "fields" /\ tcb[pi].NumTxDesc < packet[pi].FragmentCount
  /\ desc' = [desc EXCEPT ![txDescIndex].frag =
                FAdd(packet[pi].FragmentIndex, tcb[pi].NumTxDesc)]
  /\ pc' = "status"
  /\ UNCHANGED <<ringVars, tcb, txDescIndex, pi, programmed, poll, hwVars>>

(* Mutant: no end-of-ring flag.                                            *)
PostStatusNoEor ==
  /\ pc = "status"
  /\ desc' = [desc EXCEPT ![txDescIndex] =
       [own |-> TRUE, frag |-> @.frag, eor |-> FALSE,
        fs  |-> tcb[pi].NumTxDesc = 0,
        ls  |-> tcb[pi].NumTxDesc + 1 = packet[pi].FragmentCount]]
  /\ txDescIndex' = (txDescIndex + 1) % NumFragments
  /\ tcb' = [tcb EXCEPT ![pi].NumTxDesc = @ + 1]
  /\ pc' = "fields"
  /\ UNCHANGED <<ringVars, pi, programmed, poll, hwVars>>

(* The status of RtPostTxDescriptor, which gives the descriptor away.      *)
PostStatus ==
  /\ pc = "status"
  /\ desc' = [desc EXCEPT ![txDescIndex] =
       [own |-> TRUE, frag |-> @.frag,
        fs  |-> tcb[pi].NumTxDesc = 0,
        ls  |-> tcb[pi].NumTxDesc + 1 = packet[pi].FragmentCount,
        eor |-> txDescIndex = NumFragments - 1]]
  /\ txDescIndex' = (txDescIndex + 1) % NumFragments
  /\ tcb' = [tcb EXCEPT ![pi].NumTxDesc = @ + 1]
  /\ pc' = "fields"
  /\ UNCHANGED <<ringVars, pi, programmed, poll, hwVars>>

PostPacketEnd ==
  /\ pc = "fields" /\ tcb[pi].NumTxDesc = packet[pi].FragmentCount
  /\ fNext' = FragmentEnd(pi)
  /\ programmed' = TRUE
  /\ pi' = PAdd(pi, 1)
  /\ pc' = "post"
  /\ UNCHANGED <<pBegin, pNext, pEnd, fBegin, fEnd, packet, tcb, desc, txDescIndex, poll, hwVars>>

(* Mutant: rings the device only when it had nothing outstanding.          *)
PostEndIfEmpty ==
  /\ pc = "post" /\ pi = pEnd
  /\ pNext' = pi
  /\ poll' = (poll \/ (programmed /\ pBegin = pNext))
  /\ pi' = pBegin
  /\ pc' = "complete"
  /\ UNCHANGED <<pBegin, pEnd, fBegin, fNext, fEnd, packet, tcb, desc, txDescIndex,
                 programmed, hwVars>>

(* NetPacketIteratorSet and RtFlushTransation.                             *)
PostEnd ==
  /\ pc = "post" /\ pi = pEnd
  /\ pNext' = pi
  /\ poll' = (poll \/ programmed)
  /\ pi' = pBegin
  /\ pc' = "complete"
  /\ UNCHANGED <<pBegin, pEnd, fBegin, fNext, fEnd, packet, tcb, desc, txDescIndex,
                 programmed, hwVars>>

-----------------------------------------------------------------------------
(* EvtTxQueueAdvance, second part: RtCompleteTransmitPackets.              *)

(* Mutant: takes the packet index for the descriptor index.                *)
TransferPendingBySlot(s) == ~packet[s].Ignore /\ desc[s].own

(* RtIsPacketTransferComplete looks at the first descriptor of the packet. *)
TransferPending(s) == ~packet[s].Ignore /\ desc[tcb[s].FirstTxDescIdx].own

(* The descriptors RtPostTxDescriptor gave packet s.                       *)
Descriptors(s) == {FAdd(tcb[s].FirstTxDescIdx, k) : k \in 0 .. tcb[s].NumTxDesc - 1}

CompletePacket ==
  /\ pc = "complete" /\ pi # pNext /\ ~TransferPending(pi)
  /\ IF packet[pi].Ignore
     THEN UNCHANGED <<desc, fBegin>>
     ELSE /\ desc' = [j \in Frags |-> IF j \in Descriptors(pi)
                                      THEN [Zero EXCEPT !.frag = desc[j].frag] ELSE desc[j]]
          /\ fBegin' = FragmentEnd(pi)
  /\ pi' = PAdd(pi, 1)
  /\ UNCHANGED <<pBegin, pNext, pEnd, fNext, fEnd, packet, tcb, txDescIndex,
                 pc, programmed, poll, hwVars>>

(* Mutant: hands back everything posted.                                   *)
CompleteEndAll ==
  /\ pc = "complete" /\ (pi = pNext \/ TransferPending(pi))
  /\ pBegin' = pNext
  /\ sent' = sent \ SlotsBetween(pBegin, pNext)
  /\ pc' = "idle"
  /\ UNCHANGED <<pNext, pEnd, fBegin, fNext, fEnd, packet, tcb, desc, txDescIndex,
                 pi, programmed, poll, hwIndex, frame, garbled>>

CompleteEnd ==
  /\ pc = "complete" /\ (pi = pNext \/ TransferPending(pi))
  /\ pBegin' = pi
  /\ sent' = sent \ SlotsBetween(pBegin, pi)
  /\ pc' = "idle"
  /\ UNCHANGED <<pNext, pEnd, fBegin, fNext, fEnd, packet, tcb, desc, txDescIndex,
                 pi, programmed, poll, hwIndex, frame, garbled>>

-----------------------------------------------------------------------------
(* The device: it fetches the descriptors it owns in order, follows the    *)
(* end-of-ring flag, and sends a frame at a last-segment flag.             *)

(* The oldest packet not sent yet.                                         *)
Unsent == {s \in SlotsBetween(pBegin, pEnd) : ~packet[s].Ignore /\ s \notin sent}
IsOldest(s) == s \in Unsent /\ \A t \in Unsent : (s - pBegin) % NumPackets <= (t - pBegin) % NumPackets

(* What the device has read, rs, is exactly packet s.                      *)
IsWhole(rs, s) ==
  /\ [k \in 1 .. Len(rs) |-> rs[k].frag] = Fragments(s)
  /\ \A k \in 1 .. Len(rs) : rs[k].fs = (k = 1)

HwFetch ==
  LET d    == desc[hwIndex]
      read == Append(frame, [index |-> hwIndex, frag |-> d.frag, fs |-> d.fs])
      back == IF WriteBack = "descriptor" THEN {hwIndex}
              ELSE IF d.ls THEN {read[k].index : k \in 1 .. Len(read)} ELSE {}
      whole == {s \in Unsent : IsOldest(s) /\ IsWhole(read, s)}
  IN  /\ pc # "stopped" /\ poll /\ d.own
      /\ hwIndex' = IF d.eor THEN 0 ELSE hwIndex + 1
      /\ desc' = [j \in Frags |-> IF j \in back THEN [desc[j] EXCEPT !.own = FALSE] ELSE desc[j]]
      /\ frame' = IF d.ls THEN <<>> ELSE read
      /\ sent' = IF d.ls THEN sent \cup whole ELSE sent
      /\ garbled' = (garbled \/ (d.ls /\ whole = {}))
      /\ UNCHANGED <<ringVars, tcb, txDescIndex, pcVars, poll>>

(* Nothing to send: the device ends the polling it was asked for.          *)
HwIdle ==
  /\ poll /\ ~desc[hwIndex].own
  /\ poll' = FALSE
  /\ UNCHANGED <<ringVars, tcb, desc, txDescIndex, pcVars, hwVars>>

-----------------------------------------------------------------------------
Advance == \/ PostIgnored \/ PostPacket \/ PostFields \/ PostStatus
           \/ PostPacketEnd \/ PostEnd \/ CompletePacket \/ CompleteEnd

Next ==
  \/ Start \/ Stop \/ \E n \in 0 .. MaxFragments : Submit(n)
  \/ AdvanceBegin \/ Advance
  \/ HwFetch \/ HwIdle

Spec == Init /\ [][Next]_vars

(* The framework goes on advancing a queue that has packets outstanding, a *)
(* call of EvtTxQueueAdvance ends, and a device that was asked to poll     *)
(* fetches.                                                                *)
FairSpec == Spec /\ WF_vars(AdvanceBegin) /\ WF_vars(Advance) /\ WF_vars(HwFetch)

-----------------------------------------------------------------------------
(* Types.  The end-of-ring flag keeps the device within the ring.          *)
TypeOK ==
  /\ {pBegin, pNext, pEnd, pi} \subseteq Slots
  /\ {fBegin, fNext, fEnd, txDescIndex, hwIndex} \subseteq Frags
  /\ packet \in [Slots -> [FragmentIndex : Frags, FragmentCount : 0 .. MaxFragments, Ignore : BOOLEAN]]
  /\ tcb \in [Slots -> [FirstTxDescIdx : Frags, NumTxDesc : 0 .. MaxFragments]]
  /\ desc \in [Frags -> [own : BOOLEAN, fs : BOOLEAN, ls : BOOLEAN, eor : BOOLEAN, frag : Frags]]
  /\ pc \in {"stopped", "idle", "post", "fields", "status", "complete"}
  /\ programmed \in BOOLEAN /\ poll \in BOOLEAN /\ garbled \in BOOLEAN
  /\ frame \in Seq([index : Frags, frag : Frags, fs : BOOLEAN])
  /\ sent \subseteq Slots

(* "Look at the status flags on the last fragment in the packet.  If the   *)
(* hardware-ownership flag is still set, then the packet isn't done"       *)
(* (txqueue.cpp:292-293): EvtTxQueueAdvance takes back only packets the    *)
(* device has read to their last fragment.                                 *)
CompletedWasSent ==
  pc = "complete" => \A s \in SlotsBetween(pBegin, pi) : packet[s].Ignore \/ s \in sent

(* RtPostTxDescriptor never writes a descriptor that the device owns or    *)
(* that stands for a packet not yet completed.                             *)
PostsToFree ==
  pc = "status" =>
    /\ ~desc[txDescIndex].own
    /\ \A s \in SlotsBetween(pBegin, PAdd(pi, 1)) : packet[s].Ignore \/ txDescIndex \notin Descriptors(s)

(* A descriptor the device owns points at a fragment the framework cannot  *)
(* reuse: one that is in the ring and has not been handed back.            *)
BuffersHeld ==
  \A j \in Frags : desc[j].own =>
    (desc[j].frag - fBegin) % NumFragments < (fEnd - fBegin) % NumFragments

(* Every frame on the wire is exactly the fragments of one packet, and the *)
(* packets go out in the order of the ring, also across a restart.         *)
FramesWhole == ~garbled

-----------------------------------------------------------------------------
(* The inductive invariant.  Packets are counted from BeginIndex,          *)
(* fragments and descriptors from those of the oldest packet not completed.*)
Pos(s)       == (s - pBegin) % NumPackets
Count(b, e)  == (e - b) % NumFragments
Offset(s)    == Count(fBegin, packet[s].FragmentIndex)
EndOffset(s) == Offset(s) + packet[s].FragmentCount

(* The oldest packet not completed, the first one not posted.              *)
Oldest  == IF pc = "complete" THEN pi ELSE pBegin
Posting == IF pc \in {"post", "fields", "status"} THEN pi ELSE pNext

Live == {s \in Slots : Pos(Oldest) <= Pos(s) /\ Pos(s) < Pos(pEnd)}

(* How many descriptors have been posted, taken by the device and handed   *)
(* back, and the one at an offset.                                         *)
Posted    == Count(fBegin, fNext) + IF pc \in {"fields", "status"} THEN tcb[pi].NumTxDesc ELSE 0
DescBegin == Count(Posted, txDescIndex)
At(o)     == FAdd(DescBegin, o)
Taken     == Count(DescBegin, hwIndex)
Gone      == Taken - Len(frame)

(* The indices of the packet ring follow one another.                      *)
Places ==
  /\ Pos(pNext) <= Pos(pEnd)
  /\ pc = "stopped" => pBegin = pEnd
  /\ pc \in {"post", "fields", "status"} => Pos(pNext) <= Pos(pi) /\ Pos(pi) <= Pos(pEnd)
  /\ pc \in {"fields", "status"} => /\ pi # pEnd /\ ~packet[pi].Ignore
                                    /\ tcb[pi].NumTxDesc <= packet[pi].FragmentCount
  /\ pc = "status" => /\ tcb[pi].NumTxDesc # packet[pi].FragmentCount
                      /\ desc[txDescIndex].frag = FAdd(packet[pi].FragmentIndex, tcb[pi].NumTxDesc)
  /\ pc = "complete" => Pos(pi) <= Pos(pNext)

(* The fragments of the packets lie one after the other from BeginIndex to *)
(* EndIndex.                                                               *)
Layout ==
  /\ \A s \in Live :
       /\ packet[s].Ignore <=> packet[s].FragmentCount = 0
       /\ EndOffset(s) <= Count(fBegin, fEnd)
       /\ IF PAdd(s, 1) = pEnd THEN EndOffset(s) = Count(fBegin, fEnd)
          ELSE EndOffset(s) = Offset(PAdd(s, 1))
  /\ \A s, t \in Live : Pos(s) < Pos(t) => EndOffset(s) <= Offset(t)
  /\ \A o \in Frags : o < Count(fBegin, fEnd) => \E s \in Live : Offset(s) <= o /\ o < EndOffset(s)
  /\ fBegin = IF Oldest = pEnd THEN fEnd ELSE packet[Oldest].FragmentIndex
  /\ fNext = IF Posting = pEnd THEN fEnd ELSE packet[Posting].FragmentIndex

(* A packet that is posted has its descriptors at the offsets of its       *)
(* fragments.                                                              *)
Contexts ==
  \A s \in Live : ~packet[s].Ignore =>
    /\ Pos(s) < Pos(Posting) => /\ tcb[s].FirstTxDescIdx = At(Offset(s))
                                /\ tcb[s].NumTxDesc = packet[s].FragmentCount
    /\ s = pi /\ pc \in {"fields", "status"} => tcb[s].FirstTxDescIdx = At(Offset(s))

(* The device owns what was posted and not handed back.                    *)
Ownership ==
  \A o \in Frags :
    /\ desc[At(o)].own <=> Gone <= o /\ o < Posted
    /\ desc[At(o)].own =>
         /\ desc[At(o)].frag = FAdd(fBegin, o)
         /\ desc[At(o)].eor <=> At(o) = NumFragments - 1
         /\ \A s \in Live : Offset(s) <= o /\ o < EndOffset(s) =>
              /\ desc[At(o)].fs <=> o = Offset(s)
              /\ desc[At(o)].ls <=> o + 1 = EndOffset(s)

(* What the device has read is the beginning of the oldest packet not      *)
(* sent, and never its end.                                                *)
Frames ==
  /\ 0 <= Gone /\ Taken <= Posted
  /\ \A k \in 1 .. Len(frame) :
       frame[k] = [index |-> At(Gone + k - 1), frag |-> FAdd(fBegin, Gone + k - 1), fs |-> (k = 1)]
  /\ \A s \in Live : ~packet[s].Ignore =>
       IF s \in sent THEN EndOffset(s) <= Gone ELSE Gone <= Offset(s) /\ Taken < EndOffset(s)
  /\ \A s \in sent : Pos(s) < Pos(pEnd) /\ ~packet[s].Ignore
  /\ \A s \in Slots : Pos(s) < Pos(Oldest) => packet[s].Ignore \/ s \in sent

(* If the device hands the descriptors of a packet back together, rings,   *)
(* contexts, descriptors and device agree at every step; the properties    *)
(* above follow.                                                           *)
RingsAgree == TypeOK /\ Places /\ Layout /\ Contexts /\ Ownership /\ Frames /\ FramesWhole

(* A device that has a descriptor to fetch polls, or the call that posts   *)
(* has yet to ring it (RtFlushTransation, txqueue.cpp:342-351).            *)
Doorbell ==
  desc[hwIndex].own =>
    \/ poll
    \/ pc = "post" /\ programmed
    \/ pc \in {"fields", "status"} /\ (programmed \/ tcb[pi].NumTxDesc > 0)

IInv == RingsAgree /\ Doorbell

-----------------------------------------------------------------------------
(* The ring implements the service, handed-over packets being those from   *)
(* BeginIndex up to EndIndex.                                              *)
Service == INSTANCE RtTxService WITH
  outstanding <- [k \in 1 .. (pEnd - pBegin) % NumPackets |->
                    [slot    |-> PAdd(pBegin, k - 1),
                     ignored |-> packet[PAdd(pBegin, k - 1)].Ignore,
                     sent    |-> PAdd(pBegin, k - 1) \in sent]]

(* Packets go out in order, once, and come back in order and only when     *)
(* settled: every step of driver and device is a step of RtTxService.      *)
Implements == Service!Spec

(* A packet handed over comes back: the poll register is never left clear  *)
(* with a descriptor waiting.                                              *)
PacketsReturn == \A s \in Slots : (pBegin = s /\ pEnd # s) ~> pBegin # s
=============================================================================
