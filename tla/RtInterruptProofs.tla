------------------------- MODULE RtInterruptProofs -------------------------
(***************************************************************************)
(* Proofs, for every number of queues, of DPC processors and every set of  *)
(* flags the device may raise, of the safety properties of RtInterrupt.    *)
(* Each follows from IInv, which is inductive.                             *)
(***************************************************************************)
EXTENDS RtInterrupt, TLAPS

USE DEF hwVars, isrVars, dpcVars, queueVars, lockVars

-----------------------------------------------------------------------------
(* Type correctness.                                                       *)

(* The device, the connection and the ISR keep the types.                  *)
LEMMA TypeIsr ==
  ASSUME TypeOK, Hardware \/ EvtInterruptEnable \/ EvtInterruptDisable \/ Isr
  PROVE  TypeOK'
<1> USE DEF TypeOK
<1>1. CASE SurpriseRemove
  BY <1>1 DEF SurpriseRemove
<1>2. ASSUME NEW f \in Raised, HwRaise(f) PROVE TypeOK'
  BY <1>2, RaisedAssumption DEF HwRaise
<1>3. CASE EvtInterruptEnable
  BY <1>3 DEF EvtInterruptEnable
<1>4. CASE EvtInterruptDisable
  BY <1>4 DEF EvtInterruptDisable
<1>5. CASE IsrRead
  BY <1>5 DEF IsrRead
<1>6. CASE IsrNotOurs
  BY <1>6 DEF IsrNotOurs
<1>7. CASE IsrSave
  BY <1>7 DEF IsrSave
<1>8. CASE IsrMask
  BY <1>8 DEF IsrMask
<1> QED BY <1>1, <1>2, <1>3, <1>4, <1>5, <1>6, <1>7, <1>8 DEF Hardware, Isr

(* Every step of a DPC keeps the types.                                    *)
LEMMA TypeDpc ==
  ASSUME TypeOK, NEW d \in Dpcs, Dpc(d)
  PROVE  TypeOK'
<1> USE DEF TypeOK
<1>1. CASE DpcStart(d)
  <2>1. flushWait' \in [Queues -> SUBSET (Dpcs \cup {Queued})]
    BY <1>1 DEF DpcStart
  <2> QED BY <1>1, <2>1 DEF DpcStart
<1>2. CASE DpcTake(d)
  BY <1>2 DEF DpcTake
<1>3. CASE DpcExchange(d)
  BY <1>3 DEF DpcExchange, IsNext
<1>4. CASE DpcNotify(d)
  BY <1>4 DEF DpcNotify
<1>5. CASE DpcLinkLock(d)
  BY <1>5 DEF DpcLinkLock
<1>6. CASE DpcLinkUnlock(d)
  BY <1>6 DEF DpcLinkUnlock
<1>7. CASE DpcFinish(d)
  BY <1>7 DEF DpcFinish
<1> QED BY <1>1, <1>2, <1>3, <1>4, <1>5, <1>6, <1>7 DEF Dpc

(* Every step of a queue callback keeps the types.                         *)
LEMMA TypeThread ==
  ASSUME TypeOK, NEW q \in Queues, Thread(q)
  PROVE  TypeOK'
<1> USE DEF TypeOK
<1>1. CASE Start(q)
  BY <1>1 DEF Start
<1>2. CASE Arm(q)
  BY <1>2 DEF Arm
<1>3. CASE Disarm(q)
  BY <1>3 DEF Disarm
<1>4. CASE UpdateImr(q)
  BY <1>4 DEF UpdateImr
<1>5. CASE FlushEnter(q)
  BY <1>5 DEF FlushEnter
<1>6. CASE FlushReturn(q)
  BY <1>6 DEF FlushReturn
<1>7. CASE Cancel(q)
  BY <1>7 DEF Cancel
<1>8. CASE StopBegin(q)
  BY <1>8 DEF StopBegin
<1> QED BY <1>1, <1>2, <1>3, <1>4, <1>5, <1>6, <1>7, <1>8 DEF Thread

(* The initial state has the types.                                        *)
LEMMA InitType == Init => TypeOK
<1> SUFFICES ASSUME Init PROVE TypeOK
  OBVIOUS
<1>1. dpcPc \in [Dpcs -> {"idle", "take", "scan", "notify", "link"}]
  BY DEF Init
<1>2. dpcTodo \in [Dpcs -> SUBSET Served]
  BY DEF Init
<1>3. dpcClaim \in [Dpcs -> Queues \cup {NoOne}]
  BY DEF Init
<1>4. /\ armed \in [Queues -> BOOLEAN] /\ handle \in [Queues -> BOOLEAN]
      /\ cancelled \in [Queues -> BOOLEAN] /\ off \in [Queues -> BOOLEAN]
  BY DEF Init
<1>5. /\ tpc \in [Queues -> {"idle", "arming", "disarming", "flush", "flushing"}]
      /\ flushWait \in [Queues -> SUBSET (Dpcs \cup {Queued})]
  BY DEF Init
<1> QED BY <1>1, <1>2, <1>3, <1>4, <1>5 DEF Init, TypeOK

(* Every variable keeps its type, and SavedIsr holds expected flags only.  *)
THEOREM TypeCorrect == Spec => []TypeOK
<1>1. TypeOK /\ [Next]_vars => TypeOK'
  <2> SUFFICES ASSUME TypeOK, [Next]_vars PROVE TypeOK'
    OBVIOUS
  <2>1. CASE Next
    BY <2>1, TypeIsr, TypeDpc, TypeThread DEF Next
  <2>2. CASE UNCHANGED vars
    BY <2>2 DEF TypeOK, vars
  <2> QED BY <2>1, <2>2
<1> QED BY InitType, <1>1, PTL DEF Spec

-----------------------------------------------------------------------------
(* The sources of the flags.                                               *)
LEMMA SourceFacts ==
  /\ LINK \notin Queues /\ NoOne \notin Queues /\ Queues \subseteq Served
  /\ \A f \in ExpectedFlags : f \in Flags
  /\ \A q \in Queues : \A f \in QFlags(q) : f \in Flags /\ f[1] = q
BY NumQueuesAssumption, NoOneAssumption DEF LINK, Queues, RxIds, TX, Served, ExpectedFlags, QFlags

(* Removing the device changes nothing IInv speaks of.                     *)
LEMMA SurpriseRemoveInv ==
  ASSUME IInv, SurpriseRemove
  PROVE  IInv'
<1>1. TypeOK'
  BY TypeIsr DEF Hardware, Isr, IInv
<1>2. NoLostWakeup'
  BY DEF IInv, NoLostWakeup, Carried, SurpriseRemove
<1>3. ASSUME NEW p \in Queues PROVE QueueInv(p)'
  BY DEF IInv, QueueInv, Carried, SurpriseRemove
<1>4. ASSUME NEW e \in Dpcs PROVE DpcInv(e)'
  BY DEF IInv, DpcInv, SurpriseRemove
<1> QED BY <1>1, <1>2, <1>3, <1>4 DEF IInv

(* Nor does a flag the device raises: IInv does not bound isr.             *)
LEMMA HwRaiseInv ==
  ASSUME IInv, NEW f \in Raised, HwRaise(f)
  PROVE  IInv'
<1>1. TypeOK'
  BY TypeIsr DEF Hardware, Isr, IInv
<1>2. NoLostWakeup'
  BY DEF IInv, NoLostWakeup, Carried, HwRaise
<1>3. ASSUME NEW p \in Queues PROVE QueueInv(p)'
  BY DEF IInv, QueueInv, Carried, HwRaise
<1>4. ASSUME NEW e \in Dpcs PROVE DpcInv(e)'
  BY DEF IInv, DpcInv, HwRaise
<1> QED BY <1>1, <1>2, <1>3, <1>4 DEF IInv

(* Connecting enables only the link change: no queue is armed.             *)
LEMMA EvtInterruptEnableInv ==
  ASSUME IInv, EvtInterruptEnable
  PROVE  IInv'
<1>1. TypeOK'
  BY TypeIsr DEF Hardware, Isr, IInv
<1>2. NoLostWakeup'
  BY DEF IInv, TypeOK, QueueInv, NoLostWakeup, Carried, EvtInterruptEnable
<1>3. ASSUME NEW p \in Queues PROVE QueueInv(p)'
  <2>1. ~handle[p] /\ ~armed[p]
    BY DEF IInv, TypeOK, QueueInv, EvtInterruptEnable
  <2>2. QFlags(p) \cap imr' = {}
    BY <2>1, SourceFacts DEF EvtInterruptEnable, Enable
  <2> QED BY <2>1, <2>2 DEF IInv, TypeOK, QueueInv, Carried, EvtInterruptEnable
<1>4. ASSUME NEW e \in Dpcs PROVE DpcInv(e)'
  BY DEF IInv, DpcInv, EvtInterruptEnable
<1> QED BY <1>1, <1>2, <1>3, <1>4 DEF IInv

(* Disconnecting masks everything: no queue is armed.                      *)
LEMMA EvtInterruptDisableInv ==
  ASSUME IInv, EvtInterruptDisable
  PROVE  IInv'
<1>1. TypeOK'
  BY TypeIsr DEF Hardware, Isr, IInv
<1>2. NoLostWakeup'
  BY DEF IInv, TypeOK, QueueInv, NoLostWakeup, Carried, EvtInterruptDisable
<1>3. ASSUME NEW p \in Queues PROVE QueueInv(p)'
  BY DEF IInv, QueueInv, Carried, EvtInterruptDisable
<1>4. ASSUME NEW e \in Dpcs PROVE DpcInv(e)'
  BY DEF IInv, DpcInv, EvtInterruptDisable
<1> QED BY <1>1, <1>2, <1>3, <1>4 DEF IInv

(* Reading the ISR only fills the locals of the service routine.           *)
LEMMA IsrReadInv ==
  ASSUME IInv, IsrRead
  PROVE  IInv'
<1>1. TypeOK'
  BY TypeIsr DEF Hardware, Isr, IInv
<1>2. NoLostWakeup'
  BY DEF IInv, NoLostWakeup, Carried, IsrRead
<1>3. ASSUME NEW p \in Queues PROVE QueueInv(p)'
  BY DEF IInv, QueueInv, Carried, IsrRead
<1>4. ASSUME NEW e \in Dpcs PROVE DpcInv(e)'
  BY DEF IInv, DpcInv, IsrRead
<1> QED BY <1>1, <1>2, <1>3, <1>4 DEF IInv

(* An interrupt of another device is dismissed.                            *)
LEMMA IsrNotOursInv ==
  ASSUME IInv, IsrNotOurs
  PROVE  IInv'
<1>1. TypeOK'
  BY TypeIsr DEF Hardware, Isr, IInv
<1>2. NoLostWakeup'
  BY DEF IInv, NoLostWakeup, Carried, IsrNotOurs
<1>3. ASSUME NEW p \in Queues PROVE QueueInv(p)'
  BY DEF IInv, QueueInv, Carried, IsrNotOurs
<1>4. ASSUME NEW e \in Dpcs PROVE DpcInv(e)'
  BY DEF IInv, DpcInv, IsrNotOurs
<1> QED BY <1>1, <1>2, <1>3, <1>4 DEF IInv

(* Acknowledged flags of an armed queue are carried by SavedIsr.           *)
LEMMA IsrSaveInv ==
  ASSUME IInv, IsrSave
  PROVE  IInv'
<1>1. TypeOK'
  BY TypeIsr DEF Hardware, Isr, IInv
<1>2. NoLostWakeup'
  BY DEF IInv, NoLostWakeup, Carried, IsrSave
<1>3. ASSUME NEW p \in Queues PROVE QueueInv(p)'
  BY SourceFacts DEF IInv, TypeOK, QueueInv, Carried, IsrSave
<1>4. ASSUME NEW e \in Dpcs PROVE DpcInv(e)'
  BY DEF IInv, DpcInv, IsrSave
<1> QED BY <1>1, <1>2, <1>3, <1>4 DEF IInv

(* What the ISR masks for an armed queue is carried to a DPC.              *)
LEMMA IsrMaskInv ==
  ASSUME IInv, IsrMask
  PROVE  IInv'
<1>1. TypeOK'
  BY TypeIsr DEF Hardware, Isr, IInv
<1>2. NoLostWakeup'
  <2>1. ASSUME NEW p \in Queues, armed[p], tpc[p] = "idle", ~Carried(p)
        PROVE  QFlags(p) \subseteq imr'
    <3>1. handle[p] /\ isrSeen \cap QFlags(p) = {}
      BY <2>1 DEF IInv, QueueInv, IsrMask
    <3>2. ASSUME NEW f \in QFlags(p) PROVE f \in Flags /\ Visible(f) /\ Enable(f) /\ f \notin isrSeen
      BY <2>1, <3>1, SourceFacts DEF Visible, Enable
    <3> QED BY <3>2 DEF IsrMask
  <2> QED BY <2>1 DEF IInv, NoLostWakeup, Carried, IsrMask
<1>3. ASSUME NEW p \in Queues PROVE QueueInv(p)'
  <2>1. ~handle[p] \/ tpc[p] \in {"flush", "flushing"} => QFlags(p) \cap imr' = {}
    <3> SUFFICES ASSUME ~handle[p] \/ tpc[p] \in {"flush", "flushing"}, NEW f \in QFlags(p)
                 PROVE  f \notin imr'
      OBVIOUS
    <3>1. ~armed[p] /\ f \notin imr
      BY DEF IInv, QueueInv
    <3>2. ~Enable(f)
      BY <3>1, SourceFacts DEF Enable
    <3> QED BY <3>1, <3>2 DEF IsrMask
  <2> QED BY <2>1 DEF IInv, QueueInv, IsrMask
<1>4. ASSUME NEW e \in Dpcs PROVE DpcInv(e)'
  BY DEF IInv, DpcInv, IsrMask
<1> QED BY <1>1, <1>2, <1>3, <1>4 DEF IInv

(* A starting DPC stays in every flush that waited for it.                 *)
LEMMA DpcStartInv ==
  ASSUME IInv, NEW d \in Dpcs, DpcStart(d)
  PROVE  IInv'
<1>1. TypeOK'
  BY TypeDpc DEF Dpc, IInv
<1>2. NoLostWakeup'
  BY DEF IInv, TypeOK, NoLostWakeup, Carried, DpcStart
<1>3. ASSUME NEW p \in Queues PROVE QueueInv(p)'
  BY DEF IInv, TypeOK, QueueInv, Carried, DpcStart
<1>4. ASSUME NEW e \in Dpcs PROVE DpcInv(e)'
  <2>1. \A q \in Queues : e \in flushWait[q] => e \in flushWait'[q]
    BY QueuedAssumption DEF DpcStart
  <2> QED BY <2>1 DEF IInv, TypeOK, DpcInv, DpcStart
<1> QED BY <1>1, <1>2, <1>3, <1>4 DEF IInv

(* What leaves SavedIsr is carried by the DPC that took it.                *)
LEMMA DpcTakeInv ==
  ASSUME IInv, NEW d \in Dpcs, DpcTake(d)
  PROVE  IInv'
<1>1. TypeOK'
  BY TypeDpc DEF Dpc, IInv
<1>2. NoLostWakeup'
  BY SourceFacts DEF IInv, TypeOK, DpcInv, NoLostWakeup, Carried, DpcTake
<1>3. ASSUME NEW p \in Queues PROVE QueueInv(p)'
  BY SourceFacts DEF IInv, TypeOK, DpcInv, QueueInv, Carried, DpcTake
<1>4. ASSUME NEW e \in Dpcs PROVE DpcInv(e)'
  BY DEF IInv, TypeOK, DpcInv, DpcTake
<1> QED BY <1>1, <1>2, <1>3, <1>4 DEF IInv

(* A DPC drops a source only by disarming its queue.                       *)
LEMMA DpcExchangeInv ==
  ASSUME IInv, NEW d \in Dpcs, DpcExchange(d)
  PROVE  IInv'
<1>1. TypeOK'
  BY TypeDpc DEF Dpc, IInv
<1>2. NoLostWakeup'
  BY DEF IInv, TypeOK, NoLostWakeup, Carried, DpcExchange
<1>3. ASSUME NEW p \in Queues PROVE QueueInv(p)'
  BY DEF IInv, TypeOK, QueueInv, Carried, DpcExchange
<1>4. ASSUME NEW e \in Dpcs PROVE DpcInv(e)'
  BY SourceFacts DEF IInv, TypeOK, QueueInv, DpcInv, DpcExchange
<1> QED BY <1>1, <1>2, <1>3, <1>4 DEF IInv

(* The end of a notification gives up the claim.                           *)
LEMMA DpcNotifyInv ==
  ASSUME IInv, NEW d \in Dpcs, DpcNotify(d)
  PROVE  IInv'
<1>1. TypeOK'
  BY TypeDpc DEF Dpc, IInv
<1>2. NoLostWakeup'
  BY DEF IInv, TypeOK, NoLostWakeup, Carried, DpcNotify
<1>3. ASSUME NEW p \in Queues PROVE QueueInv(p)'
  BY DEF IInv, TypeOK, QueueInv, Carried, DpcNotify
<1>4. ASSUME NEW e \in Dpcs PROVE DpcInv(e)'
  BY SourceFacts DEF IInv, TypeOK, DpcInv, DpcNotify
<1> QED BY <1>1, <1>2, <1>3, <1>4 DEF IInv

(* A DPC that takes adapter->Lock has only the link left to do.            *)
LEMMA DpcLinkLockInv ==
  ASSUME IInv, NEW d \in Dpcs, DpcLinkLock(d)
  PROVE  IInv'
<1>1. TypeOK'
  BY TypeDpc DEF Dpc, IInv
<1>2. NoLostWakeup'
  BY DEF IInv, TypeOK, NoLostWakeup, Carried, DpcLinkLock
<1>3. ASSUME NEW p \in Queues PROVE QueueInv(p)'
  BY SourceFacts, DpcsAssumption DEF IInv, TypeOK, QueueInv, Carried, DpcLinkLock
<1>4. ASSUME NEW e \in Dpcs PROVE DpcInv(e)'
  BY DEF IInv, TypeOK, DpcInv, DpcLinkLock
<1> QED BY <1>1, <1>2, <1>3, <1>4 DEF IInv

(* A DPC that releases adapter->Lock drops only the link.                  *)
LEMMA DpcLinkUnlockInv ==
  ASSUME IInv, NEW d \in Dpcs, DpcLinkUnlock(d)
  PROVE  IInv'
<1>1. TypeOK'
  BY TypeDpc DEF Dpc, IInv
<1>2. NoLostWakeup'
  BY SourceFacts DEF IInv, TypeOK, DpcInv, NoLostWakeup, Carried, DpcLinkUnlock
<1>3. ASSUME NEW p \in Queues PROVE QueueInv(p)'
  BY SourceFacts DEF IInv, TypeOK, DpcInv, QueueInv, Carried, DpcLinkUnlock
<1>4. ASSUME NEW e \in Dpcs PROVE DpcInv(e)'
  BY DEF IInv, TypeOK, DpcInv, DpcLinkUnlock
<1> QED BY <1>1, <1>2, <1>3, <1>4 DEF IInv

(* A DPC that ends has no claim, so no flush needs to wait for it.         *)
LEMMA DpcFinishInv ==
  ASSUME IInv, NEW d \in Dpcs, DpcFinish(d)
  PROVE  IInv'
<1>1. TypeOK'
  BY TypeDpc DEF Dpc, IInv
<1>2. NoLostWakeup'
  BY DEF IInv, TypeOK, NoLostWakeup, Carried, DpcFinish
<1>3. ASSUME NEW p \in Queues PROVE QueueInv(p)'
  BY DEF IInv, TypeOK, QueueInv, Carried, DpcFinish
<1>4. ASSUME NEW e \in Dpcs PROVE DpcInv(e)'
  BY SourceFacts DEF IInv, TypeOK, DpcInv, DpcFinish
<1> QED BY <1>1, <1>2, <1>3, <1>4 DEF IInv

(* A started queue is neither armed nor unmasked.                          *)
LEMMA StartInv ==
  ASSUME IInv, NEW q \in Queues, Start(q)
  PROVE  IInv'
<1>1. TypeOK'
  BY TypeThread DEF Thread, IInv
<1>2. NoLostWakeup'
  BY DEF IInv, TypeOK, NoLostWakeup, Carried, Start
<1>3. ASSUME NEW p \in Queues PROVE QueueInv(p)'
  BY DEF IInv, TypeOK, QueueInv, Carried, Start
<1>4. ASSUME NEW e \in Dpcs PROVE DpcInv(e)'
  BY DEF IInv, TypeOK, DpcInv, Start
<1> QED BY <1>1, <1>2, <1>3, <1>4 DEF IInv

(* An armed queue is in the middle of RtXxQueueSetInterrupt.               *)
LEMMA ArmInv ==
  ASSUME IInv, NEW q \in Queues, Arm(q)
  PROVE  IInv'
<1>1. TypeOK'
  BY TypeThread DEF Thread, IInv
<1>2. NoLostWakeup'
  BY DEF IInv, TypeOK, NoLostWakeup, Carried, Arm
<1>3. ASSUME NEW p \in Queues PROVE QueueInv(p)'
  BY DEF IInv, TypeOK, QueueInv, Carried, Arm
<1>4. ASSUME NEW e \in Dpcs PROVE DpcInv(e)'
  BY DEF IInv, TypeOK, DpcInv, Arm
<1> QED BY <1>1, <1>2, <1>3, <1>4 DEF IInv

(* A disarmed queue makes no new claim on a DPC.                           *)
LEMMA DisarmInv ==
  ASSUME IInv, NEW q \in Queues, Disarm(q)
  PROVE  IInv'
<1>1. TypeOK'
  BY TypeThread DEF Thread, IInv
<1>2. NoLostWakeup'
  BY DEF IInv, TypeOK, NoLostWakeup, Carried, Disarm
<1>3. ASSUME NEW p \in Queues PROVE QueueInv(p)'
  BY DEF IInv, TypeOK, QueueInv, Carried, Disarm
<1>4. ASSUME NEW e \in Dpcs PROVE DpcInv(e)'
  BY DEF IInv, TypeOK, DpcInv, Disarm
<1> QED BY <1>1, <1>2, <1>3, <1>4 DEF IInv

(* RtUpdateImr enables all the flags of every armed queue it writes.       *)
LEMMA UpdateImrInv ==
  ASSUME IInv, NEW q \in Queues, UpdateImr(q)
  PROVE  IInv'
<1>1. TypeOK'
  BY TypeThread DEF Thread, IInv
<1>2. NoLostWakeup'
  <2>1. ASSUME NEW p \in Queues, armed[p], tpc'[p] = "idle", ~Carried(p)
        PROVE  QFlags(p) \subseteq imr'
    <3>1. p = q \/ QFlags(p) \subseteq imr
      BY <2>1 DEF IInv, TypeOK, NoLostWakeup, UpdateImr
    <3>2. ASSUME NEW f \in QFlags(p) PROVE f \in Flags /\ f[1] = p /\ Enable(f)
      BY <2>1, SourceFacts DEF Enable
    <3> QED BY <3>1, <3>2 DEF UpdateImr
  <2>2. UNCHANGED <<armed, saved, dpcTodo, dpcPc, pending, isrPc>>
    BY DEF UpdateImr
  <2> QED BY <2>1, <2>2 DEF IInv, NoLostWakeup, Carried
<1>3. ASSUME NEW p \in Queues PROVE QueueInv(p)'
  <2>1. ~handle[p] \/ tpc'[p] \in {"flush", "flushing"} => QFlags(p) \cap imr' = {}
    <3> SUFFICES ASSUME ~handle[p] \/ tpc'[p] \in {"flush", "flushing"}, NEW f \in QFlags(p)
                 PROVE  f \notin imr'
      OBVIOUS
    <3>1. ~armed[p] /\ (p = q \/ f \notin imr)
      BY DEF IInv, TypeOK, QueueInv, UpdateImr
    <3>2. f[1] = p /\ ~Enable(f)
      BY <3>1, SourceFacts DEF Enable
    <3> QED BY <3>1, <3>2 DEF UpdateImr
  <2> QED BY <2>1 DEF IInv, TypeOK, QueueInv, Carried, UpdateImr
<1>4. ASSUME NEW e \in Dpcs PROVE DpcInv(e)'
  BY DEF IInv, TypeOK, DpcInv, UpdateImr
<1> QED BY <1>1, <1>2, <1>3, <1>4 DEF IInv

(* The flush waits for every DPC that has a claim.                         *)
LEMMA FlushEnterInv ==
  ASSUME IInv, NEW q \in Queues, FlushEnter(q)
  PROVE  IInv'
<1>1. TypeOK'
  BY TypeThread DEF Thread, IInv
<1>2. NoLostWakeup'
  BY DEF IInv, TypeOK, NoLostWakeup, Carried, FlushEnter
<1>3. ASSUME NEW p \in Queues PROVE QueueInv(p)'
  BY DEF IInv, TypeOK, QueueInv, Carried, FlushEnter
<1>4. ASSUME NEW e \in Dpcs PROVE DpcInv(e)'
  BY SourceFacts DEF IInv, TypeOK, DpcInv, FlushEnter
<1> QED BY <1>1, <1>2, <1>3, <1>4 DEF IInv

(* When the flush returns, no DPC has a claim on the queue.                *)
LEMMA FlushReturnInv ==
  ASSUME IInv, NEW q \in Queues, FlushReturn(q)
  PROVE  IInv'
<1>1. TypeOK'
  BY TypeThread DEF Thread, IInv
<1>2. NoLostWakeup'
  BY DEF IInv, TypeOK, QueueInv, NoLostWakeup, Carried, FlushReturn
<1>3. ASSUME NEW p \in Queues PROVE QueueInv(p)'
  BY SourceFacts DEF IInv, TypeOK, QueueInv, Carried, FlushReturn
<1>4. ASSUME NEW e \in Dpcs PROVE DpcInv(e)'
  BY DEF IInv, TypeOK, DpcInv, FlushReturn
<1> QED BY <1>1, <1>2, <1>3, <1>4 DEF IInv

(* Cancelling leaves the notification path alone.                          *)
LEMMA CancelInv ==
  ASSUME IInv, NEW q \in Queues, Cancel(q)
  PROVE  IInv'
<1>1. TypeOK'
  BY TypeThread DEF Thread, IInv
<1>2. NoLostWakeup'
  BY DEF IInv, TypeOK, NoLostWakeup, Carried, Cancel
<1>3. ASSUME NEW p \in Queues PROVE QueueInv(p)'
  BY DEF IInv, TypeOK, QueueInv, Carried, Cancel
<1>4. ASSUME NEW e \in Dpcs PROVE DpcInv(e)'
  BY DEF IInv, TypeOK, DpcInv, Cancel
<1> QED BY <1>1, <1>2, <1>3, <1>4 DEF IInv

(* A queue being stopped is disarmed under adapter->Lock.                  *)
LEMMA StopBeginInv ==
  ASSUME IInv, NEW q \in Queues, StopBegin(q)
  PROVE  IInv'
<1>1. TypeOK'
  BY TypeThread DEF Thread, IInv
<1>2. NoLostWakeup'
  BY DEF IInv, TypeOK, NoLostWakeup, Carried, StopBegin
<1>3. ASSUME NEW p \in Queues PROVE QueueInv(p)'
  BY DEF IInv, TypeOK, QueueInv, Carried, StopBegin
<1>4. ASSUME NEW e \in Dpcs PROVE DpcInv(e)'
  BY DEF IInv, TypeOK, DpcInv, StopBegin
<1> QED BY <1>1, <1>2, <1>3, <1>4 DEF IInv

-----------------------------------------------------------------------------
(* IInv holds at first, with no queue started and no interrupt connected.  *)
LEMMA InitInv == Init => IInv
<1> SUFFICES ASSUME Init PROVE IInv
  OBVIOUS
<1>1. TypeOK
  BY InitType
<1>2. NoLostWakeup
  BY DEF Init, NoLostWakeup
<1>3. ASSUME NEW q \in Queues PROVE QueueInv(q)
  BY SourceFacts DEF Init, QueueInv
<1>4. ASSUME NEW d \in Dpcs PROVE DpcInv(d)
  BY SourceFacts DEF Init, DpcInv
<1> QED BY <1>1, <1>2, <1>3, <1>4 DEF IInv

(* Every step keeps IInv.                                                  *)
LEMMA NextInv == IInv /\ [Next]_vars => IInv'
<1> SUFFICES ASSUME IInv, [Next]_vars PROVE IInv'
  OBVIOUS
<1>1. CASE Hardware
  BY <1>1, SurpriseRemoveInv, HwRaiseInv DEF Hardware
<1>2. CASE EvtInterruptEnable
  BY <1>2, EvtInterruptEnableInv
<1>3. CASE EvtInterruptDisable
  BY <1>3, EvtInterruptDisableInv
<1>4. CASE Isr
  BY <1>4, IsrReadInv, IsrNotOursInv, IsrSaveInv, IsrMaskInv DEF Isr
<1>5. ASSUME NEW d \in Dpcs, Dpc(d) PROVE IInv'
  BY <1>5, DpcStartInv, DpcTakeInv, DpcExchangeInv, DpcNotifyInv, DpcLinkLockInv,
     DpcLinkUnlockInv, DpcFinishInv DEF Dpc
<1>6. ASSUME NEW q \in Queues, Thread(q) PROVE IInv'
  BY <1>6, StartInv, ArmInv, DisarmInv, UpdateImrInv, FlushEnterInv, FlushReturnInv,
     CancelInv, StopBeginInv DEF Thread
<1>7. CASE UNCHANGED vars
  BY <1>7 DEF vars, IInv, TypeOK, NoLostWakeup, Carried, QueueInv, DpcInv
<1> QED BY <1>1, <1>2, <1>3, <1>4, <1>5, <1>6, <1>7 DEF Next

(* ISR, DPC and queue threads agree at every step.                         *)
THEOREM Invariance == Spec => []IInv
BY InitInv, NextInv, PTL DEF Spec

(* The DPC only notifies a queue whose handle is set.                      *)
THEOREM NotifySafe == Spec => []NotifyHasHandle
<1>1. IInv => NotifyHasHandle
  BY DEF IInv, TypeOK, DpcInv, NotifyHasHandle
<1> QED BY <1>1, Invariance, PTL

(* Once a disarm or a stop has returned no DPC is notifying that queue.    *)
THEOREM QuietSafe == Spec => []QuietAfterDisable
<1>1. IInv => QuietAfterDisable
  BY DEF IInv, DpcInv, QuietAfterDisable
<1> QED BY <1>1, Invariance, PTL

(* No wake-up of an armed queue is lost.                                   *)
THEOREM WakeupSafe == Spec => []NoLostWakeup
<1>1. IInv => NoLostWakeup
  BY DEF IInv
<1> QED BY <1>1, Invariance, PTL

(* A queue that is not started has no interrupt enabled.                   *)
THEOREM IdleSafe == Spec => []IdleMasked
<1>1. IInv => IdleMasked
  BY DEF IInv, QueueInv, IdleMasked
<1> QED BY <1>1, Invariance, PTL
=============================================================================
