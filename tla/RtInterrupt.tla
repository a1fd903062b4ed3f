---------------------------- MODULE RtInterrupt ----------------------------
(***************************************************************************)
(* The notification path of the RTL8168D driver: the interrupt service     *)
(* routine, the DPC it queues, and the queue callbacks that start, arm,    *)
(* disarm, cancel and stop a queue (interrupt.cpp, and the SetInterrupt,   *)
(* Start, Cancel and Stop functions of txqueue.cpp and rxqueue.cpp).       *)
(*                                                                         *)
(* Interrupt sources are numbered in the order in which EvtInterruptDpc    *)
(* serves them: the receive queues, the transmit queue, the link.  A       *)
(* status flag is a pair <<source, bit>>.  The registers ISR0..3 are one   *)
(* set of flags and IMR0..3 another; Reg tells which register a source is  *)
(* in.                                                                     *)
(*                                                                         *)
(* Grain.  The ISR holds the interrupt lock from entry to exit, but the    *)
(* device, the DPC and the Interlocked operations of the queue threads go  *)
(* on meanwhile: it is three steps (read; acknowledge and save; mask).     *)
(* RtUpdateImr runs under the same lock: one step that waits until the ISR *)
(* has returned.  KeFlushQueuedDpcs waits for the DPC activations that     *)
(* were queued or running when it was called.                              *)
(***************************************************************************)
EXTENDS Integers, FiniteSets

CONSTANTS
  NumQueues,    \* RT_NUMBER_OF_QUEUES, the number of receive queues
  Dpcs,         \* the processors on which EvtInterruptDpc may run at once
  NoOne,        \* no holder of adapter->Lock, no queue being notified
  Queued,       \* the activation of the DPC that has not begun to run
  Raised,       \* the status flags the device raises in this instance
  Disarmed,     \* the queues the framework disarms between two arms
  Stoppable,    \* the queues the framework cancels and stops
  SharedLine    \* the line is shared: the ISR is called for other devices

RxIds == 0 .. NumQueues - 1
TX    == NumQueues
LINK  == NumQueues + 1
FOVW  == NumQueues + 2   \* ISRIMR_RX_FOVW: expected, never enabled nor served
UNEXPECTED == NumQueues + 3   \* stands for the flags the driver does not expect

Queues  == RxIds \cup {TX}
Served  == Queues \cup {LINK}
Sources == Served \cup {FOVW, UNEXPECTED}

(* The bits of RtTxInterruptFlags, RtRxInterruptFlags,                     *)
(* RtRxInterruptSecondaryFlags and RtDefaultInterruptFlags.                *)
Bits(s) ==
  IF s = 0 THEN {"ROK", "RER", "RDU"}
  ELSE IF s \in RxIds THEN {"ROK", "RDU"}
  ELSE IF s = TX THEN {"TOK", "TER"}
  ELSE IF s = LINK THEN {"LINK_CHG"}
  ELSE IF s = FOVW THEN {"RX_FOVW"}
  ELSE {"TDU"}

Flags         == UNION {{s} \X Bits(s) : s \in Sources}
QFlags(s)     == {f \in Flags : f[1] = s}
ExpectedFlags == {f \in Flags : f[1] # UNEXPECTED}
Reg(s)        == IF s \in RxIds THEN s ELSE 0

ASSUME NumQueuesAssumption == NumQueues \in Nat \ {0}
ASSUME DpcsAssumption      == Dpcs \cap Queues = {}
ASSUME NoOneAssumption     == NoOne \notin Queues \cup Dpcs
ASSUME QueuedAssumption    == Queued \notin Dpcs
ASSUME RaisedAssumption    == Raised \subseteq Flags
ASSUME StoppableAssumption == Disarmed \subseteq Queues /\ Stoppable \subseteq Queues
ASSUME ModesAssumption     == SharedLine \in BOOLEAN

VARIABLES
  present,    \* the device answers register reads
  connected,  \* between EvtInterruptEnable and EvtInterruptDisable
  isr,        \* the flags latched in ISR0..3, cleared by writing them
  imr,        \* the flags enabled in IMR0..3
  isrPc,      \* "idle", "ack" (ISR read) or "mask" (SavedIsr updated)
  isrSeen,    \* the locals isr0..3 of EvtInterruptIsr
  saved,      \* interrupt->SavedIsr
  pending,    \* the DPC is queued and has not begun to run
  dpcPc,      \* per processor: "idle", "take", "scan", "notify" or "link"
  dpcTodo,    \* per processor: sources in isrPacked not yet handled
  dpcClaim,   \* per processor: the queue being notified
  armed,      \* interrupt->RxNotifyArmed[q], interrupt->TxNotifyArmed
  handle,     \* adapter->RxQueues[q], adapter->TxQueue is not WDF_NO_HANDLE
  cancelled,  \* the framework has cancelled the queue and not yet stopped it
  off,        \* the last disarm or stop of the queue returned, no arm since
  tpc,        \* per queue thread: where it is in RtXxQueueSetInterrupt
  flushWait,  \* per queue thread: activations KeFlushQueuedDpcs waits for
  lock,       \* holder of adapter->Lock
  cr          \* CmdReg: the transmitter and receiver enable bits

hwVars    == <<present, connected, isr, imr>>
isrVars   == <<isrPc, isrSeen, saved, pending>>
dpcVars   == <<dpcPc, dpcTodo, dpcClaim>>
queueVars == <<armed, handle, cancelled, off, tpc, flushWait>>
lockVars  == <<lock, cr>>
vars      == <<present, connected, isr, imr, isrPc, isrSeen, saved, pending,
               dpcPc, dpcTodo, dpcClaim, armed, handle, cancelled, off, tpc,
               flushWait, lock, cr>>

Init ==
  /\ present = TRUE /\ connected = FALSE
  /\ isr = {} /\ imr = {}
  /\ isrPc = "idle" /\ isrSeen = {} /\ saved = {} /\ pending = FALSE
  /\ dpcPc = [d \in Dpcs |-> "idle"]
  /\ dpcTodo = [d \in Dpcs |-> {}]
  /\ dpcClaim = [d \in Dpcs |-> NoOne]
  /\ armed = [q \in Queues |-> FALSE]
  /\ handle = [q \in Queues |-> FALSE]
  /\ cancelled = [q \in Queues |-> FALSE]
  /\ off = [q \in Queues |-> TRUE]
  /\ tpc = [q \in Queues |-> "idle"]
  /\ flushWait = [q \in Queues |-> {}]
  /\ lock = NoOne /\ cr = {}

-----------------------------------------------------------------------------
(* Registers.                                                              *)

(* RtCalculateImr over all the registers: the flag is enabled by default,  *)
(* or its queue is armed.                                                  *)
Enable(f) == f[1] = LINK \/ (f[1] \in Queues /\ armed[f[1]])

(* The registers EvtInterruptIsr reads and writes: register 0, and the     *)
(* secondary ones whose receive queue exists.                              *)
Visible(f) == Reg(f[1]) = 0 \/ handle[f[1]]

LineAsserted == isr \cap imr # {}

HwRaise(f) ==
  /\ present
  /\ isr' = isr \cup {f}
  /\ UNCHANGED <<present, connected, imr, isrVars, dpcVars, queueVars, lockVars>>

SurpriseRemove ==
  /\ present
  /\ present' = FALSE
  /\ UNCHANGED <<connected, isr, imr, isrVars, dpcVars, queueVars, lockVars>>

(* The framework connects the interrupt on the way to D0, with the DPCs of *)
(* an earlier connection flushed.                                          *)
EvtInterruptEnable ==
  /\ ~connected /\ ~pending
  /\ \A d \in Dpcs : dpcPc[d] = "idle"
  /\ connected' = TRUE
  /\ imr' = {f \in Flags : Enable(f)}
  /\ UNCHANGED <<present, isr, isrVars, dpcVars, queueVars, lockVars>>

(* Under the interrupt lock, after every queue has been stopped.           *)
EvtInterruptDisable ==
  /\ connected /\ isrPc = "idle"
  /\ \A q \in Queues : ~handle[q]
  /\ connected' = FALSE
  /\ imr' = {}
  /\ UNCHANGED <<present, isr, isrVars, dpcVars, queueVars, lockVars>>

-----------------------------------------------------------------------------
(* EvtInterruptIsr.  A device that is gone reads as RtInactiveInterrupt    *)
(* and the ISR returns at once.                                            *)

IsrRead ==
  /\ connected /\ present /\ isrPc = "idle"
  /\ SharedLine \/ LineAsserted
  /\ isrSeen' = {f \in isr : Visible(f)}
  /\ isrPc' = "ack"
  /\ UNCHANGED <<hwVars, saved, pending, dpcVars, queueVars, lockVars>>

IsrNotOurs ==
  /\ isrPc = "ack" /\ isrSeen \cap ExpectedFlags = {}
  /\ isr' = isr \ isrSeen
  /\ isrSeen' = {}
  /\ isrPc' = "idle"
  /\ UNCHANGED <<present, connected, imr, saved, pending, dpcVars, queueVars, lockVars>>

(* Mutant: saves the flags before discarding the unexpected ones.          *)
IsrSaveUnmasked ==
  /\ isrPc = "ack" /\ isrSeen \cap ExpectedFlags # {}
  /\ isr' = isr \ isrSeen
  /\ isrSeen' = isrSeen \cap ExpectedFlags
  /\ saved' = saved \cup isrSeen
  /\ isrPc' = "mask"
  /\ UNCHANGED <<present, connected, imr, pending, dpcVars, queueVars, lockVars>>

IsrSave ==
  /\ isrPc = "ack" /\ isrSeen \cap ExpectedFlags # {}
  /\ isr' = isr \ isrSeen
  /\ isrSeen' = isrSeen \cap ExpectedFlags
  /\ saved' = saved \cup (isrSeen \cap ExpectedFlags)
  /\ isrPc' = "mask"
  /\ UNCHANGED <<present, connected, imr, pending, dpcVars, queueVars, lockVars>>

(* Mutant: forgets to queue the DPC.                                       *)
IsrMaskNoDpc ==
  /\ isrPc = "mask"
  /\ imr' = {f \in imr : ~Visible(f)}
              \cup {f \in Flags : Visible(f) /\ Enable(f) /\ (f \notin isrSeen \/ f[1] = LINK)}
  /\ isrSeen' = {}
  /\ isrPc' = "idle"
  /\ UNCHANGED <<present, connected, isr, saved, pending, dpcVars, queueVars, lockVars>>

(* Mutant: masks the link change with the rest.                            *)
IsrMaskLink ==
  /\ isrPc = "mask"
  /\ imr' = {f \in imr : ~Visible(f)}
              \cup {f \in Flags : Visible(f) /\ Enable(f) /\ f \notin isrSeen}
  /\ pending' = TRUE
  /\ isrSeen' = {}
  /\ isrPc' = "idle"
  /\ UNCHANGED <<present, connected, isr, saved, dpcVars, queueVars, lockVars>>

IsrMask ==
  /\ isrPc = "mask"
  /\ imr' = {f \in imr : ~Visible(f)}
              \cup {f \in Flags : Visible(f) /\ Enable(f) /\ (f \notin isrSeen \/ f[1] = LINK)}
  /\ pending' = TRUE
  /\ isrSeen' = {}
  /\ isrPc' = "idle"
  /\ UNCHANGED <<present, connected, isr, saved, dpcVars, queueVars, lockVars>>

-----------------------------------------------------------------------------
(* EvtInterruptDpc on processor d.                                         *)

(* The DPC leaves the queue: the ISR may queue it again from here on.      *)
DpcStart(d) ==
  /\ pending /\ dpcPc[d] = "idle"
  /\ pending' = FALSE
  /\ dpcPc' = [dpcPc EXCEPT ![d] = "take"]
  /\ flushWait' = [q \in Queues |-> IF Queued \in flushWait[q]
                                    THEN (flushWait[q] \ {Queued}) \cup {d}
                                    ELSE flushWait[q]]
  /\ UNCHANGED <<hwVars, isrPc, isrSeen, saved, dpcTodo, dpcClaim,
                 armed, handle, cancelled, off, tpc, lockVars>>

DpcTake(d) ==
  /\ dpcPc[d] = "take"
  /\ dpcTodo' = [dpcTodo EXCEPT ![d] = {f[1] : f \in saved} \cap Served]
  /\ saved' = {}
  /\ dpcPc' = [dpcPc EXCEPT ![d] = "scan"]
  /\ UNCHANGED <<hwVars, isrPc, isrSeen, pending, dpcClaim, queueVars, lockVars>>

IsNext(d, s) == s \in dpcTodo[d] /\ \A t \in dpcTodo[d] : s <= t

(* RtRxNotify, and the same exchange for the transmit queue.               *)
DpcExchange(d) ==
  /\ dpcPc[d] = "scan"
  /\ \E q \in Queues :
       /\ IsNext(d, q)
       /\ dpcTodo' = [dpcTodo EXCEPT ![d] = @ \ {q}]
       /\ armed' = [armed EXCEPT ![q] = FALSE]
       /\ dpcClaim' = [dpcClaim EXCEPT ![d] = IF armed[q] THEN q ELSE NoOne]
       /\ dpcPc' = [dpcPc EXCEPT ![d] = IF armed[q] THEN "notify" ELSE "scan"]
  /\ UNCHANGED <<hwVars, isrVars, handle, cancelled, off, tpc, flushWait, lockVars>>

(* NetTxQueueNotifyMoreCompletedPacketsAvailable or its receive twin       *)
(* returns.                                                                *)
DpcNotify(d) ==
  /\ dpcPc[d] = "notify"
  /\ dpcClaim' = [dpcClaim EXCEPT ![d] = NoOne]
  /\ dpcPc' = [dpcPc EXCEPT ![d] = "scan"]
  /\ UNCHANGED <<hwVars, isrVars, dpcTodo, queueVars, lockVars>>

(* RtAdapterNotifyLinkChange takes adapter->Lock for the PHY queries.      *)
DpcLinkLock(d) ==
  /\ dpcPc[d] = "scan" /\ dpcTodo[d] = {LINK}
  /\ lock = NoOne
  /\ lock' = d
  /\ dpcPc' = [dpcPc EXCEPT ![d] = "link"]
  /\ UNCHANGED <<hwVars, isrVars, dpcTodo, dpcClaim, queueVars, cr>>

DpcLinkUnlock(d) ==
  /\ dpcPc[d] = "link"
  /\ lock' = NoOne
  /\ dpcTodo' = [dpcTodo EXCEPT ![d] = {}]
  /\ dpcPc' = [dpcPc EXCEPT ![d] = "scan"]
  /\ UNCHANGED <<hwVars, isrVars, dpcClaim, queueVars, cr>>

DpcFinish(d) ==
  /\ dpcPc[d] = "scan" /\ dpcTodo[d] = {}
  /\ dpcPc' = [dpcPc EXCEPT ![d] = "idle"]
  /\ flushWait' = [q \in Queues |-> flushWait[q] \ {d}]
  /\ UNCHANGED <<hwVars, isrVars, dpcTodo, dpcClaim,
                 armed, handle, cancelled, off, tpc, lockVars>>

-----------------------------------------------------------------------------
(* The queue callbacks.  The framework serialises those of one queue.      *)

(* EvtTxQueueStart and EvtRxQueueStart, under adapter->Lock.  RCR and what *)
(* it accepts are in RtSettings.                                           *)
Start(q) ==
  /\ connected /\ ~handle[q] /\ lock = NoOne
  /\ handle' = [handle EXCEPT ![q] = TRUE]
  /\ cr' = cr \cup {IF q = TX THEN "TE" ELSE "RE"}
  /\ UNCHANGED <<hwVars, isrVars, dpcVars, armed, cancelled, off, tpc, flushWait, lock>>

(* RtXxQueueSetInterrupt(q, true): arm, then RtUpdateImr.                  *)
Arm(q) ==
  /\ handle[q] /\ tpc[q] = "idle"
  /\ armed' = [armed EXCEPT ![q] = TRUE]
  /\ off' = [off EXCEPT ![q] = FALSE]
  /\ tpc' = [tpc EXCEPT ![q] = "arming"]
  /\ UNCHANGED <<hwVars, isrVars, dpcVars, handle, cancelled, flushWait, lockVars>>

(* RtXxQueueSetInterrupt(q, false): disarm, RtUpdateImr, flush the DPCs.   *)
Disarm(q) ==
  /\ q \in Disarmed /\ handle[q] /\ tpc[q] = "idle"
  /\ armed' = [armed EXCEPT ![q] = FALSE]
  /\ tpc' = [tpc EXCEPT ![q] = "disarming"]
  /\ UNCHANGED <<hwVars, isrVars, dpcVars, handle, cancelled, off, flushWait, lockVars>>

(* Mutant: does not take the interrupt lock.                               *)
UpdateImrUnlocked(q) ==
  /\ tpc[q] \in {"arming", "disarming"}
  /\ imr' = {f \in imr : Reg(f[1]) # Reg(q)}
              \cup {f \in Flags : Reg(f[1]) = Reg(q) /\ Enable(f)}
  /\ tpc' = [tpc EXCEPT ![q] = IF @ = "arming" THEN "idle" ELSE "flush"]
  /\ UNCHANGED <<present, connected, isr, isrVars, dpcVars,
                 armed, handle, cancelled, off, flushWait, lockVars>>

(* Mutant: rewrites the register when it arms and not when it disarms.     *)
UpdateImrArmOnly(q) ==
  /\ tpc[q] \in {"arming", "disarming"} /\ isrPc = "idle"
  /\ imr' = IF tpc[q] = "disarming" THEN imr
            ELSE {f \in imr : Reg(f[1]) # Reg(q)}
                   \cup {f \in Flags : Reg(f[1]) = Reg(q) /\ Enable(f)}
  /\ tpc' = [tpc EXCEPT ![q] = IF @ = "arming" THEN "idle" ELSE "flush"]
  /\ UNCHANGED <<present, connected, isr, isrVars, dpcVars,
                 armed, handle, cancelled, off, flushWait, lockVars>>

(* RtUpdateImr writes the whole register of the queue, the flags of the    *)
(* other sources in it included.                                           *)
UpdateImr(q) ==
  /\ tpc[q] \in {"arming", "disarming"} /\ isrPc = "idle"
  /\ imr' = {f \in imr : Reg(f[1]) # Reg(q)}
              \cup {f \in Flags : Reg(f[1]) = Reg(q) /\ Enable(f)}
  /\ tpc' = [tpc EXCEPT ![q] = IF @ = "arming" THEN "idle" ELSE "flush"]
  /\ UNCHANGED <<present, connected, isr, isrVars, dpcVars,
                 armed, handle, cancelled, off, flushWait, lockVars>>

(* Mutant: waits for the queued activation only, not for running DPCs.     *)
FlushEnterQueuedOnly(q) ==
  /\ tpc[q] = "flush"
  /\ flushWait' = [flushWait EXCEPT ![q] = {x \in {Queued} : pending}]
  /\ tpc' = [tpc EXCEPT ![q] = "flushing"]
  /\ UNCHANGED <<hwVars, isrVars, dpcVars, armed, handle, cancelled, off, lockVars>>

(* Mutant: waits for a new activation when none is queued.                 *)
FlushEnterNext(q) ==
  /\ tpc[q] = "flush"
  /\ flushWait' = [flushWait EXCEPT ![q] = {d \in Dpcs : dpcPc[d] # "idle"} \cup {Queued}]
  /\ tpc' = [tpc EXCEPT ![q] = "flushing"]
  /\ UNCHANGED <<hwVars, isrVars, dpcVars, armed, handle, cancelled, off, lockVars>>

FlushEnter(q) ==
  /\ tpc[q] = "flush"
  /\ flushWait' = [flushWait EXCEPT ![q] =
                     {d \in Dpcs : dpcPc[d] # "idle"} \cup {x \in {Queued} : pending}]
  /\ tpc' = [tpc EXCEPT ![q] = "flushing"]
  /\ UNCHANGED <<hwVars, isrVars, dpcVars, armed, handle, cancelled, off, lockVars>>

(* Mutant: returns before the DPCs it waits for have ended.                *)
FlushReturnEarly(q) ==
  /\ tpc[q] = "flushing"
  /\ tpc' = [tpc EXCEPT ![q] = "idle"]
  /\ off' = [off EXCEPT ![q] = TRUE]
  /\ handle' = [handle EXCEPT ![q] = (lock # q)]
  /\ cancelled' = [cancelled EXCEPT ![q] = @ /\ lock # q]
  /\ lock' = IF lock = q THEN NoOne ELSE lock
  /\ UNCHANGED <<hwVars, isrVars, dpcVars, armed, flushWait, cr>>

(* KeFlushQueuedDpcs returns, and so does the callback: to the framework   *)
(* after a disarm, through the rest of EvtXxQueueStop after a stop.        *)
FlushReturn(q) ==
  /\ tpc[q] = "flushing" /\ flushWait[q] = {}
  /\ tpc' = [tpc EXCEPT ![q] = "idle"]
  /\ off' = [off EXCEPT ![q] = TRUE]
  /\ handle' = [handle EXCEPT ![q] = (lock # q)]
  /\ cancelled' = [cancelled EXCEPT ![q] = @ /\ lock # q]
  /\ lock' = IF lock = q THEN NoOne ELSE lock
  /\ UNCHANGED <<hwVars, isrVars, dpcVars, armed, flushWait, cr>>

(* EvtRxQueueCancel under adapter->Lock turns the receiver off for every   *)
(* queue; EvtTxQueueCancel does nothing.  Its ring operations are in       *)
(* RtRxRing.                                                               *)
Cancel(q) ==
  /\ q \in Stoppable /\ handle[q] /\ ~cancelled[q] /\ tpc[q] = "idle"
  /\ q # TX => lock = NoOne
  /\ cancelled' = [cancelled EXCEPT ![q] = TRUE]
  /\ cr' = IF q = TX THEN cr ELSE cr \ {"RE"}
  /\ UNCHANGED <<hwVars, isrVars, dpcVars, armed, handle, off, tpc, flushWait, lock>>

(* EvtRxQueueStop counts the receive queues in a bool, which is 1 whenever *)
(* there is any.                                                           *)
CountIsOne == \E r \in RxIds : handle[r]

(* Mutant: leaves the notification armed.                                  *)
StopBeginArmed(q) ==
  /\ cancelled[q] /\ tpc[q] = "idle" /\ lock = NoOne
  /\ lock' = q
  /\ cr' = IF q = TX THEN cr \ {"TE"} ELSE IF CountIsOne THEN cr \ {"RE"} ELSE cr
  /\ tpc' = [tpc EXCEPT ![q] = "disarming"]
  /\ UNCHANGED <<hwVars, isrVars, dpcVars, armed, handle, cancelled, off, flushWait>>

(* EvtTxQueueStop and EvtRxQueueStop take adapter->Lock and keep it until  *)
(* FlushReturn.                                                            *)
StopBegin(q) ==
  /\ cancelled[q] /\ tpc[q] = "idle" /\ lock = NoOne
  /\ lock' = q
  /\ cr' = IF q = TX THEN cr \ {"TE"} ELSE IF CountIsOne THEN cr \ {"RE"} ELSE cr
  /\ armed' = [armed EXCEPT ![q] = FALSE]
  /\ tpc' = [tpc EXCEPT ![q] = "disarming"]
  /\ UNCHANGED <<hwVars, isrVars, dpcVars, handle, cancelled, off, flushWait>>

-----------------------------------------------------------------------------
Hardware == SurpriseRemove \/ \E f \in Raised : HwRaise(f)

Isr == IsrRead \/ IsrNotOurs \/ IsrSave \/ IsrMask

Dpc(d) ==
  \/ DpcStart(d) \/ DpcTake(d) \/ DpcExchange(d) \/ DpcNotify(d)
  \/ DpcLinkLock(d) \/ DpcLinkUnlock(d) \/ DpcFinish(d)

Thread(q) ==
  \/ Start(q) \/ Arm(q) \/ Disarm(q) \/ UpdateImr(q) \/ FlushEnter(q)
  \/ FlushReturn(q) \/ Cancel(q) \/ StopBegin(q)

Next ==
  \/ Hardware \/ EvtInterruptEnable \/ EvtInterruptDisable \/ Isr
  \/ \E d \in Dpcs : Dpc(d)
  \/ \E q \in Queues : Thread(q)

Spec == Init /\ [][Next]_vars

(* What runs to its end once begun: the ISR while the line is asserted,    *)
(* the DPC, and a callback of the framework.  Acquiring adapter->Lock is   *)
(* strongly fair: a spin lock is not held from the DPC for ever by others  *)
(* that keep releasing it.  Nothing obliges the device to raise a flag nor *)
(* the framework to call.                                                  *)
Fairness ==
  /\ WF_vars(LineAsserted /\ IsrRead)
  /\ WF_vars(IsrNotOurs \/ IsrSave \/ IsrMask)
  /\ WF_vars(\E d \in Dpcs : DpcStart(d))
  /\ \A d \in Dpcs :
       /\ WF_vars(DpcTake(d) \/ DpcExchange(d) \/ DpcNotify(d) \/ DpcLinkUnlock(d) \/ DpcFinish(d))
       /\ SF_vars(DpcLinkLock(d))
  /\ \A q \in Queues : SF_vars(UpdateImr(q)) /\ WF_vars(FlushEnter(q) \/ FlushReturn(q))

FairSpec == Spec /\ Fairness

-----------------------------------------------------------------------------
(* Every variable has its type; in particular SavedIsr holds only the      *)
(* flags of RtExpectedInterruptFlags (interrupt.h:34-37).                  *)
TypeOK ==
  /\ present \in BOOLEAN /\ connected \in BOOLEAN
  /\ isr \subseteq Flags /\ imr \subseteq Flags
  /\ isrPc \in {"idle", "ack", "mask"} /\ isrSeen \subseteq Flags
  /\ saved \subseteq ExpectedFlags /\ pending \in BOOLEAN
  /\ dpcPc \in [Dpcs -> {"idle", "take", "scan", "notify", "link"}]
  /\ dpcTodo \in [Dpcs -> SUBSET Served]
  /\ dpcClaim \in [Dpcs -> Queues \cup {NoOne}]
  /\ armed \in [Queues -> BOOLEAN] /\ handle \in [Queues -> BOOLEAN]
  /\ cancelled \in [Queues -> BOOLEAN] /\ off \in [Queues -> BOOLEAN]
  /\ tpc \in [Queues -> {"idle", "arming", "disarming", "flush", "flushing"}]
  /\ flushWait \in [Queues -> SUBSET (Dpcs \cup {Queued})]
  /\ lock \in Queues \cup Dpcs \cup {NoOne}
  /\ cr \subseteq {"TE", "RE"}

(* The DPC never notifies the framework with a null queue handle: the      *)
(* unlocked reads of RxQueues[q] and TxQueue at interrupt.cpp:326-327 and  *)
(* 371 do not race with the assignment that ends EvtXxQueueStop.           *)
NotifyHasHandle == \A d \in Dpcs : dpcClaim[d] # NoOne => handle[dpcClaim[d]]

(* "We don't return from this function call until any outstanding tx       *)
(* notification is complete" (txqueue.cpp:453-455, rxqueue.cpp:377-379):   *)
(* once a disarm or stop has returned, and until the next arm, no DPC is   *)
(* inside the notification of that queue.                                  *)
QuietAfterDisable == \A q \in Queues, d \in Dpcs : off[q] => dpcClaim[d] # q

(* Something will still tell the DPC about source s.                       *)
Carried(s) == (\E f \in saved : f[1] = s) \/ (\E d \in Dpcs : s \in dpcTodo[d])

(* No wake-up is lost: when a queue is armed and its thread has left       *)
(* RtXxQueueSetInterrupt, its flags are all enabled in the IMR, or one     *)
(* has been seen and is on its way to a DPC; and what SavedIsr holds has   *)
(* a DPC queued or about to take it.                                       *)
NoLostWakeup ==
  /\ \A q \in Queues : armed[q] /\ tpc[q] = "idle" => QFlags(q) \subseteq imr \/ Carried(q)
  /\ saved # {} => pending \/ isrPc = "mask" \/ \E d \in Dpcs : dpcPc[d] = "take"

(* A queue that is not started has no flag enabled: the ISR would neither  *)
(* read nor acknowledge a secondary register whose queue is gone           *)
(* (interrupt.cpp:35-38), and the line would stay asserted for ever.       *)
IdleMasked == \A q \in Queues : ~handle[q] => QFlags(q) \cap imr = {}

(* The inductive invariant: what the properties above rest on.             *)
QueueInv(q) ==
  /\ handle[q] => connected
  /\ cancelled[q] \/ tpc[q] # "idle" => handle[q]
  /\ armed[q] => handle[q] /\ ~off[q] /\ tpc[q] \in {"idle", "arming"}
  /\ lock = q => tpc[q] \in {"disarming", "flush", "flushing"}
  /\ ~handle[q] \/ tpc[q] \in {"flush", "flushing"} => QFlags(q) \cap imr = {}
  /\ isrPc = "mask" /\ armed[q] /\ tpc[q] = "idle" /\ isrSeen \cap QFlags(q) # {} => Carried(q)

DpcInv(d) ==
  /\ dpcClaim[d] # NoOne => dpcPc[d] = "notify"
  /\ dpcPc[d] \in {"idle", "take"} => dpcTodo[d] = {}
  /\ dpcPc[d] = "link" => dpcTodo[d] = {LINK}
  /\ \A q \in Queues :
       dpcClaim[d] = q => handle[q] /\ ~off[q] /\ (tpc[q] = "flushing" => d \in flushWait[q])

(* The notification path is in order: claims, masks, arming and SavedIsr   *)
(* agree with one another at every step of ISR, DPC and queue threads.     *)
IInv ==
  /\ TypeOK /\ NoLostWakeup
  /\ \A q \in Queues : QueueInv(q)
  /\ \A d \in Dpcs : DpcInv(d)

(* EvtRxQueueStop counts the started queues and clears CR_RE "if (1 ==     *)
(* count)" (rxqueue.cpp:428-440): it leaves the receiver on while another  *)
(* queue of the device is started and not cancelled.                       *)
StopLeavesOthers ==
  [][\A q, r \in RxIds :
       present /\ lock # q /\ lock' = q /\ q # r /\ handle[r] /\ ~cancelled[r] =>
         ("RE" \in cr => "RE" \in cr')]_vars

(* An event of an armed queue ends in its notification (which disarms it)  *)
(* unless the framework disarms it first or the device is removed.         *)
WakeupDelivered ==
  \A q \in Queues :
    (armed[q] /\ tpc[q] = "idle" /\ isr \cap QFlags(q) # {}) ~> (~armed[q] \/ ~present)

(* A link change is eventually reported by a DPC, also when the ISR has    *)
(* just served another one (interrupt.cpp:299 "always re-enable link       *)
(* change notifications").                                                 *)
LinkServed ==
  (connected /\ isr \cap QFlags(LINK) # {})
     ~> (~connected \/ ~present \/ \E d \in Dpcs : dpcPc[d] = "link")

(* "Block this thread until we're sure any outstanding DPCs are complete"  *)
(* (txqueue.cpp:453, rxqueue.cpp:377): the flush does return.              *)
FlushReturns == \A q \in Queues : tpc[q] = "flushing" ~> tpc[q] # "flushing"
=============================================================================
