-------------------------- MODULE RtSettingsProofs --------------------------
(***************************************************************************)
(* Proofs about RtSettings: with any number of receive queues, any filters *)
(* and addresses and whatever a full reset returns to its default, the     *)
(* receiver follows the filter and the queues, and CPCR and the timers     *)
(* follow their settings but for what a reset of D0 entry takes back.      *)
(***************************************************************************)
EXTENDS RtSettings, TLAPS

(* What the driver's functions do to registers of the right type.          *)
LEMMA RcrType ==
  ASSUME NEW filter PROVE RtConvertPacketFilterToRcr(filter) \in SUBSET AcceptBits
  BY DEF RtConvertPacketFilterToRcr, AcceptBits

LEMMA MarType ==
  ASSUME NEW filter, NEW list \in SUBSET Addresses
  PROVE  MulticastRegs(filter, list) \in SUBSET HashBits
  BY HashAssumption DEF MulticastRegs

LEMMA ResetRegisters ==
  ASSUME NEW r \in Registers, NEW taken
  PROVE  /\ RtAdapterIssueFullReset(r, taken) \in Registers
         /\ RtAdapterIssueFullReset(r, taken).re = FALSE
         /\ RtAdapterIssueFullReset(r, taken).rxChecksum =
              IF "rxChecksum" \in Lost(taken) THEN FALSE ELSE r.rxChecksum
         /\ RtAdapterIssueFullReset(r, taken).unit =
              IF "unit" \in Lost(taken) THEN FALSE ELSE r.unit
         /\ RtAdapterIssueFullReset(r, taken).timer =
              IF "timer" \in Lost(taken) THEN "off" ELSE r.timer
<1>1. \A l : LET x == [f \in DOMAIN r |-> IF f \in l \cup {"re"} THEN Defaults[f] ELSE r[f]]
            IN  /\ x \in Registers /\ x.re = FALSE
                /\ x.rxChecksum = IF "rxChecksum" \in l THEN FALSE ELSE r.rxChecksum
                /\ x.unit = IF "unit" \in l THEN FALSE ELSE r.unit
                /\ x.timer = IF "timer" \in l THEN "off" ELSE r.timer
  BY DEF Registers, Defaults, Levels
<1> QED BY <1>1 DEF RtAdapterIssueFullReset

LEMMA ProgrammedRegisters ==
  ASSUME TypeOK
  PROVE  /\ Programmed \in Registers
         /\ Programmed.re = regs.re
         /\ Programmed.rxChecksum = (offloads # {})
         /\ Programmed.unit = (moderation # "off")
         /\ Programmed.timer = moderation
         /\ Programmed.mar = regs.mar
  BY DEF TypeOK, Registers, Programmed, RtAdapterUpdateInterruptModeration,
         RtAdapterUpdateHardwareChecksum

LEMMA DefaultRegisters == Defaults \in Registers
  BY DEF Defaults, Registers, Levels

(* What D0 entry does to the registers in the end.                         *)
LEMMA EntryRegisters ==
  ASSUME TypeOK, EvtDeviceD0Entry
  PROVE  /\ regs' \in Registers /\ regs'.re = (regs.re /\ power = "prepared")
         /\ wiped' \subseteq {"rxChecksum", "unit", "timer"}
         /\ regs'.rxChecksum = (offloads # {} /\ "rxChecksum" \notin wiped')
         /\ regs'.unit = (moderation # "off" /\ "unit" \notin wiped')
         /\ regs'.timer = IF "timer" \in wiped' THEN "off" ELSE moderation
         /\ regs'.mar = IF power = "prepared" THEN regs.mar
                       ELSE MulticastRegs(PacketFilter, MCList)
<1>1. /\ Programmed \in Registers /\ Programmed.re = regs.re
      /\ Programmed.rxChecksum = (offloads # {})
      /\ Programmed.unit = (moderation # "off")
      /\ Programmed.timer = moderation /\ Programmed.mar = regs.mar
  BY ProgrammedRegisters
<1>2. PICK taken \in SUBSET ResetDefaults :
        /\ regs' = IF power = "prepared" THEN Raised(Programmed, taken)
                   ELSE RtAdapterPushMulticastList(Raised(Programmed, taken), PacketFilter, MCList)
        /\ wiped' = IF power = "prepared" THEN {} ELSE Lost(taken) \ {"rcr", "mar"}
  BY DEF EvtDeviceD0Entry
<1>3. regs.re \in BOOLEAN /\ moderation \in Levels /\ MCList \in SUBSET Addresses
  BY DEF TypeOK, Registers
<1>4. CASE power = "prepared"
  BY <1>1, <1>2, <1>3, <1>4 DEF Raised
<1>5. CASE power # "prepared"
  <2> DEFINE r == RtAdapterIssueFullReset(Programmed, taken)
  <2>1. /\ r \in Registers /\ r.re = FALSE
        /\ r.rxChecksum = IF "rxChecksum" \in Lost(taken) THEN FALSE ELSE Programmed.rxChecksum
        /\ r.unit = IF "unit" \in Lost(taken) THEN FALSE ELSE Programmed.unit
        /\ r.timer = IF "timer" \in Lost(taken) THEN "off" ELSE Programmed.timer
    BY <1>1, ResetRegisters
  <2>2. regs' = RtAdapterPushMulticastList(r, PacketFilter, MCList)
    BY <1>2, <1>5 DEF Raised
  <2>3. MulticastRegs(PacketFilter, MCList) \in SUBSET HashBits
    BY <1>3, MarType
  <2>4. wiped' = Lost(taken) \ {"rcr", "mar"} /\ Lost(taken) \subseteq {"rcr", "mar", "timer", "rxChecksum", "unit"}
    BY <1>2, <1>5 DEF Lost
  <2> HIDE DEF r
  <2>5. /\ regs' \in Registers /\ regs'.re = FALSE /\ regs'.rxChecksum = r.rxChecksum
        /\ regs'.unit = r.unit /\ regs'.timer = r.timer
        /\ regs'.mar = MulticastRegs(PacketFilter, MCList)
    BY <2>1, <2>2, <2>3 DEF RtAdapterPushMulticastList, Registers
  <2>6. /\ "rxChecksum" \in wiped' <=> "rxChecksum" \in Lost(taken)
        /\ "unit" \in wiped' <=> "unit" \in Lost(taken)
        /\ "timer" \in wiped' <=> "timer" \in Lost(taken)
    BY <2>4
  <2>7. wiped' \subseteq {"rxChecksum", "unit", "timer"}
    BY <2>4
  <2>8. regs'.rxChecksum = (offloads # {} /\ "rxChecksum" \notin wiped')
    BY <1>1, <2>1, <2>5, <2>6
  <2>9. regs'.unit = (moderation # "off" /\ "unit" \notin wiped')
    BY <1>1, <2>1, <2>5, <2>6
  <2>10. regs'.timer = IF "timer" \in wiped' THEN "off" ELSE moderation
    BY <1>1, <2>1, <2>5, <2>6
  <2> QED BY <1>5, <2>5, <2>7, <2>8, <2>9, <2>10
<1> QED BY <1>4, <1>5

-----------------------------------------------------------------------------
LEMMA InitType == Init => TypeOK
  BY DefaultRegisters DEF Init, TypeOK, Levels

LEMMA NextType == TypeOK /\ [Next]_vars => TypeOK'
<1> SUFFICES ASSUME TypeOK, [Next]_vars PROVE TypeOK'
  OBVIOUS
<1> USE DEF settings, queues
<1>1. ASSUME NEW filter \in Filters, EvtSetPacketFilter(filter) PROVE TypeOK'
  <2>1. /\ RtConvertPacketFilterToRcr(filter) \in SUBSET AcceptBits
        /\ MulticastRegs(filter, MCList) \in SUBSET HashBits
    BY RcrType, MarType DEF TypeOK
  <2>2. regs' \in Registers
    BY <1>1, <2>1 DEF EvtSetPacketFilter, Written, RtAdapterPushMulticastList,
                      RtAdapterUpdateRcr, TypeOK, Registers
  <2> QED
    BY <1>1, <2>2 DEF EvtSetPacketFilter, TypeOK
<1>2. ASSUME NEW list \in SUBSET Addresses, EvtSetMulticastList(list) PROVE TypeOK'
  <2>1. MulticastRegs(PacketFilter, list) \in SUBSET HashBits
    BY MarType
  <2>2. regs' \in Registers
    BY <1>2, <2>1 DEF EvtSetMulticastList, Written, RtAdapterPushMulticastList, TypeOK, Registers
  <2> QED
    BY <1>2, <2>2 DEF EvtSetMulticastList, TypeOK
<1>3. ASSUME NEW enabled \in Offloads, EvtAdapterOffloadSet(enabled) PROVE TypeOK'
  <2>1. offloads' \in SUBSET OffloadFlags
    BY <1>3, OffloadsAssumption DEF EvtAdapterOffloadSet, TypeOK, OffloadFlags
  <2> QED
    BY <1>3, <2>1 DEF EvtAdapterOffloadSet, TypeOK
<1>11. CASE EvtAdapterOffloadUpdate
  <2>1. regs' \in Registers
    BY <1>11 DEF EvtAdapterOffloadUpdate, Written, RtAdapterUpdateHardwareChecksum, TypeOK, Registers
  <2> QED
    BY <1>11, <2>1 DEF EvtAdapterOffloadUpdate, TypeOK
<1>4. ASSUME NEW q \in RxIds, EvtRxQueueStart(q) PROVE TypeOK'
  <2>1. RtConvertPacketFilterToRcr(PacketFilter) \in SUBSET AcceptBits
    BY RcrType
  <2>2. regs' \in Registers
    BY <1>4, <2>1 DEF EvtRxQueueStart, RtAdapterUpdateRcr, TypeOK, Registers
  <2> QED
    BY <1>4, <2>2 DEF EvtRxQueueStart, TypeOK
<1>5. ASSUME NEW q \in RxIds, EvtRxQueueCancel(q) PROVE TypeOK'
  BY <1>5 DEF EvtRxQueueCancel, TypeOK, Registers
<1>6. ASSUME NEW q \in RxIds, EvtRxQueueStop(q) PROVE TypeOK'
  BY <1>6 DEF EvtRxQueueStop, TypeOK, Registers
<1>7. CASE EvtDevicePrepareHardware
  <2>1. \A taken : RtAdapterIssueFullReset(regs, taken) \in Registers
    BY ResetRegisters DEF TypeOK
  <2>2. regs' \in Registers
    BY <1>7, <2>1 DEF EvtDevicePrepareHardware, Registers
  <2> QED
    BY <1>7, <2>2 DEF EvtDevicePrepareHardware, TypeOK
<1>8. CASE EvtDeviceD0Entry
  <2>1. regs' \in Registers /\ wiped' \subseteq {"rxChecksum", "unit", "timer"}
    BY <1>8, EntryRegisters
  <2> QED
    BY <1>8, <2>1 DEF EvtDeviceD0Entry, TypeOK
<1>9. ASSUME NEW target \in {"low", "released"}, EvtDeviceD0Exit(target) PROVE TypeOK'
  BY <1>9, DefaultRegisters DEF EvtDeviceD0Exit, TypeOK
<1>10. CASE UNCHANGED vars
  BY <1>10 DEF vars, TypeOK
<1> QED
  BY <1>1, <1>2, <1>3, <1>4, <1>5, <1>6, <1>7, <1>8, <1>9, <1>10, <1>11 DEF Next

(* Every variable keeps its type (RT_ADAPTER, adapter.h, and the registers *)
(* of RT_MAC).                                                             *)
THEOREM TypeCorrect == Spec => []TypeOK
  BY InitType, NextType, PTL DEF Spec

-----------------------------------------------------------------------------
(* The receiver.                                                           *)
LEMMA InitInv == Init => IInv
  BY InitType DEF Init, IInv, ReceiverOff, Defaults

LEMMA NextInv == IInv /\ [Next]_vars => IInv'
<1> SUFFICES ASSUME IInv, [Next]_vars PROVE IInv'
  OBVIOUS
<1>0. TypeOK /\ TypeOK' /\ regs \in Registers
  BY NextType DEF IInv, TypeOK
<1> USE DEF settings, queues, IInv, ReceiverOff
<1>1. ASSUME NEW filter \in Filters, EvtSetPacketFilter(filter) PROVE IInv'
  <2>1. power = "on" => regs'.re = regs.re /\ regs'.rcr = RtConvertPacketFilterToRcr(filter)
    BY <1>0, <1>1 DEF EvtSetPacketFilter, Written, RtAdapterPushMulticastList,
                      RtAdapterUpdateRcr, Registers
  <2>2. power # "on" => regs'.re = regs.re
    BY <1>0, <1>1 DEF EvtSetPacketFilter, Written, RtAdapterPushMulticastList,
                      RtAdapterUpdateRcr, Registers
  <2> QED
    BY <1>0, <1>1, <2>1, <2>2 DEF EvtSetPacketFilter
<1>2. ASSUME NEW list \in SUBSET Addresses, EvtSetMulticastList(list) PROVE IInv'
  <2>1. regs'.re = regs.re /\ regs'.rcr = regs.rcr
    BY <1>0, <1>2 DEF EvtSetMulticastList, Written, RtAdapterPushMulticastList, Registers
  <2> QED
    BY <1>0, <1>2, <2>1 DEF EvtSetMulticastList
<1>3. ASSUME NEW enabled \in Offloads, EvtAdapterOffloadSet(enabled) PROVE IInv'
  BY <1>0, <1>3 DEF EvtAdapterOffloadSet
<1>11. CASE EvtAdapterOffloadUpdate
  <2>1. regs'.re = regs.re /\ regs'.rcr = regs.rcr
    BY <1>0, <1>11 DEF EvtAdapterOffloadUpdate, Written, RtAdapterUpdateHardwareChecksum, Registers
  <2> QED
    BY <1>0, <1>11, <2>1 DEF EvtAdapterOffloadUpdate
<1>4. ASSUME NEW q \in RxIds, EvtRxQueueStart(q) PROVE IInv'
  <2>1. regs'.re /\ regs'.rcr = RtConvertPacketFilterToRcr(PacketFilter)
    BY <1>0, <1>4 DEF EvtRxQueueStart, RtAdapterUpdateRcr, Registers
  <2>2. /\ power = "on" /\ q \notin RxQueues /\ q \notin cancelled
        /\ RxQueues' = RxQueues \cup {q} /\ opened' = TRUE
        /\ UNCHANGED <<power, PacketFilter, cancelled>>
    BY <1>0, <1>4 DEF EvtRxQueueStart, TypeOK
  <2>3. RxQueues' # {} /\ ~(RxQueues' \subseteq cancelled')
    BY <2>2
  <2> QED
    BY <1>0, <2>1, <2>2, <2>3
<1>5. ASSUME NEW q \in RxIds, EvtRxQueueCancel(q) PROVE IInv'
  <2>1. ~regs'.re
    BY <1>0, <1>5 DEF EvtRxQueueCancel, Registers
  <2> QED
    BY <1>0, <1>5, <2>1 DEF EvtRxQueueCancel
<1>6. ASSUME NEW q \in RxIds, EvtRxQueueStop(q) PROVE IInv'
  <2>1. ~regs'.re
    BY <1>0, <1>6 DEF EvtRxQueueStop, Registers
  <2> QED
    BY <1>0, <1>6, <2>1 DEF EvtRxQueueStop
<1>7. CASE EvtDevicePrepareHardware
  <2>1. PICK taken \in SUBSET ResetDefaults : regs'.re = RtAdapterIssueFullReset(regs, taken).re
    BY <1>0, <1>7, ResetRegisters DEF EvtDevicePrepareHardware, Registers
  <2>2. ~regs'.re
    BY <1>0, <2>1, ResetRegisters
  <2> QED
    BY <1>0, <1>7, <2>2 DEF EvtDevicePrepareHardware
<1>8. CASE EvtDeviceD0Entry
  <2>1. ~regs.re /\ RxQueues = {}
    BY <1>8 DEF EvtDeviceD0Entry
  <2>4. ~regs'.re
    BY <1>0, <1>8, <2>1, EntryRegisters
  <2> QED
    BY <1>0, <1>8, <2>1, <2>4 DEF EvtDeviceD0Entry
<1>9. ASSUME NEW target \in {"low", "released"}, EvtDeviceD0Exit(target) PROVE IInv'
  BY <1>0, <1>9 DEF EvtDeviceD0Exit, Defaults
<1>10. CASE UNCHANGED vars
  BY <1>0, <1>10 DEF vars
<1> QED
  BY <1>1, <1>2, <1>3, <1>4, <1>5, <1>6, <1>7, <1>8, <1>9, <1>10, <1>11 DEF Next

(* The inductive invariant of the receiver (rxqueue.cpp:385-447, 496-512). *)
THEOREM Invariance == Spec => []IInv
  BY InitInv, NextInv, PTL DEF Spec

(* A running queue receives what the filter asks for (rxqueue.cpp:413).    *)
THEOREM FilterSafe == Spec => []FilterProgrammed
<1>1. IInv => FilterProgrammed
  BY DEF IInv, FilterProgrammed, RtConvertPacketFilterToRcr, AcceptBits
<1> QED
  BY <1>1, Invariance, PTL

(* The receiver is off when every queue is cancelled (rxqueue.cpp:510).    *)
THEOREM ReceiverOffSafe == Spec => []ReceiverOff
<1>1. IInv => ReceiverOff
  BY DEF IInv
<1> QED
  BY <1>1, Invariance, PTL

-----------------------------------------------------------------------------
(* CPCR.                                                                   *)
LEMMA NextCpcr ==
  ASSUME TypeOK, CpcrProgrammed, [Next]_vars
  PROVE  CpcrProgrammed'
<1>0. regs \in Registers
  BY DEF TypeOK
<1> USE DEF settings, queues, CpcrProgrammed
<1>1. ASSUME NEW filter \in Filters, EvtSetPacketFilter(filter) PROVE CpcrProgrammed'
  BY <1>0, <1>1 DEF EvtSetPacketFilter, Written, RtAdapterPushMulticastList,
                    RtAdapterUpdateRcr, Registers
<1>2. ASSUME NEW list \in SUBSET Addresses, EvtSetMulticastList(list) PROVE CpcrProgrammed'
  BY <1>0, <1>2 DEF EvtSetMulticastList, Written, RtAdapterPushMulticastList, Registers
<1>3. ASSUME NEW enabled \in Offloads, EvtAdapterOffloadSet(enabled) PROVE CpcrProgrammed'
  BY <1>3 DEF EvtAdapterOffloadSet
<1>11. CASE EvtAdapterOffloadUpdate
  <2> SUFFICES ASSUME power = "on" PROVE CpcrProgrammed'
    BY <1>11 DEF EvtAdapterOffloadUpdate
  <2>1. regs' = RtAdapterUpdateHardwareChecksum(regs, offloads)
    BY <1>11 DEF EvtAdapterOffloadUpdate, Written
  <2>2. /\ regs'.rxChecksum = (offloads # {})
        /\ regs'.unit = regs.unit /\ regs'.timer = regs.timer
    BY <1>0, <2>1 DEF RtAdapterUpdateHardwareChecksum, Registers
  <2> QED
    BY <1>11, <2>2 DEF EvtAdapterOffloadUpdate
<1>4. ASSUME NEW q \in RxIds, EvtRxQueueStart(q) PROVE CpcrProgrammed'
  BY <1>0, <1>4 DEF EvtRxQueueStart, RtAdapterUpdateRcr, Registers
<1>5. ASSUME NEW q \in RxIds, EvtRxQueueCancel(q) PROVE CpcrProgrammed'
  BY <1>0, <1>5 DEF EvtRxQueueCancel, Registers
<1>6. ASSUME NEW q \in RxIds, EvtRxQueueStop(q) PROVE CpcrProgrammed'
  BY <1>0, <1>6 DEF EvtRxQueueStop, Registers
<1>7. CASE EvtDevicePrepareHardware
  BY <1>7 DEF EvtDevicePrepareHardware
<1>8. CASE EvtDeviceD0Entry
  BY <1>8, EntryRegisters DEF EvtDeviceD0Entry
<1>9. ASSUME NEW target \in {"low", "released"}, EvtDeviceD0Exit(target) PROVE CpcrProgrammed'
  BY <1>9 DEF EvtDeviceD0Exit
<1>10. CASE UNCHANGED vars
  BY <1>10 DEF vars
<1> QED
  BY <1>1, <1>2, <1>3, <1>4, <1>5, <1>6, <1>7, <1>8, <1>9, <1>10, <1>11 DEF Next

(* Whenever the device is on the checksum offloads and the moderation are  *)
(* programmed, but for what the resets after their programming at D0 entry *)
(* have taken back (power.cpp:83-90), which stays at its default until an  *)
(* offload callback, whatever a reset takes and whatever else is called.   *)
THEOREM CpcrSafe == Spec => []CpcrProgrammed
<1>1. Init => CpcrProgrammed
  BY DEF Init, CpcrProgrammed
<1>2. TypeOK /\ CpcrProgrammed /\ [Next]_vars => CpcrProgrammed'
  BY NextCpcr
<1> QED
  BY <1>1, <1>2, TypeCorrect, PTL DEF Spec

-----------------------------------------------------------------------------
(* MAR.                                                                    *)

(* Inductive: outside low power MAR is what the filter and the list ask.   *)
MarInv ==
  power \in {"prepared", "on"} /\ told => regs.mar = MulticastRegs(PacketFilter, MCList)

LEMMA NextMar == TypeOK /\ MarInv /\ [Next]_vars => MarInv'
<1> SUFFICES ASSUME TypeOK, MarInv, [Next]_vars PROVE MarInv'
  OBVIOUS
<1>0. regs \in Registers
  BY DEF TypeOK
<1> USE DEF settings, queues, MarInv, MulticastRegs
<1>1. ASSUME NEW filter \in Filters, EvtSetPacketFilter(filter) PROVE MarInv'
  BY <1>0, <1>1 DEF EvtSetPacketFilter, Written, RtAdapterPushMulticastList,
                    RtAdapterUpdateRcr, Registers
<1>2. ASSUME NEW list \in SUBSET Addresses, EvtSetMulticastList(list) PROVE MarInv'
  BY <1>0, <1>2 DEF EvtSetMulticastList, Written, RtAdapterPushMulticastList, Registers
<1>3. ASSUME NEW enabled \in Offloads, EvtAdapterOffloadSet(enabled) PROVE MarInv'
  BY <1>3 DEF EvtAdapterOffloadSet
<1>11. CASE EvtAdapterOffloadUpdate
  BY <1>0, <1>11 DEF EvtAdapterOffloadUpdate, Written, RtAdapterUpdateHardwareChecksum, Registers
<1>4. ASSUME NEW q \in RxIds, EvtRxQueueStart(q) PROVE MarInv'
  BY <1>0, <1>4 DEF EvtRxQueueStart, RtAdapterUpdateRcr, Registers
<1>5. ASSUME NEW q \in RxIds, EvtRxQueueCancel(q) PROVE MarInv'
  BY <1>0, <1>5 DEF EvtRxQueueCancel, Registers
<1>6. ASSUME NEW q \in RxIds, EvtRxQueueStop(q) PROVE MarInv'
  BY <1>0, <1>6 DEF EvtRxQueueStop, Registers
<1>7. CASE EvtDevicePrepareHardware
  BY <1>7 DEF EvtDevicePrepareHardware
<1>8. CASE EvtDeviceD0Entry
  BY <1>8, EntryRegisters DEF EvtDeviceD0Entry
<1>9. ASSUME NEW target \in {"low", "released"}, EvtDeviceD0Exit(target) PROVE MarInv'
  BY <1>9 DEF EvtDeviceD0Exit
<1>10. CASE UNCHANGED vars
  BY <1>10 DEF vars
<1> QED
  BY <1>1, <1>2, <1>3, <1>4, <1>5, <1>6, <1>7, <1>8, <1>9, <1>10, <1>11 DEF Next

(* Every multicast frame asked for passes the hash, and no bit of an       *)
(* earlier list is left (adapter.cpp:858, power.cpp:94).                   *)
THEOREM MulticastSafe == Spec => []MulticastProgrammed
<1>1. Init => MarInv
  BY DEF Init, MarInv
<1>2. TypeOK /\ MarInv => MulticastProgrammed
  <2> SUFFICES ASSUME MarInv, TypeOK, power = "on", told PROVE MulticastProgrammed
    BY DEF MulticastProgrammed
  <2>1. regs.mar = MulticastRegs(PacketFilter, MCList) /\ MCList \subseteq Addresses
    BY DEF MarInv, TypeOK
  <2>2. CASE PacketFilter \cap {"Promiscuous", "AllMulticast"} # {}
    <3>1. regs.mar = HashBits
      BY <2>1, <2>2 DEF MulticastRegs
    <3>2. \A a \in MCList : Hash[a] \in HashBits
      BY <2>1, HashAssumption
    <3> QED
      BY <2>2, <3>1, <3>2 DEF MulticastProgrammed
  <2>3. CASE PacketFilter \cap {"Promiscuous", "AllMulticast"} = {}
    <3>1. regs.mar = {Hash[a] : a \in MCList}
      BY <2>1, <2>3 DEF MulticastRegs
    <3> QED
      BY <2>3, <3>1 DEF MulticastProgrammed
  <2> QED
    BY <2>2, <2>3
<1> QED
  BY <1>1, <1>2, NextMar, TypeCorrect, PTL DEF Spec
=============================================================================
