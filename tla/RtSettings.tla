----------------------------- MODULE RtSettings -----------------------------
(***************************************************************************)
(* The settings the framework gives the adapter and the registers that     *)
(* carry them out: the packet filter in RCR, the multicast list in MAR,    *)
(* the checksum offloads and the interrupt moderation in CPCR and the      *)
(* timers, the receiver enable bit.  Filter, list and offload callbacks,   *)
(* queue starts, cancels and stops, and power transitions with their       *)
(* resets all write them (adapter.cpp, rxqueue.cpp, power.cpp, device.cpp).*)
(*                                                                         *)
(* The filter, list and queue callbacks hold adapter->Lock while they      *)
(* write: each is one step, a function of the registers.  The offload      *)
(* callbacks take no lock: they set the flags, and then read, change and   *)
(* write CPCR, which no other callback writes.  The framework makes one    *)
(* offload callback at a time and none during a power callback             *)
(* (power.cpp:97).  The notification side of the queues and the wait       *)
(* inside a stop are in RtInterrupt.                                       *)
(***************************************************************************)
EXTENDS Integers

CONSTANTS
  RxIds,          \* the receive queues
  Filters,        \* values of NET_PACKET_FILTER_FLAGS
  Addresses,      \* multicast addresses
  Hash,           \* GetMulticastBit: the bit of MAR an address hashes to
  Offloads,       \* values of the five offload flags: the set of those enabled
  ResetDefaults   \* the registers a full reset may return to their defaults

FilterFlags  == {"Directed", "Multicast", "AllMulticast", "Broadcast", "Promiscuous"}
AcceptBits   == {"AAP", "APM", "AM", "AB", "AR", "AER"}
HashBits     == 0 .. 63
OffloadFlags == {"Ip", "Tcp", "Udp", "LSOv4", "LSOv6"}
Levels       == {"off", "low", "medium"}

ASSUME FiltersAssumption  == Filters \subseteq SUBSET FilterFlags
ASSUME HashAssumption     == Hash \in [Addresses -> HashBits]
ASSUME OffloadsAssumption == Offloads \subseteq SUBSET OffloadFlags
ASSUME ResetAssumption    == ResetDefaults \subseteq {"rcr", "mar", "cpcr", "timer"}

VARIABLES
  power,         \* "released", "prepared", "on" or "low"
  regs,          \* the registers
  PacketFilter, MCList,   \* the fields of RT_ADAPTER
  offloads,      \* IpHwChkSum, TcpHwChkSum, UdpHwChkSum, LSOv4, LSOv6
  moderation,    \* the level of interrupt moderation read from the registry
  updating,      \* an offload callback has set its flags, not yet CPCR
  RxQueues,      \* the queues that are started
  cancelled,     \* those the framework has cancelled and not yet stopped
  told,          \* filter or list has been set since NetAdapterStart
  opened,        \* history: a queue was started, and none cancelled or stopped since
  wiped          \* history: the settings in CPCR and the timers that a reset of
                 \* D0 entry took back and nothing has written since

settings == <<PacketFilter, MCList, offloads, moderation>>
queues   == <<RxQueues, cancelled, opened>>
vars     == <<power, regs, PacketFilter, MCList, offloads, moderation, updating,
              RxQueues, cancelled, told, opened, wiped>>

(* RCR, MAR, the checksum and timer unit bits of CPCR, the moderation      *)
(* timers, CR_RE.                                                          *)
Defaults == [rcr |-> {}, mar |-> {}, rxChecksum |-> FALSE, unit |-> FALSE,
             timer |-> "off", re |-> FALSE]

Init ==
  /\ power = "released" /\ regs = Defaults
  /\ PacketFilter = {} /\ MCList = {} /\ offloads = {} /\ moderation = "off"
  /\ updating = FALSE
  /\ RxQueues = {} /\ cancelled = {} /\ told = FALSE /\ opened = FALSE /\ wiped = {}

-----------------------------------------------------------------------------
(* What the driver's functions do to the registers.                        *)

RtConvertPacketFilterToRcr(filter) ==
  IF "Promiscuous" \in filter THEN AcceptBits
  ELSE {b \in {"AM"} : filter \cap {"Multicast", "AllMulticast"} # {}}
         \cup {b \in {"AB"}  : "Broadcast" \in filter}
         \cup {b \in {"APM"} : "Directed" \in filter}

RtAdapterUpdateRcr(r, filter) == [r EXCEPT !.rcr = RtConvertPacketFilterToRcr(filter)]

MulticastRegs(filter, list) ==
  IF filter \cap {"Promiscuous", "AllMulticast"} # {} THEN HashBits
  ELSE {Hash[a] : a \in list}

RtAdapterPushMulticastList(r, filter, list) == [r EXCEPT !.mar = MulticastRegs(filter, list)]

RtAdapterUpdateHardwareChecksum(r, enabled) == [r EXCEPT !.rxChecksum = (enabled # {})]

RtAdapterUpdateInterruptModeration(r) ==
  [r EXCEPT !.timer = moderation, !.unit = (moderation # "off")]

(* The settings in the registers that a reset takes back.                  *)
Lost(taken) == (taken \cap {"rcr", "mar", "timer"})
                 \cup (IF "cpcr" \in taken THEN {"rxChecksum", "unit"} ELSE {})

(* CmdReg = CR_RST clears the enable bits in any case, and returns the     *)
(* registers taken to their defaults.                                      *)
RtAdapterIssueFullReset(r, taken) ==
  [f \in DOMAIN r |-> IF f \in Lost(taken) \cup {"re"} THEN Defaults[f] ELSE r[f]]

(* In low power the device ignores what is written to it.                  *)
Written(r) == IF power = "low" THEN regs ELSE r

-----------------------------------------------------------------------------
(* Settings, once NetAdapterStart has made the adapter known.              *)

EvtSetPacketFilter(filter) ==
  /\ power # "released"
  /\ PacketFilter' = filter
  /\ regs' = Written(RtAdapterPushMulticastList(RtAdapterUpdateRcr(regs, filter), filter, MCList))
  /\ told' = TRUE
  /\ UNCHANGED <<power, MCList, offloads, moderation, updating, queues, wiped>>

EvtSetMulticastList(list) ==
  /\ power # "released"
  /\ MCList' = list
  /\ regs' = Written(RtAdapterPushMulticastList(regs, PacketFilter, list))
  /\ told' = TRUE
  /\ UNCHANGED <<power, PacketFilter, offloads, moderation, updating, queues, wiped>>

(* EvtAdapterOffloadSetChecksum sets three of the flags, EvtAdapterOffload- *)
(* SetLso the other two.                                                   *)
EvtAdapterOffloadSet(enabled) ==
  /\ power # "released" /\ ~updating
  /\ \E flags \in {{"Ip", "Tcp", "Udp"}, {"LSOv4", "LSOv6"}} :
       offloads' = (offloads \ flags) \cup (enabled \cap flags)
  /\ updating' = TRUE
  /\ UNCHANGED <<power, regs, PacketFilter, MCList, moderation, queues, told, wiped>>

(* And both end in RtAdapterUpdateHardwareChecksum.                        *)
EvtAdapterOffloadUpdate ==
  /\ updating
  /\ regs' = Written(RtAdapterUpdateHardwareChecksum(regs, offloads))
  /\ wiped' = wiped \ {"rxChecksum"}
  /\ updating' = FALSE
  /\ UNCHANGED <<power, settings, queues, told>>

-----------------------------------------------------------------------------
(* Receive queues, each started, cancelled and stopped by itself.          *)

(* Mutant: relies on the filter callback to program RCR.                   *)
EvtRxQueueStartNoRcr(q) ==
  /\ power = "on" /\ q \notin RxQueues
  /\ RxQueues' = RxQueues \cup {q} /\ opened' = TRUE
  /\ regs' = [regs EXCEPT !.re = TRUE]
  /\ UNCHANGED <<power, settings, updating, cancelled, told, wiped>>

EvtRxQueueStart(q) ==
  /\ power = "on" /\ q \notin RxQueues
  /\ RxQueues' = RxQueues \cup {q} /\ opened' = TRUE
  /\ regs' = RtAdapterUpdateRcr([regs EXCEPT !.re = TRUE], PacketFilter)
  /\ UNCHANGED <<power, settings, updating, cancelled, told, wiped>>

(* Mutant: closes the filter and leaves the receiver enabled.              *)
EvtRxQueueCancelRcrOnly(q) ==
  /\ power = "on" /\ q \in RxQueues \ cancelled
  /\ cancelled' = cancelled \cup {q} /\ opened' = FALSE
  /\ regs' = [regs EXCEPT !.rcr = {}]
  /\ UNCHANGED <<power, settings, updating, RxQueues, told, wiped>>

EvtRxQueueCancel(q) ==
  /\ power = "on" /\ q \in RxQueues \ cancelled
  /\ cancelled' = cancelled \cup {q} /\ opened' = FALSE
  /\ regs' = [regs EXCEPT !.rcr = {}, !.re = FALSE]
  /\ UNCHANGED <<power, settings, updating, RxQueues, told, wiped>>

(* The bool that counts the queues is 1 whenever there is any.             *)
EvtRxQueueStop(q) ==
  /\ q \in cancelled
  /\ RxQueues' = RxQueues \ {q} /\ cancelled' = cancelled \ {q} /\ opened' = FALSE
  /\ regs' = [regs EXCEPT !.re = FALSE]
  /\ UNCHANGED <<power, settings, updating, told, wiped>>

-----------------------------------------------------------------------------
(* Power.                                                                  *)

(* The registry is read again, the device reset twice, the address         *)
(* refreshed with a third reset and CPCR cleared.                          *)
EvtDevicePrepareHardware ==
  /\ power = "released"
  /\ power' = "prepared"
  /\ moderation' \in Levels
  /\ \E taken \in SUBSET ResetDefaults :
       regs' = [RtAdapterIssueFullReset(regs, taken) EXCEPT !.rxChecksum = FALSE, !.unit = FALSE]
  /\ told' = FALSE
  /\ UNCHANGED <<PacketFilter, MCList, offloads, updating, queues, wiped>>

(* Before the resets of RtAdapterRaiseToD0, as far as they write regs.     *)
Programmed ==
  RtAdapterUpdateInterruptModeration(RtAdapterUpdateHardwareChecksum(regs, offloads))

(* From a low-power state the device is reset, twice, by                   *)
(* RtAdapterRaiseToD0.                                                     *)
Raised(r, taken) ==
  IF power = "prepared" THEN r ELSE RtAdapterIssueFullReset(r, taken)

(* Mutant: does not restore the multicast registers.                       *)
EvtDeviceD0EntryNoPush ==
  /\ power \in {"prepared", "low"} /\ ~updating
  /\ power' = "on"
  /\ \E taken \in SUBSET ResetDefaults :
       /\ regs' = Raised(Programmed, taken)
       /\ wiped' = IF power = "prepared" THEN {} ELSE Lost(taken) \ {"rcr", "mar"}
  /\ UNCHANGED <<settings, updating, queues, told>>

(* Mutant: leaves CPCR to the offload callbacks.                           *)
EvtDeviceD0EntryNoChecksum ==
  /\ power \in {"prepared", "low"} /\ ~updating
  /\ power' = "on"
  /\ \E taken \in SUBSET ResetDefaults :
       LET r == Raised(RtAdapterUpdateInterruptModeration(regs), taken)
       IN  /\ regs' = IF power = "prepared" THEN r
                      ELSE RtAdapterPushMulticastList(r, PacketFilter, MCList)
           /\ wiped' = IF power = "prepared" THEN {} ELSE Lost(taken) \ {"rcr", "mar"}
  /\ UNCHANGED <<settings, updating, queues, told>>

(* CPCR and the timers are programmed before the resets, and after them    *)
(* the multicast list is pushed again, but nothing else.                   *)
EvtDeviceD0Entry ==
  /\ power \in {"prepared", "low"} /\ ~updating
  /\ power' = "on"
  /\ \E taken \in SUBSET ResetDefaults :
       LET r == Raised(Programmed, taken)
       IN  /\ regs' = IF power = "prepared" THEN r
                      ELSE RtAdapterPushMulticastList(r, PacketFilter, MCList)
           /\ wiped' = IF power = "prepared" THEN {} ELSE Lost(taken) \ {"rcr", "mar"}
  /\ UNCHANGED <<settings, updating, queues, told>>

(* Every queue has been stopped.  The device may lose its registers.       *)
EvtDeviceD0Exit(target) ==
  /\ power = "on" /\ RxQueues = {} /\ ~updating
  /\ power' = target
  /\ regs' \in {regs, Defaults}
  /\ wiped' = {}
  /\ UNCHANGED <<settings, updating, queues, told>>

-----------------------------------------------------------------------------
Next ==
  \/ \E filter \in Filters : EvtSetPacketFilter(filter)
  \/ \E list \in SUBSET Addresses : EvtSetMulticastList(list)
  \/ \E enabled \in Offloads : EvtAdapterOffloadSet(enabled)
  \/ EvtAdapterOffloadUpdate
  \/ \E q \in RxIds : EvtRxQueueStart(q) \/ EvtRxQueueCancel(q) \/ EvtRxQueueStop(q)
  \/ EvtDevicePrepareHardware \/ EvtDeviceD0Entry
  \/ \E target \in {"low", "released"} : EvtDeviceD0Exit(target)

Spec == Init /\ [][Next]_vars

-----------------------------------------------------------------------------
Registers == [rcr : SUBSET AcceptBits, mar : SUBSET HashBits, rxChecksum : BOOLEAN,
              unit : BOOLEAN, timer : Levels, re : BOOLEAN]

TypeOK ==
  /\ power \in {"released", "prepared", "on", "low"}
  /\ regs \in Registers
  /\ PacketFilter \in Filters \cup {{}} /\ MCList \subseteq Addresses
  /\ offloads \subseteq OffloadFlags /\ moderation \in Levels
  /\ RxQueues \subseteq RxIds /\ cancelled \subseteq RxQueues
  /\ updating \in BOOLEAN /\ told \in BOOLEAN /\ opened \in BOOLEAN
  /\ wiped \subseteq {"rxChecksum", "unit", "timer"}

(* From the start of a queue until one is cancelled or stopped, which      *)
(* takes the receiver from all of them, the receiver is enabled and        *)
(* accepts every frame the filter asks for, whatever resets, cancels and   *)
(* low-power states came before (RtAdapterUpdateRcr, rxqueue.cpp:413).     *)
FilterProgrammed ==
  opened =>
    /\ regs.re
    /\ "Directed" \in PacketFilter  => "APM" \in regs.rcr
    /\ "Broadcast" \in PacketFilter => "AB" \in regs.rcr
    /\ PacketFilter \cap {"Multicast", "AllMulticast"} # {} => "AM" \in regs.rcr
    /\ PacketFilter = {} => regs.rcr = {}
    /\ "Promiscuous" \in PacketFilter => "AAP" \in regs.rcr

(* Every multicast frame asked for passes the hash, and no bit of an       *)
(* earlier list or filter is left: "changing the packet filter might       *)
(* require clearing the active MCList" (adapter.cpp:858), "return to D0"   *)
(* (power.cpp:93).                                                         *)
MulticastProgrammed ==
  (power = "on" /\ told) =>
    /\ \A a \in MCList : Hash[a] \in regs.mar
    /\ PacketFilter \cap {"Promiscuous", "AllMulticast"} # {} => regs.mar = HashBits
    /\ PacketFilter \cap {"Promiscuous", "AllMulticast"} = {} =>
         \A bit \in regs.mar : \E a \in MCList : bit = Hash[a]

(* "If one of the checksum offloads is needed or one of the LSO offloads   *)
(* is enabled, enable HW checksum" (adapter.cpp:94-96), also when it was   *)
(* set while the device slept; and the timers and their unit, which shares *)
(* CPCR with it, are those of the moderation level.  The one exception is  *)
(* what a reset of D0 entry, which comes after their programming           *)
(* (power.cpp:83-90), has taken back: that stays at its default, for the   *)
(* checksum until the next offload callback.                               *)
CpcrProgrammed ==
  power = "on" =>
    /\ ~updating => regs.rxChecksum = (offloads # {} /\ "rxChecksum" \notin wiped)
    /\ regs.unit = (moderation # "off" /\ "unit" \notin wiped)
    /\ regs.timer = IF "timer" \in wiped THEN "off" ELSE moderation

(* With every queue cancelled or stopped the receiver is off: the buffers  *)
(* are the framework's again.                                              *)
ReceiverOff == RxQueues \subseteq cancelled => ~regs.re

(* What the two receiver properties rest on: queues run only with the      *)
(* device on, and from the start of a queue to the first cancel or stop    *)
(* RCR is exactly the filter.                                              *)
IInv ==
  /\ TypeOK /\ ReceiverOff
  /\ power # "on" => RxQueues = {}
  /\ opened => /\ RxQueues # {} /\ regs.re
               /\ regs.rcr = RtConvertPacketFilterToRcr(PacketFilter)
=============================================================================
