------------------------------ MODULE RtStart ------------------------------
(***************************************************************************)
(* The life of a device object: it is added, its hardware prepared and     *)
(* released any number of times, with other registry settings each time,   *)
(* it goes to low power, with or without wake armed, and comes back; a     *)
(* start may fail at every point (driver.cpp, configuration.cpp,           *)
(* device.cpp, power.cpp, the address functions of adapter.cpp and the PHY *)
(* functions of link.cpp).  Queues and filters are in other modules.       *)
(*                                                                         *)
(* The framework serialises these callbacks: each is one step, a function  *)
(* of the adapter context and of the registers.                            *)
(***************************************************************************)
EXTENDS RtEeprom

CONSTANTS
  Boards,      \* the boards the driver may meet
  Board,       \* what is on them
  Registries,  \* values of the keywords in the registry, Absent if not there
  Requests     \* values of NetworkAddress in the registry

Absent    == -1
EthBytes  == 1 .. 6
Addresses == [Length : Nat, Address : [EthBytes -> 0 .. 255]]
NoAddress == [Length |-> 0, Address |-> <<0, 0, 0, 0, 0, 0>>]

(* The keywords, with default, least and greatest value.                   *)
RtSupportedProperties ==
  [SpeedDuplex              |-> [Default |-> 0,   Min |-> 0,  Max |-> 6],
   ReceiveBuffers           |-> [Default |-> 128, Min |-> 18, Max |-> 1024],
   TransmitBuffers          |-> [Default |-> 128, Min |-> 32, Max |-> 128],
   WakeOnMagicPacketEnabled |-> [Default |-> 1,   Min |-> 0,  Max |-> 1],
   InterruptModerationMode  |-> [Default |-> 1,   Min |-> 0,  Max |-> 1],
   FlowControl              |-> [Default |-> 3,   Min |-> 0,  Max |-> 3],
   RssEnabled               |-> [Default |-> 0,   Min |-> 0,  Max |-> 1],
   InterruptModerationLevel |-> [Default |-> 0,   Min |-> 0,  Max |-> 1]]

Keywords == DOMAIN RtSupportedProperties

EEPROM_ID     == 33065   \* 0x8129
EEPROM_PCI_ID == 4332    \* 0x10ec

(* factory is the address the device loads into ID when it is powered.     *)
ASSUME BoardAssumption ==
  Board \in [Boards -> [macVer : Nat, select9356 : BOOLEAN,
                        memory : [EepromWords -> WordValues],
                        factory : [EthBytes -> 0 .. 255]]]
ASSUME FactoryAssumption ==
  \A b \in Boards :
    Board[b].memory[0] = EEPROM_ID /\ Board[b].memory[1] = EEPROM_PCI_ID =>
      \A i \in 0 .. 2 :
        Board[b].memory[ETHERNET_WORD + i] =
          Board[b].factory[2 * i + 1] + 256 * Board[b].factory[2 * i + 2]
ASSUME RegistryAssumption == Registries \subseteq [Keywords -> Nat \cup {Absent}]
ASSUME RequestAssumption  == Requests \subseteq Addresses

VARIABLES
  power,     \* "absent", "stopped", "prepared", "on", "low", "bugcheck"
  failed,    \* the device object failed and is to be removed
  adapter,   \* the fields of RT_ADAPTER
  nic,       \* the registers: ID, CR9346, CONFIG3_Magic and those of the PHY
  board,     \* the board: its name, what the EEPROM functions return on it
  armed,     \* the wake sources the framework armed: "none", "other", "magic"
  given,     \* the network address read at this start
  overrides, \* a valid one was read since the device was added
  raised     \* the device has been in low power since it was started

history == <<given, overrides, raised>>
vars    == <<power, failed, adapter, nic, board, armed, given, overrides, raised>>

(* The context of a new device object.                                     *)
ZeroAdapter ==
  [mapped |-> FALSE, config |-> [k \in Keywords |-> 0], EEPROMSupported |-> FALSE,
   PermanentAddress |-> NoAddress, CurrentAddress |-> NoAddress, OverrideAddress |-> FALSE]

PhyDefaults == {"10H", "10F", "100H", "100F", "1000F"}

(* The registers of a device that is powered, or that lost them.           *)
Fresh(b) ==
  [ID |-> Board[b].factory, CR9346 |-> {}, magic |-> FALSE,
   phy |-> [down |-> FALSE, advertised |-> PhyDefaults, negotiated |-> PhyDefaults]]

(* What the two EEPROM functions return on a board, from the operating     *)
(* mode they find.  It does not change: it is computed once, with the      *)
(* initial state.                                                          *)
EepromReads(b) ==
  LET Bus(pins)    == [cr |-> pins, memory |-> Board[b].memory, heard |-> <<>>]
      OfId(r)      == [cr |-> r.bus.cr, found |-> r.found, id |-> r.id, pciId |-> r.pciId]
      OfAddress(r) == [cr |-> r.bus.cr, bytes |-> r.bytes]
  IN  [pins \in SUBSET {"EEM0", "EEM1"} |->
         [id      |-> Only({OfId(r) : r \in {RtAdapterReadEepromId(Bus(pins))}}),
          address |-> Only({OfAddress(r) :
                              r \in {RtAdapterReadEEPROMPermanentAddress(Bus(pins))}})]]

Init ==
  /\ power = "absent" /\ failed = FALSE /\ adapter = ZeroAdapter
  /\ board \in {[name |-> b, eeprom |-> EepromReads(b)] : b \in Boards}
  /\ nic = Fresh(board.name)
  /\ armed = "none" /\ given = NoAddress /\ overrides = FALSE /\ raised = FALSE

-----------------------------------------------------------------------------
(* Configuration and addresses.                                            *)

IsMulticast(bytes) == bytes[1] % 2 = 1
IsZero(bytes)      == \A i \in EthBytes : bytes[i] = 0

(* Mutant: a value above the maximum passes.                               *)
ReadKeywordMinOnly(keyword, value) ==
  LET property == RtSupportedProperties[keyword]
  IN  IF value >= property.Min THEN value ELSE property.Default

ReadKeyword(keyword, value) ==
  LET property == RtSupportedProperties[keyword]
  IN  IF value \in property.Min .. property.Max THEN value ELSE property.Default

(* A broadcast address is a multicast address.                             *)
ValidRequest(request) == request.Length = 6 /\ ~IsMulticast(request.Address)

(* An invalid address has replaced CurrentAddress when it is found to be   *)
(* invalid.                                                                *)
RtAdapterReadConfiguration(a, registry, request) ==
  [a EXCEPT !.config          = [k \in Keywords |-> ReadKeyword(k, registry[k])],
            !.CurrentAddress  = IF request = NoAddress THEN @ ELSE request,
            !.OverrideAddress = @ \/ ValidRequest(request)]

(* Mutant: leaves the programming mode as the EEPROM code uses it.         *)
RtAdapterDisableCR9346WriteEEM0(n) == [n EXCEPT !.CR9346 = @ \ {"EEM0"}]

RtAdapterEnableCR9346Write(n)  == [n EXCEPT !.CR9346 = @ \cup {"EEM0", "EEM1"}]
RtAdapterDisableCR9346Write(n) == [n EXCEPT !.CR9346 = @ \ {"EEM0", "EEM1"}]

(* The device takes writes of ID and CONFIG3 only in between.              *)
Unlocked(n) == {"EEM0", "EEM1"} \subseteq n.CR9346

WriteID(n, bytes)    == IF Unlocked(n) THEN [n EXCEPT !.ID = bytes] ELSE n
WriteMagic(n, value) == IF Unlocked(n) THEN [n EXCEPT !.magic = value] ELSE n

RtAdapterSetupCurrentAddress(n, a) ==
  RtAdapterDisableCR9346Write(
    WriteID(RtAdapterEnableCR9346Write(n), a.CurrentAddress.Address))

RtAdapterEnableMagicPacket(n) ==
  RtAdapterDisableCR9346Write(WriteMagic(RtAdapterEnableCR9346Write(n), TRUE))

RtAdapterDisableMagicPacket(n) ==
  RtAdapterDisableCR9346Write(WriteMagic(RtAdapterEnableCR9346Write(n), FALSE))

EepromRead(n) == board.eeprom[n.CR9346]

RtInitializeEeprom(s) ==
  LET Initialized(read) ==
        [adapter |-> [s.adapter EXCEPT !.EEPROMSupported =
                        read.found /\ read.id = EEPROM_ID /\ read.pciId = EEPROM_PCI_ID],
         nic     |-> [s.nic EXCEPT !.CR9346 = read.cr]]
  IN  Only({Initialized(read) : read \in {EepromRead(s.nic).id}})

(* Reads the permanent address and copies it, if it is valid and no other  *)
(* was given.                                                              *)
RtAdapterReadAddress(s) ==
  LET Copied(nic_, bytes) ==
        LET permanent == [Length |-> 6, Address |-> bytes]
            valid     == ~IsMulticast(bytes) /\ ~IsZero(bytes)
        IN  [adapter |-> [s.adapter EXCEPT
                            !.PermanentAddress = permanent,
                            !.CurrentAddress   = IF valid /\ ~s.adapter.OverrideAddress
                                                 THEN permanent ELSE @],
             nic |-> nic_, valid |-> valid]
  IN  IF s.adapter.EEPROMSupported
      THEN Only({Copied([s.nic EXCEPT !.CR9346 = read.cr], read.bytes) :
                  read \in {EepromRead(s.nic).address}})
      ELSE Copied(s.nic, s.nic.ID)

-----------------------------------------------------------------------------
(* The PHY: what it advertises and what the last negotiation was about.    *)

Advertised(config) ==
  CASE config.SpeedDuplex = 0 -> {"10H", "10F", "100H", "100F", "1000H", "1000F"}
    [] config.SpeedDuplex = 1 -> {"10H"}
    [] config.SpeedDuplex = 2 -> {"10F"}
    [] config.SpeedDuplex = 3 -> {"100H"}
    [] config.SpeedDuplex = 4 -> {"100F"}
    [] config.SpeedDuplex = 6 -> {"1000F"}
    [] OTHER -> {}

Pauses(config) == {p \in {"Asym"} : config.FlowControl \in {1, 3}}
                    \cup {p \in {"Mac"} : config.FlowControl \in {2, 3}}

(* Powering it up makes it negotiate, if it was down.                      *)
RtAdapterPowerUpPhy(n) ==
  [n EXCEPT !.phy.down = FALSE,
            !.phy.negotiated = IF n.phy.down THEN n.phy.advertised ELSE @]

RtAdapterPushPhySettings(n, a) ==
  [n EXCEPT !.phy.advertised = Advertised(a.config) \cup Pauses(a.config)]

RtAdapterResetPhy(n) ==
  [n EXCEPT !.phy = [down |-> FALSE, advertised |-> PhyDefaults, negotiated |-> PhyDefaults]]

RtAdapterInitializeAutoNegotiation(n) == [n EXCEPT !.phy.negotiated = n.phy.advertised]

(* A full reset of the MAC may return ID to its default or leave it.       *)
RtAdapterIssueFullReset(n, reload) ==
  IF reload THEN [n EXCEPT !.ID = Board[board.name].factory] ELSE n

-----------------------------------------------------------------------------
(* Adding and removing the device.                                         *)

(* A failure after WdfDeviceCreate ends with the device object destroyed.  *)
EvtDriverDeviceAdd ==
  /\ power = "absent"
  /\ power' \in {"absent", "stopped"}
  /\ UNCHANGED <<failed, adapter, nic, board, armed, history>>

Remove ==
  /\ power = "stopped" /\ ~adapter.mapped
  /\ power' = "absent" /\ failed' = FALSE /\ adapter' = ZeroAdapter
  /\ given' = NoAddress /\ overrides' = FALSE
  /\ UNCHANGED <<nic, board, armed, raised>>

PowerCycle ==
  /\ power \in {"absent", "bugcheck"}
  /\ power' = "absent" /\ failed' = FALSE /\ adapter' = ZeroAdapter
  /\ nic' = Fresh(board.name) /\ armed' = "none"
  /\ given' = NoAddress /\ overrides' = FALSE /\ raised' = FALSE
  /\ UNCHANGED board

-----------------------------------------------------------------------------
(* Starting it.                                                            *)

RtAdapterQueryChipType(b) ==
  \/ b.macVer = 671088640 /\ ~b.select9356    \* 0x28000000
  \/ b.macVer = 738197504                     \* 0x2c000000

(* RtInitializeHardware from the EEPROM to the address ...                 *)
Addressed(s, reload) ==
  LET phy(n, a) == RtAdapterPowerUpPhy(
                     RtAdapterIssueFullReset(RtAdapterPushPhySettings(n, a), reload))
      Reset(identified) ==
        [identified EXCEPT !.nic = RtAdapterIssueFullReset(phy(@, identified.adapter), reload)]
  IN  Only({RtAdapterReadAddress(r) : r \in {Reset(i) : i \in {RtInitializeEeprom(s)}}})

(* Mutant: programs the address before the reset.                          *)
RtAdapterRefreshCurrentAddressFirst(n, a, reload) ==
  RtAdapterIssueFullReset(RtAdapterSetupCurrentAddress(n, a), reload)

(* ... and its programming.                                                *)
RtAdapterRefreshCurrentAddress(n, a, reload) ==
  RtAdapterSetupCurrentAddress(RtAdapterIssueFullReset(n, reload), a)

Fail(a, n) == power' = "stopped" /\ failed' = TRUE /\ adapter' = a /\ nic' = n

(* What follows RtAdapterReadConfiguration.  The memory resource or its    *)
(* mapping, the chip, the address, the DMA enabler or NetAdapterStart may  *)
(* fail; an enabler of an earlier start is left behind.                    *)
RtInitializeHardware(configured, reload) ==
  LET mapped == [configured EXCEPT !.mapped = TRUE]
  IN  \/ Fail(configured, nic)
      \/ ~RtAdapterQueryChipType(Board[board.name]) /\ Fail(mapped, nic)
      \/ /\ RtAdapterQueryChipType(Board[board.name])
         /\ \E addressed \in {Addressed([adapter |-> mapped, nic |-> nic], reload)} :
              \E set \in {RtAdapterRefreshCurrentAddress(addressed.nic, addressed.adapter, reload)} :
                \/ Fail(addressed.adapter, addressed.nic)
                \/ addressed.valid /\ Fail(addressed.adapter, set)
                \/ /\ addressed.valid
                   /\ power' = "prepared" /\ adapter' = addressed.adapter /\ nic' = set
                   /\ UNCHANGED failed

EvtDevicePrepareHardware(registry, request, reload) ==
  /\ power = "stopped" /\ ~failed /\ ~adapter.mapped
  /\ RtInitializeHardware(RtAdapterReadConfiguration(adapter, registry, request), reload)
  /\ given' = request /\ overrides' = (overrides \/ ValidRequest(request))
  /\ raised' = FALSE
  /\ UNCHANGED <<board, armed>>

(* NetAdapterOpenConfiguration fails: the function closes a handle nobody  *)
(* set, if it is not zero (configuration.cpp:177), and returns success.    *)
PrepareHardwareUnconfigured(reload) ==
  /\ power = "stopped" /\ ~failed /\ ~adapter.mapped
  /\ \/ /\ power' = "bugcheck"
        /\ UNCHANGED <<failed, adapter, nic>>
     \/ RtInitializeHardware(adapter, reload)
  /\ given' = NoAddress /\ raised' = FALSE
  /\ UNCHANGED <<board, armed, overrides>>

(* Called after a failed prepare too.                                      *)
EvtDeviceReleaseHardware ==
  /\ power = "stopped" /\ adapter.mapped
  /\ adapter' = [adapter EXCEPT !.mapped = FALSE]
  /\ UNCHANGED <<power, failed, nic, board, armed, history>>

-----------------------------------------------------------------------------
(* Power.                                                                  *)

(* Mutant: resets the PHY after it was set up.                             *)
RtAdapterRaiseToD0ResetLast(n, a, reload) ==
  LET up    == RtAdapterPowerUpPhy(RtAdapterIssueFullReset(n, reload))
      known == RtAdapterSetupCurrentAddress(RtAdapterIssueFullReset(up, reload), a)
  IN  RtAdapterResetPhy(RtAdapterInitializeAutoNegotiation(RtAdapterPushPhySettings(known, a)))

RtAdapterRaiseToD0(n, a, reload) ==
  LET up    == RtAdapterPowerUpPhy(RtAdapterIssueFullReset(n, reload))
      reset == RtAdapterIssueFullReset(RtAdapterResetPhy(up), reload)
      known == RtAdapterSetupCurrentAddress(reset, a)
  IN  RtAdapterInitializeAutoNegotiation(RtAdapterPushPhySettings(known, a))

EvtDeviceD0Entry(reload) ==
  /\ power \in {"prepared", "low"}
  /\ power' = "on"
  /\ nic' = IF power = "low" THEN RtAdapterRaiseToD0(nic, adapter, reload) ELSE nic
  /\ raised' = (raised \/ power = "low")
  /\ UNCHANGED <<failed, adapter, board, armed, given, overrides>>

(* Before a system sleep state.                                            *)
EvtDeviceArmWakeFromSx(sources) ==
  /\ power = "on" /\ ~failed /\ armed = "none"
  /\ armed' = sources
  /\ nic' = IF sources = "magic" THEN RtAdapterEnableMagicPacket(nic) ELSE nic
  /\ UNCHANGED <<power, failed, adapter, board, history>>

EvtDeviceDisarmWakeFromSx ==
  /\ power = "on" /\ armed # "none"
  /\ armed' = "none" /\ nic' = RtAdapterDisableMagicPacket(nic)
  /\ UNCHANGED <<power, failed, adapter, board, history>>

(* A device armed to wake on a magic packet keeps what it needs for it;    *)
(* others may lose their registers, and the PHY may be powered down.       *)
LowPower(n) ==
  {[m EXCEPT !.phy.down = down] :
     m \in IF armed = "magic" THEN {n} ELSE {n, Fresh(board.name)}, down \in BOOLEAN}

EvtDeviceD0Exit(target) ==
  /\ power = "on"
  /\ target = "low" => ~failed
  /\ target = "stopped" => armed = "none"
  /\ power' = target /\ nic' \in LowPower(nic)
  /\ UNCHANGED <<failed, adapter, board, armed, history>>

-----------------------------------------------------------------------------
Next ==
  \/ EvtDriverDeviceAdd \/ Remove \/ PowerCycle
  \/ \E reload \in BOOLEAN :
       \/ \E registry \in Registries, request \in Requests \cup {NoAddress} :
            EvtDevicePrepareHardware(registry, request, reload)
       \/ PrepareHardwareUnconfigured(reload)
       \/ EvtDeviceD0Entry(reload)
  \/ EvtDeviceReleaseHardware
  \/ \E sources \in {"other", "magic"} : EvtDeviceArmWakeFromSx(sources)
  \/ EvtDeviceDisarmWakeFromSx
  \/ \E target \in {"low", "stopped"} : EvtDeviceD0Exit(target)

Spec == Init /\ [][Next]_vars

-----------------------------------------------------------------------------
(* The EEPROM functions return what the chip holds, whatever it holds,     *)
(* when they find the pins lowered.                                        *)
EepromRight ==
  \A b \in Boards :
    LET memory == Board[b].memory
        read   == EepromReads(b)[{}]
    IN  /\ read.id.found = (memory[0] # 0 \/ memory[1] # 0)
        /\ read.id.id = memory[0] /\ read.id.pciId = memory[1]
        /\ read.address.bytes \in [EthBytes -> 0 .. 255]
        /\ \A i \in 0 .. 2 :
             /\ read.address.bytes[2 * i + 1] = memory[ETHERNET_WORD + i] % 256
             /\ read.address.bytes[2 * i + 2] = memory[ETHERNET_WORD + i] \div 256

Phys  == [down : BOOLEAN, advertised : SUBSET (PhyDefaults \cup {"1000H", "Asym", "Mac"}),
          negotiated : SUBSET (PhyDefaults \cup {"1000H", "Asym", "Mac"})]
Nics  == [ID : [EthBytes -> 0 .. 255], CR9346 : SUBSET Pins, magic : BOOLEAN, phy : Phys]

StartTypeOK ==
  /\ power \in {"absent", "stopped", "prepared", "on", "low", "bugcheck"}
  /\ failed \in BOOLEAN /\ nic \in Nics /\ board.name \in Boards
  /\ adapter \in [mapped : BOOLEAN, config : [Keywords -> Nat], EEPROMSupported : BOOLEAN,
                  PermanentAddress : Addresses, CurrentAddress : Addresses,
                  OverrideAddress : BOOLEAN]
  /\ armed \in {"none", "other", "magic"}
  /\ given \in Addresses /\ overrides \in BOOLEAN /\ raised \in BOOLEAN

(* Once started, and when it sleeps to be woken by a magic packet, the     *)
(* device listens to the address announced to the framework, whatever      *)
(* resets and low-power states came before: the one given, if it is valid, *)
(* and if none was since the device was added its own, which is that of    *)
(* the EEPROM if there is one (adapter.cpp:474-594, eeprom.cpp:128-193,    *)
(* power.cpp:60).                                                          *)
StationAddress ==
  (power \in {"prepared", "on"} \/ (power = "low" /\ armed = "magic")) =>
    /\ nic.ID = adapter.CurrentAddress.Address
    /\ ValidRequest(given) => nic.ID = given.Address
    /\ ~overrides => nic.ID = adapter.PermanentAddress.Address
    /\ LET memory == Board[board.name].memory
       IN  memory[0] = EEPROM_ID /\ memory[1] = EEPROM_PCI_ID =>
             adapter.PermanentAddress.Address = Board[board.name].factory

(* A device never listens to a multicast address or to none: the registry  *)
(* value is checked (configuration.cpp:155-168), the permanent address too *)
(* (adapter.cpp:518-523).                                                  *)
StationAddressValid ==
  power = "on" => ~IsMulticast(nic.ID) /\ ~IsZero(nic.ID)

(* The device sleeps with magic packet detection on if the framework armed *)
(* that source and only then, it is off again after the disarm, and no     *)
(* callback leaves the configuration registers unlocked or the EEPROM pins *)
(* in the driver's hands (power.cpp:21-43, eeprom.cpp:155, :176).          *)
WakeArmed ==
  /\ power = "low" => nic.magic = (armed = "magic")
  /\ power = "on" /\ armed = "none" => ~nic.magic
  /\ nic.CR9346 = {}

(* A running device advertises what the registry asks for, something in    *)
(* any case but one (5 is between the least and the greatest mode and is   *)
(* none), and a link negotiated after low power was negotiated with it     *)
(* (link.cpp:59-150, configuration.cpp:98-110).                            *)
PhyProgrammed ==
  power = "on" =>
    LET phy == nic.phy
    IN  /\ phy.advertised = Advertised(adapter.config) \cup Pauses(adapter.config)
        /\ adapter.config.SpeedDuplex # 5 => phy.advertised \ {"Asym", "Mac"} # {}
        /\ raised => phy.negotiated = phy.advertised /\ ~phy.down
=============================================================================
