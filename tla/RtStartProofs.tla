---------------------------- MODULE RtStartProofs ----------------------------
(***************************************************************************)
(* Proofs of the safety properties of RtStart, for any boards, registries  *)
(* and requested addresses: the invariant IInv, that every step keeps it   *)
(* and what follows from it.  What the EEPROM functions return is          *)
(* recursively computed: where it matters it is the hypothesis EepromRight *)
(* of a theorem, which TLC evaluates on the boards of MCRtStart.           *)
(***************************************************************************)
EXTENDS RtStart, TLAPS

USE DEF history

-----------------------------------------------------------------------------
(* What the inductive invariant consists of.                               *)

(* The bytes ID and the addresses of the context may consist of, as far as *)
(* is known without knowing what reading the EEPROM computes.              *)
BytesRead     == [EthBytes -> 0 .. 255] \cup {EepromReads(b)[{}].address.bytes : b \in Boards}
AddressesRead == [Length : Nat, Address : BytesRead]
NicsRead      == [ID : BytesRead, CR9346 : {{}}, magic : BOOLEAN, phy : Phys]
Contexts      == [mapped : BOOLEAN, config : [Keywords -> Nat], EEPROMSupported : BOOLEAN,
                  PermanentAddress : AddressesRead, CurrentAddress : AddressesRead,
                  OverrideAddress : BOOLEAN]

Shape ==
  /\ power \in {"absent", "stopped", "prepared", "on", "low", "bugcheck"}
  /\ failed \in BOOLEAN
  /\ nic \in NicsRead
  /\ board.name \in Boards /\ board.eeprom = EepromReads(board.name)
  /\ adapter \in Contexts /\ adapter.config.SpeedDuplex \in 0 .. 6
  /\ armed \in {"none", "other", "magic"}
  /\ given \in Addresses /\ overrides \in BOOLEAN /\ raised \in BOOLEAN

(* Magic packet detection follows the wake source, armed on a device that  *)
(* is on or asleep only.                                                   *)
Wake ==
  /\ nic.magic = (armed = "magic")
  /\ power \notin {"on", "low"} => armed = "none"

Phy ==
  /\ power \in {"prepared", "on"} =>
       nic.phy.advertised = Advertised(adapter.config) \cup Pauses(adapter.config)
  /\ power = "prepared" => ~raised
  /\ power = "on" /\ raised => nic.phy.negotiated = nic.phy.advertised /\ ~nic.phy.down

(* The permanent address is the board's own, if its EEPROM is the one the  *)
(* driver looks for and reads as what it holds.                            *)
OwnAddress(a) ==
  LET memory == Board[board.name].memory
  IN  EepromRight /\ memory[0] = EEPROM_ID /\ memory[1] = EEPROM_PCI_ID =>
        a.PermanentAddress.Address = Board[board.name].factory

(* The context of a started device names the address it is to listen to,   *)
(* asleep as well; ID holds it unless the device may have lost it.         *)
Station ==
  /\ overrides = adapter.OverrideAddress
  /\ power \in {"prepared", "on", "low"} =>
       /\ ValidRequest(given) => adapter.CurrentAddress.Address = given.Address
       /\ ~overrides => adapter.CurrentAddress.Address = adapter.PermanentAddress.Address
       /\ OwnAddress(adapter)
  /\ power \in {"prepared", "on"} \/ (power = "low" /\ armed = "magic") =>
       nic.ID = adapter.CurrentAddress.Address

IInv == Shape /\ Wake /\ Phy /\ Station

-----------------------------------------------------------------------------
(* Reading the EEPROM.                                                     *)

LEMMA OnlyMember == \A S : S # {} => Only(S) \in S
BY DEF Only

(* Both EEPROM functions leave the pins as they found them, lowered.       *)
LEMMA CrRestored ==
  ASSUME NEW b \in Boards
  PROVE  LET read == EepromReads(b)[{}]
         IN  read.id.cr = {} /\ read.address.cr = {} /\ read.id.found \in BOOLEAN
<1> DEFINE Bus == [cr |-> {}, memory |-> Board[b].memory, heard |-> <<>>]
<1>1. \A bus : WriteCr(bus, {}).cr = {}
  BY DEF WriteCr
<1>2. RtAdapterReadEepromId(Bus).bus.cr = {} /\ RtAdapterReadEepromId(Bus).found \in BOOLEAN
  <2> DEFINE Found(id, pciId) ==
        [bus   |-> WriteCr(pciId.bus, Bus.cr),
         found |-> id.data # 0 \/ pciId.data # 0,
         id    |-> id.data, pciId |-> pciId.data]
  <2>1. \E S, X : RtAdapterReadEepromId(Bus) = Only(UNION {{Found(id, pciId) : pciId \in {ReadEEPROM(id.bus, 1)}} :
                    id \in {X}})
    BY Zenon DEF RtAdapterReadEepromId
  <2>2. PICK X : RtAdapterReadEepromId(Bus) = Only(UNION {{Found(id, pciId) : pciId \in {ReadEEPROM(id.bus, 1)}} :
                    id \in {X}})
    BY <2>1
  <2>3. RtAdapterReadEepromId(Bus) = Found(X, ReadEEPROM(X.bus, 1))
    BY <2>2, OnlyMember
  <2>4. RtAdapterReadEepromId(Bus).bus.cr = {}
    BY <2>3, <1>1
  <2>5. RtAdapterReadEepromId(Bus).found = (X.data # 0 \/ ReadEEPROM(X.bus, 1).data # 0)
    BY <2>3
  <2> QED BY <2>4, <2>5
<1>3. RtAdapterReadEEPROMPermanentAddress(Bus).bus.cr = {}
  <2>1. \E X : RtAdapterReadEEPROMPermanentAddress(Bus) =
                 Only({[bus |-> WriteCr(r.bus, Bus.cr), bytes |-> r.bytes] : r \in {X}})
    BY Zenon DEF RtAdapterReadEEPROMPermanentAddress
  <2>2. PICK X : RtAdapterReadEEPROMPermanentAddress(Bus) =
                 Only({[bus |-> WriteCr(r.bus, Bus.cr), bytes |-> r.bytes] : r \in {X}})
    BY <2>1
  <2>3. RtAdapterReadEEPROMPermanentAddress(Bus) = [bus |-> WriteCr(X.bus, Bus.cr), bytes |-> X.bytes]
    BY <2>2, OnlyMember
  <2> QED BY <2>3, <1>1
<1> DEFINE OfId(r)      == [cr |-> r.bus.cr, found |-> r.found, id |-> r.id, pciId |-> r.pciId]
           OfAddress(r) == [cr |-> r.bus.cr, bytes |-> r.bytes]
           I == RtAdapterReadEepromId(Bus)
           A == RtAdapterReadEEPROMPermanentAddress(Bus)
<1>4. EepromReads(b)[{}] = [id      |-> Only({OfId(r) : r \in {I}}),
                            address |-> Only({OfAddress(r) : r \in {A}})]
  BY DEF EepromReads
<1>5. I.bus.cr = {} /\ I.found \in BOOLEAN /\ A.bus.cr = {}
  BY <1>2, <1>3
<1> HIDE DEF I, A, Bus
<1>6. Only({OfId(r) : r \in {I}}) = OfId(I) /\ Only({OfAddress(r) : r \in {A}}) = OfAddress(A)
  BY OnlyMember
<1>7. EepromReads(b)[{}].id = OfId(I) /\ EepromReads(b)[{}].address = OfAddress(A)
  BY <1>4, <1>6
<1> HIDE DEF OfId, OfAddress
<1>8. OfId(I).cr = {} /\ OfId(I).found \in BOOLEAN /\ OfAddress(A).cr = {}
  BY <1>5 DEF OfId, OfAddress
<1> QED BY <1>7, <1>8

-----------------------------------------------------------------------------
(* The functions of the registers.                                         *)

LEMMA BoardFacts ==
  ASSUME NEW b \in Boards
  PROVE  /\ Board[b].factory \in [EthBytes -> 0 .. 255]
         /\ Board[b].memory \in [EepromWords -> WordValues]
BY BoardAssumption

LEMMA FreshFacts ==
  ASSUME NEW b \in Boards
  PROVE  Fresh(b) \in NicsRead /\ Fresh(b).magic = FALSE
<1>1. Board[b].factory \in BytesRead
  BY BoardFacts DEF BytesRead
<1>2. [down |-> FALSE, advertised |-> PhyDefaults, negotiated |-> PhyDefaults] \in Phys
  BY DEF Phys
<1> QED BY <1>1, <1>2 DEF Fresh, NicsRead

LEMMA ZeroFacts ==
  /\ NoAddress \in Addresses /\ ZeroAdapter \in Contexts
  /\ ZeroAdapter.config.SpeedDuplex = 0 /\ ZeroAdapter.OverrideAddress = FALSE
  /\ ~ValidRequest(NoAddress)
<1>1. <<0, 0, 0, 0, 0, 0>> \in [EthBytes -> 0 .. 255]
  BY DEF EthBytes
<1>2. NoAddress \in Addresses /\ NoAddress \in AddressesRead
  BY <1>1 DEF NoAddress, Addresses, AddressesRead, BytesRead
<1>3. [k \in Keywords |-> 0] \in [Keywords -> Nat] /\ "SpeedDuplex" \in Keywords
  BY DEF Keywords, RtSupportedProperties
<1> QED BY <1>2, <1>3 DEF ZeroAdapter, Contexts, NoAddress, ValidRequest

(* What reading the configuration does to the context.                     *)
LEMMA KeywordFacts ==
  ASSUME NEW k \in Keywords
  PROVE  /\ RtSupportedProperties[k].Default \in Nat
         /\ RtSupportedProperties[k].Min \in Nat
         /\ RtSupportedProperties[k].Max \in Nat
<1>1. k \in {"SpeedDuplex", "ReceiveBuffers", "TransmitBuffers", "WakeOnMagicPacketEnabled",
            "InterruptModerationMode", "FlowControl", "RssEnabled", "InterruptModerationLevel"}
  BY DEF Keywords, RtSupportedProperties
<1> QED BY <1>1 DEF RtSupportedProperties

LEMMA ConfigurationFacts ==
  ASSUME NEW a \in Contexts, NEW registry \in Registries, NEW request \in Addresses
  PROVE  LET c == RtAdapterReadConfiguration(a, registry, request)
         IN  /\ c \in Contexts /\ c.config.SpeedDuplex \in 0 .. 6
             /\ c.OverrideAddress = (a.OverrideAddress \/ ValidRequest(request))
             /\ ValidRequest(request) => c.CurrentAddress = request
<1> DEFINE config == [k \in Keywords |-> ReadKeyword(k, registry[k])]
           c == RtAdapterReadConfiguration(a, registry, request)
<1>1. config \in [Keywords -> Nat]
  <2> SUFFICES ASSUME NEW k \in Keywords PROVE ReadKeyword(k, registry[k]) \in Nat
    OBVIOUS
  <2> QED BY KeywordFacts DEF ReadKeyword
<1>2. config["SpeedDuplex"] \in 0 .. 6
  <2>1. "SpeedDuplex" \in Keywords
    BY DEF Keywords, RtSupportedProperties
  <2>2. RtSupportedProperties["SpeedDuplex"] = [Default |-> 0, Min |-> 0, Max |-> 6]
    BY DEF RtSupportedProperties
  <2> QED BY <2>1, <2>2 DEF ReadKeyword
<1>3. Addresses \subseteq AddressesRead
  BY DEF Addresses, AddressesRead, BytesRead
<1>4. ValidRequest(request) \in BOOLEAN /\ (ValidRequest(request) => request # NoAddress)
  BY ZeroFacts DEF ValidRequest
<1> HIDE DEF config
<1>5. c = [a EXCEPT !.config = config,
                    !.CurrentAddress = IF request = NoAddress THEN @ ELSE request,
                    !.OverrideAddress = @ \/ ValidRequest(request)]
  BY DEF RtAdapterReadConfiguration, config
<1>6. c.config = config /\ c.OverrideAddress = (a.OverrideAddress \/ ValidRequest(request))
      /\ c.CurrentAddress = IF request = NoAddress THEN a.CurrentAddress ELSE request
  BY <1>5 DEF Contexts
<1>7. c \in Contexts
  BY <1>1, <1>3, <1>4, <1>5 DEF Contexts
<1> QED BY <1>2, <1>4, <1>6, <1>7

(* What an address does to ID, with the registers unlocked around it.      *)
LEMMA SetupFacts ==
  ASSUME NEW n \in NicsRead, NEW a \in Contexts
  PROVE  LET s == RtAdapterSetupCurrentAddress(n, a)
         IN  /\ s \in NicsRead /\ s.ID = a.CurrentAddress.Address
             /\ s.magic = n.magic /\ s.phy = n.phy
<1> DEFINE u == RtAdapterEnableCR9346Write(n)
           w == WriteID(u, a.CurrentAddress.Address)
<1>1. u = [n EXCEPT !.CR9346 = {"EEM0", "EEM1"}]
  BY DEF RtAdapterEnableCR9346Write, NicsRead
<1>2. w = [n EXCEPT !.CR9346 = {"EEM0", "EEM1"}, !.ID = a.CurrentAddress.Address]
  BY <1>1 DEF WriteID, Unlocked, NicsRead
<1>3. a.CurrentAddress.Address \in BytesRead
  BY DEF Contexts, AddressesRead
<1>4. RtAdapterSetupCurrentAddress(n, a) = [n EXCEPT !.ID = a.CurrentAddress.Address]
  <2>1. RtAdapterSetupCurrentAddress(n, a) = [w EXCEPT !.CR9346 = @ \ {"EEM0", "EEM1"}]
    BY DEF RtAdapterSetupCurrentAddress, RtAdapterDisableCR9346Write
  <2>2. {"EEM0", "EEM1"} \ {"EEM0", "EEM1"} = {}
    OBVIOUS
  <2> QED BY <2>1, <2>2, <1>2 DEF NicsRead
<1> QED BY <1>3, <1>4 DEF NicsRead

(* Magic packet detection, likewise.                                       *)
LEMMA MagicFacts ==
  ASSUME NEW n \in NicsRead
  PROVE  /\ RtAdapterEnableMagicPacket(n) = [n EXCEPT !.magic = TRUE]
         /\ RtAdapterDisableMagicPacket(n) = [n EXCEPT !.magic = FALSE]
<1> DEFINE u == RtAdapterEnableCR9346Write(n)
<1>1. u = [n EXCEPT !.CR9346 = {"EEM0", "EEM1"}]
  BY DEF RtAdapterEnableCR9346Write, NicsRead
<1>2. {"EEM0", "EEM1"} \ {"EEM0", "EEM1"} = {}
  OBVIOUS
<1>3. ASSUME NEW v \in BOOLEAN
      PROVE  RtAdapterDisableCR9346Write(WriteMagic(u, v)) = [n EXCEPT !.magic = v]
  <2>1. WriteMagic(u, v) = [n EXCEPT !.CR9346 = {"EEM0", "EEM1"}, !.magic = v]
    BY <1>1 DEF WriteMagic, Unlocked, NicsRead
  <2> QED BY <2>1, <1>2 DEF RtAdapterDisableCR9346Write, NicsRead
<1> QED BY <1>3 DEF RtAdapterEnableMagicPacket, RtAdapterDisableMagicPacket

(* A reset of the MAC touches ID alone.                                    *)
LEMMA FullResetFacts ==
  ASSUME board.name \in Boards, NEW n \in NicsRead, NEW reload \in BOOLEAN
  PROVE  LET r == RtAdapterIssueFullReset(n, reload)
         IN  r \in NicsRead /\ r.magic = n.magic /\ r.phy = n.phy
<1>1. Board[board.name].factory \in BytesRead
  BY BoardFacts DEF BytesRead
<1> QED BY <1>1 DEF RtAdapterIssueFullReset, NicsRead

(* The settings are those of a PHY.                                        *)
LEMMA SettingsFacts ==
  ASSUME NEW config
  PROVE  /\ Advertised(config) \cup Pauses(config)
              \in SUBSET (PhyDefaults \cup {"1000H", "Asym", "Mac"})
         /\ config.SpeedDuplex \in 0 .. 6 /\ config.SpeedDuplex # 5 =>
              (Advertised(config) \cup Pauses(config)) \ {"Asym", "Mac"} # {}
<1>1. Advertised(config) \subseteq PhyDefaults \cup {"1000H"}
  BY DEF Advertised, PhyDefaults
<1>2. Pauses(config) \subseteq {"Asym", "Mac"}
  BY DEF Pauses
<1>3. config.SpeedDuplex \in 0 .. 6 /\ config.SpeedDuplex # 5 =>
        \E s \in {"10H", "10F", "100H", "100F", "1000F"} : s \in Advertised(config)
  BY DEF Advertised
<1> QED BY <1>1, <1>2, <1>3

(* The functions of the PHY touch nothing else.                            *)
LEMMA PhyFacts ==
  ASSUME NEW n \in NicsRead, NEW a
  PROVE  /\ LET u == RtAdapterPowerUpPhy(n)
            IN  /\ u \in NicsRead /\ u.magic = n.magic /\ u.ID = n.ID
                /\ u.phy.advertised = n.phy.advertised
         /\ LET p == RtAdapterPushPhySettings(n, a)
            IN  /\ p \in NicsRead /\ p.magic = n.magic /\ p.ID = n.ID /\ p.phy.down = n.phy.down
                /\ p.phy.advertised = Advertised(a.config) \cup Pauses(a.config)
         /\ LET r == RtAdapterResetPhy(n)
            IN  r \in NicsRead /\ r.magic = n.magic /\ r.ID = n.ID /\ r.phy.down = FALSE
         /\ LET i == RtAdapterInitializeAutoNegotiation(n)
            IN  /\ i \in NicsRead /\ i.magic = n.magic /\ i.ID = n.ID
                /\ i.phy = [n.phy EXCEPT !.negotiated = n.phy.advertised]
<1>0. n.phy \in Phys
  BY DEF NicsRead
<1> DEFINE N == IF n.phy.down THEN n.phy.advertised ELSE n.phy.negotiated
           P == [[n.phy EXCEPT !.down = FALSE] EXCEPT !.negotiated = N]
<1>1. RtAdapterPowerUpPhy(n) = [n EXCEPT !.phy = P]
  BY <1>0 DEF RtAdapterPowerUpPhy, Phys, NicsRead
<1>2. P \in Phys /\ P.advertised = n.phy.advertised
  BY <1>0 DEF Phys
<1>3. LET u == RtAdapterPowerUpPhy(n)
      IN  /\ u \in NicsRead /\ u.magic = n.magic /\ u.ID = n.ID
          /\ u.phy.advertised = n.phy.advertised
  <2> HIDE DEF P
  <2> QED BY <1>1, <1>2 DEF NicsRead
<1>4. LET p == RtAdapterPushPhySettings(n, a)
      IN  /\ p \in NicsRead /\ p.magic = n.magic /\ p.ID = n.ID /\ p.phy.down = n.phy.down
          /\ p.phy.advertised = Advertised(a.config) \cup Pauses(a.config)
  <2>1. [n.phy EXCEPT !.advertised = Advertised(a.config) \cup Pauses(a.config)] \in Phys
    BY <1>0, SettingsFacts DEF Phys
  <2>2. RtAdapterPushPhySettings(n, a) =
          [n EXCEPT !.phy = [n.phy EXCEPT !.advertised = Advertised(a.config) \cup Pauses(a.config)]]
    BY <1>0 DEF RtAdapterPushPhySettings, NicsRead, Phys
  <2> QED BY <1>0, <2>1, <2>2 DEF NicsRead, Phys
<1>5. LET r == RtAdapterResetPhy(n)
      IN  r \in NicsRead /\ r.magic = n.magic /\ r.ID = n.ID /\ r.phy.down = FALSE
  BY DEF RtAdapterResetPhy, NicsRead, Phys
<1>6. LET i == RtAdapterInitializeAutoNegotiation(n)
      IN  /\ i \in NicsRead /\ i.magic = n.magic /\ i.ID = n.ID
          /\ i.phy = [n.phy EXCEPT !.negotiated = n.phy.advertised]
  <2>1. [n.phy EXCEPT !.negotiated = n.phy.advertised] \in Phys
    BY <1>0 DEF Phys
  <2>2. RtAdapterInitializeAutoNegotiation(n) =
          [n EXCEPT !.phy = [n.phy EXCEPT !.negotiated = n.phy.advertised]]
    BY <1>0 DEF RtAdapterInitializeAutoNegotiation, NicsRead, Phys
  <2> QED BY <1>0, <2>1, <2>2 DEF NicsRead, Phys
<1> QED BY <1>3, <1>4, <1>5, <1>6

-----------------------------------------------------------------------------
(* The address a start finds.                                              *)

(* The permanent address, from the EEPROM or from ID.                      *)
LEMMA InitializeEepromFacts ==
  ASSUME Shape, NEW a \in Contexts, NEW n \in NicsRead
  PROVE  LET i == RtInitializeEeprom([adapter |-> a, nic |-> n])
             read == EepromReads(board.name)[{}].id
         IN  /\ i = [adapter |-> i.adapter, nic |-> i.nic]
             /\ i.nic = n
             /\ i.adapter \in Contexts /\ i.adapter.config = a.config
             /\ i.adapter.OverrideAddress = a.OverrideAddress
             /\ i.adapter.CurrentAddress = a.CurrentAddress
             /\ i.adapter.EEPROMSupported =
                  (read.found /\ read.id = EEPROM_ID /\ read.pciId = EEPROM_PCI_ID)
<1> DEFINE read == EepromReads(board.name)[{}].id
           supported == read.found /\ read.id = EEPROM_ID /\ read.pciId = EEPROM_PCI_ID
           s == [adapter |-> a, nic |-> n]
           i == RtInitializeEeprom(s)
<1>1. EepromRead(n).id = read
  BY DEF Shape, NicsRead, EepromRead
<1>2. read.cr = {} /\ read.found \in BOOLEAN
  BY CrRestored DEF Shape
<1>3. supported \in BOOLEAN
  BY <1>2
<1>4. i = [adapter |-> [a EXCEPT !.EEPROMSupported = supported],
           nic     |-> [n EXCEPT !.CR9346 = read.cr]]
  <2> DEFINE Initialized(r) ==
        [adapter |-> [s.adapter EXCEPT !.EEPROMSupported =
                        r.found /\ r.id = EEPROM_ID /\ r.pciId = EEPROM_PCI_ID],
         nic     |-> [s.nic EXCEPT !.CR9346 = r.cr]]
  <2>1. i = Only({Initialized(r) : r \in {EepromRead(s.nic).id}})
    BY Zenon DEF RtInitializeEeprom
  <2>2. s.nic = n /\ s.adapter = a
    OBVIOUS
  <2>3. i = Initialized(read)
    <3> HIDE DEF Initialized, i, read
    <3>1. {Initialized(r) : r \in {EepromRead(s.nic).id}} = {Initialized(read)}
      BY <1>1, <2>2
    <3> QED BY <3>1, <2>1, OnlyMember
  <2> QED BY <2>2, <2>3
<1> HIDE DEF read, supported, i, s
<1>5. [n EXCEPT !.CR9346 = read.cr] = n
  BY <1>2 DEF NicsRead
<1>6. [a EXCEPT !.EEPROMSupported = supported] \in Contexts
  BY <1>3 DEF Contexts
<1>7. LET c == [a EXCEPT !.EEPROMSupported = supported]
      IN  /\ c.config = a.config /\ c.OverrideAddress = a.OverrideAddress
          /\ c.CurrentAddress = a.CurrentAddress /\ c.EEPROMSupported = supported
  BY DEF Contexts
<1>8. i.adapter = [a EXCEPT !.EEPROMSupported = supported] /\ i.nic = n
      /\ i = [adapter |-> i.adapter, nic |-> i.nic]
  BY <1>4, <1>5
<1>9. /\ i = [adapter |-> i.adapter, nic |-> i.nic]
      /\ i.nic = n
      /\ i.adapter \in Contexts /\ i.adapter.config = a.config
      /\ i.adapter.OverrideAddress = a.OverrideAddress
      /\ i.adapter.CurrentAddress = a.CurrentAddress
      /\ i.adapter.EEPROMSupported = supported
  BY <1>6, <1>7, <1>8
<1> QED BY <1>9 DEF read, supported, i, s

(* The address of the EEPROM is that of the board.                         *)
LEMMA FactoryFacts ==
  ASSUME EepromRight, NEW b \in Boards,
         Board[b].memory[0] = EEPROM_ID, Board[b].memory[1] = EEPROM_PCI_ID
  PROVE  EepromReads(b)[{}].address.bytes = Board[b].factory
<1> DEFINE bytes == EepromReads(b)[{}].address.bytes
           memory == Board[b].memory
           factory == Board[b].factory
<1>1. bytes \in [EthBytes -> 0 .. 255] /\ factory \in [EthBytes -> 0 .. 255]
  BY BoardFacts DEF EepromRight
<1>2. ASSUME NEW i \in 0 .. 2
      PROVE  bytes[2 * i + 1] = factory[2 * i + 1] /\ bytes[2 * i + 2] = factory[2 * i + 2]
  <2>1. /\ bytes[2 * i + 1] = memory[ETHERNET_WORD + i] % 256
        /\ bytes[2 * i + 2] = memory[ETHERNET_WORD + i] \div 256
    BY DEF EepromRight
  <2>2. memory[ETHERNET_WORD + i] = factory[2 * i + 1] + 256 * factory[2 * i + 2]
    BY FactoryAssumption
  <2>3. factory[2 * i + 1] \in 0 .. 255 /\ factory[2 * i + 2] \in 0 .. 255
    <3>1. 2 * i + 1 \in EthBytes /\ 2 * i + 2 \in EthBytes
      BY DEF EthBytes
    <3> HIDE DEF bytes, memory, factory
    <3> QED BY <1>1, <3>1
  <2>4. \A x, y \in 0 .. 255 : (x + 256 * y) % 256 = x /\ (x + 256 * y) \div 256 = y
    OBVIOUS
  <2> HIDE DEF bytes, memory, factory
  <2> DEFINE x == factory[2 * i + 1]
             y == factory[2 * i + 2]
  <2>5. bytes[2 * i + 1] = (x + 256 * y) % 256 /\ bytes[2 * i + 2] = (x + 256 * y) \div 256
    BY <2>1, <2>2
  <2>6. x \in 0 .. 255 /\ y \in 0 .. 255
    BY <2>3
  <2> HIDE DEF x, y
  <2>7. bytes[2 * i + 1] = x /\ bytes[2 * i + 2] = y
    BY <2>4, <2>5, <2>6
  <2> QED BY <2>7 DEF x, y
<1> HIDE DEF bytes, memory, factory
<1>3. \A j \in EthBytes : bytes[j] = factory[j]
  <2>1. bytes[1] = factory[1] /\ bytes[2] = factory[2]
    BY <1>2, 0 \in 0 .. 2
  <2>2. bytes[3] = factory[3] /\ bytes[4] = factory[4]
    BY <1>2, 1 \in 0 .. 2
  <2>3. bytes[5] = factory[5] /\ bytes[6] = factory[6]
    BY <1>2, 2 \in 0 .. 2
  <2> QED BY <2>1, <2>2, <2>3 DEF EthBytes
<1> QED BY <1>1, <1>3 DEF bytes, factory

(* What a start knows of the context once it has read the address.         *)
Known(c, a, valid) ==
  /\ c \in Contexts /\ c.config = a.config /\ c.OverrideAddress = a.OverrideAddress
  /\ c.CurrentAddress = IF valid /\ ~a.OverrideAddress THEN c.PermanentAddress
                                                      ELSE a.CurrentAddress

LEMMA ReadAddressFacts ==
  ASSUME Shape, NEW a \in Contexts, NEW n \in NicsRead
  PROVE  LET r == RtAdapterReadAddress([adapter |-> a, nic |-> n])
             read == EepromReads(board.name)[{}].address
         IN  /\ r.nic = n /\ r.valid \in BOOLEAN /\ Known(r.adapter, a, r.valid)
             /\ r.adapter.PermanentAddress.Address =
                  IF a.EEPROMSupported THEN read.bytes ELSE n.ID
<1> DEFINE read == EepromReads(board.name)[{}].address
           s == [adapter |-> a, nic |-> n]
           r == RtAdapterReadAddress(s)
           Copied(nic_, bytes) ==
             LET permanent == [Length |-> 6, Address |-> bytes]
                 valid     == ~IsMulticast(bytes) /\ ~IsZero(bytes)
             IN  [adapter |-> [s.adapter EXCEPT
                                 !.PermanentAddress = permanent,
                                 !.CurrentAddress   = IF valid /\ ~s.adapter.OverrideAddress
                                                      THEN permanent ELSE @],
                  nic |-> nic_, valid |-> valid]
<1>1. EepromRead(n).address = read /\ read.cr = {}
  BY CrRestored DEF Shape, NicsRead, EepromRead
<1>2. s.nic = n /\ s.adapter = a
  OBVIOUS
<1>3. [n EXCEPT !.CR9346 = {}] = n
  BY DEF NicsRead
<1>4. ASSUME NEW bytes \in BytesRead
      PROVE  LET c == Copied(n, bytes)
             IN  /\ c.nic = n /\ c.valid \in BOOLEAN /\ Known(c.adapter, a, c.valid)
                 /\ c.adapter.PermanentAddress.Address = bytes
  <2> DEFINE permanent == [Length |-> 6, Address |-> bytes]
             valid     == ~IsMulticast(bytes) /\ ~IsZero(bytes)
             current   == IF valid /\ ~a.OverrideAddress THEN permanent ELSE a.CurrentAddress
             c         == [a EXCEPT !.PermanentAddress = permanent, !.CurrentAddress = current]
  <2>1. Copied(n, bytes) = [adapter |-> c, nic |-> n, valid |-> valid]
    BY <1>2 DEF Contexts
  <2>2. permanent \in AddressesRead /\ permanent.Address = bytes
    BY DEF AddressesRead
  <2>3. valid \in BOOLEAN
    BY DEF IsMulticast, IsZero
  <2> HIDE DEF permanent, valid
  <2>4. current \in AddressesRead
    BY <2>2 DEF Contexts
  <2>5. c \in Contexts /\ c.PermanentAddress = permanent /\ c.CurrentAddress = current
        /\ c.config = a.config /\ c.OverrideAddress = a.OverrideAddress
    <3> HIDE DEF current
    <3> QED BY <2>2, <2>4 DEF Contexts
  <2>6. Known(c, a, valid)
    <3> HIDE DEF c
    <3> QED BY <2>5 DEF Known
  <2> HIDE DEF c, Copied
  <2> QED BY <2>1, <2>2, <2>3, <2>5, <2>6
<1>5. r = Copied(n, IF a.EEPROMSupported THEN read.bytes ELSE n.ID)
  <2>1. r = IF s.adapter.EEPROMSupported
            THEN Only({Copied([s.nic EXCEPT !.CR9346 = e.cr], e.bytes) : e \in {EepromRead(s.nic).address}})
            ELSE Copied(s.nic, s.nic.ID)
    BY Zenon DEF RtAdapterReadAddress
  <2> HIDE DEF Copied, r, read
  <2>2. Only({Copied([s.nic EXCEPT !.CR9346 = e.cr], e.bytes) : e \in {EepromRead(s.nic).address}})
          = Copied([n EXCEPT !.CR9346 = {}], read.bytes)
    <3>1. {Copied([s.nic EXCEPT !.CR9346 = e.cr], e.bytes) : e \in {EepromRead(s.nic).address}}
            = {Copied([n EXCEPT !.CR9346 = {}], read.bytes)}
      BY <1>1, <1>2
    <3> QED BY <3>1, OnlyMember
  <2> QED BY <2>1, <2>2, <1>2, <1>3
<1>6. read.bytes \in BytesRead /\ n.ID \in BytesRead
  BY DEF Shape, NicsRead, BytesRead
<1> HIDE DEF Copied
<1>7. DEFINE bytes == IF a.EEPROMSupported THEN read.bytes ELSE n.ID
<1>8. bytes \in BytesRead
  BY <1>6
<1> HIDE DEF bytes, r, read
<1>9. /\ r.nic = n /\ r.valid \in BOOLEAN /\ Known(r.adapter, a, r.valid)
      /\ r.adapter.PermanentAddress.Address = bytes
  BY <1>4, <1>5, <1>8 DEF bytes
<1> QED BY <1>9 DEF bytes, r, read

(* RtInitializeHardware up to the address.                                 *)
LEMMA AddressedFacts ==
  ASSUME Shape, NEW a \in Contexts, NEW reload \in BOOLEAN
  PROVE  LET r == Addressed([adapter |-> a, nic |-> nic], reload)
         IN  /\ r.nic \in NicsRead /\ r.nic.magic = nic.magic
             /\ r.nic.phy.advertised = Advertised(a.config) \cup Pauses(a.config)
             /\ r.valid \in BOOLEAN /\ Known(r.adapter, a, r.valid)
             /\ OwnAddress(r.adapter)
<1> DEFINE s == [adapter |-> a, nic |-> nic]
           i == RtInitializeEeprom(s)
           c == i.adapter
           pushed == RtAdapterPushPhySettings(nic, c)
           up     == RtAdapterPowerUpPhy(RtAdapterIssueFullReset(pushed, reload))
           reset  == RtAdapterIssueFullReset(up, reload)
           r == Addressed(s, reload)
<1>1. nic \in NicsRead /\ board.name \in Boards
  BY DEF Shape
<1>2. i = [adapter |-> c, nic |-> nic] /\ c \in Contexts /\ c.config = a.config
      /\ c.OverrideAddress = a.OverrideAddress /\ c.CurrentAddress = a.CurrentAddress
  <2>1. i = [adapter |-> i.adapter, nic |-> i.nic] /\ i.nic = nic
    BY <1>1, InitializeEepromFacts
  <2>2. /\ c \in Contexts /\ c.config = a.config
        /\ c.OverrideAddress = a.OverrideAddress /\ c.CurrentAddress = a.CurrentAddress
    BY <1>1, InitializeEepromFacts
  <2> HIDE DEF i
  <2> QED BY <2>1, <2>2
<1>4. /\ reset \in NicsRead /\ reset.magic = nic.magic
      /\ reset.phy.advertised = Advertised(a.config) \cup Pauses(a.config)
  <2>1. pushed \in NicsRead /\ pushed.magic = nic.magic
        /\ pushed.phy.advertised = Advertised(a.config) \cup Pauses(a.config)
    <3> HIDE DEF c
    <3>1. LET p == RtAdapterPushPhySettings(nic, c)
          IN  /\ p \in NicsRead /\ p.magic = nic.magic
              /\ p.phy.advertised = Advertised(c.config) \cup Pauses(c.config)
      BY <1>1, PhyFacts
    <3> QED BY <1>2, <3>1
  <2> HIDE DEF pushed
  <2>2. LET f == RtAdapterIssueFullReset(pushed, reload)
        IN  f \in NicsRead /\ f.magic = pushed.magic /\ f.phy = pushed.phy
    BY <1>1, <2>1, FullResetFacts
  <2>3. up \in NicsRead /\ up.magic = pushed.magic /\ up.phy.advertised = pushed.phy.advertised
    BY <2>2, PhyFacts
  <2> HIDE DEF up
  <2> QED BY <1>1, <2>1, <2>3, FullResetFacts
<1>5. r = RtAdapterReadAddress([adapter |-> c, nic |-> reset])
  <2> DEFINE phy(n, x) == RtAdapterPowerUpPhy(
                            RtAdapterIssueFullReset(RtAdapterPushPhySettings(n, x), reload))
             Reset(d) == [d EXCEPT !.nic = RtAdapterIssueFullReset(phy(@, d.adapter), reload)]
  <2>1. r = Only({RtAdapterReadAddress(x) : x \in {Reset(d) : d \in {i}}})
    BY Zenon DEF Addressed
  <2>2. Reset(i) = [adapter |-> c, nic |-> reset]
    <3>1. \A x, y, z : [[adapter |-> x, nic |-> y] EXCEPT !.nic = z] = [adapter |-> x, nic |-> z]
      OBVIOUS
    <3>2. i.nic = nic
      BY <1>2
    <3>3. Reset(i) = [i EXCEPT !.nic = reset]
      BY <3>2, <1>2
    <3> HIDE DEF reset, c, i, Reset
    <3> QED BY <1>2, <3>1, <3>3
  <2> HIDE DEF Reset, r, i
  <2>3. {RtAdapterReadAddress(x) : x \in {Reset(d) : d \in {i}}} = {RtAdapterReadAddress(Reset(i))}
    OBVIOUS
  <2> QED BY <2>1, <2>2, <2>3, OnlyMember
<1> HIDE DEF reset
<1>6. /\ r.nic = reset /\ r.valid \in BOOLEAN /\ Known(r.adapter, c, r.valid)
      /\ r.adapter.PermanentAddress.Address =
           IF c.EEPROMSupported THEN EepromReads(board.name)[{}].address.bytes ELSE reset.ID
  BY <1>2, <1>4, <1>5, ReadAddressFacts
<1>7. OwnAddress(r.adapter)
  <2> DEFINE memory == Board[board.name].memory
  <2> SUFFICES ASSUME EepromRight, memory[0] = EEPROM_ID, memory[1] = EEPROM_PCI_ID
               PROVE  r.adapter.PermanentAddress.Address = Board[board.name].factory
    BY DEF OwnAddress
  <2>1. LET read == EepromReads(board.name)[{}].id
        IN  read.found = TRUE /\ read.id = EEPROM_ID /\ read.pciId = EEPROM_PCI_ID
    <3>1. memory[0] # 0
      BY DEF EEPROM_ID
    <3> QED BY <1>1, <3>1 DEF EepromRight
  <2>2. c.EEPROMSupported
    <3>1. c.EEPROMSupported = LET read == EepromReads(board.name)[{}].id
                              IN  read.found /\ read.id = EEPROM_ID /\ read.pciId = EEPROM_PCI_ID
      BY <1>1, InitializeEepromFacts
    <3> QED BY <2>1, <3>1
  <2>3. EepromReads(board.name)[{}].address.bytes = Board[board.name].factory
    BY <1>1, FactoryFacts
  <2> QED BY <1>6, <2>2, <2>3
<1>8. Known(r.adapter, a, r.valid)
  BY <1>2, <1>6 DEF Known
<1> QED BY <1>4, <1>6, <1>7, <1>8

(* The address is programmed after the reset.                              *)
LEMMA RefreshFacts ==
  ASSUME Shape, NEW n \in NicsRead, NEW a \in Contexts, NEW reload \in BOOLEAN
  PROVE  LET r == RtAdapterRefreshCurrentAddress(n, a, reload)
         IN  /\ r \in NicsRead /\ r.ID = a.CurrentAddress.Address
             /\ r.magic = n.magic /\ r.phy = n.phy
<1> DEFINE f == RtAdapterIssueFullReset(n, reload)
<1>1. f \in NicsRead /\ f.magic = n.magic /\ f.phy = n.phy
  BY FullResetFacts DEF Shape
<1> HIDE DEF f
<1>2. LET s == RtAdapterSetupCurrentAddress(f, a)
      IN  /\ s \in NicsRead /\ s.ID = a.CurrentAddress.Address
          /\ s.magic = f.magic /\ s.phy = f.phy
  BY <1>1, SetupFacts
<1> QED BY <1>1, <1>2 DEF RtAdapterRefreshCurrentAddress, f

(* The PHY is set up and renegotiates after the last reset.                *)
LEMMA RaiseFacts ==
  ASSUME Shape, NEW n \in NicsRead, NEW a \in Contexts, NEW reload \in BOOLEAN
  PROVE  LET r == RtAdapterRaiseToD0(n, a, reload)
         IN  /\ r \in NicsRead /\ r.ID = a.CurrentAddress.Address /\ r.magic = n.magic
             /\ r.phy.advertised = Advertised(a.config) \cup Pauses(a.config)
             /\ r.phy.negotiated = r.phy.advertised /\ r.phy.down = FALSE
<1> DEFINE first  == RtAdapterIssueFullReset(n, reload)
           up     == RtAdapterPowerUpPhy(first)
           down   == RtAdapterResetPhy(up)
           reset  == RtAdapterIssueFullReset(down, reload)
           known  == RtAdapterSetupCurrentAddress(reset, a)
           pushed == RtAdapterPushPhySettings(known, a)
<1>1. first \in NicsRead /\ first.magic = n.magic
  BY FullResetFacts DEF Shape
<1> HIDE DEF first
<1>2. up \in NicsRead /\ up.magic = n.magic
  BY <1>1, PhyFacts
<1> HIDE DEF up
<1>3. down \in NicsRead /\ down.magic = n.magic /\ down.phy.down = FALSE
  BY <1>2, PhyFacts
<1> HIDE DEF down
<1>4. reset \in NicsRead /\ reset.magic = n.magic /\ reset.phy.down = FALSE
  BY <1>3, FullResetFacts DEF Shape
<1> HIDE DEF reset
<1>5. known \in NicsRead /\ known.magic = n.magic /\ known.phy.down = FALSE
      /\ known.ID = a.CurrentAddress.Address
  BY <1>4, SetupFacts
<1> HIDE DEF known
<1>6. /\ pushed \in NicsRead /\ pushed.magic = n.magic /\ pushed.phy.down = FALSE
      /\ pushed.ID = a.CurrentAddress.Address
      /\ pushed.phy.advertised = Advertised(a.config) \cup Pauses(a.config)
  BY <1>5, PhyFacts
<1> HIDE DEF pushed
<1>7. LET i == RtAdapterInitializeAutoNegotiation(pushed)
      IN  /\ i \in NicsRead /\ i.magic = pushed.magic /\ i.ID = pushed.ID
          /\ i.phy = [pushed.phy EXCEPT !.negotiated = pushed.phy.advertised]
  BY <1>6, PhyFacts
<1>8. pushed.phy \in Phys
  BY <1>6 DEF NicsRead
<1>9. LET i == RtAdapterInitializeAutoNegotiation(pushed)
      IN  /\ i.phy.advertised = pushed.phy.advertised /\ i.phy.down = FALSE
          /\ i.phy.negotiated = pushed.phy.advertised
  BY <1>6, <1>7, <1>8 DEF Phys
<1> QED
  BY <1>6, <1>7, <1>9 DEF RtAdapterRaiseToD0, first, up, down, reset, known, pushed

(* A start that fails leaves the device stopped; one that succeeds leaves  *)
(* it with the address, and the PHY with the settings.                     *)
LEMMA InitializeHardwareFacts ==
  ASSUME Shape, Wake, power = "stopped", NEW a \in Contexts, NEW reload \in BOOLEAN,
         RtInitializeHardware(a, reload)
  PROVE  /\ failed' \in BOOLEAN /\ power' \in {"stopped", "prepared"}
         /\ nic' \in NicsRead /\ nic'.magic = nic.magic
         /\ adapter' \in Contexts /\ adapter'.config = a.config
         /\ adapter'.OverrideAddress = a.OverrideAddress
         /\ power' = "prepared" =>
              /\ nic'.ID = adapter'.CurrentAddress.Address
              /\ nic'.phy.advertised = Advertised(a.config) \cup Pauses(a.config)
              /\ OwnAddress(adapter')
              /\ adapter'.CurrentAddress = IF a.OverrideAddress THEN a.CurrentAddress
                                           ELSE adapter'.PermanentAddress
<1> DEFINE mapped == [a EXCEPT !.mapped = TRUE]
           addressed == Addressed([adapter |-> mapped, nic |-> nic], reload)
           set == RtAdapterRefreshCurrentAddress(addressed.nic, addressed.adapter, reload)
<1>1. /\ mapped \in Contexts /\ mapped.config = a.config
      /\ mapped.OverrideAddress = a.OverrideAddress /\ mapped.CurrentAddress = a.CurrentAddress
  BY DEF Contexts
<1>2. \/ Fail(a, nic)
      \/ Fail(mapped, nic)
      \/ Fail(addressed.adapter, addressed.nic)
      \/ Fail(addressed.adapter, set)
      \/ /\ addressed.valid
         /\ power' = "prepared" /\ adapter' = addressed.adapter /\ nic' = set
         /\ UNCHANGED failed
  BY DEF RtInitializeHardware
<1> HIDE DEF mapped
<1>3. /\ addressed.nic \in NicsRead /\ addressed.nic.magic = nic.magic
      /\ addressed.nic.phy.advertised = Advertised(a.config) \cup Pauses(a.config)
      /\ addressed.valid \in BOOLEAN /\ Known(addressed.adapter, mapped, addressed.valid)
      /\ OwnAddress(addressed.adapter)
  BY <1>1, AddressedFacts
<1> HIDE DEF addressed
<1>4. addressed.adapter \in Contexts /\ addressed.adapter.config = a.config
      /\ addressed.adapter.OverrideAddress = a.OverrideAddress
  BY <1>1, <1>3 DEF Known
<1>5. /\ set \in NicsRead /\ set.ID = addressed.adapter.CurrentAddress.Address
      /\ set.magic = nic.magic
      /\ set.phy.advertised = Advertised(a.config) \cup Pauses(a.config)
  BY <1>3, <1>4, RefreshFacts
<1> HIDE DEF set
<1>6. addressed.valid =>
        addressed.adapter.CurrentAddress = IF a.OverrideAddress THEN a.CurrentAddress
                                           ELSE addressed.adapter.PermanentAddress
  BY <1>1, <1>3 DEF Known
<1>7. nic \in NicsRead /\ failed \in BOOLEAN
  BY DEF Shape
<1>8. CASE Fail(a, nic) \/ Fail(mapped, nic)
  BY <1>1, <1>7, <1>8 DEF Fail
<1>9. CASE Fail(addressed.adapter, addressed.nic) \/ Fail(addressed.adapter, set)
  BY <1>3, <1>4, <1>5, <1>9 DEF Fail
<1>10. CASE /\ addressed.valid
            /\ power' = "prepared" /\ adapter' = addressed.adapter /\ nic' = set
            /\ UNCHANGED failed
  BY <1>3, <1>4, <1>5, <1>6, <1>7, <1>10
<1> QED BY <1>2, <1>8, <1>9, <1>10

-----------------------------------------------------------------------------
(* The invariant.                                                          *)

LEMMA StartInit == Init => IInv
<1> SUFFICES ASSUME Init PROVE IInv
  OBVIOUS
<1>1. PICK b \in Boards : board = [name |-> b, eeprom |-> EepromReads(b)]
  BY DEF Init
<1>2. Shape
  <2>1. board.name \in Boards /\ board.eeprom = EepromReads(board.name)
    BY <1>1
  <2>2. nic \in NicsRead
    BY <2>1, FreshFacts DEF Init
  <2>3. adapter \in Contexts /\ adapter.config.SpeedDuplex \in 0 .. 6 /\ given \in Addresses
    BY ZeroFacts DEF Init
  <2> QED BY <2>1, <2>2, <2>3 DEF Init, Shape
<1>3. Wake
  BY <1>1, FreshFacts DEF Init, Wake
<1>4. Phy
  BY DEF Init, Phy
<1>5. Station
  BY ZeroFacts DEF Init, Station
<1> QED BY <1>2, <1>3, <1>4, <1>5 DEF IInv

(* The two callbacks that prepare the hardware.                            *)
LEMMA PrepareInv ==
  ASSUME IInv, power = "stopped", NEW a \in Contexts, a.config.SpeedDuplex \in 0 .. 6,
         NEW reload \in BOOLEAN, RtInitializeHardware(a, reload),
         given' \in Addresses, overrides' = a.OverrideAddress,
         ValidRequest(given') => a.OverrideAddress /\ a.CurrentAddress = given',
         raised' = FALSE, UNCHANGED <<board, armed>>
  PROVE  IInv'
<1>1. /\ failed' \in BOOLEAN /\ power' \in {"stopped", "prepared"}
      /\ nic' \in NicsRead /\ nic'.magic = nic.magic
      /\ adapter' \in Contexts /\ adapter'.config = a.config
      /\ adapter'.OverrideAddress = a.OverrideAddress
      /\ power' = "prepared" =>
           /\ nic'.ID = adapter'.CurrentAddress.Address
           /\ nic'.phy.advertised = Advertised(a.config) \cup Pauses(a.config)
           /\ OwnAddress(adapter')
           /\ adapter'.CurrentAddress = IF a.OverrideAddress THEN a.CurrentAddress
                                        ELSE adapter'.PermanentAddress
  BY InitializeHardwareFacts DEF IInv
<1>2. Shape'
  <2>1. a.OverrideAddress \in BOOLEAN
    BY DEF Contexts
  <2> QED BY <1>1, <2>1 DEF IInv, Shape
<1>3. Wake'
  BY <1>1 DEF IInv, Wake
<1>4. Phy'
  BY <1>1 DEF Phy
<1>5. Station'
  <2>1. OwnAddress(adapter') => OwnAddress(adapter)'
    BY DEF OwnAddress
  <2> QED BY <1>1, <2>1 DEF Station
<1> QED BY <1>2, <1>3, <1>4, <1>5 DEF IInv

LEMMA LowPowerFacts ==
  ASSUME Shape, NEW n \in LowPower(nic)
  PROVE  /\ n \in NicsRead
         /\ n.magic = IF armed = "magic" THEN nic.magic ELSE n.magic
         /\ armed = "magic" => n.ID = nic.ID
         /\ n.magic \in {nic.magic, FALSE}
<1>1. PICK m \in {nic, Fresh(board.name)}, down \in BOOLEAN :
        /\ n = [m EXCEPT !.phy.down = down]
        /\ armed = "magic" => m = nic
  BY DEF LowPower
<1>2. m \in NicsRead /\ m.magic \in {nic.magic, FALSE}
  BY <1>1, FreshFacts DEF Shape
<1>3. [m.phy EXCEPT !.down = down] \in Phys
  BY <1>2 DEF NicsRead, Phys
<1>4. n = [m EXCEPT !.phy = [m.phy EXCEPT !.down = down]]
  BY <1>1, <1>2 DEF NicsRead
<1> HIDE DEF NicsRead
<1>5. n \in NicsRead /\ n.magic = m.magic /\ n.ID = m.ID
  BY <1>2, <1>3, <1>4 DEF NicsRead
<1> QED BY <1>1, <1>2, <1>5

LEMMA StartNext == IInv /\ [Next]_vars => IInv'
<1> SUFFICES ASSUME IInv, [Next]_vars PROVE IInv'
  OBVIOUS
<1> USE DEF IInv
<1>1. CASE EvtDriverDeviceAdd
  <2>1. Shape'
    BY <1>1 DEF EvtDriverDeviceAdd, Shape
  <2> QED BY <1>1, <2>1 DEF EvtDriverDeviceAdd, Wake, Phy, Station
<1>2. CASE Remove
  <2>1. Shape'
    <3>1. adapter' \in Contexts /\ adapter'.config.SpeedDuplex \in 0 .. 6 /\ given' \in Addresses
      BY <1>2, ZeroFacts DEF Remove
    <3> QED BY <1>2, <3>1 DEF Remove, Shape
  <2> QED BY <1>2, <2>1, ZeroFacts DEF Remove, Wake, Phy, Station
<1>3. CASE PowerCycle
  <2>1. Shape'
    <3>1. adapter' \in Contexts /\ adapter'.config.SpeedDuplex \in 0 .. 6 /\ given' \in Addresses
      BY <1>3, ZeroFacts DEF PowerCycle
    <3>2. nic' \in NicsRead
      BY <1>3, FreshFacts DEF PowerCycle, Shape
    <3> QED BY <1>3, <3>1, <3>2 DEF PowerCycle, Shape
  <2>2. Wake'
    BY <1>3, FreshFacts DEF PowerCycle, Wake, Shape
  <2> QED BY <1>3, <2>1, <2>2, ZeroFacts DEF PowerCycle, Phy, Station
<1>4. CASE \E reload \in BOOLEAN : \E registry \in Registries, request \in Requests \cup {NoAddress} :
             EvtDevicePrepareHardware(registry, request, reload)
  <2>1. PICK reload \in BOOLEAN, registry \in Registries, request \in Requests \cup {NoAddress} :
          EvtDevicePrepareHardware(registry, request, reload)
    BY <1>4
  <2> DEFINE a == RtAdapterReadConfiguration(adapter, registry, request)
  <2>2. request \in Addresses
    BY RequestAssumption, ZeroFacts
  <2>3. /\ a \in Contexts /\ a.config.SpeedDuplex \in 0 .. 6
        /\ a.OverrideAddress = (adapter.OverrideAddress \/ ValidRequest(request))
        /\ ValidRequest(request) => a.CurrentAddress = request
    BY <2>2, ConfigurationFacts DEF Shape
  <2>4. /\ power = "stopped" /\ RtInitializeHardware(a, reload)
        /\ given' = request /\ overrides' = (overrides \/ ValidRequest(request))
        /\ raised' = FALSE /\ UNCHANGED <<board, armed>>
    BY <2>1 DEF EvtDevicePrepareHardware
  <2> HIDE DEF a
  <2>5. overrides' = a.OverrideAddress /\ (ValidRequest(given') => a.OverrideAddress /\ a.CurrentAddress = given')
    BY <2>3, <2>4 DEF Station
  <2> HIDE DEF IInv
  <2> QED BY <2>2, <2>3, <2>4, <2>5, PrepareInv
<1>5. CASE \E reload \in BOOLEAN : PrepareHardwareUnconfigured(reload)
  <2>1. PICK reload \in BOOLEAN : PrepareHardwareUnconfigured(reload)
    BY <1>5
  <2>2. /\ power = "stopped" /\ given' = NoAddress /\ raised' = FALSE
        /\ UNCHANGED <<board, armed, overrides>>
    BY <2>1 DEF PrepareHardwareUnconfigured
  <2>3. CASE power' = "bugcheck" /\ UNCHANGED <<failed, adapter, nic>>
    <3>1. Shape'
      BY <2>2, <2>3, ZeroFacts DEF Shape
    <3> QED BY <2>2, <2>3, <3>1 DEF Wake, Phy, Station
  <2>4. CASE RtInitializeHardware(adapter, reload)
    <3>1. adapter \in Contexts /\ adapter.config.SpeedDuplex \in 0 .. 6
      BY DEF Shape
    <3>2. overrides' = adapter.OverrideAddress
      BY <2>2 DEF Station
    <3>3. given' \in Addresses /\ ~ValidRequest(given')
      BY <2>2, ZeroFacts
    <3> HIDE DEF IInv
    <3> QED BY <2>2, <2>4, <3>1, <3>2, <3>3, PrepareInv
  <2> QED BY <2>1, <2>3, <2>4 DEF PrepareHardwareUnconfigured
<1>6. CASE \E reload \in BOOLEAN : EvtDeviceD0Entry(reload)
  <2>1. PICK reload \in BOOLEAN : EvtDeviceD0Entry(reload)
    BY <1>6
  <2> DEFINE r == RtAdapterRaiseToD0(nic, adapter, reload)
  <2>2. nic \in NicsRead /\ adapter \in Contexts
    BY DEF Shape
  <2>3. /\ r \in NicsRead /\ r.ID = adapter.CurrentAddress.Address /\ r.magic = nic.magic
        /\ r.phy.advertised = Advertised(adapter.config) \cup Pauses(adapter.config)
        /\ r.phy.negotiated = r.phy.advertised /\ r.phy.down = FALSE
    BY <2>2, RaiseFacts
  <2> HIDE DEF r
  <2>4. /\ power \in {"prepared", "low"} /\ power' = "on"
        /\ nic' = IF power = "low" THEN r ELSE nic
        /\ raised' = (raised \/ power = "low")
        /\ UNCHANGED <<failed, adapter, board, armed, given, overrides>>
    BY <2>1 DEF EvtDeviceD0Entry, r
  <2>5. Shape'
    BY <2>3, <2>4 DEF Shape
  <2>6. Wake'
    BY <2>3, <2>4 DEF Wake
  <2>7. Phy'
    BY <2>3, <2>4 DEF Phy
  <2>8. Station'
    BY <2>3, <2>4 DEF Station, OwnAddress
  <2> QED BY <2>5, <2>6, <2>7, <2>8
<1>7. CASE EvtDeviceReleaseHardware
  <2>1. adapter' \in Contexts /\ adapter'.config = adapter.config
        /\ adapter'.OverrideAddress = adapter.OverrideAddress
    BY <1>7 DEF EvtDeviceReleaseHardware, Contexts, Shape
  <2>2. Shape'
    BY <1>7, <2>1 DEF EvtDeviceReleaseHardware, Shape
  <2> QED BY <1>7, <2>1, <2>2 DEF EvtDeviceReleaseHardware, Wake, Phy, Station
<1>8. CASE \E sources \in {"other", "magic"} : EvtDeviceArmWakeFromSx(sources)
  <2>1. PICK sources \in {"other", "magic"} : EvtDeviceArmWakeFromSx(sources)
    BY <1>8
  <2>2. nic' \in NicsRead /\ nic'.phy = nic.phy /\ nic'.ID = nic.ID
        /\ nic'.magic = (nic.magic \/ sources = "magic")
    BY <2>1, MagicFacts DEF EvtDeviceArmWakeFromSx, Shape, NicsRead
  <2>3. Shape'
    BY <2>1, <2>2 DEF EvtDeviceArmWakeFromSx, Shape
  <2>4. Wake'
    BY <2>1, <2>2 DEF EvtDeviceArmWakeFromSx, Wake
  <2>5. Phy'
    BY <2>1, <2>2 DEF EvtDeviceArmWakeFromSx, Phy
  <2>6. Station'
    BY <2>1, <2>2 DEF EvtDeviceArmWakeFromSx, Station, OwnAddress
  <2> QED BY <2>3, <2>4, <2>5, <2>6
<1>9. CASE EvtDeviceDisarmWakeFromSx
  <2>1. nic' \in NicsRead /\ nic'.phy = nic.phy /\ nic'.ID = nic.ID /\ nic'.magic = FALSE
    BY <1>9, MagicFacts DEF EvtDeviceDisarmWakeFromSx, Shape, NicsRead
  <2>2. Shape'
    BY <1>9, <2>1 DEF EvtDeviceDisarmWakeFromSx, Shape
  <2>3. Wake'
    BY <1>9, <2>1 DEF EvtDeviceDisarmWakeFromSx, Wake
  <2>4. Phy'
    BY <1>9, <2>1 DEF EvtDeviceDisarmWakeFromSx, Phy
  <2>5. Station'
    BY <1>9, <2>1 DEF EvtDeviceDisarmWakeFromSx, Station, OwnAddress
  <2> QED BY <2>2, <2>3, <2>4, <2>5
<1>10. CASE \E target \in {"low", "stopped"} : EvtDeviceD0Exit(target)
  <2>1. PICK target \in {"low", "stopped"} : EvtDeviceD0Exit(target)
    BY <1>10
  <2>2. /\ nic' \in NicsRead
        /\ nic'.magic = IF armed = "magic" THEN nic.magic ELSE nic'.magic
        /\ armed = "magic" => nic'.ID = nic.ID
        /\ nic'.magic \in {nic.magic, FALSE}
    BY <2>1, LowPowerFacts DEF EvtDeviceD0Exit
  <2>3. /\ power = "on" /\ (target = "stopped" => armed = "none") /\ power' = target
        /\ UNCHANGED <<failed, adapter, board, armed, history>>
    BY <2>1 DEF EvtDeviceD0Exit
  <2>4. Shape'
    BY <2>2, <2>3 DEF Shape
  <2>5. Wake'
    BY <2>2, <2>3 DEF Wake
  <2>6. Phy'
    BY <2>3 DEF Phy
  <2>7. Station'
    BY <2>2, <2>3 DEF Station, OwnAddress
  <2> QED BY <2>4, <2>5, <2>6, <2>7
<1>11. CASE UNCHANGED vars
  <2>1. Shape' /\ Wake' /\ Phy' /\ Station'
    BY <1>11 DEF vars, Shape, Wake, Phy, Station, OwnAddress
  <2> QED BY <2>1
<1> QED
  BY <1>1, <1>2, <1>3, <1>4, <1>5, <1>6, <1>7, <1>8, <1>9, <1>10, <1>11 DEF Next

-----------------------------------------------------------------------------
(* What follows from it.                                                   *)

(* Every variable has its type, if the EEPROM reads as what it holds.      *)
LEMMA StartTypes == EepromRight /\ IInv => StartTypeOK
<1> SUFFICES ASSUME EepromRight, IInv PROVE StartTypeOK
  OBVIOUS
<1>1. BytesRead = [EthBytes -> 0 .. 255]
  BY DEF EepromRight, BytesRead
<1>2. AddressesRead = Addresses
  BY <1>1 DEF AddressesRead, Addresses
<1>3. nic \in Nics
  BY <1>1 DEF IInv, Shape, NicsRead, Nics, Pins
<1> QED BY <1>2, <1>3 DEF IInv, Shape, StartTypeOK, Contexts

LEMMA StartAddress == EepromRight /\ IInv => StationAddress
<1> SUFFICES ASSUME EepromRight, IInv, power \in {"prepared", "on"} \/ (power = "low" /\ armed = "magic")
             PROVE  StationAddress
  BY DEF StationAddress
<1>1. /\ nic.ID = adapter.CurrentAddress.Address
      /\ ValidRequest(given) => adapter.CurrentAddress.Address = given.Address
      /\ ~overrides => adapter.CurrentAddress.Address = adapter.PermanentAddress.Address
      /\ OwnAddress(adapter)
  BY DEF IInv, Station
<1> QED BY <1>1 DEF StationAddress, OwnAddress

LEMMA StartWake == IInv => WakeArmed
<1>1. ASSUME IInv PROVE nic.CR9346 = {}
  BY <1>1 DEF IInv, Shape, NicsRead
<1> QED BY <1>1 DEF IInv, Wake, WakeArmed

LEMMA StartPhy == IInv => PhyProgrammed
<1> SUFFICES ASSUME IInv, power = "on" PROVE PhyProgrammed
  BY DEF PhyProgrammed
<1>1. adapter.config.SpeedDuplex # 5 =>
        (Advertised(adapter.config) \cup Pauses(adapter.config)) \ {"Asym", "Mac"} # {}
  BY SettingsFacts DEF IInv, Shape
<1> QED BY <1>1 DEF IInv, Phy, PhyProgrammed

(* The life of a device keeps the invariant.                               *)
THEOREM StartInvariance == Spec => []IInv
BY StartInit, StartNext, PTL DEF Spec
=============================================================================
