----------------------------- MODULE RtOffload ------------------------------
(***************************************************************************)
(* The checksum and large send offloads: what a received frame is said to  *)
(* have been verified for, and what a transmit descriptor asks the device  *)
(* to fill in (rxqueue.cpp, txqueue.cpp), while the settings of RtSettings *)
(* change around them.                                                     *)
(*                                                                         *)
(* One frame or one packet is followed at a time: the two directions share *)
(* the settings, which neither changes, and nothing else.  The rings are   *)
(* in RtRxRing and RtTxRing.  A register or descriptor word is the set of  *)
(* its bits that are one.                                                  *)
(***************************************************************************)
EXTENDS RtSettings

CONSTANTS
  ChipTypes,        \* the chips the driver may find itself on
  Frames,           \* received frames
  Packets           \* packets to transmit

AllChips == {"RTL8168D", "RTL8168D_REV_C_REV_D", "RTL8168E"}
Layer3   == {"IPv4", "IPv6", "other"}
Layer4   == {"Tcp", "Udp", "other"}
Word     == 0 .. 15

ASSUME ChipAssumption   == ChipTypes \subseteq AllChips
ASSUME FramesAssumption ==
  Frames \subseteq [layer3 : Layer3, layer4 : Layer4,
                    badCrc : BOOLEAN, bad3 : BOOLEAN, bad4 : BOOLEAN]
(* header is Layer2HeaderLength + Layer3HeaderLength.                      *)
ASSUME PacketsAssumption ==
  Packets \subseteq [layer3 : Layer3, layer4 : Layer4, need3 : BOOLEAN, need4 : BOOLEAN,
                     header : 0 .. 1023, mss : 0 .. 16383]

VARIABLES
  ChipType,     \* the chip found by RtAdapterQueryChipType
  rx,           \* the frame in the descriptor, and what became of it; history:
                \*   due: offloads were on, programmed and not reset as it landed
                \*   clean: its slot said nothing then
                \*   enabled: the offloads as it was indicated
  evaluation,   \* NET_PACKET_CHECKSUM of its slot in the packet ring
  tx            \* the packet in the transmit ring, and its descriptor; history:
                \*   kept: the offloads it was offered with are on as it is posted

offload == <<ChipType, rx, evaluation, tx>>
all     == <<vars, offload>>

NoFrame    == [at |-> "empty"]
NoPacket   == [at |-> "empty"]
NotChecked == [Layer2 |-> "NotChecked", Layer3 |-> "NotChecked", Layer4 |-> "NotChecked"]

OffloadInit ==
  /\ Init /\ ChipType \in ChipTypes
  /\ rx = NoFrame /\ evaluation = NotChecked /\ tx = NoPacket

-----------------------------------------------------------------------------
(* Receive.                                                                *)

(* What the device says of a frame.  The later chips have the fail flags   *)
(* of layer 4 in a field of their own; with the checksum off in CPCR no    *)
(* fail flag is set.                                                       *)
Marks(f, checked) ==
  LET later == ChipType # "RTL8168D"
      fail4 == {f.layer4} \cap {layer \in {"Tcp", "Udp"} : f.bad4 /\ checked}
  IN  [status        |-> ({f.layer4} \cap {"Tcp", "Udp"})
                           \cup {b \in {"CRC"} : f.badCrc}
                           \cup {b \in {"IPF"} : f.bad3 /\ checked},
       IpRssTava     |-> ({f.layer3} \cap {"IPv4", "IPv6"}) \cup {b \in fail4 : ~later},
       TcpUdpFailure |-> {b \in fail4 : later}]

Evaluation(failed) == IF failed THEN "Invalid" ELSE "Valid"

(* RxFillRtl8111DChecksumInfo and RxFillRtl8111EChecksumInfo, which differ *)
(* in where they find failed4.  What is not evaluated is not written.      *)
RxFillChecksumInfo(rxd, failed4) ==
  LET enabled4 == rxd.status \cap {"Tcp", "Udp"} \cap offloads
  IN  [Layer2 |-> Evaluation("CRC" \in rxd.status),
       Layer3 |-> IF "IPv4" \in rxd.IpRssTava /\ "Ip" \in offloads
                  THEN Evaluation("IPF" \in rxd.status) ELSE evaluation.Layer3,
       Layer4 |-> IF rxd.IpRssTava \cap {"IPv4", "IPv6"} # {} /\ enabled4 # {}
                  THEN Evaluation(enabled4 \cap failed4 # {}) ELSE evaluation.Layer4]

(* Mutant: reads every chip's descriptor like the first one's.             *)
RtFillRxChecksumInfoAsD(rxd) == RxFillChecksumInfo(rxd, rxd.IpRssTava)

RtFillRxChecksumInfo(rxd) ==
  RxFillChecksumInfo(rxd, IF ChipType = "RTL8168D" THEN rxd.IpRssTava ELSE rxd.TcpUdpFailure)

(* The device fills a posted descriptor.                                   *)
HwReceive(f) ==
  /\ rx = NoFrame /\ tx = NoPacket /\ RxQueues # {} /\ regs.re /\ regs.rcr # {}
  /\ f.badCrc => "AER" \in regs.rcr
  /\ rx' = [at |-> "landed", frame |-> f, checked |-> regs.rxChecksum,
            due   |-> offloads # {} /\ ~updating /\ "rxChecksum" \notin wiped,
            clean |-> evaluation = NotChecked]
  /\ UNCHANGED <<vars, ChipType, evaluation, tx>>

RxIndicateReceives ==
  /\ rx.at = "landed"
  /\ evaluation' = RtFillRxChecksumInfo(Marks(rx.frame, rx.checked))
  /\ rx' = [at |-> "indicated", frame |-> rx.frame, due |-> rx.due, clean |-> rx.clean,
            enabled |-> offloads \cap {"Ip", "Tcp", "Udp"}]
  /\ UNCHANGED <<vars, ChipType, tx>>

(* The framework has taken the packet and posts the slot again; whether it *)
(* clears the evaluation first is its own affair.                          *)
RxReturn ==
  /\ rx.at = "indicated"
  /\ rx' = NoFrame
  /\ evaluation' \in {NotChecked, evaluation}
  /\ UNCHANGED <<vars, ChipType, tx>>

-----------------------------------------------------------------------------
(* Transmit: the bits of OffloadGsoMssTagc and of the status word.         *)
UDPCS         == 15
TCPCS         == 14
IPV4CS        == 13
IS_IPV6       == 12
GTSEN_IPV4    == 10
GTSEN_IPV6    == 9
TCPHDR_OFFSET == 2
MSS_OFFSET    == 2

BitsOf(n)       == {i \in Word : (n \div 2^i) % 2 = 1}
ShiftLeft(n, k) == {i + k : i \in BitsOf(n)} \cap Word

RtGetPacketLsoStatusSetting(p) ==
  IF p.layer3 = "other" THEN {}
  ELSE {IF p.layer3 = "IPv4" THEN GTSEN_IPV4 ELSE GTSEN_IPV6} \cup ShiftLeft(p.header, TCPHDR_OFFSET)

Layer4Setting(p) == {IF p.layer4 = "Tcp" THEN TCPCS ELSE UDPCS}

(* Mutant: a packet that needs both layers gets the lower one only.        *)
RtGetPacketChecksumSettingLayer3First(p) ==
  LET layer4 == p.need4 /\ p.layer4 # "other"
  IN  IF p.layer3 = "IPv4" /\ p.need3 THEN {IPV4CS}
      ELSE IF p.layer3 = "IPv4" /\ layer4 THEN Layer4Setting(p) \cup {IPV4CS}
      ELSE IF p.layer3 = "IPv6" /\ layer4
      THEN Layer4Setting(p) \cup {IS_IPV6} \cup ShiftLeft(p.header, TCPHDR_OFFSET)
      ELSE {}

(* Layer 4 first; on IPv4 it brings layer 3 with it.                       *)
RtGetPacketChecksumSetting(p) ==
  LET layer4 == p.need4 /\ p.layer4 # "other"
  IN  IF p.layer3 = "IPv4" /\ layer4 THEN Layer4Setting(p) \cup {IPV4CS}
      ELSE IF p.layer3 = "IPv4" /\ p.need3 THEN {IPV4CS}
      ELSE IF p.layer3 = "IPv6" /\ layer4
      THEN Layer4Setting(p) \cup {IS_IPV6} \cup ShiftLeft(p.header, TCPHDR_OFFSET)
      ELSE {}

RtProgramOffloadDescriptor(p) ==
  LET lsoEnabled      == offloads \cap {"LSOv4", "LSOv6"} # {}
      checksumEnabled == offloads \cap {"Ip", "Tcp", "Udp"} # {}
  IN  IF p.layer4 = "Tcp" /\ lsoEnabled /\ p.mss > 0
      THEN [status |-> RtGetPacketLsoStatusSetting(p),
            OffloadGsoMssTagc |-> ShiftLeft(p.mss, MSS_OFFSET)]
      ELSE [status |-> {},
            OffloadGsoMssTagc |-> IF checksumEnabled THEN RtGetPacketChecksumSetting(p) ELSE {}]

(* The framework asks only for offloads that are enabled, and for layer 4  *)
(* only in an IP packet.                                                   *)
MayAsk(p) ==
  /\ p.need3 => "Ip" \in offloads
  /\ p.need4 => p.layer4 \in offloads /\ p.layer3 # "other"
  /\ p.mss > 0 => /\ p.layer4 = "Tcp"
                  /\ \/ p.layer3 = "IPv4" /\ "LSOv4" \in offloads
                     \/ p.layer3 = "IPv6" /\ "LSOv6" \in offloads

Send(p) ==
  /\ power = "on" /\ tx = NoPacket /\ MayAsk(p) /\ rx = NoFrame /\ evaluation = NotChecked
  /\ tx' = [at |-> "waiting", packet |-> p]
  /\ UNCHANGED <<vars, ChipType, rx, evaluation>>

RtPostTxDescriptor ==
  /\ tx.at = "waiting"
  /\ tx' = [at |-> "posted", packet |-> tx.packet, kept |-> MayAsk(tx.packet),
            txd |-> RtProgramOffloadDescriptor(tx.packet)]
  /\ UNCHANGED <<vars, ChipType, rx, evaluation>>

HwTransmit ==
  /\ tx.at = "posted"
  /\ tx' = NoPacket
  /\ UNCHANGED <<vars, ChipType, rx, evaluation>>

-----------------------------------------------------------------------------
(* The offload callbacks run at any time.  A receive queue has its frames  *)
(* back before it stops, the transmit queue is drained before the device   *)
(* is powered down.                                                        *)
Drained ==
  /\ ~(RxQueues \subseteq RxQueues') => rx = NoFrame
  /\ power = "on" /\ power' # "on" => tx = NoPacket

OffloadNext ==
  \/ Next /\ Drained /\ UNCHANGED offload
  \/ \E f \in Frames : HwReceive(f)
  \/ RxIndicateReceives \/ RxReturn
  \/ \E p \in Packets : Send(p)
  \/ RtPostTxDescriptor \/ HwTransmit

OffloadSpec == OffloadInit /\ [][OffloadNext]_all

-----------------------------------------------------------------------------
(* A layer is said to be bad only if it is, and to be valid only if it was *)
(* verified and is good, for every frame that lands with offloads on whose *)
(* programming no reset has taken back, whatever the offload callbacks do  *)
(* from then on and on every chip: the evaluation takes the driver's flags *)
(* (rxqueue.cpp:78-124), the verification CPCR (adapter.cpp:94), the fail  *)
(* flag the place of the chip.  Of a layer that is not evaluated nothing   *)
(* is said, unless the framework left something in the slot.               *)
EvaluationRight ==
  rx.at = "indicated" =>
    LET f          == rx.frame
        evaluated3 == f.layer3 = "IPv4" /\ "Ip" \in rx.enabled
        evaluated4 == f.layer3 # "other" /\ f.layer4 \in rx.enabled
    IN  /\ evaluation.Layer2 = Evaluation(f.badCrc)
        /\ evaluated3 => evaluation.Layer3 \in {"Valid", Evaluation(f.bad3)}
        /\ evaluated3 /\ rx.due => evaluation.Layer3 = Evaluation(f.bad3)
        /\ ~evaluated3 /\ rx.clean => evaluation.Layer3 = "NotChecked"
        /\ evaluated4 => evaluation.Layer4 \in {"Valid", Evaluation(f.bad4)}
        /\ evaluated4 /\ rx.due => evaluation.Layer4 = Evaluation(f.bad4)
        /\ ~evaluated4 /\ rx.clean => evaluation.Layer4 = "NotChecked"

(* The bits lo to hi of a word, as those of a number.                      *)
Field(word, lo, hi) == {i \in Word : i + lo \in word /\ i + lo <= hi}

(* The descriptor asks for nothing the packet does not need.  If the       *)
(* offloads it was offered with are still on, it asks for all of it: the   *)
(* checksums of both layers with the header offset of IPv6, or a large     *)
(* send with its kind and segment size, and with its header offset, which  *)
(* runs into no flag as long as it is below 128 (txqueue.cpp:73-208).      *)
TxOffloadRight ==
  tx.at = "posted" =>
    LET p     == tx.packet
        flags == tx.txd.OffloadGsoMssTagc
        large == tx.txd.status \cap 9 .. 15
        kind  == IF p.layer3 = "IPv4" THEN GTSEN_IPV4 ELSE GTSEN_IPV6
    IN  /\ large # {} =>
             /\ p.mss > 0 /\ kind \in large
             /\ Field(flags, MSS_OFFSET, 15) = BitsOf(p.mss)
             /\ p.header < 128 =>
                  large = {kind} /\ Field(tx.txd.status, TCPHDR_OFFSET, 8) = BitsOf(p.header)
        /\ large = {} =>
             /\ IPV4CS \in flags => p.layer3 = "IPv4" /\ (p.need3 \/ p.need4)
             /\ TCPCS \in flags => p.need4 /\ p.layer4 = "Tcp"
             /\ UDPCS \in flags => p.need4 /\ p.layer4 = "Udp"
             /\ IS_IPV6 \in flags => p.need4 /\ p.layer3 = "IPv6"
             /\ ~p.need3 /\ ~p.need4 => flags = {}
        /\ tx.kept /\ p.mss > 0 => large # {}
        /\ tx.kept /\ p.mss = 0 =>
             /\ p.need3 /\ p.layer3 = "IPv4" => IPV4CS \in flags
             /\ p.need4 => (IF p.layer4 = "Tcp" THEN TCPCS ELSE UDPCS) \in flags
             /\ p.need4 /\ p.layer3 = "IPv6" =>
                  IS_IPV6 \in flags /\ Field(flags, TCPHDR_OFFSET, 11) = BitsOf(p.header)
=============================================================================
