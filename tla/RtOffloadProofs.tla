--------------------------- MODULE RtOffloadProofs ---------------------------
(***************************************************************************)
(* Proofs about RtOffload, for any chips, frames, packets, queues and      *)
(* settings, whatever a reset takes back and wherever the offload          *)
(* callbacks fall: what a transmit descriptor asks for, and what a         *)
(* received frame is said to have been verified for.                       *)
(***************************************************************************)
EXTENDS RtOffload, RtSettingsProofs

USE DEF offload

-----------------------------------------------------------------------------
(* Words.                                                                  *)

LEMMA Powers ==
  /\ 2^7 = 128 /\ 2^8 = 256 /\ 2^9 = 512 /\ 2^10 = 1024 /\ 2^11 = 2048
  /\ 2^12 = 4096 /\ 2^13 = 8192 /\ 2^14 = 16384 /\ 2^15 = 32768
OBVIOUS

Bit(n, i) == (n \div 2^i) % 2 = 1

LEMMA BitsFact == \A n : BitsOf(n) = {i \in Word : Bit(n, i)}
BY DEF BitsOf, Bit

(* A number has no bits above its size.                                    *)
LEMMA HighBits ==
  /\ \A n \in Nat : n < 128 => BitsOf(n) \subseteq 0 .. 6
  /\ \A n \in Nat : n < 1024 => BitsOf(n) \subseteq 0 .. 9
  /\ \A n \in Nat : n < 16384 => BitsOf(n) \subseteq 0 .. 13
<1>0. \A i \in Word : i \in Int /\ 0 <= i /\ i <= 15
  BY DEF Word
<1>1. ASSUME NEW n \in Nat, n < 16384, NEW i \in 14 .. 15 PROVE ~Bit(n, i)
  <2>1. CASE i = 14
    BY <1>1, <2>1, Powers DEF Bit
  <2>2. CASE i = 15
    BY <1>1, <2>2, Powers DEF Bit
  <2> QED BY <2>1, <2>2
<1>2. ASSUME NEW n \in Nat, n < 1024, NEW i \in 10 .. 15 PROVE ~Bit(n, i)
  <2>1. CASE i = 10
    BY <1>2, <2>1, Powers DEF Bit
  <2>2. CASE i = 11
    BY <1>2, <2>2, Powers DEF Bit
  <2>3. CASE i = 12
    BY <1>2, <2>3, Powers DEF Bit
  <2>4. CASE i = 13
    BY <1>2, <2>4, Powers DEF Bit
  <2>5. CASE i \in 14 .. 15
    BY <1>1, <1>2, <2>5
  <2> QED BY <2>1, <2>2, <2>3, <2>4, <2>5
<1>3. ASSUME NEW n \in Nat, n < 128, NEW i \in 7 .. 15 PROVE ~Bit(n, i)
  <2>1. CASE i = 7
    BY <1>3, <2>1, Powers DEF Bit
  <2>2. CASE i = 8
    BY <1>3, <2>2, Powers DEF Bit
  <2>3. CASE i = 9
    BY <1>3, <2>3, Powers DEF Bit
  <2>4. CASE i \in 10 .. 15
    BY <1>2, <1>3, <2>4
  <2> QED BY <2>1, <2>2, <2>3, <2>4
<1>4. ASSUME NEW n, NEW i \in BitsOf(n) PROVE Bit(n, i) /\ i \in Int /\ 0 <= i /\ i <= 15
  BY <1>0, <1>4, BitsFact
<1>5. ASSUME NEW n \in Nat, n < 128, NEW i \in BitsOf(n) PROVE i \in 0 .. 6
  BY <1>3, <1>4, <1>5
<1>6. ASSUME NEW n \in Nat, n < 1024, NEW i \in BitsOf(n) PROVE i \in 0 .. 9
  BY <1>2, <1>4, <1>6
<1>7. ASSUME NEW n \in Nat, n < 16384, NEW i \in BitsOf(n) PROVE i \in 0 .. 13
  <2>1. i \in Int /\ 0 <= i /\ i <= 15 /\ ~(i \in 14 .. 15)
    BY <1>1, <1>4, <1>7
  <2> QED BY <2>1
<1> QED BY <1>5, <1>6, <1>7

(* A number shifted by two keeps its bits, if it has none above 13.        *)
LEMMA Shifted ==
  ASSUME NEW n, NEW top \in Nat, top <= 13, BitsOf(n) \subseteq 0 .. top
  PROVE  /\ \A i \in Word : i + 2 \in ShiftLeft(n, 2) <=> i \in BitsOf(n)
         /\ \A j \in ShiftLeft(n, 2) : j \in Int /\ 2 <= j /\ j <= top + 2
<1>1. \A i \in Word : i \in Int /\ 0 <= i /\ i <= 15
  BY DEF Word
<1>2. \A j \in Int : 0 <= j /\ j <= 15 => j \in Word
  BY DEF Word
<1>3. \A j : j \in ShiftLeft(n, 2) <=> j \in Word /\ \E i \in BitsOf(n) : j = i + 2
  BY DEF ShiftLeft
<1>4. ASSUME NEW i \in Word PROVE i + 2 \in ShiftLeft(n, 2) <=> i \in BitsOf(n)
  <2>1. ASSUME i + 2 \in ShiftLeft(n, 2) PROVE i \in BitsOf(n)
    <3>1. PICK k \in BitsOf(n) : i + 2 = k + 2
      BY <1>3, <2>1
    <3>2. k = i
      BY <1>1, <3>1
    <3> QED BY <3>2
  <2>2. ASSUME i \in BitsOf(n) PROVE i + 2 \in ShiftLeft(n, 2)
    <3>1. i + 2 \in Word
      BY <1>2, <2>2
    <3> QED BY <1>3, <2>2, <3>1
  <2> QED BY <2>1, <2>2
<1>5. ASSUME NEW j \in ShiftLeft(n, 2) PROVE j \in Int /\ 2 <= j /\ j <= top + 2
  BY <1>3
<1> QED BY <1>4, <1>5

-----------------------------------------------------------------------------
(* Transmit.                                                               *)

(* The fields and flags of a descriptor, as TxOffloadRight has them.       *)
DescriptorRight(p, kept, txd) ==
  LET flags == txd.OffloadGsoMssTagc
      large == txd.status \cap 9 .. 15
      kind  == IF p.layer3 = "IPv4" THEN GTSEN_IPV4 ELSE GTSEN_IPV6
  IN  /\ large # {} =>
           /\ p.mss > 0 /\ kind \in large
           /\ Field(flags, MSS_OFFSET, 15) = BitsOf(p.mss)
           /\ p.header < 128 =>
                large = {kind} /\ Field(txd.status, TCPHDR_OFFSET, 8) = BitsOf(p.header)
      /\ large = {} =>
           /\ IPV4CS \in flags => p.layer3 = "IPv4" /\ (p.need3 \/ p.need4)
           /\ TCPCS \in flags => p.need4 /\ p.layer4 = "Tcp"
           /\ UDPCS \in flags => p.need4 /\ p.layer4 = "Udp"
           /\ IS_IPV6 \in flags => p.need4 /\ p.layer3 = "IPv6"
           /\ ~p.need3 /\ ~p.need4 => flags = {}
      /\ kept /\ p.mss > 0 => large # {}
      /\ kept /\ p.mss = 0 =>
           /\ p.need3 /\ p.layer3 = "IPv4" => IPV4CS \in flags
           /\ p.need4 => (IF p.layer4 = "Tcp" THEN TCPCS ELSE UDPCS) \in flags
           /\ p.need4 /\ p.layer3 = "IPv6" =>
                IS_IPV6 \in flags /\ Field(flags, TCPHDR_OFFSET, 11) = BitsOf(p.header)

(* What a packet may ever ask for, whatever the offloads.                  *)
Askable(p) ==
  /\ p.need4 => p.layer4 \in {"Tcp", "Udp"} /\ p.layer3 # "other"
  /\ p.mss > 0 => p.layer4 = "Tcp" /\ p.layer3 \in {"IPv4", "IPv6"}

LEMMA PacketFields ==
  ASSUME NEW p \in Packets
  PROVE  /\ p.layer3 \in {"IPv4", "IPv6", "other"} /\ p.layer4 \in {"Tcp", "Udp", "other"}
         /\ p.need3 \in BOOLEAN /\ p.need4 \in BOOLEAN
         /\ p.header \in Nat /\ p.header < 1024 /\ p.mss \in Nat /\ p.mss < 16384
<1>1. p \in [layer3 : Layer3, layer4 : Layer4, need3 : BOOLEAN, need4 : BOOLEAN,
            header : 0 .. 1023, mss : 0 .. 16383]
  BY PacketsAssumption
<1>2. p.header \in 0 .. 1023 /\ p.mss \in 0 .. 16383
  BY <1>1
<1>3. /\ p.layer3 \in {"IPv4", "IPv6", "other"} /\ p.layer4 \in {"Tcp", "Udp", "other"}
      /\ p.need3 \in BOOLEAN /\ p.need4 \in BOOLEAN
  BY <1>1 DEF Layer3, Layer4
<1>4. \A m : m \in 0 .. 1023 => m \in Nat /\ m < 1024
  OBVIOUS
<1>5. \A m : m \in 0 .. 16383 => m \in Nat /\ m < 16384
  OBVIOUS
<1> QED BY <1>2, <1>3, <1>4, <1>5

(* The fields of a large send.                                             *)
LEMMA LargeSendRight ==
  ASSUME NEW p \in Packets, p.mss > 0, NEW kept
  PROVE  p.layer3 \in {"IPv4", "IPv6"} =>
           DescriptorRight(p, kept, [status |-> RtGetPacketLsoStatusSetting(p),
                                     OffloadGsoMssTagc |-> ShiftLeft(p.mss, MSS_OFFSET)])
<1> SUFFICES ASSUME p.layer3 \in {"IPv4", "IPv6"}
             PROVE  DescriptorRight(p, kept, [status |-> RtGetPacketLsoStatusSetting(p),
                                              OffloadGsoMssTagc |-> ShiftLeft(p.mss, MSS_OFFSET)])
  OBVIOUS
<1> DEFINE txd   == [status |-> RtGetPacketLsoStatusSetting(p),
                     OffloadGsoMssTagc |-> ShiftLeft(p.mss, MSS_OFFSET)]
           kind  == IF p.layer3 = "IPv4" THEN GTSEN_IPV4 ELSE GTSEN_IPV6
           large == txd.status \cap 9 .. 15
<1>1. p.header \in Nat /\ p.header < 1024 /\ p.mss \in Nat /\ p.mss < 16384
  BY PacketFields
<1>2. /\ BitsOf(p.header) \subseteq 0 .. 9 /\ BitsOf(p.mss) \subseteq 0 .. 13
      /\ p.header < 128 => BitsOf(p.header) \subseteq 0 .. 6
  BY <1>1, HighBits
<1>3. txd.status = {kind} \cup ShiftLeft(p.header, 2) /\ txd.OffloadGsoMssTagc = ShiftLeft(p.mss, 2)
  BY DEF RtGetPacketLsoStatusSetting, TCPHDR_OFFSET, MSS_OFFSET
<1>4. kind \in {9, 10} /\ kind \in 9 .. 15
  BY DEF GTSEN_IPV4, GTSEN_IPV6
<1>5. /\ \A i \in Word : i + 2 \in ShiftLeft(p.header, 2) <=> i \in BitsOf(p.header)
      /\ \A j \in ShiftLeft(p.header, 2) : j \in Int
  BY <1>2, Shifted
<1>6. p.header < 128 => \A j \in ShiftLeft(p.header, 2) : j \in Int /\ 2 <= j /\ j <= 8
  <2> SUFFICES ASSUME p.header < 128
               PROVE  \A j \in ShiftLeft(p.header, 2) : j \in Int /\ 2 <= j /\ j <= 8
    OBVIOUS
  <2>1. BitsOf(p.header) \subseteq 0 .. 6
    BY <1>2
  <2> QED BY <2>1, Shifted
<1>7. /\ \A i \in Word : i + 2 \in ShiftLeft(p.mss, 2) <=> i \in BitsOf(p.mss)
      /\ \A j \in ShiftLeft(p.mss, 2) : j \in Int /\ 2 <= j /\ j <= 15
  BY <1>2, Shifted
<1>8. BitsOf(p.header) \subseteq Word /\ BitsOf(p.mss) \subseteq Word
  BY DEF BitsOf
<1> HIDE DEF txd, kind
<1>9. kind \in large
  BY <1>3, <1>4
<1>10. p.header < 128 => large = {kind}
  BY <1>3, <1>4, <1>6
<1>11. p.header < 128 => Field(txd.status, TCPHDR_OFFSET, 8) = BitsOf(p.header)
  <2> SUFFICES ASSUME p.header < 128 PROVE Field(txd.status, TCPHDR_OFFSET, 8) = BitsOf(p.header)
    OBVIOUS
  <2>1. ASSUME NEW i \in Word PROVE (i + 2 \in txd.status /\ i + 2 <= 8) <=> i \in BitsOf(p.header)
    <3>1. i + 2 \in txd.status <=> i + 2 = kind \/ i \in BitsOf(p.header)
      BY <1>3, <1>5
    <3>2. i \in BitsOf(p.header) => i + 2 <= 8
      BY <1>2
    <3> QED BY <1>4, <3>1, <3>2
  <2> QED BY <1>8, <2>1 DEF Field, TCPHDR_OFFSET
<1>12. Field(txd.OffloadGsoMssTagc, MSS_OFFSET, 15) = BitsOf(p.mss)
  <2>1. ASSUME NEW i \in Word
        PROVE  (i + 2 \in txd.OffloadGsoMssTagc /\ i + 2 <= 15) <=> i \in BitsOf(p.mss)
    BY <1>2, <1>3, <1>7
  <2> QED BY <1>8, <2>1 DEF Field, MSS_OFFSET
<1>13. p.mss # 0
  BY <1>1
<1>14. DescriptorRight(p, kept, txd)
  BY <1>9, <1>10, <1>11, <1>12, <1>13 DEF DescriptorRight, kind
<1> QED BY <1>14 DEF txd

(* The flags of the checksums.                                             *)
LEMMA ChecksumRight ==
  ASSUME NEW p \in Packets, Askable(p), NEW kept, ~(kept /\ p.mss > 0)
  PROVE  DescriptorRight(p, kept, [status |-> {}, OffloadGsoMssTagc |-> RtGetPacketChecksumSetting(p)])
<1> DEFINE flags == RtGetPacketChecksumSetting(p)
           layer4 == p.need4 /\ p.layer4 # "other"
           header == ShiftLeft(p.header, 2)
<1>1. /\ p.layer3 \in {"IPv4", "IPv6", "other"} /\ p.layer4 \in {"Tcp", "Udp", "other"}
      /\ p.need3 \in BOOLEAN /\ p.need4 \in BOOLEAN
      /\ p.header \in Nat /\ p.header < 1024
  BY PacketFields
<1>2. BitsOf(p.header) \subseteq 0 .. 9 /\ BitsOf(p.header) \subseteq Word
  BY <1>1, HighBits DEF BitsOf
<1>3. /\ \A i \in Word : i + 2 \in header <=> i \in BitsOf(p.header)
      /\ \A j \in header : j \in Int /\ 2 <= j /\ j <= 11
  BY <1>2, Shifted
<1>4. layer4 <=> p.need4
  BY <1>1 DEF Askable
<1>5. flags = IF p.layer3 = "IPv4" /\ layer4 THEN Layer4Setting(p) \cup {IPV4CS}
              ELSE IF p.layer3 = "IPv4" /\ p.need3 THEN {IPV4CS}
              ELSE IF p.layer3 = "IPv6" /\ layer4
              THEN Layer4Setting(p) \cup {IS_IPV6} \cup header ELSE {}
  BY DEF RtGetPacketChecksumSetting, TCPHDR_OFFSET
<1>6. Layer4Setting(p) = {IF p.layer4 = "Tcp" THEN 14 ELSE 15}
  BY DEF Layer4Setting, TCPCS, UDPCS
<1>6a. p.need4 => p.layer4 \in {"Tcp", "Udp"} /\ p.layer3 # "other"
  BY DEF Askable
<1> HIDE DEF flags, header, layer4
<1>7. /\ p.need3 /\ p.layer3 = "IPv4" => 13 \in flags
      /\ 13 \in flags => p.layer3 = "IPv4" /\ (p.need3 \/ p.need4)
      /\ 14 \in flags <=> p.need4 /\ p.layer4 = "Tcp"
      /\ 15 \in flags <=> p.need4 /\ p.layer4 = "Udp"
      /\ 12 \in flags => p.need4 /\ p.layer3 = "IPv6"
      /\ p.need4 /\ p.layer3 = "IPv6" => 12 \in flags
      /\ ~p.need3 /\ ~p.need4 => flags = {}
  <2>1. 12 \notin header /\ 13 \notin header /\ 14 \notin header /\ 15 \notin header
    BY <1>3
  <2>2. CASE p.layer3 = "IPv4"
    BY <1>1, <1>4, <1>5, <1>6, <1>6a, <2>2 DEF IPV4CS
  <2>3. CASE p.layer3 = "IPv6"
    BY <1>1, <1>4, <1>5, <1>6, <1>6a, <2>1, <2>3 DEF IS_IPV6
  <2>4. CASE p.layer3 = "other"
    BY <1>5, <1>6a, <2>4
  <2> QED BY <1>1, <2>2, <2>3, <2>4
<1>8. p.need4 /\ p.layer3 = "IPv6" => Field(flags, TCPHDR_OFFSET, 11) = BitsOf(p.header)
  <2> SUFFICES ASSUME p.need4, p.layer3 = "IPv6"
               PROVE  Field(flags, TCPHDR_OFFSET, 11) = BitsOf(p.header)
    OBVIOUS
  <2>1. flags = {IF p.layer4 = "Tcp" THEN 14 ELSE 15} \cup {12} \cup header
    BY <1>4, <1>5, <1>6 DEF IS_IPV6
  <2>2. ASSUME NEW i \in Word PROVE (i + 2 \in flags /\ i + 2 <= 11) <=> i \in BitsOf(p.header)
    <3>1. i + 2 <= 11 => (i + 2 \in flags <=> i + 2 \in header)
      BY <2>1
    <3>2. i \in BitsOf(p.header) => i + 2 <= 11
      BY <1>2
    <3> QED BY <1>3, <3>1, <3>2
  <2> QED BY <1>2, <2>2 DEF Field, TCPHDR_OFFSET
<1>9. p.need4 => (IF p.layer4 = "Tcp" THEN 14 ELSE 15) \in flags
  BY <1>6a, <1>7
<1>10. DescriptorRight(p, kept, [status |-> {}, OffloadGsoMssTagc |-> flags])
  BY <1>7, <1>8, <1>9 DEF DescriptorRight, IPV4CS, TCPCS, UDPCS, IS_IPV6
<1> QED BY <1>10 DEF flags

(* Whatever the offloads have become, the descriptor is right for the      *)
(* packet.                                                                 *)
LEMMA ProgramRight ==
  ASSUME NEW p \in Packets, Askable(p), offloads \subseteq OffloadFlags
  PROVE  DescriptorRight(p, MayAsk(p), RtProgramOffloadDescriptor(p))
<1>0. /\ p.layer3 \in {"IPv4", "IPv6", "other"} /\ p.layer4 \in {"Tcp", "Udp", "other"}
      /\ p.need3 \in BOOLEAN /\ p.need4 \in BOOLEAN /\ p.mss \in Nat
  BY PacketFields
<1> DEFINE lso == p.layer4 = "Tcp" /\ offloads \cap {"LSOv4", "LSOv6"} # {} /\ p.mss > 0
<1>1. CASE lso
  <2>1. p.layer3 \in {"IPv4", "IPv6"}
    BY <1>1 DEF Askable
  <2>2. RtProgramOffloadDescriptor(p) = [status |-> RtGetPacketLsoStatusSetting(p),
                                         OffloadGsoMssTagc |-> ShiftLeft(p.mss, MSS_OFFSET)]
    BY <1>1 DEF RtProgramOffloadDescriptor
  <2> QED BY <1>1, <2>1, <2>2, LargeSendRight
<1>2. CASE ~lso
  <2>1. ~(MayAsk(p) /\ p.mss > 0)
    BY <1>2 DEF MayAsk
  <2>2. CASE offloads \cap {"Ip", "Tcp", "Udp"} # {}
    <3>1. RtProgramOffloadDescriptor(p) =
            [status |-> {}, OffloadGsoMssTagc |-> RtGetPacketChecksumSetting(p)]
      BY <1>2, <2>2 DEF RtProgramOffloadDescriptor
    <3> QED BY <2>1, <3>1, ChecksumRight
  <2>3. CASE offloads \cap {"Ip", "Tcp", "Udp"} = {}
    <3>1. RtProgramOffloadDescriptor(p) = [status |-> {}, OffloadGsoMssTagc |-> {}]
      BY <1>2, <2>3 DEF RtProgramOffloadDescriptor
    <3>2. MayAsk(p) => p.need3 = FALSE /\ p.need4 = FALSE
      <4>1. p.need4 => p.layer4 \in {"Tcp", "Udp"}
        BY DEF Askable
      <4> QED BY <1>0, <2>3, <4>1 DEF MayAsk
    <3> QED BY <2>1, <3>1, <3>2 DEF DescriptorRight
  <2> QED BY <2>2, <2>3
<1> QED BY <1>1, <1>2

(* The framework asks for no other.                                        *)
LEMMA AskedFact ==
  ASSUME NEW p \in Packets, MayAsk(p), offloads \subseteq OffloadFlags
  PROVE  Askable(p)
<1>1. p.layer4 \in {"Tcp", "Udp", "other"}
  BY PacketFields
<1> QED BY <1>1 DEF Askable, MayAsk, OffloadFlags

-----------------------------------------------------------------------------
(* Receive.                                                                *)

(* A frame as EvaluationRight has it.                                      *)
FrameRight(f, due, clean, enabled, e) ==
  LET evaluated3 == f.layer3 = "IPv4" /\ "Ip" \in enabled
      evaluated4 == f.layer3 # "other" /\ f.layer4 \in enabled
  IN  /\ e.Layer2 = Evaluation(f.badCrc)
      /\ evaluated3 => e.Layer3 \in {"Valid", Evaluation(f.bad3)}
      /\ evaluated3 /\ due => e.Layer3 = Evaluation(f.bad3)
      /\ ~evaluated3 /\ clean => e.Layer3 = "NotChecked"
      /\ evaluated4 => e.Layer4 \in {"Valid", Evaluation(f.bad4)}
      /\ evaluated4 /\ due => e.Layer4 = Evaluation(f.bad4)
      /\ ~evaluated4 /\ clean => e.Layer4 = "NotChecked"

LEMMA FillRight ==
  ASSUME NEW f \in Frames, NEW checked \in BOOLEAN, NEW due, NEW clean,
         due => checked, clean => evaluation = NotChecked
  PROVE  FrameRight(f, due, clean, offloads \cap {"Ip", "Tcp", "Udp"},
                    RtFillRxChecksumInfo(Marks(f, checked)))
<1> DEFINE rxd      == Marks(f, checked)
           failed4  == IF ChipType = "RTL8168D" THEN rxd.IpRssTava ELSE rxd.TcpUdpFailure
           enabled4 == rxd.status \cap {"Tcp", "Udp"} \cap offloads
           enabled  == offloads \cap {"Ip", "Tcp", "Udp"}
           e        == RtFillRxChecksumInfo(rxd)
           evaluated3 == f.layer3 = "IPv4" /\ "Ip" \in enabled
           evaluated4 == f.layer3 # "other" /\ f.layer4 \in enabled
<1>1. /\ f.layer3 \in {"IPv4", "IPv6", "other"} /\ f.layer4 \in {"Tcp", "Udp", "other"}
      /\ f.badCrc \in BOOLEAN /\ f.bad3 \in BOOLEAN /\ f.bad4 \in BOOLEAN
  BY FramesAssumption DEF Layer3, Layer4
<1>2. /\ "CRC" \in rxd.status <=> f.badCrc
      /\ "IPF" \in rxd.status <=> f.bad3 /\ checked
      /\ \A l \in {"Tcp", "Udp"} : l \in rxd.status <=> f.layer4 = l
      /\ \A l \in {"IPv4", "IPv6"} : l \in rxd.IpRssTava <=> f.layer3 = l
      /\ \A l \in {"Tcp", "Udp"} : l \in failed4 <=> f.layer4 = l /\ f.bad4 /\ checked
  <2>1. /\ "CRC" \in rxd.status <=> f.badCrc
        /\ "IPF" \in rxd.status <=> f.bad3 /\ checked
        /\ \A l \in {"Tcp", "Udp"} : l \in rxd.status <=> f.layer4 = l
        /\ \A l \in {"IPv4", "IPv6"} : l \in rxd.IpRssTava <=> f.layer3 = l
    BY <1>1 DEF Marks
  <2>2. ASSUME NEW l \in {"Tcp", "Udp"} PROVE l \in failed4 <=> f.layer4 = l /\ f.bad4 /\ checked
    <3>1. CASE ChipType = "RTL8168D"
      BY <1>1, <3>1 DEF Marks
    <3>2. CASE ChipType # "RTL8168D"
      BY <1>1, <3>2 DEF Marks
    <3> QED BY <3>1, <3>2
  <2> QED BY <2>1, <2>2
<1>3. e = [Layer2 |-> Evaluation("CRC" \in rxd.status),
           Layer3 |-> IF "IPv4" \in rxd.IpRssTava /\ "Ip" \in offloads
                      THEN Evaluation("IPF" \in rxd.status) ELSE evaluation.Layer3,
           Layer4 |-> IF rxd.IpRssTava \cap {"IPv4", "IPv6"} # {} /\ enabled4 # {}
                      THEN Evaluation(enabled4 \cap failed4 # {}) ELSE evaluation.Layer4]
  BY DEF RtFillRxChecksumInfo, RxFillChecksumInfo
<1>4. clean => evaluation.Layer3 = "NotChecked" /\ evaluation.Layer4 = "NotChecked"
  BY DEF NotChecked
<1> HIDE DEF rxd, failed4, e
<1>5. e.Layer2 = Evaluation(f.badCrc)
  BY <1>1, <1>2, <1>3 DEF Evaluation
<1>6. e.Layer3 = IF evaluated3 THEN Evaluation(f.bad3 /\ checked) ELSE evaluation.Layer3
  BY <1>1, <1>2, <1>3 DEF Evaluation
<1>7. e.Layer4 = IF evaluated4 THEN Evaluation(f.bad4 /\ checked) ELSE evaluation.Layer4
  <2>1. rxd.IpRssTava \cap {"IPv4", "IPv6"} # {} <=> f.layer3 # "other"
    BY <1>1, <1>2
  <2>2. enabled4 # {} <=> f.layer4 \in enabled
    BY <1>1, <1>2
  <2>3. f.layer4 \in enabled => (enabled4 \cap failed4 # {} <=> f.bad4 /\ checked)
    BY <1>1, <1>2
  <2> QED BY <1>1, <1>3, <2>1, <2>2, <2>3 DEF Evaluation
<1> HIDE DEF enabled
<1>8. FrameRight(f, due, clean, enabled, e)
  BY <1>1, <1>4, <1>5, <1>6, <1>7 DEF FrameRight, Evaluation
<1> QED BY <1>8 DEF e, rxd, enabled

-----------------------------------------------------------------------------
(* The settings move by the steps of RtSettings.                           *)
LEMMA SettingsStep == [OffloadNext]_all => [Next]_vars
BY DEF OffloadNext, all, HwReceive, RxIndicateReceives, RxReturn, Send, RtPostTxDescriptor, HwTransmit

LEMMA SettingsSpec == OffloadSpec => Spec
<1>1. OffloadInit => Init
  BY DEF OffloadInit
<1> QED BY <1>1, SettingsStep, PTL DEF OffloadSpec, Spec

(* Inductive: a packet that waits asks for what the framework may ask.     *)
TxInv ==
  /\ tx.at = "waiting" => tx.packet \in Packets /\ Askable(tx.packet)
  /\ TxOffloadRight

LEMMA TxStep == TypeOK /\ TxInv /\ [OffloadNext]_all => TxInv'
<1> SUFFICES ASSUME TypeOK, TxInv, [OffloadNext]_all PROVE TxInv'
  OBVIOUS
<1>1. CASE tx' = tx
  BY <1>1 DEF TxInv, TxOffloadRight, Askable
<1>2. ASSUME NEW p \in Packets, Send(p) PROVE TxInv'
  <2>1. tx' = [at |-> "waiting", packet |-> p] /\ MayAsk(p)
    BY <1>2 DEF Send
  <2>2. tx'.at = "waiting" /\ tx'.packet = p
    BY <2>1
  <2>3. Askable(p)
    BY <2>1, AskedFact DEF TypeOK
  <2> QED BY <2>2, <2>3 DEF TxInv, TxOffloadRight, Askable
<1>3. CASE RtPostTxDescriptor
  <2>1. /\ tx.at = "waiting"
        /\ tx' = [at |-> "posted", packet |-> tx.packet, kept |-> MayAsk(tx.packet),
                  txd |-> RtProgramOffloadDescriptor(tx.packet)]
    BY <1>3 DEF RtPostTxDescriptor
  <2>2. DescriptorRight(tx.packet, MayAsk(tx.packet), RtProgramOffloadDescriptor(tx.packet))
    BY <2>1, ProgramRight DEF TxInv, TypeOK
  <2>3. /\ tx'.at = "posted" /\ tx'.packet = tx.packet /\ tx'.kept = MayAsk(tx.packet)
        /\ tx'.txd = RtProgramOffloadDescriptor(tx.packet)
    BY <2>1
  <2>4. DescriptorRight(tx'.packet, tx'.kept, tx'.txd)
    BY <2>2, <2>3
  <2>5. TxOffloadRight'
    BY <2>4 DEF TxOffloadRight, DescriptorRight
  <2> QED BY <2>3, <2>5 DEF TxInv
<1>4. CASE HwTransmit
  <2>1. tx'.at = "empty"
    BY <1>4 DEF HwTransmit, NoPacket
  <2> QED BY <2>1 DEF TxInv, TxOffloadRight
<1> QED
  BY <1>1, <1>2, <1>3, <1>4 DEF OffloadNext, HwReceive, RxIndicateReceives, RxReturn, all

(* A transmit descriptor asks for nothing its packet does not need, and    *)
(* for all of it unless the offloads it was offered with have been turned  *)
(* off before it was posted; no field runs into another but the header     *)
(* offset of a large send, from 128 on (txqueue.cpp:71-208).               *)
THEOREM TxOffloadSafe == OffloadSpec => []TxOffloadRight
<1>1. OffloadInit => TxInv
  BY DEF OffloadInit, TxInv, TxOffloadRight, NoPacket
<1>2. TxInv => TxOffloadRight
  BY DEF TxInv
<1> QED BY <1>1, <1>2, TxStep, SettingsSpec, TypeCorrect, PTL DEF OffloadSpec

-----------------------------------------------------------------------------
(* Inductive: a frame that waits was verified if it was due, and a slot    *)
(* that was clean as it landed is clean until it is indicated.             *)
RxInv ==
  /\ rx.at = "landed" => /\ rx.frame \in Frames /\ rx.checked \in BOOLEAN
                         /\ rx.due => rx.checked
                         /\ rx.clean => evaluation = NotChecked
  /\ EvaluationRight

LEMMA RxStep ==
  ASSUME TypeOK, IInv, CpcrProgrammed, RxInv, [OffloadNext]_all
  PROVE  RxInv'
<1>1. CASE UNCHANGED <<rx, evaluation>>
  BY <1>1 DEF RxInv, EvaluationRight
<1>2. ASSUME NEW f \in Frames, HwReceive(f) PROVE RxInv'
  <2>1. /\ RxQueues # {} /\ evaluation' = evaluation
        /\ rx' = [at |-> "landed", frame |-> f, checked |-> regs.rxChecksum,
                  due   |-> offloads # {} /\ ~updating /\ "rxChecksum" \notin wiped,
                  clean |-> evaluation = NotChecked]
    BY <1>2 DEF HwReceive
  <2>2. ~updating => regs.rxChecksum = (offloads # {} /\ "rxChecksum" \notin wiped)
    BY <2>1 DEF IInv, CpcrProgrammed
  <2>3. /\ rx'.at = "landed" /\ rx'.frame = f /\ rx'.checked = regs.rxChecksum
        /\ rx'.due = (offloads # {} /\ ~updating /\ "rxChecksum" \notin wiped)
        /\ rx'.clean = (evaluation = NotChecked)
    BY <2>1
  <2>4. regs.rxChecksum \in BOOLEAN
    BY DEF TypeOK, Registers
  <2>5. rx'.due => rx'.checked
    BY <2>2, <2>3
  <2> QED BY <2>1, <2>3, <2>4, <2>5 DEF RxInv, EvaluationRight
<1>3. CASE RxIndicateReceives
  <2>1. /\ rx.at = "landed"
        /\ evaluation' = RtFillRxChecksumInfo(Marks(rx.frame, rx.checked))
        /\ rx' = [at |-> "indicated", frame |-> rx.frame, due |-> rx.due, clean |-> rx.clean,
                  enabled |-> offloads \cap {"Ip", "Tcp", "Udp"}]
    BY <1>3 DEF RxIndicateReceives
  <2>2. /\ rx.frame \in Frames /\ rx.checked \in BOOLEAN
        /\ rx.due => rx.checked
        /\ rx.clean => evaluation = NotChecked
    BY <2>1 DEF RxInv
  <2>3. FrameRight(rx.frame, rx.due, rx.clean, offloads \cap {"Ip", "Tcp", "Udp"}, evaluation')
    BY <2>1, <2>2, FillRight
  <2>4. /\ rx'.at = "indicated" /\ rx'.frame = rx.frame /\ rx'.due = rx.due
        /\ rx'.clean = rx.clean /\ rx'.enabled = offloads \cap {"Ip", "Tcp", "Udp"}
    BY <2>1
  <2>5. EvaluationRight'
    BY <2>3, <2>4 DEF EvaluationRight, FrameRight, Evaluation
  <2> QED BY <2>4, <2>5 DEF RxInv
<1>4. CASE RxReturn
  <2>1. rx'.at = "empty"
    BY <1>4 DEF RxReturn, NoFrame
  <2> QED BY <2>1 DEF RxInv, EvaluationRight
<1> QED
  BY <1>1, <1>2, <1>3, <1>4 DEF OffloadNext, offload, all, Send, RtPostTxDescriptor, HwTransmit

(* A layer is said to be bad only if it is, and one that is evaluated to   *)
(* be valid only if it was verified and is good, if the offloads were on   *)
(* and programmed when the frame landed and no reset had taken that back,  *)
(* on every chip and wherever the offload callbacks, resets and low-power  *)
(* states fall (rxqueue.cpp:48-124, adapter.cpp:87-110, power.cpp:83-90).  *)
THEOREM EvaluationSafe == OffloadSpec => []EvaluationRight
<1>1. OffloadInit => RxInv
  BY DEF OffloadInit, RxInv, EvaluationRight, NoFrame
<1>2. TypeOK /\ IInv /\ CpcrProgrammed /\ RxInv /\ [OffloadNext]_all => RxInv'
  BY RxStep
<1>3. RxInv => EvaluationRight
  BY DEF RxInv
<1> QED
  BY <1>1, <1>2, <1>3, SettingsSpec, TypeCorrect, Invariance, CpcrSafe, PTL DEF OffloadSpec
=============================================================================
