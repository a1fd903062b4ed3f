----------------------------- MODULE MCRtStart -----------------------------
(* An instance of RtStart for TLC.                                         *)
EXTENDS RtStart

Blank == [w \in EepromWords |-> 0]

(* The address 00:e0:4c:4b:01:02.                                          *)
WithAddress == [Blank EXCEPT ![0] = EEPROM_ID, ![1] = EEPROM_PCI_ID,
                             ![7] = 57344, ![8] = 19276, ![9] = 513]

(* A board with an EEPROM, one without, one whose EEPROM holds no address, *)
(* one with the larger EEPROM the driver does not know.                    *)
FourBoards ==
  [eeprom |-> [macVer |-> 671088640, select9356 |-> FALSE, memory |-> WithAddress,
               factory |-> <<0, 224, 76, 75, 1, 2>>],
   fused  |-> [macVer |-> 738197504, select9356 |-> TRUE, memory |-> Blank,
               factory |-> <<0, 224, 76, 75, 1, 3>>],
   blank  |-> [macVer |-> 671088640, select9356 |-> FALSE,
               memory |-> [WithAddress EXCEPT ![7] = 0, ![8] = 0, ![9] = 0],
               factory |-> <<0, 0, 0, 0, 0, 0>>],
   large  |-> [macVer |-> 671088640, select9356 |-> TRUE, memory |-> WithAddress,
               factory |-> <<0, 224, 76, 75, 1, 2>>]]

(* What RtStartProofs and RtRssProofs suppose of reading the EEPROM.       *)
ASSUME EepromRight

Nothing       == [k \in Keywords |-> Absent]
OneRegistry   == {Nothing}
TwoRegistries == {[Nothing EXCEPT !.SpeedDuplex = 7, !.FlowControl = 1],
                  [Nothing EXCEPT !.SpeedDuplex = 5, !.RssEnabled = 1]}

LocalAddress     == [Length |-> 6, Address |-> <<2, 0, 0, 0, 0, 1>>]
MulticastAddress == [Length |-> 6, Address |-> <<3, 0, 0, 0, 0, 1>>]
ShortAddress     == [Length |-> 4, Address |-> <<2, 0, 0, 1, 0, 0>>]
TwoRequests      == {LocalAddress, MulticastAddress}
ThreeRequests    == {LocalAddress, MulticastAddress, ShortAddress}
=============================================================================
