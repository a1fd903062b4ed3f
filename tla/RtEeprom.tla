------------------------------ MODULE RtEeprom ------------------------------
(***************************************************************************)
(* The serial EEPROM of the adapter, a 93C46, and the driver's way of      *)
(* reading it: the register CR9346 drives the chip's pins, and eeprom.cpp  *)
(* clocks a read command out and a word in, bit by bit.                    *)
(*                                                                         *)
(* A bus is a record: cr, the bits set in CR9346; memory, the words of the *)
(* chip; heard, the bits clocked in since its start bit, with which it     *)
(* counts the bits of its answer too.  The driver's functions are          *)
(* operators from a bus to a bus.  The chip is external: it is modelled as *)
(* far as a read command goes.                                             *)
(***************************************************************************)
EXTENDS Integers, Sequences

Pins == {"EEDO", "EEDI", "EESK", "EECS", "EEM0", "EEM1"}

OPCODE_BITS   == 3
ADDRESS_BITS  == 6
READ          == 6
ETHERNET_WORD == 7
WordBits      == 16
EepromWords   == 0 .. 2 ^ ADDRESS_BITS - 1
WordValues    == 0 .. 2 ^ WordBits - 1

(* Bit i of a number, the lowest being bit 0.                              *)
BitOf(n, i) == (n \div 2 ^ i) % 2

-----------------------------------------------------------------------------
(* The chip: selected in programming mode, it takes a bit at each rising   *)
(* edge of the clock, beginning with a start bit, and answers a read       *)
(* command from the next edge on, the highest bit first.                   *)

CommandBits == OPCODE_BITS + ADDRESS_BITS

AddressHeard(heard) ==
  LET sum[i \in 0 .. ADDRESS_BITS] ==
        IF i = 0 THEN 0 ELSE 2 * sum[i - 1] + heard[OPCODE_BITS + i]
  IN  sum[ADDRESS_BITS]

Clocked(heard, in) ==
  IF (heard = <<>> /\ in = 0) \/ Len(heard) = CommandBits + WordBits THEN heard
  ELSE Append(heard, in)

DataOut(memory, heard) ==
  IF Len(heard) > CommandBits /\ heard[2] = 1 /\ heard[3] = 0
  THEN BitOf(memory[AddressHeard(heard)], CommandBits + WordBits - Len(heard))
  ELSE 0

(* The element of a set of one.  Only({Op(v) : v \in {value}}) is Op(value) *)
(* with the value computed first, not the whole chain from its end.        *)
Only(S) == CHOOSE r \in S : TRUE

(* What a write of CR9346 does.  EEDO is the chip's, not the driver's.     *)
WriteCr(bus, bits) ==
  LET selected == "EEM1" \in bits /\ "EEM0" \notin bits /\ "EECS" \in bits
      rising   == "EESK" \in bits \ bus.cr
      heard    == IF ~selected THEN <<>>
                  ELSE IF rising THEN Clocked(bus.heard, IF "EEDI" \in bits THEN 1 ELSE 0)
                  ELSE bus.heard
  IN  [cr     |-> (bits \ {"EEDO"})
                    \cup {b \in {"EEDO"} : selected /\ DataOut(bus.memory, heard) = 1},
       memory |-> bus.memory,
       heard  |-> heard]

-----------------------------------------------------------------------------
(* The driver.                                                             *)

ClockRaise(bus) == WriteCr(bus, bus.cr \cup {"EESK"})
ClockLower(bus) == WriteCr(bus, bus.cr \ {"EESK"})

ShiftBitsOut(bus, data, count) ==
  LET ShiftBit(b, bit) ==
        ClockLower(ClockRaise(WriteCr(b, (b.cr \ {"EEDI"}) \cup {p \in {"EEDI"} : bit = 1})))
      shifted[i \in 0 .. count] ==
        IF i = 0 THEN bus
        ELSE Only({ShiftBit(b, BitOf(data, count - i)) : b \in {shifted[i - 1]}})
  IN  shifted[count]

(* Returns the bus and the word.                                           *)
ShiftBitsIn(bus) ==
  LET ShiftBit(before) ==
        LET raised == ClockRaise(before.bus)
        IN  [bus  |-> ClockLower(raised),
             data |-> 2 * before.data + (IF "EEDO" \in raised.cr THEN 1 ELSE 0)]
      shifted[i \in 0 .. WordBits] ==
        IF i = 0 THEN [bus |-> bus, data |-> 0] ELSE Only({ShiftBit(b) : b \in {shifted[i - 1]}})
  IN  shifted[WordBits]

(* The chip select is lowered in a local variable only (eeprom.cpp:119):   *)
(* it is the next read, or the restored CR9346, that lowers it.            *)
ReadEEPROM(bus, address) ==
  LET Select(b)  == WriteCr(ClockLower(ClockRaise(WriteCr(b, {"EEM1"}))), {"EEM1", "EECS"})
      Command(b) == ShiftBitsOut(ShiftBitsOut(b, READ, OPCODE_BITS), address, ADDRESS_BITS)
      Finish(a)  == [bus |-> ClockLower(ClockRaise(a.bus)), data |-> a.data]
  IN  Only({Finish(a) : a \in {ShiftBitsIn(c) : c \in {Command(b) : b \in {Select(bus)}}}})

(* Returns the bus, the bytes of the address in order.                     *)
RtAdapterReadEEPROMPermanentAddress(bus) ==
  LET ReadNext(before, address) ==
        Only({[bus   |-> word.bus,
               bytes |-> before.bytes \o <<word.data % 256, word.data \div 256>>] :
                word \in {ReadEEPROM(before.bus, address)}})
      read[i \in 0 .. 3] ==
        IF i = 0 THEN [bus |-> bus, bytes |-> <<>>]
        ELSE Only({ReadNext(b, ETHERNET_WORD + i - 1) : b \in {read[i - 1]}})
  IN  Only({[bus |-> WriteCr(r.bus, bus.cr), bytes |-> r.bytes] : r \in {read[3]}})

(* Returns the bus and the two words; an empty socket reads as zeros.      *)
RtAdapterReadEepromId(bus) ==
  LET Found(id, pciId) ==
        [bus   |-> WriteCr(pciId.bus, bus.cr),
         found |-> id.data # 0 \/ pciId.data # 0,
         id    |-> id.data, pciId |-> pciId.data]
  IN  Only(UNION {{Found(id, pciId) : pciId \in {ReadEEPROM(id.bus, 1)}} :
                    id \in {ReadEEPROM(bus, 0)}})
=============================================================================
