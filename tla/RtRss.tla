------------------------------- MODULE RtRss -------------------------------
(***************************************************************************)
(* Receive side scaling on a device that starts, sleeps, fails and is      *)
(* removed as in RtStart: the indirection table, kept in the adapter as    *)
(* two planes of bits and copied to the device word by word, and the       *)
(* GigaMac registers (hash key, RSS control, start addresses of the queues *)
(* 1 to 3) behind the window ERIData and ERIAccess (adapter.cpp:332-472,   *)
(* gigamac.cpp, rxqueue.cpp:399-403).                                      *)
(*                                                                         *)
(* The framework makes one receive scaling call at a time; a queue may be  *)
(* started meanwhile on another thread, and the device hashes frames and   *)
(* works on the window all the time, so a call is cut at every access to   *)
(* the device.                                                             *)
(***************************************************************************)
EXTENDS RtStart

CONSTANTS
  PlaneWords,  \* half the words of the table, 4 in the source
  WordWidth,   \* the bits of a word, 32 in the source
  Updates,     \* calls of SetIndirectionEntries: index to queue
  Keys,        \* hash secret keys, as sequences of words
  Protocols,   \* sets of protocols to hash
  RxBuffers,   \* addresses of receive descriptors, low and high part
  RssQueues,   \* the queues among 1 to 3
  MaxCalls     \* a bound on the calls to one device object

QueueIds   == 0 .. 3
TableWords == 0 .. 2 * PlaneWords - 1
Indices    == 0 .. PlaneWords * WordWidth - 1
KeyWords   == 10   \* 40 bytes

ASSUME TableAssumption   == PlaneWords \in Nat \ {0} /\ WordWidth \in Nat \ {0}
ASSUME UpdatesAssumption ==
  \A u \in Updates : DOMAIN u \subseteq Indices /\ \A i \in DOMAIN u : u[i] \in QueueIds
ASSUME KeysAssumption    == \A k \in Keys : Len(k) \in 1 .. KeyWords /\ DOMAIN k = 1 .. Len(k)
ASSUME ProtocolAssumption == Protocols \subseteq SUBSET {"IPv4", "IPv6", "Tcp"}
ASSUME QueuesAssumption   == RssQueues \subseteq 1 .. 3 /\ MaxCalls \in Nat

VARIABLES
  shadow,    \* adapter->RssIndirectionTable
  table,     \* the table of the device
  giga,      \* the GigaMac registers
  eri,       \* ERIData, the register of ERIAccess and its busy bit
  Lock,      \* the thread that holds adapter->Lock in GigaMacWrite, or "none"
  call,      \* what each thread is doing
  calls,     \* the calls made to this device object
  steer,     \* the queue the framework told each index to steer to
  synced,    \* the whole table was written since the device last lost it
  promised   \* what a successful call wrote, until the device may lose it

Threads == {"scaling", "queue"}
rss     == <<shadow, table, giga, eri, Lock, call, calls, steer, synced, promised>>
all     == <<power, failed, adapter, nic, board, armed, given, overrides, raised,
             shadow, table, giga, eri, Lock, call, calls, steer, synced, promised>>

-----------------------------------------------------------------------------
(* The registers behind the window.                                        *)

RSS_KEY     == 144   \* 0x90
RSS_CONTROL == 184   \* 0xb8
RDSAR       == [q \in 1 .. 3 |-> 200 + 8 * q]   \* 0xd0, 0xd8, 0xe0
Registers   == {RSS_CONTROL} \cup {RSS_KEY + 4 * i : i \in 0 .. KeyWords - 1}
                 \cup {RDSAR[q] + 4 * i : q \in 1 .. 3, i \in {0, 1}}

(* Words are sets of what they are made of: bits or, for a key and an      *)
(* address, one value.                                                     *)
ControlBits == {"MULTI_CPU", "HASH_BITS", "IPV4", "IPV4_TCP", "IPV6", "IPV6_TCP"}
Unknown     == {"unknown"}
Lost        == {"default"}   \* what a register holds that was not written

(* RtReceiveScalingEnable.                                                 *)
EnableBits(protocols) ==
  {"MULTI_CPU", "HASH_BITS"}
    \cup {b \in {"IPV4"}     : "IPv4" \in protocols}
    \cup {b \in {"IPV4_TCP"} : {"IPv4", "Tcp"} \subseteq protocols}
    \cup {b \in {"IPV6"}     : "IPv6" \in protocols}
    \cup {b \in {"IPV6_TCP"} : {"IPv6", "Tcp"} \subseteq protocols}

NoAccess == [data |-> Lost, register |-> RSS_CONTROL, busy |-> FALSE]

Write(register, data) == [register |-> register, data |-> data]

(* Mutant: counts the address of the key in words.                         *)
KeyWritesByWord(key) == [i \in DOMAIN key |-> Write(RSS_KEY + 4 * ((i - 1) \div 2), key[i])]

KeyWrites(key) == [i \in DOMAIN key |-> Write(RSS_KEY + 4 * (i - 1), key[i])]

(* GigaMacSetReceiveDescriptorStartAddress.                                *)
StartAddressWrites(q, pa) == <<Write(RDSAR[q], pa.low), Write(RDSAR[q] + 4, pa.high)>>

-----------------------------------------------------------------------------
(* The indirection table: bit i of the queue of an index is in plane i.    *)

ZeroTable == [w \in TableWords |-> {}]

WordOf(index) == index \div WordWidth
BitIn(index)  == index % WordWidth

(* Mutant: puts the second plane after the first word.                     *)
UpdatedInterleaved(old, update) ==
  [w \in TableWords |->
     LET plane == w % 2
         named == {i \in DOMAIN update : WordOf(i) = w \div 2}
     IN  {b \in 0 .. WordWidth - 1 :
            IF \E i \in named : BitIn(i) = b
            THEN \E i \in named : BitIn(i) = b /\ BitOf(update[i], plane) = 1
            ELSE b \in old[w]}]

Updated(old, update) ==
  [w \in TableWords |->
     LET plane == w \div PlaneWords
         named == {i \in DOMAIN update : WordOf(i) = w % PlaneWords}
     IN  {b \in 0 .. WordWidth - 1 :
            IF \E i \in named : BitIn(i) = b
            THEN \E i \in named : BitIn(i) = b /\ BitOf(update[i], plane) = 1
            ELSE b \in old[w]}]

-----------------------------------------------------------------------------
Idle == [at |-> "idle"]

RssInit ==
  /\ Init
  /\ shadow = ZeroTable /\ table = ZeroTable
  /\ giga = [r \in Registers |-> Lost]
  /\ eri = NoAccess
  /\ Lock = "none" /\ call = [t \in Threads |-> Idle] /\ calls = 0
  /\ steer = [i \in Indices |-> 0] /\ synced = FALSE
  /\ promised = [r \in Registers |-> Unknown]

(* Receive scaling calls and starts of the queues 1 to 3 reach a device    *)
(* that is on, if the registry enabled scaling, until it failed.           *)
MayCall(t) ==
  /\ power = "on" /\ call[t] = Idle /\ calls < MaxCalls
  /\ adapter.config.RssEnabled = 1 /\ ~failed

Begin(t, new) == call' = [call EXCEPT ![t] = new] /\ calls' = calls + 1

(* A call that writes GigaMac registers, one after the other.  What they   *)
(* are to hold in the end is wanted, whatever the order of the writes.     *)
BeginWrites(t, todo, wanted) ==
  /\ Begin(t, [at |-> "data", todo |-> todo, wanted |-> wanted])
  /\ promised' = [r \in Registers |-> IF r \in DOMAIN wanted THEN Unknown ELSE promised[r]]
  /\ UNCHANGED <<vars, shadow, table, giga, eri, Lock, steer, synced>>

EvtAdapterReceiveScalingEnable(protocols) ==
  /\ MayCall("scaling")
  /\ BeginWrites("scaling", <<Write(RSS_CONTROL, EnableBits(protocols))>>,
                 [r \in {RSS_CONTROL} |-> EnableBits(protocols)])

EvtAdapterReceiveScalingDisable ==
  /\ MayCall("scaling")
  /\ BeginWrites("scaling", <<Write(RSS_CONTROL, {})>>, [r \in {RSS_CONTROL} |-> {}])

EvtAdapterReceiveScalingSetHashSecretKey(key) ==
  /\ MayCall("scaling")
  /\ BeginWrites("scaling", KeyWrites(key),
                 [r \in {RSS_KEY + 4 * (i - 1) : i \in DOMAIN key} |->
                    key[(r - RSS_KEY) \div 4 + 1]])

(* As far as it is about the start address.                                *)
EvtRxQueueStart(q, pa) ==
  /\ MayCall("queue")
  /\ BeginWrites("queue", StartAddressWrites(q, pa),
                 [r \in {RDSAR[q], RDSAR[q] + 4} |->
                    IF r = RDSAR[q] THEN pa.low ELSE pa.high])

(* The shadow is updated in one step: nobody else looks at it.             *)
EvtAdapterReceiveScalingSetIndirectionEntries(update) ==
  /\ MayCall("scaling")
  /\ Begin("scaling", [at |-> "table", next |-> 0, named |-> DOMAIN update])
  /\ shadow' = Updated(shadow, update)
  /\ steer' = [i \in Indices |-> IF i \in DOMAIN update THEN update[i] ELSE steer[i]]
  /\ UNCHANGED <<vars, table, giga, eri, Lock, synced, promised>>

(* "We just blat the entire table."                                        *)
WriteTableWord ==
  LET c == call["scaling"]
      last == c.next = 2 * PlaneWords - 1
  IN  /\ c.at = "table"
      /\ table' = [table EXCEPT ![c.next] = shadow[c.next]]
      /\ call' = [call EXCEPT !["scaling"] = IF last THEN Idle ELSE [c EXCEPT !.next = @ + 1]]
      /\ synced' = (synced \/ last)
      /\ UNCHANGED <<vars, shadow, giga, eri, Lock, calls, steer, promised>>

-----------------------------------------------------------------------------
(* GigaMacWrite, and the calls that end with it.                           *)

(* Mutant: does not take the lock.                                         *)
GigaMacWriteDataUnlocked(t) ==
  /\ call[t].at = "data"
  /\ eri' = [eri EXCEPT !.data = Head(call[t].todo).data]
  /\ call' = [call EXCEPT ![t].at = "access"]
  /\ UNCHANGED <<vars, shadow, table, giga, Lock, calls, steer, synced, promised>>

GigaMacWriteData(t) ==
  /\ call[t].at = "data" /\ Lock = "none"
  /\ Lock' = t
  /\ eri' = [eri EXCEPT !.data = Head(call[t].todo).data]
  /\ call' = [call EXCEPT ![t].at = "access"]
  /\ UNCHANGED <<vars, shadow, table, giga, calls, steer, synced, promised>>

GigaMacWriteAccess(t) ==
  /\ call[t].at = "access"
  /\ eri' = [eri EXCEPT !.register = Head(call[t].todo).register, !.busy = TRUE]
  /\ call' = [call EXCEPT ![t].at = "poll"]
  /\ UNCHANGED <<vars, shadow, table, giga, Lock, calls, steer, synced, promised>>

GigaMacWriteDone(t) ==
  LET c == call[t]
      last == Len(c.todo) = 1
  IN  /\ c.at = "poll" /\ ~eri.busy
      /\ Lock' = "none"
      /\ call' = [call EXCEPT ![t] = IF last THEN Idle
                                     ELSE [c EXCEPT !.at = "data", !.todo = Tail(c.todo)]]
      /\ promised' = [r \in Registers |-> IF last /\ r \in DOMAIN c.wanted THEN c.wanted[r]
                                          ELSE promised[r]]
      /\ UNCHANGED <<vars, shadow, table, giga, eri, calls, steer, synced>>

(* Mutant: returns from the loop without releasing the lock.               *)
GigaMacWriteTimeoutLocked(t) ==
  /\ call[t].at = "poll" /\ eri.busy
  /\ call' = [call EXCEPT ![t] = Idle]
  /\ failed' = (failed \/ t = "scaling")
  /\ UNCHANGED <<power, adapter, nic, board, armed, history,
                 shadow, table, giga, eri, Lock, calls, steer, synced, promised>>

(* Ten polls found the device still busy.  A receive scaling call fails    *)
(* the device, the start of a queue goes on (rxqueue.cpp:402).             *)
GigaMacWriteTimeout(t) ==
  /\ call[t].at = "poll" /\ eri.busy
  /\ Lock' = "none"
  /\ call' = [call EXCEPT ![t] = Idle]
  /\ failed' = (failed \/ t = "scaling")
  /\ UNCHANGED <<power, adapter, nic, board, armed, history,
                 shadow, table, giga, eri, calls, steer, synced, promised>>

(* The device takes what ERIData holds when it gets to it; a write of      *)
(* ERIAccess replaces one it has not got to.                               *)
HwGigaMac ==
  /\ eri.busy
  /\ giga' = [giga EXCEPT ![eri.register] = eri.data]
  /\ eri' = [eri EXCEPT !.busy = FALSE]
  /\ UNCHANGED <<vars, shadow, table, Lock, call, calls, steer, synced, promised>>

-----------------------------------------------------------------------------
(* The steps of RtStart.  Power changes only between calls.  A device that *)
(* is reset or changes its power may lose the table and the registers:     *)
(* they count as lost, and nothing in the driver writes them again.  A new *)
(* device object has a new context.                                        *)
RssLost ==
  /\ table' = ZeroTable /\ giga' = [r \in Registers |-> Lost] /\ eri' = NoAccess
  /\ synced' = FALSE /\ promised' = [r \in Registers |-> Unknown]
  /\ IF power' = "absent"
     THEN shadow' = ZeroTable /\ steer' = [i \in Indices |-> 0] /\ calls' = 0
     ELSE UNCHANGED <<shadow, steer, calls>>
  /\ UNCHANGED <<Lock, call>>

StartStep ==
  /\ Next
  /\ IF power' # power \/ adapter' # adapter
     THEN call = [t \in Threads |-> Idle] /\ RssLost
     ELSE UNCHANGED rss

RssNext ==
  \/ StartStep
  \/ \E protocols \in Protocols : EvtAdapterReceiveScalingEnable(protocols)
  \/ EvtAdapterReceiveScalingDisable
  \/ \E key \in Keys : EvtAdapterReceiveScalingSetHashSecretKey(key)
  \/ \E q \in RssQueues, pa \in RxBuffers : EvtRxQueueStart(q, pa)
  \/ \E update \in Updates : EvtAdapterReceiveScalingSetIndirectionEntries(update)
  \/ WriteTableWord
  \/ \E t \in Threads :
       GigaMacWriteData(t) \/ GigaMacWriteAccess(t) \/ GigaMacWriteDone(t)
         \/ GigaMacWriteTimeout(t)
  \/ HwGigaMac

RssSpec == RssInit /\ [][RssNext]_all

-----------------------------------------------------------------------------
(* The queue an index steers to.                                           *)
Steered(index) ==
  LET PlaneBit(p) == IF BitIn(index) \in table[WordOf(index) + p * PlaneWords] THEN 1 ELSE 0
  IN  PlaneBit(0) + 2 * PlaneBit(1)

(* From the first call after the device lost it, the table steers every    *)
(* index where the framework last told it to, also those the call did not  *)
(* name and those told before a sleep; while a call writes the words, only *)
(* the indices it names may steer elsewhere (adapter.cpp:438-472).         *)
TableSteers ==
  power = "on" /\ synced =>
    \A i \in Indices :
      \/ Steered(i) = steer[i]
      \/ call["scaling"].at = "table" /\ i \in call["scaling"].named

(* What a call that succeeded was to write is in the registers until the   *)
(* device may lose it, whatever other thread uses the window and whatever  *)
(* write timed out in between (gigamac.cpp:36-66, adapter->Lock).          *)
ReportedWritten ==
  power = "on" =>
    \A r \in Registers : promised[r] # Unknown => giga[r] = promised[r]

KeyedWords     == UNION {{k[i] : i \in DOMAIN k} : k \in Keys}
AddressedWords == UNION {{p.low, p.high} : p \in RxBuffers}
Words          == SUBSET (ControlBits \cup Unknown \cup Lost
                            \cup (UNION KeyedWords) \cup (UNION AddressedWords))

(* Besides the types: the thread between its write of ERIData and the end  *)
(* of its polls is the one that holds the lock, and nothing is under way   *)
(* on a device that is not on.                                             *)
TypeOK ==
  /\ StartTypeOK
  /\ shadow \in [TableWords -> SUBSET (0 .. WordWidth - 1)]
  /\ table \in [TableWords -> SUBSET (0 .. WordWidth - 1)]
  /\ giga \in [Registers -> Words] /\ promised \in [Registers -> Words]
  /\ eri \in [data : Words, register : Registers, busy : BOOLEAN]
  /\ Lock \in Threads \cup {"none"} /\ calls \in 0 .. MaxCalls
  /\ steer \in [Indices -> QueueIds] /\ synced \in BOOLEAN
  /\ DOMAIN call = Threads
  /\ \A t \in Threads : call[t].at \in {"access", "poll"} <=> Lock = t
  /\ power # "on" => call = [t \in Threads |-> Idle]
=============================================================================
