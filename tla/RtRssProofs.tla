----------------------------- MODULE RtRssProofs -----------------------------
(***************************************************************************)
(* Proofs of the safety properties of RtRss, for a table of any size, any  *)
(* updates, keys and addresses of queues, on the device of RtStart: the    *)
(* invariant RssIInv, that every step keeps it and what follows from it.   *)
(***************************************************************************)
EXTENDS RtRss, RtStartProofs, SequenceTheorems

USE DEF history

-----------------------------------------------------------------------------
(* What the inductive invariant consists of.                               *)

WriteRecords == [register : Registers, data : Words]
Wanteds      == UNION {[D -> Words] : D \in SUBSET Registers}
TableCalls   == [at : {"table"}, next : TableWords, named : SUBSET Indices]
WriteCalls   == [at : {"data", "access", "poll"}, todo : Seq(WriteRecords), wanted : Wanteds]

RssShape ==
  /\ shadow \in [TableWords -> SUBSET (0 .. WordWidth - 1)]
  /\ table \in [TableWords -> SUBSET (0 .. WordWidth - 1)]
  /\ giga \in [Registers -> Words] /\ promised \in [Registers -> Words]
  /\ eri \in [data : Words, register : Registers, busy : BOOLEAN]
  /\ Lock \in Threads \cup {"none"} /\ calls \in 0 .. MaxCalls
  /\ steer \in [Indices -> QueueIds] /\ synced \in BOOLEAN
  /\ call \in [Threads -> {Idle} \cup TableCalls \cup WriteCalls]
  /\ call["queue"] \notin TableCalls

(* The lock holder is the thread inside the window; calls are made on a    *)
(* device that is on.                                                      *)
CallsApart ==
  /\ \A t \in Threads : call[t].at \in {"access", "poll"} <=> Lock = t
  /\ power # "on" => call = [t \in Threads |-> Idle]

(* The registers a thread writes.                                          *)
Own == [t \in Threads |-> IF t = "scaling" THEN {r \in Registers : r < 200}
                                           ELSE {r \in Registers : r >= 200}]

InTodo(c, r) == \E i \in 1 .. Len(c.todo) : c.todo[i].register = r

(* What is left to be written is part of what is wanted, each register     *)
(* once.                                                                   *)
TodoOK(t, c) ==
  /\ Len(c.todo) >= 1
  /\ DOMAIN c.wanted \subseteq Own[t]
  /\ \A i \in 1 .. Len(c.todo) :
       /\ c.todo[i].register \in DOMAIN c.wanted
       /\ c.todo[i].data = c.wanted[c.todo[i].register]
  /\ \A i, j \in 1 .. Len(c.todo) : c.todo[i].register = c.todo[j].register => i = j

(* What a call has written stays: a write that timed out and is still      *)
(* under way is not to one of these registers.                             *)
WrittenOK(c) ==
  \A r \in DOMAIN c.wanted :
    /\ promised[r] = Unknown
    /\ ~InTodo(c, r) => giga[r] = c.wanted[r] /\ (eri.busy => eri.register # r)

(* Between its write of ERIData and the end of its polls the window holds  *)
(* what a call is writing.                                                 *)
WindowOK(c) ==
  /\ c.at \in {"access", "poll"} => eri.data = c.todo[1].data
  /\ c.at = "poll" /\ eri.busy => eri.register = c.todo[1].register
  /\ c.at = "poll" /\ ~eri.busy => giga[c.todo[1].register] = c.todo[1].data

CallOK(t) ==
  call[t] \in WriteCalls => TodoOK(t, call[t]) /\ WrittenOK(call[t]) /\ WindowOK(call[t])

WritesOK ==
  /\ \A t \in Threads : CallOK(t)
  /\ eri.busy => promised[eri.register] = Unknown
  /\ \A r \in Registers : promised[r] # Unknown => giga[r] = promised[r]

(* The word with bit p of the queue of an index.                           *)
PlaneWord(i, p) == WordOf(i) + p * PlaneWords

(* The shadow has the bits of the queues the framework told; the table has *)
(* those of the shadow, as far as it was written.                          *)
TableOK ==
  /\ \A i \in Indices, p \in {0, 1} :
       BitIn(i) \in shadow[PlaneWord(i, p)] <=> BitOf(steer[i], p) = 1
  /\ call["scaling"] \in TableCalls =>
       \A w \in TableWords : w < call["scaling"].next => table[w] = shadow[w]
  /\ synced =>
       \A i \in Indices, p \in {0, 1} :
         (call["scaling"] \in TableCalls => i \notin call["scaling"].named) =>
           (BitIn(i) \in table[PlaneWord(i, p)] <=> BitIn(i) \in shadow[PlaneWord(i, p)])

RssIInv == IInv /\ RssShape /\ CallsApart /\ WritesOK /\ TableOK

-----------------------------------------------------------------------------
(* Calls, words and registers.                                             *)

(* Where a call is tells which kind of record it is.                       *)
LEMMA CallFacts ==
  ASSUME NEW c \in {Idle} \cup TableCalls \cup WriteCalls
  PROVE  /\ c.at \in {"idle", "table", "data", "access", "poll"}
         /\ c.at = "idle" <=> c = Idle
         /\ c.at = "table" <=> c \in TableCalls
         /\ c.at \in {"data", "access", "poll"} <=> c \in WriteCalls
BY DEF Idle, TableCalls, WriteCalls

LEMMA WantedFacts ==
  ASSUME NEW w \in Wanteds
  PROVE  DOMAIN w \subseteq Registers /\ \A r \in DOMAIN w : w[r] \in Words
BY DEF Wanteds

LEMMA WordFacts ==
  /\ Unknown \in Words /\ Lost \in Words /\ {} \in Words
  /\ \A protocols : EnableBits(protocols) \in Words
  /\ \A k \in Keys : \A i \in DOMAIN k : k[i] \in Words
  /\ \A pa \in RxBuffers : pa.low \in Words /\ pa.high \in Words
<1>1. \A k \in Keys : \A i \in DOMAIN k : k[i] \subseteq UNION KeyedWords
  BY DEF KeyedWords
<1>2. \A pa \in RxBuffers : pa.low \subseteq UNION AddressedWords /\ pa.high \subseteq UNION AddressedWords
  BY DEF AddressedWords
<1>3. \A protocols : EnableBits(protocols) \subseteq ControlBits
  BY DEF EnableBits, ControlBits
<1> QED BY <1>1, <1>2, <1>3 DEF Words

LEMMA RegisterFacts ==
  /\ RSS_CONTROL \in Own["scaling"]
  /\ \A i \in 0 .. KeyWords - 1 : RSS_KEY + 4 * i \in Own["scaling"]
  /\ \A q \in 1 .. 3 : RDSAR[q] \in Own["queue"] /\ RDSAR[q] + 4 \in Own["queue"]
  /\ Own["scaling"] \cap Own["queue"] = {}
  /\ \A t \in Threads : Own[t] \subseteq Registers
  /\ Registers \subseteq Int
<1>1. RSS_CONTROL = 184 /\ RSS_KEY = 144 /\ KeyWords = 10
  BY DEF RSS_CONTROL, RSS_KEY, KeyWords
<1>2. \A q \in 1 .. 3 : RDSAR[q] = 200 + 8 * q
  BY DEF RDSAR
<1>3. RSS_CONTROL \in Registers
  BY DEF Registers
<1>4. \A i \in 0 .. KeyWords - 1 : RSS_KEY + 4 * i \in Registers
  BY DEF Registers
<1>5. \A q \in 1 .. 3 : RDSAR[q] \in Registers /\ RDSAR[q] + 4 \in Registers
  <2> SUFFICES ASSUME NEW q \in 1 .. 3 PROVE RDSAR[q] \in Registers /\ RDSAR[q] + 4 \in Registers
    OBVIOUS
  <2>1. RDSAR[q] = RDSAR[q] + 4 * 0 /\ RDSAR[q] + 4 = RDSAR[q] + 4 * 1
    BY <1>2
  <2> QED BY <2>1 DEF Registers
<1>6. Registers \subseteq Int
  <2> SUFFICES ASSUME NEW r \in Registers PROVE r \in Int
    OBVIOUS
  <2>1. \/ r = RSS_CONTROL
        \/ \E i \in 0 .. KeyWords - 1 : r = RSS_KEY + 4 * i
        \/ \E q \in 1 .. 3, i \in {0, 1} : r = RDSAR[q] + 4 * i
    BY DEF Registers
  <2> QED BY <2>1, <1>1, <1>2
<1> HIDE DEF Registers
<1>7. RSS_CONTROL \in Own["scaling"] /\ \A i \in 0 .. KeyWords - 1 : RSS_KEY + 4 * i \in Own["scaling"]
  BY <1>1, <1>3, <1>4 DEF Own, Threads
<1>8. \A q \in 1 .. 3 : RDSAR[q] \in Own["queue"] /\ RDSAR[q] + 4 \in Own["queue"]
  BY <1>2, <1>5 DEF Own, Threads
<1>9. Own["scaling"] \cap Own["queue"] = {} /\ \A t \in Threads : Own[t] \subseteq Registers
  <2>1. /\ Own["scaling"] = {r \in Registers : r < 200}
        /\ Own["queue"] = {r \in Registers : r >= 200}
    BY DEF Own, Threads
  <2>2. \A r \in Registers : ~(r < 200 /\ r >= 200)
    BY <1>6
  <2> QED BY <2>1, <2>2 DEF Threads
<1> QED BY <1>6, <1>7, <1>8, <1>9

-----------------------------------------------------------------------------
(* The writes a call begins with.                                          *)

NewCall(todo, wanted) == [at |-> "data", todo |-> todo, wanted |-> wanted]

(* All that is wanted is to be written.                                    *)
Complete(t, todo, wanted) ==
  /\ todo \in Seq(WriteRecords) /\ wanted \in Wanteds
  /\ TodoOK(t, NewCall(todo, wanted))
  /\ \A r \in DOMAIN wanted : InTodo(NewCall(todo, wanted), r)

LEMMA OneWriteFacts ==
  ASSUME NEW v \in Words
  PROVE  Complete("scaling", <<Write(RSS_CONTROL, v)>>, [r \in {RSS_CONTROL} |-> v])
<1> DEFINE todo == <<Write(RSS_CONTROL, v)>>
           wanted == [r \in {RSS_CONTROL} |-> v]
<1>1. RSS_CONTROL \in Own["scaling"] /\ RSS_CONTROL \in Registers
  BY RegisterFacts DEF Threads
<1>2. Write(RSS_CONTROL, v) \in WriteRecords
  BY <1>1 DEF Write, WriteRecords
<1>3. todo \in Seq(WriteRecords) /\ Len(todo) = 1 /\ todo[1] = Write(RSS_CONTROL, v)
  BY <1>2
<1>4. wanted \in Wanteds /\ DOMAIN wanted = {RSS_CONTROL} /\ wanted[RSS_CONTROL] = v
  <2>1. wanted \in [{RSS_CONTROL} -> Words] /\ {RSS_CONTROL} \in SUBSET Registers
    BY <1>1
  <2> QED BY <2>1 DEF Wanteds
<1>5. todo[1].register = RSS_CONTROL /\ todo[1].data = v
  BY <1>3 DEF Write
<1> DEFINE c == NewCall(todo, wanted)
<1>6. c.todo = todo /\ c.wanted = wanted
  BY DEF NewCall
<1> HIDE DEF todo, wanted, c
<1>7. \A i \in 1 .. 1 : i = 1
  OBVIOUS
<1>8. TodoOK("scaling", c)
  <2>1. Len(c.todo) = 1 /\ c.todo[1].register = RSS_CONTROL /\ c.todo[1].data = v
    BY <1>3, <1>5, <1>6
  <2>2. DOMAIN c.wanted = {RSS_CONTROL} /\ c.wanted[RSS_CONTROL] = v
    BY <1>4, <1>6
  <2> QED BY <1>1, <1>7, <2>1, <2>2 DEF TodoOK
<1>9. \A r \in DOMAIN wanted : InTodo(c, r)
  BY <1>3, <1>4, <1>5, <1>6 DEF InTodo
<1> QED BY <1>3, <1>4, <1>8, <1>9 DEF Complete, c, todo, wanted

LEMMA KeyWritesFacts ==
  ASSUME NEW key \in Keys
  PROVE  Complete("scaling", KeyWrites(key),
                [r \in {RSS_KEY + 4 * (i - 1) : i \in DOMAIN key} |-> key[(r - RSS_KEY) \div 4 + 1]])
<1> DEFINE todo == KeyWrites(key)
           D == {RSS_KEY + 4 * (i - 1) : i \in DOMAIN key}
           word(r) == key[(r - RSS_KEY) \div 4 + 1]
           wanted == [r \in D |-> word(r)]
           n == Len(key)
<1>1. n \in 1 .. 10 /\ DOMAIN key = 1 .. n /\ RSS_KEY = 144 /\ KeyWords = 10
  BY KeysAssumption DEF KeyWords, RSS_KEY
<1> HIDE DEF n
<1>2. ASSUME NEW i \in 1 .. n
      PROVE  /\ RSS_KEY + 4 * (i - 1) \in Own["scaling"]
             /\ RSS_KEY + 4 * (i - 1) \in Registers
             /\ (RSS_KEY + 4 * (i - 1) - RSS_KEY) \div 4 + 1 = i
             /\ key[i] \in Words
  <2>1. i - 1 \in 0 .. KeyWords - 1
    BY <1>1
  <2>2. RSS_KEY + 4 * (i - 1) \in Own["scaling"]
    BY <2>1, RegisterFacts
  <2>3. (RSS_KEY + 4 * (i - 1) - RSS_KEY) \div 4 + 1 = i
    BY <1>1
  <2>4. key[i] \in Words
    BY <1>1, WordFacts
  <2> QED BY <2>2, <2>3, <2>4, RegisterFacts DEF Threads
<1>12. ASSUME NEW i \in 1 .. n, NEW r, r = RSS_KEY + 4 * (i - 1)
       PROVE  word(r) = key[i]
  <2>1. (r - RSS_KEY) \div 4 + 1 = i
    BY <1>1, <1>12
  <2> QED BY <2>1
<1> HIDE DEF word
<1>3. /\ todo = [i \in 1 .. n |-> Write(RSS_KEY + 4 * (i - 1), key[i])]
      /\ todo \in Seq(WriteRecords) /\ Len(todo) = n
  <2>1. \A i \in 1 .. n : Write(RSS_KEY + 4 * (i - 1), key[i]) \in WriteRecords
    BY <1>2 DEF Write, WriteRecords
  <2>2. todo = [i \in 1 .. n |-> Write(RSS_KEY + 4 * (i - 1), key[i])]
    BY <1>1 DEF KeyWrites
  <2>3. n \in Nat
    BY <1>1
  <2> HIDE DEF todo
  <2> QED BY <2>1, <2>2, <2>3
<1> HIDE DEF todo
<1>4. \A i \in 1 .. n : todo[i].register = RSS_KEY + 4 * (i - 1) /\ todo[i].data = key[i]
  BY <1>3 DEF Write
<1>5. \A i \in 1 .. n : RSS_KEY + 4 * (i - 1) \in D /\ wanted[RSS_KEY + 4 * (i - 1)] = key[i]
  <2> SUFFICES ASSUME NEW i \in 1 .. n
               PROVE  RSS_KEY + 4 * (i - 1) \in D /\ wanted[RSS_KEY + 4 * (i - 1)] = key[i]
    OBVIOUS
  <2>1. RSS_KEY + 4 * (i - 1) \in D
    BY <1>1
  <2> HIDE DEF D
  <2>2. word(RSS_KEY + 4 * (i - 1)) = key[i]
    BY <1>12
  <2>3. wanted[RSS_KEY + 4 * (i - 1)] = word(RSS_KEY + 4 * (i - 1))
    BY <2>1
  <2> QED BY <2>1, <2>2, <2>3
<1>6. \A r \in D : \E i \in 1 .. n : r = RSS_KEY + 4 * (i - 1)
  BY <1>1
<1>7. D \subseteq Own["scaling"] /\ D \subseteq Registers /\ DOMAIN wanted = D
  BY <1>2, <1>6
<1>8. wanted \in [D -> Words]
  <2> SUFFICES ASSUME NEW r \in D PROVE word(r) \in Words
    OBVIOUS
  <2>1. PICK i \in 1 .. n : r = RSS_KEY + 4 * (i - 1)
    BY <1>6
  <2>2. word(r) = key[i] /\ key[i] \in Words
    BY <1>2, <1>12, <2>1
  <2> HIDE DEF D, wanted
  <2> QED BY <2>1, <2>2
<1>9. wanted \in Wanteds
  BY <1>7, <1>8 DEF Wanteds
<1> HIDE DEF D, wanted
<1>10. TodoOK("scaling", NewCall(todo, wanted))
  <2>1. \A i, j \in 1 .. n : todo[i].register = todo[j].register => i = j
    BY <1>1, <1>4
  <2> QED BY <1>1, <1>3, <1>4, <1>5, <1>7, <2>1 DEF TodoOK, NewCall
<1>11. \A r \in D : InTodo(NewCall(todo, wanted), r)
  BY <1>3, <1>4, <1>6 DEF InTodo, NewCall
<1> QED BY <1>3, <1>7, <1>9, <1>10, <1>11 DEF Complete, D, wanted, word, todo

LEMMA StartWritesFacts ==
  ASSUME NEW q \in 1 .. 3, NEW pa \in RxBuffers
  PROVE  Complete("queue", StartAddressWrites(q, pa),
                [r \in {RDSAR[q], RDSAR[q] + 4} |-> IF r = RDSAR[q] THEN pa.low ELSE pa.high])
<1> DEFINE low == RDSAR[q]
           high == RDSAR[q] + 4
           todo == StartAddressWrites(q, pa)
           wanted == [r \in {low, high} |-> IF r = RDSAR[q] THEN pa.low ELSE pa.high]
<1>1. /\ low \in Own["queue"] /\ high \in Own["queue"] /\ low \in Registers /\ high \in Registers
      /\ low # high
  <2>1. low \in Own["queue"] /\ high \in Own["queue"]
    BY RegisterFacts
  <2>2. low \in Registers /\ high \in Registers
    BY <2>1, RegisterFacts DEF Threads
  <2>3. low # high
    <3>1. low \in Int
      BY <2>2, RegisterFacts
    <3> HIDE DEF low
    <3>2. low # low + 4
      BY <3>1
    <3> QED BY <3>2 DEF low
  <2> QED BY <2>1, <2>2, <2>3
<1>2. pa.low \in Words /\ pa.high \in Words
  BY WordFacts
<1>3. todo = <<Write(low, pa.low), Write(high, pa.high)>>
  BY DEF StartAddressWrites
<1>4. wanted \in [{low, high} -> Words] /\ wanted[low] = pa.low /\ wanted[high] = pa.high
      /\ DOMAIN wanted = {low, high}
  BY <1>1, <1>2
<1>5. wanted \in Wanteds
  <2>1. {low, high} \in SUBSET Registers
    BY <1>1
  <2> QED BY <1>4, <2>1 DEF Wanteds
<1> HIDE DEF low, high, todo, wanted
<1>6. Write(low, pa.low) \in WriteRecords /\ Write(high, pa.high) \in WriteRecords
  BY <1>1, <1>2 DEF Write, WriteRecords
<1>7. /\ todo \in Seq(WriteRecords) /\ Len(todo) = 2
      /\ todo[1].register = low /\ todo[1].data = pa.low
      /\ todo[2].register = high /\ todo[2].data = pa.high
  BY <1>3, <1>6 DEF Write
<1> DEFINE c == NewCall(todo, wanted)
<1>8. c.todo = todo /\ c.wanted = wanted
  BY DEF NewCall
<1> HIDE DEF c
<1>9. \A i \in 1 .. 2 : i = 1 \/ i = 2
  OBVIOUS
<1>10. TodoOK("queue", c)
  <2>1. /\ Len(c.todo) = 2
        /\ c.todo[1].register = low /\ c.todo[1].data = pa.low
        /\ c.todo[2].register = high /\ c.todo[2].data = pa.high
    BY <1>7, <1>8
  <2>2. DOMAIN c.wanted = {low, high} /\ c.wanted[low] = pa.low /\ c.wanted[high] = pa.high
    BY <1>4, <1>8
  <2>3. \A i \in 1 .. 2 : /\ c.todo[i].register \in DOMAIN c.wanted
                        /\ c.todo[i].data = c.wanted[c.todo[i].register]
    BY <1>9, <2>1, <2>2
  <2>4. \A i, j \in 1 .. 2 : c.todo[i].register = c.todo[j].register => i = j
    BY <1>1, <1>9, <2>1
  <2> QED BY <1>1, <2>1, <2>2, <2>3, <2>4 DEF TodoOK
<1>11. \A r \in DOMAIN wanted : InTodo(c, r)
  <2>1. 1 \in 1 .. 2 /\ 2 \in 1 .. 2
    OBVIOUS
  <2> QED BY <1>4, <1>7, <1>8, <2>1 DEF InTodo
<1> QED BY <1>5, <1>7, <1>10, <1>11 DEF Complete, c, todo, wanted, low, high

-----------------------------------------------------------------------------
(* The steps of the device keep its own invariant.                         *)

LEMMA RssStart == IInv /\ [RssNext]_all => IInv'
<1> SUFFICES ASSUME IInv, [RssNext]_all PROVE IInv'
  OBVIOUS
<1>1. CASE StartStep
  BY <1>1, StartNext DEF StartStep
<1>2. CASE \E t \in Threads : GigaMacWriteTimeout(t)
  <2>1. failed' = failed \/ failed' = TRUE
    BY <1>2 DEF GigaMacWriteTimeout, IInv, Shape
  <2>2. UNCHANGED <<power, adapter, nic, board, armed, given, overrides, raised>>
    BY <1>2 DEF GigaMacWriteTimeout
  <2>3. Shape'
    BY <2>1, <2>2 DEF IInv, Shape
  <2>4. Wake' /\ Phy'
    BY <2>2 DEF IInv, Wake, Phy
  <2>5. Station'
    BY <2>2 DEF IInv, Station, OwnAddress
  <2> QED BY <2>3, <2>4, <2>5 DEF IInv
<1>3. CASE UNCHANGED vars
  BY <1>3, StartNext
<1>4. \/ StartStep
      \/ \E t \in Threads : GigaMacWriteTimeout(t)
      \/ UNCHANGED vars
  BY DEF RssNext, all, vars, EvtAdapterReceiveScalingEnable, EvtAdapterReceiveScalingDisable,
         EvtAdapterReceiveScalingSetHashSecretKey, EvtRxQueueStart, BeginWrites,
         EvtAdapterReceiveScalingSetIndirectionEntries, WriteTableWord, GigaMacWriteData,
         GigaMacWriteAccess, GigaMacWriteDone, HwGigaMac
<1> QED BY <1>1, <1>2, <1>3, <1>4

-----------------------------------------------------------------------------
(* The arithmetic of the table.                                            *)

LEMMA BitFacts ==
  \A n \in QueueIds : BitOf(n, 0) + 2 * BitOf(n, 1) = n /\ BitOf(n, 0) \in {0, 1} /\ BitOf(n, 1) \in {0, 1}
BY DEF QueueIds, BitOf

LEMMA DivFacts ==
  ASSUME NEW d \in Nat \ {0}, NEW n \in Nat
  PROVE  /\ n = d * (n \div d) + (n % d) /\ n \div d \in Nat /\ n % d \in 0 .. d - 1
OBVIOUS

LEMMA IndexFacts ==
  ASSUME NEW i \in Indices
  PROVE  WordOf(i) \in 0 .. PlaneWords - 1 /\ BitIn(i) \in 0 .. WordWidth - 1
<1>1. PlaneWords \in Nat \ {0} /\ WordWidth \in Nat \ {0}
  BY TableAssumption
<1>2. i \in Nat /\ i < PlaneWords * WordWidth
  BY <1>1 DEF Indices
<1>3. i = WordWidth * (i \div WordWidth) + (i % WordWidth) /\ i \div WordWidth \in Nat
      /\ i % WordWidth \in 0 .. WordWidth - 1
  BY <1>1, <1>2, DivFacts
<1>4. \A q \in Nat, r \in 0 .. WordWidth - 1 :
        WordWidth * q + r < PlaneWords * WordWidth => q < PlaneWords
  <2> SUFFICES ASSUME NEW q \in Nat, NEW r \in 0 .. WordWidth - 1, q >= PlaneWords
               PROVE  WordWidth * q + r >= PlaneWords * WordWidth
    BY <1>1
  <2>1. WordWidth * q >= WordWidth * PlaneWords
    BY <1>1
  <2> QED BY <1>1, <2>1
<1>5. i \div WordWidth < PlaneWords
  BY <1>2, <1>3, <1>4
<1> QED BY <1>1, <1>3, <1>5 DEF WordOf, BitIn

(* An index has a bit of its own in each plane.                            *)
LEMMA PlaneFacts ==
  ASSUME NEW i \in Indices, NEW p \in {0, 1}
  PROVE  /\ PlaneWord(i, p) \in TableWords
         /\ PlaneWord(i, p) \div PlaneWords = p
         /\ PlaneWord(i, p) % PlaneWords = WordOf(i)
         /\ \A j \in Indices : WordOf(j) = WordOf(i) /\ BitIn(j) = BitIn(i) => j = i
<1>1. PlaneWords \in Nat \ {0} /\ WordWidth \in Nat \ {0}
  BY TableAssumption
<1>2. WordOf(i) \in 0 .. PlaneWords - 1
  BY IndexFacts
<1>3. \A d \in Nat \ {0} : \A w \in 0 .. d - 1 :
        /\ w \div d = 0 /\ w % d = w
        /\ (w + d) \div d = 1 /\ (w + d) % d = w
  OBVIOUS
<1>5. p = 0 => PlaneWord(i, p) = WordOf(i)
  BY <1>1, <1>2 DEF PlaneWord
<1>6. p = 1 => PlaneWord(i, p) = WordOf(i) + PlaneWords
  BY <1>1, <1>2 DEF PlaneWord
<1>7. PlaneWord(i, p) \in TableWords
  BY <1>1, <1>2, <1>5, <1>6 DEF TableWords
<1>8. PlaneWord(i, p) \div PlaneWords = p /\ PlaneWord(i, p) % PlaneWords = WordOf(i)
  BY <1>1, <1>2, <1>3, <1>5, <1>6
<1>9. ASSUME NEW j \in Indices, WordOf(j) = WordOf(i), BitIn(j) = BitIn(i) PROVE j = i
  <2>1. i \in Nat /\ j \in Nat
    BY <1>1 DEF Indices
  <2>2. i = WordWidth * (i \div WordWidth) + (i % WordWidth)
    BY <1>1, <2>1, DivFacts
  <2>3. j = WordWidth * (j \div WordWidth) + (j % WordWidth)
    BY <1>1, <2>1, DivFacts
  <2> QED BY <1>9, <2>2, <2>3 DEF WordOf, BitIn
<1> QED BY <1>7, <1>8, <1>9

LEMMA UpdatedFacts ==
  ASSUME NEW old \in [TableWords -> SUBSET (0 .. WordWidth - 1)], NEW update \in Updates
  PROVE  /\ Updated(old, update) \in [TableWords -> SUBSET (0 .. WordWidth - 1)]
         /\ \A i \in Indices, p \in {0, 1} :
              BitIn(i) \in Updated(old, update)[PlaneWord(i, p)] <=>
                IF i \in DOMAIN update THEN BitOf(update[i], p) = 1
                                       ELSE BitIn(i) \in old[PlaneWord(i, p)]
<1> DEFINE named(w) == {i \in DOMAIN update : WordOf(i) = w % PlaneWords}
           bits(w) == {b \in 0 .. WordWidth - 1 :
                         IF \E i \in named(w) : BitIn(i) = b
                         THEN \E i \in named(w) : BitIn(i) = b /\ BitOf(update[i], w \div PlaneWords) = 1
                         ELSE b \in old[w]}
<1>1. Updated(old, update) = [w \in TableWords |-> bits(w)]
  BY DEF Updated
<1>2. DOMAIN update \subseteq Indices
  BY UpdatesAssumption
<1>3. ASSUME NEW i \in Indices, NEW p \in {0, 1}
      PROVE  BitIn(i) \in Updated(old, update)[PlaneWord(i, p)] <=>
                IF i \in DOMAIN update THEN BitOf(update[i], p) = 1
                                       ELSE BitIn(i) \in old[PlaneWord(i, p)]
  <2> DEFINE w == PlaneWord(i, p)
  <2>1. /\ w \in TableWords /\ w \div PlaneWords = p /\ w % PlaneWords = WordOf(i)
        /\ \A j \in Indices : WordOf(j) = WordOf(i) /\ BitIn(j) = BitIn(i) => j = i
    BY PlaneFacts
  <2>2. BitIn(i) \in 0 .. WordWidth - 1
    BY IndexFacts
  <2> HIDE DEF w
  <2>3. Updated(old, update)[w] = bits(w)
    BY <1>1, <2>1
  <2>4. \A j \in named(w) : BitIn(j) = BitIn(i) => j = i
    BY <1>2, <2>1
  <2>5. i \in DOMAIN update => i \in named(w)
    BY <2>1
  <2>6. named(w) \subseteq DOMAIN update
    OBVIOUS
  <2> HIDE DEF named
  <2>7. CASE i \in DOMAIN update
    <3>1. (\E j \in named(w) : BitIn(j) = BitIn(i)) /\
          ((\E j \in named(w) : BitIn(j) = BitIn(i) /\ BitOf(update[j], w \div PlaneWords) = 1)
             <=> BitOf(update[i], p) = 1)
      BY <2>1, <2>4, <2>5, <2>7
    <3> QED BY <2>2, <2>3, <2>7, <3>1 DEF w
  <2>8. CASE i \notin DOMAIN update
    <3>1. ~\E j \in named(w) : BitIn(j) = BitIn(i)
      BY <2>4, <2>6, <2>8
    <3> QED BY <2>2, <2>3, <2>8, <3>1 DEF w
  <2> QED BY <2>7, <2>8
<1> HIDE DEF named
<1>4. Updated(old, update) \in [TableWords -> SUBSET (0 .. WordWidth - 1)]
  <2>1. \A w \in TableWords : bits(w) \subseteq 0 .. WordWidth - 1
    OBVIOUS
  <2> HIDE DEF bits
  <2> QED BY <1>1, <2>1
<1> QED BY <1>3, <1>4

-----------------------------------------------------------------------------
(* The kinds of steps.                                                     *)

LEMMA RssCases ==
  ASSUME [RssNext]_all
  PROVE  \/ StartStep
         \/ \E t \in Threads : \E todo, wanted :
              MayCall(t) /\ BeginWrites(t, todo, wanted) /\ Complete(t, todo, wanted)
         \/ \E update \in Updates : EvtAdapterReceiveScalingSetIndirectionEntries(update)
         \/ WriteTableWord
         \/ \E t \in Threads : GigaMacWriteData(t)
         \/ \E t \in Threads : GigaMacWriteAccess(t)
         \/ \E t \in Threads : GigaMacWriteDone(t)
         \/ \E t \in Threads : GigaMacWriteTimeout(t)
         \/ HwGigaMac
         \/ UNCHANGED all
<1> DEFINE Begins == \E t \in Threads : \E todo, wanted :
              MayCall(t) /\ BeginWrites(t, todo, wanted) /\ Complete(t, todo, wanted)
<1>0. "scaling" \in Threads /\ "queue" \in Threads
  BY DEF Threads
<1>1. ASSUME NEW protocols \in Protocols, EvtAdapterReceiveScalingEnable(protocols) PROVE Begins
  <2>1. Complete("scaling", <<Write(RSS_CONTROL, EnableBits(protocols))>>,
                 [r \in {RSS_CONTROL} |-> EnableBits(protocols)])
    BY WordFacts, OneWriteFacts
  <2> QED BY <1>0, <1>1, <2>1 DEF EvtAdapterReceiveScalingEnable
<1>2. ASSUME EvtAdapterReceiveScalingDisable PROVE Begins
  <2>1. Complete("scaling", <<Write(RSS_CONTROL, {})>>, [r \in {RSS_CONTROL} |-> {}])
    BY WordFacts, OneWriteFacts
  <2> QED BY <1>0, <1>2, <2>1 DEF EvtAdapterReceiveScalingDisable
<1>3. ASSUME NEW key \in Keys, EvtAdapterReceiveScalingSetHashSecretKey(key) PROVE Begins
  BY <1>0, <1>3, KeyWritesFacts DEF EvtAdapterReceiveScalingSetHashSecretKey
<1>4. ASSUME NEW q \in RssQueues, NEW pa \in RxBuffers, EvtRxQueueStart(q, pa) PROVE Begins
  <2>1. q \in 1 .. 3
    BY QueuesAssumption
  <2> QED BY <1>0, <1>4, <2>1, StartWritesFacts DEF EvtRxQueueStart
<1> HIDE DEF Begins
<1> QED BY <1>1, <1>2, <1>3, <1>4 DEF RssNext, Begins

(* A step of the device leaves all as it was, or finds no call under way   *)
(* and loses the registers.                                                *)
LEMMA StartStepFacts ==
  ASSUME StartStep
  PROVE  \/ UNCHANGED rss /\ UNCHANGED <<power, adapter>>
         \/ call = [t \in Threads |-> Idle] /\ RssLost
BY DEF StartStep

LEMMA LostFacts ==
  /\ ZeroTable \in [TableWords -> SUBSET (0 .. WordWidth - 1)]
  /\ NoAccess \in [data : Words, register : Registers, busy : BOOLEAN] /\ NoAccess.busy = FALSE
  /\ [r \in Registers |-> Lost] \in [Registers -> Words]
  /\ [r \in Registers |-> Unknown] \in [Registers -> Words]
  /\ [i \in Indices |-> 0] \in [Indices -> QueueIds]
<1>1. RSS_CONTROL \in Registers /\ Lost \in Words /\ Unknown \in Words
  BY RegisterFacts, WordFacts DEF Threads
<1> QED BY <1>1 DEF ZeroTable, NoAccess, QueueIds

(* What a thread does next leaves the call of the other alone.             *)
Calls == {Idle} \cup TableCalls \cup WriteCalls

LEMMA SetCall ==
  ASSUME call \in [Threads -> Calls], call["queue"] \notin TableCalls,
         NEW t \in Threads, NEW c \in Calls, t = "queue" => c \notin TableCalls,
         call' = [call EXCEPT ![t] = c]
  PROVE  /\ call' \in [Threads -> Calls] /\ call'["queue"] \notin TableCalls
         /\ call'[t] = c /\ \A u \in Threads \ {t} : call'[u] = call[u]
BY DEF Threads

LEMMA KindFacts ==
  /\ Idle \notin TableCalls /\ Idle \notin WriteCalls /\ TableCalls \cap WriteCalls = {}
  /\ \A c \in WriteCalls : c.todo \in Seq(WriteRecords) /\ c.wanted \in Wanteds
  /\ \A c \in WriteCalls, at \in {"data", "access", "poll"} :
       LET d == [c EXCEPT !.at = at]
       IN  d \in WriteCalls /\ d.at = at /\ d.todo = c.todo /\ d.wanted = c.wanted
  /\ \A c \in WriteCalls, todo \in Seq(WriteRecords) :
       LET d == [c EXCEPT !.at = "data", !.todo = todo]
       IN  d \in WriteCalls /\ d.at = "data" /\ d.todo = todo /\ d.wanted = c.wanted
  /\ \A todo \in Seq(WriteRecords), wanted \in Wanteds :
       LET d == NewCall(todo, wanted)
       IN  d \in WriteCalls /\ d.at = "data" /\ d.todo = todo /\ d.wanted = wanted
<1>1. Idle \notin TableCalls /\ Idle \notin WriteCalls /\ TableCalls \cap WriteCalls = {}
  BY DEF Idle, TableCalls, WriteCalls
<1>2. \A c \in WriteCalls : c.todo \in Seq(WriteRecords) /\ c.wanted \in Wanteds
  BY DEF WriteCalls
<1>3. \A c \in WriteCalls, at \in {"data", "access", "poll"} :
       LET d == [c EXCEPT !.at = at]
       IN  d \in WriteCalls /\ d.at = at /\ d.todo = c.todo /\ d.wanted = c.wanted
  BY DEF WriteCalls
<1>4. \A c \in WriteCalls, todo \in Seq(WriteRecords) :
       LET d == [c EXCEPT !.at = "data", !.todo = todo]
       IN  d \in WriteCalls /\ d.at = "data" /\ d.todo = todo /\ d.wanted = c.wanted
  BY DEF WriteCalls
<1>5. \A todo \in Seq(WriteRecords), wanted \in Wanteds :
       LET d == NewCall(todo, wanted)
       IN  d \in WriteCalls /\ d.at = "data" /\ d.todo = todo /\ d.wanted = wanted
  BY DEF WriteCalls, NewCall
<1> QED BY <1>1, <1>2, <1>3, <1>4, <1>5

(* The steps, as changes of one call.                                      *)
LEMMA WriteSteps ==
  ASSUME RssShape, NEW t \in Threads
  PROVE  /\ GigaMacWriteData(t) =>
              /\ call[t] \in WriteCalls /\ call[t].at = "data" /\ Lock = "none" /\ Lock' = t
              /\ eri' = [eri EXCEPT !.data = Head(call[t].todo).data]
              /\ call' = [call EXCEPT ![t] = [call[t] EXCEPT !.at = "access"]]
         /\ GigaMacWriteAccess(t) =>
              /\ call[t] \in WriteCalls /\ call[t].at = "access"
              /\ eri' = [eri EXCEPT !.register = Head(call[t].todo).register, !.busy = TRUE]
              /\ call' = [call EXCEPT ![t] = [call[t] EXCEPT !.at = "poll"]]
         /\ GigaMacWriteDone(t) =>
              LET c == call[t]
                  last == Len(c.todo) = 1
              IN  /\ c \in WriteCalls /\ c.at = "poll" /\ ~eri.busy /\ Lock' = "none"
                  /\ call' = [call EXCEPT ![t] = IF last THEN Idle
                                     ELSE [c EXCEPT !.at = "data", !.todo = Tail(c.todo)]]
                  /\ promised' = [r \in Registers |-> IF last /\ r \in DOMAIN c.wanted THEN c.wanted[r]
                                          ELSE promised[r]]
         /\ GigaMacWriteTimeout(t) =>
              /\ call[t] \in WriteCalls /\ call[t].at = "poll" /\ eri.busy /\ Lock' = "none"
              /\ call' = [call EXCEPT ![t] = Idle]
<1>1. call \in [Threads -> Calls] /\ call[t] \in Calls
  BY DEF RssShape, Calls
<1>2. call[t].at \in {"data", "access", "poll"} => call[t] \in WriteCalls
  BY <1>1, CallFacts DEF Calls
<1>3. \A at : [call EXCEPT ![t].at = at] = [call EXCEPT ![t] = [call[t] EXCEPT !.at = at]]
  BY <1>1
<1>4. GigaMacWriteData(t) =>
              /\ call[t] \in WriteCalls /\ call[t].at = "data" /\ Lock = "none" /\ Lock' = t
              /\ eri' = [eri EXCEPT !.data = Head(call[t].todo).data]
              /\ call' = [call EXCEPT ![t] = [call[t] EXCEPT !.at = "access"]]
  BY <1>2, <1>3 DEF GigaMacWriteData
<1>5. GigaMacWriteAccess(t) =>
              /\ call[t] \in WriteCalls /\ call[t].at = "access"
              /\ eri' = [eri EXCEPT !.register = Head(call[t].todo).register, !.busy = TRUE]
              /\ call' = [call EXCEPT ![t] = [call[t] EXCEPT !.at = "poll"]]
  BY <1>2, <1>3 DEF GigaMacWriteAccess
<1>6. GigaMacWriteDone(t) =>
              LET c == call[t]
                  last == Len(c.todo) = 1
              IN  /\ c \in WriteCalls /\ c.at = "poll" /\ ~eri.busy /\ Lock' = "none"
                  /\ call' = [call EXCEPT ![t] = IF last THEN Idle
                                     ELSE [c EXCEPT !.at = "data", !.todo = Tail(c.todo)]]
                  /\ promised' = [r \in Registers |-> IF last /\ r \in DOMAIN c.wanted THEN c.wanted[r]
                                          ELSE promised[r]]
  BY <1>2 DEF GigaMacWriteDone
<1>7. GigaMacWriteTimeout(t) =>
              /\ call[t] \in WriteCalls /\ call[t].at = "poll" /\ eri.busy /\ Lock' = "none"
              /\ call' = [call EXCEPT ![t] = Idle]
  BY <1>2 DEF GigaMacWriteTimeout
<1> QED BY <1>4, <1>5, <1>6, <1>7

(* The first of the writes of a call, and what remains after it.           *)
LEMMA TodoFacts ==
  ASSUME NEW t \in Threads, NEW c \in WriteCalls, TodoOK(t, c)
  PROVE  /\ Head(c.todo) = c.todo[1] /\ c.todo[1] \in WriteRecords
         /\ c.todo[1].register \in Registers /\ c.todo[1].data \in Words
         /\ c.todo[1].register \in DOMAIN c.wanted
         /\ c.wanted[c.todo[1].register] = c.todo[1].data
         /\ InTodo(c, c.todo[1].register)
         /\ Tail(c.todo) \in Seq(WriteRecords)
         /\ Len(c.todo) = 1 =>
              \A r \in DOMAIN c.wanted : InTodo(c, r) => r = c.todo[1].register
         /\ Len(c.todo) # 1 =>
              LET d == [c EXCEPT !.at = "data", !.todo = Tail(@)]
              IN  /\ TodoOK(t, d) /\ d.wanted = c.wanted
                  /\ \A r \in DOMAIN c.wanted : ~InTodo(d, r) => ~InTodo(c, r) \/ r = c.todo[1].register
                  /\ ~InTodo(d, c.todo[1].register)
<1>1. c.todo \in Seq(WriteRecords) /\ Len(c.todo) >= 1 /\ Len(c.todo) \in Nat
  <2>1. c.todo \in Seq(WriteRecords)
    BY KindFacts
  <2>2. Len(c.todo) >= 1
    BY DEF TodoOK
  <2> QED BY <2>1, <2>2
<1>2. Head(c.todo) = c.todo[1] /\ c.todo[1] \in WriteRecords /\ 1 \in 1 .. Len(c.todo)
  BY <1>1
<1>3. c.todo[1].register \in Registers /\ c.todo[1].data \in Words
  BY <1>2 DEF WriteRecords
<1>4. /\ c.todo[1].register \in DOMAIN c.wanted
      /\ c.wanted[c.todo[1].register] = c.todo[1].data
      /\ InTodo(c, c.todo[1].register)
  BY <1>2 DEF TodoOK, InTodo
<1>5. /\ Tail(c.todo) \in Seq(WriteRecords) /\ Len(Tail(c.todo)) = Len(c.todo) - 1
      /\ \A i \in 1 .. Len(c.todo) - 1 : Tail(c.todo)[i] = c.todo[i + 1]
  BY <1>1
<1>6. ASSUME Len(c.todo) = 1
      PROVE  \A r \in DOMAIN c.wanted : InTodo(c, r) => r = c.todo[1].register
  BY <1>6 DEF InTodo
<1>7. ASSUME Len(c.todo) # 1
      PROVE  LET d == [c EXCEPT !.at = "data", !.todo = Tail(@)]
             IN  /\ TodoOK(t, d) /\ d.wanted = c.wanted
                 /\ \A r \in DOMAIN c.wanted : ~InTodo(d, r) => ~InTodo(c, r) \/ r = c.todo[1].register
                 /\ ~InTodo(d, c.todo[1].register)
  <2> DEFINE d == [c EXCEPT !.at = "data", !.todo = Tail(@)]
             n == Len(c.todo)
  <2>1. d.todo = Tail(c.todo) /\ d.wanted = c.wanted
    BY DEF WriteCalls
  <2> HIDE DEF d
  <2>2. /\ n \in Nat /\ n >= 2 /\ Len(d.todo) = n - 1
        /\ \A i \in 1 .. n - 1 : i + 1 \in 1 .. n /\ d.todo[i] = c.todo[i + 1]
    <3>1. n \in Nat /\ n >= 2
      <4>1. n \in Nat /\ n >= 1 /\ n # 1
        BY <1>1, <1>7
      <4> HIDE DEF n
      <4> QED BY <4>1
    <3>2. Len(d.todo) = n - 1
      BY <1>5, <2>1
    <3>3. \A i \in 1 .. n - 1 : d.todo[i] = c.todo[i + 1]
      BY <1>5, <2>1
    <3> HIDE DEF n
    <3> QED BY <3>1, <3>2, <3>3
  <2>3. /\ DOMAIN c.wanted \subseteq Own[t]
        /\ \A i \in 1 .. n : /\ c.todo[i].register \in DOMAIN c.wanted
                             /\ c.todo[i].data = c.wanted[c.todo[i].register]
        /\ \A i, j \in 1 .. n : c.todo[i].register = c.todo[j].register => i = j
    BY DEF TodoOK
  <2> HIDE DEF n
  <2>4. TodoOK(t, d)
    <3>1. \A i \in 1 .. n - 1 : /\ d.todo[i].register \in DOMAIN d.wanted
                                /\ d.todo[i].data = d.wanted[d.todo[i].register]
      BY <2>1, <2>2, <2>3
    <3>2. \A i, j \in 1 .. n - 1 : d.todo[i].register = d.todo[j].register => i = j
      <4> SUFFICES ASSUME NEW i \in 1 .. n - 1, NEW j \in 1 .. n - 1,
                          d.todo[i].register = d.todo[j].register
                   PROVE  i = j
        OBVIOUS
      <4>1. i + 1 = j + 1
        BY <2>2, <2>3
      <4> QED BY <4>1
    <3>3. Len(d.todo) >= 1 /\ DOMAIN d.wanted \subseteq Own[t]
      BY <2>1, <2>2, <2>3
    <3> QED BY <2>2, <3>1, <3>2, <3>3 DEF TodoOK
  <2>5. ASSUME NEW r \in DOMAIN c.wanted, ~InTodo(d, r), InTodo(c, r)
        PROVE  r = c.todo[1].register
    <3>1. PICK i \in 1 .. n : c.todo[i].register = r
      BY <2>5 DEF InTodo, n
    <3>2. i = 1 \/ i - 1 \in 1 .. n - 1
      BY <2>2
    <3>3. i - 1 \in 1 .. n - 1 => d.todo[i - 1] = c.todo[(i - 1) + 1] /\ (i - 1) + 1 = i
      BY <2>2
    <3>4. i - 1 \in 1 .. n - 1 => InTodo(d, r)
      BY <2>2, <3>1, <3>3 DEF InTodo
    <3> QED BY <2>5, <3>1, <3>2, <3>4
  <2>6. ~InTodo(d, c.todo[1].register)
    <3> SUFFICES ASSUME NEW i \in 1 .. n - 1, d.todo[i].register = c.todo[1].register PROVE FALSE
      BY <2>2 DEF InTodo
    <3>1. i + 1 = 1
      BY <2>2, <2>3
    <3> QED BY <3>1
  <2> QED BY <2>1, <2>4, <2>5, <2>6 DEF d
<1> QED BY <1>2, <1>3, <1>4, <1>5, <1>6, <1>7

-----------------------------------------------------------------------------
(* Types.                                                                  *)

LEMMA RssShapeNext == RssShape /\ CallsApart /\ WritesOK /\ [RssNext]_all => RssShape'
<1> SUFFICES ASSUME RssShape, CallsApart, WritesOK, [RssNext]_all PROVE RssShape'
  OBVIOUS
<1>0. /\ call \in [Threads -> Calls] /\ call["queue"] \notin TableCalls /\ calls \in Nat
      /\ "scaling" \in Threads /\ "queue" \in Threads /\ MaxCalls \in Nat
  BY QueuesAssumption DEF RssShape, Calls, Threads
<1>1. CASE StartStep
  <2>1. CASE UNCHANGED rss
    BY <2>1 DEF rss, RssShape
  <2>2. CASE call = [t \in Threads |-> Idle] /\ RssLost
    <3>1. /\ table' = ZeroTable /\ giga' = [r \in Registers |-> Lost] /\ eri' = NoAccess
          /\ synced' = FALSE /\ promised' = [r \in Registers |-> Unknown]
          /\ Lock' = Lock /\ call' = call
      BY <2>2 DEF RssLost
    <3>2. \/ shadow' = ZeroTable /\ steer' = [i \in Indices |-> 0] /\ calls' = 0
          \/ UNCHANGED <<shadow, steer, calls>>
      BY <2>2 DEF RssLost
    <3>3. 0 \in 0 .. MaxCalls
      BY <1>0
    <3> QED BY <3>1, <3>2, <3>3, LostFacts DEF RssShape
  <2> QED BY <1>1, <2>1, <2>2, StartStepFacts
<1>2. CASE \E t \in Threads : \E todo, wanted :
             MayCall(t) /\ BeginWrites(t, todo, wanted) /\ Complete(t, todo, wanted)
  <2>0. PICK t \in Threads : \E todo, wanted :
          MayCall(t) /\ BeginWrites(t, todo, wanted) /\ Complete(t, todo, wanted)
    BY <1>2
  <2>1. PICK todo, wanted :
          MayCall(t) /\ BeginWrites(t, todo, wanted) /\ Complete(t, todo, wanted)
    BY <2>0
  <2>2. /\ call' = [call EXCEPT ![t] = NewCall(todo, wanted)] /\ calls' = calls + 1
        /\ promised' = [r \in Registers |-> IF r \in DOMAIN wanted THEN Unknown ELSE promised[r]]
        /\ UNCHANGED <<shadow, table, giga, eri, Lock, steer, synced>>
    BY <2>1 DEF BeginWrites, Begin, NewCall
  <2>3. NewCall(todo, wanted) \in Calls /\ NewCall(todo, wanted) \notin TableCalls
    BY <2>1, KindFacts DEF Complete, Calls
  <2>4. call' \in [Threads -> Calls] /\ call'["queue"] \notin TableCalls
    BY <1>0, <2>2, <2>3, SetCall
  <2>5. calls' \in 0 .. MaxCalls
    BY <1>0, <2>1, <2>2 DEF MayCall, RssShape
  <2>6. promised' \in [Registers -> Words]
    BY <2>2, WordFacts DEF RssShape
  <2> QED BY <2>2, <2>4, <2>5, <2>6 DEF RssShape, Calls
<1>3. CASE \E update \in Updates : EvtAdapterReceiveScalingSetIndirectionEntries(update)
  <2>1. PICK update \in Updates : EvtAdapterReceiveScalingSetIndirectionEntries(update)
    BY <1>3
  <2> DEFINE c == [at |-> "table", next |-> 0, named |-> DOMAIN update]
  <2>2. /\ call' = [call EXCEPT !["scaling"] = c] /\ calls' = calls + 1
        /\ shadow' = Updated(shadow, update)
        /\ steer' = [i \in Indices |-> IF i \in DOMAIN update THEN update[i] ELSE steer[i]]
        /\ UNCHANGED <<table, giga, eri, Lock, synced, promised>>
    BY <2>1 DEF EvtAdapterReceiveScalingSetIndirectionEntries, Begin
  <2>3. c \in TableCalls
    BY UpdatesAssumption, TableAssumption DEF TableCalls, TableWords
  <2>4. call' \in [Threads -> Calls] /\ call'["queue"] \notin TableCalls
    <3> HIDE DEF c
    <3> QED BY <1>0, <2>2, <2>3, SetCall DEF Calls
  <2>5. calls' \in 0 .. MaxCalls
    BY <1>0, <2>1, <2>2 DEF MayCall, RssShape, EvtAdapterReceiveScalingSetIndirectionEntries
  <2>6. steer' \in [Indices -> QueueIds]
    BY <2>2, UpdatesAssumption DEF RssShape
  <2>7. shadow' \in [TableWords -> SUBSET (0 .. WordWidth - 1)]
    BY <2>2, UpdatedFacts DEF RssShape
  <2> QED BY <2>2, <2>4, <2>5, <2>6, <2>7 DEF RssShape, Calls
<1>4. CASE WriteTableWord
  <2> DEFINE c == call["scaling"]
             last == c.next = 2 * PlaneWords - 1
             d == IF last THEN Idle ELSE [c EXCEPT !.next = @ + 1]
  <2>1. /\ c.at = "table"
        /\ table' = [table EXCEPT ![c.next] = shadow[c.next]]
        /\ call' = [call EXCEPT !["scaling"] = d]
        /\ synced' = (synced \/ last)
        /\ UNCHANGED <<shadow, giga, eri, Lock, calls, steer, promised>>
    BY <1>4 DEF WriteTableWord
  <2>2. c \in TableCalls
    BY <1>0, <2>1, CallFacts DEF Calls
  <2>3. d \in Calls
    <3>1. c.next \in 0 .. 2 * PlaneWords - 1 /\ PlaneWords \in Nat
      BY <2>2, TableAssumption DEF TableCalls, TableWords
    <3>2. ~last => c.next + 1 \in TableWords
      BY <3>1 DEF TableWords
    <3>3. ~last => [c EXCEPT !.next = c.next + 1] \in TableCalls
      BY <2>2, <3>2 DEF TableCalls
    <3>4. [c EXCEPT !.next = c.next + 1] = [c EXCEPT !.next = @ + 1]
      BY <2>2 DEF TableCalls
    <3> QED BY <3>3, <3>4 DEF Calls
  <2> HIDE DEF d
  <2>4. call' \in [Threads -> Calls] /\ call'["queue"] \notin TableCalls
    BY <1>0, <2>1, <2>3, SetCall
  <2>5. table' \in [TableWords -> SUBSET (0 .. WordWidth - 1)]
    BY <2>1, <2>2 DEF RssShape, TableCalls
  <2>6. synced' \in BOOLEAN
    BY <2>1 DEF RssShape
  <2> QED BY <2>1, <2>4, <2>5, <2>6 DEF RssShape, Calls
<1>5. CASE \E t \in Threads : GigaMacWriteData(t)
  <2>1. PICK t \in Threads : GigaMacWriteData(t)
    BY <1>5
  <2>2. /\ call[t] \in WriteCalls /\ Lock' = t
        /\ eri' = [eri EXCEPT !.data = Head(call[t].todo).data]
        /\ call' = [call EXCEPT ![t] = [call[t] EXCEPT !.at = "access"]]
    BY <2>1, WriteSteps
  <2>3. Head(call[t].todo).data \in Words
    BY <2>2, TodoFacts DEF WritesOK, CallOK
  <2>4. call' \in [Threads -> Calls] /\ call'["queue"] \notin TableCalls
    BY <1>0, <2>2, KindFacts, SetCall DEF Calls
  <2>5. eri' \in [data : Words, register : Registers, busy : BOOLEAN]
    BY <2>2, <2>3 DEF RssShape
  <2>6. UNCHANGED <<shadow, table, giga, calls, steer, synced, promised>>
    BY <2>1 DEF GigaMacWriteData
  <2> QED BY <2>2, <2>4, <2>5, <2>6 DEF RssShape, Calls
<1>6. CASE \E t \in Threads : GigaMacWriteAccess(t)
  <2>1. PICK t \in Threads : GigaMacWriteAccess(t)
    BY <1>6
  <2>2. /\ call[t] \in WriteCalls
        /\ eri' = [eri EXCEPT !.register = Head(call[t].todo).register, !.busy = TRUE]
        /\ call' = [call EXCEPT ![t] = [call[t] EXCEPT !.at = "poll"]]
    BY <2>1, WriteSteps
  <2>3. Head(call[t].todo).register \in Registers
    BY <2>2, TodoFacts DEF WritesOK, CallOK
  <2>4. call' \in [Threads -> Calls] /\ call'["queue"] \notin TableCalls
    BY <1>0, <2>2, KindFacts, SetCall DEF Calls
  <2>5. eri' \in [data : Words, register : Registers, busy : BOOLEAN]
    BY <2>2, <2>3 DEF RssShape
  <2>6. UNCHANGED <<shadow, table, giga, Lock, calls, steer, synced, promised>>
    BY <2>1 DEF GigaMacWriteAccess
  <2> QED BY <2>4, <2>5, <2>6 DEF RssShape, Calls
<1>7. CASE \E t \in Threads : GigaMacWriteDone(t)
  <2>1. PICK t \in Threads : GigaMacWriteDone(t)
    BY <1>7
  <2> DEFINE c == call[t]
             last == Len(c.todo) = 1
             d == [c EXCEPT !.at = "data", !.todo = Tail(c.todo)]
             n == IF last THEN Idle ELSE d
  <2>2. /\ c \in WriteCalls /\ Lock' = "none"
        /\ call' = [call EXCEPT ![t] = n]
        /\ promised' = [r \in Registers |-> IF last /\ r \in DOMAIN c.wanted THEN c.wanted[r]
                                            ELSE promised[r]]
    BY <2>1, WriteSteps
  <2>3. n \in Calls /\ n \notin TableCalls
    <3>1. Tail(c.todo) \in Seq(WriteRecords)
      BY <2>2, TodoFacts DEF WritesOK, CallOK
    <3>2. d \in WriteCalls
      BY <2>2, <3>1, KindFacts
    <3> HIDE DEF d
    <3> QED BY <3>2, KindFacts DEF Calls
  <2> HIDE DEF n
  <2>4. call' \in [Threads -> Calls] /\ call'["queue"] \notin TableCalls
    BY <1>0, <2>2, <2>3, SetCall
  <2>5. promised' \in [Registers -> Words]
    <3>1. \A r \in DOMAIN c.wanted : c.wanted[r] \in Words
      BY <2>2, KindFacts, WantedFacts
    <3> QED BY <2>2, <3>1 DEF RssShape
  <2>6. UNCHANGED <<shadow, table, giga, eri, calls, steer, synced>>
    BY <2>1 DEF GigaMacWriteDone
  <2> QED BY <2>2, <2>4, <2>5, <2>6 DEF RssShape, Calls
<1>8. CASE \E t \in Threads : GigaMacWriteTimeout(t)
  <2>1. PICK t \in Threads : GigaMacWriteTimeout(t)
    BY <1>8
  <2>2. Lock' = "none" /\ call' = [call EXCEPT ![t] = Idle]
    BY <2>1, WriteSteps
  <2>3. call' \in [Threads -> Calls] /\ call'["queue"] \notin TableCalls
    BY <1>0, <2>2, KindFacts, SetCall DEF Calls
  <2>4. UNCHANGED <<shadow, table, giga, eri, calls, steer, synced, promised>>
    BY <2>1 DEF GigaMacWriteTimeout
  <2> QED BY <2>2, <2>3, <2>4 DEF RssShape, Calls
<1>9. CASE HwGigaMac
  <2>1. /\ giga' = [giga EXCEPT ![eri.register] = eri.data]
        /\ eri' = [eri EXCEPT !.busy = FALSE]
        /\ UNCHANGED <<shadow, table, Lock, call, calls, steer, synced, promised>>
    BY <1>9 DEF HwGigaMac
  <2>2. giga' \in [Registers -> Words]
    BY <2>1 DEF RssShape
  <2>3. eri' \in [data : Words, register : Registers, busy : BOOLEAN]
    BY <2>1 DEF RssShape
  <2> QED BY <2>1, <2>2, <2>3 DEF RssShape
<1>10. CASE UNCHANGED all
  BY <1>10 DEF all, RssShape
<1> QED
  BY <1>1, <1>2, <1>3, <1>4, <1>5, <1>6, <1>7, <1>8, <1>9, <1>10, RssCases

-----------------------------------------------------------------------------
(* The lock, and the device that is on.                                    *)

LEMMA ApartNext == RssShape /\ CallsApart /\ WritesOK /\ [RssNext]_all => CallsApart'
<1> SUFFICES ASSUME RssShape, CallsApart, WritesOK, [RssNext]_all PROVE CallsApart'
  OBVIOUS
<1>0. /\ call \in [Threads -> Calls] /\ call["queue"] \notin TableCalls
      /\ "scaling" \in Threads /\ "queue" \in Threads
      /\ \A t \in Threads : t # "none"
      /\ Idle.at = "idle" /\ \A t \in Threads : call[t] \in WriteCalls => call[t] # Idle
  <2>1. call \in [Threads -> Calls] /\ call["queue"] \notin TableCalls
    BY DEF RssShape, Calls
  <2>2. /\ "scaling" \in Threads /\ "queue" \in Threads
        /\ \A t \in Threads : t # "none"
    BY DEF Threads
  <2>3. Idle.at = "idle"
    BY DEF Idle
  <2>4. \A t \in Threads : call[t] \in WriteCalls => call[t] # Idle
    BY KindFacts
  <2> QED BY <2>1, <2>2, <2>3, <2>4
<1>1. CASE StartStep
  <2>1. CASE UNCHANGED rss /\ UNCHANGED <<power, adapter>>
    BY <2>1 DEF rss, CallsApart
  <2>2. CASE call = [t \in Threads |-> Idle] /\ RssLost
    <3>1. UNCHANGED <<Lock, call>>
      BY <2>2 DEF RssLost
    <3> QED BY <2>2, <3>1 DEF CallsApart
  <2> QED BY <1>1, <2>1, <2>2, StartStepFacts
<1>2. ASSUME NEW t \in Threads, NEW c \in Calls, t = "queue" => c \notin TableCalls,
             call[t] # Idle \/ power = "on", power' = power,
             call' = [call EXCEPT ![t] = c], Lock' = Lock \/ Lock = t \/ Lock = "none",
             c.at \in {"access", "poll"} <=> Lock' = t,
             Lock' \in {t, "none"} \/ Lock' = Lock
      PROVE  CallsApart'
  <2>1. call'[t] = c /\ \A u \in Threads \ {t} : call'[u] = call[u]
    BY <1>0, <1>2, SetCall
  <2>2. power = "on"
    BY <1>2 DEF CallsApart
  <2>3. \A u \in Threads \ {t} : call'[u].at \in {"access", "poll"} <=> Lock' = u
    BY <1>0, <1>2, <2>1 DEF CallsApart
  <2> QED BY <1>2, <2>1, <2>2, <2>3 DEF CallsApart
<1>3. CASE \E t \in Threads : \E todo, wanted :
             MayCall(t) /\ BeginWrites(t, todo, wanted) /\ Complete(t, todo, wanted)
  <2>0. PICK t \in Threads : \E todo, wanted :
          MayCall(t) /\ BeginWrites(t, todo, wanted) /\ Complete(t, todo, wanted)
    BY <1>3
  <2>1. PICK todo, wanted :
          MayCall(t) /\ BeginWrites(t, todo, wanted) /\ Complete(t, todo, wanted)
    BY <2>0
  <2>2. /\ call' = [call EXCEPT ![t] = NewCall(todo, wanted)] /\ power' = power /\ Lock' = Lock
        /\ power = "on" /\ call[t] = Idle
    BY <2>1 DEF BeginWrites, Begin, NewCall, MayCall, vars
  <2>3. NewCall(todo, wanted) \in WriteCalls /\ NewCall(todo, wanted).at = "data"
    <3>1. todo \in Seq(WriteRecords) /\ wanted \in Wanteds
      BY <2>1 DEF Complete
    <3>2. NewCall(todo, wanted) \in WriteCalls
      BY <3>1, KindFacts
    <3> QED BY <3>2 DEF NewCall
  <2>4. Lock # t
    BY <1>0, <2>2 DEF CallsApart
  <2> QED BY <1>2, <2>2, <2>3, <2>4, KindFacts DEF Calls
<1>4. CASE \E update \in Updates : EvtAdapterReceiveScalingSetIndirectionEntries(update)
  <2>1. PICK update \in Updates : EvtAdapterReceiveScalingSetIndirectionEntries(update)
    BY <1>4
  <2> DEFINE c == [at |-> "table", next |-> 0, named |-> DOMAIN update]
  <2>2. /\ call' = [call EXCEPT !["scaling"] = c] /\ power' = power /\ Lock' = Lock
        /\ power = "on" /\ call["scaling"] = Idle
    BY <2>1 DEF EvtAdapterReceiveScalingSetIndirectionEntries, Begin, MayCall, vars
  <2>3. c \in TableCalls /\ c.at = "table"
    BY UpdatesAssumption, TableAssumption DEF TableCalls, TableWords
  <2> HIDE DEF c
  <2>4. Lock # "scaling"
    BY <1>0, <2>2 DEF CallsApart
  <2> QED BY <1>0, <1>2, <2>2, <2>3, <2>4 DEF Calls
<1>5. CASE WriteTableWord
  <2> DEFINE c == call["scaling"]
             d == IF c.next = 2 * PlaneWords - 1 THEN Idle ELSE [c EXCEPT !.next = @ + 1]
  <2>1. c.at = "table" /\ call' = [call EXCEPT !["scaling"] = d] /\ power' = power /\ Lock' = Lock
    BY <1>5 DEF WriteTableWord, vars
  <2>2. call' \in [Threads -> Calls]
    BY RssShapeNext DEF RssShape, Calls
  <2>3. d = call'["scaling"] /\ c # Idle
    BY <1>0, <2>1
  <2>4. d.at \notin {"access", "poll"}
    <3>1. c \in TableCalls
      BY <1>0, <2>1, CallFacts DEF Calls
    <3> QED BY <1>0, <3>1 DEF TableCalls
  <2> HIDE DEF d
  <2>5. Lock # "scaling"
    BY <1>0, <2>1 DEF CallsApart
  <2> QED BY <1>0, <1>2, <2>1, <2>2, <2>3, <2>4, <2>5
<1>6. CASE \E t \in Threads : GigaMacWriteData(t)
  <2>1. PICK t \in Threads : GigaMacWriteData(t)
    BY <1>6
  <2>2. /\ call[t] \in WriteCalls /\ Lock = "none" /\ Lock' = t
        /\ call' = [call EXCEPT ![t] = [call[t] EXCEPT !.at = "access"]]
    BY <2>1, WriteSteps
  <2>3. LET d == [call[t] EXCEPT !.at = "access"] IN d \in WriteCalls /\ d.at = "access"
    BY <2>2, KindFacts
  <2>4. power' = power
    BY <2>1 DEF GigaMacWriteData, vars
  <2> QED BY <1>0, <1>2, <2>2, <2>3, <2>4, KindFacts DEF Calls
<1>7. CASE \E t \in Threads : GigaMacWriteAccess(t)
  <2>1. PICK t \in Threads : GigaMacWriteAccess(t)
    BY <1>7
  <2>2. /\ call[t] \in WriteCalls /\ call[t].at = "access"
        /\ call' = [call EXCEPT ![t] = [call[t] EXCEPT !.at = "poll"]]
    BY <2>1, WriteSteps
  <2>3. LET d == [call[t] EXCEPT !.at = "poll"] IN d \in WriteCalls /\ d.at = "poll"
    BY <2>2, KindFacts
  <2>4. power' = power /\ Lock' = Lock /\ Lock = t
    BY <2>1, <2>2 DEF GigaMacWriteAccess, vars, CallsApart
  <2> QED BY <1>0, <1>2, <2>2, <2>3, <2>4, KindFacts DEF Calls
<1>8. CASE \E t \in Threads : GigaMacWriteDone(t)
  <2>1. PICK t \in Threads : GigaMacWriteDone(t)
    BY <1>8
  <2> DEFINE c == call[t]
             d == [c EXCEPT !.at = "data", !.todo = Tail(c.todo)]
             n == IF Len(c.todo) = 1 THEN Idle ELSE d
  <2>2. c \in WriteCalls /\ c.at = "poll" /\ Lock' = "none" /\ call' = [call EXCEPT ![t] = n]
    BY <2>1, WriteSteps
  <2>3. n \in Calls /\ n \notin TableCalls /\ n.at \in {"idle", "data"}
    <3>1. Tail(c.todo) \in Seq(WriteRecords)
      BY <2>2, TodoFacts DEF WritesOK, CallOK
    <3>2. d \in WriteCalls
      BY <2>2, <3>1, KindFacts
    <3>3. d.at = "data"
      BY <2>2, <3>1 DEF WriteCalls
    <3> HIDE DEF d
    <3> QED BY <1>0, <3>2, <3>3, KindFacts DEF Calls
  <2> HIDE DEF n
  <2>4. power' = power /\ Lock = t
    BY <2>1, <2>2 DEF GigaMacWriteDone, vars, CallsApart
  <2> QED BY <1>0, <1>2, <2>2, <2>3, <2>4
<1>9. CASE \E t \in Threads : GigaMacWriteTimeout(t)
  <2>1. PICK t \in Threads : GigaMacWriteTimeout(t)
    BY <1>9
  <2>2. /\ call[t] \in WriteCalls /\ call[t].at = "poll" /\ Lock' = "none"
        /\ call' = [call EXCEPT ![t] = Idle]
    BY <2>1, WriteSteps
  <2>3. power' = power /\ Lock = t
    BY <2>1, <2>2 DEF GigaMacWriteTimeout, CallsApart
  <2> QED BY <1>0, <1>2, <2>2, <2>3, KindFacts DEF Calls
<1>10. CASE HwGigaMac \/ UNCHANGED all
  <2>1. UNCHANGED <<Lock, call, power>>
    BY <1>10 DEF HwGigaMac, all, vars
  <2> QED BY <2>1 DEF CallsApart
<1> QED
  BY <1>1, <1>3, <1>4, <1>5, <1>6, <1>7, <1>8, <1>9, <1>10, RssCases

-----------------------------------------------------------------------------
(* The writes.                                                             *)

LEMMA WritesNext == RssShape /\ CallsApart /\ WritesOK /\ [RssNext]_all => WritesOK'
<1> SUFFICES ASSUME RssShape, CallsApart, WritesOK, [RssNext]_all PROVE WritesOK'
  OBVIOUS
<1>0. /\ call \in [Threads -> Calls] /\ call["queue"] \notin TableCalls
      /\ giga \in [Registers -> Words] /\ promised \in [Registers -> Words]
      /\ eri \in [data : Words, register : Registers, busy : BOOLEAN]
  BY DEF RssShape, Calls
<1>a. /\ \A t \in Threads : CallOK(t)
      /\ eri.busy => promised[eri.register] = Unknown
      /\ \A r \in Registers : promised[r] # Unknown => giga[r] = promised[r]
  BY DEF WritesOK
<1>b. ASSUME NEW t \in Threads, NEW u \in Threads, t # u,
             call[t] \in WriteCalls, call[u] \in WriteCalls
      PROVE  DOMAIN call[t].wanted \cap DOMAIN call[u].wanted = {}
  <2>1. DOMAIN call[t].wanted \subseteq Own[t] /\ DOMAIN call[u].wanted \subseteq Own[u]
    BY <1>a, <1>b DEF CallOK, TodoOK
  <2>2. Own[t] \cap Own[u] = {}
    BY <1>b, RegisterFacts DEF Threads
  <2> QED BY <2>1, <2>2
<1>c. \A t \in Threads : call[t] \in WriteCalls =>
        /\ DOMAIN call[t].wanted \subseteq Registers
        /\ call[t].at \in {"access", "poll"} <=> Lock = t
  BY KindFacts, WantedFacts DEF CallsApart
<1>1. CASE StartStep
  <2>1. CASE UNCHANGED rss
    BY <1>a, <2>1 DEF rss, WritesOK, CallOK, WrittenOK, WindowOK
  <2>2. CASE call = [t \in Threads |-> Idle] /\ RssLost
    <3>1. call' = [t \in Threads |-> Idle] /\ eri' = NoAccess /\ promised' = [r \in Registers |-> Unknown]
      BY <2>2 DEF RssLost
    <3>2. \A t \in Threads : CallOK(t)'
      BY <3>1, KindFacts DEF CallOK
    <3> QED BY <3>1, <3>2, LostFacts DEF WritesOK
  <2> QED BY <1>1, <2>1, <2>2, StartStepFacts
<1>2. CASE \E t \in Threads : \E todo, wanted :
             MayCall(t) /\ BeginWrites(t, todo, wanted) /\ Complete(t, todo, wanted)
  <2>0. PICK t \in Threads : \E todo, wanted :
          MayCall(t) /\ BeginWrites(t, todo, wanted) /\ Complete(t, todo, wanted)
    BY <1>2
  <2>1. PICK todo, wanted :
          MayCall(t) /\ BeginWrites(t, todo, wanted) /\ Complete(t, todo, wanted)
    BY <2>0
  <2> DEFINE c == NewCall(todo, wanted)
  <2>2. /\ call' = [call EXCEPT ![t] = c]
        /\ promised' = [r \in Registers |-> IF r \in DOMAIN wanted THEN Unknown ELSE promised[r]]
        /\ UNCHANGED <<giga, eri>>
    BY <2>1 DEF BeginWrites, Begin, NewCall
  <2>3. todo \in Seq(WriteRecords) /\ wanted \in Wanteds /\ TodoOK(t, c)
        /\ \A r \in DOMAIN wanted : InTodo(c, r)
    BY <2>1 DEF Complete
  <2>4. c \in WriteCalls /\ c.at = "data" /\ c.wanted = wanted
    <3>1. c \in WriteCalls
      BY <2>3, KindFacts
    <3> QED BY <3>1 DEF NewCall
  <2>5. DOMAIN wanted \subseteq Registers
    BY <2>3, WantedFacts
  <2> HIDE DEF c
  <2>6. call'[t] = c /\ \A u \in Threads \ {t} : call'[u] = call[u]
    BY <1>0, <2>2, <2>4, KindFacts, SetCall DEF Calls
  <2>7. CallOK(t)'
    <3>1. WrittenOK(c)'
      BY <2>2, <2>3, <2>4, <2>5 DEF WrittenOK
    <3>2. WindowOK(c)'
      BY <2>4 DEF WindowOK
    <3>3. (WrittenOK(call[t]) /\ WindowOK(call[t]))'
      BY <2>6, <3>1, <3>2 DEF WrittenOK, WindowOK
    <3> QED BY <2>3, <2>6, <3>3 DEF CallOK
  <2>8. ASSUME NEW u \in Threads \ {t} PROVE CallOK(u)'
    <3> SUFFICES ASSUME call[u] \in WriteCalls PROVE CallOK(u)'
      BY <2>6 DEF CallOK
    <3>1. TodoOK(u, call[u]) /\ WrittenOK(call[u]) /\ WindowOK(call[u])
      BY <1>a DEF CallOK
    <3>2. DOMAIN call[u].wanted \subseteq Registers
      BY <1>c
    <3>3. (WrittenOK(call[u]) /\ WindowOK(call[u]))'
      BY <2>2, <2>6, <3>1, <3>2 DEF WrittenOK, WindowOK
    <3> QED BY <2>6, <3>1, <3>3 DEF CallOK
  <2>9. (eri.busy => promised[eri.register] = Unknown)'
    BY <1>0, <1>a, <2>2
  <2>10. (\A r \in Registers : promised[r] # Unknown => giga[r] = promised[r])'
    BY <1>a, <2>2
  <2> QED BY <2>7, <2>8, <2>9, <2>10 DEF WritesOK
<1>3. ASSUME NEW t \in Threads, NEW d \in Calls, d \notin WriteCalls, t = "queue" => d \notin TableCalls,
             call' = [call EXCEPT ![t] = d], UNCHANGED <<giga, eri, promised>>
      PROVE  WritesOK'
  <2>1. call'[t] = d /\ \A u \in Threads \ {t} : call'[u] = call[u]
    BY <1>0, <1>3, SetCall
  <2>2. CallOK(t)'
    BY <1>3, <2>1 DEF CallOK
  <2>3. ASSUME NEW u \in Threads \ {t} PROVE CallOK(u)'
    BY <1>3, <1>a, <2>1 DEF CallOK, WrittenOK, WindowOK
  <2> QED BY <1>3, <1>a, <2>2, <2>3 DEF WritesOK
<1>4. CASE \E update \in Updates : EvtAdapterReceiveScalingSetIndirectionEntries(update)
  <2>1. PICK update \in Updates : EvtAdapterReceiveScalingSetIndirectionEntries(update)
    BY <1>4
  <2> DEFINE c == [at |-> "table", next |-> 0, named |-> DOMAIN update]
  <2>2. call' = [call EXCEPT !["scaling"] = c] /\ UNCHANGED <<giga, eri, promised>>
    BY <2>1 DEF EvtAdapterReceiveScalingSetIndirectionEntries, Begin
  <2>3. c \in TableCalls
    BY UpdatesAssumption, TableAssumption DEF TableCalls, TableWords
  <2> HIDE DEF c
  <2>4. "scaling" \in Threads
    BY DEF Threads
  <2> QED BY <1>3, <2>2, <2>3, <2>4, KindFacts DEF Calls
<1>5. CASE WriteTableWord
  <2>1. /\ call["scaling"].at = "table" /\ UNCHANGED <<giga, eri, promised>>
        /\ \A u \in Threads \ {"scaling"} : call'[u] = call[u]
        /\ call'["scaling"].at \in {"idle", "table"}
    <3> DEFINE c == call["scaling"]
               d == IF c.next = 2 * PlaneWords - 1 THEN Idle ELSE [c EXCEPT !.next = @ + 1]
    <3>1. c.at = "table" /\ call' = [call EXCEPT !["scaling"] = d] /\ UNCHANGED <<giga, eri, promised>>
      BY <1>5 DEF WriteTableWord
    <3>2. "scaling" \in Threads
      BY DEF Threads
    <3>3. c \in TableCalls
      BY <1>0, <3>1, <3>2, CallFacts DEF Calls
    <3>4. d.at \in {"idle", "table"}
      BY <3>3 DEF TableCalls, Idle
    <3> HIDE DEF d
    <3> QED BY <1>0, <3>1, <3>2, <3>4
  <2>2. call'["scaling"] \notin WriteCalls
    BY <2>1 DEF WriteCalls
  <2>3. CallOK("scaling")'
    BY <2>2 DEF CallOK
  <2>4. ASSUME NEW u \in Threads \ {"scaling"} PROVE CallOK(u)'
    BY <1>a, <2>1 DEF CallOK, WrittenOK, WindowOK
  <2> QED BY <1>a, <2>1, <2>3, <2>4 DEF WritesOK
<1>6. CASE \E t \in Threads : GigaMacWriteData(t)
  <2>1. PICK t \in Threads : GigaMacWriteData(t)
    BY <1>6
  <2> DEFINE c == call[t]
             d == [c EXCEPT !.at = "access"]
  <2>2. /\ c \in WriteCalls /\ c.at = "data" /\ Lock = "none"
        /\ eri' = [eri EXCEPT !.data = Head(c.todo).data]
        /\ call' = [call EXCEPT ![t] = d]
        /\ UNCHANGED <<giga, promised>>
    BY <2>1, WriteSteps DEF GigaMacWriteData
  <2>3. TodoOK(t, c) /\ WrittenOK(c)
    BY <1>a, <2>2 DEF CallOK
  <2>4. Head(c.todo) = c.todo[1]
    BY <2>2, <2>3, TodoFacts
  <2>5. d \in WriteCalls /\ d.at = "access" /\ d.todo = c.todo /\ d.wanted = c.wanted
    <3>1. d \in WriteCalls
      BY <2>2, KindFacts
    <3> QED BY <2>2, <3>1 DEF WriteCalls
  <2>6. eri'.data = c.todo[1].data /\ eri'.busy = eri.busy /\ eri'.register = eri.register
    BY <1>0, <2>2, <2>4
  <2> HIDE DEF d
  <2>7. call'[t] = d /\ \A u \in Threads \ {t} : call'[u] = call[u]
    <3>1. d \in Calls /\ d \notin TableCalls
      BY <2>5, KindFacts DEF Calls
    <3>2. call' = [call EXCEPT ![t] = d]
      BY <2>2
    <3> QED BY <1>0, <3>1, <3>2, SetCall
  <2>8. CallOK(t)'
    <3>1. TodoOK(t, d)
      BY <2>3, <2>5 DEF TodoOK
    <3>2. (WrittenOK(call[t]))'
      BY <2>2, <2>3, <2>5, <2>6, <2>7 DEF WrittenOK, InTodo
    <3>3. (WindowOK(call[t]))'
      BY <2>5, <2>6, <2>7 DEF WindowOK
    <3> QED BY <2>7, <3>1, <3>2, <3>3 DEF CallOK
  <2>9. ASSUME NEW u \in Threads \ {t} PROVE CallOK(u)'
    <3> SUFFICES ASSUME call[u] \in WriteCalls PROVE CallOK(u)'
      BY <2>7 DEF CallOK
    <3>1. TodoOK(u, call[u]) /\ WrittenOK(call[u])
      BY <1>a DEF CallOK
    <3>2. call[u].at \notin {"access", "poll"}
      BY <1>c, <2>2 DEF Threads
    <3>3. (WrittenOK(call[u]) /\ WindowOK(call[u]))'
      BY <2>2, <2>6, <2>7, <3>1, <3>2 DEF WrittenOK, WindowOK
    <3> QED BY <2>7, <3>1, <3>3 DEF CallOK
  <2> QED BY <1>a, <2>2, <2>6, <2>8, <2>9 DEF WritesOK
<1>7. CASE \E t \in Threads : GigaMacWriteAccess(t)
  <2>1. PICK t \in Threads : GigaMacWriteAccess(t)
    BY <1>7
  <2> DEFINE c == call[t]
             d == [c EXCEPT !.at = "poll"]
  <2>2. /\ c \in WriteCalls /\ c.at = "access"
        /\ eri' = [eri EXCEPT !.register = Head(c.todo).register, !.busy = TRUE]
        /\ call' = [call EXCEPT ![t] = d]
        /\ UNCHANGED <<giga, promised>>
    BY <2>1, WriteSteps DEF GigaMacWriteAccess
  <2>3. TodoOK(t, c) /\ WrittenOK(c) /\ WindowOK(c)
    BY <1>a, <2>2 DEF CallOK
  <2>4. /\ Head(c.todo) = c.todo[1] /\ c.todo[1].register \in DOMAIN c.wanted
        /\ InTodo(c, c.todo[1].register)
    BY <2>2, <2>3, TodoFacts
  <2>5. d \in WriteCalls /\ d.at = "poll" /\ d.todo = c.todo /\ d.wanted = c.wanted
    <3>1. d \in WriteCalls
      BY <2>2, KindFacts
    <3> QED BY <2>2, <3>1 DEF WriteCalls
  <2>6. eri'.data = c.todo[1].data /\ eri'.busy = TRUE /\ eri'.register = c.todo[1].register
    <3>1. eri.data = c.todo[1].data
      BY <2>2, <2>3 DEF WindowOK
    <3> QED BY <1>0, <2>2, <2>4, <3>1
  <2> HIDE DEF d
  <2>7. call'[t] = d /\ \A u \in Threads \ {t} : call'[u] = call[u]
    <3>1. d \in Calls /\ d \notin TableCalls
      BY <2>5, KindFacts DEF Calls
    <3>2. call' = [call EXCEPT ![t] = d]
      BY <2>2
    <3> QED BY <1>0, <3>1, <3>2, SetCall
  <2>8. CallOK(t)'
    <3>1. TodoOK(t, d)
      BY <2>3, <2>5 DEF TodoOK
    <3>2. (WrittenOK(call[t]))'
      <4>1. \A r \in DOMAIN c.wanted : promised[r] = Unknown /\ (~InTodo(c, r) => giga[r] = c.wanted[r])
        BY <2>3 DEF WrittenOK
      <4>2. \A r : InTodo(d, r) <=> InTodo(c, r)
        BY <2>5 DEF InTodo
      <4> QED BY <2>2, <2>4, <2>5, <2>6, <2>7, <4>1, <4>2 DEF WrittenOK
    <3>3. (WindowOK(call[t]))'
      BY <2>5, <2>6, <2>7 DEF WindowOK
    <3> QED BY <2>7, <3>1, <3>2, <3>3 DEF CallOK
  <2>9. ASSUME NEW u \in Threads \ {t} PROVE CallOK(u)'
    <3> SUFFICES ASSUME call[u] \in WriteCalls PROVE CallOK(u)'
      BY <2>7 DEF CallOK
    <3>1. TodoOK(u, call[u]) /\ WrittenOK(call[u])
      BY <1>a DEF CallOK
    <3>2. call[u].at \notin {"access", "poll"}
      BY <1>c, <2>2
    <3>3. c.todo[1].register \notin DOMAIN call[u].wanted
      BY <1>b, <2>2, <2>4
    <3>4. (WrittenOK(call[u]) /\ WindowOK(call[u]))'
      BY <2>2, <2>6, <2>7, <3>1, <3>2, <3>3 DEF WrittenOK, WindowOK
    <3> QED BY <2>7, <3>1, <3>4 DEF CallOK
  <2>10. promised[c.todo[1].register] = Unknown
    BY <2>3, <2>4 DEF WrittenOK
  <2> QED BY <1>a, <2>2, <2>6, <2>8, <2>9, <2>10 DEF WritesOK
<1>8. CASE \E t \in Threads : GigaMacWriteDone(t)
  <2>1. PICK t \in Threads : GigaMacWriteDone(t)
    BY <1>8
  <2> DEFINE c == call[t]
             last == Len(c.todo) = 1
             d == [c EXCEPT !.at = "data", !.todo = Tail(@)]
             n == IF last THEN Idle ELSE d
             head == c.todo[1].register
  <2>2. /\ c \in WriteCalls /\ c.at = "poll" /\ ~eri.busy
        /\ call' = [call EXCEPT ![t] = n]
        /\ promised' = [r \in Registers |-> IF last /\ r \in DOMAIN c.wanted THEN c.wanted[r]
                                            ELSE promised[r]]
        /\ UNCHANGED <<giga, eri>>
    <3>1. d = [c EXCEPT !.at = "data", !.todo = Tail(c.todo)]
      BY <2>1, WriteSteps DEF WriteCalls
    <3> QED BY <2>1, <3>1, WriteSteps DEF GigaMacWriteDone
  <2>3. TodoOK(t, c) /\ WrittenOK(c) /\ WindowOK(c)
    BY <1>a, <2>2 DEF CallOK
  <2>4. /\ head \in DOMAIN c.wanted /\ giga[head] = c.wanted[head]
        /\ Tail(c.todo) \in Seq(WriteRecords)
        /\ last => \A r \in DOMAIN c.wanted : InTodo(c, r) => r = head
        /\ ~last => /\ TodoOK(t, d) /\ d.wanted = c.wanted
                    /\ \A r \in DOMAIN c.wanted : ~InTodo(d, r) => ~InTodo(c, r) \/ r = head
    <3>1. giga[head] = c.todo[1].data
      BY <2>2, <2>3 DEF WindowOK
    <3> QED BY <2>2, <2>3, <3>1, TodoFacts
  <2>5. d \in WriteCalls /\ d.at = "data"
    BY <2>2, <2>4 DEF WriteCalls
  <2>6. n \in Calls /\ n \notin TableCalls
    <3> HIDE DEF d
    <3> QED BY <2>5, KindFacts DEF Calls
  <2> HIDE DEF n
  <2>7. call'[t] = n /\ \A u \in Threads \ {t} : call'[u] = call[u]
    BY <1>0, <2>2, <2>6, SetCall
  <2> HIDE DEF d
  <2>8. CallOK(t)'
    <3>1. CASE last
      <4>1. call'[t] = Idle
        BY <2>7, <3>1 DEF n
      <4> QED BY <4>1, KindFacts DEF CallOK
    <3>2. CASE ~last
      <4>1. call'[t] = d
        BY <2>7, <3>2 DEF n
      <4>2. \A r \in DOMAIN c.wanted : promised[r] = Unknown /\ (~InTodo(c, r) => giga[r] = c.wanted[r])
        BY <2>3 DEF WrittenOK
      <4>3. DOMAIN c.wanted \subseteq Registers
        BY <1>c, <2>2
      <4>4. (WrittenOK(call[t]))'
        BY <2>2, <2>4, <3>2, <4>1, <4>2, <4>3 DEF WrittenOK
      <4>5. (WindowOK(call[t]))'
        BY <2>5, <4>1 DEF WindowOK
      <4> QED BY <2>4, <3>2, <4>1, <4>4, <4>5 DEF CallOK
    <3> QED BY <3>1, <3>2
  <2>9. ASSUME NEW u \in Threads \ {t} PROVE CallOK(u)'
    <3> SUFFICES ASSUME call[u] \in WriteCalls PROVE CallOK(u)'
      BY <2>7 DEF CallOK
    <3>1. TodoOK(u, call[u]) /\ WrittenOK(call[u]) /\ WindowOK(call[u])
      BY <1>a DEF CallOK
    <3>2. DOMAIN call[u].wanted \subseteq Registers /\ DOMAIN call[u].wanted \cap DOMAIN c.wanted = {}
      BY <1>b, <1>c, <2>2
    <3>3. (WrittenOK(call[u]) /\ WindowOK(call[u]))'
      BY <2>2, <2>7, <3>1, <3>2 DEF WrittenOK, WindowOK
    <3> QED BY <2>7, <3>1, <3>3 DEF CallOK
  <2>10. (\A r \in Registers : promised[r] # Unknown => giga[r] = promised[r])'
    <3>1. ASSUME last, NEW r \in DOMAIN c.wanted PROVE giga[r] = c.wanted[r]
      BY <2>3, <2>4, <3>1 DEF WrittenOK
    <3> QED BY <1>a, <2>2, <3>1
  <2> QED BY <2>2, <2>8, <2>9, <2>10 DEF WritesOK
<1>9. CASE \E t \in Threads : GigaMacWriteTimeout(t)
  <2>1. PICK t \in Threads : GigaMacWriteTimeout(t)
    BY <1>9
  <2>2. call' = [call EXCEPT ![t] = Idle] /\ UNCHANGED <<giga, eri, promised>>
    BY <2>1, WriteSteps DEF GigaMacWriteTimeout
  <2> QED BY <1>3, <2>2, KindFacts DEF Calls
<1>10. CASE HwGigaMac
  <2>1. /\ eri.busy /\ giga' = [giga EXCEPT ![eri.register] = eri.data]
        /\ eri' = [eri EXCEPT !.busy = FALSE] /\ UNCHANGED <<call, promised>>
    BY <1>10 DEF HwGigaMac
  <2>2. /\ eri'.busy = FALSE /\ eri'.data = eri.data /\ eri'.register = eri.register
        /\ giga'[eri.register] = eri.data
        /\ \A r \in Registers : r # eri.register => giga'[r] = giga[r]
    BY <1>0, <2>1
  <2>3. ASSUME NEW t \in Threads PROVE CallOK(t)'
    <3> SUFFICES ASSUME call[t] \in WriteCalls PROVE CallOK(t)'
      BY <2>1 DEF CallOK
    <3>1. TodoOK(t, call[t]) /\ WrittenOK(call[t]) /\ WindowOK(call[t])
      BY <1>a DEF CallOK
    <3>2. DOMAIN call[t].wanted \subseteq Registers
      BY <1>c
    <3>3. (WrittenOK(call[t]))'
      BY <2>1, <2>2, <3>1, <3>2 DEF WrittenOK
    <3>4. (WindowOK(call[t]))'
      BY <2>1, <2>2, <3>1 DEF WindowOK
    <3> QED BY <2>1, <3>1, <3>3, <3>4 DEF CallOK
  <2>4. (\A r \in Registers : promised[r] # Unknown => giga[r] = promised[r])'
    BY <1>a, <2>1, <2>2
  <2> QED BY <2>2, <2>3, <2>4 DEF WritesOK
<1>11. CASE UNCHANGED all
  BY <1>11, <1>a DEF all, WritesOK, CallOK, WrittenOK, WindowOK
<1> QED
  BY <1>1, <1>2, <1>4, <1>5, <1>6, <1>7, <1>8, <1>9, <1>10, <1>11, RssCases

-----------------------------------------------------------------------------
(* The table.                                                              *)

LEMMA TableNext == RssShape /\ TableOK /\ [RssNext]_all => TableOK'
<1> SUFFICES ASSUME RssShape, TableOK, [RssNext]_all PROVE TableOK'
  OBVIOUS
<1>0. /\ call \in [Threads -> Calls] /\ call["queue"] \notin TableCalls
      /\ "scaling" \in Threads
      /\ shadow \in [TableWords -> SUBSET (0 .. WordWidth - 1)]
      /\ table \in [TableWords -> SUBSET (0 .. WordWidth - 1)]
      /\ steer \in [Indices -> QueueIds] /\ synced \in BOOLEAN
  BY DEF RssShape, Calls, Threads
<1>a. \A i \in Indices, p \in {0, 1} : PlaneWord(i, p) \in TableWords
  BY PlaneFacts
<1>1. CASE StartStep
  <2>1. CASE UNCHANGED rss
    BY <2>1 DEF rss, TableOK
  <2>2. CASE call = [t \in Threads |-> Idle] /\ RssLost
    <3>1. call'["scaling"] = Idle /\ synced' = FALSE
      BY <1>0, <2>2 DEF RssLost
    <3>2. CASE UNCHANGED <<shadow, steer>>
      <4>1. (\A i \in Indices, p \in {0, 1} :
               BitIn(i) \in shadow[PlaneWord(i, p)] <=> BitOf(steer[i], p) = 1)'
        BY <3>2 DEF TableOK, PlaneWord
      <4> QED BY <3>1, <4>1, KindFacts DEF TableOK
    <3>3. CASE shadow' = ZeroTable /\ steer' = [i \in Indices |-> 0]
      <4>1. \A i \in Indices, p \in {0, 1} : BitIn(i) \notin ZeroTable[PlaneWord(i, p)]
        BY <1>a DEF ZeroTable
      <4>2. \A p \in {0, 1} : BitOf(0, p) # 1
        <5>1. 0 \in QueueIds
          BY DEF QueueIds
        <5>2. BitOf(0, 0) + 2 * BitOf(0, 1) = 0 /\ BitOf(0, 0) \in {0, 1} /\ BitOf(0, 1) \in {0, 1}
          BY <5>1, BitFacts
        <5> QED BY <5>2
      <4> QED BY <3>1, <3>3, <4>1, <4>2, KindFacts DEF TableOK
    <3> QED BY <2>2, <3>2, <3>3 DEF RssLost
  <2> QED BY <1>1, <2>1, <2>2, StartStepFacts
<1>2. ASSUME UNCHANGED <<shadow, table, steer, synced>>,
             \/ call'["scaling"] = call["scaling"]
             \/ call["scaling"] \notin TableCalls /\ call'["scaling"] \notin TableCalls
      PROVE  TableOK'
  BY <1>2 DEF TableOK
<1>3. ASSUME NEW t \in Threads, NEW d \in Calls, d \notin TableCalls, call[t] \notin TableCalls,
             call' = [call EXCEPT ![t] = d], UNCHANGED <<shadow, table, steer, synced>>
      PROVE  TableOK'
  <2>1. call'[t] = d /\ \A u \in Threads \ {t} : call'[u] = call[u]
    BY <1>0, <1>3, SetCall
  <2>2. CASE t = "scaling"
    BY <1>2, <1>3, <2>1, <2>2
  <2>3. CASE t # "scaling"
    BY <1>0, <1>2, <1>3, <2>1, <2>3
  <2> QED BY <2>2, <2>3
<1>4. CASE \E t \in Threads : \E todo, wanted :
             MayCall(t) /\ BeginWrites(t, todo, wanted) /\ Complete(t, todo, wanted)
  <2>0. PICK t \in Threads : \E todo, wanted :
          MayCall(t) /\ BeginWrites(t, todo, wanted) /\ Complete(t, todo, wanted)
    BY <1>4
  <2>1. PICK todo, wanted :
          MayCall(t) /\ BeginWrites(t, todo, wanted) /\ Complete(t, todo, wanted)
    BY <2>0
  <2>2. /\ call' = [call EXCEPT ![t] = NewCall(todo, wanted)] /\ call[t] = Idle
        /\ UNCHANGED <<shadow, table, steer, synced>>
    BY <2>1 DEF BeginWrites, Begin, NewCall, MayCall
  <2>3. NewCall(todo, wanted) \in Calls /\ NewCall(todo, wanted) \notin TableCalls
    BY <2>1, KindFacts DEF Complete, Calls
  <2> QED BY <1>3, <2>2, <2>3, KindFacts
<1>5. CASE \E update \in Updates : EvtAdapterReceiveScalingSetIndirectionEntries(update)
  <2>1. PICK update \in Updates : EvtAdapterReceiveScalingSetIndirectionEntries(update)
    BY <1>5
  <2> DEFINE c == [at |-> "table", next |-> 0, named |-> DOMAIN update]
  <2>2. /\ call' = [call EXCEPT !["scaling"] = c] /\ call["scaling"] = Idle
        /\ shadow' = Updated(shadow, update)
        /\ steer' = [i \in Indices |-> IF i \in DOMAIN update THEN update[i] ELSE steer[i]]
        /\ UNCHANGED <<table, synced>>
    BY <2>1 DEF EvtAdapterReceiveScalingSetIndirectionEntries, Begin, MayCall
  <2>3. c \in TableCalls /\ c.next = 0 /\ c.named = DOMAIN update
    BY UpdatesAssumption, TableAssumption DEF TableCalls, TableWords
  <2> HIDE DEF c
  <2>4. call'["scaling"] = c
    BY <1>0, <2>2
  <2>5. \A i \in Indices, p \in {0, 1} :
              BitIn(i) \in shadow'[PlaneWord(i, p)] <=>
                IF i \in DOMAIN update THEN BitOf(update[i], p) = 1
                                       ELSE BitIn(i) \in shadow[PlaneWord(i, p)]
    BY <1>0, <2>2, UpdatedFacts
  <2>6. (\A i \in Indices, p \in {0, 1} :
           BitIn(i) \in shadow[PlaneWord(i, p)] <=> BitOf(steer[i], p) = 1)'
    <3> SUFFICES ASSUME NEW i \in Indices, NEW p \in {0, 1}
                 PROVE  BitIn(i) \in shadow'[PlaneWord(i, p)] <=> BitOf(steer'[i], p) = 1
      BY DEF PlaneWord
    <3>1. BitIn(i) \in shadow[PlaneWord(i, p)] <=> BitOf(steer[i], p) = 1
      BY DEF TableOK
    <3>2. steer'[i] = IF i \in DOMAIN update THEN update[i] ELSE steer[i]
      BY <2>2
    <3> QED BY <2>5, <3>1, <3>2
  <2>7. \A w \in TableWords : ~(w < 0)
    BY TableAssumption DEF TableWords
  <2>8. ASSUME synced', NEW i \in Indices, NEW p \in {0, 1}, i \notin DOMAIN update
        PROVE  BitIn(i) \in table'[PlaneWord(i, p)] <=> BitIn(i) \in shadow'[PlaneWord(i, p)]
    <3>1. BitIn(i) \in table[PlaneWord(i, p)] <=> BitIn(i) \in shadow[PlaneWord(i, p)]
      BY <2>2, <2>8, KindFacts DEF TableOK
    <3> QED BY <2>2, <2>5, <2>8, <3>1
  <2> QED BY <2>3, <2>4, <2>6, <2>7, <2>8 DEF TableOK, PlaneWord
<1>6. CASE WriteTableWord
  <2> DEFINE c == call["scaling"]
             last == c.next = 2 * PlaneWords - 1
             d == IF last THEN Idle ELSE [c EXCEPT !.next = @ + 1]
  <2>1. /\ c.at = "table"
        /\ table' = [table EXCEPT ![c.next] = shadow[c.next]]
        /\ call' = [call EXCEPT !["scaling"] = d]
        /\ synced' = (synced \/ last)
        /\ UNCHANGED <<shadow, steer>>
    BY <1>6 DEF WriteTableWord
  <2>2. c \in TableCalls
    BY <1>0, <2>1, CallFacts DEF Calls
  <2>3. /\ last => d = Idle
        /\ ~last => d.next = c.next + 1 /\ d.named = c.named
        /\ c.next \in TableWords
    BY <2>2 DEF TableCalls
  <2>4. ~last => d \in TableCalls
    <3>1. c.next \in 0 .. 2 * PlaneWords - 1 /\ PlaneWords \in Nat
      BY <2>2, TableAssumption DEF TableCalls, TableWords
    <3>2. ~last => c.next + 1 \in TableWords
      BY <3>1 DEF TableWords
    <3> QED BY <2>2, <3>2 DEF TableCalls
  <2> HIDE DEF d
  <2>5. call'["scaling"] = d
    BY <1>0, <2>1
  <2>6. \A w \in TableWords : w \in Int
    BY TableAssumption DEF TableWords
  <2>7. \A w \in TableWords : w < c.next => table[w] = shadow[w]
    BY <2>2 DEF TableOK
  <2>8. \A w \in TableWords : w <= c.next => table'[w] = shadow'[w]
    <3> SUFFICES ASSUME NEW w \in TableWords, w <= c.next PROVE table'[w] = shadow[w]
      BY <2>1
    <3>1. w < c.next \/ w = c.next
      BY <2>3, <2>6
    <3> QED BY <1>0, <2>1, <2>3, <2>6, <2>7, <3>1
  <2>9. \A w \in TableWords : w # c.next => table'[w] = table[w]
    BY <1>0, <2>1
  <2>10. (\A i \in Indices, p \in {0, 1} :
            BitIn(i) \in shadow[PlaneWord(i, p)] <=> BitOf(steer[i], p) = 1)'
    BY <2>1 DEF TableOK, PlaneWord
  <2>11. (call["scaling"] \in TableCalls =>
            \A w \in TableWords : w < call["scaling"].next => table[w] = shadow[w])'
    <3>1. CASE last
      BY <2>3, <2>5, <3>1, KindFacts
    <3>2. CASE ~last
      <4>1. \A w \in TableWords : w < c.next + 1 => w <= c.next
        BY <2>3, <2>6
      <4> QED BY <2>3, <2>5, <2>8, <3>2, <4>1
    <3> QED BY <3>1, <3>2
  <2>12. ASSUME synced', NEW i \in Indices, NEW p \in {0, 1},
                call'["scaling"] \in TableCalls => i \notin call'["scaling"].named
         PROVE  BitIn(i) \in table'[PlaneWord(i, p)] <=> BitIn(i) \in shadow'[PlaneWord(i, p)]
    <3> DEFINE w == PlaneWord(i, p)
    <3>0. w \in TableWords
      BY <1>a
    <3> HIDE DEF w
    <3>1. CASE last
      <4>1. w <= c.next
        BY <3>0, <3>1, TableAssumption DEF TableWords
      <4> QED BY <2>8, <3>0, <4>1 DEF w
    <3>2. CASE ~last
      <4>1. synced /\ i \notin c.named
        BY <2>1, <2>3, <2>4, <2>5, <2>12, <3>2
      <4>2. BitIn(i) \in table[w] <=> BitIn(i) \in shadow[w]
        BY <2>2, <4>1 DEF TableOK, w
      <4>3. CASE w = c.next
        BY <2>3, <2>6, <2>8, <4>3 DEF w
      <4>4. CASE w # c.next
        BY <2>1, <2>9, <3>0, <4>2, <4>4 DEF w
      <4> QED BY <4>3, <4>4
    <3> QED BY <3>1, <3>2
  <2> QED BY <2>10, <2>11, <2>12 DEF TableOK, PlaneWord
<1>7. CASE \E t \in Threads : GigaMacWriteData(t)
  <2>1. PICK t \in Threads : GigaMacWriteData(t)
    BY <1>7
  <2>2. /\ call[t] \in WriteCalls /\ call' = [call EXCEPT ![t] = [call[t] EXCEPT !.at = "access"]]
        /\ UNCHANGED <<shadow, table, steer, synced>>
    BY <2>1, WriteSteps DEF GigaMacWriteData
  <2>3. [call[t] EXCEPT !.at = "access"] \in WriteCalls
    BY <2>2, KindFacts
  <2> QED BY <1>3, <2>2, <2>3, KindFacts DEF Calls
<1>8. CASE \E t \in Threads : GigaMacWriteAccess(t)
  <2>1. PICK t \in Threads : GigaMacWriteAccess(t)
    BY <1>8
  <2>2. /\ call[t] \in WriteCalls /\ call' = [call EXCEPT ![t] = [call[t] EXCEPT !.at = "poll"]]
        /\ UNCHANGED <<shadow, table, steer, synced>>
    BY <2>1, WriteSteps DEF GigaMacWriteAccess
  <2>3. [call[t] EXCEPT !.at = "poll"] \in WriteCalls
    BY <2>2, KindFacts
  <2> QED BY <1>3, <2>2, <2>3, KindFacts DEF Calls
<1>9. CASE \E t \in Threads : GigaMacWriteDone(t)
  <2>1. PICK t \in Threads : GigaMacWriteDone(t)
    BY <1>9
  <2> DEFINE c == call[t]
             n == IF Len(c.todo) = 1 THEN Idle ELSE [c EXCEPT !.at = "data", !.todo = Tail(c.todo)]
  <2>2. c \in WriteCalls /\ call' = [call EXCEPT ![t] = n] /\ UNCHANGED <<shadow, table, steer, synced>>
    BY <2>1, WriteSteps DEF GigaMacWriteDone
  <2>3. n.at \in {"idle", "data"}
    BY <2>2 DEF WriteCalls, Idle
  <2> HIDE DEF n
  <2>4. call'[t] = n /\ \A u \in Threads \ {t} : call'[u] = call[u]
    BY <1>0, <2>2
  <2>5. n \notin TableCalls /\ c \notin TableCalls
    BY <2>2, <2>3, KindFacts DEF TableCalls
  <2> QED BY <1>0, <1>2, <2>2, <2>4, <2>5
<1>10. CASE \E t \in Threads : GigaMacWriteTimeout(t)
  <2>1. PICK t \in Threads : GigaMacWriteTimeout(t)
    BY <1>10
  <2>2. /\ call[t] \in WriteCalls /\ call' = [call EXCEPT ![t] = Idle]
        /\ UNCHANGED <<shadow, table, steer, synced>>
    BY <2>1, WriteSteps DEF GigaMacWriteTimeout
  <2> QED BY <1>3, <2>2, KindFacts DEF Calls
<1>11. CASE HwGigaMac \/ UNCHANGED all
  BY <1>11, <1>2 DEF HwGigaMac, all
<1> QED
  BY <1>1, <1>4, <1>5, <1>6, <1>7, <1>8, <1>9, <1>10, <1>11, RssCases

-----------------------------------------------------------------------------
(* What the invariant says of the properties.                              *)

LEMMA RssStarts == RssInit => RssIInv
<1> SUFFICES ASSUME RssInit PROVE RssIInv
  OBVIOUS
<1>1. IInv
  BY StartInit DEF RssInit
<1>2. RssShape
  <2>1. call \in [Threads -> {Idle} \cup TableCalls \cup WriteCalls] /\ call["queue"] = Idle
    BY DEF RssInit, Threads
  <2>2. 0 \in 0 .. MaxCalls
    BY QueuesAssumption
  <2>3. call["queue"] \notin TableCalls
    BY <2>1, KindFacts
  <2>4. Lock \in Threads \cup {"none"} /\ calls \in 0 .. MaxCalls /\ synced \in BOOLEAN
    BY <2>2 DEF RssInit
  <2>5. shadow = ZeroTable /\ table = ZeroTable /\ eri = NoAccess
    BY DEF RssInit
  <2>6. /\ giga = [r \in Registers |-> Lost] /\ promised = [r \in Registers |-> Unknown]
        /\ steer = [i \in Indices |-> 0]
    BY DEF RssInit
  <2> QED BY <2>1, <2>3, <2>4, <2>5, <2>6, LostFacts DEF RssShape
<1>3. CallsApart
  <2>1. \A t \in Threads : call[t].at = "idle" /\ t # "none"
    BY DEF RssInit, Idle, Threads
  <2> QED BY <2>1 DEF RssInit, CallsApart
<1>4. WritesOK
  <2>1. \A t \in Threads : CallOK(t)
    BY KindFacts DEF RssInit, CallOK
  <2> QED BY <2>1, LostFacts DEF RssInit, WritesOK
<1>5. TableOK
  <2>1. call["scaling"] \notin TableCalls /\ ~synced
    BY KindFacts DEF RssInit, Threads
  <2>2. \A i \in Indices, p \in {0, 1} : BitIn(i) \notin ZeroTable[PlaneWord(i, p)]
    BY PlaneFacts DEF ZeroTable
  <2>3. \A p \in {0, 1} : BitOf(0, p) # 1
    <3>1. 0 \in QueueIds
      BY DEF QueueIds
    <3>2. BitOf(0, 0) + 2 * BitOf(0, 1) = 0 /\ BitOf(0, 0) \in {0, 1} /\ BitOf(0, 1) \in {0, 1}
      BY <3>1, BitFacts
    <3> QED BY <3>2
  <2> QED BY <2>1, <2>2, <2>3 DEF RssInit, TableOK
<1> QED BY <1>1, <1>2, <1>3, <1>4, <1>5 DEF RssIInv

LEMMA RssKept == RssIInv /\ [RssNext]_all => RssIInv'
BY RssStart, RssShapeNext, ApartNext, WritesNext, TableNext DEF RssIInv

LEMMA RssSteers == RssIInv => TableSteers
<1> SUFFICES ASSUME RssIInv, synced, NEW i \in Indices,
                    ~(call["scaling"].at = "table" /\ i \in call["scaling"].named)
             PROVE  Steered(i) = steer[i]
  BY DEF TableSteers
<1>1. call["scaling"] \in TableCalls => i \notin call["scaling"].named
  BY DEF TableCalls
<1>2. \A p \in {0, 1} : BitIn(i) \in table[PlaneWord(i, p)] <=> BitOf(steer[i], p) = 1
  BY <1>1 DEF RssIInv, TableOK
<1>3. steer[i] \in QueueIds
  BY DEF RssIInv, RssShape
<1>4. /\ BitOf(steer[i], 0) + 2 * BitOf(steer[i], 1) = steer[i]
      /\ BitOf(steer[i], 0) \in {0, 1} /\ BitOf(steer[i], 1) \in {0, 1}
  BY <1>3, BitFacts
<1> DEFINE b(p) == IF BitIn(i) \in table[PlaneWord(i, p)] THEN 1 ELSE 0
<1>5. b(0) = BitOf(steer[i], 0) /\ b(1) = BitOf(steer[i], 1)
  BY <1>2, <1>4
<1>6. Steered(i) = b(0) + 2 * b(1)
  BY DEF Steered, PlaneWord
<1> HIDE DEF b
<1> QED BY <1>4, <1>5, <1>6

(* No step of the device, of a call or of the framework leaves the         *)
(* invariant, in whatever order the two threads and the device take them.  *)
THEOREM RssInvariance == RssSpec => []RssIInv
BY RssStarts, RssKept, PTL DEF RssSpec

(* A call that reported success has its words in the registers until the   *)
(* device may lose them, with any other call on the window and any write   *)
(* that timed out before (gigamac.cpp:36-66).                              *)
THEOREM ReportedSafe == RssSpec => []ReportedWritten
<1>1. RssIInv => ReportedWritten
  BY DEF RssIInv, WritesOK, ReportedWritten
<1> QED BY <1>1, RssInvariance, PTL

(* The table of the device steers as the framework told, for a table of    *)
(* any number of words of any width (adapter.cpp:425-472).                 *)
THEOREM SteerSafe == RssSpec => []TableSteers
BY RssSteers, RssInvariance, PTL

(* Sleeping and waking with receive scaling in between leave the magic     *)
(* packet detection as the framework armed it (power.cpp:21-43).           *)
THEOREM WakeSafe == RssSpec => []WakeArmed
<1>1. RssIInv => WakeArmed
  BY StartWake DEF RssIInv
<1> QED BY <1>1, RssInvariance, PTL

(* The PHY of a running device is programmed from the registry, for every  *)
(* value of its keywords (link.cpp:59-150).                                *)
THEOREM PhySafe == RssSpec => []PhyProgrammed
<1>1. RssIInv => PhyProgrammed
  BY StartPhy DEF RssIInv
<1> QED BY <1>1, RssInvariance, PTL

(* If the EEPROM is read right, bit by bit, the device listens to the      *)
(* address announced, for every board, registry and request               *)
(* (adapter.cpp:474-594).                                                  *)
THEOREM AddressSafe == ASSUME EepromRight PROVE RssSpec => []StationAddress
<1>1. RssIInv => StationAddress
  BY EepromRight, StartAddress DEF RssIInv
<1> QED BY <1>1, RssInvariance, PTL

(* The types, and with them that the thread inside the window is the one   *)
(* that holds adapter->Lock and that no call is under way on a device that *)
(* is not on.                                                              *)
THEOREM RssTypeCorrect == ASSUME EepromRight PROVE RssSpec => []TypeOK
<1>1. RssIInv => TypeOK
  <2> SUFFICES ASSUME RssIInv PROVE TypeOK
    OBVIOUS
  <2>1. StartTypeOK
    BY EepromRight, StartTypes DEF RssIInv
  <2>2. DOMAIN call = Threads
    BY DEF RssIInv, RssShape
  <2> QED BY <2>1, <2>2 DEF RssIInv, RssShape, CallsApart, TypeOK
<1> QED BY <1>1, RssInvariance, PTL
=============================================================================
