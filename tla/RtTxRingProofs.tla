--------------------------- MODULE RtTxRingProofs ---------------------------
(***************************************************************************)
(* Proofs about RtTxRing, for rings of any two sizes and packets of any    *)
(* number of fragments that fit, with a device that hands the descriptors  *)
(* of a packet back together: the invariant RingsAgree, that every step keeps    *)
(* it, what follows from it, and that every step is one of RtTxService.    *)
(***************************************************************************)
EXTENDS RtTxRing, SequenceTheorems, TLAPS

-----------------------------------------------------------------------------
(* The arithmetic of the rings.                                            *)

LEMMA ModFacts ==
  ASSUME NEW d \in Nat \ {0}, NEW x \in Int
  PROVE  /\ x \in 0 .. d - 1 => x % d = x
         /\ x >= d /\ x < 2 * d => x % d = x - d
         /\ x < 0 /\ x >= 0 - d => x % d = x + d
OBVIOUS

LEMMA Ring == /\ NumPackets \in Nat /\ NumPackets > 1
              /\ NumFragments \in Nat /\ NumFragments > 1
              /\ \A j : j \in Frags <=> j \in Int /\ 0 <= j /\ j < NumFragments
              /\ \A s : s \in Slots <=> s \in Int /\ 0 <= s /\ s < NumPackets
              /\ MaxFragments \in Nat /\ 0 < MaxFragments /\ MaxFragments < NumFragments
BY RingAssumption DEF Frags, Slots

LEMMA Closed ==
  /\ \A b, e \in Frags : Count(b, e) = IF e >= b THEN e - b ELSE e - b + NumFragments
  /\ \A b \in Frags, n \in Nat : n <= NumFragments =>
       FAdd(b, n) = IF b + n < NumFragments THEN b + n ELSE b + n - NumFragments
  /\ \A s, t \in Slots : (t - s) % NumPackets = IF t >= s THEN t - s ELSE t - s + NumPackets
  /\ \A s \in Slots, n \in Nat : n <= NumPackets =>
       PAdd(s, n) = IF s + n < NumPackets THEN s + n ELSE s + n - NumPackets
<1>1. NumFragments \in Nat \ {0} /\ NumPackets \in Nat \ {0}
  BY Ring
<1>2. ASSUME NEW b \in Frags, NEW e \in Frags
      PROVE  Count(b, e) = IF e >= b THEN e - b ELSE e - b + NumFragments
  <2>1. /\ e - b \in 0 .. NumFragments - 1 => (e - b) % NumFragments = e - b
        /\ e - b < 0 /\ e - b >= 0 - NumFragments => (e - b) % NumFragments = e - b + NumFragments
    BY <1>1, <1>2, Ring, ModFacts
  <2> QED BY <1>1, <1>2, <2>1, Ring DEF Count
<1>3. ASSUME NEW b \in Frags, NEW n \in Nat, n <= NumFragments
      PROVE  FAdd(b, n) = IF b + n < NumFragments THEN b + n ELSE b + n - NumFragments
  <2>0. \A x \in Int : /\ x \in 0 .. NumFragments - 1 => x % NumFragments = x
                       /\ x >= NumFragments /\ x < 2 * NumFragments => x % NumFragments = x - NumFragments
    BY <1>1, ModFacts
  <2>4. b \in Int /\ n \in Int /\ NumFragments \in Int
    BY Ring
  <2> DEFINE x == b + n
  <2>1. FAdd(b, n) = x % NumFragments
    BY DEF FAdd
  <2>2. x \in Int /\ x >= 0 /\ x < 2 * NumFragments
    BY <1>3, Ring
  <2> HIDE DEF x
  <2>3. FAdd(b, n) = IF x < NumFragments THEN x ELSE x - NumFragments
    BY <2>0, <2>1, <2>2, Ring
  <2> QED BY <2>3, <2>4 DEF x
<1>4. ASSUME NEW s \in Slots, NEW t \in Slots
      PROVE  (t - s) % NumPackets = IF t >= s THEN t - s ELSE t - s + NumPackets
  <2>0. \A x \in Int : /\ x \in 0 .. NumPackets - 1 => x % NumPackets = x
                       /\ x < 0 /\ x >= 0 - NumPackets => x % NumPackets = x + NumPackets
    BY <1>1, ModFacts
  <2> DEFINE x == t - s
  <2>1. x \in Int /\ x < NumPackets /\ x >= 0 - NumPackets /\ (t >= s <=> x >= 0)
    BY Ring
  <2> HIDE DEF x
  <2>2. x % NumPackets = IF x >= 0 THEN x ELSE x + NumPackets
    BY <2>0, <2>1, Ring
  <2>3. x % NumPackets = IF t >= s THEN x ELSE x + NumPackets
    BY <2>1, <2>2
  <2> QED BY <2>3 DEF x
<1>5. ASSUME NEW s \in Slots, NEW n \in Nat, n <= NumPackets
      PROVE  PAdd(s, n) = IF s + n < NumPackets THEN s + n ELSE s + n - NumPackets
  <2>0. \A x \in Int : /\ x \in 0 .. NumPackets - 1 => x % NumPackets = x
                       /\ x >= NumPackets /\ x < 2 * NumPackets => x % NumPackets = x - NumPackets
    BY <1>1, ModFacts
  <2>4. s \in Int /\ n \in Int /\ NumPackets \in Int
    BY Ring
  <2> DEFINE x == s + n
  <2>1. PAdd(s, n) = x % NumPackets
    BY DEF PAdd
  <2>2. x \in Int /\ x >= 0 /\ x < 2 * NumPackets
    BY <1>5, Ring
  <2> HIDE DEF x
  <2>3. PAdd(s, n) = IF x < NumPackets THEN x ELSE x - NumPackets
    BY <2>0, <2>1, <2>2, Ring
  <2> QED BY <2>3, <2>4 DEF x
<1> QED BY <1>2, <1>3, <1>4, <1>5

(* The fragments, counted from one of them.                                *)
LEMMA CountFacts ==
  /\ \A b, e \in Frags : Count(b, e) \in Nat /\ Count(b, e) < NumFragments
                         /\ FAdd(b, Count(b, e)) = e
  /\ \A b \in Frags : Count(b, b) = 0
  /\ \A b, e, f \in Frags : Count(b, e) = Count(b, f) => e = f
  /\ \A b, e, f \in Frags :
       Count(f, e) = IF Count(b, f) <= Count(b, e) THEN Count(b, e) - Count(b, f)
                     ELSE Count(b, e) - Count(b, f) + NumFragments
<1>1. ASSUME NEW b \in Frags, NEW e \in Frags
      PROVE  Count(b, e) \in Nat /\ Count(b, e) < NumFragments /\ FAdd(b, Count(b, e)) = e
  <2>1. Count(b, e) = IF e >= b THEN e - b ELSE e - b + NumFragments
    BY Closed
  <2>2. Count(b, e) \in Nat /\ Count(b, e) < NumFragments
    BY <2>1, Ring
  <2>3. FAdd(b, Count(b, e)) = IF b + Count(b, e) < NumFragments THEN b + Count(b, e)
                               ELSE b + Count(b, e) - NumFragments
    BY <2>2, Closed, Ring
  <2> QED BY <2>1, <2>2, <2>3, Ring
<1>2. ASSUME NEW b \in Frags, NEW e \in Frags, NEW f \in Frags
      PROVE  /\ Count(b, b) = 0 /\ (Count(b, e) = Count(b, f) => e = f)
             /\ Count(f, e) = IF Count(b, f) <= Count(b, e) THEN Count(b, e) - Count(b, f)
                     ELSE Count(b, e) - Count(b, f) + NumFragments
  <2>1. /\ Count(b, e) = IF e >= b THEN e - b ELSE e - b + NumFragments
        /\ Count(b, f) = IF f >= b THEN f - b ELSE f - b + NumFragments
        /\ Count(f, e) = IF e >= f THEN e - f ELSE e - f + NumFragments
        /\ Count(b, b) = IF b >= b THEN b - b ELSE b - b + NumFragments
    BY Closed
  <2> QED BY <2>1, Ring
<1> QED BY <1>1, <1>2

LEMMA AddFacts ==
  /\ \A b \in Frags, n \in Nat : n < NumFragments => FAdd(b, n) \in Frags /\ Count(b, FAdd(b, n)) = n
  /\ \A b \in Frags : FAdd(b, 0) = b /\ FAdd(b, 1) \in Frags
                      /\ FAdd(b, 1) = IF b = NumFragments - 1 THEN 0 ELSE b + 1
  /\ \A b \in Frags, m, n \in Nat : m + n < NumFragments => FAdd(FAdd(b, m), n) = FAdd(b, m + n)
  /\ \A b \in Frags, m \in Nat : m < NumFragments => FAdd(FAdd(b, m), 1) = FAdd(b, m + 1)
<1>1. ASSUME NEW b \in Frags, NEW n \in Nat, n < NumFragments
      PROVE  FAdd(b, n) \in Frags /\ Count(b, FAdd(b, n)) = n
  <2>1. FAdd(b, n) = IF b + n < NumFragments THEN b + n ELSE b + n - NumFragments
    BY <1>1, Closed, Ring
  <2>2. FAdd(b, n) \in Frags
    BY <1>1, <2>1, Ring
  <2>3. Count(b, FAdd(b, n)) = IF FAdd(b, n) >= b THEN FAdd(b, n) - b ELSE FAdd(b, n) - b + NumFragments
    BY <2>2, Closed
  <2> QED BY <1>1, <2>1, <2>2, <2>3, Ring
<1>2. ASSUME NEW b \in Frags
      PROVE  FAdd(b, 0) = b /\ FAdd(b, 1) \in Frags
             /\ FAdd(b, 1) = IF b = NumFragments - 1 THEN 0 ELSE b + 1
  <2>1. /\ FAdd(b, 0) = IF b + 0 < NumFragments THEN b + 0 ELSE b + 0 - NumFragments
        /\ FAdd(b, 1) = IF b + 1 < NumFragments THEN b + 1 ELSE b + 1 - NumFragments
    BY Closed, Ring
  <2> QED BY <2>1, Ring
<1>3. ASSUME NEW b \in Frags, NEW m \in Nat, NEW n \in Nat, m < NumFragments,
             m + n <= NumFragments
      PROVE  FAdd(FAdd(b, m), n) = FAdd(b, m + n)
  <2>1. /\ FAdd(b, m) = IF b + m < NumFragments THEN b + m ELSE b + m - NumFragments
        /\ FAdd(b, m + n) = IF b + (m + n) < NumFragments THEN b + (m + n) ELSE b + (m + n) - NumFragments
    BY <1>3, Closed, Ring
  <2>2. FAdd(b, m) \in Frags
    BY <1>1, <1>3
  <2>3. FAdd(FAdd(b, m), n) = IF FAdd(b, m) + n < NumFragments THEN FAdd(b, m) + n
                              ELSE FAdd(b, m) + n - NumFragments
    BY <1>3, <2>2, Closed, Ring
  <2> QED BY <1>3, <2>1, <2>2, <2>3, Ring
<1>4. ASSUME NEW b \in Frags, NEW m \in Nat, NEW n \in Nat, m + n < NumFragments
      PROVE  FAdd(FAdd(b, m), n) = FAdd(b, m + n)
  BY <1>3, <1>4, Ring
<1>5. ASSUME NEW b \in Frags, NEW m \in Nat, m < NumFragments
      PROVE  FAdd(FAdd(b, m), 1) = FAdd(b, m + 1)
  BY <1>3, <1>5, Ring
<1> QED BY <1>1, <1>2, <1>4, <1>5

(* The packets, counted from one of them.                                  *)
LEMMA PacketFacts ==
  ASSUME NEW s \in Slots
  PROVE  /\ \A n \in Nat : n < NumPackets => PAdd(s, n) \in Slots /\ (PAdd(s, n) - s) % NumPackets = n
         /\ \A n \in Nat : n + 1 < NumPackets => PAdd(PAdd(s, n), 1) = PAdd(s, n + 1)
         /\ PAdd(s, 0) = s /\ PAdd(s, 1) \in Slots
         /\ \A t \in Slots : /\ (t - s) % NumPackets \in Nat /\ (t - s) % NumPackets < NumPackets
                             /\ PAdd(s, (t - s) % NumPackets) = t
<1>1. ASSUME NEW n \in Nat, n < NumPackets
      PROVE  PAdd(s, n) \in Slots /\ (PAdd(s, n) - s) % NumPackets = n
  <2>1. PAdd(s, n) = IF s + n < NumPackets THEN s + n ELSE s + n - NumPackets
    BY <1>1, Closed, Ring
  <2>2. PAdd(s, n) \in Slots
    BY <1>1, <2>1, Ring
  <2>3. (PAdd(s, n) - s) % NumPackets = IF PAdd(s, n) >= s THEN PAdd(s, n) - s ELSE PAdd(s, n) - s + NumPackets
    BY <2>2, Closed
  <2> QED BY <1>1, <2>1, <2>2, <2>3, Ring
<1>2. ASSUME NEW n \in Nat, n + 1 < NumPackets
      PROVE  PAdd(PAdd(s, n), 1) = PAdd(s, n + 1)
  <2>1. /\ PAdd(s, n) = IF s + n < NumPackets THEN s + n ELSE s + n - NumPackets
        /\ PAdd(s, n + 1) = IF s + (n + 1) < NumPackets THEN s + (n + 1) ELSE s + (n + 1) - NumPackets
    BY <1>2, Closed, Ring
  <2>2. PAdd(s, n) \in Slots
    BY <1>1, <1>2, Ring
  <2>3. PAdd(PAdd(s, n), 1) = IF PAdd(s, n) + 1 < NumPackets THEN PAdd(s, n) + 1
                              ELSE PAdd(s, n) + 1 - NumPackets
    BY <2>2, Closed, Ring
  <2> QED BY <1>2, <2>1, <2>2, <2>3, Ring
<1>3. PAdd(s, 0) = s /\ PAdd(s, 1) \in Slots
  <2>1. PAdd(s, 0) = IF s + 0 < NumPackets THEN s + 0 ELSE s + 0 - NumPackets
    BY Closed, Ring
  <2> QED BY <1>1, <2>1, Ring
<1>4. ASSUME NEW t \in Slots
      PROVE  /\ (t - s) % NumPackets \in Nat /\ (t - s) % NumPackets < NumPackets
             /\ PAdd(s, (t - s) % NumPackets) = t
  <2> DEFINE n == (t - s) % NumPackets
  <2>1. n = IF t >= s THEN t - s ELSE t - s + NumPackets
    BY Closed
  <2> HIDE DEF n
  <2>2. n \in Nat /\ n < NumPackets
    BY <2>1, Ring
  <2>3. PAdd(s, n) = IF s + n < NumPackets THEN s + n ELSE s + n - NumPackets
    BY <2>2, Closed, Ring
  <2> QED BY <2>1, <2>2, <2>3, Ring DEF n
<1> QED BY <1>1, <1>2, <1>3, <1>4

-----------------------------------------------------------------------------
(* What the invariant says of indices and offsets.                         *)

LEMMA TypeFacts ==
  ASSUME TypeOK
  PROVE  /\ pBegin \in Slots /\ pNext \in Slots /\ pEnd \in Slots /\ pi \in Slots
         /\ fBegin \in Frags /\ fNext \in Frags /\ fEnd \in Frags
         /\ txDescIndex \in Frags /\ hwIndex \in Frags
         /\ Len(frame) \in Nat
         /\ \A s \in Slots :
              /\ packet[s].FragmentIndex \in Frags /\ packet[s].Ignore \in BOOLEAN
              /\ packet[s].FragmentCount \in Nat /\ packet[s].FragmentCount <= MaxFragments
              /\ tcb[s].FirstTxDescIdx \in Frags /\ tcb[s].NumTxDesc \in Nat
         /\ \A j \in Frags : /\ desc[j].own \in BOOLEAN /\ desc[j].frag \in Frags
                             /\ desc[j].fs \in BOOLEAN /\ desc[j].ls \in BOOLEAN /\ desc[j].eor \in BOOLEAN
         /\ Oldest \in Slots /\ Posting \in Slots
         /\ \A s \in Slots : Pos(s) \in Nat /\ Pos(s) < NumPackets
         /\ \A s \in Slots : /\ Offset(s) \in Nat /\ Offset(s) < NumFragments
                             /\ EndOffset(s) \in Nat /\ EndOffset(s) = Offset(s) + packet[s].FragmentCount
                             /\ FAdd(fBegin, Offset(s)) = packet[s].FragmentIndex
         /\ Count(fBegin, fNext) \in Nat /\ Count(fBegin, fNext) < NumFragments
         /\ Count(fBegin, fEnd) \in Nat /\ Count(fBegin, fEnd) < NumFragments
<1>1. /\ pBegin \in Slots /\ pNext \in Slots /\ pEnd \in Slots /\ pi \in Slots
      /\ fBegin \in Frags /\ fNext \in Frags /\ fEnd \in Frags
      /\ txDescIndex \in Frags /\ hwIndex \in Frags
  BY DEF TypeOK
<1>2. Len(frame) \in Nat
  BY DEF TypeOK
<1>3. \A s \in Slots :
        /\ packet[s].FragmentIndex \in Frags /\ packet[s].Ignore \in BOOLEAN
        /\ packet[s].FragmentCount \in Nat /\ packet[s].FragmentCount <= MaxFragments
        /\ tcb[s].FirstTxDescIdx \in Frags /\ tcb[s].NumTxDesc \in Nat
  <2>1. \A s \in Slots :
          /\ packet[s].FragmentIndex \in Frags /\ packet[s].Ignore \in BOOLEAN
          /\ packet[s].FragmentCount \in 0 .. MaxFragments
          /\ tcb[s].FirstTxDescIdx \in Frags /\ tcb[s].NumTxDesc \in 0 .. MaxFragments
    BY DEF TypeOK
  <2> QED BY <2>1, Ring
<1>4. \A j \in Frags : /\ desc[j].own \in BOOLEAN /\ desc[j].frag \in Frags
                       /\ desc[j].fs \in BOOLEAN /\ desc[j].ls \in BOOLEAN /\ desc[j].eor \in BOOLEAN
  BY DEF TypeOK
<1>5. Oldest \in Slots /\ Posting \in Slots
  BY <1>1 DEF Oldest, Posting
<1>6. \A s \in Slots : Pos(s) \in Nat /\ Pos(s) < NumPackets
  BY <1>1, PacketFacts DEF Pos
<1>7. \A s \in Slots : Offset(s) \in Nat /\ Offset(s) < NumFragments
                       /\ FAdd(fBegin, Offset(s)) = packet[s].FragmentIndex
  BY <1>1, <1>3, CountFacts DEF Offset
<1>8. \A s \in Slots : EndOffset(s) \in Nat /\ EndOffset(s) = Offset(s) + packet[s].FragmentCount
  BY <1>3, <1>7 DEF EndOffset
<1>9. /\ Count(fBegin, fNext) \in Nat /\ Count(fBegin, fNext) < NumFragments
      /\ Count(fBegin, fEnd) \in Nat /\ Count(fBegin, fEnd) < NumFragments
  BY <1>1, CountFacts
<1> QED BY <1>1, <1>2, <1>3, <1>4, <1>5, <1>6, <1>7, <1>8, <1>9

LEMMA PosFacts ==
  ASSUME TypeOK
  PROVE  /\ Pos(pBegin) = 0
         /\ \A s, t \in Slots : Pos(s) = Pos(t) => s = t
         /\ \A s \in Slots : Pos(s) + 1 < NumPackets => PAdd(s, 1) \in Slots /\ Pos(PAdd(s, 1)) = Pos(s) + 1
         /\ \A s \in Slots : s = PAdd(pBegin, Pos(s))
         /\ \A k \in Nat : k < NumPackets => PAdd(pBegin, k) \in Slots /\ Pos(PAdd(pBegin, k)) = k
<1>1. pBegin \in Slots
  BY TypeFacts
<1>2. \A s \in Slots : s = PAdd(pBegin, Pos(s)) /\ Pos(s) \in Nat /\ Pos(s) < NumPackets
  BY <1>1, PacketFacts DEF Pos
<1>3. \A k \in Nat : k < NumPackets => PAdd(pBegin, k) \in Slots /\ Pos(PAdd(pBegin, k)) = k
  BY <1>1, PacketFacts DEF Pos
<1>4. Pos(pBegin) = 0
  <2>1. PAdd(pBegin, 0) = pBegin
    BY <1>1, PacketFacts
  <2> QED BY <1>3, <2>1, Ring
<1>5. ASSUME NEW s \in Slots, Pos(s) + 1 < NumPackets
      PROVE  PAdd(s, 1) \in Slots /\ Pos(PAdd(s, 1)) = Pos(s) + 1
  <2>1. PAdd(PAdd(pBegin, Pos(s)), 1) = PAdd(pBegin, Pos(s) + 1)
    BY <1>1, <1>2, <1>5, PacketFacts
  <2>2. PAdd(s, 1) = PAdd(pBegin, Pos(s) + 1)
    BY <1>2, <2>1
  <2> QED BY <1>2, <1>3, <1>5, <2>2
<1> QED BY <1>2, <1>3, <1>4, <1>5

LEMMA BetweenFacts ==
  ASSUME TypeOK, NEW e \in Slots
  PROVE  \A s : s \in SlotsBetween(pBegin, e) <=> s \in Slots /\ Pos(s) < Pos(e)
<1>1. \A s : s \in SlotsBetween(pBegin, e) <=> \E k \in 0 .. Pos(e) - 1 : s = PAdd(pBegin, k)
  BY DEF SlotsBetween, Pos
<1>2. Pos(e) \in Nat /\ Pos(e) < NumPackets
  BY TypeFacts
<1>3. ASSUME NEW s \in Slots, Pos(s) < Pos(e) PROVE s \in SlotsBetween(pBegin, e)
  <2>0. Pos(s) \in Nat
    BY <1>3, TypeFacts
  <2>1. Pos(s) \in 0 .. Pos(e) - 1
    BY <1>2, <1>3, <2>0
  <2>2. s = PAdd(pBegin, Pos(s))
    BY PosFacts
  <2> QED BY <1>1, <2>1, <2>2
<1>4. ASSUME NEW s, s \in SlotsBetween(pBegin, e) PROVE s \in Slots /\ Pos(s) < Pos(e)
  <2>1. PICK k \in 0 .. Pos(e) - 1 : s = PAdd(pBegin, k)
    BY <1>1, <1>4
  <2>2. k \in Nat /\ k < NumPackets /\ k < Pos(e)
    BY <1>2, <2>1, Ring
  <2>3. s \in Slots /\ Pos(s) = k
    BY <2>1, <2>2, PosFacts
  <2> QED BY <2>2, <2>3
<1> QED BY <1>3, <1>4

(* The next packets to complete and to post.                               *)
LEMMA PlaceFacts ==
  ASSUME TypeOK, Places
  PROVE  /\ Pos(Oldest) <= Pos(Posting) /\ Pos(Posting) <= Pos(pEnd)
         /\ \A s \in Live : s \in Slots /\ Pos(Oldest) <= Pos(s) /\ Pos(s) < Pos(pEnd)
                            /\ PAdd(s, 1) \in Slots /\ Pos(PAdd(s, 1)) = Pos(s) + 1
         /\ \A s \in Slots : Pos(Oldest) <= Pos(s) /\ Pos(s) < Pos(pEnd) => s \in Live
         /\ Oldest # pEnd => Oldest \in Live
         /\ Posting # pEnd => Posting \in Live
<1>1. /\ pBegin \in Slots /\ pNext \in Slots /\ pEnd \in Slots /\ pi \in Slots
      /\ Oldest \in Slots /\ Posting \in Slots
      /\ \A s \in Slots : Pos(s) \in Nat /\ Pos(s) < NumPackets
  BY TypeFacts
<1>2. Pos(Oldest) <= Pos(Posting) /\ Pos(Posting) <= Pos(pEnd)
  <2>1. Pos(pBegin) = 0
    BY PosFacts
  <2>2. CASE pc = "complete"
    BY <1>1, <2>2 DEF Places, Oldest, Posting
  <2>3. CASE pc \in {"post", "fields", "status"}
    BY <1>1, <2>1, <2>3 DEF Places, Oldest, Posting
  <2>4. CASE pc \notin {"complete", "post", "fields", "status"}
    BY <1>1, <2>1, <2>4 DEF Places, Oldest, Posting
  <2> QED BY <2>2, <2>3, <2>4
<1>3. \A s : s \in Live <=> s \in Slots /\ Pos(Oldest) <= Pos(s) /\ Pos(s) < Pos(pEnd)
  BY DEF Live
<1>4. ASSUME NEW s \in Live PROVE PAdd(s, 1) \in Slots /\ Pos(PAdd(s, 1)) = Pos(s) + 1
  <2>1. s \in Slots /\ Pos(s) + 1 < NumPackets
    BY <1>1, <1>3, Ring
  <2> QED BY <2>1, PosFacts
<1>5. ASSUME NEW s \in Slots, s # pEnd, Pos(s) <= Pos(pEnd) PROVE Pos(s) < Pos(pEnd)
  BY <1>1, <1>5, PosFacts
<1>6. Oldest # pEnd => Oldest \in Live
  BY <1>1, <1>2, <1>3, <1>5
<1>7. Posting # pEnd => Posting \in Live
  BY <1>1, <1>2, <1>3, <1>5
<1> QED BY <1>2, <1>3, <1>4, <1>6, <1>7

(* Where the posted packets end, and the descriptors at an offset.         *)
LEMMA PostedFacts ==
  ASSUME TypeOK, Places, Layout
  PROVE  /\ Count(fBegin, fNext) = IF Posting = pEnd THEN Count(fBegin, fEnd) ELSE Offset(Posting)
         /\ Posted \in Nat /\ Count(fBegin, fNext) <= Posted /\ Posted <= Count(fBegin, fEnd)
         /\ Posted \in Frags
         /\ \A s \in Live : /\ Pos(s) < Pos(Posting) => EndOffset(s) <= Count(fBegin, fNext)
                            /\ Pos(s) > Pos(Posting) => Posted <= Offset(s)
         /\ pc \in {"fields", "status"} =>
              /\ Posting = pi /\ pi \in Live
              /\ Posted = Offset(pi) + tcb[pi].NumTxDesc /\ Posted <= EndOffset(pi)
              /\ Offset(pi) = Count(fBegin, fNext)
         /\ pc \notin {"fields", "status"} => Posted = Count(fBegin, fNext)
<1>1. /\ Oldest \in Slots /\ Posting \in Slots /\ pEnd \in Slots /\ pi \in Slots
      /\ Count(fBegin, fNext) \in Nat /\ Count(fBegin, fNext) < NumFragments
      /\ Count(fBegin, fEnd) \in Nat /\ Count(fBegin, fEnd) < NumFragments
      /\ \A s \in Slots : /\ Pos(s) \in Nat /\ Offset(s) \in Nat /\ EndOffset(s) \in Nat
                          /\ EndOffset(s) = Offset(s) + packet[s].FragmentCount
                          /\ packet[s].FragmentCount \in Nat /\ tcb[s].NumTxDesc \in Nat
  BY TypeFacts
<1>2. Count(fBegin, fNext) = IF Posting = pEnd THEN Count(fBegin, fEnd) ELSE Offset(Posting)
  BY DEF Layout, Offset
<1>3. /\ Pos(Posting) <= Pos(pEnd) /\ Pos(Oldest) <= Pos(Posting)
      /\ Posting # pEnd => Posting \in Live
      /\ \A s \in Live : s \in Slots /\ Pos(s) < Pos(pEnd)
  BY PlaceFacts
<1>4. /\ \A s \in Live : EndOffset(s) <= Count(fBegin, fEnd)
      /\ \A s, t \in Live : Pos(s) < Pos(t) => EndOffset(s) <= Offset(t)
  BY DEF Layout
<1>5. ASSUME pc \in {"fields", "status"}
      PROVE  /\ Posting = pi /\ pi \in Live /\ pi # pEnd
             /\ Posted = Offset(pi) + tcb[pi].NumTxDesc /\ Posted <= EndOffset(pi)
             /\ Offset(pi) = Count(fBegin, fNext)
  <2>1. Posting = pi /\ pi # pEnd /\ tcb[pi].NumTxDesc <= packet[pi].FragmentCount
    BY <1>5 DEF Posting, Places
  <2>2. pi \in Live /\ Offset(pi) = Count(fBegin, fNext)
    BY <1>2, <1>3, <2>1
  <2>3. Posted = Offset(pi) + tcb[pi].NumTxDesc
    BY <1>5, <2>2 DEF Posted
  <2> QED BY <1>1, <2>1, <2>2, <2>3
<1>6. pc \notin {"fields", "status"} => Posted = Count(fBegin, fNext)
  BY <1>1 DEF Posted
<1>7. Posted \in Nat /\ Count(fBegin, fNext) <= Posted /\ Posted <= Count(fBegin, fEnd)
  <2>1. CASE pc \in {"fields", "status"}
    <3>1. /\ Offset(pi) \in Nat /\ tcb[pi].NumTxDesc \in Nat /\ EndOffset(pi) \in Nat
          /\ EndOffset(pi) <= Count(fBegin, fEnd)
      BY <1>1, <1>4, <1>5, <2>1
    <3> QED BY <1>1, <1>5, <2>1, <3>1
  <2>2. CASE pc \notin {"fields", "status"}
    <3>1. Count(fBegin, fNext) <= Count(fBegin, fEnd)
      <4>1. CASE Posting = pEnd
        BY <1>1, <1>2, <4>1
      <4>2. CASE Posting # pEnd
        <5>1. Posting \in Live /\ EndOffset(Posting) <= Count(fBegin, fEnd)
          BY <1>3, <1>4, <4>2
        <5>2. /\ Offset(Posting) \in Nat /\ packet[Posting].FragmentCount \in Nat
              /\ EndOffset(Posting) = Offset(Posting) + packet[Posting].FragmentCount
          BY <1>1
        <5> QED BY <1>1, <1>2, <4>2, <5>1, <5>2
      <4> QED BY <4>1, <4>2
    <3> QED BY <1>1, <1>6, <2>2, <3>1
  <2> QED BY <2>1, <2>2
<1>8. ASSUME NEW s \in Live, Pos(s) < Pos(Posting) PROVE EndOffset(s) <= Count(fBegin, fNext)
  BY <1>2, <1>3, <1>4, <1>8
<1>9. ASSUME NEW s \in Live, Pos(s) > Pos(Posting) PROVE Posted <= Offset(s)
  <2>1. s \in Slots /\ Pos(s) < Pos(pEnd) /\ Pos(s) \in Nat /\ Pos(pEnd) \in Nat /\ Pos(Posting) \in Nat
    BY <1>1, <1>3
  <2>2. Posting # pEnd
    BY <1>9, <2>1
  <2>3. Posting \in Live /\ EndOffset(Posting) <= Offset(s)
    BY <1>3, <1>4, <1>9, <2>1, <2>2
  <2>4. CASE pc \in {"fields", "status"}
    <3>1. Posted <= EndOffset(Posting) /\ EndOffset(Posting) \in Nat /\ Offset(s) \in Nat
      BY <1>1, <1>5, <2>1, <2>4
    <3> QED BY <1>7, <2>3, <3>1
  <2>5. CASE pc \notin {"fields", "status"}
    <3>1. Posted = Offset(Posting)
      BY <1>2, <1>6, <2>2, <2>5
    <3>2. /\ EndOffset(Posting) = Offset(Posting) + packet[Posting].FragmentCount
          /\ Offset(Posting) \in Nat /\ packet[Posting].FragmentCount \in Nat /\ Offset(s) \in Nat
      BY <1>1, <2>1
    <3> QED BY <2>3, <3>1, <3>2
  <2> QED BY <2>4, <2>5
<1>10. Posted \in Frags
  BY <1>1, <1>7, Ring
<1> QED BY <1>2, <1>5, <1>6, <1>7, <1>8, <1>9, <1>10

LEMMA AtFacts ==
  ASSUME TypeOK, Places, Layout
  PROVE  /\ DescBegin \in Frags /\ At(Posted) = txDescIndex
         /\ \A o \in Frags : At(o) \in Frags /\ Count(DescBegin, At(o)) = o
         /\ \A o, q \in Frags : At(o) = At(q) => o = q
         /\ \A j \in Frags : Count(DescBegin, j) \in Frags /\ At(Count(DescBegin, j)) = j
         /\ Taken \in Frags /\ At(Taken) = hwIndex
         /\ Gone \in Int /\ Gone = Taken - Len(frame)
<1>1. /\ Posted \in Frags /\ txDescIndex \in Frags /\ hwIndex \in Frags /\ Len(frame) \in Nat
  BY PostedFacts, TypeFacts
<1>2. \A b, e \in Frags : Count(b, e) \in Frags
  <2>1. \A b, e \in Frags : Count(b, e) \in Nat /\ Count(b, e) < NumFragments
    BY CountFacts
  <2> QED BY <2>1, Ring
<1>3. DescBegin \in Frags
  BY <1>1, <1>2 DEF DescBegin
<1>4. At(Posted) = txDescIndex
  <2>1. FAdd(Posted, DescBegin) = txDescIndex
    BY <1>1, CountFacts DEF DescBegin
  <2>2. FAdd(DescBegin, Posted) = FAdd(Posted, DescBegin)
    <3>1. DescBegin + Posted = Posted + DescBegin
      BY <1>1, <1>3, Ring
    <3> QED BY <3>1 DEF FAdd
  <2> QED BY <2>1, <2>2 DEF At
<1>5. \A o \in Frags : At(o) \in Frags /\ Count(DescBegin, At(o)) = o
  <2>1. \A o \in Frags : o \in Nat /\ o < NumFragments
    BY Ring
  <2> QED BY <1>3, <2>1, AddFacts DEF At
<1>6. \A o, q \in Frags : At(o) = At(q) => o = q
  BY <1>5
<1>7. \A j \in Frags : Count(DescBegin, j) \in Frags /\ At(Count(DescBegin, j)) = j
  BY <1>2, <1>3, CountFacts DEF At
<1>8. Taken \in Frags /\ At(Taken) = hwIndex
  BY <1>1, <1>7 DEF Taken
<1>9. Gone \in Int /\ Gone = Taken - Len(frame)
  <2>1. Gone = Taken - Len(frame)
    BY DEF Gone
  <2> QED BY <1>1, <1>8, <2>1, Ring
<1> QED BY <1>3, <1>4, <1>5, <1>6, <1>7, <1>8, <1>9

-----------------------------------------------------------------------------
(* What follows from the invariant.                                        *)

LEMMA InvCompleted == RingsAgree => CompletedWasSent
<1> SUFFICES ASSUME RingsAgree, pc = "complete", NEW s \in SlotsBetween(pBegin, pi)
             PROVE  packet[s].Ignore \/ s \in sent
  BY DEF CompletedWasSent
<1>1. TypeOK /\ Frames /\ Oldest = pi
  BY DEF RingsAgree, Oldest
<1>2. s \in Slots /\ Pos(s) < Pos(pi)
  BY <1>1, TypeFacts, BetweenFacts
<1> QED BY <1>1, <1>2 DEF Frames

(* The descriptors of a packet already posted, or being posted, lie before *)
(* the one posted next.                                                    *)
LEMMA InvPosts == RingsAgree => PostsToFree
<1> SUFFICES ASSUME RingsAgree, pc = "status"
             PROVE  /\ ~desc[txDescIndex].own
                    /\ \A s \in SlotsBetween(pBegin, PAdd(pi, 1)) :
                         packet[s].Ignore \/ txDescIndex \notin Descriptors(s)
  BY DEF PostsToFree
<1>1. TypeOK /\ Places /\ Layout /\ Contexts /\ Ownership
  BY DEF RingsAgree
<1>2. /\ Posting = pi /\ pi \in Live /\ Posted = Offset(pi) + tcb[pi].NumTxDesc
      /\ Posted \in Nat /\ Posted \in Frags /\ Count(fBegin, fNext) <= Posted
      /\ \A s \in Live : Pos(s) < Pos(Posting) => EndOffset(s) <= Count(fBegin, fNext)
      /\ Count(fBegin, fNext) \in Nat
  BY <1>1, PostedFacts, TypeFacts
<1>3. At(Posted) = txDescIndex
  BY <1>1, AtFacts
<1>4. ~desc[txDescIndex].own
  <2>1. ~(Posted < Posted)
    BY <1>2
  <2> QED BY <1>1, <1>2, <1>3, <2>1 DEF Ownership
<1>5. ASSUME NEW s \in SlotsBetween(pBegin, PAdd(pi, 1)), ~packet[s].Ignore,
             txDescIndex \in Descriptors(s)
      PROVE  FALSE
  <2>1. PAdd(pi, 1) \in Slots /\ Pos(PAdd(pi, 1)) = Pos(pi) + 1 /\ Oldest = pBegin /\ pi # pEnd
    BY <1>1, <1>2, PlaceFacts DEF Oldest, Places
  <2>2. s \in Slots /\ Pos(s) <= Pos(pi) /\ Pos(s) \in Nat /\ Pos(pi) \in Nat
    <3>1. s \in Slots /\ Pos(s) < Pos(pi) + 1
      BY <1>1, <2>1, BetweenFacts
    <3>2. Pos(s) \in Nat /\ Pos(pi) \in Nat
      BY <1>1, <3>1, TypeFacts
    <3> QED BY <3>1, <3>2
  <2>3. s \in Live
    <3>1. Pos(pBegin) = 0 /\ Pos(pi) < Pos(pEnd) /\ Pos(pEnd) \in Nat
      BY <1>1, <1>2, PosFacts, PlaceFacts, TypeFacts
    <3> QED BY <1>1, <2>1, <2>2, <3>1, PlaceFacts
  <2>4. /\ tcb[s].FirstTxDescIdx = At(Offset(s)) /\ tcb[s].NumTxDesc \in Nat
        /\ Offset(s) \in Nat /\ EndOffset(s) \in Nat /\ EndOffset(s) = Offset(s) + packet[s].FragmentCount
        /\ Offset(s) + tcb[s].NumTxDesc <= Posted
    <3>0. /\ Offset(s) \in Nat /\ EndOffset(s) \in Nat /\ EndOffset(s) = Offset(s) + packet[s].FragmentCount
          /\ tcb[s].NumTxDesc \in Nat /\ packet[s].FragmentCount \in Nat
      BY <1>1, <2>2, TypeFacts
    <3>1. CASE s = pi
      <4>1. tcb[s].FirstTxDescIdx = At(Offset(s))
        BY <1>1, <1>5, <2>3, <3>1 DEF Contexts
      <4>2. Offset(s) + tcb[s].NumTxDesc <= Posted
        BY <1>2, <3>1
      <4> QED BY <3>0, <4>1, <4>2
    <3>2. CASE s # pi
      <4>1. Pos(s) # Pos(pi)
        BY <1>1, <2>2, <3>2, PosFacts, TypeFacts
      <4>2. Pos(s) < Pos(Posting)
        BY <1>2, <2>2, <4>1
      <4>3. tcb[s].FirstTxDescIdx = At(Offset(s)) /\ tcb[s].NumTxDesc = packet[s].FragmentCount
        BY <1>1, <1>5, <2>3, <4>2 DEF Contexts
      <4>4. EndOffset(s) <= Posted
        BY <1>2, <2>3, <3>0, <4>2
      <4> QED BY <3>0, <4>3, <4>4
    <3> QED BY <3>1, <3>2
  <2>5. PICK k \in 0 .. tcb[s].NumTxDesc - 1 : txDescIndex = FAdd(tcb[s].FirstTxDescIdx, k)
    BY <1>5 DEF Descriptors
  <2>6. k \in Nat /\ Offset(s) + k < Posted /\ Offset(s) + k \in Frags
    BY <1>2, <2>4, <2>5, Ring
  <2>7. FAdd(At(Offset(s)), k) = At(Offset(s) + k)
    <3>1. DescBegin \in Frags /\ Offset(s) + k < NumFragments
      BY <1>1, <2>6, AtFacts, Ring
    <3> QED BY <2>4, <2>6, <3>1, AddFacts DEF At
  <2>8. At(Offset(s) + k) = At(Posted)
    BY <1>3, <2>4, <2>5, <2>7
  <2>9. Offset(s) + k = Posted
    BY <1>1, <1>2, <2>6, <2>8, AtFacts
  <2> QED BY <1>2, <2>4, <2>6, <2>9
<1> QED BY <1>4, <1>5

LEMMA InvBuffers == RingsAgree => BuffersHeld
<1> SUFFICES ASSUME RingsAgree, NEW j \in Frags, desc[j].own
             PROVE  Count(fBegin, desc[j].frag) < Count(fBegin, fEnd)
  BY DEF BuffersHeld, Count
<1>1. TypeOK /\ Places /\ Layout /\ Ownership
  BY DEF RingsAgree
<1> DEFINE o == Count(DescBegin, j)
<1>2. o \in Frags /\ At(o) = j
  BY <1>1, AtFacts
<1> HIDE DEF o
<1>3. o < Posted /\ desc[j].frag = FAdd(fBegin, o)
  BY <1>1, <1>2 DEF Ownership
<1>4. o \in Nat /\ o < NumFragments /\ fBegin \in Frags
  BY <1>1, <1>2, Ring, TypeFacts
<1>5. Count(fBegin, desc[j].frag) = o
  BY <1>3, <1>4, AddFacts
<1>6. Posted <= Count(fBegin, fEnd) /\ Posted \in Nat /\ Count(fBegin, fEnd) \in Nat
  BY <1>1, PostedFacts, TypeFacts
<1> QED BY <1>3, <1>4, <1>5, <1>6

-----------------------------------------------------------------------------
(* Every step keeps the invariant.                                         *)

LEMMA InitInv == Init => RingsAgree
<1> SUFFICES ASSUME Init PROVE RingsAgree
  OBVIOUS
<1>0. 0 \in Frags /\ 0 \in Slots /\ 0 \in 0 .. MaxFragments
  BY Ring
<1>1. TypeOK
  <2>1. <<>> \in Seq([index : Frags, frag : Frags, fs : BOOLEAN])
    OBVIOUS
  <2> QED BY <1>0, <2>1 DEF Init, TypeOK, Zero
<1>2. pBegin = 0 /\ pNext = 0 /\ pEnd = 0 /\ fBegin = 0 /\ fNext = 0 /\ fEnd = 0
      /\ pc = "stopped" /\ frame = <<>> /\ sent = {} /\ hwIndex = 0 /\ txDescIndex = 0 /\ garbled = FALSE
  BY DEF Init
<1>3. Oldest = 0 /\ Posting = 0 /\ Pos(0) = 0
  BY <1>1, <1>2, PosFacts DEF Oldest, Posting
<1>4. Live = {}
  <2>1. \A s \in Slots : Pos(s) \in Nat
    BY <1>1, TypeFacts
  <2>2. \A s \in Slots : ~(0 <= Pos(s) /\ Pos(s) < 0)
    BY <2>1
  <2> QED BY <1>2, <1>3, <2>2 DEF Live
<1>5. Count(0, 0) = 0
  BY <1>0, CountFacts
<1>6. Posted = 0 /\ DescBegin = 0 /\ Taken = 0 /\ Len(frame) = 0 /\ Gone = 0
  BY <1>2, <1>5 DEF Posted, DescBegin, Taken, Gone
<1>7. Places
  BY <1>2, <1>3 DEF Places
<1>8. Layout
  <2>1. \A o \in Frags : ~(o < 0)
    BY Ring
  <2> QED BY <1>2, <1>3, <1>4, <1>5, <2>1 DEF Layout
<1>9. Contexts
  BY <1>4 DEF Contexts
<1>10. Ownership
  <2>1. \A j \in Frags : desc[j].own = FALSE
    BY DEF Init, Zero
  <2>2. \A o \in Frags : At(o) \in Frags /\ ~(o < Posted)
    BY <1>1, <1>6, <1>7, <1>8, AtFacts, Ring
  <2> QED BY <2>1, <2>2 DEF Ownership
<1>11. Frames
  <2>1. \A s \in Slots : ~(Pos(s) < Pos(Oldest))
    <3>1. \A s \in Slots : Pos(s) \in Nat
      BY <1>1, TypeFacts
    <3> QED BY <1>3, <3>1
  <2> QED BY <1>2, <1>4, <1>6, <2>1 DEF Frames
<1> QED BY <1>1, <1>2, <1>7, <1>8, <1>9, <1>10, <1>11 DEF RingsAgree, FramesWhole

LEMMA TypeNext == RingsAgree /\ [Next]_vars => TypeOK'
<1> SUFFICES ASSUME RingsAgree, [Next]_vars PROVE TypeOK'
  OBVIOUS
<1>0. TypeOK /\ Places /\ Layout /\ Ownership /\ 0 \in Frags
  BY Ring DEF RingsAgree
<1>1. \A n \in Nat : n <= NumFragments => \A b \in Frags : FAdd(b, n) \in Frags
  <2>1. ASSUME NEW n \in Nat, n <= NumFragments, NEW b \in Frags PROVE FAdd(b, n) \in Frags
    <3>1. FAdd(b, n) = IF b + n < NumFragments THEN b + n ELSE b + n - NumFragments
      BY <2>1, Closed
    <3> QED BY <2>1, <3>1, Ring
  <2> QED BY <2>1
<1>2. \A s \in Slots : PAdd(s, 1) \in Slots
  BY PacketFacts
<1>3. (txDescIndex + 1) % NumFragments \in Frags
  <2>1. FAdd(txDescIndex, 1) \in Frags
    BY <1>0, AddFacts, TypeFacts
  <2> QED BY <2>1 DEF FAdd
<1>4. \A s \in Slots : FragmentEnd(s) \in Frags
  <2>1. \A s \in Slots : /\ packet[s].FragmentIndex \in Frags
                         /\ packet[s].FragmentCount \in Nat /\ packet[s].FragmentCount <= MaxFragments
    BY <1>0, TypeFacts
  <2>2. \A s \in Slots : packet[s].FragmentCount <= NumFragments
    BY <2>1, Ring
  <2> QED BY <1>1, <2>1, <2>2 DEF FragmentEnd
<1>5. CASE Start
  <2>1. <<>> \in Seq([index : Frags, frag : Frags, fs : BOOLEAN])
    OBVIOUS
  <2> QED BY <1>0, <1>5, <2>1 DEF Start, TypeOK, Zero, ringVars
<1>6. CASE Stop
  BY <1>0, <1>6 DEF Stop, TypeOK, ringVars, hwVars
<1>7. ASSUME NEW n \in 0 .. MaxFragments, Submit(n) PROVE TypeOK'
  <2>1. n \in Nat /\ n <= NumFragments /\ pEnd \in Slots /\ fEnd \in Frags
    BY <1>0, Ring, TypeFacts
  <2>2. FAdd(fEnd, n) \in Frags /\ PAdd(pEnd, 1) \in Slots
    BY <1>1, <1>2, <2>1
  <2> DEFINE new == [FragmentIndex |-> fEnd, FragmentCount |-> n, Ignore |-> n = 0]
  <2>3. new \in [FragmentIndex : Frags, FragmentCount : 0 .. MaxFragments, Ignore : BOOLEAN]
    BY <2>1
  <2>4. packet' = [packet EXCEPT ![pEnd] = new] /\ pEnd' = PAdd(pEnd, 1) /\ fEnd' = FAdd(fEnd, n)
        /\ UNCHANGED <<pBegin, pNext, fBegin, fNext, tcb, desc, txDescIndex, pc, pi, programmed, poll,
                       hwIndex, frame, sent, garbled>>
    BY <1>7 DEF Submit, pcVars, hwVars
  <2> HIDE DEF new
  <2>5. packet' \in [Slots -> [FragmentIndex : Frags, FragmentCount : 0 .. MaxFragments, Ignore : BOOLEAN]]
    BY <1>0, <2>3, <2>4 DEF TypeOK
  <2> QED BY <1>0, <2>2, <2>4, <2>5 DEF TypeOK
<1>8. CASE AdvanceBegin
  BY <1>0, <1>8 DEF AdvanceBegin, TypeOK, ringVars, hwVars
<1>9. CASE PostIgnored
  BY <1>0, <1>2, <1>9 DEF PostIgnored, TypeOK, ringVars, hwVars
<1>10. CASE PostPacket
  <2>1. [FirstTxDescIdx |-> txDescIndex, NumTxDesc |-> 0] \in [FirstTxDescIdx : Frags, NumTxDesc : 0 .. MaxFragments]
    BY <1>0, Ring DEF TypeOK
  <2>2. tcb' \in [Slots -> [FirstTxDescIdx : Frags, NumTxDesc : 0 .. MaxFragments]]
    BY <1>0, <1>10, <2>1 DEF PostPacket, TypeOK
  <2> QED BY <1>0, <1>10, <2>2 DEF PostPacket, TypeOK, ringVars, hwVars
<1>11. CASE PostFields
  <2>1. FAdd(packet[pi].FragmentIndex, tcb[pi].NumTxDesc) \in Frags
    <3>1. /\ pi \in Slots /\ packet[pi].FragmentIndex \in Frags
          /\ tcb[pi].NumTxDesc \in Nat /\ packet[pi].FragmentCount \in Nat
          /\ packet[pi].FragmentCount <= MaxFragments
      BY <1>0, TypeFacts
    <3>2. tcb[pi].NumTxDesc <= packet[pi].FragmentCount
      BY <1>0, <1>11 DEF PostFields, Places
    <3>3. tcb[pi].NumTxDesc <= NumFragments
      BY <3>1, <3>2, Ring
    <3> QED BY <1>1, <3>1, <3>3
  <2>2. desc' \in [Frags -> [own : BOOLEAN, fs : BOOLEAN, ls : BOOLEAN, eor : BOOLEAN, frag : Frags]]
    BY <1>0, <1>11, <2>1 DEF PostFields, TypeOK
  <2> QED BY <1>0, <1>11, <2>2 DEF PostFields, TypeOK, ringVars, hwVars
<1>12. CASE PostStatus
  <2>1. tcb[pi].NumTxDesc \in Nat /\ tcb[pi].NumTxDesc + 1 \in 0 .. MaxFragments
    <3>1. pi \in Slots
      BY <1>0, TypeFacts
    <3>2. /\ tcb[pi].NumTxDesc <= packet[pi].FragmentCount /\ tcb[pi].NumTxDesc # packet[pi].FragmentCount
      BY <1>0, <1>12 DEF PostStatus, Places
    <3>3. /\ tcb[pi].NumTxDesc \in Nat /\ packet[pi].FragmentCount \in Nat
          /\ packet[pi].FragmentCount <= MaxFragments
      BY <1>0, <3>1, TypeFacts
    <3> QED BY <3>2, <3>3, Ring
  <2>2. tcb' \in [Slots -> [FirstTxDescIdx : Frags, NumTxDesc : 0 .. MaxFragments]]
    BY <1>0, <1>12, <2>1 DEF PostStatus, TypeOK
  <2>3. desc' \in [Frags -> [own : BOOLEAN, fs : BOOLEAN, ls : BOOLEAN, eor : BOOLEAN, frag : Frags]]
    BY <1>0, <1>12 DEF PostStatus, TypeOK
  <2> QED BY <1>0, <1>3, <1>12, <2>2, <2>3 DEF PostStatus, TypeOK, ringVars, hwVars
<1>13. CASE PostPacketEnd
  <2>1. pi \in Slots /\ FragmentEnd(pi) \in Frags /\ PAdd(pi, 1) \in Slots
    BY <1>0, <1>2, <1>4, TypeFacts
  <2> QED BY <1>0, <1>13, <2>1 DEF PostPacketEnd, TypeOK, hwVars
<1>14. CASE PostEnd
  BY <1>0, <1>14 DEF PostEnd, TypeOK, hwVars
<1>15. CASE CompletePacket
  <2>1. pi \in Slots /\ FragmentEnd(pi) \in Frags /\ PAdd(pi, 1) \in Slots
    BY <1>0, <1>2, <1>4, TypeFacts
  <2>2. desc' \in [Frags -> [own : BOOLEAN, fs : BOOLEAN, ls : BOOLEAN, eor : BOOLEAN, frag : Frags]]
    <3>1. CASE packet[pi].Ignore
      BY <1>0, <1>15, <3>1 DEF CompletePacket, TypeOK
    <3>2. CASE ~packet[pi].Ignore
      <4>1. desc' = [j \in Frags |-> IF j \in Descriptors(pi) THEN [Zero EXCEPT !.frag = desc[j].frag] ELSE desc[j]]
        BY <1>15, <3>2 DEF CompletePacket
      <4>2. \A j \in Frags : desc[j].frag \in Frags
        BY <1>0, TypeFacts
      <4>3. \A j \in Frags : [Zero EXCEPT !.frag = desc[j].frag] \in
              [own : BOOLEAN, fs : BOOLEAN, ls : BOOLEAN, eor : BOOLEAN, frag : Frags]
        BY <4>2 DEF Zero
      <4> QED BY <1>0, <4>1, <4>3 DEF TypeOK
    <3> QED BY <3>1, <3>2
  <2>3. fBegin' \in Frags
    BY <1>0, <1>15, <2>1 DEF CompletePacket, TypeOK
  <2> QED BY <1>0, <1>15, <2>1, <2>2, <2>3 DEF CompletePacket, TypeOK, hwVars
<1>16. CASE CompleteEnd
  BY <1>0, <1>16 DEF CompleteEnd, TypeOK, hwVars
<1>17. CASE HwFetch
  <2> DEFINE d == desc[hwIndex]
             read == Append(frame, [index |-> hwIndex, frag |-> d.frag, fs |-> d.fs])
             back == IF WriteBack = "descriptor" THEN {hwIndex}
                     ELSE IF d.ls THEN {read[k].index : k \in 1 .. Len(read)} ELSE {}
             whole == {s \in Unsent : IsOldest(s) /\ IsWhole(read, s)}
  <2>1. /\ d.own
        /\ hwIndex' = IF d.eor THEN 0 ELSE hwIndex + 1
        /\ desc' = [j \in Frags |-> IF j \in back THEN [desc[j] EXCEPT !.own = FALSE] ELSE desc[j]]
        /\ frame' = IF d.ls THEN <<>> ELSE read
        /\ sent' = IF d.ls THEN sent \cup whole ELSE sent
        /\ garbled' = (garbled \/ (d.ls /\ whole = {}))
        /\ UNCHANGED <<pBegin, pNext, pEnd, fBegin, fNext, fEnd, packet, tcb, txDescIndex, pc, pi, programmed, poll>>
    BY <1>17 DEF HwFetch, ringVars, pcVars
  <2>2. hwIndex' \in Frags
    <3>1. Taken \in Frags /\ At(Taken) = hwIndex /\ hwIndex \in Frags
      BY <1>0, AtFacts, TypeFacts
    <3>2. d.eor <=> hwIndex = NumFragments - 1
      BY <1>0, <2>1, <3>1 DEF Ownership
    <3> QED BY <1>0, <2>1, <3>1, <3>2, Ring
  <2>3. read \in Seq([index : Frags, frag : Frags, fs : BOOLEAN])
    <3>1. [index |-> hwIndex, frag |-> d.frag, fs |-> d.fs] \in [index : Frags, frag : Frags, fs : BOOLEAN]
      BY <1>0, TypeFacts
    <3> QED BY <1>0, <3>1 DEF TypeOK
  <2>4. whole \subseteq Slots
    <3>1. \A s \in SlotsBetween(pBegin, pEnd) : s \in Slots
      BY <1>0, TypeFacts, BetweenFacts
    <3> QED BY <3>1 DEF Unsent
  <2> HIDE DEF back, whole, read
  <2>5. desc' \in [Frags -> [own : BOOLEAN, fs : BOOLEAN, ls : BOOLEAN, eor : BOOLEAN, frag : Frags]]
    <3>0. \A j \in Frags : desc[j] \in [own : BOOLEAN, fs : BOOLEAN, ls : BOOLEAN, eor : BOOLEAN, frag : Frags]
      BY <1>0 DEF TypeOK
    <3>1. \A j \in Frags : [desc[j] EXCEPT !.own = FALSE] \in
            [own : BOOLEAN, fs : BOOLEAN, ls : BOOLEAN, eor : BOOLEAN, frag : Frags]
      <4>1. \A r \in [own : BOOLEAN, fs : BOOLEAN, ls : BOOLEAN, eor : BOOLEAN, frag : Frags] :
              [r EXCEPT !.own = FALSE] \in [own : BOOLEAN, fs : BOOLEAN, ls : BOOLEAN, eor : BOOLEAN, frag : Frags]
        OBVIOUS
      <4> QED BY <3>0, <4>1
    <3> QED BY <1>0, <2>1, <3>1 DEF TypeOK
  <2>6. <<>> \in Seq([index : Frags, frag : Frags, fs : BOOLEAN])
    OBVIOUS
  <2>7. frame' \in Seq([index : Frags, frag : Frags, fs : BOOLEAN]) /\ sent' \subseteq Slots
    BY <1>0, <2>1, <2>3, <2>4, <2>6 DEF TypeOK
  <2>8. garbled \in BOOLEAN /\ garbled' \in BOOLEAN
    <3>1. garbled \in BOOLEAN
      BY <1>0 DEF TypeOK
    <3> QED BY <2>1, <3>1
  <2> QED BY <1>0, <2>1, <2>2, <2>5, <2>7, <2>8 DEF TypeOK
<1>18. CASE HwIdle
  BY <1>0, <1>18 DEF HwIdle, TypeOK, ringVars, pcVars, hwVars
<1>19. CASE UNCHANGED vars
  BY <1>0, <1>19 DEF vars, TypeOK
<1> QED BY <1>5, <1>6, <1>7, <1>8, <1>9, <1>10, <1>11, <1>12, <1>13, <1>14, <1>15, <1>16, <1>17, <1>18, <1>19
      DEF Next, Advance

(* A step that leaves the rings alone leaves positions and offsets alone.  *)
LEMMA SameRing ==
  ASSUME UNCHANGED <<pBegin, pEnd, fBegin, packet>>, Oldest' = Oldest
  PROVE  /\ Live' = Live
         /\ \A s : Pos(s)' = Pos(s) /\ Offset(s)' = Offset(s) /\ EndOffset(s)' = EndOffset(s)
<1>1. \A s : Pos(s)' = Pos(s)
  BY DEF Pos
<1>2. \A s : Offset(s)' = Offset(s)
  BY DEF Offset, Count
<1>3. \A s : EndOffset(s)' = EndOffset(s)
  BY <1>2 DEF EndOffset
<1>4. Live' = Live
  BY <1>1 DEF Live, Pos
<1> QED BY <1>1, <1>2, <1>3, <1>4

(* A step that neither gives nor takes a descriptor.                       *)
LEMMA SameDescriptors ==
  ASSUME RingsAgree, UNCHANGED <<pBegin, pEnd, fBegin, fEnd, packet, txDescIndex, hwIndex, frame, sent, garbled>>,
         Oldest' = Oldest, Posted' = Posted,
         \A j \in Frags : desc'[j].own = desc[j].own /\ (desc[j].own => desc'[j] = desc[j])
  PROVE  /\ Ownership' /\ Frames' /\ FramesWhole'
         /\ (fNext' = IF Posting' = pEnd THEN fEnd ELSE packet[Posting'].FragmentIndex) => Layout'
         /\ \A o : At(o)' = At(o)
<1>1. TypeOK /\ Places /\ Layout /\ Ownership /\ Frames /\ FramesWhole
  BY DEF RingsAgree
<1>2. /\ Live' = Live
      /\ \A s : Pos(s)' = Pos(s) /\ Offset(s)' = Offset(s) /\ EndOffset(s)' = EndOffset(s)
  BY SameRing
<1>3. DescBegin' = DescBegin
  BY DEF DescBegin, Count
<1>4. \A o : At(o)' = At(o)
  BY <1>3 DEF At
<1>5. Taken' = Taken /\ Gone' = Gone
  <2>1. Taken' = Taken
    BY <1>3 DEF Taken, Count
  <2> QED BY <2>1 DEF Gone
<1>6. Ownership'
  <2>1. \A o \in Frags : At(o) \in Frags
    BY <1>1, AtFacts
  <2> SUFFICES ASSUME NEW o \in Frags
               PROVE  /\ desc'[At(o)].own <=> Gone <= o /\ o < Posted
                      /\ desc'[At(o)].own =>
                           /\ desc'[At(o)].frag = FAdd(fBegin, o)
                           /\ desc'[At(o)].eor <=> At(o) = NumFragments - 1
                           /\ \A s \in Live : Offset(s) <= o /\ o < EndOffset(s) =>
                                /\ desc'[At(o)].fs <=> o = Offset(s)
                                /\ desc'[At(o)].ls <=> o + 1 = EndOffset(s)
    BY <1>2, <1>4, <1>5 DEF Ownership
  <2>2. desc'[At(o)].own = desc[At(o)].own /\ (desc[At(o)].own => desc'[At(o)] = desc[At(o)])
    BY <2>1
  <2> QED BY <1>1, <2>2 DEF Ownership
<1>7. Frames'
  BY <1>1, <1>2, <1>4, <1>5 DEF Frames
<1>8. FramesWhole'
  BY <1>1 DEF FramesWhole
<1>9. ASSUME fNext' = IF Posting' = pEnd THEN fEnd ELSE packet[Posting'].FragmentIndex
      PROVE  Layout'
  <2>1. Count(fBegin, fEnd)' = Count(fBegin, fEnd)
    BY DEF Count
  <2> QED BY <1>1, <1>2, <1>9, <2>1 DEF Layout
<1> QED BY <1>4, <1>6, <1>7, <1>8, <1>9

(* Where the packet after s begins.                                        *)
LEMMA NextFacts ==
  ASSUME TypeOK, Places, Layout, NEW s \in Live
  PROVE  /\ Count(fBegin, FragmentEnd(s)) = EndOffset(s)
         /\ FragmentEnd(s) = IF PAdd(s, 1) = pEnd THEN fEnd ELSE packet[PAdd(s, 1)].FragmentIndex
<1>1. s \in Slots /\ PAdd(s, 1) \in Slots
  BY PlaceFacts
<1>2. /\ fBegin \in Frags /\ fEnd \in Frags
      /\ Offset(s) \in Nat /\ EndOffset(s) \in Nat /\ EndOffset(s) = Offset(s) + packet[s].FragmentCount
      /\ packet[s].FragmentCount \in Nat /\ packet[s].FragmentIndex = FAdd(fBegin, Offset(s))
      /\ packet[PAdd(s, 1)].FragmentIndex \in Frags
      /\ Count(fBegin, fEnd) < NumFragments /\ Count(fBegin, fEnd) \in Nat
  BY <1>1, TypeFacts
<1>3. /\ EndOffset(s) <= Count(fBegin, fEnd)
      /\ IF PAdd(s, 1) = pEnd THEN EndOffset(s) = Count(fBegin, fEnd)
         ELSE EndOffset(s) = Offset(PAdd(s, 1))
  BY DEF Layout
<1>4. EndOffset(s) < NumFragments
  BY <1>2, <1>3, Ring
<1>5. FragmentEnd(s) = FAdd(fBegin, EndOffset(s))
  <2>1. Offset(s) + packet[s].FragmentCount < NumFragments
    BY <1>2, <1>4
  <2>2. FAdd(FAdd(fBegin, Offset(s)), packet[s].FragmentCount) = FAdd(fBegin, Offset(s) + packet[s].FragmentCount)
    BY <1>2, <2>1, AddFacts
  <2> QED BY <1>2, <2>2 DEF FragmentEnd
<1>6. FragmentEnd(s) \in Frags /\ Count(fBegin, FragmentEnd(s)) = EndOffset(s)
  BY <1>2, <1>4, <1>5, AddFacts
<1>7. FragmentEnd(s) = IF PAdd(s, 1) = pEnd THEN fEnd ELSE packet[PAdd(s, 1)].FragmentIndex
  <2>1. CASE PAdd(s, 1) = pEnd
    BY <1>2, <1>3, <1>6, <2>1, CountFacts
  <2>2. CASE PAdd(s, 1) # pEnd
    <3>1. Count(fBegin, FragmentEnd(s)) = Count(fBegin, packet[PAdd(s, 1)].FragmentIndex)
      BY <1>3, <1>6, <2>2 DEF Offset
    <3> QED BY <1>2, <1>6, <2>2, <3>1, CountFacts
  <2> QED BY <2>1, <2>2
<1> QED BY <1>6, <1>7

(* The steps of EvtTxQueueAdvance and of the framework that neither move a *)
(* boundary of the rings nor give a descriptor away.                       *)
LEMMA QuietNext ==
  ASSUME RingsAgree, AdvanceBegin \/ Stop \/ PostIgnored \/ PostPacket \/ PostFields \/ PostPacketEnd
               \/ PostEnd \/ HwIdle
  PROVE  RingsAgree'
<1>0. TypeOK /\ Places /\ Layout /\ Contexts /\ Ownership
  BY DEF RingsAgree
<1>1. TypeOK'
  BY TypeNext DEF Next, Advance
<1>2. /\ pBegin \in Slots /\ pNext \in Slots /\ pEnd \in Slots /\ pi \in Slots
      /\ \A s \in Slots : Pos(s) \in Nat /\ packet[s].FragmentCount \in Nat
      /\ fBegin \in Frags
  BY <1>0, TypeFacts
<1>3. Pos(pBegin) = 0 /\ \A s, t \in Slots : Pos(s) = Pos(t) => s = t
  BY <1>0, PosFacts
<1>4. \A s \in Live : s \in Slots
  BY DEF Live
<1>5. UNCHANGED <<pBegin, pEnd, fBegin, fEnd, packet, txDescIndex, hwIndex, frame, sent, garbled>>
  BY DEF AdvanceBegin, Stop, PostIgnored, PostPacket, PostFields, PostPacketEnd, PostEnd, HwIdle,
         ringVars, pcVars, hwVars
<1>6. Oldest' = Oldest
  BY DEF AdvanceBegin, Stop, PostIgnored, PostPacket, PostFields, PostPacketEnd, PostEnd, HwIdle,
         ringVars, pcVars, hwVars, Oldest
<1>7. /\ Live' = Live
      /\ \A s : Pos(s)' = Pos(s) /\ Offset(s)' = Offset(s) /\ EndOffset(s)' = EndOffset(s)
  BY <1>5, <1>6, SameRing
<1>8. ASSUME Posted' = Posted, Places', Contexts',
             \A j \in Frags : desc'[j].own = desc[j].own /\ (desc[j].own => desc'[j] = desc[j]),
             fNext' = IF Posting' = pEnd THEN fEnd ELSE packet[Posting'].FragmentIndex
      PROVE  RingsAgree'
  <2>1. Ownership' /\ Frames' /\ FramesWhole' /\ Layout'
    BY <1>5, <1>6, <1>8, SameDescriptors
  <2> QED BY <1>1, <1>8, <2>1 DEF RingsAgree
<1>9. fNext = IF Posting = pEnd THEN fEnd ELSE packet[Posting].FragmentIndex
  BY <1>0 DEF Layout
<1>10. Posted' = Posted => DescBegin' = DescBegin
  BY <1>5 DEF DescBegin, Count
<1>11. ASSUME Posting' = Posting, Posted' = Posted, tcb' = tcb,
              pi' = pi \/ pc' \notin {"fields", "status"},
              pc' \in {"fields", "status"} => pc \in {"fields", "status"}
       PROVE  Contexts'
  <2>1. \A o : At(o)' = At(o)
    BY <1>10, <1>11 DEF At
  <2>2. Pos(Posting)' = Pos(Posting)
    BY <1>5, <1>11 DEF Pos
  <2> QED BY <1>0, <1>5, <1>7, <1>11, <2>1, <2>2 DEF Contexts
<1>12. CASE AdvanceBegin
  <2>1. Posting' = Posting /\ Posted' = Posted /\ tcb' = tcb /\ desc' = desc /\ fNext' = fNext
    BY <1>12 DEF AdvanceBegin, Posting, Posted, Count, ringVars
  <2>2. Contexts'
    BY <1>11, <1>12, <2>1 DEF AdvanceBegin
  <2>3. Places'
    <3>1. pc = "idle" /\ pc' = "post" /\ pi' = pNext /\ pNext' = pNext
      BY <1>12 DEF AdvanceBegin, ringVars
    <3>2. Pos(pNext)' = Pos(pNext) /\ Pos(pEnd)' = Pos(pEnd) /\ Pos(pi)' = Pos(pNext)
      BY <1>5, <3>1 DEF Pos
    <3>3. Pos(pNext) \in Nat /\ Pos(pNext) <= Pos(pEnd)
      BY <1>0, <1>2 DEF Places
    <3> QED BY <3>1, <3>2, <3>3 DEF Places
  <2> QED BY <1>8, <1>9, <2>1, <2>2, <2>3
<1>13. CASE Stop
  <2>1. Posting' = Posting /\ Posted' = Posted /\ tcb' = tcb /\ desc' = desc /\ fNext' = fNext
    BY <1>13 DEF Stop, Posting, Posted, Count, ringVars
  <2>2. Contexts'
    BY <1>11, <1>13, <2>1 DEF Stop
  <2>3. Places'
    <3>1. pc' = "stopped" /\ pNext' = pNext /\ pBegin = pEnd
      BY <1>13 DEF Stop, ringVars
    <3>2. Pos(pNext)' = Pos(pNext) /\ Pos(pEnd)' = Pos(pEnd)
      BY <1>5, <3>1 DEF Pos
    <3> QED BY <1>0, <1>5, <3>1, <3>2 DEF Places
  <2> QED BY <1>8, <1>9, <2>1, <2>2, <2>3
<1>14. CASE HwIdle
  <2>1. Posting' = Posting /\ Posted' = Posted /\ tcb' = tcb /\ desc' = desc /\ fNext' = fNext
        /\ pNext' = pNext /\ pi' = pi /\ pc' = pc
    BY <1>14 DEF HwIdle, Posting, Posted, Count, ringVars, pcVars
  <2>2. Contexts'
    BY <1>11, <2>1
  <2>3. Places'
    <3>1. Pos(pNext)' = Pos(pNext) /\ Pos(pEnd)' = Pos(pEnd) /\ Pos(pi)' = Pos(pi)
      BY <1>5, <2>1 DEF Pos
    <3> QED BY <1>0, <1>5, <2>1, <3>1 DEF Places
  <2> QED BY <1>8, <1>9, <2>1, <2>2, <2>3
<1>15. CASE PostEnd
  <2>1. pc = "post" /\ pc' = "complete" /\ pi = pEnd /\ pNext' = pEnd /\ pi' = pBegin
        /\ tcb' = tcb /\ desc' = desc /\ fNext' = fNext
    BY <1>15 DEF PostEnd
  <2>2. Posting' = Posting /\ Posting = pEnd /\ Posted' = Posted
    BY <1>5, <2>1 DEF Posting, Posted, Count
  <2>3. Contexts'
    BY <1>11, <2>1, <2>2
  <2>4. Places'
    <3>1. Pos(pNext)' = Pos(pEnd) /\ Pos(pEnd)' = Pos(pEnd) /\ Pos(pi)' = Pos(pBegin)
      BY <1>5, <2>1 DEF Pos
    <3>2. Pos(pEnd) \in Nat
      BY <1>2
    <3> QED BY <1>3, <2>1, <3>1, <3>2 DEF Places
  <2> QED BY <1>8, <1>9, <2>1, <2>2, <2>3, <2>4
<1>16. CASE PostIgnored
  <2>1. pc = "post" /\ pc' = "post" /\ pi # pEnd /\ pi' = PAdd(pi, 1) /\ pNext' = pNext
        /\ tcb' = tcb /\ desc' = desc /\ fNext' = fNext /\ packet[pi].Ignore
    BY <1>16 DEF PostIgnored, ringVars
  <2>2. Posting = pi /\ Posting' = PAdd(pi, 1) /\ Posted' = Posted
    BY <1>5, <2>1 DEF Posting, Posted, Count
  <2>3. pi \in Live /\ PAdd(pi, 1) \in Slots /\ Pos(PAdd(pi, 1)) = Pos(pi) + 1 /\ Pos(pi) < Pos(pEnd)
    BY <1>0, <2>1, <2>2, PlaceFacts
  <2>4. FragmentEnd(pi) = packet[pi].FragmentIndex
    <3>1. packet[pi].FragmentCount = 0 /\ packet[pi].FragmentIndex \in Frags
      BY <1>0, <1>2, <2>1, <2>3, TypeFacts DEF Layout
    <3> QED BY <3>1, AddFacts DEF FragmentEnd
  <2>5. fNext' = IF Posting' = pEnd THEN fEnd ELSE packet[Posting'].FragmentIndex
    BY <1>0, <1>9, <2>1, <2>2, <2>3, <2>4, NextFacts
  <2>6. Pos(Posting)' = Pos(pi) + 1 /\ Pos(pi)' = Pos(pi) + 1
    BY <1>5, <2>1, <2>2, <2>3 DEF Pos
  <2>7. Contexts'
    <3>1. \A o : At(o)' = At(o)
      BY <1>10, <2>2 DEF At
    <3>2. ASSUME NEW s \in Live, ~packet[s].Ignore, Pos(s) < Pos(pi) + 1
          PROVE  Pos(s) < Pos(Posting)
      BY <1>2, <1>3, <1>4, <2>1, <2>2, <3>2
    <3> QED BY <1>0, <1>5, <1>7, <2>1, <2>6, <3>1, <3>2 DEF Contexts
  <2>8. Places'
    <3>1. Pos(pNext)' = Pos(pNext) /\ Pos(pEnd)' = Pos(pEnd)
      BY <1>5, <2>1 DEF Pos
    <3>2. Pos(pi) \in Nat /\ Pos(pNext) \in Nat /\ Pos(pEnd) \in Nat
      BY <1>2
    <3>3. Pos(pNext) <= Pos(pEnd) /\ Pos(pNext) <= Pos(pi) + 1 /\ Pos(pi) + 1 <= Pos(pEnd)
      BY <1>0, <2>1, <2>3, <3>2 DEF Places
    <3> QED BY <2>1, <2>6, <3>1, <3>3 DEF Places
  <2> QED BY <1>8, <2>1, <2>2, <2>5, <2>7, <2>8
<1>17. CASE PostPacket
  <2>1. pc = "post" /\ pc' = "fields" /\ pi # pEnd /\ pi' = pi /\ pNext' = pNext
        /\ desc' = desc /\ fNext' = fNext /\ ~packet[pi].Ignore
        /\ tcb'[pi].FirstTxDescIdx = txDescIndex /\ tcb'[pi].NumTxDesc = 0
        /\ \A s \in Slots : s # pi => tcb'[s] = tcb[s]
    BY <1>0, <1>2, <1>17 DEF PostPacket, ringVars, TypeOK
  <2>2. Posting = pi /\ Posting' = pi
    BY <2>1 DEF Posting
  <2>3. Posted' = Posted
    <3>1. Posted = Count(fBegin, fNext) /\ Count(fBegin, fNext) \in Nat
      BY <1>0, <2>1, PostedFacts, TypeFacts
    <3>2. Posted' = Count(fBegin, fNext) + 0
      BY <1>5, <2>1 DEF Posted, Count
    <3> QED BY <3>1, <3>2
  <2>4. txDescIndex = At(Offset(pi))
    BY <1>0, <2>1, <2>2, PostedFacts, AtFacts
  <2>5. Pos(Posting)' = Pos(pi) /\ Pos(pi)' = Pos(pi)
    BY <1>5, <2>1, <2>2 DEF Pos
  <2>6. Contexts'
    <3>1. \A o : At(o)' = At(o)
      BY <1>10, <2>3 DEF At
    <3>2. \A s \in Live : Pos(s) < Pos(pi) => s # pi
      BY <1>2
    <3> QED BY <1>0, <1>4, <1>5, <1>7, <2>1, <2>2, <2>4, <2>5, <3>1, <3>2 DEF Contexts
  <2>7. Places'
    <3>1. Pos(pNext)' = Pos(pNext) /\ Pos(pEnd)' = Pos(pEnd)
      BY <1>5, <2>1 DEF Pos
    <3>2. 0 <= packet[pi].FragmentCount
      BY <1>2
    <3> QED BY <1>0, <1>5, <2>1, <2>5, <3>1, <3>2 DEF Places
  <2> QED BY <1>8, <1>9, <2>1, <2>2, <2>3, <2>6, <2>7
<1>18. CASE PostFields
  <2>1. pc = "fields" /\ pc' = "status" /\ pi' = pi /\ pNext' = pNext /\ tcb' = tcb /\ fNext' = fNext
        /\ tcb[pi].NumTxDesc < packet[pi].FragmentCount
    BY <1>18 DEF PostFields, ringVars
  <2>2. Posting' = Posting /\ Posted' = Posted
    BY <1>5, <2>1 DEF Posting, Posted, Count
  <2>3. Contexts'
    BY <1>11, <2>1, <2>2
  <2>4. ~desc[txDescIndex].own
    <3>1. Posted \in Frags /\ Posted \in Nat /\ At(Posted) = txDescIndex
      BY <1>0, PostedFacts, AtFacts
    <3>2. ~(Posted < Posted)
      BY <3>1
    <3> QED BY <1>0, <3>1, <3>2 DEF Ownership
  <2>5. \A j \in Frags : desc'[j].own = desc[j].own /\ (desc[j].own => desc'[j] = desc[j])
    BY <1>0, <1>18, <2>4 DEF PostFields, TypeOK
  <2>6. desc'[txDescIndex].frag = FAdd(packet[pi].FragmentIndex, tcb[pi].NumTxDesc)
    BY <1>0, <1>18 DEF PostFields, TypeOK
  <2>7. Places'
    <3>1. Pos(pNext)' = Pos(pNext) /\ Pos(pEnd)' = Pos(pEnd) /\ Pos(pi)' = Pos(pi)
      BY <1>5, <2>1 DEF Pos
    <3>2. tcb[pi].NumTxDesc # packet[pi].FragmentCount
      <4>1. tcb[pi].NumTxDesc \in Nat /\ packet[pi].FragmentCount \in Nat
        BY <1>0, <1>2, TypeFacts
      <4> QED BY <2>1, <4>1
    <3>3. /\ Pos(pNext) <= Pos(pEnd) /\ Pos(pNext) <= Pos(pi) /\ Pos(pi) <= Pos(pEnd)
          /\ pi # pEnd /\ ~packet[pi].Ignore /\ tcb[pi].NumTxDesc <= packet[pi].FragmentCount
      BY <1>0, <2>1 DEF Places
    <3> QED BY <1>5, <2>1, <2>6, <3>1, <3>2, <3>3 DEF Places
  <2> QED BY <1>8, <1>9, <2>1, <2>2, <2>3, <2>5, <2>7
<1>19. CASE PostPacketEnd
  <2>1. pc = "fields" /\ pc' = "post" /\ pi' = PAdd(pi, 1) /\ pNext' = pNext /\ tcb' = tcb /\ desc' = desc
        /\ fNext' = FragmentEnd(pi) /\ tcb[pi].NumTxDesc = packet[pi].FragmentCount
    BY <1>19 DEF PostPacketEnd
  <2>2. /\ Posting = pi /\ pi \in Live /\ Posted = Offset(pi) + tcb[pi].NumTxDesc
        /\ PAdd(pi, 1) \in Slots /\ Pos(PAdd(pi, 1)) = Pos(pi) + 1 /\ Pos(pi) < Pos(pEnd)
    BY <1>0, <2>1, PostedFacts, PlaceFacts
  <2>3. Posting' = PAdd(pi, 1)
    BY <2>1 DEF Posting
  <2>4. Posted' = Posted
    <3>1. Posted' = Count(fBegin, FragmentEnd(pi)) + 0
      BY <1>5, <2>1 DEF Posted, Count
    <3>2. Count(fBegin, FragmentEnd(pi)) = EndOffset(pi) /\ EndOffset(pi) \in Nat
          /\ EndOffset(pi) = Offset(pi) + packet[pi].FragmentCount
      BY <1>0, <1>2, <2>2, NextFacts, TypeFacts
    <3> QED BY <2>1, <2>2, <3>1, <3>2
  <2>5. fNext' = IF Posting' = pEnd THEN fEnd ELSE packet[Posting'].FragmentIndex
    BY <1>0, <2>1, <2>2, <2>3, NextFacts
  <2>6. Pos(Posting)' = Pos(pi) + 1 /\ Pos(pi)' = Pos(pi) + 1
    BY <1>5, <2>1, <2>2, <2>3 DEF Pos
  <2>7. Contexts'
    <3>1. \A o : At(o)' = At(o)
      BY <1>10, <2>4 DEF At
    <3>2. ASSUME NEW s \in Live, ~packet[s].Ignore, Pos(s) < Pos(pi) + 1
          PROVE  tcb[s].FirstTxDescIdx = At(Offset(s)) /\ tcb[s].NumTxDesc = packet[s].FragmentCount
      <4>1. CASE s = pi
        BY <1>0, <2>1, <3>2, <4>1 DEF Contexts
      <4>2. CASE s # pi
        <5>1. Pos(s) < Pos(Posting)
          BY <1>2, <1>3, <1>4, <2>2, <3>2, <4>2
        <5> QED BY <1>0, <3>2, <5>1 DEF Contexts
      <4> QED BY <4>1, <4>2
    <3> QED BY <1>5, <1>7, <2>1, <2>6, <3>1, <3>2 DEF Contexts
  <2>8. Places'
    <3>1. Pos(pNext)' = Pos(pNext) /\ Pos(pEnd)' = Pos(pEnd)
      BY <1>5, <2>1 DEF Pos
    <3>2. Pos(pi) \in Nat /\ Pos(pNext) \in Nat /\ Pos(pEnd) \in Nat
      BY <1>2
    <3>3. Pos(pNext) <= Pos(pEnd) /\ Pos(pNext) <= Pos(pi) + 1 /\ Pos(pi) + 1 <= Pos(pEnd)
      BY <1>0, <2>1, <2>2, <3>2 DEF Places
    <3> QED BY <2>1, <2>6, <3>1, <3>3 DEF Places
  <2> QED BY <1>8, <2>1, <2>3, <2>4, <2>5, <2>7, <2>8
<1> QED BY <1>12, <1>13, <1>14, <1>15, <1>16, <1>17, <1>18, <1>19

(* A queue is started with nothing in its rings.                           *)
LEMMA StartNext == ASSUME RingsAgree, Start PROVE RingsAgree'
<1>0. TypeOK /\ Places /\ Layout /\ Contexts /\ Ownership /\ Frames /\ FramesWhole
  BY DEF RingsAgree
<1>1. TypeOK'
  BY TypeNext DEF Next
<1>2. /\ UNCHANGED <<pBegin, pNext, pEnd, fBegin, fNext, fEnd, packet, tcb, pi, sent, garbled>>
      /\ pc = "stopped" /\ pc' = "idle" /\ txDescIndex' = 0 /\ hwIndex' = 0 /\ frame' = <<>>
      /\ \A j \in Frags : desc'[j].own = FALSE
  BY DEF Start, ringVars, Zero
<1>3. pBegin = pEnd /\ Oldest = pBegin /\ Oldest' = Oldest /\ Posting = pNext /\ Posting' = pNext
  BY <1>0, <1>2 DEF Places, Oldest, Posting
<1>4. /\ Live' = Live
      /\ \A s : Pos(s)' = Pos(s) /\ Offset(s)' = Offset(s) /\ EndOffset(s)' = EndOffset(s)
  BY <1>2, <1>3, SameRing
<1>5. /\ Pos(pBegin) = 0 /\ \A s \in Slots : Pos(s) \in Nat
      /\ pNext \in Slots /\ fBegin \in Frags
  BY <1>0, PosFacts, TypeFacts
<1>6. Live = {}
  <2>1. \A s \in Slots : ~(0 <= Pos(s) /\ Pos(s) < 0)
    BY <1>5
  <2> QED BY <1>3, <1>5, <2>1 DEF Live
<1>7. Count(fBegin, fNext) = 0 /\ Count(fBegin, fEnd) = 0
  <2>1. fBegin = fEnd
    BY <1>0, <1>3 DEF Layout
  <2>2. Posting = pEnd
    BY <1>0, <1>3, <1>5, PosFacts, PlaceFacts
  <2> QED BY <1>0, <1>5, <2>1, <2>2, CountFacts DEF Layout
<1>8. Posted' = 0 /\ DescBegin' = 0 /\ Taken' = 0 /\ Gone' = 0
  <2>1. Posted' = 0
    BY <1>2, <1>7 DEF Posted, Count
  <2>2. Count(0, 0) = 0
    BY CountFacts, Ring
  <2>3. DescBegin' = 0
    BY <1>2, <2>1, <2>2 DEF DescBegin, Count
  <2>4. Taken' = 0
    BY <1>2, <2>2, <2>3 DEF Taken, Count
  <2>5. Len(frame') = 0
    BY <1>2
  <2> QED BY <2>1, <2>3, <2>4, <2>5 DEF Gone
<1>9. Places'
  <2>1. Pos(pNext)' = Pos(pNext) /\ Pos(pEnd)' = Pos(pEnd)
    BY <1>2 DEF Pos
  <2> QED BY <1>0, <1>2, <2>1 DEF Places
<1>10. Layout'
  <2>1. Count(fBegin, fEnd)' = Count(fBegin, fEnd)
    BY <1>2 DEF Count
  <2> QED BY <1>0, <1>2, <1>3, <1>4, <2>1 DEF Layout
<1>11. Contexts'
  BY <1>4, <1>6 DEF Contexts
<1>12. Ownership'
  <2>1. \A o \in Frags : (At(o)' \in Frags) /\ ~(o < 0)
    <3>1. DescBegin' \in Frags /\ \A o \in Frags : o \in Nat /\ o < NumFragments
      BY <1>8, Ring
    <3>2. \A o \in Frags : At(o)' \in Frags
      BY <3>1, AddFacts DEF At
    <3> QED BY <3>1, <3>2
  <2> QED BY <1>2, <1>8, <2>1 DEF Ownership
<1>13. Frames'
  <2>1. Pos(pEnd)' = Pos(pEnd) /\ Pos(Oldest)' = Pos(Oldest)
    BY <1>2, <1>3 DEF Pos
  <2>2. 0 <= Gone' /\ Taken' <= Posted' /\ Len(frame') = 0
    BY <1>2, <1>8
  <2>3. \A k \in 1 .. Len(frame') : FALSE
    BY <2>2
  <2> QED BY <1>0, <1>2, <1>4, <1>6, <2>1, <2>2, <2>3 DEF Frames
<1> QED BY <1>0, <1>1, <1>2, <1>9, <1>10, <1>11, <1>12, <1>13 DEF RingsAgree, FramesWhole

(* The descriptor given away is the one at the offset of the fragment.     *)
LEMMA PostStatusNext == ASSUME RingsAgree, PostStatus PROVE RingsAgree'
<1>0. TypeOK /\ Places /\ Layout /\ Contexts /\ Ownership /\ Frames /\ FramesWhole
  BY DEF RingsAgree
<1>1. TypeOK'
  BY TypeNext DEF Next, Advance
<1>2. /\ UNCHANGED <<pBegin, pNext, pEnd, fBegin, fNext, fEnd, packet, pi, hwIndex, frame, sent, garbled>>
      /\ pc = "status" /\ pc' = "fields"
      /\ txDescIndex' = FAdd(txDescIndex, 1)
  BY DEF PostStatus, ringVars, hwVars, FAdd
<1>3. /\ pi \in Slots /\ txDescIndex \in Frags /\ fBegin \in Frags
      /\ \A s \in Slots : /\ Pos(s) \in Nat /\ Offset(s) \in Nat /\ EndOffset(s) \in Nat
                          /\ EndOffset(s) = Offset(s) + packet[s].FragmentCount
                          /\ packet[s].FragmentCount \in Nat /\ tcb[s].NumTxDesc \in Nat
  BY <1>0, TypeFacts
<1>4. /\ desc'[txDescIndex].own = TRUE
      /\ desc'[txDescIndex].frag = desc[txDescIndex].frag
      /\ desc'[txDescIndex].fs = (tcb[pi].NumTxDesc = 0)
      /\ desc'[txDescIndex].ls = (tcb[pi].NumTxDesc + 1 = packet[pi].FragmentCount)
      /\ desc'[txDescIndex].eor = (txDescIndex = NumFragments - 1)
      /\ \A j \in Frags : j # txDescIndex => desc'[j] = desc[j]
      /\ tcb'[pi].FirstTxDescIdx = tcb[pi].FirstTxDescIdx
      /\ tcb'[pi].NumTxDesc = tcb[pi].NumTxDesc + 1
      /\ \A s \in Slots : s # pi => tcb'[s] = tcb[s]
  BY <1>0, <1>3 DEF PostStatus, TypeOK
<1>5. /\ Posting = pi /\ pi \in Live /\ Posted = Offset(pi) + tcb[pi].NumTxDesc
      /\ Posted \in Nat /\ Posted \in Frags /\ Offset(pi) = Count(fBegin, fNext)
      /\ Posted <= EndOffset(pi)
      /\ \A s \in Live : Pos(s) < Pos(Posting) => EndOffset(s) <= Count(fBegin, fNext)
  BY <1>0, <1>2, PostedFacts
<1>6. /\ tcb[pi].NumTxDesc # packet[pi].FragmentCount /\ tcb[pi].NumTxDesc <= packet[pi].FragmentCount
      /\ desc[txDescIndex].frag = FAdd(packet[pi].FragmentIndex, tcb[pi].NumTxDesc)
      /\ pi # pEnd /\ ~packet[pi].Ignore
  BY <1>0, <1>2 DEF Places
<1>7. Posted + 1 <= EndOffset(pi) /\ Posted + 1 \in Frags
  <2>1. Posted + 1 <= EndOffset(pi)
    BY <1>3, <1>5, <1>6
  <2>2. EndOffset(pi) <= Count(fBegin, fEnd) /\ Count(fBegin, fEnd) \in Nat /\ Count(fBegin, fEnd) < NumFragments
    BY <1>0, <1>5, TypeFacts DEF Layout
  <2> QED BY <1>3, <1>5, <2>1, <2>2, Ring
<1>8. Oldest' = Oldest /\ Posting' = Posting
  BY <1>2 DEF Oldest, Posting
<1>9. /\ Live' = Live
      /\ \A s : Pos(s)' = Pos(s) /\ Offset(s)' = Offset(s) /\ EndOffset(s)' = EndOffset(s)
  BY <1>2, <1>8, SameRing
<1>10. Posted' = Posted + 1
  <2>1. Posted' = Count(fBegin, fNext) + (tcb[pi].NumTxDesc + 1)
    BY <1>2, <1>4 DEF Posted, Count
  <2> QED BY <1>3, <1>5, <2>1
<1>11. At(Posted) = txDescIndex /\ DescBegin \in Frags
  BY <1>0, AtFacts
<1>12. DescBegin' = DescBegin
  <2>1. FAdd(DescBegin, Posted + 1) = FAdd(txDescIndex, 1)
    BY <1>5, <1>7, <1>11, AddFacts, Ring DEF At
  <2>2. FAdd(Posted + 1, DescBegin) = FAdd(DescBegin, Posted + 1)
    <3>1. (Posted + 1) + DescBegin = DescBegin + (Posted + 1)
      BY <1>5, <1>11, Ring
    <3> QED BY <3>1 DEF FAdd
  <2>3. Count(Posted + 1, FAdd(Posted + 1, DescBegin)) = DescBegin
    BY <1>7, <1>11, AddFacts, Ring
  <2>4. DescBegin' = Count(Posted + 1, FAdd(txDescIndex, 1))
    BY <1>2, <1>10 DEF DescBegin, Count
  <2> QED BY <2>1, <2>2, <2>3, <2>4
<1>13. \A o : At(o)' = At(o)
  BY <1>12 DEF At
<1>14. Taken' = Taken /\ Gone' = Gone
  <2>1. Taken' = Taken
    BY <1>2, <1>12 DEF Taken, Count
  <2> QED BY <1>2, <2>1 DEF Gone
<1>15. Taken \in Nat /\ Gone \in Int /\ Gone <= Taken /\ Taken <= Posted /\ 0 <= Gone
  <2>1. Taken \in Frags /\ Gone \in Int /\ Gone = Taken - Len(frame) /\ Len(frame) \in Nat
    BY <1>0, AtFacts, TypeFacts
  <2>2. 0 <= Gone /\ Taken <= Posted
    BY <1>0 DEF Frames
  <2> QED BY <2>1, <2>2, Ring
<1>16. Places'
  <2>1. Pos(pNext)' = Pos(pNext) /\ Pos(pEnd)' = Pos(pEnd) /\ Pos(pi)' = Pos(pi)
    BY <1>2 DEF Pos
  <2>2. tcb[pi].NumTxDesc + 1 <= packet[pi].FragmentCount
    BY <1>3, <1>6
  <2> QED BY <1>0, <1>2, <1>4, <1>6, <2>1, <2>2 DEF Places
<1>17. Layout'
  <2>1. Count(fBegin, fEnd)' = Count(fBegin, fEnd)
    BY <1>2 DEF Count
  <2> QED BY <1>0, <1>2, <1>8, <1>9, <2>1 DEF Layout
<1>18. Contexts'
  <2>1. \A s \in Live : s \in Slots /\ (Pos(s) < Pos(pi) => s # pi)
    BY <1>3 DEF Live
  <2>2. Pos(Posting)' = Pos(pi)
    BY <1>2, <1>5, <1>8 DEF Pos
  <2> QED BY <1>0, <1>2, <1>4, <1>5, <1>9, <1>13, <2>1, <2>2 DEF Contexts
<1>19. Ownership'
  <2> SUFFICES ASSUME NEW o \in Frags
               PROVE  /\ desc'[At(o)].own <=> Gone <= o /\ o < Posted + 1
                      /\ desc'[At(o)].own =>
                           /\ desc'[At(o)].frag = FAdd(fBegin, o)
                           /\ desc'[At(o)].eor <=> At(o) = NumFragments - 1
                           /\ \A s \in Live : Offset(s) <= o /\ o < EndOffset(s) =>
                                /\ desc'[At(o)].fs <=> o = Offset(s)
                                /\ desc'[At(o)].ls <=> o + 1 = EndOffset(s)
    BY <1>2, <1>9, <1>10, <1>13, <1>14 DEF Ownership
  <2>0. o \in Nat /\ At(o) \in Frags
    BY <1>0, AtFacts, Ring
  <2>1. CASE o = Posted
    <3>1. At(o) = txDescIndex /\ Gone <= o /\ o < Posted + 1
      BY <1>5, <1>11, <1>15, <2>1
    <3>2. desc'[At(o)].frag = FAdd(fBegin, o)
      <4>1. packet[pi].FragmentIndex = FAdd(fBegin, Offset(pi)) /\ Offset(pi) \in Nat /\ tcb[pi].NumTxDesc \in Nat
        BY <1>0, <1>3, TypeFacts
      <4>2. Offset(pi) + tcb[pi].NumTxDesc < NumFragments
        BY <1>5, Ring
      <4>3. FAdd(FAdd(fBegin, Offset(pi)), tcb[pi].NumTxDesc) = FAdd(fBegin, Posted)
        BY <1>3, <1>5, <4>1, <4>2, AddFacts
      <4> QED BY <1>4, <1>6, <2>1, <3>1, <4>1, <4>3
    <3>3. ASSUME NEW s \in Live, Offset(s) <= o, o < EndOffset(s) PROVE s = pi
      <4>1. s \in Slots /\ Pos(s) \in Nat /\ Pos(pi) \in Nat /\ EndOffset(s) \in Nat /\ Offset(s) \in Nat
        BY <1>3 DEF Live
      <4>2. ~(Pos(s) < Pos(pi))
        BY <1>3, <1>5, <2>1, <3>3, <4>1
      <4>3. ~(Pos(s) > Pos(pi))
        <5>1. Pos(pi) < Pos(s) => EndOffset(pi) <= Offset(s)
          BY <1>0, <1>5 DEF Layout
        <5>2. EndOffset(pi) \in Nat
          BY <1>3
        <5> QED BY <1>5, <1>7, <2>1, <3>3, <4>1, <5>1, <5>2
      <4>4. Pos(s) = Pos(pi)
        BY <4>1, <4>2, <4>3
      <4> QED BY <1>0, <1>3, <4>1, <4>4, PosFacts
    <3>4. /\ desc'[At(o)].fs <=> o = Offset(pi)
          /\ desc'[At(o)].ls <=> o + 1 = EndOffset(pi)
      <4>1. Offset(pi) \in Nat /\ tcb[pi].NumTxDesc \in Nat /\ packet[pi].FragmentCount \in Nat
            /\ EndOffset(pi) = Offset(pi) + packet[pi].FragmentCount /\ o = Offset(pi) + tcb[pi].NumTxDesc
        BY <1>3, <1>5, <2>1
      <4>2. (tcb[pi].NumTxDesc = 0 <=> o = Offset(pi))
            /\ (tcb[pi].NumTxDesc + 1 = packet[pi].FragmentCount <=> o + 1 = EndOffset(pi))
        BY <4>1
      <4> QED BY <1>4, <3>1, <4>2
    <3> QED BY <1>4, <3>1, <3>2, <3>3, <3>4
  <2>2. CASE o # Posted
    <3>1. At(o) # txDescIndex
      BY <1>0, <1>5, <1>11, <2>2, AtFacts
    <3>2. desc'[At(o)] = desc[At(o)]
      BY <1>4, <2>0, <3>1
    <3>3. o < Posted + 1 <=> o < Posted
      BY <1>5, <2>0, <2>2
    <3> QED BY <1>0, <3>2, <3>3 DEF Ownership
  <2> QED BY <2>1, <2>2
<1>20. Frames'
  <2>1. Pos(pEnd)' = Pos(pEnd) /\ Pos(Oldest)' = Pos(Oldest)
    BY <1>2, <1>8 DEF Pos
  <2>2. 0 <= Gone' /\ Taken' <= Posted'
    BY <1>5, <1>10, <1>14, <1>15
  <2> QED BY <1>0, <1>2, <1>9, <1>13, <1>14, <2>1, <2>2 DEF Frames
<1> QED BY <1>0, <1>1, <1>2, <1>16, <1>17, <1>18, <1>19, <1>20 DEF RingsAgree, FramesWhole

(* A new packet lies behind the others.                                    *)
LEMMA SubmitNext == ASSUME RingsAgree, NEW n \in 0 .. MaxFragments, Submit(n) PROVE RingsAgree'
<1> DEFINE C == Count(fBegin, fEnd)
<1>0. TypeOK /\ Places /\ Layout /\ Contexts /\ Ownership /\ Frames /\ FramesWhole
  BY DEF RingsAgree
<1>1. TypeOK'
  BY TypeNext DEF Next
<1>2. /\ UNCHANGED <<pBegin, pNext, fBegin, fNext, tcb, desc, txDescIndex, pc, pi, hwIndex, frame, sent, garbled>>
      /\ pc = "idle" /\ PAdd(pEnd, 1) # pBegin /\ C + n < NumFragments
      /\ pEnd' = PAdd(pEnd, 1) /\ fEnd' = FAdd(fEnd, n)
  BY DEF Submit, pcVars, hwVars, Count
<1>3. /\ pEnd \in Slots /\ pBegin \in Slots /\ pNext \in Slots /\ fBegin \in Frags /\ fEnd \in Frags
      /\ C \in Nat /\ n \in Nat
      /\ \A s \in Slots : /\ Pos(s) \in Nat /\ Pos(s) < NumPackets
                          /\ Offset(s) \in Nat /\ EndOffset(s) \in Nat
                          /\ EndOffset(s) = Offset(s) + packet[s].FragmentCount
  <2>1. n \in Nat
    BY Ring
  <2> QED BY <1>0, <2>1, TypeFacts
<1>4. /\ packet'[pEnd].FragmentIndex = fEnd /\ packet'[pEnd].FragmentCount = n
      /\ packet'[pEnd].Ignore = (n = 0)
      /\ \A s \in Slots : s # pEnd => packet'[s] = packet[s]
  BY <1>0, <1>3 DEF Submit, TypeOK
<1>5. /\ pEnd' \in Slots /\ Pos(pEnd') = Pos(pEnd) + 1
  <2>1. Pos(pEnd) + 1 < NumPackets
    <3>1. Pos(pEnd) = IF pEnd >= pBegin THEN pEnd - pBegin ELSE pEnd - pBegin + NumPackets
      BY <1>3, Closed DEF Pos
    <3>2. PAdd(pEnd, 1) = IF pEnd + 1 < NumPackets THEN pEnd + 1 ELSE pEnd + 1 - NumPackets
      BY <1>3, Closed, Ring
    <3> QED BY <1>2, <1>3, <3>1, <3>2, Ring
  <2> QED BY <1>0, <1>2, <1>3, <2>1, PosFacts
<1>6. Oldest = pBegin /\ Oldest' = pBegin /\ Posting = pNext /\ Posting' = pNext
  BY <1>2 DEF Oldest, Posting
<1>7. \A s : Pos(s)' = Pos(s)
  BY <1>2 DEF Pos
<1>8. Pos(pBegin) = 0 /\ Pos(pNext) <= Pos(pEnd)
  BY <1>0, PosFacts DEF Places
<1>9. /\ \A s : s \in Live <=> s \in Slots /\ 0 <= Pos(s) /\ Pos(s) < Pos(pEnd)
      /\ \A s : s \in Live' <=> s \in Slots /\ 0 <= Pos(s) /\ Pos(s) < Pos(pEnd) + 1
  <2>1. Pos(pEnd)' = Pos(pEnd) + 1 /\ Pos(Oldest)' = 0
    BY <1>2, <1>5, <1>6, <1>8 DEF Pos
  <2>2. Live' = {s \in Slots : Pos(Oldest)' <= Pos(s)' /\ Pos(s)' < Pos(pEnd)'}
    BY DEF Live
  <2> QED BY <1>6, <1>7, <1>8, <2>1, <2>2 DEF Live
<1>10. \A s \in Live' : s \in Live \/ s = pEnd
  <2>1. ASSUME NEW s \in Live', s # pEnd PROVE s \in Live
    <3>1. s \in Slots /\ Pos(s) < Pos(pEnd) + 1 /\ Pos(s) # Pos(pEnd)
      BY <1>0, <1>3, <1>9, <2>1, PosFacts
    <3> QED BY <1>3, <1>9, <3>1
  <2> QED BY <2>1
<1>11. \A s \in Live : s \in Live' /\ s \in Slots /\ s # pEnd /\ packet'[s] = packet[s]
  <2>1. \A s \in Live : s \in Slots /\ s # pEnd
    BY <1>3, <1>9
  <2>2. \A s \in Live : s \in Live'
    BY <1>3, <1>9
  <2> QED BY <1>4, <2>1, <2>2
<1>12. pEnd \in Live'
  BY <1>3, <1>9
<1>13. \A s \in Slots : s # pEnd => Offset(s)' = Offset(s) /\ EndOffset(s)' = EndOffset(s)
  <2>1. \A s \in Slots : s # pEnd => Offset(s)' = Offset(s)
    BY <1>2, <1>4 DEF Offset, Count
  <2> QED BY <1>4, <2>1 DEF EndOffset
<1>14. ASSUME NEW s \in Slots, s = pEnd PROVE Offset(s)' = C /\ EndOffset(s)' = C + n
  <2>1. Offset(s)' = C
    BY <1>2, <1>4, <1>14 DEF Offset, Count
  <2> QED BY <1>4, <1>14, <2>1 DEF EndOffset
<1>15. Count(fBegin, fEnd)' = C + n
  <2>1. FAdd(fBegin, C) = fEnd
    BY <1>3, CountFacts
  <2>2. FAdd(fEnd, n) = FAdd(fBegin, C + n)
    BY <1>2, <1>3, <2>1, AddFacts
  <2>3. Count(fBegin, FAdd(fBegin, C + n)) = C + n
    BY <1>2, <1>3, AddFacts
  <2> QED BY <1>2, <2>2, <2>3 DEF Count
<1>16. /\ Posted' = Posted /\ DescBegin' = DescBegin /\ Taken' = Taken /\ Gone' = Gone
       /\ \A o : At(o)' = At(o)
  <2>1. Posted' = Posted
    BY <1>2 DEF Posted, Count
  <2>2. DescBegin' = DescBegin
    BY <1>2, <2>1 DEF DescBegin, Count
  <2>3. Taken' = Taken
    BY <1>2, <2>2 DEF Taken, Count
  <2> QED BY <1>2, <2>1, <2>2, <2>3 DEF Gone, At
<1>17. /\ Posted \in Nat /\ Posted <= C /\ Taken \in Nat /\ Gone \in Int /\ Gone <= Taken
       /\ 0 <= Gone /\ Taken <= Posted
  <2>1. Taken \in Frags /\ Gone \in Int /\ Gone = Taken - Len(frame) /\ Len(frame) \in Nat
    BY <1>0, AtFacts, TypeFacts
  <2>2. 0 <= Gone /\ Taken <= Posted
    BY <1>0 DEF Frames
  <2>3. Posted \in Nat /\ Posted <= C
    BY <1>0, PostedFacts
  <2> QED BY <2>1, <2>2, <2>3, Ring
<1>18. /\ \A s \in Live : /\ packet[s].Ignore <=> packet[s].FragmentCount = 0
                          /\ EndOffset(s) <= C
                          /\ IF PAdd(s, 1) = pEnd THEN EndOffset(s) = C
                             ELSE EndOffset(s) = Offset(PAdd(s, 1))
       /\ \A s, t \in Live : Pos(s) < Pos(t) => EndOffset(s) <= Offset(t)
       /\ \A o \in Frags : o < C => \E s \in Live : Offset(s) <= o /\ o < EndOffset(s)
       /\ fBegin = IF Oldest = pEnd THEN fEnd ELSE packet[Oldest].FragmentIndex
       /\ fNext = IF Posting = pEnd THEN fEnd ELSE packet[Posting].FragmentIndex
  BY <1>0 DEF Layout
<1> HIDE DEF C
<1>19. Places'
  <2>1. Pos(pNext)' = Pos(pNext) /\ Pos(pEnd)' = Pos(pEnd) + 1
    BY <1>2, <1>5 DEF Pos
  <2>2. Pos(pNext) <= Pos(pEnd) + 1
    BY <1>3, <1>8
  <2> QED BY <1>2, <2>1, <2>2 DEF Places
<1>20. Layout'
  <2>1. ASSUME NEW s \in Live'
        PROVE  /\ packet'[s].Ignore <=> packet'[s].FragmentCount = 0
               /\ EndOffset(s)' <= C + n
               /\ IF PAdd(s, 1) = pEnd' THEN EndOffset(s)' = C + n
                  ELSE EndOffset(s)' = Offset(PAdd(s, 1))'
    <3>1. CASE s = pEnd
      <4>1. EndOffset(s)' = C + n /\ C + n <= C + n
        BY <1>3, <1>14, <3>1
      <4>2. packet'[s].Ignore <=> packet'[s].FragmentCount = 0
        BY <1>4, <3>1
      <4> QED BY <1>2, <3>1, <4>1, <4>2
    <3>2. CASE s # pEnd
      <4>1. s \in Live /\ s \in Slots /\ packet'[s] = packet[s] /\ EndOffset(s)' = EndOffset(s)
        BY <1>10, <1>11, <1>13, <2>1, <3>2
      <4>2. EndOffset(s) <= C + n
        BY <1>3, <1>18, <4>1
      <4>3. PAdd(s, 1) \in Slots /\ Pos(PAdd(s, 1)) = Pos(s) + 1 /\ Pos(s) < Pos(pEnd)
        BY <1>0, <4>1, PlaceFacts
      <4>4. PAdd(s, 1) # pEnd'
        BY <1>3, <1>5, <4>1, <4>3
      <4>5. EndOffset(s) = Offset(PAdd(s, 1))'
        <5>1. CASE PAdd(s, 1) = pEnd
          BY <1>14, <1>18, <4>1, <4>3, <5>1
        <5>2. CASE PAdd(s, 1) # pEnd
          BY <1>13, <1>18, <4>1, <4>3, <5>2
        <5> QED BY <5>1, <5>2
      <4> QED BY <1>18, <4>1, <4>2, <4>4, <4>5
    <3> QED BY <3>1, <3>2
  <2>2. ASSUME NEW s \in Live', NEW t \in Live', Pos(s) < Pos(t) PROVE EndOffset(s)' <= Offset(t)'
    <3>1. s \in Slots /\ t \in Slots /\ Pos(t) < Pos(pEnd) + 1 /\ Pos(s) \in Nat /\ Pos(t) \in Nat /\ Pos(pEnd) \in Nat
      BY <1>3, <1>9, <2>2
    <3>2. s # pEnd
      BY <2>2, <3>1
    <3>3. s \in Live /\ EndOffset(s)' = EndOffset(s)
      BY <1>10, <1>13, <2>2, <3>1, <3>2
    <3>4. CASE t = pEnd
      BY <1>14, <1>18, <3>1, <3>3, <3>4
    <3>5. CASE t # pEnd
      BY <1>10, <1>13, <1>18, <2>2, <3>1, <3>3, <3>5
    <3> QED BY <3>4, <3>5
  <2>3. ASSUME NEW o \in Frags, o < C + n PROVE \E s \in Live' : Offset(s)' <= o /\ o < EndOffset(s)'
    <3>1. CASE o < C
      <4>1. PICK s \in Live : Offset(s) <= o /\ o < EndOffset(s)
        BY <1>18, <2>3, <3>1
      <4>2. s \in Live' /\ Offset(s)' = Offset(s) /\ EndOffset(s)' = EndOffset(s)
        BY <1>11, <1>13, <4>1
      <4> QED BY <4>1, <4>2
    <3>2. CASE ~(o < C)
      <4>1. o \in Int /\ C <= o
        BY <1>3, <2>3, <3>2, Ring
      <4>2. \A s \in Slots : s = pEnd => Offset(s)' <= o /\ o < EndOffset(s)'
        BY <1>14, <2>3, <4>1
      <4> QED BY <1>3, <1>12, <4>2
    <3> QED BY <3>1, <3>2
  <2>4. fBegin' = IF Oldest' = pEnd' THEN fEnd' ELSE packet'[Oldest'].FragmentIndex
    BY <1>2, <1>3, <1>4, <1>6, <1>18
  <2>5. fNext' = IF Posting' = pEnd' THEN fEnd' ELSE packet'[Posting'].FragmentIndex
    <3>1. pNext # pEnd'
      BY <1>3, <1>5, <1>8
    <3> QED BY <1>2, <1>3, <1>4, <1>6, <1>18, <3>1
  <2> QED BY <1>7, <1>15, <2>1, <2>2, <2>3, <2>4, <2>5 DEF Layout
<1>21. Contexts'
  <2>1. Pos(Posting)' = Pos(pNext)
    BY <1>2, <1>6 DEF Pos
  <2>2. ASSUME NEW s \in Live', ~packet'[s].Ignore, Pos(s) < Pos(pNext)
        PROVE  tcb[s].FirstTxDescIdx = At(Offset(s)') /\ tcb[s].NumTxDesc = packet'[s].FragmentCount
    <3>1. s # pEnd
      BY <1>3, <1>8, <2>2
    <3>2. s \in Live /\ s \in Slots /\ packet'[s] = packet[s] /\ Offset(s)' = Offset(s)
      BY <1>10, <1>11, <1>13, <2>2, <3>1
    <3> QED BY <1>0, <1>6, <2>2, <3>2 DEF Contexts
  <2> QED BY <1>2, <1>7, <1>16, <2>1, <2>2 DEF Contexts
<1>22. Ownership'
  <2> SUFFICES ASSUME NEW o \in Frags
               PROVE  /\ desc[At(o)].own <=> Gone <= o /\ o < Posted
                      /\ desc[At(o)].own =>
                           /\ desc[At(o)].frag = FAdd(fBegin, o)
                           /\ desc[At(o)].eor <=> At(o) = NumFragments - 1
                           /\ \A s \in Live' : Offset(s)' <= o /\ o < EndOffset(s)' =>
                                /\ desc[At(o)].fs <=> o = Offset(s)'
                                /\ desc[At(o)].ls <=> o + 1 = EndOffset(s)'
    BY <1>2, <1>16 DEF Ownership
  <2>1. ASSUME NEW s \in Live', Offset(s)' <= o, o < Posted
        PROVE  s \in Live /\ Offset(s)' = Offset(s) /\ EndOffset(s)' = EndOffset(s)
    <3>1. s \in Slots /\ o \in Int
      BY <1>9, <2>1, Ring
    <3>2. s # pEnd
      BY <1>3, <1>14, <1>17, <2>1, <3>1
    <3> QED BY <1>10, <1>13, <2>1, <3>1, <3>2
  <2> QED BY <1>0, <2>1 DEF Ownership
<1>23. Frames'
  <2>1. ASSUME NEW s \in Live', ~packet'[s].Ignore
        PROVE  IF s \in sent THEN EndOffset(s)' <= Gone ELSE Gone <= Offset(s)' /\ Taken < EndOffset(s)'
    <3>1. CASE s = pEnd
      <4>1. s \notin sent
        <5>1. s \in sent => Pos(s) < Pos(pEnd)
          BY <1>0 DEF Frames
        <5>2. Pos(pEnd) \in Nat
          BY <1>3
        <5> QED BY <3>1, <5>1, <5>2
      <4>2. n # 0
        BY <1>4, <2>1, <3>1
      <4>3. Offset(s)' = C /\ EndOffset(s)' = C + n
        BY <1>3, <1>14, <3>1
      <4> QED BY <1>3, <1>17, <4>1, <4>2, <4>3
    <3>2. CASE s # pEnd
      <4>1. s \in Live /\ packet'[s] = packet[s] /\ Offset(s)' = Offset(s) /\ EndOffset(s)' = EndOffset(s)
        BY <1>10, <1>11, <1>13, <2>1, <3>2
      <4> QED BY <1>0, <2>1, <4>1 DEF Frames
    <3> QED BY <3>1, <3>2
  <2>2. ASSUME NEW s \in sent PROVE Pos(s) < Pos(pEnd) + 1 /\ ~packet'[s].Ignore
    <3>1. s \in Slots /\ Pos(s) < Pos(pEnd) /\ ~packet[s].Ignore
      BY <1>0, <2>2 DEF Frames, TypeOK
    <3>2. Pos(s) < Pos(pEnd) + 1 /\ s # pEnd
      BY <1>3, <3>1
    <3> QED BY <1>4, <3>1, <3>2
  <2>3. Pos(pEnd)' = Pos(pEnd) + 1 /\ Pos(Oldest)' = 0
    BY <1>2, <1>5, <1>6, <1>8 DEF Pos
  <2>4. \A s \in Slots : ~(Pos(s) < 0)
    BY <1>3
  <2>5. \A k \in 1 .. Len(frame) :
          frame[k] = [index |-> At(Gone + k - 1), frag |-> FAdd(fBegin, Gone + k - 1), fs |-> (k = 1)]
    BY <1>0 DEF Frames
  <2> QED BY <1>2, <1>7, <1>16, <1>17, <2>1, <2>2, <2>3, <2>4, <2>5 DEF Frames
<1> QED BY <1>0, <1>1, <1>2, <1>19, <1>20, <1>21, <1>22, <1>23 DEF RingsAgree, FramesWhole

(* Completing a packet: the next one is the oldest.                        *)
LEMMA OldestFacts ==
  ASSUME RingsAgree, CompletePacket
  PROVE  /\ TypeOK' /\ Places' /\ pi \in Live /\ Offset(pi) = 0 /\ Pos(pi) < Pos(pNext)
         /\ PAdd(pi, 1) \in Slots /\ Pos(PAdd(pi, 1)) = Pos(pi) + 1
         /\ UNCHANGED <<pBegin, pNext, pEnd, fNext, fEnd, packet, tcb, txDescIndex, pc, hwIndex, frame,
                        sent, garbled>>
         /\ pc = "complete" /\ Posting = pNext /\ Posting' = pNext /\ Oldest = pi /\ Oldest' = PAdd(pi, 1)
         /\ \A s : s \in Live' <=> s \in Live /\ s # pi
         /\ \A s : s \in Live' => s \in Slots /\ Pos(s) > Pos(pi)
         /\ \A s : Pos(s)' = Pos(s)
         /\ \A s \in Slots : Pos(s) < Pos(Oldest') <=> Pos(s) < Pos(pi) \/ s = pi
<1>0. TypeOK /\ Places /\ Layout
  BY DEF RingsAgree
<1>1. TypeOK'
  BY TypeNext DEF Next, Advance
<1>2. /\ UNCHANGED <<pBegin, pNext, pEnd, fNext, fEnd, packet, tcb, txDescIndex, pc, hwIndex, frame,
                     sent, garbled>>
      /\ pc = "complete" /\ pi # pNext /\ pi' = PAdd(pi, 1)
  BY DEF CompletePacket, hwVars
<1>3. Posting = pNext /\ Posting' = pNext /\ Oldest = pi /\ Oldest' = PAdd(pi, 1)
  BY <1>2 DEF Posting, Oldest
<1>4. /\ pi \in Slots /\ pNext \in Slots /\ pEnd \in Slots /\ fBegin \in Frags
      /\ \A s \in Slots : Pos(s) \in Nat
  BY <1>0, TypeFacts
<1>5. Pos(pi) < Pos(pNext) /\ Pos(pNext) <= Pos(pEnd)
  <2>1. Pos(pi) # Pos(pNext) /\ Pos(pi) <= Pos(pNext) /\ Pos(pNext) <= Pos(pEnd)
    BY <1>0, <1>2, <1>4, PosFacts DEF Places
  <2> QED BY <1>4, <2>1
<1>6. pi # pEnd
  BY <1>4, <1>5
<1>7. pi \in Live /\ PAdd(pi, 1) \in Slots /\ Pos(PAdd(pi, 1)) = Pos(pi) + 1
  BY <1>0, <1>3, <1>6, PlaceFacts
<1>8. Offset(pi) = 0
  <2>1. fBegin = packet[pi].FragmentIndex
    BY <1>0, <1>3, <1>6 DEF Layout
  <2> QED BY <1>4, <2>1, CountFacts DEF Offset
<1>9. \A s : Pos(s)' = Pos(s)
  BY <1>2 DEF Pos
<1>10. \A s : s \in Live' <=> s \in Slots /\ Pos(pi) + 1 <= Pos(s) /\ Pos(s) < Pos(pEnd)
  <2>1. Pos(pEnd)' = Pos(pEnd) /\ Pos(Oldest)' = Pos(pi) + 1
    BY <1>2, <1>3, <1>7 DEF Pos
  <2>2. Live' = {s \in Slots : Pos(Oldest)' <= Pos(s)' /\ Pos(s)' < Pos(pEnd)'}
    BY DEF Live
  <2> QED BY <1>9, <2>1, <2>2
<1>11. \A s : s \in Live <=> s \in Slots /\ Pos(pi) <= Pos(s) /\ Pos(s) < Pos(pEnd)
  BY <1>3 DEF Live
<1>12. \A s \in Slots : Pos(s) = Pos(pi) => s = pi
  BY <1>0, <1>4, PosFacts
<1>13. \A s : s \in Live' <=> s \in Live /\ s # pi
  BY <1>4, <1>10, <1>11, <1>12
<1>14. \A s : s \in Live' => s \in Slots /\ Pos(s) > Pos(pi)
  BY <1>4, <1>10
<1>15. \A s \in Slots : Pos(s) < Pos(Oldest') <=> Pos(s) < Pos(pi) \/ s = pi
  BY <1>3, <1>4, <1>7, <1>12
<1>16. Places'
  <2>1. Pos(pNext)' = Pos(pNext) /\ Pos(pEnd)' = Pos(pEnd) /\ Pos(pi)' = Pos(pi) + 1
    BY <1>2, <1>7 DEF Pos
  <2>2. Pos(pi) + 1 <= Pos(pNext)
    BY <1>4, <1>5
  <2> QED BY <1>2, <1>5, <2>1, <2>2 DEF Places
<1> QED BY <1>1, <1>2, <1>3, <1>5, <1>7, <1>8, <1>9, <1>13, <1>14, <1>15, <1>16

LEMMA CompleteIgnoredNext == ASSUME RingsAgree, CompletePacket, packet[pi].Ignore PROVE RingsAgree'
<1>0. TypeOK /\ Places /\ Layout /\ Contexts /\ Ownership /\ Frames /\ FramesWhole
  BY DEF RingsAgree
<1>1. /\ TypeOK' /\ Places' /\ pi \in Live /\ Offset(pi) = 0
      /\ PAdd(pi, 1) \in Slots
      /\ UNCHANGED <<pBegin, pNext, pEnd, fNext, fEnd, packet, tcb, txDescIndex, pc, hwIndex, frame,
                     sent, garbled>>
      /\ pc = "complete" /\ Posting = pNext /\ Posting' = pNext /\ Oldest = pi /\ Oldest' = PAdd(pi, 1)
      /\ \A s : s \in Live' <=> s \in Live /\ s # pi
      /\ \A s : Pos(s)' = Pos(s)
      /\ \A s \in Slots : Pos(s) < Pos(Oldest') <=> Pos(s) < Pos(pi) \/ s = pi
  BY OldestFacts
<1>2. desc' = desc /\ fBegin' = fBegin
  BY DEF CompletePacket
<1>3. \A s : Offset(s)' = Offset(s) /\ EndOffset(s)' = EndOffset(s)
  <2>1. \A s : Offset(s)' = Offset(s)
    BY <1>1, <1>2 DEF Offset, Count
  <2> QED BY <1>1, <2>1 DEF EndOffset
<1>4. /\ Posted' = Posted /\ DescBegin' = DescBegin /\ Taken' = Taken /\ Gone' = Gone
      /\ \A o : At(o)' = At(o)
  <2>1. Posted' = Posted
    BY <1>1, <1>2 DEF Posted, Count
  <2>2. DescBegin' = DescBegin
    BY <1>1, <2>1 DEF DescBegin, Count
  <2>3. Taken' = Taken
    BY <1>1, <2>2 DEF Taken, Count
  <2> QED BY <1>1, <2>1, <2>2, <2>3 DEF Gone, At
<1>5. pi \in Slots /\ packet[pi].FragmentCount = 0 /\ EndOffset(pi) = 0
  <2>1. pi \in Slots /\ packet[pi].FragmentCount = 0
    BY <1>0, <1>1, TypeFacts DEF Layout
  <2> QED BY <1>1, <2>1 DEF EndOffset
<1>6. Layout'
  <2>1. Count(fBegin, fEnd)' = Count(fBegin, fEnd)
    BY <1>1, <1>2 DEF Count
  <2>2. fBegin' = IF Oldest' = pEnd' THEN fEnd' ELSE packet'[Oldest'].FragmentIndex
    <3>1. fBegin = FragmentEnd(pi)
      <4>1. Count(fBegin, FragmentEnd(pi)) = 0
        BY <1>0, <1>1, <1>5, NextFacts
      <4>2. FragmentEnd(pi) = packet[pi].FragmentIndex
        BY <1>0, <1>5, TypeFacts, AddFacts DEF FragmentEnd
      <4>3. fBegin = packet[pi].FragmentIndex
        <5>1. FAdd(fBegin, Offset(pi)) = packet[pi].FragmentIndex /\ fBegin \in Frags
          BY <1>0, <1>5, TypeFacts
        <5> QED BY <1>1, <5>1, AddFacts
      <4> QED BY <4>2, <4>3
    <3> QED BY <1>0, <1>1, <1>2, <3>1, NextFacts
  <2>3. ASSUME NEW o \in Frags, o < Count(fBegin, fEnd)
        PROVE  \E s \in Live' : Offset(s) <= o /\ o < EndOffset(s)
    <3>1. PICK s \in Live : Offset(s) <= o /\ o < EndOffset(s)
      BY <1>0, <2>3 DEF Layout
    <3>2. s # pi
      BY <1>5, <2>3, <3>1, Ring
    <3> QED BY <1>1, <3>1, <3>2
  <2> QED BY <1>0, <1>1, <1>3, <2>1, <2>2, <2>3 DEF Layout
<1>7. Contexts'
  <2>1. Pos(Posting)' = Pos(Posting)
    BY <1>1 DEF Pos
  <2> QED BY <1>0, <1>1, <1>3, <1>4, <2>1 DEF Contexts
<1>8. Ownership'
  BY <1>0, <1>1, <1>2, <1>3, <1>4 DEF Ownership
<1>9. Frames'
  <2>1. Pos(pEnd)' = Pos(pEnd) /\ Pos(Oldest)' = Pos(Oldest')
    BY <1>1 DEF Pos
  <2> QED BY <1>0, <1>1, <1>2, <1>3, <1>4, <2>1 DEF Frames
<1> QED BY <1>0, <1>1, <1>6, <1>7, <1>8, <1>9 DEF RingsAgree, FramesWhole

(* The device has read the whole packet before its first descriptor comes  *)
(* back; rings and descriptors are then counted from the next packet.      *)
LEMMA CompleteTakenNext == ASSUME RingsAgree, CompletePacket, ~packet[pi].Ignore PROVE RingsAgree'
<1> DEFINE c == packet[pi].FragmentCount
<1>0. TypeOK /\ Places /\ Layout /\ Contexts /\ Ownership /\ Frames /\ FramesWhole
  BY DEF RingsAgree
<1>1. /\ TypeOK' /\ Places' /\ pi \in Live /\ Offset(pi) = 0 /\ Pos(pi) < Pos(pNext)
      /\ PAdd(pi, 1) \in Slots
      /\ UNCHANGED <<pBegin, pNext, pEnd, fNext, fEnd, packet, tcb, txDescIndex, pc, hwIndex, frame,
                     sent, garbled>>
      /\ pc = "complete" /\ Posting = pNext /\ Posting' = pNext /\ Oldest = pi /\ Oldest' = PAdd(pi, 1)
      /\ \A s : s \in Live' <=> s \in Live /\ s # pi
      /\ \A s : s \in Live' => s \in Slots /\ Pos(s) > Pos(pi)
      /\ \A s : Pos(s)' = Pos(s)
      /\ \A s \in Slots : Pos(s) < Pos(Oldest') <=> Pos(s) < Pos(pi) \/ s = pi
  BY OldestFacts
<1>2. /\ ~TransferPending(pi) /\ fBegin' = FragmentEnd(pi)
      /\ desc' = [j \in Frags |-> IF j \in Descriptors(pi) THEN [Zero EXCEPT !.frag = desc[j].frag] ELSE desc[j]]
  BY DEF CompletePacket
<1>3. /\ pi \in Slots /\ fBegin \in Frags /\ fBegin' \in Frags /\ fNext \in Frags /\ fEnd \in Frags
      /\ txDescIndex \in Frags /\ hwIndex \in Frags
      /\ Len(frame) \in Nat
      /\ \A s \in Slots : /\ Pos(s) \in Nat /\ Offset(s) \in Nat /\ Offset(s) < NumFragments
                          /\ EndOffset(s) \in Nat
                          /\ EndOffset(s) = Offset(s) + packet[s].FragmentCount
                          /\ packet[s].FragmentIndex \in Frags /\ packet[s].FragmentCount \in Nat
  <2>1. pi \in Slots /\ fBegin' \in Frags
    BY <1>0, <1>1 DEF TypeOK
  <2> QED BY <1>0, <2>1, TypeFacts
<1>4. c \in Nat /\ c > 0 /\ EndOffset(pi) = c
  <2>1. c # 0
    BY <1>0, <1>1 DEF Layout
  <2>2. EndOffset(pi) = Offset(pi) + c /\ c \in Nat
    BY <1>3
  <2> QED BY <1>1, <2>1, <2>2
<1>5. Posted = Count(fBegin, fNext) /\ Posted \in Nat /\ Posted \in Frags /\ c <= Posted
      /\ Posted <= Count(fBegin, fEnd)
  <2>1. EndOffset(pi) <= Count(fBegin, fNext)
    BY <1>0, <1>1, PostedFacts
  <2> QED BY <1>0, <1>1, <1>4, <2>1, PostedFacts
<1>6. /\ DescBegin \in Frags /\ At(Posted) = txDescIndex
      /\ \A o \in Frags : At(o) \in Frags /\ Count(DescBegin, At(o)) = o
      /\ \A o, q \in Frags : At(o) = At(q) => o = q
      /\ \A j \in Frags : Count(DescBegin, j) \in Frags /\ At(Count(DescBegin, j)) = j
      /\ Taken \in Frags /\ At(Taken) = hwIndex
      /\ Gone \in Int /\ Gone = Taken - Len(frame)
  BY <1>0, AtFacts
<1>7. c \in Frags /\ 0 \in Frags
  BY <1>4, <1>5, Ring
<1>8. tcb[pi].FirstTxDescIdx = At(0) /\ tcb[pi].NumTxDesc = c
  BY <1>0, <1>1 DEF Contexts
<1>9. pi \in sent /\ c <= Gone
  <2>1. ~desc[At(0)].own
    BY <1>2, <1>8 DEF TransferPending
  <2>2. ~(Gone <= 0 /\ 0 < Posted)
    BY <1>0, <1>7, <2>1 DEF Ownership
  <2>3. ~(Gone <= 0)
    BY <1>4, <1>5, <2>2
  <2>4. IF pi \in sent THEN EndOffset(pi) <= Gone ELSE Gone <= Offset(pi)
    BY <1>0, <1>1 DEF Frames
  <2> QED BY <1>1, <1>4, <2>3, <2>4
<1>10. Taken \in Nat /\ Gone <= Taken /\ Taken <= Posted /\ c <= Taken /\ Taken < NumFragments /\ Posted < NumFragments
  <2>1. Taken \in Nat /\ Taken < NumFragments /\ Posted < NumFragments
    BY <1>5, <1>6, Ring
  <2>2. Taken <= Posted
    BY <1>0 DEF Frames
  <2> QED BY <1>3, <1>4, <1>6, <1>9, <2>1, <2>2
<1>11. \A j \in Frags : j \in Descriptors(pi) <=> \E k \in 0 .. c - 1 : j = At(k)
  <2>1. ASSUME NEW k \in 0 .. c - 1 PROVE FAdd(At(0), k) = At(k)
    <3>1. k \in Nat /\ 0 + k < NumFragments /\ 0 + k = k
      BY <1>4, <1>7, <2>1, Ring
    <3> QED BY <1>6, <3>1, AddFacts DEF At
  <2> QED BY <1>8, <2>1 DEF Descriptors
<1> HIDE DEF c
<1>12. /\ Count(fBegin, fBegin') = c
       /\ \A x \in Frags : c <= Count(fBegin, x) => Count(fBegin', x) = Count(fBegin, x) - c
  <2>1. Count(fBegin, fBegin') = c
    BY <1>0, <1>1, <1>2, <1>4, NextFacts
  <2> QED BY <1>3, <2>1, CountFacts
<1>13. ASSUME NEW s \in Live'
       PROVE  /\ s \in Live /\ s \in Slots /\ s # pi /\ c <= Offset(s)
              /\ Offset(s)' = Offset(s) - c /\ EndOffset(s)' = EndOffset(s) - c
  <2>1. s \in Live /\ s \in Slots /\ s # pi /\ Pos(pi) < Pos(s)
    BY <1>1, <1>3, <1>13
  <2>2. c <= Offset(s)
    BY <1>0, <1>1, <1>4, <2>1 DEF Layout
  <2>3. Offset(s)' = Offset(s) - c
    <3>1. Offset(s)' = Count(fBegin', packet[s].FragmentIndex)
      BY <1>1 DEF Offset, Count
    <3>2. c <= Count(fBegin, packet[s].FragmentIndex) /\ packet[s].FragmentIndex \in Frags
      BY <1>3, <2>1, <2>2 DEF Offset
    <3> QED BY <1>12, <3>1, <3>2 DEF Offset
  <2>4. EndOffset(s)' = EndOffset(s) - c
    <3>1. EndOffset(s)' = (Offset(s) - c) + packet[s].FragmentCount
      BY <1>1, <2>3 DEF EndOffset
    <3> QED BY <1>3, <1>4, <2>1, <3>1
  <2> QED BY <2>1, <2>2, <2>3, <2>4
<1>14. Posted' = Posted - c /\ Posted - c \in Frags
  <2>1. Posted' = Count(fBegin', fNext)
    <3>1. Count(fBegin', fNext) \in Nat
      BY <1>3, CountFacts
    <3>2. Posted' = Count(fBegin', fNext) + 0
      BY <1>1 DEF Posted, Count
    <3> QED BY <3>1, <3>2
  <2>2. Posted' = Posted - c
    BY <1>3, <1>5, <1>12, <2>1
  <2> QED BY <1>4, <1>5, <1>10, <2>2, Ring
<1>15. DescBegin' = At(c) /\ At(c) \in Frags
  <2>1. At(c) \in Frags
    BY <1>6, <1>7
  <2>2. FAdd(At(c), Posted - c) = txDescIndex
    <3>1. c + (Posted - c) = Posted /\ Posted - c \in Nat /\ c + (Posted - c) < NumFragments
      BY <1>4, <1>5, <1>10
    <3>2. FAdd(FAdd(DescBegin, c), Posted - c) = FAdd(DescBegin, c + (Posted - c))
      BY <1>4, <1>6, <3>1, AddFacts
    <3> QED BY <1>6, <3>1, <3>2 DEF At
  <2>3. FAdd(Posted - c, At(c)) = FAdd(At(c), Posted - c)
    <3>1. (Posted - c) + At(c) = At(c) + (Posted - c)
      BY <1>4, <1>5, <2>1, Ring
    <3> QED BY <3>1 DEF FAdd
  <2>4. Count(Posted - c, FAdd(Posted - c, At(c))) = At(c)
    BY <1>14, <2>1, AddFacts, Ring
  <2>5. DescBegin' = Count(Posted - c, txDescIndex)
    BY <1>1, <1>14 DEF DescBegin, Count
  <2> QED BY <2>1, <2>2, <2>3, <2>4, <2>5
<1>16. \A q \in Nat : c + q < NumFragments => At(q)' = At(c + q)
  <2>1. \A q \in Nat : c + q < NumFragments => FAdd(FAdd(DescBegin, c), q) = FAdd(DescBegin, c + q)
    BY <1>4, <1>6, AddFacts
  <2>2. \A q : At(q)' = FAdd(At(c), q)
    BY <1>15 DEF At
  <2> QED BY <2>1, <2>2 DEF At
<1>17. /\ Taken' = Taken - c /\ Gone' = Gone - c
  <2>1. Count(DescBegin, At(c)) = c
    BY <1>6, <1>7
  <2>2. Count(At(c), hwIndex) = Taken - c
    <3>1. Count(DescBegin, At(c)) <= Count(DescBegin, hwIndex) =>
            Count(At(c), hwIndex) = Count(DescBegin, hwIndex) - Count(DescBegin, At(c))
      BY <1>3, <1>6, <1>15, CountFacts
    <3> QED BY <1>10, <2>1, <3>1 DEF Taken
  <2>3. Taken' = Taken - c
    BY <1>1, <1>15, <2>2 DEF Taken, Count
  <2>4. Gone' = (Taken - c) - Len(frame)
    BY <1>1, <2>3 DEF Gone
  <2> QED BY <1>3, <1>4, <1>6, <1>10, <2>3, <2>4
<1>18. ASSUME NEW o \in Frags
       PROVE  \E q \in Frags : /\ At(o)' = At(q)
                               /\ (c <= q /\ o = q - c) \/ (q < c /\ o = q - c + NumFragments)
  <2>1. At(o)' = FAdd(At(c), o) /\ o \in Nat /\ o < NumFragments
    BY <1>15, Ring DEF At
  <2> DEFINE x == At(o)'
             q == Count(DescBegin, x)
  <2>2. x \in Frags /\ Count(At(c), x) = o
    <3>1. FAdd(At(c), o) \in Frags /\ Count(At(c), FAdd(At(c), o)) = o
      BY <1>15, <2>1, AddFacts
    <3> QED BY <2>1, <3>1
  <2> HIDE DEF x
  <2>3. q \in Frags /\ At(q) = x
    BY <1>6, <2>2
  <2>4. o = IF c <= q THEN q - c ELSE q - c + NumFragments
    <3>1. Count(DescBegin, At(c)) = c
      BY <1>6, <1>7
    <3>2. Count(At(c), x) = IF Count(DescBegin, At(c)) <= Count(DescBegin, x)
                            THEN Count(DescBegin, x) - Count(DescBegin, At(c))
                            ELSE Count(DescBegin, x) - Count(DescBegin, At(c)) + NumFragments
      <4>1. \A b, e, f \in Frags :
              Count(f, e) = IF Count(b, f) <= Count(b, e) THEN Count(b, e) - Count(b, f)
                            ELSE Count(b, e) - Count(b, f) + NumFragments
        BY CountFacts
      <4>2. DescBegin \in Frags /\ At(c) \in Frags /\ x \in Frags
        BY <1>6, <1>15, <2>2
      <4> QED BY <4>1, <4>2, Zenon
    <3> QED BY <2>2, <3>1, <3>2
  <2> HIDE DEF q
  <2>5. q \in Int /\ c \in Int
    BY <1>4, <2>3, Ring
  <2>6. (c <= q /\ o = q - c) \/ (q < c /\ o = q - c + NumFragments)
    BY <2>4, <2>5
  <2> QED BY <2>3, <2>6 DEF x
<1>19. Count(fBegin, fEnd)' = Count(fBegin, fEnd) - c /\ Count(fBegin, fEnd) \in Nat
       /\ Count(fBegin, fEnd) < NumFragments
  <2>1. Count(fBegin, fEnd) \in Nat /\ c <= Count(fBegin, fEnd) /\ Count(fBegin, fEnd) < NumFragments
    BY <1>0, <1>4, <1>5, TypeFacts
  <2>2. Count(fBegin, fEnd)' = Count(fBegin', fEnd)
    BY <1>1 DEF Count
  <2> QED BY <1>3, <1>12, <2>1, <2>2
<1>20. Layout'
  <2>1. ASSUME NEW s \in Live'
        PROVE  /\ packet[s].Ignore <=> packet[s].FragmentCount = 0
               /\ EndOffset(s)' <= Count(fBegin, fEnd)'
               /\ IF PAdd(s, 1) = pEnd THEN EndOffset(s)' = Count(fBegin, fEnd)'
                  ELSE EndOffset(s)' = Offset(PAdd(s, 1))'
    <3>1. /\ s \in Live /\ s \in Slots /\ EndOffset(s)' = EndOffset(s) - c /\ EndOffset(s) \in Nat
      BY <1>3, <1>13, <2>1
    <3>2. /\ packet[s].Ignore <=> packet[s].FragmentCount = 0
          /\ EndOffset(s) <= Count(fBegin, fEnd)
          /\ IF PAdd(s, 1) = pEnd THEN EndOffset(s) = Count(fBegin, fEnd)
             ELSE EndOffset(s) = Offset(PAdd(s, 1))
      BY <1>0, <3>1 DEF Layout
    <3>3. PAdd(s, 1) # pEnd => PAdd(s, 1) \in Live'
      <4>1. PAdd(s, 1) \in Slots /\ Pos(PAdd(s, 1)) = Pos(s) + 1 /\ Pos(s) < Pos(pEnd) /\ Pos(s) > Pos(pi)
        BY <1>0, <1>1, <2>1, <3>1, PlaceFacts
      <4>2. pEnd \in Slots /\ Pos(pEnd) \in Nat /\ Pos(s) \in Nat /\ Pos(pi) \in Nat
        BY <1>0, <1>3, <3>1, TypeFacts
      <4>3. PAdd(s, 1) # pEnd => Pos(PAdd(s, 1)) # Pos(pEnd)
        BY <1>0, <4>1, <4>2, PosFacts
      <4>4. PAdd(s, 1) # pEnd => PAdd(s, 1) \in Live
        BY <1>1, <4>1, <4>2, <4>3 DEF Live
      <4>5. PAdd(s, 1) # pi
        BY <4>1, <4>2
      <4> QED BY <1>1, <4>4, <4>5
    <3>4. PAdd(s, 1) # pEnd => Offset(PAdd(s, 1))' = Offset(PAdd(s, 1)) - c
      BY <1>13, <3>3
    <3>5. EndOffset(s)' <= Count(fBegin, fEnd)'
      BY <1>4, <1>19, <3>1, <3>2
    <3> QED BY <1>19, <3>1, <3>2, <3>4, <3>5
  <2>2. ASSUME NEW s \in Live', NEW t \in Live', Pos(s) < Pos(t) PROVE EndOffset(s)' <= Offset(t)'
    <3>1. /\ s \in Live /\ t \in Live /\ s \in Slots /\ t \in Slots
          /\ EndOffset(s)' = EndOffset(s) - c /\ Offset(t)' = Offset(t) - c
      BY <1>13, <2>2
    <3>2. EndOffset(s) <= Offset(t) /\ EndOffset(s) \in Nat /\ Offset(t) \in Nat
      BY <1>0, <1>3, <2>2, <3>1 DEF Layout
    <3> QED BY <1>4, <3>1, <3>2
  <2>3. ASSUME NEW o \in Frags, o < Count(fBegin, fEnd)'
        PROVE  \E s \in Live' : Offset(s)' <= o /\ o < EndOffset(s)'
    <3>1. o \in Nat /\ o + c < Count(fBegin, fEnd) /\ o + c \in Frags
      <4>1. o \in Nat /\ o + c < Count(fBegin, fEnd)
        BY <1>4, <1>19, <2>3, Ring
      <4> QED BY <1>4, <1>19, <4>1, Ring
    <3>2. PICK s \in Live : Offset(s) <= o + c /\ o + c < EndOffset(s)
      BY <1>0, <3>1 DEF Layout
    <3>3. s # pi
      BY <1>4, <3>1, <3>2
    <3>4. s \in Live' /\ s \in Slots
      BY <1>1, <3>2, <3>3
    <3>5. Offset(s)' = Offset(s) - c /\ EndOffset(s)' = EndOffset(s) - c /\ Offset(s) \in Nat /\ EndOffset(s) \in Nat
      BY <1>3, <1>13, <3>4
    <3> QED BY <1>4, <3>1, <3>2, <3>4, <3>5
  <2>4. fBegin' = IF Oldest' = pEnd' THEN fEnd' ELSE packet'[Oldest'].FragmentIndex
    BY <1>0, <1>1, <1>2, NextFacts
  <2>5. fNext' = IF Posting' = pEnd' THEN fEnd' ELSE packet'[Posting'].FragmentIndex
    BY <1>0, <1>1 DEF Layout
  <2> QED BY <1>1, <2>1, <2>2, <2>3, <2>4, <2>5 DEF Layout
<1>21. Contexts'
  <2>1. Pos(Posting)' = Pos(Posting)
    BY <1>1 DEF Pos
  <2>2. ASSUME NEW s \in Live', ~packet[s].Ignore, Pos(s) < Pos(Posting)
        PROVE  tcb[s].FirstTxDescIdx = At(Offset(s))' /\ tcb[s].NumTxDesc = packet[s].FragmentCount
    <3>1. s \in Live /\ s \in Slots /\ c <= Offset(s) /\ Offset(s)' = Offset(s) - c
      BY <1>13, <2>2
    <3>2. Offset(s) \in Nat /\ Offset(s) < NumFragments /\ Offset(s) - c \in Nat /\ c + (Offset(s) - c) = Offset(s)
      BY <1>3, <1>4, <3>1
    <3>3. At(Offset(s))' = At(Offset(s))
      <4>1. \A q \in Nat : q = Offset(s) - c => At(q)' = At(Offset(s))
        BY <1>4, <1>16, <3>2
      <4>2. \A q : At(q)' = FAdd(DescBegin', q)
        BY DEF At
      <4>3. FAdd(DescBegin', Offset(s)') = At(Offset(s))
        BY <3>1, <3>2, <4>1, <4>2
      <4> QED BY <4>3 DEF At
    <3> QED BY <1>0, <2>2, <3>1, <3>3 DEF Contexts
  <2> QED BY <1>1, <2>1, <2>2 DEF Contexts
<1>22. \A k \in Frags : c <= k => At(k) \notin Descriptors(pi)
  <2>1. \A i \in 0 .. c - 1 : i \in Frags /\ i < c
    BY <1>7, Ring
  <2>2. ASSUME NEW k \in Frags, c <= k, At(k) \in Descriptors(pi) PROVE FALSE
    <3>1. At(k) \in Frags
      BY <1>6
    <3>2. PICK i \in 0 .. c - 1 : At(k) = At(i)
      BY <1>11, <2>2, <3>1
    <3>3. i \in Frags /\ i < c
      BY <2>1
    <3>4. k = i
      BY <1>6, <3>2, <3>3
    <3> QED BY <1>4, <2>2, <3>3, <3>4, Ring
  <2> QED BY <2>2
<1>23. Ownership'
  <2> SUFFICES ASSUME NEW o \in Frags
               PROVE  /\ desc'[At(o)'].own <=> Gone' <= o /\ o < Posted'
                      /\ desc'[At(o)'].own =>
                           /\ desc'[At(o)'].frag = FAdd(fBegin', o)
                           /\ desc'[At(o)'].eor <=> At(o)' = NumFragments - 1
                           /\ \A s \in Live' : Offset(s)' <= o /\ o < EndOffset(s)' =>
                                /\ desc'[At(o)'].fs <=> o = Offset(s)'
                                /\ desc'[At(o)'].ls <=> o + 1 = EndOffset(s)'
    BY DEF Ownership
  <2>1. PICK q \in Frags : /\ At(o)' = At(q)
                           /\ (c <= q /\ o = q - c) \/ (q < c /\ o = q - c + NumFragments)
    BY <1>18
  <2>2. q \in Nat /\ o \in Nat /\ q < NumFragments /\ At(q) \in Frags
    BY <1>6, Ring
  <2>3. CASE c <= q /\ o = q - c
    <3>1. desc'[At(q)] = desc[At(q)]
      BY <1>2, <1>22, <2>2, <2>3
    <3>2. (Gone' <= o /\ o < Posted') <=> (Gone <= q /\ q < Posted)
      BY <1>4, <1>5, <1>6, <1>14, <1>17, <2>2, <2>3
    <3>3. FAdd(fBegin', o) = FAdd(fBegin, q)
      <4>1. fBegin' = FAdd(fBegin, c)
        BY <1>3, <1>12, CountFacts
      <4>2. c + o = q /\ c + o < NumFragments
        BY <1>4, <2>2, <2>3
      <4>3. FAdd(FAdd(fBegin, c), o) = FAdd(fBegin, c + o)
        BY <1>3, <1>4, <2>2, <4>2, AddFacts
      <4> QED BY <4>1, <4>2, <4>3
    <3>4. ASSUME NEW s \in Live', Offset(s)' <= o, o < EndOffset(s)'
          PROVE  /\ s \in Live /\ Offset(s) <= q /\ q < EndOffset(s)
                 /\ o = Offset(s)' <=> q = Offset(s)
                 /\ o + 1 = EndOffset(s)' <=> q + 1 = EndOffset(s)
      <4>1. /\ s \in Live /\ Offset(s)' = Offset(s) - c /\ EndOffset(s)' = EndOffset(s) - c
            /\ Offset(s) \in Nat /\ EndOffset(s) \in Nat
        BY <1>3, <1>13, <3>4
      <4> QED BY <1>4, <2>2, <2>3, <3>4, <4>1
    <3> QED BY <1>0, <2>1, <3>1, <3>2, <3>3, <3>4 DEF Ownership
  <2>4. CASE q < c /\ o = q - c + NumFragments
    <3>1. desc'[At(q)].own = FALSE
      <4>1. At(q) \in Descriptors(pi)
        <5>1. q \in 0 .. c - 1
          BY <1>4, <2>2, <2>4
        <5> QED BY <1>11, <2>2, <5>1
      <4> QED BY <1>2, <2>2, <4>1 DEF Zero
    <3>2. ~(o < Posted')
      BY <1>4, <1>5, <1>10, <1>14, <2>2, <2>4, Ring
    <3> QED BY <2>1, <3>1, <3>2
  <2> QED BY <2>1, <2>3, <2>4
<1>24. Frames'
  <2>1. 0 <= Gone' /\ Taken' <= Posted'
    BY <1>4, <1>5, <1>6, <1>9, <1>10, <1>14, <1>17
  <2>2. ASSUME NEW k \in 1 .. Len(frame)
        PROVE  frame[k] = [index |-> FAdd(DescBegin', Gone' + k - 1), frag |-> FAdd(fBegin', Gone' + k - 1),
                           fs |-> (k = 1)]
    <3> DEFINE q == Gone' + k - 1
    <3>1. q \in Nat /\ c + q = Gone + k - 1 /\ c + q < NumFragments
      <4>1. k \in Nat /\ 1 <= k /\ k <= Len(frame) /\ NumFragments \in Nat
        BY <1>3, Ring
      <4>2. Gone' = Gone - c /\ Gone = Taken - Len(frame) /\ c <= Gone /\ Taken < NumFragments
            /\ Len(frame) \in Nat /\ Taken \in Nat /\ c \in Nat
        BY <1>3, <1>4, <1>6, <1>9, <1>10, <1>17
      <4> QED BY <4>1, <4>2
    <3> HIDE DEF q
    <3>2. FAdd(DescBegin', q) = At(c + q)
      <4>1. FAdd(FAdd(DescBegin, c), q) = FAdd(DescBegin, c + q)
        BY <1>4, <1>6, <3>1, AddFacts
      <4> QED BY <1>15, <4>1 DEF At
    <3>3. FAdd(fBegin', q) = FAdd(fBegin, c + q)
      <4>1. fBegin' = FAdd(fBegin, c)
        BY <1>3, <1>12, CountFacts
      <4>2. FAdd(FAdd(fBegin, c), q) = FAdd(fBegin, c + q)
        BY <1>3, <1>4, <3>1, AddFacts
      <4> QED BY <4>1, <4>2
    <3>4. frame[k] = [index |-> At(Gone + k - 1), frag |-> FAdd(fBegin, Gone + k - 1), fs |-> (k = 1)]
      BY <1>0 DEF Frames
    <3> QED BY <3>1, <3>2, <3>3, <3>4 DEF q
  <2>3. ASSUME NEW s \in Live', ~packet[s].Ignore
        PROVE  IF s \in sent THEN EndOffset(s)' <= Gone' ELSE Gone' <= Offset(s)' /\ Taken' < EndOffset(s)'
    <3>1. /\ s \in Live /\ s \in Slots /\ Offset(s)' = Offset(s) - c /\ EndOffset(s)' = EndOffset(s) - c
          /\ Offset(s) \in Nat /\ EndOffset(s) \in Nat
      BY <1>3, <1>13, <2>3
    <3>2. IF s \in sent THEN EndOffset(s) <= Gone ELSE Gone <= Offset(s) /\ Taken < EndOffset(s)
      BY <1>0, <2>3, <3>1 DEF Frames
    <3> QED BY <1>4, <1>6, <1>10, <1>17, <3>1, <3>2
  <2>4. Pos(pEnd)' = Pos(pEnd) /\ Pos(Oldest)' = Pos(Oldest')
    BY <1>1 DEF Pos
  <2>5. \A s \in Slots : Pos(s) < Pos(Oldest') => packet[s].Ignore \/ s \in sent
    BY <1>0, <1>1, <1>9 DEF Frames
  <2>6. \A s \in sent : Pos(s) < Pos(pEnd) /\ ~packet[s].Ignore
    BY <1>0 DEF Frames
  <2> QED BY <1>1, <2>1, <2>2, <2>3, <2>4, <2>5, <2>6 DEF Frames, At
<1> QED BY <1>0, <1>1, <1>20, <1>21, <1>23, <1>24 DEF RingsAgree, FramesWhole

(* Handing packets back moves the place positions are counted from.        *)
LEMMA RebaseFacts ==
  ASSUME TypeOK, TypeOK', Places, pBegin' = pi, pEnd' = pEnd, Pos(pi) <= Pos(pEnd),
         Oldest = pi, Oldest' = pi
  PROVE  /\ \A s \in Slots : Pos(pi) <= Pos(s) => Pos(s)' = Pos(s) - Pos(pi)
         /\ Pos(Oldest)' = 0
         /\ Live' = Live
<1>1. /\ pBegin \in Slots /\ pi \in Slots /\ pEnd \in Slots /\ NumPackets \in Nat
      /\ \A s \in Slots : Pos(s) \in Nat /\ Pos(s) < NumPackets
  BY TypeFacts, Ring
<1>2. \A s \in Slots : Pos(s)' = IF Pos(pi) <= Pos(s) THEN Pos(s) - Pos(pi) ELSE Pos(s) - Pos(pi) + NumPackets
  <2> SUFFICES ASSUME NEW s \in Slots
               PROVE  (s - pi) % NumPackets = IF Pos(pi) <= Pos(s) THEN Pos(s) - Pos(pi)
                                              ELSE Pos(s) - Pos(pi) + NumPackets
    BY DEF Pos
  <2>1. /\ (s - pi) % NumPackets = IF s >= pi THEN s - pi ELSE s - pi + NumPackets
        /\ Pos(s) = IF s >= pBegin THEN s - pBegin ELSE s - pBegin + NumPackets
        /\ Pos(pi) = IF pi >= pBegin THEN pi - pBegin ELSE pi - pBegin + NumPackets
    BY <1>1, Closed DEF Pos
  <2> QED BY <1>1, <2>1, Ring
<1>3. Pos(Oldest)' = 0
  <2>1. \A s \in Slots : s = pi => Pos(s)' = 0
    BY <1>1, <1>2
  <2>2. Pos(Oldest)' = (pi - pi) % NumPackets
    BY DEF Pos
  <2>3. \A s \in Slots : Pos(s)' = (s - pi) % NumPackets
    BY DEF Pos
  <2> QED BY <1>1, <2>1, <2>2, <2>3
<1>4. Pos(pEnd)' = Pos(pEnd) - Pos(pi)
  <2>1. \A s \in Slots : s = pEnd => Pos(s)' = Pos(pEnd) - Pos(pi)
    BY <1>2
  <2>2. Pos(pEnd)' = (pEnd - pi) % NumPackets /\ \A s \in Slots : Pos(s)' = (s - pi) % NumPackets
    BY DEF Pos
  <2> QED BY <1>1, <2>1, <2>2
<1>5. \A s : s \in Live' <=> s \in Slots /\ 0 <= Pos(s)' /\ Pos(s)' < Pos(pEnd) - Pos(pi)
  <2>1. Live' = {s \in Slots : Pos(Oldest)' <= Pos(s)' /\ Pos(s)' < Pos(pEnd)'}
    BY DEF Live
  <2> QED BY <1>3, <1>4, <2>1
<1>6. \A s : s \in Live <=> s \in Slots /\ Pos(pi) <= Pos(s) /\ Pos(s) < Pos(pEnd)
  BY DEF Live
<1>7. ASSUME NEW s \in Slots
      PROVE  (0 <= Pos(s)' /\ Pos(s)' < Pos(pEnd) - Pos(pi)) <=> (Pos(pi) <= Pos(s) /\ Pos(s) < Pos(pEnd))
  <2>1. /\ Pos(s) \in Nat /\ Pos(s) < NumPackets /\ Pos(pi) \in Nat /\ Pos(pEnd) \in Nat /\ Pos(pEnd) < NumPackets
        /\ NumPackets \in Nat
    BY <1>1
  <2>2. Pos(s)' = IF Pos(pi) <= Pos(s) THEN Pos(s) - Pos(pi) ELSE Pos(s) - Pos(pi) + NumPackets
    BY <1>2
  <2> QED BY <2>1, <2>2
<1>8. Live' = Live
  BY <1>5, <1>6, <1>7
<1> QED BY <1>2, <1>3, <1>8

LEMMA CompleteEndNext == ASSUME RingsAgree, CompleteEnd PROVE RingsAgree'
<1>0. TypeOK /\ Places /\ Layout /\ Contexts /\ Ownership /\ Frames /\ FramesWhole
  BY DEF RingsAgree
<1>1. TypeOK'
  BY TypeNext DEF Next, Advance
<1>2. /\ UNCHANGED <<pNext, pEnd, fBegin, fNext, fEnd, packet, tcb, desc, txDescIndex, pi,
                     hwIndex, frame, garbled>>
      /\ pc = "complete" /\ pc' = "idle" /\ pBegin' = pi
      /\ sent' = sent \ SlotsBetween(pBegin, pi)
  BY DEF CompleteEnd
<1>3. Posting = pNext /\ Posting' = pNext /\ Oldest = pi /\ Oldest' = pi
  BY <1>2 DEF Posting, Oldest
<1>4. /\ pi \in Slots /\ pNext \in Slots /\ pEnd \in Slots
      /\ \A s \in Slots : Pos(s) \in Nat
  BY <1>0, TypeFacts
<1>5. Pos(pi) <= Pos(pNext) /\ Pos(pNext) <= Pos(pEnd) /\ Pos(pi) <= Pos(pEnd)
  <2>1. Pos(pi) <= Pos(pNext) /\ Pos(pNext) <= Pos(pEnd)
    BY <1>0, <1>2 DEF Places
  <2> QED BY <1>4, <2>1
<1>6. /\ \A s \in Slots : Pos(pi) <= Pos(s) => Pos(s)' = Pos(s) - Pos(pi)
      /\ Pos(Oldest)' = 0 /\ Live' = Live
  BY <1>0, <1>1, <1>2, <1>3, <1>5, RebaseFacts
<1>7. /\ Pos(pNext)' = Pos(pNext) - Pos(pi) /\ Pos(pEnd)' = Pos(pEnd) - Pos(pi)
  <2>1. \A s : Pos(s)' = (s - pi) % NumPackets
    BY <1>2 DEF Pos
  <2>2. Pos(pNext)' = (pNext - pi) % NumPackets /\ Pos(pEnd)' = (pEnd - pi) % NumPackets
    BY <1>2 DEF Pos
  <2> QED BY <1>4, <1>5, <1>6, <2>1, <2>2
<1>8. \A s : Offset(s)' = Offset(s) /\ EndOffset(s)' = EndOffset(s)
  <2>1. \A s : Offset(s)' = Offset(s)
    BY <1>2 DEF Offset, Count
  <2> QED BY <1>2, <2>1 DEF EndOffset
<1>9. /\ Posted' = Posted /\ DescBegin' = DescBegin /\ Taken' = Taken /\ Gone' = Gone
      /\ \A o : At(o)' = At(o)
  <2>1. Posted' = Posted
    BY <1>2 DEF Posted, Count
  <2>2. DescBegin' = DescBegin
    BY <1>2, <2>1 DEF DescBegin, Count
  <2>3. Taken' = Taken
    BY <1>2, <2>2 DEF Taken, Count
  <2> QED BY <1>2, <2>1, <2>2, <2>3 DEF Gone, At
<1>10. \A s \in Live : /\ s \in Slots /\ Pos(pi) <= Pos(s) /\ Pos(s) \in Nat /\ Pos(s)' = Pos(s) - Pos(pi)
                       /\ (s \in sent' <=> s \in sent)
  <2>1. \A s \in Live : s \in Slots /\ Pos(pi) <= Pos(s) /\ Pos(s) \in Nat
    BY <1>3, <1>4 DEF Live
  <2>2. \A s \in Live : s \notin SlotsBetween(pBegin, pi)
    BY <1>0, <1>4, <2>1, BetweenFacts
  <2> QED BY <1>2, <1>6, <2>1, <2>2
<1>11. Places'
  <2>1. Pos(pNext) - Pos(pi) <= Pos(pEnd) - Pos(pi)
    BY <1>4, <1>5
  <2> QED BY <1>2, <1>7, <2>1 DEF Places
<1>12. Layout'
  <2>1. Count(fBegin, fEnd)' = Count(fBegin, fEnd)
    BY <1>2 DEF Count
  <2>2. \A s, t \in Live : Pos(s)' < Pos(t)' => Pos(s) < Pos(t)
    <3> SUFFICES ASSUME NEW s \in Live, NEW t \in Live, Pos(s)' < Pos(t)' PROVE Pos(s) < Pos(t)
      OBVIOUS
    <3>1. Pos(s) - Pos(pi) < Pos(t) - Pos(pi) /\ Pos(s) \in Nat /\ Pos(t) \in Nat /\ Pos(pi) \in Nat
      BY <1>4, <1>10
    <3> QED BY <3>1
  <2> QED BY <1>0, <1>2, <1>3, <1>6, <1>8, <2>1, <2>2 DEF Layout
<1>13. Contexts'
  <2>1. Pos(Posting)' = Pos(pNext) - Pos(pi)
    <3>1. Pos(Posting)' = Pos(pNext)'
      BY <1>2, <1>3 DEF Pos
    <3> QED BY <1>7, <3>1
  <2>2. ASSUME NEW s \in Live, Pos(s)' < Pos(Posting)' PROVE Pos(s) < Pos(Posting)
    <3>1. Pos(s) - Pos(pi) < Pos(pNext) - Pos(pi) /\ Pos(s) \in Nat /\ Pos(pNext) \in Nat /\ Pos(pi) \in Nat
      BY <1>4, <1>10, <2>1, <2>2
    <3> QED BY <1>3, <3>1
  <2> QED BY <1>0, <1>2, <1>6, <1>8, <1>9, <2>2 DEF Contexts
<1>14. Ownership'
  BY <1>0, <1>2, <1>6, <1>8, <1>9 DEF Ownership
<1>15. Frames'
  <2>1. ASSUME NEW s \in sent' PROVE Pos(s)' < Pos(pEnd)' /\ ~packet[s].Ignore
    <3>1. s \in Slots /\ s \in sent /\ s \notin SlotsBetween(pBegin, pi)
      BY <1>0, <1>2, <2>1 DEF TypeOK
    <3>2. Pos(s) < Pos(pEnd) /\ ~packet[s].Ignore
      BY <1>0, <3>1 DEF Frames
    <3>3. Pos(pi) <= Pos(s) /\ Pos(s) \in Nat
      BY <1>0, <1>4, <3>1, BetweenFacts
    <3>4. Pos(s)' = Pos(s) - Pos(pi) /\ Pos(pEnd) \in Nat /\ Pos(pi) \in Nat
      BY <1>4, <1>6, <3>1, <3>3
    <3> QED BY <1>7, <3>2, <3>3, <3>4
  <2>2. \A s \in Slots : ~(Pos(s)' < 0)
    <3>1. \A s \in Slots : (s - pi) % NumPackets \in Nat
      BY <1>4, PacketFacts
    <3>2. \A s : Pos(s)' = (s - pi) % NumPackets
      BY <1>2 DEF Pos
    <3> QED BY <3>1, <3>2
  <2>3. \A s \in Live : ~packet[s].Ignore =>
          IF s \in sent' THEN EndOffset(s) <= Gone ELSE Gone <= Offset(s) /\ Taken < EndOffset(s)
    BY <1>0, <1>10 DEF Frames
  <2>4. /\ 0 <= Gone /\ Taken <= Posted
        /\ \A k \in 1 .. Len(frame) :
             frame[k] = [index |-> At(Gone + k - 1), frag |-> FAdd(fBegin, Gone + k - 1), fs |-> (k = 1)]
    BY <1>0 DEF Frames
  <2> QED BY <1>2, <1>6, <1>8, <1>9, <2>1, <2>2, <2>3, <2>4 DEF Frames
<1> QED BY <1>0, <1>1, <1>2, <1>11, <1>12, <1>13, <1>14, <1>15 DEF RingsAgree, FramesWhole

(* What the device reads is the next fragment of the oldest packet not     *)
(* sent; with the last one it has read the packet, no more and no less.    *)
LEMMA FetchFacts ==
  ASSUME RingsAgree, HwFetch, WriteBack = "packet"
  PROVE  \E u \in Live :
           /\ u \in Slots /\ IsOldest(u) /\ Offset(u) = Gone /\ Taken + 1 <= EndOffset(u) /\ Taken + 1 <= Posted
           /\ Taken \in Nat /\ Gone \in Nat /\ Gone <= Taken /\ Taken' = Taken + 1
           /\ \A s \in Live : ~packet[s].Ignore /\ s \notin sent /\ s # u =>
                Pos(u) < Pos(s) /\ EndOffset(u) <= Offset(s) /\ Offset(s) < EndOffset(s)
           /\ Taken + 1 # EndOffset(u) =>
                /\ sent' = sent /\ garbled' = garbled /\ desc' = desc
                /\ frame' = Append(frame, [index |-> At(Taken), frag |-> FAdd(fBegin, Taken),
                                           fs |-> (Taken = Gone)])
           /\ Taken + 1 = EndOffset(u) =>
                /\ sent' = sent \cup {u} /\ garbled' = garbled /\ frame' = <<>>
                /\ desc' = [j \in Frags |-> IF \E o \in Gone .. Taken : j = At(o)
                                            THEN [desc[j] EXCEPT !.own = FALSE] ELSE desc[j]]
<1> DEFINE d == desc[hwIndex]
           read == Append(frame, [index |-> hwIndex, frag |-> d.frag, fs |-> d.fs])
           back == IF WriteBack = "descriptor" THEN {hwIndex}
                   ELSE IF d.ls THEN {read[k].index : k \in 1 .. Len(read)} ELSE {}
           whole == {s \in Unsent : IsOldest(s) /\ IsWhole(read, s)}
<1>0. TypeOK /\ Places /\ Layout /\ Contexts /\ Ownership /\ Frames /\ FramesWhole
  BY DEF RingsAgree
<1>1. /\ d.own
      /\ hwIndex' = IF d.eor THEN 0 ELSE hwIndex + 1
      /\ desc' = [j \in Frags |-> IF j \in back THEN [desc[j] EXCEPT !.own = FALSE] ELSE desc[j]]
      /\ frame' = IF d.ls THEN <<>> ELSE read
      /\ sent' = IF d.ls THEN sent \cup whole ELSE sent
      /\ garbled' = (garbled \/ (d.ls /\ whole = {}))
      /\ UNCHANGED <<pBegin, pNext, pEnd, fBegin, fNext, fEnd, packet, tcb, txDescIndex, pc, pi, programmed, poll>>
  BY DEF HwFetch, ringVars, pcVars
<1>2. back = IF d.ls THEN {read[k].index : k \in 1 .. Len(read)} ELSE {}
  BY DEF back
<1>3. frame \in Seq([index : Frags, frag : Frags, fs : BOOLEAN])
  BY <1>0 DEF TypeOK
<1>4. /\ hwIndex \in Frags /\ fBegin \in Frags /\ pEnd \in Slots /\ Oldest \in Slots /\ Len(frame) \in Nat
      /\ d.fs \in BOOLEAN /\ d.ls \in BOOLEAN
      /\ Count(fBegin, fEnd) \in Nat /\ Count(fBegin, fEnd) < NumFragments
      /\ \A s \in Slots : /\ Pos(s) \in Nat /\ Offset(s) \in Nat /\ EndOffset(s) \in Nat
                          /\ EndOffset(s) = Offset(s) + packet[s].FragmentCount
                          /\ packet[s].FragmentCount \in Nat
                          /\ FAdd(fBegin, Offset(s)) = packet[s].FragmentIndex
  BY <1>0, TypeFacts
<1>5. /\ DescBegin \in Frags /\ \A o \in Frags : At(o) \in Frags /\ Count(DescBegin, At(o)) = o
      /\ Taken \in Frags /\ At(Taken) = hwIndex /\ Gone = Taken - Len(frame)
  BY <1>0, AtFacts
<1>6. Taken \in Nat /\ Gone \in Nat /\ Gone <= Taken /\ Taken < Posted /\ Posted \in Nat
      /\ Posted <= Count(fBegin, fEnd)
  <2>1. Gone <= Taken /\ Taken < Posted
    BY <1>0, <1>1, <1>5 DEF Ownership
  <2>2. 0 <= Gone
    BY <1>0 DEF Frames
  <2>3. Posted \in Nat /\ Posted <= Count(fBegin, fEnd)
    BY <1>0, PostedFacts
  <2>4. Taken \in Nat
    BY <1>5, Ring
  <2> QED BY <1>4, <1>5, <2>1, <2>2, <2>3, <2>4
<1>7. Gone \in Frags /\ Gone < Count(fBegin, fEnd) /\ Taken + 1 \in Frags
  <2>1. Count(fBegin, fEnd) \in Nat /\ Count(fBegin, fEnd) < NumFragments
    BY <1>4
  <2>2. Gone < Count(fBegin, fEnd) /\ Taken + 1 < NumFragments /\ Gone < NumFragments
    BY <1>6, <2>1, Ring
  <2> QED BY <1>6, <2>2, Ring
<1>8. PICK u \in Live : Offset(u) <= Gone /\ Gone < EndOffset(u)
  BY <1>0, <1>7 DEF Layout
<1>9. u \in Slots /\ Pos(u) \in Nat /\ Offset(u) \in Nat /\ EndOffset(u) \in Nat
      /\ EndOffset(u) = Offset(u) + packet[u].FragmentCount /\ packet[u].FragmentCount \in Nat
      /\ Pos(Oldest) <= Pos(u) /\ Pos(u) < Pos(pEnd)
  BY <1>4 DEF Live
<1>10. ~packet[u].Ignore /\ u \notin sent /\ Offset(u) = Gone /\ Taken < EndOffset(u)
  <2>1. packet[u].FragmentCount # 0
    BY <1>6, <1>8, <1>9
  <2>2. ~packet[u].Ignore
    BY <1>0, <2>1 DEF Layout
  <2>3. IF u \in sent THEN EndOffset(u) <= Gone ELSE Gone <= Offset(u) /\ Taken < EndOffset(u)
    BY <1>0, <2>2 DEF Frames
  <2>4. u \notin sent
    BY <1>6, <1>8, <1>9, <2>3
  <2> QED BY <1>6, <1>8, <1>9, <2>2, <2>3, <2>4
<1>11. /\ d.frag = FAdd(fBegin, Taken)
       /\ d.eor <=> hwIndex = NumFragments - 1
       /\ d.fs <=> Taken = Gone
       /\ d.ls <=> Taken + 1 = EndOffset(u)
  <2>1. Offset(u) <= Taken /\ Taken < EndOffset(u)
    BY <1>6, <1>10
  <2>2. /\ d.frag = FAdd(fBegin, Taken)
        /\ d.eor <=> At(Taken) = NumFragments - 1
        /\ d.fs <=> Taken = Offset(u)
        /\ d.ls <=> Taken + 1 = EndOffset(u)
    BY <1>0, <1>1, <1>5, <2>1 DEF Ownership
  <2> QED BY <1>5, <1>10, <2>2
<1>12. Taken' = Taken + 1
  <2>1. hwIndex' = FAdd(hwIndex, 1)
    BY <1>1, <1>4, <1>11, AddFacts
  <2>2. hwIndex' = At(Taken + 1)
    BY <1>5, <1>6, <2>1, AddFacts, Ring DEF At
  <2>3. Posted' = Posted
    BY <1>1 DEF Posted, Count
  <2>4. DescBegin' = DescBegin
    BY <1>1, <2>3 DEF DescBegin, Count
  <2>5. Taken' = Count(DescBegin, hwIndex')
    BY <2>4 DEF Taken, Count
  <2> QED BY <1>5, <1>7, <2>2, <2>5
<1>13. ASSUME NEW s \in Live, ~packet[s].Ignore, s \notin sent, s # u
       PROVE  Pos(u) < Pos(s) /\ EndOffset(u) <= Offset(s) /\ Offset(s) < EndOffset(s)
  <2>1. /\ s \in Slots /\ Pos(s) \in Nat /\ Offset(s) \in Nat /\ EndOffset(s) \in Nat
        /\ EndOffset(s) = Offset(s) + packet[s].FragmentCount /\ packet[s].FragmentCount \in Nat
    BY <1>4, <1>13 DEF Live
  <2>2. packet[s].FragmentCount # 0 /\ Gone <= Offset(s)
    BY <1>0, <1>13 DEF Layout, Frames
  <2>3. Offset(s) < EndOffset(s)
    BY <2>1, <2>2
  <2>4. ~(Pos(s) < Pos(u))
    <3>1. Pos(s) < Pos(u) => EndOffset(s) <= Offset(u)
      BY <1>0, <1>8, <1>13 DEF Layout
    <3> QED BY <1>6, <1>10, <2>1, <2>2, <2>3, <3>1
  <2>5. Pos(s) # Pos(u)
    BY <1>0, <1>9, <1>13, <2>1, PosFacts
  <2>6. Pos(u) < Pos(s)
    BY <1>9, <2>1, <2>4, <2>5
  <2>7. EndOffset(u) <= Offset(s)
    BY <1>0, <1>8, <1>13, <2>6 DEF Layout
  <2> QED BY <2>3, <2>6, <2>7
<1>14. Unsent \subseteq Live /\ u \in Unsent
  <2>1. \A s : s \in SlotsBetween(pBegin, pEnd) <=> s \in Slots /\ Pos(s) < Pos(pEnd)
    BY <1>0, <1>4, BetweenFacts
  <2>2. ASSUME NEW s \in Unsent PROVE s \in Live
    <3>1. s \in Slots /\ Pos(s) < Pos(pEnd) /\ ~packet[s].Ignore /\ s \notin sent
      BY <2>1, <2>2 DEF Unsent
    <3>2. ~(Pos(s) < Pos(Oldest))
      BY <1>0, <3>1 DEF Frames
    <3>3. Pos(Oldest) <= Pos(s)
      BY <1>4, <3>1, <3>2
    <3> QED BY <3>1, <3>3 DEF Live
  <2>3. u \in Unsent
    BY <1>9, <1>10, <2>1 DEF Unsent
  <2> QED BY <2>2, <2>3
<1>15. IsOldest(u) /\ \A s \in Unsent : IsOldest(s) => s = u
  <2>1. \A s \in Unsent : s # u => Pos(u) < Pos(s)
    BY <1>13, <1>14 DEF Unsent
  <2>2. \A s \in Unsent : s \in Slots /\ Pos(s) \in Nat
    BY <1>4, <1>14 DEF Live
  <2>3. \A s \in Unsent : Pos(u) <= Pos(s)
    BY <1>9, <2>1, <2>2
  <2>4. \A s : IsOldest(s) <=> s \in Unsent /\ \A t \in Unsent : Pos(s) <= Pos(t)
    BY DEF IsOldest, Pos
  <2>5. ASSUME NEW s \in Unsent, IsOldest(s) PROVE s = u
    <3>1. Pos(s) <= Pos(u)
      BY <1>14, <2>4, <2>5
    <3>2. s # u => Pos(u) < Pos(s)
      BY <2>1
    <3> QED BY <1>9, <2>2, <3>1, <3>2
  <2> QED BY <1>14, <2>3, <2>4, <2>5
<1>16. /\ Len(read) = Len(frame) + 1
       /\ \A k \in 1 .. Len(read) : /\ read[k].index = At(Gone + k - 1)
                                    /\ read[k].frag = FAdd(fBegin, Gone + k - 1)
                                    /\ read[k].fs = (k = 1)
  <2> DEFINE e == [index |-> hwIndex, frag |-> d.frag, fs |-> d.fs]
  <2>1. read = Append(frame, e)
    OBVIOUS
  <2>2. e.index = At(Taken) /\ e.frag = FAdd(fBegin, Taken) /\ e.fs = (Taken = Gone)
    BY <1>4, <1>5, <1>11
  <2> HIDE DEF e, read
  <2>3. /\ Len(read) = Len(frame) + 1
        /\ \A k \in 1 .. Len(frame) : read[k] = frame[k]
        /\ read[Len(frame) + 1] = e
    BY <1>3, <2>1
  <2>4. ASSUME NEW k \in 1 .. Len(read)
        PROVE  /\ read[k].index = At(Gone + k - 1)
               /\ read[k].frag = FAdd(fBegin, Gone + k - 1)
               /\ read[k].fs = (k = 1)
    <3>1. CASE k \in 1 .. Len(frame)
      <4>1. frame[k] = [index |-> At(Gone + k - 1), frag |-> FAdd(fBegin, Gone + k - 1), fs |-> (k = 1)]
        BY <1>0, <3>1 DEF Frames
      <4> QED BY <2>3, <3>1, <4>1
    <3>2. CASE k \notin 1 .. Len(frame)
      <4>1. k = Len(frame) + 1
        BY <1>4, <2>3, <3>2
      <4>2. Gone + k - 1 = Taken /\ (k = 1 <=> Taken = Gone)
        BY <1>4, <1>5, <1>6, <4>1
      <4>3. read[k] = e
        BY <2>3, <4>1
      <4>4. (Taken = Gone) = (k = 1)
        BY <4>2
      <4> QED BY <2>2, <4>2, <4>3, <4>4
    <3> QED BY <3>1, <3>2
  <2> QED BY <2>3, <2>4
<1> HIDE DEF read
<1>17. ASSUME Taken + 1 = EndOffset(u) PROVE IsWhole(read, u)
  <2>1. Len(read) = packet[u].FragmentCount
    <3>1. Len(read) = Len(frame) + 1 /\ Gone = Taken - Len(frame) /\ Len(frame) \in Nat
      BY <1>4, <1>5, <1>16
    <3>2. Taken + 1 = Gone + packet[u].FragmentCount /\ packet[u].FragmentCount \in Nat
      BY <1>9, <1>10, <1>17
    <3> QED BY <1>6, <3>1, <3>2
  <2>2. ASSUME NEW k \in 1 .. Len(read) PROVE read[k].frag = FAdd(packet[u].FragmentIndex, k - 1)
    <3>1. k - 1 \in Nat /\ Gone + (k - 1) = Gone + k - 1 /\ Gone + (k - 1) < NumFragments
      <4>1. Len(read) = Len(frame) + 1 /\ Gone = Taken - Len(frame) /\ Len(frame) \in Nat
        BY <1>4, <1>5, <1>16
      <4>2. k \in Nat /\ 1 <= k /\ k <= Len(frame) + 1
        BY <4>1
      <4>3. Taken < NumFragments /\ NumFragments \in Nat
        BY <1>5, Ring
      <4> QED BY <1>6, <4>1, <4>2, <4>3
    <3>2. FAdd(FAdd(fBegin, Gone), k - 1) = FAdd(fBegin, Gone + (k - 1))
      BY <1>4, <1>6, <3>1, AddFacts
    <3> QED BY <1>4, <1>9, <1>10, <1>16, <3>1, <3>2
  <2>3. [k \in 1 .. Len(read) |-> read[k].frag] = Fragments(u)
    BY <2>1, <2>2 DEF Fragments
  <2> QED BY <1>16, <2>3 DEF IsWhole
<1>18. ASSUME Taken + 1 # EndOffset(u)
       PROVE  /\ sent' = sent /\ garbled' = garbled /\ desc' = desc
              /\ frame' = Append(frame, [index |-> At(Taken), frag |-> FAdd(fBegin, Taken), fs |-> (Taken = Gone)])
  <2>1. ~d.ls
    BY <1>11, <1>18
  <2>2. back = {} /\ sent' = sent /\ frame' = read
    BY <1>1, <1>2, <2>1
  <2>3. garbled' = garbled
    <3>1. garbled = FALSE
      BY <1>0 DEF FramesWhole, TypeOK
    <3> QED BY <1>1, <2>1, <3>1
  <2>4. desc' = desc
    <3>1. desc = [j \in Frags |-> desc[j]]
      BY <1>0 DEF TypeOK
    <3> QED BY <1>1, <2>2, <3>1
  <2>5. d.fs = (Taken = Gone)
    BY <1>4, <1>11
  <2> QED BY <1>5, <1>11, <2>2, <2>3, <2>4, <2>5 DEF read
<1>19. ASSUME Taken + 1 = EndOffset(u)
       PROVE  /\ sent' = sent \cup {u} /\ garbled' = garbled /\ frame' = <<>>
              /\ desc' = [j \in Frags |-> IF \E o \in Gone .. Taken : j = At(o)
                                          THEN [desc[j] EXCEPT !.own = FALSE] ELSE desc[j]]
  <2>1. d.ls
    BY <1>11, <1>19
  <2>2. whole = {u}
    BY <1>14, <1>15, <1>17, <1>19
  <2>3. \A j : j \in back <=> \E o \in Gone .. Taken : j = At(o)
    <3>1. \A j : j \in back <=> \E k \in 1 .. Len(read) : j = At(Gone + k - 1)
      BY <1>2, <1>16, <2>1
    <3>2. ASSUME NEW k \in 1 .. Len(read) PROVE Gone + k - 1 \in Gone .. Taken
      BY <1>4, <1>5, <1>6, <1>16
    <3>3. ASSUME NEW o \in Gone .. Taken PROVE \E k \in 1 .. Len(read) : o = Gone + k - 1
      <4>1. o - Gone + 1 \in 1 .. Len(read) /\ o = Gone + (o - Gone + 1) - 1
        BY <1>4, <1>5, <1>6, <1>16
      <4> QED BY <4>1
    <3> QED BY <3>1, <3>2, <3>3
  <2>4. garbled' = garbled
    <3>1. garbled = FALSE
      BY <1>0 DEF FramesWhole, TypeOK
    <3> QED BY <1>1, <2>2, <3>1
  <2> HIDE DEF whole, back
  <2>5. frame' = <<>> /\ sent' = sent \cup {u}
    BY <1>1, <2>1, <2>2
  <2>6. desc' = [j \in Frags |-> IF \E o \in Gone .. Taken : j = At(o)
                                 THEN [desc[j] EXCEPT !.own = FALSE] ELSE desc[j]]
    BY <1>1, <2>3
  <2> QED BY <2>4, <2>5, <2>6
<1>20. Taken + 1 <= EndOffset(u) /\ Taken + 1 <= Posted
  BY <1>6, <1>9, <1>10
<1> QED BY <1>6, <1>8, <1>9, <1>10, <1>12, <1>13, <1>15, <1>18, <1>19, <1>20

LEMMA HwFetchNext == ASSUME RingsAgree, HwFetch, WriteBack = "packet" PROVE RingsAgree'
<1>0. TypeOK /\ Places /\ Layout /\ Contexts /\ Ownership /\ Frames /\ FramesWhole
  BY DEF RingsAgree
<1>1. TypeOK'
  BY TypeNext DEF Next
<1>2. UNCHANGED <<pBegin, pNext, pEnd, fBegin, fNext, fEnd, packet, tcb, txDescIndex, pc, pi>>
  BY DEF HwFetch, ringVars, pcVars
<1>3. PICK u \in Live :
        /\ u \in Slots /\ IsOldest(u) /\ Offset(u) = Gone /\ Taken + 1 <= EndOffset(u) /\ Taken + 1 <= Posted
        /\ Taken \in Nat /\ Gone \in Nat /\ Gone <= Taken /\ Taken' = Taken + 1
        /\ \A s \in Live : ~packet[s].Ignore /\ s \notin sent /\ s # u =>
             Pos(u) < Pos(s) /\ EndOffset(u) <= Offset(s) /\ Offset(s) < EndOffset(s)
        /\ Taken + 1 # EndOffset(u) =>
             /\ sent' = sent /\ garbled' = garbled /\ desc' = desc
             /\ frame' = Append(frame, [index |-> At(Taken), frag |-> FAdd(fBegin, Taken),
                                        fs |-> (Taken = Gone)])
        /\ Taken + 1 = EndOffset(u) =>
             /\ sent' = sent \cup {u} /\ garbled' = garbled /\ frame' = <<>>
             /\ desc' = [j \in Frags |-> IF \E o \in Gone .. Taken : j = At(o)
                                         THEN [desc[j] EXCEPT !.own = FALSE] ELSE desc[j]]
  BY FetchFacts
<1>4. Oldest' = Oldest /\ Posting' = Posting
  BY <1>2 DEF Oldest, Posting
<1>5. /\ Live' = Live
      /\ \A s : Pos(s)' = Pos(s) /\ Offset(s)' = Offset(s) /\ EndOffset(s)' = EndOffset(s)
  BY <1>2, <1>4, SameRing
<1>6. Posted' = Posted /\ DescBegin' = DescBegin /\ \A o : At(o)' = At(o)
  <2>1. Posted' = Posted
    BY <1>2 DEF Posted, Count
  <2>2. DescBegin' = DescBegin
    BY <1>2, <2>1 DEF DescBegin, Count
  <2> QED BY <2>1, <2>2 DEF At
<1>7. /\ \A s \in Live : s \in Slots /\ Offset(s) \in Nat /\ EndOffset(s) \in Nat
      /\ EndOffset(u) \in Nat /\ Len(frame) \in Nat
  BY <1>0, TypeFacts DEF Live
<1>8. /\ \A o \in Frags : At(o) \in Frags
      /\ \A o, q \in Frags : At(o) = At(q) => o = q
      /\ Gone = Taken - Len(frame) /\ Taken \in Frags
      /\ Posted \in Nat /\ Posted \in Frags
  BY <1>0, AtFacts, PostedFacts
<1>9. Pos(pNext)' = Pos(pNext) /\ Pos(pEnd)' = Pos(pEnd) /\ Pos(pi)' = Pos(pi)
      /\ Pos(Posting)' = Pos(Posting) /\ Pos(Oldest)' = Pos(Oldest)
  BY <1>2, <1>4 DEF Pos
<1>10. Places'
  <2>1. pc = "status" => ~desc[txDescIndex].own /\ desc'[txDescIndex] = desc[txDescIndex]
    <3> SUFFICES ASSUME pc = "status" PROVE ~desc[txDescIndex].own /\ desc'[txDescIndex] = desc[txDescIndex]
      OBVIOUS
    <3>1. At(Posted) = txDescIndex /\ txDescIndex \in Frags
      BY <1>0, AtFacts, TypeFacts
    <3>2. ~desc[txDescIndex].own
      <4>1. ~(Posted < Posted)
        BY <1>8
      <4> QED BY <1>0, <1>8, <3>1, <4>1 DEF Ownership
    <3>3. CASE Taken + 1 = EndOffset(u)
      <4>1. \A o \in Gone .. Taken : o \in Frags /\ o # Posted
        BY <1>3, <1>8, Ring
      <4>2. ~ \E o \in Gone .. Taken : txDescIndex = At(o)
        BY <1>8, <3>1, <4>1
      <4> QED BY <1>3, <3>1, <3>2, <3>3, <4>2
    <3>4. CASE Taken + 1 # EndOffset(u)
      BY <1>3, <3>2, <3>4
    <3> QED BY <3>3, <3>4
  <2> QED BY <1>0, <1>2, <1>9, <2>1 DEF Places
<1>11. Layout'
  <2>1. Count(fBegin, fEnd)' = Count(fBegin, fEnd)
    BY <1>2 DEF Count
  <2> QED BY <1>0, <1>2, <1>4, <1>5, <2>1 DEF Layout
<1>12. Contexts'
  BY <1>0, <1>2, <1>5, <1>6, <1>9 DEF Contexts
<1>13. CASE Taken + 1 # EndOffset(u)
  <2> DEFINE e == [index |-> At(Taken), frag |-> FAdd(fBegin, Taken), fs |-> (Taken = Gone)]
  <2>1. sent' = sent /\ garbled' = garbled /\ desc' = desc /\ frame' = Append(frame, e)
    BY <1>3, <1>13
  <2>2. /\ Len(frame') = Len(frame) + 1 /\ frame'[Len(frame) + 1] = e
        /\ \A k \in 1 .. Len(frame) : frame'[k] = frame[k]
    <3>1. frame \in Seq([index : Frags, frag : Frags, fs : BOOLEAN])
      BY <1>0 DEF TypeOK
    <3> HIDE DEF e
    <3> QED BY <2>1, <3>1
  <2>3. Gone' = Gone
    <3>1. Gone' = (Taken + 1) - (Len(frame) + 1)
      BY <1>3, <2>2 DEF Gone
    <3> QED BY <1>3, <1>7, <1>8, <3>1
  <2>4. Ownership'
    BY <1>0, <1>2, <1>5, <1>6, <2>1, <2>3 DEF Ownership
  <2>5. Frames'
    <3>1. ASSUME NEW k \in 1 .. Len(frame')
          PROVE  frame'[k] = [index |-> At(Gone + k - 1), frag |-> FAdd(fBegin, Gone + k - 1), fs |-> (k = 1)]
      <4>1. CASE k \in 1 .. Len(frame)
        BY <1>0, <2>2, <4>1 DEF Frames
      <4>2. CASE k \notin 1 .. Len(frame)
        <5>1. k = Len(frame) + 1
          BY <1>7, <2>2, <4>2
        <5>2. Gone + k - 1 = Taken /\ (k = 1 <=> Taken = Gone)
          BY <1>3, <1>7, <1>8, <5>1
        <5>3. (k = 1) = (Taken = Gone)
          BY <5>2
        <5> QED BY <2>2, <5>1, <5>2, <5>3
      <4> QED BY <4>1, <4>2
    <3>2. ASSUME NEW s \in Live, ~packet[s].Ignore
          PROVE  IF s \in sent THEN EndOffset(s) <= Gone ELSE Gone <= Offset(s) /\ Taken + 1 < EndOffset(s)
      <4>1. IF s \in sent THEN EndOffset(s) <= Gone ELSE Gone <= Offset(s) /\ Taken < EndOffset(s)
        BY <1>0, <3>2 DEF Frames
      <4>2. CASE s = u
        BY <1>3, <1>7, <1>13, <4>1, <4>2
      <4>3. CASE s # u /\ s \notin sent
        <5>1. EndOffset(u) <= Offset(s) /\ Offset(s) < EndOffset(s) /\ Offset(s) \in Nat /\ EndOffset(s) \in Nat
          BY <1>3, <1>7, <3>2, <4>3
        <5> QED BY <1>3, <1>7, <4>1, <4>3, <5>1
      <4>4. CASE s \in sent
        BY <4>1, <4>4
      <4> QED BY <4>2, <4>3, <4>4
    <3>3. 0 <= Gone /\ Taken + 1 <= Posted
      BY <1>3
    <3> QED BY <1>0, <1>2, <1>3, <1>5, <1>6, <1>9, <2>1, <2>3, <3>1, <3>2, <3>3 DEF Frames
  <2> QED BY <1>0, <1>1, <1>10, <1>11, <1>12, <2>1, <2>4, <2>5 DEF RingsAgree, FramesWhole
<1>14. CASE Taken + 1 = EndOffset(u)
  <2>1. /\ sent' = sent \cup {u} /\ garbled' = garbled /\ frame' = <<>>
        /\ desc' = [j \in Frags |-> IF \E o \in Gone .. Taken : j = At(o)
                                    THEN [desc[j] EXCEPT !.own = FALSE] ELSE desc[j]]
    BY <1>3, <1>14
  <2>2. Gone' = Taken + 1
    <3>1. Len(frame') = 0
      BY <2>1
    <3>2. Gone' = (Taken + 1) - 0
      BY <1>3, <3>1 DEF Gone
    <3> QED BY <1>3, <3>2
  <2>3. Ownership'
    <3> SUFFICES ASSUME NEW o \in Frags
                 PROVE  /\ desc'[At(o)].own <=> Taken + 1 <= o /\ o < Posted
                        /\ desc'[At(o)].own =>
                             /\ desc'[At(o)].frag = FAdd(fBegin, o)
                             /\ desc'[At(o)].eor <=> At(o) = NumFragments - 1
                             /\ \A s \in Live : Offset(s) <= o /\ o < EndOffset(s) =>
                                  /\ desc'[At(o)].fs <=> o = Offset(s)
                                  /\ desc'[At(o)].ls <=> o + 1 = EndOffset(s)
      BY <1>2, <1>5, <1>6, <2>2 DEF Ownership
    <3>0. At(o) \in Frags /\ o \in Nat
      BY <1>8, Ring
    <3>1. CASE o \in Gone .. Taken
      <4>1. desc'[At(o)] = [desc[At(o)] EXCEPT !.own = FALSE]
        BY <2>1, <3>0, <3>1
      <4>2. \A r \in [own : BOOLEAN, fs : BOOLEAN, ls : BOOLEAN, eor : BOOLEAN, frag : Frags] :
              [r EXCEPT !.own = FALSE].own = FALSE
        OBVIOUS
      <4>3. desc'[At(o)].own = FALSE
        BY <1>0, <3>0, <4>1, <4>2 DEF TypeOK
      <4>4. ~(Taken + 1 <= o)
        BY <1>3, <3>0, <3>1
      <4> QED BY <4>3, <4>4
    <3>2. CASE o \notin Gone .. Taken
      <4>1. \A q \in Gone .. Taken : q \in Frags /\ q # o
        <5>1. \A q \in Gone .. Taken : q \in Frags
          BY <1>3, <1>8, Ring
        <5> QED BY <3>2, <5>1
      <4>2. desc'[At(o)] = desc[At(o)]
        BY <1>8, <2>1, <3>0, <4>1
      <4>3. (Taken + 1 <= o /\ o < Posted) <=> (Gone <= o /\ o < Posted)
        BY <1>3, <3>0, <3>2
      <4> QED BY <1>0, <4>2, <4>3 DEF Ownership
    <3> QED BY <3>1, <3>2
  <2>4. Frames'
    <3>1. ASSUME NEW s \in Live, ~packet[s].Ignore
          PROVE  IF s \in sent' THEN EndOffset(s) <= Taken + 1
                 ELSE Taken + 1 <= Offset(s) /\ Taken + 1 < EndOffset(s)
      <4>1. CASE s = u
        BY <1>3, <1>7, <1>14, <2>1, <4>1
      <4>2. CASE s \in sent
        <5>1. EndOffset(s) <= Gone /\ EndOffset(s) \in Nat
          BY <1>0, <1>7, <3>1, <4>2 DEF Frames
        <5> QED BY <1>3, <2>1, <4>2, <5>1
      <4>3. CASE s # u /\ s \notin sent
        <5>1. EndOffset(u) <= Offset(s) /\ Offset(s) < EndOffset(s) /\ Offset(s) \in Nat /\ EndOffset(s) \in Nat
          BY <1>3, <1>7, <3>1, <4>3
        <5> QED BY <1>3, <1>7, <1>14, <2>1, <4>3, <5>1
      <4> QED BY <4>1, <4>2, <4>3
    <3>2. ASSUME NEW s \in sent' PROVE Pos(s) < Pos(pEnd) /\ ~packet[s].Ignore
      <4>1. CASE s \in sent
        BY <1>0, <4>1 DEF Frames
      <4>2. CASE s = u
        BY <1>0, <1>3, <4>2 DEF Live, IsOldest, Unsent
      <4> QED BY <2>1, <3>2, <4>1, <4>2
    <3>3. \A s \in Slots : Pos(s) < Pos(Oldest) => packet[s].Ignore \/ s \in sent'
      BY <1>0, <2>1 DEF Frames
    <3>4. 0 <= Taken + 1 /\ Taken + 1 <= Posted
      BY <1>3
    <3>5. \A k \in 1 .. Len(frame') : FALSE
      BY <2>1
    <3> QED BY <1>2, <1>3, <1>5, <1>6, <1>9, <2>2, <3>1, <3>2, <3>3, <3>4, <3>5 DEF Frames
  <2> QED BY <1>0, <1>1, <1>10, <1>11, <1>12, <2>1, <2>3, <2>4 DEF RingsAgree, FramesWhole
<1> QED BY <1>13, <1>14

LEMMA StutterNext == ASSUME RingsAgree, UNCHANGED vars PROVE RingsAgree'
<1>0. TypeOK /\ Places /\ Layout /\ Contexts /\ Ownership /\ Frames /\ FramesWhole
  BY DEF RingsAgree
<1>1. TypeOK'
  BY TypeNext
<1>2. UNCHANGED <<pBegin, pNext, pEnd, fBegin, fNext, fEnd, packet, tcb, desc, txDescIndex, pc, pi,
                  hwIndex, frame, sent, garbled>>
  BY DEF vars
<1>3. Oldest' = Oldest /\ Posting' = Posting /\ Posted' = Posted
  BY <1>2 DEF Oldest, Posting, Posted, Count
<1>4. /\ Live' = Live
      /\ \A s : Pos(s)' = Pos(s) /\ Offset(s)' = Offset(s) /\ EndOffset(s)' = EndOffset(s)
  BY <1>2, <1>3, SameRing
<1>5. fNext' = IF Posting' = pEnd THEN fEnd ELSE packet[Posting'].FragmentIndex
  BY <1>0, <1>2, <1>3 DEF Layout
<1>6. Ownership' /\ Frames' /\ FramesWhole' /\ Layout' /\ \A o : At(o)' = At(o)
  BY <1>2, <1>3, <1>5, SameDescriptors
<1>7. Pos(pNext)' = Pos(pNext) /\ Pos(pEnd)' = Pos(pEnd) /\ Pos(pi)' = Pos(pi) /\ Pos(Posting)' = Pos(Posting)
  BY <1>2, <1>3 DEF Pos
<1>8. Places' /\ Contexts'
  <2>1. Places'
    BY <1>0, <1>2, <1>7 DEF Places
  <2>2. Contexts'
    BY <1>0, <1>2, <1>4, <1>6, <1>7 DEF Contexts
  <2> QED BY <2>1, <2>2
<1> QED BY <1>1, <1>6, <1>8 DEF RingsAgree

LEMMA InvNext == ASSUME RingsAgree, [Next]_vars, WriteBack = "packet" PROVE RingsAgree'
<1>1. CASE CompletePacket
  BY <1>1, CompleteIgnoredNext, CompleteTakenNext
<1>2. CASE AdvanceBegin \/ Stop \/ PostIgnored \/ PostPacket \/ PostFields \/ PostPacketEnd \/ PostEnd \/ HwIdle
  BY <1>2, QuietNext
<1>3. CASE Start \/ PostStatus \/ CompleteEnd \/ HwFetch \/ UNCHANGED vars
  BY <1>3, StartNext, PostStatusNext, CompleteEndNext, HwFetchNext, StutterNext
<1>4. ASSUME NEW n \in 0 .. MaxFragments, Submit(n) PROVE RingsAgree'
  BY <1>4, SubmitNext
<1> QED BY <1>1, <1>2, <1>3, <1>4 DEF Next, Advance

(* Of a queue with no packets the device owns nothing.                     *)
LEMMA NothingLeft ==
  ASSUME TypeOK, Places, Layout, Ownership, pc = "idle", pBegin = pEnd
  PROVE  \A j \in Frags : ~desc[j].own
<1>1. /\ fBegin \in Frags /\ Posted \in Nat /\ Posted \in Frags /\ Posted <= Count(fBegin, fEnd)
      /\ txDescIndex \in Frags
  BY TypeFacts, PostedFacts
<1>2. fBegin = fEnd /\ Count(fBegin, fEnd) = 0
  BY <1>1, CountFacts DEF Layout, Oldest
<1>3. Posted = 0
  BY <1>1, <1>2
<1>4. DescBegin \in Frags
  <2>1. \A b, e \in Frags : Count(b, e) \in Nat /\ Count(b, e) < NumFragments
    BY CountFacts
  <2> QED BY <1>1, <2>1, Ring DEF DescBegin
<1> SUFFICES ASSUME NEW j \in Frags PROVE ~desc[j].own
  OBVIOUS
<1>5. Count(DescBegin, j) \in Frags /\ At(Count(DescBegin, j)) = j
  BY <1>4, CountFacts, Ring DEF At
<1>6. ~(Count(DescBegin, j) < Posted)
  BY <1>3, <1>5, Ring
<1> QED BY <1>5, <1>6 DEF Ownership

(* A descriptor is posted before the device is rung and the device stops   *)
(* polling only when it owns nothing at its index.                         *)
LEMMA DoorbellNext == ASSUME RingsAgree, Doorbell, [Next]_vars PROVE Doorbell'
<1>0. TypeOK /\ Places /\ Layout /\ Ownership /\ Frames
  BY DEF RingsAgree
<1>1. hwIndex \in Frags /\ txDescIndex \in Frags /\ pi \in Slots /\ tcb[pi].NumTxDesc \in Nat
  BY <1>0, TypeFacts
<1>2. CASE Start
  <2>1. \A j \in Frags : desc'[j].own = FALSE
    BY <1>2 DEF Start, Zero
  <2>2. hwIndex' \in Frags
    BY <1>2, Ring DEF Start
  <2> QED BY <2>1, <2>2 DEF Doorbell
<1>3. CASE Stop
  <2>1. ~desc[hwIndex].own
    BY <1>0, <1>1, <1>3, NothingLeft DEF Stop
  <2> QED BY <1>3, <2>1 DEF Stop, Doorbell, hwVars
<1>4. CASE (\E n \in 0 .. MaxFragments : Submit(n)) \/ AdvanceBegin
  BY <1>4 DEF Submit, AdvanceBegin, Doorbell, hwVars, pcVars
<1>5. CASE PostIgnored \/ PostPacketEnd \/ PostEnd
  BY <1>5 DEF PostIgnored, PostPacketEnd, PostEnd, Doorbell, hwVars
<1>6. CASE PostPacket
  BY <1>6 DEF PostPacket, Doorbell, hwVars
<1>7. CASE PostFields
  <2>1. desc'[hwIndex].own = desc[hwIndex].own
    BY <1>0, <1>1, <1>7 DEF PostFields, TypeOK
  <2> QED BY <1>7, <2>1 DEF PostFields, Doorbell, hwVars
<1>8. CASE PostStatus
  <2>1. tcb'[pi].NumTxDesc = tcb[pi].NumTxDesc + 1
    BY <1>0, <1>1, <1>8 DEF PostStatus, TypeOK
  <2> QED BY <1>1, <1>8, <2>1 DEF PostStatus, Doorbell
<1>9. CASE CompletePacket \/ CompleteEnd
  <2>1. desc'[hwIndex].own => desc[hwIndex].own
    BY <1>1, <1>9 DEF CompletePacket, CompleteEnd, Zero
  <2>2. pc = "complete" /\ hwIndex' = hwIndex /\ poll' = poll
    BY <1>9 DEF CompletePacket, CompleteEnd, hwVars
  <2> QED BY <2>1, <2>2 DEF Doorbell
<1>10. CASE HwFetch
  BY <1>10 DEF HwFetch, Doorbell
<1>11. CASE HwIdle \/ UNCHANGED vars
  BY <1>11 DEF HwIdle, Doorbell, vars, hwVars, pcVars
<1> QED BY <1>2, <1>3, <1>4, <1>5, <1>6, <1>7, <1>8, <1>9, <1>10, <1>11 DEF Next, Advance

(* No interleaving of the driver, the framework and a device that hands    *)
(* back whole packets leaves the invariant, for rings of any two sizes.    *)
THEOREM TxInvariance == ASSUME WriteBack = "packet" PROVE Spec => []IInv
<1>1. Init => IInv
  <2> SUFFICES ASSUME Init PROVE Doorbell
    BY InitInv DEF IInv
  <2> QED BY Ring DEF Init, Doorbell, Zero
<1>2. IInv /\ [Next]_vars => IInv'
  BY InvNext, DoorbellNext DEF IInv
<1> QED BY <1>1, <1>2, PTL DEF Spec

LEMMA RingsInvariance == ASSUME WriteBack = "packet" PROVE Spec => []RingsAgree
<1>1. IInv => RingsAgree
  BY DEF IInv
<1> QED BY <1>1, TxInvariance, PTL

(* The poll register is never left clear with a descriptor waiting, in     *)
(* whatever order the device reads and the driver posts and rings          *)
(* (txqueue.cpp:261-267, :342-351).                                        *)
THEOREM DoorbellSafe == ASSUME WriteBack = "packet" PROVE Spec => []Doorbell
<1>1. IInv => Doorbell
  BY DEF IInv
<1> QED BY <1>1, TxInvariance, PTL

(* Types; the end-of-ring flag keeps the device within the ring.           *)
THEOREM TxTypeCorrect == ASSUME WriteBack = "packet" PROVE Spec => []TypeOK
<1>1. RingsAgree => TypeOK
  BY DEF RingsAgree
<1> QED BY <1>1, RingsInvariance, PTL

(* EvtTxQueueAdvance takes back only packets the device has read to their  *)
(* last fragment (txqueue.cpp:292-293).                                    *)
THEOREM CompletedSafe == ASSUME WriteBack = "packet" PROVE Spec => []CompletedWasSent
BY RingsInvariance, InvCompleted, PTL

(* RtPostTxDescriptor never writes a descriptor that the device owns or    *)
(* that stands for a packet not yet completed.                             *)
THEOREM PostSafe == ASSUME WriteBack = "packet" PROVE Spec => []PostsToFree
BY RingsInvariance, InvPosts, PTL

(* A descriptor the device owns points at a fragment that has not been     *)
(* handed back.                                                            *)
THEOREM HeldSafe == ASSUME WriteBack = "packet" PROVE Spec => []BuffersHeld
BY RingsInvariance, InvBuffers, PTL

(* Every frame on the wire is exactly one packet, the packets in order,    *)
(* also across a restart of the queue.                                     *)
THEOREM FrameSafe == ASSUME WriteBack = "packet" PROVE Spec => []FramesWhole
<1>1. RingsAgree => FramesWhole
  BY DEF RingsAgree
<1> QED BY <1>1, RingsInvariance, PTL

-----------------------------------------------------------------------------
(* The refinement.                                                         *)

Entry(s, pk, out) == [slot |-> s, ignored |-> pk[s].Ignore, sent |-> s \in out]

Outstanding == [k \in 1 .. (pEnd - pBegin) % NumPackets |->
                 [slot    |-> PAdd(pBegin, k - 1),
                  ignored |-> packet[PAdd(pBegin, k - 1)].Ignore,
                  sent    |-> PAdd(pBegin, k - 1) \in sent]]

LEMMA OutstandingFacts ==
  TypeOK => /\ Outstanding \in Seq(Service!Packet) /\ Len(Outstanding) = Pos(pEnd)
            /\ \A k \in 1 .. Pos(pEnd) : Outstanding[k] = Entry(PAdd(pBegin, k - 1), packet, sent)
<1> SUFFICES ASSUME TypeOK
             PROVE  /\ Outstanding \in Seq(Service!Packet) /\ Len(Outstanding) = Pos(pEnd)
                    /\ \A k \in 1 .. Pos(pEnd) : Outstanding[k] = Entry(PAdd(pBegin, k - 1), packet, sent)
  OBVIOUS
<1> DEFINE n == Pos(pEnd)
<1>1. n \in Nat /\ n < NumPackets /\ pBegin \in Slots /\ \A s \in Slots : packet[s].Ignore \in BOOLEAN
  BY TypeFacts
<1>2. Outstanding = [k \in 1 .. n |-> Entry(PAdd(pBegin, k - 1), packet, sent)]
  BY DEF Outstanding, Entry, Pos
<1> HIDE DEF n
<1>3. ASSUME NEW k \in 1 .. n PROVE Entry(PAdd(pBegin, k - 1), packet, sent) \in Service!Packet
  <2>1. k - 1 \in Nat /\ k - 1 < NumPackets
    BY <1>1, Ring
  <2>2. PAdd(pBegin, k - 1) \in Slots
    BY <1>1, <2>1, PacketFacts
  <2>3. (PAdd(pBegin, k - 1) \in sent) \in BOOLEAN
    OBVIOUS
  <2> QED BY <1>1, <2>2, <2>3 DEF Entry, Service!Packet
<1> QED BY <1>1, <1>2, <1>3 DEF n

LEMMA OutstandingNext ==
  TypeOK' => /\ Outstanding' \in Seq(Service!Packet) /\ Len(Outstanding') = Pos(pEnd)'
             /\ \A k \in 1 .. Pos(pEnd)' : Outstanding'[k] = Entry(PAdd(pBegin', k - 1), packet', sent')
<1>1. TypeOK' => (/\ Outstanding \in Seq(Service!Packet) /\ Len(Outstanding) = Pos(pEnd)
                  /\ \A k \in 1 .. Pos(pEnd) : Outstanding[k] = Entry(PAdd(pBegin, k - 1), packet, sent))'
  BY OutstandingFacts, PTL
<1> QED BY <1>1 DEF Entry, PAdd

LEMMA PAddAdd ==
  ASSUME NEW s \in Slots, NEW m \in Nat, NEW n \in Nat, m + n < NumPackets
  PROVE  PAdd(PAdd(s, m), n) = PAdd(s, m + n)
<1>1. /\ PAdd(s, m) = IF s + m < NumPackets THEN s + m ELSE s + m - NumPackets
      /\ PAdd(s, m + n) = IF s + (m + n) < NumPackets THEN s + (m + n) ELSE s + (m + n) - NumPackets
  BY Closed, Ring
<1>2. PAdd(s, m) \in Slots
  <2>1. m < NumPackets
    BY Ring
  <2> QED BY <2>1, PacketFacts
<1>3. PAdd(PAdd(s, m), n) = IF PAdd(s, m) + n < NumPackets THEN PAdd(s, m) + n
                            ELSE PAdd(s, m) + n - NumPackets
  BY <1>2, Closed, Ring
<1> QED BY <1>1, <1>2, <1>3, Ring

LEMMA RestOfSeq ==
  ASSUME NEW S, NEW s \in Seq(S), NEW n \in Nat, n <= Len(s)
  PROVE  /\ SubSeq(s, n + 1, Len(s)) \in Seq(S)
         /\ Len(SubSeq(s, n + 1, Len(s))) = Len(s) - n
         /\ \A k \in 1 .. Len(s) - n : SubSeq(s, n + 1, Len(s))[k] = s[n + k]
<1>1. Len(s) \in Nat
  OBVIOUS
<1>2. n + 1 \in 1 .. Len(s) + 1 /\ Len(s) \in n .. Len(s)
  BY <1>1
<1>3. \A k \in 1 .. Len(s) - n : n + k \in 1 .. Len(s) /\ (n + 1) + k - 1 = n + k
  BY <1>1
<1> QED BY <1>1, <1>2, <1>3, SubSeqProperties

(* A packet submitted is the youngest outstanding.                         *)
LEMMA SubmitStep ==
  ASSUME RingsAgree, RingsAgree', NEW n \in 0 .. MaxFragments, Submit(n)
  PROVE  Outstanding' = Append(Outstanding, [slot |-> pEnd, ignored |-> n = 0, sent |-> FALSE])
<1> DEFINE e == [slot |-> pEnd, ignored |-> n = 0, sent |-> FALSE]
           L == Pos(pEnd)
<1>0. TypeOK /\ Frames /\ TypeOK'
  BY DEF RingsAgree
<1>1. pEnd \in Slots /\ pBegin \in Slots /\ L \in Nat /\ L < NumPackets
  BY <1>0, TypeFacts
<1>2. /\ pBegin' = pBegin /\ pEnd' = PAdd(pEnd, 1) /\ sent' = sent /\ PAdd(pEnd, 1) # pBegin
      /\ packet'[pEnd].Ignore = (n = 0)
      /\ \A s \in Slots : s # pEnd => packet'[s] = packet[s]
  BY <1>0, <1>1 DEF Submit, hwVars, TypeOK
<1>3. /\ Outstanding \in Seq(Service!Packet) /\ Len(Outstanding) = L
      /\ \A k \in 1 .. L : Outstanding[k] = Entry(PAdd(pBegin, k - 1), packet, sent)
  BY <1>0, OutstandingFacts
<1>4. L + 1 < NumPackets
  <2>1. L = IF pEnd >= pBegin THEN pEnd - pBegin ELSE pEnd - pBegin + NumPackets
    BY <1>1, Closed DEF Pos
  <2>2. PAdd(pEnd, 1) = IF pEnd + 1 < NumPackets THEN pEnd + 1 ELSE pEnd + 1 - NumPackets
    BY <1>1, Closed, Ring
  <2> HIDE DEF L
  <2> QED BY <1>1, <1>2, <2>1, <2>2, Ring
<1>5. Pos(pEnd)' = L + 1
  <2>1. Pos(PAdd(pEnd, 1)) = L + 1
    BY <1>0, <1>1, <1>4, PosFacts
  <2> QED BY <1>2, <2>1 DEF Pos
<1>6. /\ Outstanding' \in Seq(Service!Packet) /\ Len(Outstanding') = L + 1
      /\ \A k \in 1 .. L + 1 : Outstanding'[k] = Entry(PAdd(pBegin, k - 1), packet', sent)
  BY <1>0, <1>2, <1>5, OutstandingNext
<1>7. pEnd = PAdd(pBegin, L) /\ pEnd \notin sent
  <2>1. pEnd = PAdd(pBegin, L)
    BY <1>0, <1>1, PosFacts
  <2>2. pEnd \in sent => L < L
    BY <1>0 DEF Frames
  <2> HIDE DEF L
  <2> QED BY <1>1, <2>1, <2>2
<1> HIDE DEF L
<1>8. Outstanding'[L + 1] = e
  <2>1. L + 1 \in 1 .. L + 1 /\ (L + 1) - 1 = L
    BY <1>1
  <2>2. Outstanding'[L + 1] = Entry(pEnd, packet', sent)
    BY <1>6, <1>7, <2>1
  <2>3. (pEnd \in sent) = FALSE
    BY <1>7
  <2> QED BY <1>2, <2>2, <2>3 DEF Entry
<1>9. ASSUME NEW k \in 1 .. L PROVE Outstanding'[k] = Outstanding[k]
  <2>1. k \in 1 .. L + 1 /\ k - 1 \in Nat /\ k - 1 < NumPackets /\ k - 1 < L
    BY <1>1, Ring
  <2>2. PAdd(pBegin, k - 1) \in Slots /\ Pos(PAdd(pBegin, k - 1)) = k - 1
    BY <1>0, <2>1, PosFacts
  <2>3. PAdd(pBegin, k - 1) # pEnd
    BY <1>1, <2>1, <2>2 DEF L
  <2> QED BY <1>2, <1>3, <1>6, <2>1, <2>2, <2>3 DEF Entry
<1>10. e \in Service!Packet
  BY <1>1 DEF Service!Packet
<1> HIDE DEF e
<1>11. /\ Append(Outstanding, e) \in Seq(Service!Packet) /\ Len(Append(Outstanding, e)) = L + 1
       /\ \A k \in 1 .. L : Append(Outstanding, e)[k] = Outstanding[k]
       /\ Append(Outstanding, e)[L + 1] = e
  BY <1>3, <1>10, AppendProperties
<1>12. \A k \in 1 .. L + 1 : Outstanding'[k] = Append(Outstanding, e)[k]
  <2> SUFFICES ASSUME NEW k \in 1 .. L + 1 PROVE Outstanding'[k] = Append(Outstanding, e)[k]
    OBVIOUS
  <2>1. k \in 1 .. L \/ k = L + 1
    BY <1>1
  <2> QED BY <1>8, <1>9, <1>11, <2>1
<1>13. Outstanding' = Append(Outstanding, e)
  BY <1>6, <1>11, <1>12, SeqEqual
<1> QED BY <1>13 DEF e

(* A frame sent is the oldest outstanding packet that is not settled.      *)
LEMMA TransmitStep ==
  ASSUME RingsAgree, RingsAgree', WriteBack = "packet", HwFetch
  PROVE  Service!Transmit \/ Outstanding' = Outstanding
<1>0. TypeOK /\ TypeOK'
  BY DEF RingsAgree
<1>1. pBegin' = pBegin /\ pEnd' = pEnd /\ packet' = packet
  BY DEF HwFetch, ringVars
<1>2. PICK u \in Live : /\ u \in Slots /\ IsOldest(u)
                        /\ sent' = sent \/ sent' = sent \cup {u}
  BY FetchFacts
<1>3. CASE sent' = sent
  BY <1>1, <1>3 DEF Outstanding
<1>4. CASE sent' = sent \cup {u}
  <2> DEFINE L == Pos(pEnd)
             m == Pos(u) + 1
             e == [Outstanding[m] EXCEPT !.sent = TRUE]
  <2>1. L \in Nat /\ L < NumPackets /\ Pos(u) \in Nat /\ Pos(u) < L /\ pBegin \in Slots /\ pEnd \in Slots
    BY <1>0, <1>2, TypeFacts DEF Live
  <2>2. m \in 1 .. L /\ m - 1 = Pos(u) /\ m \in Nat
    BY <2>1
  <2>3. u = PAdd(pBegin, m - 1)
    BY <1>0, <1>2, <2>2, PosFacts
  <2>4. /\ Outstanding \in Seq(Service!Packet) /\ Len(Outstanding) = L
        /\ \A k \in 1 .. L : Outstanding[k] = Entry(PAdd(pBegin, k - 1), packet, sent)
    BY <1>0, OutstandingFacts
  <2>5. Pos(pEnd)' = L
    BY <1>1 DEF Pos
  <2>6. /\ Outstanding' \in Seq(Service!Packet) /\ Len(Outstanding') = L
        /\ \A k \in 1 .. L : Outstanding'[k] = Entry(PAdd(pBegin, k - 1), packet, sent \cup {u})
    BY <1>0, <1>1, <1>4, <2>5, OutstandingNext
  <2>7. u \in Unsent /\ ~packet[u].Ignore /\ u \notin sent
    BY <1>2 DEF IsOldest, Unsent
  <2> HIDE DEF L, m
  <2>8. ~Service!Settled(Outstanding[m])
    <3>1. Outstanding[m] = Entry(u, packet, sent)
      BY <2>2, <2>3, <2>4
    <3>2. Outstanding[m].ignored = packet[u].Ignore /\ Outstanding[m].sent = (u \in sent)
      BY <3>1 DEF Entry
    <3> QED BY <2>7, <3>2 DEF Service!Settled
  <2>9. ASSUME NEW j \in 1 .. m - 1 PROVE Service!Settled(Outstanding[j])
    <3>1. j \in 1 .. L /\ j - 1 \in Nat /\ j - 1 < NumPackets /\ j - 1 < Pos(u) /\ j - 1 < L
      BY <2>1, <2>2, Ring
    <3> DEFINE s == PAdd(pBegin, j - 1)
    <3>2. s \in Slots /\ Pos(s) = j - 1
      BY <1>0, <3>1, PosFacts
    <3>3. Outstanding[j].ignored = packet[s].Ignore /\ Outstanding[j].sent = (s \in sent)
      <4>1. Outstanding[j] = Entry(s, packet, sent)
        BY <2>4, <3>1
      <4> HIDE DEF s
      <4> QED BY <4>1 DEF Entry
    <3> HIDE DEF s
    <3>4. s \in SlotsBetween(pBegin, pEnd)
      BY <1>0, <2>1, <3>1, <3>2, BetweenFacts DEF L
    <3>5. packet[s].Ignore \/ s \in sent
      <4>1. s \in Unsent => Pos(u) <= Pos(s)
        BY <1>2 DEF IsOldest, Pos
      <4>2. ~(Pos(u) <= Pos(s))
        BY <2>1, <3>1, <3>2
      <4> QED BY <3>4, <4>1, <4>2 DEF Unsent
    <3> QED BY <3>3, <3>5 DEF Service!Settled
  <2>10. e \in Service!Packet /\ Outstanding'[m] = e
    <3>1. Outstanding[m] \in Service!Packet /\ Outstanding'[m] \in Service!Packet
      BY <2>2, <2>4, <2>6, ElementOfSeq
    <3>2. Outstanding[m] = Entry(u, packet, sent) /\ Outstanding'[m] = Entry(u, packet, sent \cup {u})
      BY <2>2, <2>3, <2>4, <2>6
    <3>3. /\ Outstanding[m].slot = u /\ Outstanding[m].ignored = packet[u].Ignore
          /\ Outstanding'[m].slot = u /\ Outstanding'[m].ignored = packet[u].Ignore
          /\ Outstanding'[m].sent = TRUE
      <4>1. \A out : /\ Entry(u, packet, out).slot = u
                     /\ Entry(u, packet, out).ignored = packet[u].Ignore
                     /\ Entry(u, packet, out).sent = (u \in out)
        BY DEF Entry
      <4>2. Outstanding'[m].sent = (u \in sent \cup {u})
        BY <3>2, <4>1
      <4>3. (u \in sent \cup {u}) = TRUE
        OBVIOUS
      <4>4. Outstanding'[m].sent = TRUE
        BY <4>2, <4>3, Zenon
      <4> QED BY <3>2, <4>1, <4>4
    <3>4. \A r \in Service!Packet : /\ [r EXCEPT !.sent = TRUE] \in Service!Packet
                                    /\ [r EXCEPT !.sent = TRUE].slot = r.slot
                                    /\ [r EXCEPT !.sent = TRUE].ignored = r.ignored
                                    /\ [r EXCEPT !.sent = TRUE].sent = TRUE
      BY DEF Service!Packet
    <3>5. e \in Service!Packet /\ e.slot = u /\ e.ignored = packet[u].Ignore /\ e.sent = TRUE
      BY <3>1, <3>3, <3>4
    <3>6. \A r, q \in Service!Packet : r.slot = q.slot /\ r.ignored = q.ignored /\ r.sent = q.sent => r = q
      BY DEF Service!Packet
    <3> HIDE DEF e
    <3> QED BY <3>1, <3>3, <3>5, <3>6
  <2>11. ASSUME NEW k \in 1 .. L, k # m PROVE Outstanding'[k] = Outstanding[k]
    <3>1. k - 1 \in Nat /\ k - 1 < NumPackets /\ k - 1 # Pos(u)
      BY <2>1, <2>2, <2>11, Ring
    <3>2. PAdd(pBegin, k - 1) # u
      <4>1. Pos(PAdd(pBegin, k - 1)) = k - 1
        BY <1>0, <3>1, PosFacts
      <4> QED BY <3>1, <4>1
    <3>3. (PAdd(pBegin, k - 1) \in sent \cup {u}) = (PAdd(pBegin, k - 1) \in sent)
      BY <3>2
    <3>4. /\ Outstanding[k] = Entry(PAdd(pBegin, k - 1), packet, sent)
          /\ Outstanding'[k] = Entry(PAdd(pBegin, k - 1), packet, sent \cup {u})
      BY <2>4, <2>6
    <3> QED BY <3>3, <3>4, Zenon DEF Entry
  <2>12. [Outstanding EXCEPT ![m].sent = TRUE] = [Outstanding EXCEPT ![m] = e]
    OBVIOUS
  <2> HIDE DEF e
  <2>13. /\ [Outstanding EXCEPT ![m] = e] \in Seq(Service!Packet)
         /\ Len([Outstanding EXCEPT ![m] = e]) = L
         /\ \A j \in 1 .. L : [Outstanding EXCEPT ![m] = e][j] = IF j = m THEN e ELSE Outstanding[j]
    BY <2>2, <2>4, <2>10, ExceptSeq
  <2>14. Outstanding' = [Outstanding EXCEPT ![m] = e]
    BY <2>6, <2>10, <2>11, <2>13, SeqEqual
  <2>15. /\ m \in 1 .. Len(Outstanding)
         /\ Outstanding' = [Outstanding EXCEPT ![m].sent = TRUE]
    BY <2>2, <2>4, <2>12, <2>14
  <2>16. Service!Transmit
    BY <2>8, <2>9, <2>15 DEF Service!Transmit, Outstanding
  <2> QED BY <2>16
<1> QED BY <1>2, <1>3, <1>4

(* The packets taken back are the oldest ones, all of them settled.        *)
LEMMA ReturnStep ==
  ASSUME RingsAgree, RingsAgree', CompleteEnd
  PROVE  Service!Return \/ Outstanding' = Outstanding
<1> DEFINE L == Pos(pEnd)
           n == Pos(pi)
           rest == SubSeq(Outstanding, n + 1, Len(Outstanding))
<1>0. TypeOK /\ Places /\ TypeOK'
  BY DEF RingsAgree
<1>1. /\ pBegin' = pi /\ pEnd' = pEnd /\ packet' = packet /\ pc = "complete" /\ pc' = "idle"
      /\ sent' = sent \ SlotsBetween(pBegin, pi)
  BY DEF CompleteEnd
<1>2. /\ L \in Nat /\ L < NumPackets /\ n \in Nat /\ pBegin \in Slots /\ pEnd \in Slots /\ pi \in Slots
      /\ pNext \in Slots /\ Pos(pNext) \in Nat
  BY <1>0, TypeFacts
<1>3. n <= L
  <2>1. n <= Pos(pNext) /\ Pos(pNext) <= L
    BY <1>0, <1>1 DEF Places
  <2> HIDE DEF n, L
  <2> QED BY <1>2, <2>1
<1>4. Pos(pEnd)' = L - n
  <2>1. Oldest = pi /\ Oldest' = pi
    BY <1>1 DEF Oldest
  <2>2. \A s \in Slots : Pos(pi) <= Pos(s) => Pos(s)' = Pos(s) - Pos(pi)
    BY <1>0, <1>1, <1>3, <2>1, RebaseFacts
  <2>3. \A s : Pos(s)' = (s - pi) % NumPackets
    BY <1>1 DEF Pos
  <2>4. Pos(pEnd)' = (pEnd - pi) % NumPackets
    BY <1>1 DEF Pos
  <2> QED BY <1>2, <1>3, <2>2, <2>3, <2>4
<1>5. /\ Outstanding \in Seq(Service!Packet) /\ Len(Outstanding) = L
      /\ \A k \in 1 .. L : Outstanding[k] = Entry(PAdd(pBegin, k - 1), packet, sent)
  BY <1>0, OutstandingFacts
<1>6. /\ Outstanding' \in Seq(Service!Packet) /\ Len(Outstanding') = L - n
      /\ \A k \in 1 .. L - n : Outstanding'[k] = Entry(PAdd(pi, k - 1), packet, sent')
  BY <1>0, <1>1, <1>4, OutstandingNext
<1>7. pi = PAdd(pBegin, n)
  BY <1>0, <1>2, PosFacts
<1>8. \A s : s \in SlotsBetween(pBegin, pi) <=> s \in Slots /\ Pos(s) < n
  BY <1>0, <1>2, BetweenFacts
<1>9. CompletedWasSent
  BY InvCompleted
<1> HIDE DEF L, n
<1>10. /\ rest \in Seq(Service!Packet) /\ Len(rest) = L - n
       /\ \A k \in 1 .. L - n : rest[k] = Outstanding[n + k]
  BY <1>2, <1>3, <1>5, RestOfSeq
<1>11. ASSUME NEW k \in 1 .. L - n PROVE Outstanding'[k] = rest[k]
  <2>1. n + k \in 1 .. L /\ (n + k) - 1 = n + (k - 1) /\ k - 1 \in Nat /\ n + (k - 1) < NumPackets
        /\ n + (k - 1) \in Nat
    BY <1>2, <1>3, Ring
  <2> DEFINE s == PAdd(pBegin, n + (k - 1))
  <2>2. PAdd(pi, k - 1) = s
    BY <1>2, <1>7, <2>1, PAddAdd
  <2>3. s \in Slots /\ Pos(s) = n + (k - 1)
    BY <1>0, <2>1, PosFacts
  <2>4. rest[k] = Entry(s, packet, sent)
    BY <1>5, <1>10, <2>1
  <2>5. Outstanding'[k] = Entry(s, packet, sent')
    BY <1>6, <2>2
  <2> HIDE DEF s
  <2>6. s \notin SlotsBetween(pBegin, pi)
    BY <1>2, <1>8, <2>1, <2>3
  <2>7. (s \in sent') = (s \in sent)
    BY <1>1, <2>6
  <2> HIDE DEF rest
  <2> QED BY <2>4, <2>5, <2>7, Zenon DEF Entry
<1>12. Outstanding' = rest
  <2> HIDE DEF rest
  <2> QED BY <1>6, <1>10, <1>11, SeqEqual
<1>13. ASSUME NEW j \in 1 .. n PROVE Service!Settled(Outstanding[j])
  <2>1. j \in 1 .. L /\ j - 1 \in Nat /\ j - 1 < NumPackets /\ j - 1 < n
    BY <1>2, <1>3, Ring
  <2> DEFINE s == PAdd(pBegin, j - 1)
  <2>2. s \in Slots /\ Pos(s) = j - 1
    BY <1>0, <2>1, PosFacts
  <2>3. Outstanding[j].ignored = packet[s].Ignore /\ Outstanding[j].sent = (s \in sent)
    <3>1. Outstanding[j] = Entry(s, packet, sent)
      BY <1>5, <2>1
    <3> HIDE DEF s
    <3> QED BY <3>1 DEF Entry
  <2> HIDE DEF s
  <2>4. packet[s].Ignore \/ s \in sent
    BY <1>1, <1>8, <1>9, <2>1, <2>2 DEF CompletedWasSent
  <2> QED BY <2>3, <2>4 DEF Service!Settled
<1>14. CASE n = 0
  <2>1. Outstanding' = Outstanding
    <3>1. L - n = L /\ \A k \in 1 .. L : n + k = k
      BY <1>2, <1>14
    <3>2. \A k \in 1 .. L : Outstanding'[k] = Outstanding[k]
      BY <1>10, <1>12, <3>1
    <3> HIDE DEF rest
    <3> QED BY <1>5, <1>6, <3>1, <3>2, SeqEqual
  <2> QED BY <2>1
<1>15. CASE n # 0
  <2>1. n \in 1 .. Len(Outstanding)
    BY <1>2, <1>3, <1>5, <1>15
  <2>2. Service!Return
    BY <1>12, <1>13, <2>1 DEF Service!Return, Outstanding
  <2> QED BY <2>2
<1> QED BY <1>14, <1>15

LEMMA TxStep ==
  ASSUME RingsAgree, RingsAgree', [Next]_vars, WriteBack = "packet"
  PROVE  Service!Next \/ Outstanding' = Outstanding
<1>1. ASSUME NEW n \in 0 .. MaxFragments, Submit(n) PROVE Service!Submit
  <2>1. Outstanding' = Append(Outstanding, [slot |-> pEnd, ignored |-> n = 0, sent |-> FALSE])
    BY <1>1, SubmitStep
  <2>2. pEnd \in Slots /\ (n = 0) \in BOOLEAN
    BY TypeFacts DEF RingsAgree
  <2> QED BY <2>1, <2>2 DEF Service!Submit, Outstanding
<1>2. CASE HwFetch
  BY <1>2, TransmitStep DEF Service!Next
<1>3. CASE CompleteEnd
  BY <1>3, ReturnStep DEF Service!Next
<1>4. CASE \/ Start \/ Stop \/ AdvanceBegin \/ PostIgnored \/ PostPacket \/ PostFields \/ PostStatus
           \/ PostPacketEnd \/ PostEnd \/ CompletePacket \/ HwIdle \/ UNCHANGED vars
  <2>1. UNCHANGED <<pBegin, pEnd, packet, sent>>
    BY <1>4 DEF Start, Stop, AdvanceBegin, PostIgnored, PostPacket, PostFields, PostStatus, PostPacketEnd,
                PostEnd, CompletePacket, HwIdle, vars, ringVars, hwVars
  <2> QED BY <2>1 DEF Outstanding
<1> QED BY <1>1, <1>2, <1>3, <1>4 DEF Next, Advance, Service!Next

(* The ring keeps the promises of RtTxService: packets go out in order,    *)
(* each once, and come back in order, only when sent or to be ignored.     *)
THEOREM TxImplements == ASSUME WriteBack = "packet" PROVE Spec => Implements
<1>1. Init => Service!Init
  <2> SUFFICES ASSUME Init PROVE Outstanding = <<>>
    BY DEF Service!Init, Outstanding
  <2>1. TypeOK /\ pBegin = 0 /\ pEnd = 0
    BY InitInv DEF RingsAgree, Init
  <2>2. Pos(pEnd) = 0
    BY <2>1, PosFacts
  <2>3. 1 .. (pEnd - pBegin) % NumPackets = {}
    BY <2>2 DEF Pos
  <2> QED BY <2>3 DEF Outstanding
<1>2. RingsAgree /\ RingsAgree' /\ [Next]_vars => [Service!Next]_Outstanding
  BY TxStep
<1> QED BY <1>1, <1>2, RingsInvariance, PTL DEF Spec, Implements, Service!Spec, Outstanding
=============================================================================
