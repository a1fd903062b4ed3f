--------------------------- MODULE RtRxRingProofs ---------------------------
(***************************************************************************)
(* Proofs about RtRxRing, for rings of any two sizes that fit: the         *)
(* invariant IInv, that every step keeps it, what follows from it, and     *)
(* that every step is one of RtRxService.                                  *)
(***************************************************************************)
EXTENDS RtRxRing, SequenceTheorems, TLAPS

-----------------------------------------------------------------------------
(* The arithmetic of the rings.                                            *)

LEMMA ModFacts ==
  ASSUME NEW d \in Nat \ {0}, NEW x \in Int
  PROVE  /\ x \in 0 .. d - 1 => x % d = x
         /\ x >= d /\ x < 2 * d => x % d = x - d
         /\ x < 0 /\ x >= 0 - d => x % d = x + d
OBVIOUS

LEMMA Ring == /\ NumPackets \in Nat /\ NumPackets > 1
              /\ NumFragments \in Nat /\ NumFragments > 1 /\ NumFragments <= NumPackets
              /\ \A j : j \in Frags <=> j \in Int /\ 0 <= j /\ j < NumFragments
              /\ \A s : s \in Slots <=> s \in Int /\ 0 <= s /\ s < NumPackets
              /\ Frags \subseteq Slots
BY RingAssumption DEF Frags, Slots

LEMMA Closed ==
  /\ \A b, e \in Frags : Count(b, e) = IF e >= b THEN e - b ELSE e - b + NumFragments
  /\ \A b \in Frags, n \in Nat : n <= NumFragments =>
       FAdd(b, n) = IF b + n < NumFragments THEN b + n ELSE b + n - NumFragments
  /\ \A s, t \in Slots : (t - s) % NumPackets = IF t >= s THEN t - s ELSE t - s + NumPackets
  /\ \A s \in Slots, n \in Nat : n <= NumPackets =>
       PAdd(s, n) = IF s + n < NumPackets THEN s + n ELSE s + n - NumPackets
<1>1. NumFragments \in Nat \ {0} /\ NumPackets \in Nat \ {0}
  BY Ring
<1>2. ASSUME NEW b \in Frags, NEW e \in Frags
      PROVE  Count(b, e) = IF e >= b THEN e - b ELSE e - b + NumFragments
  <2>1. /\ e - b \in 0 .. NumFragments - 1 => (e - b) % NumFragments = e - b
        /\ e - b < 0 /\ e - b >= 0 - NumFragments => (e - b) % NumFragments = e - b + NumFragments
    BY <1>1, <1>2, Ring, ModFacts
  <2> QED BY <1>1, <1>2, <2>1, Ring DEF Count
<1>3. ASSUME NEW b \in Frags, NEW n \in Nat, n <= NumFragments
      PROVE  FAdd(b, n) = IF b + n < NumFragments THEN b + n ELSE b + n - NumFragments
  <2>0. \A x \in Int : /\ x \in 0 .. NumFragments - 1 => x % NumFragments = x
                       /\ x >= NumFragments /\ x < 2 * NumFragments => x % NumFragments = x - NumFragments
    BY <1>1, ModFacts
  <2>4. b \in Int /\ n \in Int /\ NumFragments \in Int
    BY Ring
  <2> DEFINE x == b + n
  <2>1. FAdd(b, n) = x % NumFragments
    BY DEF FAdd
  <2>2. x \in Int /\ x >= 0 /\ x < 2 * NumFragments
    BY <1>3, Ring
  <2> HIDE DEF x
  <2>3. FAdd(b, n) = IF x < NumFragments THEN x ELSE x - NumFragments
    BY <2>0, <2>1, <2>2, Ring
  <2> QED BY <2>3, <2>4 DEF x
<1>4. ASSUME NEW s \in Slots, NEW t \in Slots
      PROVE  (t - s) % NumPackets = IF t >= s THEN t - s ELSE t - s + NumPackets
  <2>1. /\ t - s \in 0 .. NumPackets - 1 => (t - s) % NumPackets = t - s
        /\ t - s < 0 /\ t - s >= 0 - NumPackets => (t - s) % NumPackets = t - s + NumPackets
    BY <1>1, <1>4, Ring, ModFacts
  <2> QED BY <1>1, <1>4, <2>1, Ring
<1>5. ASSUME NEW s \in Slots, NEW n \in Nat, n <= NumPackets
      PROVE  PAdd(s, n) = IF s + n < NumPackets THEN s + n ELSE s + n - NumPackets
  <2>0. \A x \in Int : /\ x \in 0 .. NumPackets - 1 => x % NumPackets = x
                       /\ x >= NumPackets /\ x < 2 * NumPackets => x % NumPackets = x - NumPackets
    BY <1>1, ModFacts
  <2>4. s \in Int /\ n \in Int /\ NumPackets \in Int
    BY Ring
  <2> DEFINE x == s + n
  <2>1. PAdd(s, n) = x % NumPackets
    BY DEF PAdd
  <2>2. x \in Int /\ x >= 0 /\ x < 2 * NumPackets
    BY <1>5, Ring
  <2> HIDE DEF x
  <2>3. PAdd(s, n) = IF x < NumPackets THEN x ELSE x - NumPackets
    BY <2>0, <2>1, <2>2, Ring
  <2> QED BY <2>3, <2>4 DEF x
<1> QED BY <1>2, <1>3, <1>4, <1>5

(* The fragments, counted from one of them.                                *)
LEMMA CountFacts ==
  /\ \A b, e \in Frags : Count(b, e) \in Nat /\ Count(b, e) < NumFragments
                         /\ FAdd(b, Count(b, e)) = e
  /\ \A b \in Frags : Count(b, b) = 0
  /\ \A b, e, f \in Frags : Count(b, e) = Count(b, f) => e = f
  /\ \A b, e, f \in Frags :
       Count(f, e) = IF Count(b, f) <= Count(b, e) THEN Count(b, e) - Count(b, f)
                     ELSE Count(b, e) - Count(b, f) + NumFragments
<1>1. ASSUME NEW b \in Frags, NEW e \in Frags
      PROVE  Count(b, e) \in Nat /\ Count(b, e) < NumFragments /\ FAdd(b, Count(b, e)) = e
  <2>1. Count(b, e) = IF e >= b THEN e - b ELSE e - b + NumFragments
    BY Closed
  <2>2. Count(b, e) \in Nat /\ Count(b, e) < NumFragments
    BY <2>1, Ring
  <2>3. FAdd(b, Count(b, e)) = IF b + Count(b, e) < NumFragments THEN b + Count(b, e)
                               ELSE b + Count(b, e) - NumFragments
    BY <2>2, Closed, Ring
  <2> QED BY <2>1, <2>2, <2>3, Ring
<1>2. ASSUME NEW b \in Frags, NEW e \in Frags, NEW f \in Frags
      PROVE  /\ Count(b, b) = 0 /\ (Count(b, e) = Count(b, f) => e = f)
             /\ Count(f, e) = IF Count(b, f) <= Count(b, e) THEN Count(b, e) - Count(b, f)
                     ELSE Count(b, e) - Count(b, f) + NumFragments
  <2>1. /\ Count(b, e) = IF e >= b THEN e - b ELSE e - b + NumFragments
        /\ Count(b, f) = IF f >= b THEN f - b ELSE f - b + NumFragments
        /\ Count(f, e) = IF e >= f THEN e - f ELSE e - f + NumFragments
        /\ Count(b, b) = IF b >= b THEN b - b ELSE b - b + NumFragments
    BY Closed
  <2> QED BY <2>1, Ring
<1> QED BY <1>1, <1>2

LEMMA AddFacts ==
  /\ \A b \in Frags, n \in Nat : n < NumFragments => FAdd(b, n) \in Frags /\ Count(b, FAdd(b, n)) = n
  /\ \A b \in Frags : FAdd(b, 0) = b /\ FAdd(b, 1) \in Frags
                      /\ FAdd(b, 1) = IF b = NumFragments - 1 THEN 0 ELSE b + 1
  /\ \A b \in Frags, m, n \in Nat : m + n < NumFragments => FAdd(FAdd(b, m), n) = FAdd(b, m + n)
  /\ \A b \in Frags, m \in Nat : m < NumFragments => FAdd(FAdd(b, m), 1) = FAdd(b, m + 1)
<1>1. ASSUME NEW b \in Frags, NEW n \in Nat, n < NumFragments
      PROVE  FAdd(b, n) \in Frags /\ Count(b, FAdd(b, n)) = n
  <2>1. FAdd(b, n) = IF b + n < NumFragments THEN b + n ELSE b + n - NumFragments
    BY <1>1, Closed, Ring
  <2>2. FAdd(b, n) \in Frags
    BY <1>1, <2>1, Ring
  <2>3. Count(b, FAdd(b, n)) = IF FAdd(b, n) >= b THEN FAdd(b, n) - b ELSE FAdd(b, n) - b + NumFragments
    BY <2>2, Closed
  <2> QED BY <1>1, <2>1, <2>2, <2>3, Ring
<1>2. ASSUME NEW b \in Frags
      PROVE  FAdd(b, 0) = b /\ FAdd(b, 1) \in Frags
             /\ FAdd(b, 1) = IF b = NumFragments - 1 THEN 0 ELSE b + 1
  <2>1. /\ FAdd(b, 0) = IF b + 0 < NumFragments THEN b + 0 ELSE b + 0 - NumFragments
        /\ FAdd(b, 1) = IF b + 1 < NumFragments THEN b + 1 ELSE b + 1 - NumFragments
    BY Closed, Ring
  <2> QED BY <2>1, Ring
<1>3. ASSUME NEW b \in Frags, NEW m \in Nat, NEW n \in Nat, m < NumFragments,
             m + n <= NumFragments
      PROVE  FAdd(FAdd(b, m), n) = FAdd(b, m + n)
  <2>1. /\ FAdd(b, m) = IF b + m < NumFragments THEN b + m ELSE b + m - NumFragments
        /\ FAdd(b, m + n) = IF b + (m + n) < NumFragments THEN b + (m + n) ELSE b + (m + n) - NumFragments
    BY <1>3, Closed, Ring
  <2>2. FAdd(b, m) \in Frags
    BY <1>1, <1>3
  <2>3. FAdd(FAdd(b, m), n) = IF FAdd(b, m) + n < NumFragments THEN FAdd(b, m) + n
                              ELSE FAdd(b, m) + n - NumFragments
    BY <1>3, <2>2, Closed, Ring
  <2> QED BY <1>3, <2>1, <2>2, <2>3, Ring
<1>4. ASSUME NEW b \in Frags, NEW m \in Nat, NEW n \in Nat, m + n < NumFragments
      PROVE  FAdd(FAdd(b, m), n) = FAdd(b, m + n)
  BY <1>3, <1>4, Ring
<1>5. ASSUME NEW b \in Frags, NEW m \in Nat, m < NumFragments
      PROVE  FAdd(FAdd(b, m), 1) = FAdd(b, m + 1)
  BY <1>3, <1>5, Ring
<1> QED BY <1>1, <1>2, <1>4, <1>5

LEMMA CountNext ==
  ASSUME NEW b \in Frags, NEW e \in Frags, Count(b, e) < NumFragments - 1
  PROVE  Count(b, FAdd(e, 1)) = Count(b, e) + 1 /\ Count(b, e) + 1 < NumFragments
<1>1. Count(b, e) \in Nat /\ FAdd(b, Count(b, e)) = e
  BY CountFacts
<1>2. FAdd(e, 1) = FAdd(b, Count(b, e) + 1)
  BY <1>1, AddFacts, Ring
<1> QED BY <1>1, <1>2, AddFacts, Ring

(* The packets, counted from one of them.                                  *)
LEMMA PacketFacts ==
  ASSUME NEW s \in Slots
  PROVE  /\ \A n \in Nat : n < NumPackets => PAdd(s, n) \in Slots /\ (PAdd(s, n) - s) % NumPackets = n
         /\ \A n \in Nat : n + 1 < NumPackets => PAdd(PAdd(s, n), 1) = PAdd(s, n + 1)
         /\ PAdd(s, 0) = s /\ PAdd(s, 1) \in Slots
         /\ \A t \in Slots : /\ (t - s) % NumPackets \in Nat /\ (t - s) % NumPackets < NumPackets
                             /\ PAdd(s, (t - s) % NumPackets) = t
<1>1. ASSUME NEW n \in Nat, n < NumPackets
      PROVE  PAdd(s, n) \in Slots /\ (PAdd(s, n) - s) % NumPackets = n
  <2>1. PAdd(s, n) = IF s + n < NumPackets THEN s + n ELSE s + n - NumPackets
    BY <1>1, Closed, Ring
  <2>2. PAdd(s, n) \in Slots
    BY <1>1, <2>1, Ring
  <2>3. (PAdd(s, n) - s) % NumPackets = IF PAdd(s, n) >= s THEN PAdd(s, n) - s ELSE PAdd(s, n) - s + NumPackets
    BY <2>2, Closed
  <2> QED BY <1>1, <2>1, <2>2, <2>3, Ring
<1>2. ASSUME NEW n \in Nat, n + 1 < NumPackets
      PROVE  PAdd(PAdd(s, n), 1) = PAdd(s, n + 1)
  <2>1. /\ PAdd(s, n) = IF s + n < NumPackets THEN s + n ELSE s + n - NumPackets
        /\ PAdd(s, n + 1) = IF s + (n + 1) < NumPackets THEN s + (n + 1) ELSE s + (n + 1) - NumPackets
    BY <1>2, Closed, Ring
  <2>2. PAdd(s, n) \in Slots
    BY <1>1, <1>2, Ring
  <2>3. PAdd(PAdd(s, n), 1) = IF PAdd(s, n) + 1 < NumPackets THEN PAdd(s, n) + 1
                              ELSE PAdd(s, n) + 1 - NumPackets
    BY <2>2, Closed, Ring
  <2> QED BY <1>2, <2>1, <2>2, <2>3, Ring
<1>3. PAdd(s, 0) = s /\ PAdd(s, 1) \in Slots
  <2>1. PAdd(s, 0) = IF s + 0 < NumPackets THEN s + 0 ELSE s + 0 - NumPackets
    BY Closed, Ring
  <2> QED BY <1>1, <2>1, Ring
<1>4. ASSUME NEW t \in Slots
      PROVE  /\ (t - s) % NumPackets \in Nat /\ (t - s) % NumPackets < NumPackets
             /\ PAdd(s, (t - s) % NumPackets) = t
  <2> DEFINE n == (t - s) % NumPackets
  <2>1. n = IF t >= s THEN t - s ELSE t - s + NumPackets
    BY Closed
  <2> HIDE DEF n
  <2>2. n \in Nat /\ n < NumPackets
    BY <2>1, Ring
  <2>3. PAdd(s, n) = IF s + n < NumPackets THEN s + n ELSE s + n - NumPackets
    BY <2>2, Closed, Ring
  <2> QED BY <2>1, <2>2, <2>3, Ring DEF n
<1> QED BY <1>1, <1>2, <1>3, <1>4

-----------------------------------------------------------------------------
(* The invariant.                                                          *)

LEMMA TypeFacts ==
  ASSUME TypeOK
  PROVE  /\ pBegin \in Slots /\ pEnd \in Slots /\ pi \in Slots
         /\ fBegin \in Frags /\ fNext \in Frags /\ fEnd \in Frags /\ fi \in Frags /\ hwIndex \in Frags
         /\ desc \in [Slots -> [own : BOOLEAN, eor : BOOLEAN, fresh : BOOLEAN]]
         /\ landed \in Seq(Frags) /\ Len(landed) \in Nat
         /\ \A k \in 1 .. Len(landed) : landed[k] \in Frags
         /\ Posted \in Nat /\ Posted < NumFragments
         /\ Count(fBegin, fNext) \in Nat /\ Count(fBegin, fNext) < NumFragments
         /\ Count(fBegin, fEnd) \in Nat /\ Count(fBegin, fEnd) < NumFragments
         /\ Count(fBegin, fi) \in Nat /\ Count(fBegin, fi) < NumFragments
<1>1. /\ pBegin \in Slots /\ pEnd \in Slots /\ pi \in Slots
      /\ fBegin \in Frags /\ fNext \in Frags /\ fEnd \in Frags /\ fi \in Frags /\ hwIndex \in Frags
      /\ desc \in [Slots -> [own : BOOLEAN, eor : BOOLEAN, fresh : BOOLEAN]]
      /\ landed \in Seq(Frags)
  BY DEF TypeOK
<1>2. Len(landed) \in Nat /\ \A k \in 1 .. Len(landed) : landed[k] \in Frags
  BY <1>1
<1>3. Posted \in Nat /\ Posted < NumFragments
  BY <1>1, CountFacts DEF Posted
<1> QED BY <1>1, <1>2, <1>3, CountFacts

USE DEF Holding

(* A queue cancelled with all buffers posted finds its iterators at the    *)
(* end.                                                                    *)
LEMMA DoneFacts ==
  ASSUME IInv, cancel = "done", pc # "stopped"
  PROVE  /\ fBegin = fEnd /\ fNext = fEnd /\ landed = <<>>
         /\ pc \in {"indicate", "post", "status"} => fi = fEnd
<1>1. fBegin = fEnd /\ fNext = fEnd /\ landed = <<>>
  BY DEF IInv, Phases
<1>2. Count(fBegin, fNext) = 0 /\ Count(fBegin, fEnd) = 0
  BY <1>1, TypeFacts, CountFacts DEF IInv
<1>3. pc \in {"indicate", "post", "status"} => Count(fBegin, fi) <= 0
  BY <1>2 DEF IInv, Iterators, Posted
<1>4. Count(fBegin, fi) \in Nat
  BY TypeFacts, CountFacts DEF IInv
<1>5. pc \in {"indicate", "post", "status"} => Count(fBegin, fi) = 0
  BY <1>3, <1>4
<1> QED BY <1>1, <1>2, <1>5, TypeFacts, CountFacts DEF IInv

LEMMA RxInit == Init => IInv
<1> SUFFICES ASSUME Init PROVE IInv
  OBVIOUS
<1>1. 0 \in Frags /\ 0 \in Slots
  BY Ring
<1>2. TypeOK
  BY <1>1, Ring DEF Init, TypeOK, Zero
<1> QED BY <1>2 DEF Init, IInv, Phases, Iterators, Ownership, IndicatedWasReceived, Zero

LEMMA StartInv == IInv /\ Start => IInv'
<1> SUFFICES ASSUME IInv, Start PROVE IInv'
  OBVIOUS
<1>1. 0 \in Frags /\ 0 \in Slots /\ Count(0, 0) = 0 /\ FAdd(0, 0) = 0
      /\ \A j \in Frags : ~(Count(0, j) < 0)
  <2>1. 0 \in Frags /\ 0 \in Slots
    BY Ring
  <2>2. \A j \in Frags : ~(Count(0, j) < 0)
    BY <2>1, CountFacts
  <2> QED BY <2>1, <2>2, CountFacts, AddFacts
<1>2. landed' = <<>>
  BY DEF Start, IInv, Phases
<1>3. TypeOK'
  BY <1>1 DEF Start, TypeOK, Zero, IInv
<1>4. Phases'
  BY DEF Start, Phases
<1>5. Iterators'
  BY <1>1 DEF Start, Iterators
<1>6. Ownership'
  <2>1. /\ fBegin' = 0 /\ fNext' = 0 /\ hwIndex' = 0 /\ Len(landed') = 0 /\ Posted' = 0
        /\ desc' = [j \in Slots |-> Zero]
    BY <1>1, <1>2 DEF Start, Posted
  <2>2. \A j \in Slots : /\ desc'[j].own = FALSE
                         /\ ~(j \in Frags /\ 0 <= Count(0, j) /\ Count(0, j) < 0)
    BY <1>1, <2>1 DEF Zero
  <2> QED BY <1>1, <2>1, <2>2 DEF Ownership
<1>7. IndicatedWasReceived'
  BY DEF Start, IndicatedWasReceived
<1> QED BY <1>3, <1>4, <1>5, <1>6, <1>7 DEF IInv

LEMMA StopInv == IInv /\ Stop => IInv'
<1> SUFFICES ASSUME IInv, Stop PROVE IInv'
  OBVIOUS
<1>1. TypeOK'
  BY DEF Stop, TypeOK, IInv, ringVars
<1>2. Phases' /\ Iterators' /\ Ownership' /\ IndicatedWasReceived'
  BY DEF Stop, IInv, Phases, Iterators, Ownership, IndicatedWasReceived, ringVars
<1> QED BY <1>1, <1>2 DEF IInv

LEMMA ProvideInv == IInv /\ Provide => IInv'
<1> SUFFICES ASSUME IInv, Provide PROVE IInv'
  OBVIOUS
<1> USE TypeFacts DEF IInv
<1>0. /\ pc = "idle" /\ cancel = "no" /\ Count(fBegin, fEnd) < NumFragments - 1
      /\ packet' = [packet EXCEPT ![pEnd].Ignore = FALSE]
      /\ desc' = [desc EXCEPT ![fEnd].fresh = FALSE]
      /\ pEnd' = PAdd(pEnd, 1) /\ fEnd' = FAdd(fEnd, 1)
      /\ UNCHANGED <<pBegin, fBegin, fNext, pc, fi, pi, cancel, receiver, hwIndex, landed>>
  BY DEF Provide
<1>1. pEnd' \in Slots /\ fEnd' \in Frags /\ fEnd \in Slots
  BY <1>0, AddFacts, PacketFacts, Ring
<1>2. Count(fBegin, fEnd') = Count(fBegin, fEnd) + 1
  BY <1>0, CountNext
<1>3. TypeOK'
  <2>1. packet' \in [Slots -> [FragmentIndex : Frags, Ignore : BOOLEAN]]
    BY <1>0 DEF TypeOK
  <2>2. desc' \in [Slots -> [own : BOOLEAN, eor : BOOLEAN, fresh : BOOLEAN]]
    BY <1>0 DEF TypeOK
  <2> QED BY <1>0, <1>1, <2>1, <2>2 DEF TypeOK
<1>4. Phases'
  BY <1>0 DEF Phases
<1>5. Iterators'
  <2>1. Count(fBegin, fNext) <= Count(fBegin, fEnd)
    BY <1>0 DEF Iterators
  <2>2. Count(fBegin, fNext) <= Count(fBegin, fEnd) + 1
    BY <2>1
  <2> QED BY <1>0, <1>2, <2>2 DEF Iterators
<1>6. Ownership'
  <2>1. Posted' = Posted /\ Posted <= Count(fBegin, fEnd)
    BY <1>0 DEF Posted, Iterators
  <2>2. ~desc[fEnd].own
    <3>1. ~(Count(fBegin, fEnd) < Posted)
      BY <2>1
    <3> QED BY <1>0, <1>1, <3>1 DEF Ownership
  <2>3. \A j \in Slots : /\ desc'[j].own = desc[j].own /\ desc'[j].eor = desc[j].eor
                         /\ j # fEnd => desc'[j].fresh = desc[j].fresh
    BY <1>0
  <2> QED BY <1>0, <2>1, <2>2, <2>3 DEF Ownership
<1>7. IndicatedWasReceived'
  BY <1>0 DEF IndicatedWasReceived
<1> QED BY <1>3, <1>4, <1>5, <1>6, <1>7

LEMMA AdvanceBeginInv == IInv /\ cancel # "stranded" /\ AdvanceBegin => IInv'
<1> SUFFICES ASSUME IInv, cancel # "stranded", AdvanceBegin PROVE IInv'
  OBVIOUS
<1> USE TypeFacts DEF IInv
<1>0. /\ pc = "idle" /\ fi' = fBegin /\ pi' = pBegin /\ pc' = "indicate"
      /\ UNCHANGED <<pBegin, pEnd, fBegin, fNext, fEnd, packet, desc, cancel, receiver, hwIndex, landed>>
  BY DEF AdvanceBegin, ringVars
<1>1. TypeOK'
  BY <1>0 DEF TypeOK
<1>2. Phases'
  BY <1>0 DEF Phases
<1>3. Iterators'
  BY <1>0, CountFacts DEF Iterators
<1>4. Ownership'
  <2>1. Posted' = Posted
    BY <1>0 DEF Posted
  <2> QED BY <1>0, <2>1 DEF Ownership
<1>5. IndicatedWasReceived'
  <2>1. Count(fBegin, fBegin) = 0 /\ (pBegin - pBegin) % NumPackets = 0 /\ 0 <= Len(landed)
    <3>1. PAdd(pBegin, 0) = pBegin /\ (PAdd(pBegin, 0) - pBegin) % NumPackets = 0
      BY PacketFacts, Ring
    <3> QED BY <3>1, CountFacts
  <2> QED BY <1>0, <2>1 DEF IndicatedWasReceived
<1> QED BY <1>1, <1>2, <1>3, <1>4, <1>5

LEMMA CancelBeginInv == IInv /\ CancelBegin => IInv'
<1> SUFFICES ASSUME IInv, CancelBegin PROVE IInv'
  OBVIOUS
<1> USE TypeFacts DEF IInv
<1>0. /\ pc = "idle" /\ cancel = "no" /\ receiver' = "draining" /\ cancel' = "running"
      /\ fi' = fBegin /\ pi' = pBegin /\ pc' = "indicate"
      /\ UNCHANGED <<pBegin, pEnd, fBegin, fNext, fEnd, packet, desc, hwIndex, landed>>
  BY DEF CancelBegin, ringVars
<1>1. TypeOK'
  BY <1>0 DEF TypeOK
<1>2. Phases'
  BY <1>0 DEF Phases
<1>3. Iterators'
  BY <1>0, CountFacts DEF Iterators
<1>4. Ownership'
  <2>1. Posted' = Posted
    BY <1>0 DEF Posted
  <2> QED BY <1>0, <2>1 DEF Ownership
<1>5. IndicatedWasReceived'
  <2>1. Count(fBegin, fBegin) = 0 /\ (pBegin - pBegin) % NumPackets = 0 /\ 0 <= Len(landed)
    <3>1. PAdd(pBegin, 0) = pBegin /\ (PAdd(pBegin, 0) - pBegin) % NumPackets = 0
      BY PacketFacts, Ring
    <3> QED BY <3>1, CountFacts
  <2> QED BY <1>0, <2>1 DEF IndicatedWasReceived
<1> QED BY <1>1, <1>2, <1>3, <1>4, <1>5

(* A frame that lands when the buffers are back with the framework.        *)
LEMMA ReturnedReceiveInv == IInv /\ ~Holding /\ HwReceive => IInv'
<1> SUFFICES ASSUME IInv, ~Holding, HwReceive PROVE IInv'
  OBVIOUS
<1> USE TypeFacts DEF IInv
<1>0. /\ desc[hwIndex].own
      /\ desc' = [desc EXCEPT ![hwIndex].own = FALSE]
      /\ hwIndex' = (IF desc[hwIndex].eor THEN 0 ELSE hwIndex + 1)
      /\ UNCHANGED <<pBegin, pEnd, fBegin, fNext, fEnd, packet, pc, fi, pi, cancel, receiver, landed>>
  BY DEF HwReceive, ringVars
<1>1. hwIndex' \in Frags
  <2>1. hwIndex \in Frags /\ (desc[hwIndex].eor <=> hwIndex = NumFragments - 1)
    BY <1>0, Ring DEF Ownership
  <2>2. hwIndex' = FAdd(hwIndex, 1)
    BY <1>0, <2>1, AddFacts
  <2> QED BY <2>1, <2>2, AddFacts
<1>2. TypeOK'
  <2>1. desc' \in [Slots -> [own : BOOLEAN, eor : BOOLEAN, fresh : BOOLEAN]]
    BY <1>0 DEF TypeOK
  <2> QED BY <1>0, <1>1, <2>1 DEF TypeOK
<1>3. \A j \in Slots : /\ desc'[j].fresh = desc[j].fresh /\ desc'[j].eor = desc[j].eor
                        /\ desc'[j].own => desc[j].own
  BY <1>0
<1>4. Phases' /\ IndicatedWasReceived'
  BY <1>0 DEF Phases, IndicatedWasReceived, PAdd
<1>5. Iterators'
  <2>1. Posted' = Posted
    BY <1>0 DEF Posted
  <2> QED BY <1>0, <1>3, <2>1, Ring DEF Iterators
<1>6. Ownership'
  BY <1>0, <1>3 DEF Ownership
<1> QED BY <1>2, <1>4, <1>5, <1>6

(* Of a stranded queue little is left to keep.                             *)
LEMMA StrandedInv ==
  IInv /\ cancel = "stranded" /\ (AdvanceBegin \/ IndicateOne \/ IndicateEnd \/ PostFields \/ PostStatus \/ PostEnd)
    => IInv'
<1> SUFFICES ASSUME IInv, cancel = "stranded",
                    AdvanceBegin \/ IndicateOne \/ IndicateEnd \/ PostFields \/ PostStatus \/ PostEnd
             PROVE  IInv'
  OBVIOUS
<1> USE TypeFacts DEF IInv
<1>1. cancel' = "stranded" /\ receiver' = receiver /\ pc \in {"idle", "indicate", "post", "status"}
      /\ pc' \in {"idle", "indicate", "post", "status"} /\ receiver # "on" /\ landed = <<>>
  BY DEF AdvanceBegin, IndicateOne, IndicateEnd, PostFields, PostStatus, PostEnd, Phases
<1>2. landed' = <<>>
  <2>1. CASE IndicateEnd
    <3>1. landed' = SubSeq(<<>>, Count(fBegin, fi) + 1, 0)
      BY <1>1, <2>1 DEF IndicateEnd
    <3>2. Count(fBegin, fi) \in Nat
      OBVIOUS
    <3> HIDE DEF Count
    <3> QED BY <3>1, <3>2
  <2> QED BY <1>1, <2>1 DEF AdvanceBegin, IndicateOne, PostFields, PostStatus, PostEnd
<1>3. {pBegin', pEnd', pi'} \subseteq Slots /\ {fBegin', fNext', fEnd', fi', hwIndex'} \subseteq Frags
  <2>1. FAdd(fi, 1) \in Frags /\ PAdd(pi, 1) \in Slots
    BY AddFacts, PacketFacts
  <2> QED BY <2>1 DEF AdvanceBegin, IndicateOne, IndicateEnd, PostFields, PostStatus, PostEnd, ringVars
<1>4. packet' \in [Slots -> [FragmentIndex : Frags, Ignore : BOOLEAN]]
  BY DEF AdvanceBegin, IndicateOne, IndicateEnd, PostFields, PostStatus, PostEnd, TypeOK
<1>5. /\ desc' \in [Slots -> [own : BOOLEAN, eor : BOOLEAN, fresh : BOOLEAN]]
      /\ \A j \in Slots : desc'[j].own => j \in Frags /\ (desc'[j].eor <=> j = NumFragments - 1)
      /\ pc' = "status" => fi' # fEnd' /\ desc'[fi'].fresh
  <2>0. fi \in Slots
    BY Ring
  <2>1. \A j \in Slots : desc[j].own => j \in Frags /\ (desc[j].eor <=> j = NumFragments - 1)
    BY DEF Ownership
  <2>2. CASE PostFields
    BY <2>0, <2>1, <2>2 DEF PostFields, ringVars
  <2>3. CASE PostStatus
    <3> DEFINE d == [desc[fi] EXCEPT !.own = TRUE, !.eor = (fi = NumFragments - 1)]
    <3>1. d \in [own : BOOLEAN, eor : BOOLEAN, fresh : BOOLEAN] /\ (d.eor <=> fi = NumFragments - 1)
      BY <2>0
    <3>2. desc' = [desc EXCEPT ![fi] = d] /\ pc' = "post"
      BY <2>0, <2>3 DEF PostStatus
    <3> HIDE DEF d
    <3> QED BY <2>0, <2>1, <3>1, <3>2
  <2>4. CASE AdvanceBegin \/ IndicateOne \/ IndicateEnd \/ PostEnd
    BY <2>1, <2>4 DEF AdvanceBegin, IndicateOne, IndicateEnd, PostEnd
  <2> QED BY <2>2, <2>3, <2>4
<1>6. TypeOK'
  <2>1. landed' \in Seq(Frags)
    BY <1>2
  <2> QED BY <1>1, <1>3, <1>4, <1>5, <2>1 DEF TypeOK
<1> QED BY <1>1, <1>2, <1>5, <1>6 DEF Phases, Iterators, Ownership, IndicatedWasReceived

LEMMA IndicateOneInv == IInv /\ cancel # "stranded" /\ IndicateOne => IInv'
<1> SUFFICES ASSUME IInv, cancel # "stranded", IndicateOne PROVE IInv'
  OBVIOUS
<1> USE TypeFacts DEF IInv
<1> DEFINE n == Count(fBegin, fi)
<1>0. /\ pc = "indicate" /\ fi # fNext /\ ~desc[fi].own
      /\ packet' = [packet EXCEPT ![pi].FragmentIndex = fi]
      /\ fi' = FAdd(fi, 1) /\ pi' = PAdd(pi, 1)
      /\ UNCHANGED <<pBegin, pEnd, fBegin, fNext, fEnd, desc, pc, cancel, receiver, hwIndex, landed>>
  BY DEF IndicateOne, Indicating, ringVars
<1>1. Holding
  BY <1>0, DoneFacts DEF TypeOK
<1>2. n \in Nat /\ n < Count(fBegin, fNext) /\ Posted = Count(fBegin, fNext)
  <2>1. n <= Count(fBegin, fNext) /\ n # Count(fBegin, fNext)
    BY <1>0, CountFacts DEF Iterators
  <2> QED BY <1>0, <2>1 DEF Posted
<1>3. n < Len(landed) /\ n = (pi - pBegin) % NumPackets
      /\ \A k \in 1 .. n : packet[PAdd(pBegin, k - 1)].FragmentIndex = landed[k]
  <2>1. ~(Len(landed) <= n)
    BY <1>0, <1>1, <1>2, Ring DEF Ownership
  <2> QED BY <1>0, <1>2, <2>1 DEF IndicatedWasReceived
<1>4. Count(fBegin, fi') = n + 1 /\ n + 1 < NumFragments /\ n + 1 < NumPackets /\ fi' \in Frags
  <2>1. n < NumFragments - 1
    BY <1>2, Ring
  <2>2. Count(fBegin, FAdd(fi, 1)) = n + 1
    BY <2>1, CountNext
  <2>3. FAdd(fi, 1) \in Frags
    BY AddFacts
  <2> HIDE DEF n
  <2>4. n + 1 < NumFragments /\ n + 1 < NumPackets
    BY <1>2, <2>1, Ring
  <2> QED BY <1>0, <2>2, <2>3, <2>4
<1>5. fi = FAdd(fBegin, n) /\ pi = PAdd(pBegin, n) /\ pi' = PAdd(pBegin, n + 1)
      /\ pi' \in Slots /\ (pi' - pBegin) % NumPackets = n + 1
  <2>1. fi = FAdd(fBegin, n)
    BY CountFacts
  <2>2. pi = PAdd(pBegin, n)
    BY <1>3, PacketFacts
  <2>3. pi' = PAdd(pBegin, n + 1)
    BY <1>0, <1>2, <1>4, <2>2, PacketFacts
  <2>4. n + 1 \in Nat
    BY <1>2
  <2> QED BY <1>4, <2>1, <2>2, <2>3, <2>4, PacketFacts
<1>6. TypeOK'
  <2>1. packet' \in [Slots -> [FragmentIndex : Frags, Ignore : BOOLEAN]]
    BY <1>0 DEF TypeOK
  <2> QED BY <1>0, <1>4, <1>5, <2>1 DEF TypeOK
<1> HIDE DEF n
<1>7. Phases'
  BY <1>0 DEF Phases
<1>8. Iterators'
  <2>1. Count(fBegin, fi') <= Count(fBegin, fNext)
    BY <1>2, <1>4
  <2> QED BY <1>0, <2>1 DEF Iterators
<1>9. Ownership'
  <2>1. Posted' = Posted
    BY <1>0 DEF Posted
  <2> QED BY <1>0, <2>1 DEF Ownership
<1>10. IndicatedWasReceived'
  <2>1. n + 1 <= Len(landed)
    BY <1>2, <1>3
  <2>2. landed[n + 1] = fi
    <3>1. n + 1 \in 1 .. Len(landed) /\ (n + 1) - 1 = n
      BY <1>2, <2>1
    <3>2. landed[n + 1] = FAdd(fBegin, (n + 1) - 1)
      BY <1>0, <1>1, <3>1 DEF Ownership
    <3> QED BY <1>5, <3>1, <3>2
  <2>3. ASSUME NEW k \in 1 .. n + 1
        PROVE  packet'[PAdd(pBegin, k - 1)].FragmentIndex = landed[k]
    <3>1. /\ k - 1 \in Nat /\ k - 1 < NumPackets
          /\ PAdd(pBegin, k - 1) \in Slots /\ (PAdd(pBegin, k - 1) - pBegin) % NumPackets = k - 1
      <4>1. k - 1 \in Nat /\ k - 1 < NumPackets
        BY <1>2, <1>4, Ring
      <4> QED BY <4>1, PacketFacts
    <3>2. CASE k = n + 1
      <4>1. PAdd(pBegin, k - 1) = pi
        BY <1>2, <1>5, <3>2
      <4>2. packet'[pi].FragmentIndex = fi
        BY <1>0 DEF TypeOK
      <4> QED BY <2>2, <3>2, <4>1, <4>2
    <3>3. CASE k # n + 1
      <4>1. k \in 1 .. n /\ k - 1 # n
        BY <1>2, <3>3
      <4>2. PAdd(pBegin, k - 1) # pi
        BY <1>3, <3>1, <4>1
      <4>3. packet'[PAdd(pBegin, k - 1)] = packet[PAdd(pBegin, k - 1)]
        BY <1>0, <3>1, <4>2 DEF TypeOK
      <4> QED BY <1>3, <4>1, <4>3
    <3> QED BY <3>2, <3>3
  <2> QED BY <1>0, <1>4, <1>5, <2>1, <2>3 DEF IndicatedWasReceived
<1> QED BY <1>6, <1>7, <1>8, <1>9, <1>10

(* The fragments handed back leave the count.                              *)
LEMMA SubSeqFacts ==
  ASSUME NEW S, NEW s \in Seq(S), NEW n \in Nat, n <= Len(s)
  PROVE  /\ SubSeq(s, n + 1, Len(s)) \in Seq(S)
         /\ Len(SubSeq(s, n + 1, Len(s))) = Len(s) - n
         /\ \A k \in 1 .. Len(s) - n : SubSeq(s, n + 1, Len(s))[k] = s[n + k] /\ n + k \in 1 .. Len(s)
<1>1. Len(s) \in Nat
  OBVIOUS
<1>2. n + 1 \in 1 .. Len(s) + 1 /\ Len(s) \in n .. Len(s)
  BY <1>1
<1>3. \A k \in 1 .. Len(s) - n : n + k \in 1 .. Len(s) /\ (n + 1) + k - 1 = n + k
  BY <1>1
<1> QED BY <1>1, <1>2, <1>3, SubSeqProperties

LEMMA IndicateEndInv == IInv /\ cancel # "stranded" /\ IndicateEnd => IInv'
<1> SUFFICES ASSUME IInv, cancel # "stranded", IndicateEnd PROVE IInv'
  OBVIOUS
<1> USE TypeFacts DEF IInv
<1> DEFINE n == Count(fBegin, fi)
           L == Len(landed)
<1>0. /\ pc = "indicate" /\ cancel # "running" /\ fBegin' = fi /\ pBegin' = pi
      /\ landed' = SubSeq(landed, n + 1, Len(landed))
      /\ fi' = fNext /\ pc' = "post"
      /\ UNCHANGED <<pEnd, fNext, fEnd, packet, desc, pi, cancel, receiver, hwIndex>>
  BY DEF IndicateEnd
<1>1. n \in Nat /\ L \in Nat /\ n <= L /\ n <= Count(fBegin, fNext) /\ Count(fBegin, fNext) <= Count(fBegin, fEnd)
      /\ Posted = Count(fBegin, fNext)
  BY <1>0 DEF IndicatedWasReceived, Iterators, Posted
<1>2. /\ Len(landed') = L - n /\ landed' \in Seq(Frags)
      /\ \A k \in 1 .. L - n : landed'[k] = landed[n + k] /\ n + k \in 1 .. L
  BY <1>0, <1>1, SubSeqFacts
<1>3. TypeOK'
  BY <1>0, <1>2 DEF TypeOK
<1>4. /\ Count(fi, fNext) = Count(fBegin, fNext) - n
      /\ Count(fi, fEnd) = Count(fBegin, fEnd) - n
      /\ Posted' = Posted - n
  <2>1. Count(fi, fNext) = Count(fBegin, fNext) - n
    BY <1>1, CountFacts
  <2>2. Count(fi, fEnd) = IF n <= Count(fBegin, fEnd) THEN Count(fBegin, fEnd) - n
                          ELSE Count(fBegin, fEnd) - n + NumFragments
    BY CountFacts
  <2>3. n <= Count(fBegin, fEnd)
    BY <1>1
  <2> QED BY <1>0, <1>1, <2>1, <2>2, <2>3 DEF Posted
<1> HIDE DEF L
<1>5. Phases'
  <2>1. CASE cancel = "done"
    <3>1. fi = fEnd /\ landed = <<>> /\ fBegin = fEnd /\ fNext = fEnd /\ receiver # "on"
      BY <1>0, <2>1, DoneFacts DEF Phases
    <3>2. Len(landed') = 0
      BY <1>1, <1>2, <3>1 DEF L
    <3>3. landed' = <<>>
      BY <1>2, <3>2
    <3> QED BY <1>0, <2>1, <3>1, <3>3 DEF Phases
  <2>2. CASE cancel # "done"
    BY <1>0, <2>2 DEF Phases
  <2> QED BY <2>1, <2>2
<1>6. Iterators'
  <2>1. Count(fi, fNext) <= Count(fi, fEnd) /\ Posted' = Count(fi, fNext)
    BY <1>1, <1>4
  <2> QED BY <1>0, <2>1, CountFacts DEF Iterators
<1>7. Ownership'
  <2> SUFFICES ASSUME Holding PROVE Ownership'
    BY <1>0 DEF Ownership
  <2>1. /\ L <= Posted /\ hwIndex = FAdd(fBegin, L)
        /\ \A k \in 1 .. L : landed[k] = FAdd(fBegin, k - 1)
        /\ \A j \in Slots :
             /\ desc[j].own <=> j \in Frags /\ L <= Count(fBegin, j) /\ Count(fBegin, j) < Posted
             /\ desc[j].own => desc[j].fresh
    BY <1>0 DEF Ownership, L
  <2>2. \A m \in Nat : n + m < NumFragments => FAdd(fi, m) = FAdd(fBegin, n + m)
    BY <1>1, CountFacts, AddFacts
  <2>3. L < NumFragments
    <3> HIDE DEF n
    <3> QED BY <1>1, <2>1, Ring
  <2>4. hwIndex = FAdd(fi, L - n)
    <3>1. L - n \in Nat /\ n + (L - n) = L
      BY <1>1
    <3> QED BY <2>1, <2>2, <2>3, <3>1
  <2>5. ASSUME NEW k \in 1 .. L - n PROVE landed'[k] = FAdd(fi, k - 1)
    <3>1. /\ k - 1 \in Nat /\ n + (k - 1) = (n + k) - 1 /\ n + (k - 1) < NumFragments /\ n + k \in 1 .. L
      <4> HIDE DEF n
      <4> QED BY <1>1, <2>3, Ring
    <3>2. landed[n + k] = FAdd(fBegin, (n + k) - 1)
      BY <2>1, <3>1
    <3> QED BY <1>2, <2>2, <3>1, <3>2
  <2>6. ASSUME NEW j \in Frags
        PROVE  L <= Count(fBegin, j) /\ Count(fBegin, j) < Posted
                 <=> L - n <= Count(fi, j) /\ Count(fi, j) < Posted - n
    <3>1. Count(fi, j) = IF n <= Count(fBegin, j) THEN Count(fBegin, j) - n
                         ELSE Count(fBegin, j) - n + NumFragments
      BY CountFacts
    <3>2. Count(fBegin, j) \in Nat
      BY CountFacts
    <3>3. \A c, d, P \in Nat : P < NumFragments /\ n <= L
             /\ d = (IF n <= c THEN c - n ELSE c - n + NumFragments) =>
               (L <= c /\ c < P <=> L - n <= d /\ d < P - n)
      <4> HIDE DEF n
      <4> QED BY <1>1, Ring
    <3>4. Count(fi, j) \in Nat /\ Posted \in Nat /\ Posted < NumFragments
      BY CountFacts
    <3> HIDE DEF n
    <3> QED BY <1>1, <3>1, <3>2, <3>3, <3>4
  <2>7. L - n <= Posted'
    BY <1>1, <1>4, <2>1
  <2>8. \A j \in Slots : desc'[j].own => j \in Frags /\ (desc'[j].eor <=> j = NumFragments - 1)
    BY <1>0 DEF Ownership
  <2> QED BY <1>0, <1>2, <1>4, <2>1, <2>4, <2>5, <2>6, <2>7, <2>8 DEF Ownership
<1>8. IndicatedWasReceived'
  BY <1>0 DEF IndicatedWasReceived
<1> QED BY <1>3, <1>5, <1>6, <1>7, <1>8

LEMMA PostFieldsInv == IInv /\ cancel # "stranded" /\ PostFields => IInv'
<1> SUFFICES ASSUME IInv, cancel # "stranded", PostFields PROVE IInv'
  OBVIOUS
<1> USE TypeFacts DEF IInv
<1>0. /\ pc = "post" /\ fi # fEnd
      /\ desc' = [desc EXCEPT ![fi].fresh = TRUE]
      /\ pc' = "status"
      /\ UNCHANGED <<pBegin, pEnd, fBegin, fNext, fEnd, packet, fi, pi, cancel, receiver, hwIndex, landed>>
  BY DEF PostFields, ringVars
<1>1. TypeOK'
  <2>1. desc' \in [Slots -> [own : BOOLEAN, eor : BOOLEAN, fresh : BOOLEAN]]
    BY <1>0 DEF TypeOK
  <2> QED BY <1>0, <2>1 DEF TypeOK
<1>2. /\ desc'[fi].fresh /\ \A j \in Slots : /\ desc'[j].own = desc[j].own /\ desc'[j].eor = desc[j].eor
                                             /\ desc[j].fresh => desc'[j].fresh
  BY <1>0, Ring
<1>3. Posted' = Posted
  BY <1>0 DEF Posted
<1>4. Phases'
  BY <1>0 DEF Phases
<1>5. Iterators'
  BY <1>0, <1>2, <1>3 DEF Iterators
<1>6. Ownership'
  BY <1>0, <1>2, <1>3 DEF Ownership
<1>7. IndicatedWasReceived'
  BY <1>0 DEF IndicatedWasReceived
<1> QED BY <1>1, <1>4, <1>5, <1>6, <1>7

LEMMA PostStatusInv == IInv /\ cancel # "stranded" /\ PostStatus => IInv'
<1> SUFFICES ASSUME IInv, cancel # "stranded", PostStatus PROVE IInv'
  OBVIOUS
<1> USE TypeFacts DEF IInv
<1>0. /\ pc = "status"
      /\ desc' = [desc EXCEPT ![fi].own = TRUE, ![fi].eor = (fi = NumFragments - 1)]
      /\ fi' = FAdd(fi, 1) /\ pc' = "post"
      /\ UNCHANGED <<pBegin, pEnd, fBegin, fNext, fEnd, packet, pi, cancel, receiver, hwIndex, landed>>
  BY DEF PostStatus, ringVars
<1>1. Holding /\ Posted = Count(fBegin, fi) /\ desc[fi].fresh
      /\ Posted <= Count(fBegin, fEnd) /\ fi # fEnd /\ Count(fBegin, fNext) <= Posted
  BY <1>0, DoneFacts DEF TypeOK, Posted, Iterators
<1>2. Posted < Count(fBegin, fEnd)
  <2>1. Posted # Count(fBegin, fEnd)
    BY <1>1, CountFacts
  <2> QED BY <1>1, <2>1
<1>3. fi' \in Frags /\ fi \in Slots /\ Posted' = Posted + 1
  <2>1. Posted < NumFragments - 1
    BY <1>2, Ring
  <2>2. Count(fBegin, FAdd(fi, 1)) = Count(fBegin, fi) + 1
    BY <1>1, <2>1, CountNext
  <2>3. FAdd(fi, 1) \in Frags
    BY AddFacts
  <2>4. Posted' = Count(fBegin, FAdd(fi, 1))
    BY <1>0 DEF Posted
  <2> QED BY <1>0, <1>1, <2>2, <2>3, <2>4, Ring
<1>4. TypeOK'
  <2>1. desc' \in [Slots -> [own : BOOLEAN, eor : BOOLEAN, fresh : BOOLEAN]]
    <3> DEFINE d == [desc[fi] EXCEPT !.own = TRUE, !.eor = (fi = NumFragments - 1)]
    <3>1. d \in [own : BOOLEAN, eor : BOOLEAN, fresh : BOOLEAN]
      BY <1>3 DEF TypeOK
    <3>2. desc' = [desc EXCEPT ![fi] = d]
      BY <1>0, <1>3 DEF TypeOK
    <3> HIDE DEF d
    <3> QED BY <3>1, <3>2 DEF TypeOK
  <2> QED BY <1>0, <1>3, <2>1 DEF TypeOK
<1>5. Phases'
  BY <1>0 DEF Phases
<1>6. Iterators'
  <2>1. Count(fBegin, fNext) <= Posted + 1 /\ Posted + 1 <= Count(fBegin, fEnd)
    BY <1>1, <1>2
  <2>2. pc' # "stopped" => Count(fBegin, fNext) <= Count(fBegin, fEnd)
    BY <1>0 DEF Iterators
  <2> QED BY <1>0, <1>3, <2>1, <2>2 DEF Iterators
<1>7. Ownership'
  <2>1. /\ desc'[fi].own /\ desc'[fi].fresh /\ (desc'[fi].eor <=> fi = NumFragments - 1)
        /\ \A j \in Slots : j # fi => desc'[j] = desc[j]
    BY <1>0, <1>1, <1>3 DEF TypeOK
  <2>2. /\ Len(landed) <= Posted /\ hwIndex = FAdd(fBegin, Len(landed))
        /\ \A k \in 1 .. Len(landed) : landed[k] = FAdd(fBegin, k - 1)
        /\ \A j \in Slots :
             /\ desc[j].own <=> j \in Frags /\ Len(landed) <= Count(fBegin, j) /\ Count(fBegin, j) < Posted
             /\ desc[j].own => desc[j].fresh
        /\ \A j \in Slots : desc[j].own => (desc[j].eor <=> j = NumFragments - 1)
    BY <1>0, <1>1 DEF Ownership
  <2>3. Len(landed) <= Posted + 1
    BY <2>2
  <2>4. ASSUME NEW j \in Frags
        PROVE  Count(fBegin, j) < Posted + 1 <=> Count(fBegin, j) < Posted \/ j = fi
    <3>1. Count(fBegin, j) = Posted <=> j = fi
      BY <1>1, CountFacts
    <3>2. Count(fBegin, j) \in Nat
      BY CountFacts
    <3> QED BY <3>1, <3>2
  <2>5. \A j \in Slots : desc'[j].own <=>
          j \in Frags /\ Len(landed) <= Count(fBegin, j) /\ Count(fBegin, j) < Posted + 1
    BY <1>1, <2>1, <2>2, <2>4
  <2>6. \A j \in Slots : desc'[j].own => desc'[j].fresh /\ (desc'[j].eor <=> j = NumFragments - 1)
    BY <2>1, <2>2
  <2> QED BY <1>0, <1>3, <2>2, <2>3, <2>5, <2>6 DEF Ownership
<1>8. IndicatedWasReceived'
  BY <1>0 DEF IndicatedWasReceived
<1> QED BY <1>4, <1>5, <1>6, <1>7, <1>8

LEMMA PostEndInv == IInv /\ cancel # "stranded" /\ PostEnd => IInv'
<1> SUFFICES ASSUME IInv, cancel # "stranded", PostEnd PROVE IInv'
  OBVIOUS
<1> USE TypeFacts DEF IInv
<1>0. /\ pc = "post" /\ fi = fEnd /\ fNext' = fi /\ pc' = "idle"
      /\ UNCHANGED <<pBegin, pEnd, fBegin, fEnd, packet, desc, fi, pi, cancel, receiver, hwIndex, landed>>
  BY DEF PostEnd
<1>1. TypeOK'
  BY <1>0 DEF TypeOK
<1>2. Posted' = Posted
  BY <1>0 DEF Posted
<1>3. Phases'
  BY <1>0 DEF Phases
<1>4. Iterators'
  BY <1>0 DEF Iterators
<1>5. Ownership'
  BY <1>0, <1>2 DEF Ownership
<1>6. IndicatedWasReceived'
  BY <1>0 DEF IndicatedWasReceived
<1> QED BY <1>1, <1>3, <1>4, <1>5, <1>6

LEMMA CancelEndInv == IInv /\ CancelEnd => IInv'
<1> SUFFICES ASSUME IInv, CancelEnd PROVE IInv'
  OBVIOUS
<1> USE TypeFacts DEF IInv
<1>0. /\ pc = "indicate" /\ cancel = "running"
      /\ packet' = [s \in Slots |->
           IF (s - pi) % NumPackets < (pEnd - pi) % NumPackets
           THEN [packet[s] EXCEPT !.Ignore = TRUE] ELSE packet[s]]
      /\ pBegin' = pEnd /\ fBegin' = fEnd /\ landed' = <<>> /\ pc' = "idle"
      /\ cancel' = (IF fNext = fEnd THEN "done" ELSE "stranded")
      /\ UNCHANGED <<pEnd, fNext, fEnd, desc, fi, pi, receiver, hwIndex>>
  BY DEF CancelEnd
<1>1. TypeOK'
  <2>1. packet' \in [Slots -> [FragmentIndex : Frags, Ignore : BOOLEAN]]
    BY <1>0 DEF TypeOK
  <2> QED BY <1>0, <2>1 DEF TypeOK
<1>2. receiver # "on"
  BY <1>0 DEF Phases
<1>3. Phases'
  BY <1>0, <1>2 DEF Phases
<1>4. Iterators'
  <2>1. Count(fEnd, fEnd) <= Count(fEnd, fEnd)
    <3>1. Count(fEnd, fEnd) = 0
      BY CountFacts
    <3> QED BY <3>1
  <2> QED BY <1>0, <2>1 DEF Iterators
<1>5. Ownership'
  BY <1>0 DEF Ownership
<1>6. IndicatedWasReceived'
  BY <1>0 DEF IndicatedWasReceived
<1> QED BY <1>1, <1>3, <1>4, <1>5, <1>6

LEMMA HwReceiveInv == IInv /\ Holding /\ HwReceive => IInv'
<1> SUFFICES ASSUME IInv, Holding, HwReceive PROVE IInv'
  OBVIOUS
<1> USE TypeFacts DEF IInv
<1> DEFINE L == Len(landed)
<1>0. /\ receiver # "off" /\ desc[hwIndex].own
      /\ desc' = [desc EXCEPT ![hwIndex].own = FALSE]
      /\ landed' = Append(landed, hwIndex)
      /\ hwIndex' = (IF desc[hwIndex].eor THEN 0 ELSE hwIndex + 1)
      /\ UNCHANGED <<pBegin, pEnd, fBegin, fNext, fEnd, packet, pc, fi, pi, cancel, receiver>>
  BY DEF HwReceive, ringVars
<1>1. pc # "stopped"
  BY <1>0, Ring DEF Phases
<1>2. /\ L <= Posted /\ hwIndex = FAdd(fBegin, L)
      /\ \A k \in 1 .. L : landed[k] = FAdd(fBegin, k - 1)
      /\ \A j \in Slots :
           /\ desc[j].own <=> j \in Frags /\ L <= Count(fBegin, j) /\ Count(fBegin, j) < Posted
           /\ desc[j].own => desc[j].fresh
      /\ \A j \in Slots : desc[j].own => (desc[j].eor <=> j = NumFragments - 1)
  BY <1>1 DEF Ownership
<1>3. /\ L \in Nat /\ Len(landed') = L + 1 /\ landed'[L + 1] = hwIndex
      /\ \A k \in 1 .. L : landed'[k] = landed[k]
      /\ landed' \in Seq(Frags)
  BY <1>0
<1> HIDE DEF L
<1>4. hwIndex \in Slots /\ Count(fBegin, hwIndex) = L /\ L < Posted
  <2>1. hwIndex \in Slots
    BY Ring
  <2>2. L < NumFragments
    BY <1>2, <1>3, Ring
  <2>3. Count(fBegin, hwIndex) = L
    BY <1>2, <1>3, <2>2, AddFacts
  <2> QED BY <1>0, <1>2, <2>1, <2>3
<1>5. hwIndex' = FAdd(fBegin, L + 1) /\ hwIndex' \in Frags
  <2>1. hwIndex' = FAdd(hwIndex, 1) /\ FAdd(hwIndex, 1) \in Frags
    BY <1>0, <1>2, <1>4, AddFacts
  <2>2. L < NumFragments
    BY <1>2, <1>3, Ring
  <2> QED BY <1>2, <1>3, <2>1, <2>2, AddFacts
<1>6. TypeOK'
  <2>1. desc' \in [Slots -> [own : BOOLEAN, eor : BOOLEAN, fresh : BOOLEAN]]
    BY <1>0 DEF TypeOK
  <2> QED BY <1>0, <1>3, <1>5, <2>1 DEF TypeOK
<1>7. Phases'
  BY <1>0, <1>1 DEF Phases
<1>8. Iterators'
  <2>1. Posted' = Posted
    BY <1>0 DEF Posted
  <2>2. \A j \in Slots : desc'[j].fresh = desc[j].fresh
    BY <1>0
  <2> QED BY <1>0, <2>1, <2>2, Ring DEF Iterators
<1>9. Ownership'
  <2>1. Posted' = Posted
    BY <1>0 DEF Posted
  <2>2. /\ ~desc'[hwIndex].own
        /\ \A j \in Slots : /\ desc'[j].fresh = desc[j].fresh /\ desc'[j].eor = desc[j].eor
                            /\ j # hwIndex => desc'[j].own = desc[j].own
    BY <1>0, <1>4
  <2>3. L + 1 <= Posted
    BY <1>3, <1>4
  <2>4. \A k \in 1 .. L + 1 : landed'[k] = FAdd(fBegin, k - 1)
    <3> SUFFICES ASSUME NEW k \in 1 .. L + 1 PROVE landed'[k] = FAdd(fBegin, k - 1)
      OBVIOUS
    <3>1. k \in 1 .. L \/ (k = L + 1 /\ k - 1 = L)
      BY <1>3
    <3> QED BY <1>2, <1>3, <3>1
  <2>5. ASSUME NEW j \in Frags
        PROVE  L + 1 <= Count(fBegin, j) <=> L <= Count(fBegin, j) /\ j # hwIndex
    <3>1. Count(fBegin, j) = L <=> j = hwIndex
      BY <1>4, CountFacts
    <3>2. Count(fBegin, j) \in Nat
      BY CountFacts
    <3> QED BY <1>3, <3>1, <3>2
  <2>6. \A j \in Slots : desc'[j].own <=>
          j \in Frags /\ L + 1 <= Count(fBegin, j) /\ Count(fBegin, j) < Posted
    BY <1>2, <1>4, <2>2, <2>5
  <2>7. \A j \in Slots : desc'[j].own => desc'[j].fresh /\ (desc'[j].eor <=> j = NumFragments - 1)
    BY <1>2, <2>2
  <2> QED BY <1>0, <1>3, <1>5, <2>1, <2>3, <2>4, <2>6, <2>7 DEF Ownership
<1>10. IndicatedWasReceived'
  <2> SUFFICES ASSUME pc = "indicate" PROVE IndicatedWasReceived'
    BY <1>0 DEF IndicatedWasReceived
  <2> DEFINE n == Count(fBegin, fi)
  <2>1. /\ n \in Nat /\ n <= L /\ n = (pi - pBegin) % NumPackets
        /\ \A k \in 1 .. n : packet[PAdd(pBegin, k - 1)].FragmentIndex = landed[k]
    BY DEF IndicatedWasReceived, L
  <2> HIDE DEF n
  <2>2. n <= L + 1 /\ \A k \in 1 .. n : landed'[k] = landed[k]
    BY <1>3, <2>1
  <2> QED BY <1>0, <1>3, <2>1, <2>2 DEF IndicatedWasReceived, n, PAdd
<1> QED BY <1>6, <1>7, <1>8, <1>9, <1>10

LEMMA HwQuietInv == IInv /\ HwQuiet => IInv'
<1> SUFFICES ASSUME IInv, HwQuiet PROVE IInv'
  OBVIOUS
<1> USE DEF IInv
<1>0. /\ receiver = "draining" /\ receiver' = "off"
      /\ UNCHANGED <<pBegin, pEnd, fBegin, fNext, fEnd, packet, desc, pc, fi, pi, cancel, hwIndex, landed>>
  BY DEF HwQuiet, ringVars
<1>1. TypeOK'
  BY <1>0 DEF TypeOK
<1>2. Posted' = Posted
  BY <1>0 DEF Posted
<1>3. Phases'
  BY <1>0 DEF Phases
<1>4. Iterators' /\ Ownership'
  BY <1>0, <1>2 DEF Iterators, Ownership
<1>5. IndicatedWasReceived'
  BY <1>0 DEF IndicatedWasReceived
<1> QED BY <1>1, <1>3, <1>4, <1>5

LEMMA RxStutter == IInv /\ UNCHANGED vars => IInv'
BY DEF IInv, TypeOK, Phases, Iterators, Ownership, IndicatedWasReceived, Posted, vars

LEMMA RxNext == IInv /\ [Next]_vars => IInv'
BY StartInv, StopInv, ProvideInv, AdvanceBeginInv, CancelBeginInv, IndicateOneInv,
   IndicateEndInv, PostFieldsInv, PostStatusInv, PostEndInv, CancelEndInv, HwReceiveInv,
   ReturnedReceiveInv, StrandedInv, HwQuietInv, RxStutter DEF Next, Advance

(* No interleaving of the driver, the framework and the device leaves the  *)
(* invariant, for rings of any size.                                       *)
THEOREM RxInvariance == Spec => []IInv
BY RxInit, RxNext, PTL DEF Spec

-----------------------------------------------------------------------------
(* What the invariant says of the properties.                              *)

(* Types; the end-of-ring flag keeps the device within the ring.           *)
THEOREM RxTypeCorrect == Spec => []TypeOK
<1>1. IInv => TypeOK
  BY DEF IInv
<1> QED BY <1>1, RxInvariance, PTL

(* RxIndicateReceives hands back what was received, in the order of        *)
(* arrival (rxqueue.cpp:88-153).                                           *)
THEOREM IndicateSafe == Spec => []IndicatedWasReceived
<1>1. IInv => IndicatedWasReceived
  BY DEF IInv
<1> QED BY <1>1, RxInvariance, PTL

(* Given to the device is given by the framework.                          *)
LEMMA PostedFacts ==
  ASSUME IInv, pc # "stopped", cancel # "stranded"
  PROVE  Posted <= Count(fBegin, fEnd)
BY DEF IInv, Iterators, Posted

(* Until a cancel hands the buffers back, the device never owns a          *)
(* descriptor without the address of a buffer of the ring                  *)
(* (rxqueue.cpp:265-306, 496-532).                                         *)
THEOREM HeldSafe == Spec => []BuffersHeld
<1>1. IInv => BuffersHeld
  <2> SUFFICES ASSUME IInv, NEW j \in Slots, Holding, desc[j].own
               PROVE  desc[j].fresh /\ Count(fBegin, j) < Count(fBegin, fEnd)
    BY DEF BuffersHeld
  <2>1. pc # "stopped"
    BY DEF IInv, Phases
  <2>2. j \in Frags /\ Count(fBegin, j) < Posted /\ desc[j].fresh
    BY <2>1 DEF IInv, Ownership
  <2>3. Posted <= Count(fBegin, fEnd)
    BY <2>1, PostedFacts
  <2>4. Count(fBegin, j) \in Nat /\ Count(fBegin, fEnd) \in Nat /\ Posted \in Nat
    BY <2>2, TypeFacts, CountFacts DEF IInv
  <2> QED BY <2>2, <2>3, <2>4
<1> QED BY <1>1, RxInvariance, PTL

(* The device looks at the first descriptor posted and not filled.         *)
THEOREM AlignedSafe == Spec => []Aligned
<1>1. IInv => Aligned
  BY DEF IInv, Phases, Ownership, Aligned
<1> QED BY <1>1, RxInvariance, PTL

-----------------------------------------------------------------------------
(* The refinement.                                                         *)

(* The buffers handed over.                                                *)
Buffers == IF cancel = "stranded" THEN 0 ELSE Count(fBegin, fEnd)

(* B buffers from b, of which L are filled.                                *)
Held(b, B, L) == [k \in 1 .. B |-> [fragment |-> FAdd(b, k - 1), filled |-> k <= L]]

Outstanding == [k \in 1 .. Buffers |->
                 [fragment |-> FAdd(fBegin, k - 1),
                  filled   |-> \E n \in 1 .. Len(landed) : landed[n] = FAdd(fBegin, k - 1)]]

LEMMA OutstandingFacts ==
  ASSUME IInv
  PROVE  /\ Outstanding = Held(fBegin, Buffers, Len(landed))
         /\ Len(landed) <= Buffers
<1> DEFINE L == Len(landed)
           B == Buffers
<1>1. L \in Nat /\ B \in Nat /\ B < NumFragments
  BY TypeFacts, Ring DEF IInv, Buffers
<1>2. L <= B /\ \A k \in 1 .. L : landed[k] = FAdd(fBegin, k - 1)
  <2>1. CASE pc = "stopped" \/ ~Holding
    <3>1. landed = <<>>
      BY <2>1 DEF IInv, Phases
    <3>2. L = 0
      BY <3>1
    <3> HIDE DEF L, B
    <3> QED BY <1>1, <3>2
  <2>2. CASE ~(pc = "stopped" \/ ~Holding)
    <3>1. L <= Posted /\ \A k \in 1 .. L : landed[k] = FAdd(fBegin, k - 1)
      BY <2>2 DEF IInv, Ownership
    <3>2. Posted <= B /\ Posted \in Nat
      BY <2>2, PostedFacts, TypeFacts DEF IInv, Buffers
    <3> HIDE DEF L, B
    <3> QED BY <1>1, <3>1, <3>2
  <2> QED BY <2>1, <2>2
<1>3. ASSUME NEW k \in 1 .. B
      PROVE  (\E n \in 1 .. L : landed[n] = FAdd(fBegin, k - 1)) <=> k <= L
  <2> HIDE DEF L, B
  <2>1. fBegin \in Frags
    BY TypeFacts DEF IInv
  <2>2. \A n \in 1 .. B : n - 1 \in Nat /\ n - 1 < NumFragments
    BY <1>1, Ring
  <2>3. \A n \in 1 .. B : Count(fBegin, FAdd(fBegin, n - 1)) = n - 1
    BY <2>1, <2>2, AddFacts
  <2>4. \A n \in 1 .. L : n \in 1 .. B /\ landed[n] = FAdd(fBegin, n - 1)
    BY <1>1, <1>2
  <2>5. ASSUME NEW n \in 1 .. L, landed[n] = FAdd(fBegin, k - 1) PROVE n = k
    <3>1. n - 1 = k - 1
      BY <2>3, <2>4, <2>5
    <3> QED BY <1>1, <3>1
  <2>6. k <= L => k \in 1 .. L
    BY <1>1
  <2>7. \A n \in 1 .. L : n <= L
    BY <1>1
  <2> QED BY <2>4, <2>5, <2>6, <2>7
<1>4. Outstanding = Held(fBegin, B, L)
  <2>1. Outstanding = [k \in 1 .. B |->
                 [fragment |-> FAdd(fBegin, k - 1),
                  filled   |-> \E n \in 1 .. L : landed[n] = FAdd(fBegin, k - 1)]]
    BY DEF Outstanding
  <2> HIDE DEF L, B
  <2>2. ASSUME NEW k \in 1 .. B
        PROVE  (\E n \in 1 .. L : landed[n] = FAdd(fBegin, k - 1)) = (k <= L)
    <3>1. CASE k <= L
      <4>1. (k <= L) = TRUE
        BY <3>1
      <4>2. (\E n \in 1 .. L : landed[n] = FAdd(fBegin, k - 1)) = TRUE
        BY <1>3, <3>1, Zenon
      <4> QED BY <4>1, <4>2, Zenon
    <3>2. CASE ~(k <= L)
      <4>1. (k <= L) = FALSE
        BY <3>2
      <4>2. (\E n \in 1 .. L : landed[n] = FAdd(fBegin, k - 1)) = FALSE
        BY <1>3, <3>2, Zenon
      <4> QED BY <4>1, <4>2, Zenon
    <3> QED BY <3>1, <3>2
  <2>3. \A k \in 1 .. B : [fragment |-> FAdd(fBegin, k - 1),
                        filled   |-> \E n \in 1 .. L : landed[n] = FAdd(fBegin, k - 1)]
                       = [fragment |-> FAdd(fBegin, k - 1), filled |-> k <= L]
    BY <2>2, Zenon
  <2> QED BY <2>1, <2>3, Zenon DEF Held
<1> QED BY <1>2, <1>4

LEMMA HeldFacts ==
  ASSUME NEW b \in Frags, NEW B \in Nat, NEW L \in Nat, L <= B, B < NumFragments
  PROVE  /\ Held(b, B, L) \in Seq(Service!Buffer) /\ Len(Held(b, B, L)) = B
         /\ \A k \in 1 .. B : Held(b, B, L)[k] = [fragment |-> FAdd(b, k - 1), filled |-> k <= L]
<1>1. ASSUME NEW k \in 1 .. B
      PROVE  [fragment |-> FAdd(b, k - 1), filled |-> k <= L] \in Service!Buffer
  <2>1. k - 1 \in Nat /\ k - 1 < NumFragments
    BY Ring
  <2>2. FAdd(b, k - 1) \in Frags
    BY <2>1, AddFacts
  <2> QED BY <2>2 DEF Service!Buffer
<1> QED BY <1>1 DEF Held

LEMMA HeldProvide ==
  ASSUME NEW b \in Frags, NEW B \in Nat, NEW L \in Nat, L <= B, B + 1 < NumFragments
  PROVE  Held(b, B + 1, L) = Append(Held(b, B, L), [fragment |-> FAdd(b, B), filled |-> FALSE])
<1> DEFINE s == Held(b, B, L)
           e == [fragment |-> FAdd(b, B), filled |-> FALSE]
           t == Held(b, B + 1, L)
<1>0. B < NumFragments /\ L <= B + 1 /\ B + 1 \in Nat
  BY Ring
<1>1. s \in Seq(Service!Buffer) /\ Len(s) = B
      /\ \A k \in 1 .. B : s[k] = [fragment |-> FAdd(b, k - 1), filled |-> k <= L]
  BY <1>0, HeldFacts
<1>2. t \in Seq(Service!Buffer) /\ Len(t) = B + 1
      /\ \A k \in 1 .. B + 1 : t[k] = [fragment |-> FAdd(b, k - 1), filled |-> k <= L]
  BY <1>0, HeldFacts
<1>3. e \in Service!Buffer
  BY <1>0, AddFacts DEF Service!Buffer
<1>4. t[B + 1] = e
  <2>1. B + 1 \in 1 .. B + 1 /\ (B + 1) - 1 = B /\ ~(B + 1 <= L)
    OBVIOUS
  <2>2. t[B + 1] = [fragment |-> FAdd(b, (B + 1) - 1), filled |-> B + 1 <= L]
    BY <1>2, <2>1
  <2>3. (B + 1 <= L) = FALSE
    BY <2>1
  <2> QED BY <2>1, <2>2, <2>3, Zenon
<1> HIDE DEF s, e, t
<1>5. /\ Append(s, e) \in Seq(Service!Buffer) /\ Len(Append(s, e)) = B + 1
      /\ \A k \in 1 .. B : Append(s, e)[k] = s[k]
      /\ Append(s, e)[B + 1] = e
  BY <1>1, <1>3, AppendProperties
<1>6. \A k \in 1 .. B + 1 : t[k] = Append(s, e)[k]
  <2> SUFFICES ASSUME NEW k \in 1 .. B + 1 PROVE t[k] = Append(s, e)[k]
    OBVIOUS
  <2>1. k \in 1 .. B \/ k = B + 1
    OBVIOUS
  <2> QED BY <1>1, <1>2, <1>4, <1>5, <2>1
<1> QED BY <1>2, <1>5, <1>6, SeqEqual DEF s, e, t

LEMMA HeldReceive ==
  ASSUME NEW b \in Frags, NEW B \in Nat, NEW L \in Nat, L + 1 <= B, B < NumFragments
  PROVE  /\ Held(b, B, L + 1) = [Held(b, B, L) EXCEPT ![L + 1].filled = TRUE]
         /\ L + 1 \in 1 .. Len(Held(b, B, L)) /\ ~Held(b, B, L)[L + 1].filled
         /\ \A j \in 1 .. (L + 1) - 1 : Held(b, B, L)[j].filled
<1> DEFINE s == Held(b, B, L)
           t == Held(b, B, L + 1)
           e == [s[L + 1] EXCEPT !.filled = TRUE]
<1>0. L <= B /\ L + 1 \in Nat /\ L + 1 \in 1 .. B /\ (L + 1) - 1 = L
  OBVIOUS
<1>1. s \in Seq(Service!Buffer) /\ Len(s) = B
      /\ \A k \in 1 .. B : s[k] = [fragment |-> FAdd(b, k - 1), filled |-> k <= L]
  BY <1>0, HeldFacts
<1>2. t \in Seq(Service!Buffer) /\ Len(t) = B
      /\ \A k \in 1 .. B : t[k] = [fragment |-> FAdd(b, k - 1), filled |-> k <= L + 1]
  BY <1>0, HeldFacts
<1>3. \A k \in 1 .. B : /\ k <= L => (k <= L) = TRUE /\ (k <= L + 1) = TRUE
                        /\ ~(k <= L) /\ k # L + 1 => (k <= L) = FALSE /\ (k <= L + 1) = FALSE
                        /\ k = L + 1 => (k <= L) = FALSE /\ (k <= L + 1) = TRUE
  OBVIOUS
<1>4. /\ ~s[L + 1].filled /\ \A j \in 1 .. L : s[j].filled
  <2>1. s[L + 1] = [fragment |-> FAdd(b, (L + 1) - 1), filled |-> L + 1 <= L]
    BY <1>0, <1>1
  <2>2. s[L + 1].filled = (L + 1 <= L)
    BY <2>1
  <2>3. \A j \in 1 .. L : j \in 1 .. B /\ j <= L
    BY <1>0
  <2>4. \A j \in 1 .. L : s[j].filled = (j <= L)
    BY <1>1, <2>3
  <2>5. ~(L + 1 <= L)
    OBVIOUS
  <2> HIDE DEF s
  <2> QED BY <2>2, <2>3, <2>4, <2>5
<1>5. s[L + 1] \in Service!Buffer /\ s[L + 1].fragment = FAdd(b, L)
  <2>1. s[L + 1] = [fragment |-> FAdd(b, (L + 1) - 1), filled |-> L + 1 <= L]
    BY <1>0, <1>1
  <2>2. s[L + 1] \in Service!Buffer
    BY <1>0, <1>1, ElementOfSeq
  <2> HIDE DEF s
  <2> QED BY <1>0, <2>1, <2>2
<1>6. e \in Service!Buffer /\ e.fragment = FAdd(b, L) /\ e.filled = TRUE
  <2> HIDE DEF s
  <2> QED BY <1>5 DEF Service!Buffer
<1>7. [s EXCEPT ![L + 1].filled = TRUE] = [s EXCEPT ![L + 1] = e]
  OBVIOUS
<1>8. t[L + 1] = e
  <2>1. t[L + 1] = [fragment |-> FAdd(b, (L + 1) - 1), filled |-> L + 1 <= L + 1]
    BY <1>0, <1>2
  <2>2. t[L + 1] \in Service!Buffer
    BY <1>0, <1>2, ElementOfSeq
  <2>3. (L + 1 <= L + 1) = TRUE
    OBVIOUS
  <2> HIDE DEF e, t
  <2>4. t[L + 1].fragment = FAdd(b, L) /\ t[L + 1].filled = TRUE
    <3>1. t[L + 1].fragment = FAdd(b, (L + 1) - 1) /\ t[L + 1].filled = (L + 1 <= L + 1)
      BY <2>1
    <3> QED BY <1>0, <2>3, <3>1
  <2> QED BY <1>6, <2>2, <2>4 DEF Service!Buffer
<1> HIDE DEF s, t, e
<1>9. /\ [s EXCEPT ![L + 1] = e] \in Seq(Service!Buffer) /\ Len([s EXCEPT ![L + 1] = e]) = B
      /\ \A j \in 1 .. B : [s EXCEPT ![L + 1] = e][j] = IF j = L + 1 THEN e ELSE s[j]
  BY <1>0, <1>1, <1>6, ExceptSeq
<1>10. \A k \in 1 .. B : k # L + 1 => t[k] = s[k]
  <2> SUFFICES ASSUME NEW k \in 1 .. B, k # L + 1 PROVE t[k] = s[k]
    OBVIOUS
  <2>1. (k <= L) = (k <= L + 1)
    BY <1>3, Zenon
  <2>2. /\ s[k] = [fragment |-> FAdd(b, k - 1), filled |-> k <= L]
        /\ t[k] = [fragment |-> FAdd(b, k - 1), filled |-> k <= L + 1]
    BY <1>1, <1>2, Zenon
  <2> QED BY <2>1, <2>2, Zenon
<1>11. t = [s EXCEPT ![L + 1] = e]
  BY <1>2, <1>8, <1>9, <1>10, SeqEqual
<1> QED BY <1>0, <1>1, <1>4, <1>7, <1>11 DEF s, t

LEMMA HeldIndicate ==
  ASSUME NEW b \in Frags, NEW B \in Nat, NEW L \in Nat, NEW n \in Nat,
         n <= L, L <= B, B < NumFragments
  PROVE  /\ Held(FAdd(b, n), B - n, L - n) = SubSeq(Held(b, B, L), n + 1, Len(Held(b, B, L)))
         /\ \A j \in 1 .. n : j \in 1 .. B /\ Held(b, B, L)[j].filled
<1> DEFINE s == Held(b, B, L)
           t == Held(FAdd(b, n), B - n, L - n)
           u == SubSeq(s, n + 1, Len(s))
<1>0. n < NumFragments /\ B - n \in Nat /\ L - n \in Nat /\ L - n <= B - n /\ B - n < NumFragments /\ n <= B
  BY Ring
<1>1. s \in Seq(Service!Buffer) /\ Len(s) = B
      /\ \A k \in 1 .. B : s[k] = [fragment |-> FAdd(b, k - 1), filled |-> k <= L]
  BY HeldFacts
<1>2. FAdd(b, n) \in Frags
  BY <1>0, AddFacts
<1>3. t \in Seq(Service!Buffer) /\ Len(t) = B - n
      /\ \A k \in 1 .. B - n : t[k] = [fragment |-> FAdd(FAdd(b, n), k - 1), filled |-> k <= L - n]
  BY <1>0, <1>2, HeldFacts
<1> HIDE DEF s, t
<1>4. u \in Seq(Service!Buffer) /\ Len(u) = B - n
      /\ \A k \in 1 .. B - n : u[k] = s[n + k]
  BY <1>0, <1>1, SubSeqFacts
<1> HIDE DEF u
<1>5. ASSUME NEW k \in 1 .. B - n PROVE t[k] = u[k]
  <2>1. n + k \in 1 .. B /\ (n + k) - 1 = n + (k - 1) /\ k - 1 \in Nat /\ n + (k - 1) < NumFragments
    BY <1>0, Ring
  <2>2. FAdd(FAdd(b, n), k - 1) = FAdd(b, (n + k) - 1)
    BY <2>1, AddFacts
  <2>3. (k <= L - n) = (n + k <= L)
    <3>1. CASE k <= L - n
      <4>1. (k <= L - n) = TRUE /\ (n + k <= L) = TRUE
        BY <3>1
      <4> QED BY <4>1, Zenon
    <3>2. CASE ~(k <= L - n)
      <4>1. (k <= L - n) = FALSE /\ (n + k <= L) = FALSE
        BY <3>2
      <4> QED BY <4>1, Zenon
    <3> QED BY <3>1, <3>2
  <2>4. s[n + k] = [fragment |-> FAdd(b, (n + k) - 1), filled |-> n + k <= L]
    BY <1>1, <2>1
  <2>5. t[k] = [fragment |-> FAdd(FAdd(b, n), k - 1), filled |-> k <= L - n] /\ u[k] = s[n + k]
    BY <1>3, <1>4
  <2> QED BY <2>2, <2>3, <2>4, <2>5, Zenon
<1>6. t = u
  BY <1>3, <1>4, <1>5, SeqEqual
<1>7. \A j \in 1 .. n : j \in 1 .. B /\ s[j].filled
  <2> SUFFICES ASSUME NEW j \in 1 .. n PROVE j \in 1 .. B /\ s[j].filled
    OBVIOUS
  <2>1. j \in 1 .. B /\ j <= L
    BY <1>0
  <2>2. s[j].filled = (j <= L)
    BY <1>1, <2>1
  <2> QED BY <2>1, <2>2
<1> QED BY <1>6, <1>7 DEF s, t, u

LEMMA HeldNow == IInv => /\ Outstanding = Held(fBegin, Buffers, Len(landed))
                         /\ Len(landed) <= Buffers
BY OutstandingFacts

LEMMA HeldNext == IInv' => /\ Outstanding' = Held(fBegin', Buffers', Len(landed'))
                           /\ Len(landed') <= Buffers'
<1>1. IInv' => (/\ Outstanding = Held(fBegin, Buffers, Len(landed))
                /\ Len(landed) <= Buffers)'
  BY HeldNow, PTL
<1> QED BY <1>1 DEF Held, FAdd

(* What a step does to the buffers handed over.                            *)
LEMMA RxStep == IInv /\ IInv' /\ [Next]_vars => Service!Next \/ Outstanding' = Outstanding
<1> SUFFICES ASSUME IInv, IInv', [Next]_vars
             PROVE  Service!Next \/ Outstanding' = Outstanding
  OBVIOUS
<1> DEFINE B == Count(fBegin, fEnd)
           L == Len(landed)
<1>a. CASE cancel = "stranded"
  <2>1. Buffers = 0 /\ Len(landed) = 0
    <3>1. landed = <<>>
      BY <1>a DEF IInv, Phases
    <3> QED BY <1>a, <3>1 DEF Buffers
  <2>2. Outstanding = <<>>
    BY <2>1, HeldNow DEF Held
  <2>3. Buffers' = 0
    <3>1. CASE Start
      <4>1. fBegin' = 0 /\ fEnd' = 0
        BY <3>1 DEF Start
      <4>2. Count(0, 0) = 0
        BY CountFacts, Ring
      <4>3. Count(fBegin', fEnd') = 0
        BY <4>1, <4>2
      <4> QED BY <4>3 DEF Buffers, Count
    <3>2. CASE ~Start
      <4>1. cancel' = "stranded"
        BY <1>a, <3>2 DEF Next, Advance, Stop, Provide, AdvanceBegin, CancelBegin, IndicateOne, IndicateEnd,
                          PostFields, PostStatus, PostEnd, CancelEnd, HwReceive, HwQuiet, vars
      <4> QED BY <4>1 DEF Buffers
    <3> QED BY <3>1, <3>2
  <2>4. Len(landed') <= 0
    BY <2>3, HeldNext
  <2>5. Outstanding' = <<>>
    BY <2>3, HeldNext DEF Held
  <2> QED BY <2>2, <2>5
<1> SUFFICES ASSUME cancel # "stranded" PROVE Service!Next \/ Outstanding' = Outstanding
  BY <1>a
<1>b. Buffers = B
  BY DEF Buffers
<1>0. /\ fBegin \in Frags /\ fEnd \in Frags /\ fi \in Frags /\ fNext \in Frags /\ landed \in Seq(Frags)
      /\ B \in Nat /\ B < NumFragments /\ L \in Nat /\ L <= B
      /\ Outstanding = Held(fBegin, B, L)
  BY <1>b, TypeFacts, OutstandingFacts DEF IInv
<1>c. ASSUME cancel' # "stranded" PROVE Buffers' = Count(fBegin', fEnd')
  BY <1>c DEF Buffers, Count
<1>1. cancel' # "stranded" => Outstanding' = Held(fBegin', Count(fBegin', fEnd'), Len(landed'))
  BY <1>c, HeldNext
<1>2. ASSUME UNCHANGED <<fBegin, fEnd, landed>>, cancel' # "stranded" PROVE Outstanding' = Outstanding
  BY <1>0, <1>1, <1>2
<1> HIDE DEF L
<1>3. CASE Start
  <2>1. fBegin = fEnd /\ landed = <<>> /\ landed' = landed /\ fBegin' = 0 /\ fEnd' = 0
        /\ cancel' # "stranded"
    BY <1>3 DEF Start, IInv, Phases, TypeOK
  <2>2. B = 0 /\ Count(fBegin', fEnd') = 0
    BY <1>0, <2>1, CountFacts, Ring
  <2>3. Outstanding = Held(fBegin, 0, L) /\ Outstanding' = Held(fBegin', 0, L)
    BY <1>0, <1>1, <2>1, <2>2 DEF L
  <2> QED BY <2>3 DEF Held
<1>4. CASE Provide
  <2>1. B < NumFragments - 1 /\ fEnd' = FAdd(fEnd, 1) /\ fBegin' = fBegin /\ landed' = landed
        /\ cancel' # "stranded"
    BY <1>4 DEF Provide
  <2>2. Count(fBegin', fEnd') = B + 1
    BY <1>0, <2>1, CountNext
  <2>3. fEnd = FAdd(fBegin, B)
    BY <1>0, CountFacts
  <2> HIDE DEF B
  <2>4. B + 1 < NumFragments
    BY <1>0, <2>1, Ring
  <2>5. Outstanding' = Append(Outstanding, [fragment |-> fEnd, filled |-> FALSE])
    BY <1>0, <1>1, <2>1, <2>2, <2>3, <2>4, HeldProvide DEF L
  <2>6. Service!Provide
    BY <1>0, <2>5 DEF Service!Provide, Outstanding, Buffers
  <2> QED BY <2>6 DEF Service!Next
<1>5. CASE HwReceive
  <2>0. CASE ~Holding
    <3>1. UNCHANGED <<fBegin, fEnd, landed>> /\ cancel' # "stranded"
      BY <1>5, <2>0 DEF HwReceive, ringVars
    <3> QED BY <1>2, <3>1
  <2> SUFFICES ASSUME Holding PROVE Service!Next
    BY <2>0
  <2>1. landed' = Append(landed, hwIndex) /\ fBegin' = fBegin /\ fEnd' = fEnd /\ cancel' # "stranded"
    BY <1>5 DEF HwReceive, ringVars
  <2>2. Len(landed') = L + 1
    BY <1>0, <2>1 DEF L
  <2>3. L + 1 <= Count(fBegin', fEnd') /\ Count(fBegin', fEnd') = B
    BY <1>c, <2>1, <2>2, HeldNext
  <2> HIDE DEF B
  <2>4. /\ Outstanding' = [Outstanding EXCEPT ![L + 1].filled = TRUE]
        /\ L + 1 \in 1 .. Len(Outstanding) /\ ~Outstanding[L + 1].filled
        /\ \A j \in 1 .. (L + 1) - 1 : Outstanding[j].filled
    <3>1. Outstanding' = Held(fBegin, B, L + 1)
      BY <1>1, <2>1, <2>2, <2>3
    <3>2. L + 1 <= B
      BY <2>3
    <3> QED BY <1>0, <3>1, <3>2, HeldReceive
  <2>5. Service!Receive
    BY <2>4 DEF Service!Receive, Outstanding, Buffers
  <2> QED BY <2>5 DEF Service!Next
<1>6. CASE IndicateEnd
  <2> DEFINE n == Count(fBegin, fi)
  <2>1. /\ pc = "indicate" /\ fBegin' = fi /\ fEnd' = fEnd /\ cancel' # "stranded"
        /\ landed' = SubSeq(landed, n + 1, Len(landed))
    BY <1>6 DEF IndicateEnd
  <2>2. n \in Nat /\ n <= L /\ fi = FAdd(fBegin, n)
    BY <1>0, <2>1, CountFacts DEF IInv, IndicatedWasReceived, L
  <2>3. Count(fi, fEnd) = IF n <= B THEN B - n ELSE B - n + NumFragments
    BY <1>0, CountFacts
  <2> HIDE DEF B, n
  <2>4. Count(fBegin', fEnd') = B - n
    BY <1>0, <2>1, <2>2, <2>3
  <2>5. Len(landed') = L - n
    BY <1>0, <2>1, <2>2, SubSeqFacts DEF L
  <2>6. /\ Outstanding' = SubSeq(Outstanding, n + 1, Len(Outstanding))
        /\ \A j \in 1 .. n : j \in 1 .. B /\ Outstanding[j].filled
    <3>1. /\ Held(FAdd(fBegin, n), B - n, L - n)
               = SubSeq(Held(fBegin, B, L), n + 1, Len(Held(fBegin, B, L)))
          /\ \A j \in 1 .. n : j \in 1 .. B /\ Held(fBegin, B, L)[j].filled
      BY <1>0, <2>2, HeldIndicate
    <3>2. Outstanding' = Held(FAdd(fBegin, n), B - n, L - n)
      BY <1>1, <2>1, <2>2, <2>4, <2>5
    <3> QED BY <1>0, <3>1, <3>2
  <2>7. Len(Outstanding) = B
    BY <1>0, HeldFacts
  <2>8. CASE n = 0
    <3>1. fi = fBegin
      BY <1>0, <2>2, <2>8, AddFacts
    <3>2. B - n = B /\ L - n = L
      BY <1>0, <2>8
    <3> QED BY <1>0, <1>1, <2>1, <2>4, <2>5, <3>1, <3>2
  <2>9. CASE n # 0
    <3>1. n \in 1 .. Len(Outstanding)
      BY <1>0, <2>2, <2>7, <2>9
    <3>2. Service!Indicate
      BY <2>6, <3>1 DEF Service!Indicate, Outstanding, Buffers
    <3> QED BY <3>2 DEF Service!Next
  <2> QED BY <2>8, <2>9
<1>7. CASE CancelEnd
  <2>1. fBegin' = fEnd' /\ fEnd' = fEnd /\ landed' = <<>>
    BY <1>7 DEF CancelEnd
  <2>2. Count(fBegin', fEnd') = 0
    BY <1>0, <2>1, CountFacts
  <2>a. Buffers' = 0
    BY <1>c, <2>2 DEF Buffers
  <2>3. Outstanding' = <<>>
    BY <2>a, HeldNext DEF Held
  <2>4. Service!Cancel
    BY <2>3 DEF Service!Cancel, Outstanding, Buffers
  <2> QED BY <2>4 DEF Service!Next
<1>8. CASE \/ Stop \/ AdvanceBegin \/ CancelBegin \/ IndicateOne \/ PostFields \/ PostStatus \/ PostEnd
           \/ HwQuiet \/ UNCHANGED vars
  <2>1. UNCHANGED <<fBegin, fEnd, landed>> /\ cancel' # "stranded"
    BY <1>8 DEF Stop, AdvanceBegin, CancelBegin, IndicateOne, PostFields, PostStatus, PostEnd,
                HwQuiet, vars, ringVars
  <2> QED BY <1>2, <2>1
<1> QED BY <1>3, <1>4, <1>5, <1>6, <1>7, <1>8 DEF Next, Advance

(* The ring keeps the promises of RtRxService: buffers are filled in order *)
(* and come back in order, unfilled only when the queue is cancelled.      *)
THEOREM RxImplements == Spec => Implements
<1>1. Init => Service!Init
  <2> SUFFICES ASSUME Init PROVE Outstanding = <<>>
    BY DEF Service!Init, Outstanding, Buffers
  <2>1. Buffers = 0 /\ Len(landed) = 0
    BY CountFacts, Ring DEF Init, Buffers
  <2>2. Outstanding = Held(fBegin, 0, 0)
    BY <2>1, RxInit, OutstandingFacts
  <2> QED BY <2>2 DEF Held
<1>2. IInv /\ IInv' /\ [Next]_vars => [Service!Next]_Outstanding
  BY RxStep
<1> QED BY <1>1, <1>2, RxInvariance, PTL DEF Spec, Implements, Service!Spec, Outstanding, Buffers
=============================================================================
