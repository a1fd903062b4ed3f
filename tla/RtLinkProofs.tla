---------------------------- MODULE RtLinkProofs ----------------------------
(***************************************************************************)
(* Proofs of the safety properties of RtLink, for every number of DPC      *)
(* processors, every set of link states and speed setting, with and        *)
(* without time-outs of the PHY, and every order in which a build reads    *)
(* the arguments of a report.  They follow from IInv, which is inductive.  *)
(***************************************************************************)
EXTENDS RtLink, TLAPS

USE DEF history, context

(* A query found: the fields of local and of a report.                     *)
Locals  == [early : SUBSET {"speed", "full"}, aner : BOOLEAN,
            media : {"unknown", "connected", "disconnected"},
            speed : Speeds, full : BOOLEAN, autoNeg : BOOLEAN]
Reports == [early : SUBSET {"speed", "full"}, media : {"unknown", "connected", "disconnected"},
            speed : Speeds, full : BOOLEAN, autoNeg : BOOLEAN]

-----------------------------------------------------------------------------
(* Type correctness.                                                       *)

(* The states of a link, and of one that is down.                          *)
LEMMA StateFacts ==
  /\ Down \in States /\ Down.on = FALSE /\ Down.autoNeg = FALSE
  /\ \A s \in States : /\ s.on \in BOOLEAN /\ s.full \in BOOLEAN /\ s.autoNeg \in BOOLEAN
                       /\ s.speed \in Speeds /\ (~s.on => s = Down)
  /\ 0 \in Speeds /\ SettingSpeed \in Speeds
<1>1. Down \in States /\ Down.on = FALSE /\ Down.autoNeg = FALSE /\ Down.full = FALSE /\ Down.speed = 0
  BY DEF States, Down
<1>2. 0 \in Speeds /\ SettingSpeed \in Speeds
  BY DEF Speeds
<1>3. ASSUME NEW s \in States
      PROVE  /\ s.on \in BOOLEAN /\ s.full \in BOOLEAN /\ s.autoNeg \in BOOLEAN
             /\ s.speed \in Speeds /\ (~s.on => s = Down)
  <2>1. CASE s \in UpStates
    <3>1. s.speed \in Speeds
      BY <2>1 DEF Speeds
    <3>2. s.on = TRUE /\ s.full \in BOOLEAN /\ s.autoNeg \in BOOLEAN
      BY <2>1, StatesAssumption
    <3> QED BY <3>1, <3>2
  <2>2. CASE s = Down
    BY <2>2, <1>1, <1>2
  <2> QED BY <2>1, <2>2 DEF States
<1> QED BY <1>1, <1>2, <1>3

LEMMA InitType == Init => TypeOK
<1> SUFFICES ASSUME Init PROVE TypeOK
  OBVIOUS
<1>1. Empty \in Locals /\ Unknown \in Reports
  BY StateFacts DEF Empty, Unknown, Locals, Reports
<1>2. local \in [Actors -> Locals]
  BY <1>1 DEF Init
<1>3. phy \in States /\ LinkSpeed \in Speeds
  BY StateFacts DEF Init
<1> QED BY <1>1, <1>2, <1>3 DEF Init, TypeOK, Locals, Reports

(* What a query begins with has its type.                                  *)
LEMMA GatherType ==
  ASSUME TypeOK, NEW early \in ArgumentOrders
  PROVE  Gather(early) \in Locals
BY StateFacts, OrdersAssumption DEF TypeOK, Locals, Gather, Empty

(* The callers of a query keep the types.                                  *)
LEMMA TypeCallers ==
  ASSUME TypeOK,
         \/ \E s \in States : PhyChange(s)
         \/ Isr
         \/ \E d \in Dpcs : DpcTake(d) \/ DpcBegin(d)
         \/ PrepareHardware \/ EvtDeviceD0Entry \/ EvtInterruptEnable
         \/ \E t \in {"low", "released"} : EvtDeviceD0Exit(t)
  PROVE  TypeOK'
<1> USE DEF TypeOK
<1>1. ASSUME NEW s \in States, PhyChange(s) PROVE TypeOK'
  BY <1>1 DEF PhyChange
<1>2. CASE Isr
  BY <1>2 DEF Isr
<1>3. ASSUME NEW d \in Dpcs, DpcTake(d) PROVE TypeOK'
  BY <1>3 DEF DpcTake, Actors
<1>4. ASSUME NEW d \in Dpcs, DpcBegin(d) PROVE TypeOK'
  <2>1. local' \in [Actors -> Locals]
    BY <1>4, GatherType DEF DpcBegin, Actors, Locals
  <2> QED BY <1>4, <2>1 DEF DpcBegin, Actors, Locals
<1>5. CASE PrepareHardware
  <2>1. local' \in [Actors -> Locals]
    BY <1>5, GatherType DEF PrepareHardware, Actors, Locals
  <2> QED BY <1>5, <2>1 DEF PrepareHardware, Actors, Locals
<1>6. CASE EvtDeviceD0Entry
  <2>1. local' \in [Actors -> Locals]
    BY <1>6, GatherType DEF EvtDeviceD0Entry, Actors, Locals
  <2> QED BY <1>6, <2>1 DEF EvtDeviceD0Entry, Actors, Locals
<1>7. CASE EvtInterruptEnable
  BY <1>7 DEF EvtInterruptEnable
<1>8. ASSUME NEW t \in {"low", "released"}, EvtDeviceD0Exit(t) PROVE TypeOK'
  BY <1>8, StateFacts DEF EvtDeviceD0Exit, Unknown
<1> QED BY <1>1, <1>2, <1>3, <1>4, <1>5, <1>6, <1>7, <1>8

(* Every step of a query keeps the types.                                  *)
LEMMA TypeQuery ==
  ASSUME TypeOK, NEW a \in Actors, Query(a)
  PROVE  TypeOK'
<1> USE DEF TypeOK
<1>1. CASE ReadStatus(a)
  BY <1>1 DEF ReadStatus
<1>2. CASE ReadAner(a)
  <2>1. PICK able \in BOOLEAN : local' = [local EXCEPT ![a].aner = able]
    BY <1>2, StateFacts DEF ReadAner, PhyReads
  <2>2. local' \in [Actors -> Locals]
    BY <2>1 DEF Locals
  <2> QED BY <1>2, <2>2 DEF ReadAner, Locals
<1>3. CASE ReadBmsr(a)
  BY <1>3, StateFacts DEF ReadBmsr, PhyReads
<1>4. CASE ReadSpeed(a)
  BY <1>4, StateFacts DEF ReadSpeed
<1>5. CASE ReadMedia(a)
  <2>1. Gathered(a) \in Locals
    <3>1. local[a] \in Locals
      BY DEF Locals
    <3> DEFINE media == IF phy.on THEN "connected" ELSE "disconnected"
               speed == IF "speed" \in local[a].early THEN local[a].speed ELSE LinkSpeed
               full  == IF "full" \in local[a].early THEN local[a].full ELSE DuplexMode
    <3>2. media \in {"unknown", "connected", "disconnected"} /\ speed \in Speeds /\ full \in BOOLEAN
      BY <3>1 DEF Locals
    <3>3. Gathered(a) = [local[a] EXCEPT !.media = media, !.speed = speed, !.full = full]
      BY DEF Gathered
    <3> HIDE DEF media, speed, full
    <3> QED BY <3>1, <3>2, <3>3 DEF Locals
  <2>2. local' \in [Actors -> Locals]
    BY <1>5, <2>1 DEF ReadMedia, Locals
  <2>3. lock' \in Dpcs \cup {NoOne} /\ overtaken' \subseteq Actors
    BY <1>5 DEF ReadMedia
  <2> QED BY <1>5, <2>2, <2>3 DEF ReadMedia, Locals
<1>6. CASE Report(a)
  <2>1. reported' \in Reports
    BY <1>6 DEF Report, SetLinkState, Reports
  <2>2. Empty \in Locals
    BY StateFacts DEF Empty, Locals
  <2>3. local' \in [Actors -> Locals]
    BY <1>6, <2>2 DEF Report, SetLinkState, Locals
  <2> QED BY <1>6, <2>1, <2>3 DEF Report, SetLinkState, Locals, Reports
<1> QED BY <1>1, <1>2, <1>3, <1>4, <1>5, <1>6 DEF Query

LEMMA NextType == TypeOK /\ [Next]_vars => TypeOK'
<1>1. ASSUME TypeOK, UNCHANGED vars PROVE TypeOK'
  BY <1>1 DEF TypeOK, vars
<1> QED BY <1>1, TypeCallers, TypeQuery DEF Next

(* Every variable keeps its type; the speed in the context and in the      *)
(* reports is one the link or its setting has.                             *)
THEOREM TypeCorrect == Spec => []TypeOK
BY InitType, NextType, PTL DEF Spec

-----------------------------------------------------------------------------
(* The inductive invariant.                                                *)

(* The actors differ from one another and from no holder.                  *)
LEMMA ActorFacts == Pnp \in Actors /\ Pnp \notin Dpcs /\ NoOne \notin Actors /\ Dpcs \subseteq Actors
BY ActorsAssumption DEF Actors

(* One query at a time.                                                    *)
LEMMA NextApart == TypeOK /\ QueriesApart /\ [Next]_vars => QueriesApart'
<1> SUFFICES ASSUME TypeOK, QueriesApart, [Next]_vars PROVE QueriesApart'
  OBVIOUS
<1> USE ActorFacts DEF TypeOK, QueriesApart, Querying
<1>1. ASSUME NEW s \in States, PhyChange(s) PROVE QueriesApart'
  BY <1>1 DEF PhyChange
<1>2. CASE Isr
  BY <1>2 DEF Isr
<1>3. ASSUME NEW d \in Dpcs, DpcTake(d) PROVE QueriesApart'
  BY <1>3 DEF DpcTake
<1>4. ASSUME NEW d \in Dpcs, DpcBegin(d) PROVE QueriesApart'
  BY <1>4 DEF DpcBegin
<1>5. CASE PrepareHardware
  BY <1>5 DEF PrepareHardware
<1>6. CASE EvtDeviceD0Entry
  BY <1>6 DEF EvtDeviceD0Entry
<1>7. CASE EvtInterruptEnable
  BY <1>7 DEF EvtInterruptEnable
<1>8. ASSUME NEW t \in {"low", "released"}, EvtDeviceD0Exit(t) PROVE QueriesApart'
  BY <1>8 DEF EvtDeviceD0Exit
<1>9. ASSUME NEW a \in Actors, ReadStatus(a) PROVE QueriesApart'
  BY <1>9 DEF ReadStatus
<1>10. ASSUME NEW a \in Actors, ReadAner(a) PROVE QueriesApart'
  BY <1>10 DEF ReadAner
<1>11. ASSUME NEW a \in Actors, ReadBmsr(a) PROVE QueriesApart'
  BY <1>11 DEF ReadBmsr
<1>12. ASSUME NEW a \in Actors, ReadSpeed(a) PROVE QueriesApart'
  BY <1>12 DEF ReadSpeed
<1>13. ASSUME NEW a \in Actors, ReadMedia(a) PROVE QueriesApart'
  BY <1>13 DEF ReadMedia
<1>14. ASSUME NEW a \in Actors, Report(a) PROVE QueriesApart'
  BY <1>14 DEF Report, SetLinkState
<1>15. CASE UNCHANGED vars
  BY <1>15 DEF vars
<1> QED BY <1>1, <1>2, <1>3, <1>4, <1>5, <1>6, <1>7, <1>8, <1>9, <1>10, <1>11, <1>12, <1>13, <1>14, <1>15 DEF Next, Query

(* An actor whose turn it is to query is the only one.                     *)
LEMMA OneQuery ==
  ASSUME TypeOK, QueriesApart, NEW a \in Actors, NEW b \in Actors, a # b,
         \/ Querying(a)
         \/ a \in Dpcs /\ pc[a] = "lock" /\ lock = NoOne
         \/ a = Pnp /\ power # "on"
  PROVE  ~Querying(b)
BY ActorFacts DEF QueriesApart, Querying, Actors, TypeOK

(* What the queries have found holds as long as no change is pending.      *)
LEMMA NextCurrent ==
  ASSUME TypeOK, QueriesApart, Served => (\A a \in Actors : QueryCurrent(a)) /\ Found,
         [Next]_vars
  PROVE  (Served => (\A a \in Actors : QueryCurrent(a)) /\ Found)'
<1> DEFINE Goal == (Served => (\A a \in Actors : QueryCurrent(a)) /\ Found)'
<1> USE ActorFacts, StateFacts DEF TypeOK, QueriesApart, Querying, Served, Pending, QueryCurrent, Found,
      AutoNegCurrent, SpeedCurrent
<1>1. ASSUME NEW s \in States, PhyChange(s) PROVE Goal
  BY <1>1 DEF PhyChange
<1>2. CASE Isr
  BY <1>2 DEF Isr
<1>3. ASSUME NEW d \in Dpcs, DpcTake(d) PROVE Goal
  BY <1>3 DEF DpcTake
<1>4. ASSUME NEW d \in Dpcs, DpcBegin(d) PROVE Goal
  <2>0. pc' = [pc EXCEPT ![d] = "status"] /\ \A b \in Actors \ {d} : ~Querying(b)
    BY <1>4, OneQuery DEF DpcBegin
  <2>1. pc'[d] = "status" /\ \A b \in Actors \ {d} : pc'[b] = pc[b] /\ ~Querying(b)
    BY <2>0
  <2>2. Found' /\ \A b \in Actors : QueryCurrent(b)'
    BY <2>1
  <2> QED BY <2>2
<1>5. CASE PrepareHardware
  <2>0. pc' = [pc EXCEPT ![Pnp] = "status"] /\ \A b \in Actors \ {Pnp} : ~Querying(b)
    BY <1>5, OneQuery DEF PrepareHardware
  <2>1. pc'[Pnp] = "status" /\ \A b \in Actors \ {Pnp} : pc'[b] = pc[b] /\ ~Querying(b)
    BY <2>0
  <2>2. Found' /\ \A b \in Actors : QueryCurrent(b)'
    BY <2>1
  <2> QED BY <2>2
<1>6. CASE EvtDeviceD0Entry
  <2>0. pc' = [pc EXCEPT ![Pnp] = "status"] /\ \A b \in Actors \ {Pnp} : ~Querying(b)
    BY <1>6, OneQuery DEF EvtDeviceD0Entry
  <2>1. pc'[Pnp] = "status" /\ \A b \in Actors \ {Pnp} : pc'[b] = pc[b] /\ ~Querying(b)
    BY <2>0
  <2>2. Found' /\ \A b \in Actors : QueryCurrent(b)'
    BY <2>1
  <2> QED BY <2>2
<1>7. CASE EvtInterruptEnable
  BY <1>7 DEF EvtInterruptEnable
<1>8. ASSUME NEW t \in {"low", "released"}, EvtDeviceD0Exit(t) PROVE Goal
  BY <1>8 DEF EvtDeviceD0Exit
<1>9. ASSUME NEW a \in Actors, ReadStatus(a) PROVE Goal
  BY <1>9 DEF ReadStatus
<1>10. ASSUME NEW a \in Actors, ReadAner(a) PROVE Goal
  <2> SUFFICES ASSUME Served' PROVE Found' /\ \A b \in Actors : QueryCurrent(b)'
    OBVIOUS
  <2>1. Served /\ phy.on /\ UNCHANGED <<phy, LinkAutoNeg, LinkSpeed, DuplexMode>>
    BY <1>10 DEF ReadAner
  <2>2. PICK able \in PhyReads : local' = [local EXCEPT ![a].aner = able]
    BY <1>10 DEF ReadAner
  <2>3. local'[a].aner = able
    BY <2>2
  <2>4. pc'[a] = "bmsr" /\ \A b \in Actors \ {a} : pc'[b] = pc[b] /\ ~Querying(b)
    BY <1>10, OneQuery DEF ReadAner
  <2>5. Found' /\ QueryCurrent(a)'
    BY <2>1, <2>2, <2>3, <2>4, <1>10 DEF PhyReads
  <2>6. ASSUME NEW b \in Actors \ {a} PROVE QueryCurrent(b)'
    BY <2>4
  <2> QED BY <2>5, <2>6
<1>11. ASSUME NEW a \in Actors, ReadBmsr(a) PROVE Goal
  <2> SUFFICES ASSUME Served' PROVE Found' /\ \A b \in Actors : QueryCurrent(b)'
    OBVIOUS
  <2>1. Served /\ phy.on /\ UNCHANGED <<phy, local, LinkSpeed, DuplexMode>>
    BY <1>11 DEF ReadBmsr
  <2>2. PICK complete \in PhyReads : LinkAutoNeg' = (local[a].aner /\ complete)
    BY <1>11 DEF ReadBmsr
  <2>3. (phy.autoNeg => local[a].aner) /\ (local[a].aner => phy.autoNeg \/ PhyTimeouts)
    BY <2>1, <1>11 DEF ReadBmsr
  <2>4. pc'[a] = "speed" /\ \A b \in Actors \ {a} : pc'[b] = pc[b] /\ ~Querying(b)
    BY <1>11, OneQuery DEF ReadBmsr
  <2>5. AutoNegCurrent'
    BY <2>1, <2>2, <2>3 DEF PhyReads
  <2>6. Found' /\ QueryCurrent(a)'
    BY <2>1, <2>4, <2>5, <1>11
  <2>7. ASSUME NEW b \in Actors \ {a} PROVE QueryCurrent(b)'
    BY <2>4
  <2> QED BY <2>6, <2>7
<1>12. ASSUME NEW a \in Actors, ReadSpeed(a) PROVE Goal
  BY <1>12 DEF ReadSpeed
<1>13. ASSUME NEW a \in Actors, ReadMedia(a) PROVE Goal
  BY <1>13 DEF ReadMedia
<1>14. ASSUME NEW a \in Actors, Report(a) PROVE Goal
  BY <1>14 DEF Report, SetLinkState
<1>15. CASE UNCHANGED vars
  BY <1>15 DEF vars
<1> QED BY <1>1, <1>2, <1>3, <1>4, <1>5, <1>6, <1>7, <1>8, <1>9, <1>10, <1>11, <1>12, <1>13, <1>14, <1>15 DEF Next, Query

(* What is, or is to be, reported last is what the latest query found.     *)
LEMMA NextReports ==
  ASSUME TypeOK, QueriesApart, ReportsMatch, [Next]_vars
  PROVE  ReportsMatch'
<1> USE ActorFacts, StateFacts DEF TypeOK, Served, Pending, ReportsMatch
<1>1. ASSUME NEW s \in States, PhyChange(s) PROVE ReportsMatch'
  BY <1>1, OneQuery DEF PhyChange, QueriesApart, Querying, Matches, Gather, Empty
<1>2. CASE Isr
  BY <1>2, OneQuery DEF Isr, QueriesApart, Querying, Matches, Gather, Empty
<1>3. ASSUME NEW d \in Dpcs, DpcTake(d) PROVE ReportsMatch'
  BY <1>3, OneQuery DEF DpcTake, QueriesApart, Querying, Matches, Gather, Empty
<1>4. ASSUME NEW d \in Dpcs, DpcBegin(d) PROVE ReportsMatch'
  BY <1>4, OneQuery DEF DpcBegin, QueriesApart, Querying, Matches, Gather, Empty
<1>5. CASE PrepareHardware
  BY <1>5, OneQuery DEF PrepareHardware, QueriesApart, Querying, Matches, Gather, Empty
<1>6. CASE EvtDeviceD0Entry
  BY <1>6, OneQuery DEF EvtDeviceD0Entry, QueriesApart, Querying, Matches, Gather, Empty
<1>7. CASE EvtInterruptEnable
  BY <1>7, OneQuery DEF EvtInterruptEnable, QueriesApart, Querying, Matches, Gather, Empty
<1>8. ASSUME NEW t \in {"low", "released"}, EvtDeviceD0Exit(t) PROVE ReportsMatch'
  BY <1>8, OneQuery DEF EvtDeviceD0Exit, QueriesApart, Querying, Matches, Gather, Empty
<1>9. ASSUME NEW a \in Actors, ReadStatus(a) PROVE ReportsMatch'
  BY <1>9, OneQuery DEF ReadStatus, QueriesApart, Querying, Matches, Gather, Empty
<1>10. ASSUME NEW a \in Actors, ReadAner(a) PROVE ReportsMatch'
  BY <1>10, OneQuery DEF ReadAner, QueriesApart, Querying, Matches, Gather, Empty
<1>11. ASSUME NEW a \in Actors, ReadBmsr(a) PROVE ReportsMatch'
  BY <1>11, OneQuery DEF ReadBmsr, QueriesApart, Querying, Matches, Gather, Empty
<1>12. ASSUME NEW a \in Actors, ReadSpeed(a) PROVE ReportsMatch'
  BY <1>12, OneQuery DEF ReadSpeed, QueriesApart, Querying, Matches, Gather, Empty
<1>13. ASSUME NEW a \in Actors, ReadMedia(a) PROVE ReportsMatch'
  <2>1. local' = [local EXCEPT ![a] = Gathered(a)] /\ UNCHANGED <<phy, context>>
    BY <1>13 DEF ReadMedia
  <2>2. local'[a] = Gathered(a) /\ \A b \in Actors \ {a} : local'[b] = local[b]
    BY <2>1
  <2>3. /\ Gathered(a).early = local[a].early /\ (Gathered(a).media = "connected") = phy.on
        /\ "speed" \notin local[a].early => Gathered(a).speed = LinkSpeed
        /\ "full" \notin local[a].early => Gathered(a).full = DuplexMode
    BY DEF Gathered
  <2>4. Matches(local[a])'
    BY <2>1, <2>2, <2>3 DEF Matches
  <2>5. pc'[a] = "report" /\ a \notin overtaken'
    BY <1>13 DEF ReadMedia
  <2>6. ASSUME NEW b \in Actors \ {a} PROVE pc'[b] = "report" => b \in overtaken'
    BY <1>13 DEF ReadMedia
  <2> HIDE DEF TypeOK
  <2> QED BY <2>4, <2>5, <2>6
<1>14. ASSUME NEW a \in Actors, Report(a) PROVE ReportsMatch'
  <2>1. /\ pc[a] = "report" /\ pc' = [pc EXCEPT ![a] = "idle"]
        /\ local' = [local EXCEPT ![a] = Empty]
        /\ stale' = (a \in overtaken) /\ overtaken' = overtaken \ {a}
        /\ UNCHANGED <<phy, context, power, latched, saved>>
    BY <1>14 DEF Report, SetLinkState
  <2>2. /\ reported'.media = local[a].media /\ reported'.speed = local[a].speed
        /\ reported'.full = local[a].full /\ reported'.early = local[a].early
    BY <1>14 DEF Report, SetLinkState
  <2>3. \A b \in Actors \ {a} : pc'[b] = pc[b] /\ local'[b] = local[b]
    BY <2>1
  <2>4. pc'[a] = "idle" /\ local'[a] = Empty
    BY <2>1
  <2> HIDE DEF TypeOK
  <2> SUFFICES ASSUME Served', \A b \in Actors : ~Querying(b)'
               PROVE  /\ \A b \in Actors : pc'[b] = "report" /\ b \notin overtaken' => Matches(local[b])'
                      /\ stale' \/ Matches(reported)'
    OBVIOUS
  <2>6. Served /\ \A b \in Actors : ~Querying(b)
    BY <2>1, <2>3, <2>4 DEF Querying
  <2>7. ASSUME NEW b \in Actors, pc'[b] = "report", b \notin overtaken' PROVE Matches(local[b])'
    <3>1. b # a /\ pc[b] = "report" /\ b \notin overtaken
      BY <2>1, <2>3, <2>4, <2>7
    <3>2. Matches(local[b])
      BY <2>6, <3>1
    <3> QED BY <2>1, <2>3, <3>1, <3>2 DEF Matches
  <2>8. a \notin overtaken => Matches(reported)'
    <3>1. a \notin overtaken => Matches(local[a])
      BY <2>1, <2>6
    <3> QED BY <2>1, <2>2, <3>1 DEF Matches
  <2> QED BY <2>1, <2>7, <2>8
<1>15. CASE UNCHANGED vars
  BY <1>15 DEF vars, QueriesApart, Querying, Matches, Gather, Empty
<1> QED BY <1>1, <1>2, <1>3, <1>4, <1>5, <1>6, <1>7, <1>8, <1>9, <1>10, <1>11, <1>12, <1>13, <1>14, <1>15 DEF Next, Query

LEMMA InitInv == Init => IInv
<1> SUFFICES ASSUME Init PROVE IInv
  OBVIOUS
<1>1. QueriesApart
  BY ActorFacts DEF Init, QueriesApart, Querying
<1>2. ~Served
  BY DEF Init, Served
<1> QED BY <1>1, <1>2, InitType DEF IInv, ReportsMatch

LEMMA NextInv == IInv /\ [Next]_vars => IInv'
<1> SUFFICES ASSUME IInv, [Next]_vars PROVE IInv'
  OBVIOUS
<1>1. TypeOK' /\ QueriesApart'
  BY NextType, NextApart DEF IInv
<1>2. (Served => (\A a \in Actors : QueryCurrent(a)) /\ Found)'
  BY NextCurrent DEF IInv
<1>3. ReportsMatch'
  BY NextReports DEF IInv
<1> QED BY <1>1, <1>2, <1>3 DEF IInv

(* Queries exclude one another, what each has read is current or will be   *)
(* read again, and the latest of them is the one that counts.              *)
THEOREM Invariance == Spec => []IInv
BY InitInv, NextInv, PTL DEF Spec

(* Once every change of the link has been served the context agrees with   *)
(* the PHY, however the reads of concurrent queries and the changes fall.  *)
THEOREM ContextSafe == Spec => []ContextCurrent
<1>1. IInv => ContextCurrent
  <2> SUFFICES ASSUME IInv, Settled PROVE ContextCurrent
    BY DEF ContextCurrent
  <2>1. Served /\ \A a \in Actors : pc[a] \notin {"status", "aner", "bmsr", "speed"}
    BY ActorFacts DEF Settled, Served, Pending
  <2>2. (phy.on => SpeedCurrent /\ AutoNegCurrent) /\ (~phy.on => ~LinkAutoNeg)
    BY <2>1 DEF IInv, Found
  <2>3. phy \in States
    BY DEF IInv, TypeOK
  <2>4. CASE phy.on
    BY <2>2, <2>4 DEF SpeedCurrent, AutoNegCurrent, ContextCurrent
  <2>5. CASE ~phy.on
    BY <2>2, <2>3, <2>5, StateFacts DEF ContextCurrent
  <2> QED BY <2>4, <2>5
<1> QED BY <1>1, Invariance, PTL

(* Once every change has been served and reported the framework has been   *)
(* told whether the link is on, in whatever order a build evaluates the    *)
(* arguments of the report, and of the speed and the duplex mode what the  *)
(* latest query found if that order reads them after it, unless an         *)
(* overtaken report came last.                                             *)
THEOREM ReportSafe == Spec => []ReportCurrent
<1>1. IInv => ReportCurrent
  <2> SUFFICES ASSUME IInv, Settled, Idle, ~stale PROVE Matches(reported)
    BY DEF ReportCurrent
  <2>1. Served /\ \A a \in Actors : ~Querying(a) /\ pc[a] # "report"
    BY ActorFacts DEF Settled, Idle, Served, Pending, Querying
  <2> QED BY <2>1 DEF IInv, ReportsMatch
<1> QED BY <1>1, Invariance, PTL
=============================================================================
