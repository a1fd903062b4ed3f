------------------------------- MODULE RtLink -------------------------------
(***************************************************************************)
(* How a change of the link reaches the framework: the link change         *)
(* interrupt, the DPCs that query the PHY under adapter->Lock and report   *)
(* what they found after releasing it, and the queries of device start and *)
(* D0 entry, which run while the interrupt is disabled (link.cpp, phy.cpp, *)
(* power.cpp, device.cpp).  RtInterrupt has the details of ISR and DPC;    *)
(* here a latched flag goes to SavedIsr in one step and a DPC takes it in  *)
(* another.                                                                *)
(*                                                                         *)
(* The PHY works on while it is being read, so a query is cut at every     *)
(* read of PhyStatus and of a PHY register.  Pause functions follow from   *)
(* the configuration alone and are left out.                               *)
(***************************************************************************)
EXTENDS Integers, FiniteSets

CONSTANTS
  Dpcs,          \* the processors on which EvtInterruptDpc may run at once
  Pnp,           \* the thread of the PnP and power callbacks
  NoOne,         \* no holder of adapter->Lock
  UpStates,      \* the states of a link that is on
  SettingSpeed,  \* RtAdapterGetLinkSpeedSetting, 0 to negotiate
  PhyTimeouts,   \* reads of PHY registers may time out
  ArgumentOrders \* which of speed and duplex mode a build reads before it queries

Actors == Dpcs \cup {Pnp}
Down   == [on |-> FALSE, speed |-> 0, full |-> FALSE, autoNeg |-> FALSE]
States == UpStates \cup {Down}

ASSUME ActorsAssumption == Pnp \notin Dpcs /\ NoOne \notin Actors
ASSUME StatesAssumption ==
  UpStates \subseteq [on : {TRUE}, speed : Nat, full : BOOLEAN, autoNeg : BOOLEAN]
ASSUME SettingsAssumption == SettingSpeed \in Nat /\ PhyTimeouts \in BOOLEAN
ASSUME OrdersAssumption   == ArgumentOrders \subseteq SUBSET {"speed", "full"}

VARIABLES
  phy,          \* the state of the link
  latched,      \* LINK_CHG in ISR0
  saved,        \* LINK_CHG in SavedIsr
  power,        \* "released", "low", "starting" (interrupt disabled) or "on"
  LinkAutoNeg, LinkSpeed, DuplexMode,   \* the fields of RT_ADAPTER
  pc,           \* where each actor is in RtAdapterQueryLinkState
  local,        \* what it has gathered
  lock,         \* holder of adapter->Lock
  reported,     \* the link state last given to NetAdapterSetLinkState
  overtaken,    \* actors whose query is older than another's, report to come
  stale         \* the last report was by one of them

history == <<overtaken, stale>>
context == <<LinkAutoNeg, LinkSpeed, DuplexMode>>
vars    == <<phy, latched, saved, power, LinkAutoNeg, LinkSpeed, DuplexMode,
             pc, local, lock, reported, overtaken, stale>>

(* NET_ADAPTER_LINK_STATE, with the media state unknown before any report. *)
(* History: early, which of its members were read before the query.        *)
Unknown == [early |-> {}, media |-> "unknown", speed |-> 0, full |-> FALSE,
            autoNeg |-> FALSE]
Empty   == [early |-> {}, aner |-> FALSE, media |-> "unknown",
            speed |-> 0, full |-> FALSE, autoNeg |-> FALSE]

Init ==
  /\ phy = Down /\ latched = FALSE /\ saved = FALSE
  /\ power = "released"
  /\ LinkAutoNeg = FALSE /\ LinkSpeed = 0 /\ DuplexMode = FALSE
  /\ pc = [a \in Actors |-> "idle"]
  /\ local = [a \in Actors |-> Empty]
  /\ lock = NoOne /\ reported = Unknown
  /\ overtaken = {} /\ stale = FALSE

-----------------------------------------------------------------------------
(* The PHY.  With the device off the change may or may not be latched.     *)
PhyChange(s) ==
  /\ s # phy /\ (s.on => ~phy.on)
  /\ phy' = s
  /\ latched' \in IF power \in {"starting", "on"} THEN {TRUE} ELSE {latched, TRUE}
  /\ UNCHANGED <<saved, power, context, pc, local, lock, reported, history>>

(* EvtInterruptIsr acknowledges the flag, saves it and queues the DPC.     *)
Isr ==
  /\ power = "on" /\ latched
  /\ latched' = FALSE /\ saved' = TRUE
  /\ UNCHANGED <<phy, power, context, pc, local, lock, reported, history>>

-----------------------------------------------------------------------------
(* The callers of RtAdapterQueryLinkState.                                 *)

DpcTake(d) ==
  /\ saved /\ pc[d] = "idle"
  /\ saved' = FALSE
  /\ pc' = [pc EXCEPT ![d] = "lock"]
  /\ UNCHANGED <<phy, latched, power, context, local, lock, reported, history>>

(* The query reads LinkAutoNeg first of all.  LinkSpeed and DuplexMode are *)
(* arguments of the call that has RtAdapterQueryMediaState as another:     *)
(* C++ leaves open which of them are read before it (link.cpp:301-307).    *)
Gather(early) ==
  [Empty EXCEPT !.autoNeg = LinkAutoNeg, !.early = early,
                !.speed = IF "speed" \in early THEN LinkSpeed ELSE 0,
                !.full = IF "full" \in early THEN DuplexMode ELSE FALSE]

(* Mutant: does not take the lock.                                         *)
DpcBeginUnlocked(d) ==
  /\ pc[d] = "lock"
  /\ \E early \in ArgumentOrders : local' = [local EXCEPT ![d] = Gather(early)]
  /\ pc' = [pc EXCEPT ![d] = "status"]
  /\ UNCHANGED <<phy, latched, saved, power, context, lock, reported, history>>

DpcBegin(d) ==
  /\ pc[d] = "lock" /\ lock = NoOne
  /\ lock' = d
  /\ \E early \in ArgumentOrders : local' = [local EXCEPT ![d] = Gather(early)]
  /\ pc' = [pc EXCEPT ![d] = "status"]
  /\ UNCHANGED <<phy, latched, saved, power, context, reported, history>>

(* RtAdapterSetCurrentLinkState, by EvtDevicePrepareHardware.  The resets  *)
(* that precede the query may clear ISR0.                                  *)
PrepareHardware ==
  /\ power = "released"
  /\ power' = "starting"
  /\ latched' \in {latched, FALSE}
  /\ \E early \in ArgumentOrders : local' = [local EXCEPT ![Pnp] = Gather(early)]
  /\ pc' = [pc EXCEPT ![Pnp] = "status"]
  /\ UNCHANGED <<phy, saved, context, lock, reported, history>>

(* EvtDeviceD0Entry from a low-power state, which resets the device too.   *)
EvtDeviceD0Entry ==
  /\ power = "low"
  /\ power' = "starting"
  /\ latched' \in {latched, FALSE}
  /\ \E early \in ArgumentOrders : local' = [local EXCEPT ![Pnp] = Gather(early)]
  /\ pc' = [pc EXCEPT ![Pnp] = "status"]
  /\ UNCHANGED <<phy, saved, context, lock, reported, history>>

(* The interrupt is enabled after D0 entry.                                *)
EvtInterruptEnable ==
  /\ power = "starting" /\ pc[Pnp] = "idle"
  /\ power' = "on"
  /\ UNCHANGED <<phy, latched, saved, context, pc, local, lock, reported, history>>

(* EvtDeviceD0Exit, the interrupt disabled and its DPCs flushed.  To a     *)
(* low-power state it reports an unknown link and acknowledges ISR0.       *)
EvtDeviceD0Exit(target) ==
  /\ power = "on" /\ ~saved /\ \A d \in Dpcs : pc[d] = "idle"
  /\ power' = target
  /\ reported' = IF target = "low" THEN Unknown ELSE reported
  /\ latched' = (latched /\ target # "low")
  /\ UNCHANGED <<phy, saved, context, pc, local, lock, history>>

-----------------------------------------------------------------------------
(* RtAdapterQueryMediaState and RtAdapterCompleteAutoNegotiation.          *)

(* RtAdapterReadPhyUint16: all ones after a time-out.                      *)
PhyReads == {phy.autoNeg} \cup {b \in {TRUE} : PhyTimeouts}

ReadStatus(a) ==
  /\ pc[a] = "status"
  /\ pc' = [pc EXCEPT ![a] = IF phy.on THEN "aner" ELSE "media"]
  /\ LinkAutoNeg' = (LinkAutoNeg /\ phy.on)
  /\ UNCHANGED <<phy, latched, saved, power, LinkSpeed, DuplexMode, local, lock,
                 reported, history>>

ReadAner(a) ==
  /\ pc[a] = "aner"
  /\ \E able \in PhyReads : local' = [local EXCEPT ![a].aner = able]
  /\ pc' = [pc EXCEPT ![a] = "bmsr"]
  /\ UNCHANGED <<phy, latched, saved, power, context, lock, reported, history>>

ReadBmsr(a) ==
  /\ pc[a] = "bmsr"
  /\ \E complete \in PhyReads : LinkAutoNeg' = (local[a].aner /\ complete)
  /\ pc' = [pc EXCEPT ![a] = "speed"]
  /\ UNCHANGED <<phy, latched, saved, power, LinkSpeed, DuplexMode, local, lock,
                 reported, history>>

(* Mutant: the speed of a link that has gone is all ones.                  *)
ReadSpeedOnes(a) ==
  /\ pc[a] = "speed"
  /\ LinkSpeed' = IF phy.on THEN phy.speed ELSE 65535
  /\ DuplexMode' = phy.full
  /\ pc' = [pc EXCEPT ![a] = "media"]
  /\ UNCHANGED <<phy, latched, saved, power, LinkAutoNeg, local, lock, reported,
                 history>>

(* RtAdapterUpdateLinkStatus.  No speed bit is set when the link has gone. *)
ReadSpeed(a) ==
  /\ pc[a] = "speed"
  /\ LinkSpeed' = IF phy.on THEN phy.speed ELSE SettingSpeed
  /\ DuplexMode' = phy.full
  /\ pc' = [pc EXCEPT ![a] = "media"]
  /\ UNCHANGED <<phy, latched, saved, power, LinkAutoNeg, local, lock, reported,
                 history>>

(* Mutant: reports the speed of a query that found none.                   *)
GatheredNoSpeed(a) ==
  [local[a] EXCEPT !.media = IF phy.on THEN "connected" ELSE "disconnected",
                   !.full  = IF "full" \in local[a].early THEN @ ELSE DuplexMode]

(* The link state as it is after the last read of PhyStatus.               *)
Gathered(a) ==
  [local[a] EXCEPT !.media = IF phy.on THEN "connected" ELSE "disconnected",
                   !.speed = IF "speed" \in local[a].early THEN @ ELSE LinkSpeed,
                   !.full  = IF "full" \in local[a].early THEN @ ELSE DuplexMode]

ReadMedia(a) ==
  /\ pc[a] = "media"
  /\ local' = [local EXCEPT ![a] = Gathered(a)]
  /\ lock' = IF lock = a THEN NoOne ELSE lock
  /\ pc' = [pc EXCEPT ![a] = "report"]
  /\ overtaken' = (overtaken \cup {b \in Actors : pc[b] = "report"}) \ {a}
  /\ UNCHANGED <<phy, latched, saved, power, context, reported, stale>>

(* NetAdapterSetLinkState, after the lock has been released.               *)
SetLinkState(a) ==
  /\ pc[a] = "report"
  /\ reported' = [early |-> local[a].early, media |-> local[a].media,
                  speed |-> local[a].speed, full |-> local[a].full,
                  autoNeg |-> local[a].autoNeg]
  /\ stale' = (a \in overtaken) /\ overtaken' = overtaken \ {a}
  /\ local' = [local EXCEPT ![a] = Empty]
  /\ pc' = [pc EXCEPT ![a] = "idle"]

(* Mutant: acknowledges the interrupt when the report is out.              *)
ReportAck(a) ==
  /\ SetLinkState(a)
  /\ latched' = FALSE
  /\ UNCHANGED <<phy, saved, power, context, lock>>

(* Mutant: clears the saved flag when the report is out.                   *)
ReportClears(a) ==
  /\ SetLinkState(a)
  /\ saved' = FALSE
  /\ UNCHANGED <<phy, latched, power, context, lock>>

Report(a) ==
  /\ SetLinkState(a)
  /\ UNCHANGED <<phy, latched, saved, power, context, lock>>

-----------------------------------------------------------------------------
Query(a) ==
  ReadStatus(a) \/ ReadAner(a) \/ ReadBmsr(a) \/ ReadSpeed(a) \/ ReadMedia(a) \/ Report(a)

Next ==
  \/ \E s \in States : PhyChange(s)
  \/ Isr
  \/ \E d \in Dpcs : DpcTake(d) \/ DpcBegin(d)
  \/ PrepareHardware \/ EvtDeviceD0Entry \/ EvtInterruptEnable
  \/ \E t \in {"low", "released"} : EvtDeviceD0Exit(t)
  \/ \E a \in Actors : Query(a)

Spec == Init /\ [][Next]_vars

(* The interrupt is served, a queued DPC runs, a query ends.  A spin lock  *)
(* is not held from a DPC for ever by others that keep releasing it.       *)
FairSpec ==
  /\ Spec
  /\ WF_vars(Isr) /\ WF_vars(\E d \in Dpcs : DpcTake(d))
  /\ \A d \in Dpcs : SF_vars(DpcBegin(d)) /\ WF_vars(Query(d))

-----------------------------------------------------------------------------
(* The speeds the context and the reports may hold.                        *)
Speeds == {0, SettingSpeed} \cup {s.speed : s \in UpStates}

(* Every variable has its type; the speed is one the link or its setting   *)
(* has (RtAdapterUpdateLinkStatus, link.cpp:152-176).                      *)
TypeOK ==
  /\ phy \in States /\ latched \in BOOLEAN /\ saved \in BOOLEAN
  /\ power \in {"released", "low", "starting", "on"}
  /\ LinkAutoNeg \in BOOLEAN /\ LinkSpeed \in Speeds /\ DuplexMode \in BOOLEAN
  /\ pc \in [Actors -> {"idle", "lock", "status", "aner", "bmsr", "speed", "media", "report"}]
  /\ local \in [Actors -> [early : SUBSET {"speed", "full"}, aner : BOOLEAN,
                           media : {"unknown", "connected", "disconnected"},
                           speed : Speeds, full : BOOLEAN, autoNeg : BOOLEAN]]
  /\ lock \in Dpcs \cup {NoOne}
  /\ overtaken \subseteq Actors /\ stale \in BOOLEAN
  /\ reported \in [early : SUBSET {"speed", "full"},
                   media : {"unknown", "connected", "disconnected"},
                   speed : Speeds, full : BOOLEAN, autoNeg : BOOLEAN]

(* No change of the link is on its way to a query.                         *)
Settled ==
  /\ power = "on" /\ ~latched /\ ~saved
  /\ \A a \in Actors : pc[a] \in {"idle", "report"}

Idle == \A a \in Actors : pc[a] = "idle"

(* "Ensure that context link status is up to date" (link.cpp:199): however *)
(* changes of the link fall between the reads of concurrent queries, once  *)
(* every change has been served RT_ADAPTER agrees with the PHY.  A read    *)
(* that timed out may pass for a set flag.                                 *)
ContextCurrent ==
  Settled =>
    /\ phy.on => LinkSpeed = phy.speed /\ DuplexMode = phy.full
    /\ phy.autoNeg => LinkAutoNeg
    /\ LinkAutoNeg => phy.autoNeg \/ (phy.on /\ PhyTimeouts)

(* A link state that is, or is to be, reported is that of the link and of  *)
(* RT_ADAPTER, as far as it was read after the query.                      *)
Matches(r) ==
  /\ (r.media = "connected") = phy.on
  /\ phy.on /\ "speed" \notin r.early => r.speed = LinkSpeed
  /\ phy.on /\ "full" \notin r.early => r.full = DuplexMode

(* Once every change has been served and reported the framework knows      *)
(* whether the link is on, however the compiler orders the arguments of    *)
(* link.cpp:301-307, and has the speed and the duplex mode that the last   *)
(* query found ("Ensure that context link status is up to date",           *)
(* link.cpp:199), each of them unless that order reads it before the query *)
(* does.  The exception is a DPC that was overtaken between its query and  *)
(* its report: the reports follow the release of the lock                  *)
(* (link.cpp:217-219), so that the older one may be the last.              *)
ReportCurrent == Settled /\ Idle /\ ~stale => Matches(reported)

(* The flags reported say whether the link was negotiated ("If both 1)     *)
(* the partner supports link auto-negotiation, and 2) auto-negotiation is  *)
(* complete, then the Link is auto negotiated", link.cpp:193-194).         *)
FlagsCurrent == Settled /\ Idle /\ ~stale => reported.autoNeg = LinkAutoNeg

(* What the properties above rest on.  Between its first read of PhyStatus *)
(* and the last one an actor is querying.                                  *)
Querying(a) == pc[a] \in {"status", "aner", "bmsr", "speed", "media"}

(* The lock and the order of power callbacks keep the queries apart.       *)
QueriesApart ==
  /\ \A d \in Dpcs : Querying(d) = (lock = d)
  /\ pc[Pnp] # "lock" /\ (power # "starting" => pc[Pnp] = "idle")
  /\ power # "on" => ~saved /\ \A d \in Dpcs : pc[d] = "idle"

(* A change of the link that no query has begun to look for.               *)
Pending == latched \/ saved \/ \E d \in Dpcs : pc[d] = "lock"
Served  == power \in {"starting", "on"} /\ ~Pending

AutoNegCurrent == (phy.autoNeg => LinkAutoNeg) /\ (LinkAutoNeg => phy.autoNeg \/ PhyTimeouts)
SpeedCurrent   == LinkSpeed = phy.speed /\ DuplexMode = phy.full

(* What a query has found so far still holds, or another is to come.       *)
QueryCurrent(a) ==
  /\ pc[a] \in {"aner", "bmsr", "speed"} => phy.on
  /\ pc[a] = "bmsr" => /\ phy.autoNeg => local[a].aner
                       /\ local[a].aner => phy.autoNeg \/ PhyTimeouts
  /\ pc[a] = "speed" => AutoNegCurrent

Found ==
  (\A a \in Actors : pc[a] \notin {"status", "aner", "bmsr", "speed"}) =>
    /\ phy.on => SpeedCurrent /\ AutoNegCurrent
    /\ ~phy.on => ~LinkAutoNeg

(* The latest query is reported, or its report is to come.                 *)
ReportsMatch ==
  Served /\ (\A a \in Actors : ~Querying(a)) =>
    /\ \A a \in Actors : pc[a] = "report" /\ a \notin overtaken => Matches(local[a])
    /\ (\A a \in Actors : pc[a] = "report" => a \in overtaken) => stale \/ Matches(reported)

(* Queries exclude one another, what each has read is current or will be   *)
(* read again, and the latest of them is the one that counts               *)
(* (link.cpp:192-219, :293-318).                                           *)
IInv ==
  /\ TypeOK /\ QueriesApart /\ ReportsMatch
  /\ Served => (\A a \in Actors : QueryCurrent(a)) /\ Found

(* A link that is on is eventually reported as connected, and one that is  *)
(* off is not, unless the device is powered down or an overtaken report    *)
(* comes last.                                                             *)
LinkReported ==
  (power = "on" /\ (reported.media = "connected") # phy.on)
    ~> (power # "on" \/ stale \/ (reported.media = "connected") = phy.on)
=============================================================================
