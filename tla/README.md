# A verification project for RtEthSample

RtEthSample (`src/RtEthSample`) is a NetAdapterCx driver for the Realtek
RTL8168D family of gigabit Ethernet controllers.  It runs between two parties
that are not in the repository: the *framework* (NetAdapterCx and WDF), which
calls the driver, and the *device*, which reads and writes the memory the
driver shares with it.  This project models the parts of the driver in which
those three meet, checks the models with TLC on small instances, and proves
the central facts with TLAPS for all instances.

The reference is the source.  Framework and device are modelled only from how
the source uses them; every assumption made about them is listed below.

## 1. The system: parts, state, operations

| Part | Files | State | Operations |
|---|---|---|---|
| Interrupt and notification path | `interrupt.cpp`, `interrupt.h` | `RxNotifyArmed[]`, `TxNotifyArmed`, `SavedIsr`; the registers ISR0..3 and IMR0..3 | `EvtInterruptIsr`, `EvtInterruptDpc`, `RtUpdateImr`, `EvtInterruptEnable`, `EvtInterruptDisable` |
| Transmit queue | `txqueue.cpp` | descriptor ring `TxdBase`, `TxDescIndex`, one `RT_TCB` per packet, `adapter->TxQueue`, `CR_TE` | `EvtTxQueueAdvance`, `Start`, `Stop`, `Cancel`, `SetNotificationEnabled`, `Destroy` |
| Receive queues (up to 4) | `rxqueue.cpp` | descriptor ring `RxdBase`, `adapter->RxQueues[]`, `CR_RE`, `RCR` | the same six callbacks |
| Ring iterators | `netringiterator.h` | `BeginIndex`, `NextIndex`, `EndIndex` of the framework's rings | get, advance, set |
| Link and PHY | `link.cpp`, `phy.cpp` | `LinkSpeed`, `DuplexMode`, `LinkAutoNeg`; PHY registers behind one access register | `RtAdapterNotifyLinkChange`, `RtAdapterQueryLinkState`, `RtAdapterPushPhySettings`, `RtAdapterResetPhy` |
| Adapter settings | `adapter.cpp` | `PacketFilter`, `MCList`, `CurrentAddress`, offload and moderation settings; RCR, MAR, CPCR, IntMiti | `EvtSetPacketFilter`, `EvtSetMulticastList`, offload and moderation updates, `RtAdapterIssueFullReset` |
| Power transitions | `power.cpp` | `CONFIG3_Magic`, the registers of the PHY | `EvtDeviceD0Entry`, `EvtDeviceD0Exit`, arm and disarm wake |
| Device start and release | `device.cpp` | `CSRAddress`, `DmaEnabler` | `EvtDevicePrepareHardware`, `EvtDeviceReleaseHardware` |
| Driver entry, device creation | `driver.cpp` | the context of each device object | `DriverEntry`, `EvtDriverDeviceAdd` |
| Receive side scaling, GigaMac | `adapter.cpp`, `gigamac.cpp` | `RssIndirectionTable` (two bit planes), polled register window | enable, disable, set key, set entries |
| EEPROM | `eeprom.cpp` | bit-banged serial lines, `EEPROMInUse` | read identity, read address |
| Configuration | `configuration.cpp` | the settings read from the registry | `RtAdapterReadConfiguration` |
| Offloads | `txqueue.cpp`, `rxqueue.cpp`, `adapter.cpp` | per-packet extensions | descriptor fields, checksum results |
| Statistics, tracing | several | counters nothing reads back | |

How they interact:

* *Interlocked words.*  Queue threads set `RxNotifyArmed[q]`/`TxNotifyArmed`,
  the DPC exchanges them to false, and the ISR reads them to compute the masks.
  The ISR ORs flags into `SavedIsr` and the DPC exchanges it with 0.
* *The interrupt lock* is held by the ISR from entry to exit and by
  `RtUpdateImr`; it does not exclude the DPC or the Interlocked operations.
* *`adapter->Lock`* is held by queue start, by the first half of a receive
  cancel, by the whole of a queue stop (including the flush of the DPCs), by
  the link query of the DPC, by the filter and multicast callbacks, and by
  each GigaMac write; not by the offload callbacks, which change CPCR.
* *`KeFlushQueuedDpcs`* is the only barrier between a disarm or stop and the DPC.
* *Descriptor memory* is shared with the device; the ownership bit is the only
  synchronisation, written last, after a memory barrier.
* *Registers shared by several actors*: IMR0 (receive queue 0, the transmit
  queue and the link), `CmdReg` (all queues), RCR (all queues and the filter),
  `CR9346` (the lock of the configuration registers and the pins of the
  EEPROM), `ERIData` and `ERIAccess` (receive scaling and queue starts).

### What is hard, and what makes each part correct

* Notification path: the ISR on one processor, DPCs on others, queue threads
  on others still, and a device that latches flags at any moment.  Correct
  means: no wake-up lost, no notification with a null handle, none after a
  disarm has returned, no interrupt left enabled for a queue that is gone,
  link changes never masked for good, no deadlock.
* Transmit path: driver and device walk the same ring with separate indices.
  Correct means: frames are whole packets in order, none is completed before
  it is sent, no descriptor or buffer is reused early, none is left behind.
* Receive path: the same with the roles exchanged, plus cancellation, which
  takes back buffers the device still owns, and restart.
* Link: several reports may be in flight; a report mixes settings and
  registers read at different moments.
* Settings and power: registers are written by several callbacks and wiped by
  a reset; after each transition they must again agree with the settings.
* Device start: settings of an earlier start survive in the context; every
  step may fail; the station address passes from registry or EEPROM through
  the context into registers that resets reload.
* Polled protocols (PHY, GigaMac): an access that timed out may still happen
  later, after the next one has begun.
* Receive scaling: a table of two bit planes, updated in part, written word by
  word under the device's eyes.

`PROJECT.json` lists every hazard with its line and the properties aimed at it.

## 2. Modules

| Module | What it is |
|---|---|
| `RtInterrupt` | the notification path, with the start, arm, disarm, cancel and stop of all queues |
| `RtInterruptProofs` | its inductive invariant and theorems |
| `MCRtInterrupt` | instances: which flags the device raises, which queues are stopped |
| `RtTxService` | what a transmit queue promises, in three actions |
| `RtTxRing` | `EvtTxQueueAdvance` and the device on a descriptor ring; implements `RtTxService` |
| `RtTxRingProofs` | its inductive invariant, theorems and the refinement, proved |
| `MCRtTxRing` | instances, and the view that hides dead data |
| `RtRxService` | what a receive queue promises, in four actions |
| `RtRxRing` | `EvtRxQueueAdvance`, `EvtRxQueueCancel` and the device; implements `RtRxService` |
| `RtRxRingProofs` | its inductive invariant, theorems and the refinement, proved |
| `MCRtRxRing` | instances |
| `RtLink` | link change to link report: interrupt, DPC queries of the PHY, the queries of device start and D0 entry |
| `RtLinkProofs` | its inductive invariant and theorems |
| `MCRtLink` | instances: in how many ways the link can be up |
| `RtSettings` | filter, multicast list, offloads and moderation against the registers, through queue starts, resets and power transitions |
| `RtSettingsProofs` | its invariants and theorems |
| `MCRtSettings` | an instance: filters, addresses, what a reset may take back |
| `RtOffload` | on top of `RtSettings`: what received frames are said to be verified for, and what transmit descriptors ask for |
| `RtOffloadProofs` | on top of `RtSettingsProofs`: its invariants and theorems |
| `MCRtOffload` | an instance: chips, frames, packets |
| `RtEeprom` | the serial EEPROM and the driver's bit-banged reads, as operators |
| `RtStart` | uses `RtEeprom`: the life of a device object: configuration, start with its failures, station address, PHY settings, power, wake, release, restart |
| `RtStartProofs` | its inductive invariant, and what follows from it |
| `MCRtStart` | an instance: four boards, registry settings, requested addresses |
| `RtRss` | on top of `RtStart`: receive side scaling and the GigaMac window |
| `RtRssProofs` | on top of `RtStartProofs`: the invariant of the device with receive scaling, and the theorems of both |
| `MCRtRss` | an instance: a table of four entries, a key of two words |

Definitions named in the middle of a module and commented "Mutant" are
variants of the definition that follows them with one plausible mistake; no
specification uses them.  Each property is checked to fail on one of them.

### RtInterrupt

State and code: `isr`, `imr` are the four pairs of registers as sets of flags;
`saved` is `SavedIsr`; `armed` the armed words; `handle` says that
`RxQueues[q]`/`TxQueue` is not null; `pending`, `dpcPc`, `dpcTodo`, `dpcClaim`
are the queued DPC and the locals of each running activation; `tpc` is where a
queue thread is inside `RtXxQueueSetInterrupt`; `flushWait` is the set of
activations its `KeFlushQueuedDpcs` waits for; `lock` is the holder of
`adapter->Lock`; `cr` are the enable bits all queues share.  `off[q]` is a history variable: the last disarm or stop of q has
returned and no arm has begun since.

Grain.  The ISR is three steps: read the status registers; acknowledge them
and OR them into `SavedIsr`; compute and write the masks and queue the DPC.
The four reads are one step because every flag lives in one register and a
flag latched between two reads is the same as one latched before or after
both.  The acknowledgement and the OR are one step because the flags between
them are visible to nobody else: the DPC looks at `SavedIsr` only, the device
at ISR only.  The masks are computed from all armed words in one step: the
words of different queues affect disjoint flags, and a queue thread that
changes its word afterwards rewrites the register under the interrupt lock.
The DPC's dequeue, its exchange of `SavedIsr`, each exchange of an armed word
and the notification that follows are separate steps, since each of them can
fall on either side of what ISR and threads do.  `RtUpdateImr` is one step
that waits for the ISR to return: both hold the interrupt lock.

`Start`, `Cancel` and `StopBegin` of the two kinds of queue are one action
each, with the register effects of each kind; `FlushReturn` is the return of
`KeFlushQueuedDpcs` and what the caller does next.  `CountIsOne` is the `bool
count` of `EvtRxQueueStop`, which is 1 as soon as there is any queue.

### RtTxRing and RtTxService

The indices, packets, TCBs and descriptors are those of the code;
`pc`, `pi`, `programmed` are the place and the locals of the running
`EvtTxQueueAdvance`.  The driver is cut at each access to memory the device
shares: fields of a descriptor, its status, the poll register, the status of
the first descriptor of a packet.  The device (`HwFetch`) takes the descriptor
at its own index if it owns it, goes back to 0 after an end-of-ring flag,
sends a frame at a last-segment flag, and clears the poll request when it
finds nothing (`HwIdle`).  `sent` and `garbled` are history.

`WriteBack` is the one thing the driver depends on and the source does not
say: whether the device hands the descriptors of a packet back together
("packet") or each when its buffer has been read ("descriptor").

`RtTxService` is the promise: packets are transmitted in order, once, whole,
and returned in order when transmitted or ignored.  `Implements` maps the
packets from `BeginIndex` to `EndIndex` to the abstract sequence.

### RtRxRing and RtRxService

Descriptor i stands for fragment i, as in the code.  `fresh` says that a
descriptor holds the address of the buffer now at its index, `landed` is the
history of the fragments the device has filled and the driver not yet handed
back.  Cancel is two actions: the register writes, and the taking back, which
waits for nothing.  In between and after, the device may go on filling the
descriptors it owns (`receiver = "draining"`) until it comes to rest, when it
likes; until the taking back (`Holding`) that fills buffers of the ring.  A
cancel that finds buffers provided and not posted leaves NextIndex behind
EndIndex, as the code does; the queue is then `"stranded"`, and an Advance
before its stop drains from EndIndex round to NextIndex.

### RtLink

State and code: `phy` is what PhyStatus and the PHY registers show; `latched`
and `saved` are LINK_CHG in ISR0 and in `SavedIsr`; `LinkAutoNeg`, `LinkSpeed`,
`DuplexMode` are the fields of `RT_ADAPTER`; `pc` and `local` are where each
processor is in `RtAdapterQueryLinkState` and what it has gathered; `lock` is
`adapter->Lock`; `reported` is the last argument of `NetAdapterSetLinkState`.
`RtInterrupt` has the masks and the notification side of the same ISR and DPC.

Grain.  The PHY changes at any time, so a query is cut at each read of
PhyStatus and each PHY register; a register read that times out gives all
ones, as `RtAdapterReadPhyUint16` does.  The lock is held from `DpcBegin` to
`ReadMedia`; the report follows its release.  `LinkSpeed` and `DuplexMode` are
arguments of the call that has `RtAdapterQueryMediaState` as another argument;
C++ leaves their order open, and `ArgumentOrders` is the set of possible sets
of those that a build reads before the query; a report remembers in `early`
which of its members are older than its query.  `overtaken` and `stale` are
history: an actor is overtaken when another one has queried after it and before
its report, and the last report is stale when it came from such an actor.
The queries of `EvtDevicePrepareHardware` and
`EvtDeviceD0Entry` run with the interrupt disabled and without the lock; the
resets before them may clear ISR0.

### RtSettings

State and code: `regs` is a record of the registers concerned (RCR, MAR, the
bits of CPCR, the moderation timers, `CR_RE`); `PacketFilter`, `MCList` and
`offloads` are the fields of `RT_ADAPTER`, `moderation` what the registry
said; `power` the power state.  Every function of the driver that writes these
registers is an operator from registers to registers with the driver's name,
and every callback is one action that composes them in the code's order: the
callbacks hold `adapter->Lock`, the power callbacks are serialised with them.
The offload callbacks take no lock: `EvtAdapterOffloadSet` changes the flags,
`EvtAdapterOffloadUpdate` rewrites CPCR, and `updating` is the time between.
`told` is history: filter or list has been set since `NetAdapterStart`; so are
`opened`, a queue was started and none cancelled or stopped since, and `wiped`,
the settings that a reset of D0 entry took back and nothing has written since.
`ResetDefaults` is the set of registers that a full reset may return to their
defaults, which the source does not say: each reset takes any part of it.  A
low-power state may or may not lose the registers.  The queue callbacks here are the register half of those
of `RtInterrupt`, whose flush and notification side is left out.

### RtOffload

It extends `RtSettings` by one received frame or one packet to transmit at a
time: `rx` is the frame in a descriptor, with whether CPCR had the device
verify it when it landed; `evaluation` is the checksum extension of its slot;
`tx` is the packet in the ring and then its descriptor.  A descriptor word is
the set of its bits that are one, so that fields that run into each other show.
The settings change around them by the actions of `RtSettings`, at any moment;
`Drained` is all that is asked of the framework: frames are back before their
queue stops, packets are gone before the device is powered down.  `rx.due`,
`rx.clean`, `rx.enabled` and `tx.kept` are history: what was programmed, and
what the slot said, when the frame landed; what was enabled when it was
indicated; whether the offloads of a packet are still on as it is posted.  `Marks` is the device's side: each chip
has its fail flags where the driver's two functions look for them.

### RtEeprom

A bus is a record of the bits in CR9346, the words of the chip and the bits
the chip has heard since its start bit.  `WriteCr` is the chip (external): it
listens when it is selected in programming mode, takes a bit at each rising
edge, and after a read command answers bit by bit.  The driver's functions are
operators from bus to bus, one write of CR9346 after the other.

### RtStart

State and code: `adapter` has the fields of `RT_ADAPTER` concerned (the
keywords, the three address fields, `EEPROMSupported`, whether `CSRAddress` is
mapped); `nic` the registers (ID, CR9346, the magic bit of CONFIG3) and the
PHY (what it advertises, what it last negotiated with); `power` the state of
the device object.  `board` is the board the device sits on; it never changes,
and carries what the two EEPROM functions return on it, for each operating mode
they may find: the reads of `RtEeprom` are computed once, with the initial
state.  `given`, `overrides`, `raised` are history.

Grain.  The framework serialises these callbacks and nobody else writes these
registers, so each callback is one step, composed of operators with the
driver's names.  `RtInitializeHardware` has an outcome for each place at which
it can fail.  What the device does at a reset or in low power is chosen
freely within what the assumptions below say.

### RtRss

It extends `RtStart`: `Next` of `RtStart` is one of its actions, so that
starts, resets, failures and sleep interleave with receive scaling.  `shadow`
is `adapter->RssIndirectionTable`, `table` the registers; `eri` is the window
and `giga` what is behind it; `call` is what the two threads are doing that
use it.  A call is cut at each word of the table and, in `GigaMacWrite`, at
the writes of `ERIData` and `ERIAccess` and at the end of the polls, because
the device works on the window whenever it likes, also after a time-out.
`steer` (what the framework told each index), `synced` and `promised` are
history.

## 3. What is assumed of framework and device

1. Callbacks of one queue are serialised; callbacks of different queues are not.
2. A queue is cancelled before it is stopped, and a transmit queue is stopped
   only when it has been drained.
3. Receive queues are started, cancelled and stopped each by itself.
4. The interrupt is disabled only when all queues have been stopped, and
   enabled only when earlier DPCs have ended.
5. A ring of N elements holds at most N - 1; sizes are powers of two.
6. A receive queue is started with its rings empty and at index 0.  It is
   cancelled between two Advance calls, whatever is posted, and the framework
   may go on advancing it until the stop.
7. A surprise removal makes the whole of ISR0 read as ones; a removal between
   two of the four reads is not modelled.
8. In `RtSettings`, settings may change while the device is in a low-power
   state; the writes are then lost.  The property `MulticastProgrammed` speaks
   of the time after the first filter or list of a start.
9. The DPCs have ended before D0 exit; the link passes through off between
   two ways of being on, and every change latches LINK_CHG while the device
   has power.
10. In the run `link` the build evaluates `LinkSpeed` and `DuplexMode` after
   the query (`InOrder`), which C++ does not promise; the model and the proofs
   have every order.
11. One offload callback runs at a time, and none during a power callback
   (`power.cpp:97` calls power transitions serialized); otherwise they run at
   any moment.  The framework asks an offload only of packets it builds while
   the offload is on, and a layer 4 checksum only of packets whose layer 3 is
   IPv4 or IPv6 (`MayAsk`); the driver programs nothing for any other.  It may
   clear the checksum extension of a slot it posts again, or not.
12. A frame is back from a receive queue before the queue stops, and a packet
   from the transmit queue before the device is powered down (`Drained`).
13. A reset of the MAC may reload ID with the factory address or leave it, and
   leaves CONFIG3 and the PHY alone.  The magic bit is off at power-up.  A
   device armed for a magic packet keeps its registers while it sleeps; any
   other may lose them, and its PHY may be powered down.  The board's EEPROM,
   if it is one the driver knows, holds the factory address.
14. After a failed prepare the device is released and removed; a device that
   failed is not armed or put to sleep.  A DMA enabler of an earlier start is
   left behind, as the code leaves it.
15. Closing a configuration handle that is garbage from the stack stops the
   machine (`power = "bugcheck"`), one that happens to be zero does nothing
   (`configuration.cpp:73-180`).
16. A write of `ERIAccess` replaces an access the device has not got to; the
   device then writes what `ERIData` holds.  Receive scaling calls are made one
   at a time, on a device that is on; whatever changes power or the context
   falls between calls, and table and GigaMac registers then count as lost.
17. PHY accesses of the settings (`RtStart`) do not time out; those of the link
   queries (`RtLink`) do.

## 4. Runs

| Run | Instance | Shows |
|---|---|---|
| `interrupt` | 2 receive queues in two registers, of which one is armed, disarmed, stopped and restarted, and the transmit queue; 2 processors (symmetric), a shared line, an unexpected flag | `TypeOK` (in particular what `SavedIsr` may hold), `NotifyHasHandle`, `QuietAfterDisable`, `NoLostWakeup`, `IdleMasked` and the inductive invariant `IInv` |
| `interrupt_live` | fairness, 1 processor, link changes, arms, and disarms of the transmit queue in the register it shares, no stops | `WakeupDelivered`, `LinkServed`, `FlushReturns`; `IInv` again |
| `interrupt_flush_deadlock` | the same with stops | violation of `FlushReturns`: finding 1 |
| `receiver_count` | 2 receive queues, no events | violation of `StopLeavesOthers`: finding 5 |
| `tx_ring` | 4 packets, 4 descriptors, at most 2 fragments a packet, "packet"; fairness | the inductive `IInv`, data safety, refinement of `RtTxService`, `PacketsReturn` |
| `tx_first_fragment` | the same with "descriptor" | violation of `CompletedWasSent`: finding 2 |
| `rx_ring` | 8 packets over 4 buffers, whose indices wrap at different times, cancels at any moment; fairness | the inductive `IInv`, data safety, alignment, refinement of `RtRxService`, `FramesIndicated` |
| `link` | 2 processors, two ways up, PHY reads that time out, power transitions, fairness | the inductive `IInv`, `ContextCurrent`, `ReportCurrent`, `LinkReported`: reads of one query straddle changes, two DPCs queue for the lock and overtake each other |
| `link_flags` | 1 processor | violation of `FlagsCurrent`: finding 3 |
| `settings` | 2 receive queues (symmetric), 3 filters, 1 address, 2 offload settings; a reset may take MAR and CPCR back; the RTL8168E, 2 faulty frames, 5 packets | `FilterProgrammed`, `MulticastProgrammed`, `CpcrProgrammed`, `ReceiverOff`, the inductive `IInv`; `EvaluationRight`, `TxOffloadRight` |
| `device` | 4 boards (EEPROM, none, empty, unknown), 2 registries, 2 requested addresses; 3 receive scaling calls or queue starts per device object, a table of 4 entries in 2 x 2 words, a key of 2 words | `StationAddress`, `WakeArmed`, `PhyProgrammed`, `TableSteers`, `ReportedWritten` |
| `start_address` | the same boards, 3 requested addresses, no receive scaling | violation of `StationAddressValid`: finding 4 |

Why the bounds are enough.  The notification path has no counters: its state
is one bit per queue and flag, so the interesting cases need two sources in
one register (a queue thread overwriting another's mask), two registers (a
register the ISR skips), and two processors (a DPC that runs while another
activation is queued or running).  The rings are cyclic: four elements give
empty, full and every position of a two-fragment packet across the wrap, and
runs are unbounded in the number of packets, restarts and cancels.  There is
no state constraint in any run.  In `device` starts, sleeps and restarts are
unbounded in number; `MaxCalls` = 3 lets two calls overlap and a third follow
what they left.  Two words per plane and two bits per word give indices in the
same word, in different words of a plane, and in both planes.  The two
registries hold a value above the greatest, absent ones, the gap in the speed
modes, and receive scaling on and off; the requested addresses a valid and a
multicast one.  The EEPROM is read bit by bit at its full size.  In `settings`
the address is in the list or not, and its bit is the last of MAR, so that a
bit left by an earlier list or filter shows; between them the two frames have
every fault, on a layer that is evaluated and on one that is not; the packets
need both layers, layer 4 with an offset that takes more than nine bits, a
large send on either side of 128 bytes of headers, and nothing.  The timers and
RCR, which a reset may take back as well, and the chips that report all
failures in one word, are left to the proofs.  In
`interrupt` one queue is stopped: two would exceed the time of a run, and the
stop of the transmit queue, in the shared register, is in the proofs and in
`interrupt_flush_deadlock`.

`tx_ring` uses a VIEW (`LiveData`): packets and TCBs of slots
that have been handed back and the contents of free descriptors are not read
by any action before they are written, nor by any property, so states that
differ only there are the same.

### Fairness

`RtInterrupt!Fairness`: the ISR runs while the line is asserted and, once
entered, returns; a queued DPC runs, and ends, on some processor; a thread in
`RtXxQueueSetInterrupt` gets the interrupt lock and a flush whose DPCs have
ended returns; a DPC that spins on `adapter->Lock` gets it if it is free
again and again.  All of it is the scheduler's and the kernel locks' promise.
Nothing is assumed of the device (it need not raise a flag) or the framework
(it need not call).  `RtTxRing!FairSpec`: the framework goes on calling
`EvtTxQueueAdvance` while packets are outstanding (it polls, or is notified,
which the notification path guarantees), the call ends, and a device asked to
poll fetches.  `RtRxRing!FairSpec`: the framework goes on advancing the queue,
and the call ends; no frame need ever arrive, nor a disabled receiver come to
rest.  `RtLink!FairSpec`: the interrupt is
served, a queued DPC runs, a query ends (the polls of the PHY are bounded),
and a DPC is not refused `adapter->Lock` for ever by DPCs that keep releasing
it.  The link need not change and the device need not be powered up.
`RtSettings`, `RtOffload`, `RtStart` and `RtRss` state no fairness: the polls
of a GigaMac write are bounded, and what is left to happen is the framework's
choice.

## 5. What the checks found

1. *Stop can deadlock with a link change.*  `EvtTxQueueStop` and
   `EvtRxQueueStop` hold `adapter->Lock` while `KeFlushQueuedDpcs` waits for
   the running DPC; the DPC may be spinning on the same lock in
   `RtAdapterNotifyLinkChange` (`link.cpp:213`).  Run `interrupt_flush_deadlock`.
2. *Completion looks at the first fragment.*  The comment at
   `txqueue.cpp:292` says "the last fragment in the packet"; line 290 takes
   `FirstTxDescIdx`.  Harmless if the device hands a packet's descriptors back
   together, a lost buffer if not.  Run `tx_first_fragment`.
3. *Auto-negotiation flags are those of the query before.*  They are computed
   from `LinkAutoNeg` at `link.cpp:269`, which the call at line 304 refreshes.
   A link that comes up after a query that found it off is reported as not
   negotiated, and nothing corrects it.  Run `link_flags`.
4. *An invalid network address may be used.*  `RtAdapterReadConfiguration`
   reads it into `CurrentAddress` before it checks it, and relies on
   `RtAdapterReadAddress` to replace it; that function does so unless
   `OverrideAddress` is set, which a valid address of an earlier start has set
   and nothing clears (`configuration.cpp:149-168`, `adapter.cpp:525`).  A
   device restarted with, say, a multicast address then listens to it.  Run
   `start_address`.
5. *Stopping one receive queue turns the receiver off under the others.*
   `EvtRxQueueStop` counts the started queues in a `bool`
   (`rxqueue.cpp:428-435`), so that "if (1 == count)" (line 437) is true
   whenever there is any, and clears `CR_RE` for all of them; nothing sets it
   again before the next queue start.  Run `receiver_count`.

Speed and duplex mode may be those of the query before, if the compiler
evaluates them before the query they are arguments beside (`link.cpp:301-307`).
`ReportCurrent` claims each of them only if the build does not, and the media
state in any build.

`ReportCurrent` and `LinkReported` say nothing while the last report is stale:
a DPC may report after another one that queried later, because the report
follows the release of the lock (`link.cpp:217-219`).  The source promises
nothing about that order, so it is recorded as a hazard and not as a finding.

SpeedDuplex 5 passes the range check and is no mode: the device then
advertises no speed at all.  `PhyProgrammed` excepts it.

A start of a queue whose GigaMac write timed out goes on
(`rxqueue.cpp:402`); `ReportedWritten` is about calls that report success.

`TableSteers` is about the time after the first receive scaling call since the
device could lose its table: nothing in the driver writes table, key or
control register again after a reset or a sleep.

D0 entry programs CPCR and the timers (`power.cpp:83-84`) before the full
resets of `RtAdapterRaiseToD0`, and not after them.  `adapter.cpp:548` calls a
reset "NIC hardware register to default", but does not say which registers.
The model has it both ways.  `CpcrProgrammed` says what then follows, exactly: a
setting that a reset of D0 entry took back is at its default, the checksum
until the next offload callback, the moderation until the next D0 entry; every
other is as the framework or the registry asked.  If the reset takes CPCR, a
device that comes back from low power verifies no checksum while the driver
calls frames valid: a frame is promised its verification (`rx.due` in
`EvaluationRight`) only where this has not happened.

The offload callbacks fall where they like.  A frame that landed before the
offload was programmed is called valid without having been verified, one whose
slot was not cleared keeps what it said in a layer that is not evaluated, and a
packet whose offload was turned off under it goes out without the checksum it
needs.  `EvaluationRight` and `TxOffloadRight` except exactly these; whether
they can happen is a matter of when the framework calls, which is not in the
source.

A large send whose headers are 128 bytes or longer gets a descriptor whose
offset has run into the flag of IPv6 large sends and lost its top bit:
`adapter.cpp:170` announces IPv6 extension headers, `txqueue.cpp:89` checks
nothing.  `TxOffloadRight` excepts it from what it says of the offset and of
that flag, and the run has such a packet.

A receive cancel waits for nothing (`rxqueue.cpp:507-529`).  After it the device
may fill buffers that the framework has back, and an Advance after a cancel that
found buffers unposted hands on fragments that are not the queue's any more.
`BuffersHeld` speaks of the time before the hand-back, `IndicatedWasReceived`
excepts that Advance.

## 6. Proofs

Every safety invariant that a passing run checks is also a theorem, for every
value of the constants that the assumptions of its module allow, and so are
the two refinements.  A theorem with a further hypothesis says so below.  In
each case the argument is an inductive invariant, which a run checks on its
instance as well, where the module has one named `IInv`.

| Theorem | States | Hypothesis beyond the module's assumptions |
|---|---|---|
| `RtInterruptProofs!Invariance`, `TypeCorrect` | `IInv`, `TypeOK` | |
| `NotifySafe`, `QuietSafe`, `WakeupSafe`, `IdleSafe` | `NotifyHasHandle`, `QuietAfterDisable`, `NoLostWakeup`, `IdleMasked` | |
| `RtTxRingProofs!TxInvariance`, `TxTypeCorrect` | `IInv`, `TypeOK` | `WriteBack = "packet"` |
| `CompletedSafe`, `PostSafe`, `HeldSafe`, `FrameSafe` | `CompletedWasSent`, `PostsToFree`, `BuffersHeld`, `FramesWhole` | `WriteBack = "packet"` |
| `DoorbellSafe` | `Doorbell`, a part of `IInv` | `WriteBack = "packet"` |
| `TxImplements` | `Implements` | `WriteBack = "packet"` |
| `RtRxRingProofs!RxInvariance`, `RxTypeCorrect` | `IInv`, `TypeOK` | |
| `IndicateSafe`, `HeldSafe`, `AlignedSafe` | `IndicatedWasReceived`, `BuffersHeld`, `Aligned` | |
| `RxImplements` | `Implements` | |
| `RtLinkProofs!Invariance`, `TypeCorrect` | `IInv`, `TypeOK` | |
| `ContextSafe` | `ContextCurrent` | |
| `ReportSafe` | `ReportCurrent` | |
| `RtSettingsProofs!Invariance`, `TypeCorrect` | `IInv`, `TypeOK` | |
| `FilterSafe`, `ReceiverOffSafe`, `MulticastSafe` | `FilterProgrammed`, `ReceiverOff`, `MulticastProgrammed` | |
| `CpcrSafe` | `CpcrProgrammed` | |
| `RtOffloadProofs!TxOffloadSafe` | `TxOffloadRight` | |
| `EvaluationSafe` | `EvaluationRight` | |
| `RtStartProofs!StartInvariance` | its `IInv` | |
| `RtRssProofs!RssInvariance` | its `RssIInv` | |
| `ReportedSafe`, `SteerSafe`, `WakeSafe`, `PhySafe` | `ReportedWritten`, `TableSteers`, `WakeArmed`, `PhyProgrammed` | |
| `AddressSafe`, `RssTypeCorrect` | `StationAddress`, `TypeOK` | `EepromRight` |

The module's name is given with its first theorem.  `WriteBack = "packet"` is
not there to help a proof: with "descriptor" TLC finds the property violated
(finding 2).  `EepromRight` is true of every instance, see below.

### RtInterrupt

For any number of receive queues and processors, any set of raised flags, any
stoppable queues, shared line or not.  None of the properties is inductive.
`NoLostWakeup` must know that while the ISR is between saving and masking, the
flags it is about to mask are carried by `SavedIsr` or a DPC, for every queue
that was armed (last conjunct of `QueueInv`).  `QuietAfterDisable` and
`NotifyHasHandle` need that a thread waiting in its flush has in `flushWait`
every DPC that has claimed its queue (last conjunct of `DpcInv`): a DPC can
only claim an armed queue, a disarmed queue cannot be claimed any more, so the
set can only shrink.  `IdleMasked` needs that from the rewrite of the mask on,
a disarming thread's flags stay clear, because the ISR computes the masks from
the armed words and those are false.  `IInv` collects these.

### RtTxRing

For rings of any two sizes and packets of any number of fragments that fit.
The indices say nothing by themselves, since all of them wrap, and the
descriptor ring does not begin where the fragment ring does.  `IInv` therefore
counts: packets from `BeginIndex` (`Pos`), fragments from the first of the
oldest packet not completed (`Offset`), descriptors from the one that stands
for that fragment (`DescBegin`, `At`).  Counted so, nothing wraps: the
fragments of live packets lie one after the other (`Layout`), a posted packet
has its descriptors at the offsets of its fragments (`Contexts`), the device
owns exactly those between what it has handed back and what was posted, each
with the flags of its place in its packet (`Ownership`), and what the device
has read of a frame is the beginning of the oldest packet not sent, never its
end (`Frames`).  The last is what makes the test of the first fragment's
descriptor in `RtIsPacketTransferComplete` enough, and where "packet" is
needed.  A completion moves the origin of the counts: the proofs of
`CompleteEnd` and of the next fetch begin by relating old and new offsets.

`Doorbell` is the safety half of `PacketsReturn`: a device that has a
descriptor to fetch polls, unless the call that posted it has yet to ring.
It needs, of the rest, that a queue without packets leaves nothing to the
device when it stops.

The refinement maps the packets between `BeginIndex` and `EndIndex` to the
sequence of `RtTxService`.  With `IInv` each action is one of its three or a
stutter (`SubmitStep`, `TransmitStep`, `ReturnStep`): in particular the packet
whose frame is sent is the oldest one that is not settled, and what completion
hands back is a prefix of settled packets.

### RtRxRing

For rings of any two sizes of which the fragments' is not the larger.  `IInv`
counts from `BeginIndex` of the fragment ring in the same way: first the
buffers that were filled (`landed`), then those that the device owns, then
those provided and not posted (`Phases`, `Iterators`, `Ownership`).  A
cancel that hands the buffers back ends the count: from then on the device may
own any descriptor, and the invariant says only that no frame waits for the
driver and that a queue all of whose buffers were posted has nothing to drain
or to post, until the next start clears the descriptors and puts the device's
index and `BeginIndex` together again; that is what `Aligned` rests on.
`RxImplements`:
every step is one of the four actions of `RtRxService` or a stutter.

### RtLink

For every number of processors, link states and time-outs.  `ContextCurrent`
speaks of the time when nothing is under way; the invariant has to say what a
query that is under way has read.  `QueryCurrent` does: if no change is
latched or saved and no DPC waits for the lock, what an actor has gathered up to its
place is what the PHY shows, because a change after the read would have
latched LINK_CHG.  `QueriesApart` says that of the DPCs only the holder of the lock is inside a
query, and that the power callbacks query only while no DPC runs, so that the
last to write the context is the one that read last.  `ReportsMatch`
relates the report of each actor that was not overtaken to the context, member
by member: one that the build read before the query (`early`) is left out.

### RtSettings and RtOffload

For any queues, filters, addresses, hash, offloads, chips, frames and packets.
`IInv` adds to the type that queues run only with the device on and that RCR
is exactly the filter from the start of a queue to the next cancel or stop of
any.  Neither `FilterProgrammed` nor `ReceiverOff` is inductive alone: a filter
set between start and cancel must rewrite RCR.
`MulticastSafe` has `MarInv`, which also covers the time between
`NetAdapterStart` and D0 entry.  `CpcrSafe` first says which of the registers
are programmed after D0 entry, whatever its resets took (`EntryRegisters`), and
that between the two halves of an offload callback nothing is promised of the
checksum bit.  `TxOffloadSafe` shows that a packet that waits asks for something
the framework may ask under some settings (`TxInv`, `Askable`), whatever the
settings have become, and that the descriptor's fields do not run into each
other, by the widths of the fields and not by enumeration: a number of n bits
shifted by m has its ones in m .. m + n - 1.  `EvaluationSafe` uses `CpcrSafe`:
a frame whose verification was due was verified.

### RtStart and RtRss

For any boards, registries and requested addresses, and a table of any size.
`RtStartProofs!IInv` has four parts: the shape of the context; how the magic
bit goes with arming and power (`Wake`); that the PHY has what the keywords
say from the first programming on (`Phy`); and where each of the three
addresses came from (`Station`).  The framework's order of calls is part of
it: an address of an earlier start survives in the context.

`RssIInv` adds the calls and the window (`WritesOK`): the thread between its
write of `ERIData` and the end of its polls is the one that holds the lock;
what a call has left to write is what it wants of registers only its thread
writes; what it has written is there; and an access still under way, which may
be one that timed out, is to none of the registers that a call has written or
that a finished call has promised.  `TableOK` relates the shadow table, the words
already written by a call, and what the framework told each index.

`EepromRight` says what the bit-banged reads return on a board: whether it has
an identity, and the bytes of its address.  The reads are recursive over the
bits and the provers have no induction over data, so it stays a hypothesis,
stated in `RtStart` for all boards; TLC evaluates it
(an `ASSUME` of `MCRtStart`) on the four boards, bit by bit.  What the
proofs do show of the reads is that the pins are left as they were found.

### What stays with TLC

* Liveness: `WakeupDelivered`, `LinkServed`, `FlushReturns`, `PacketsReturn`,
  `FramesIndicated`, `LinkReported`.  They need `ENABLED`, which the provers
  do not have.  `FlushReturns` holds only without stops (finding 1).
* `EepromRight`, for the reason given.

## 7. Not modelled, and the plan

Not modelled:

* `DriverEntry`, `EvtDriverUnload`, the announcement of capabilities: calls of
  the framework without state that anything reads back.
* Creation and destruction of queues and their allocation failures: what the
  framework destroys after a failed creation is not in the source.
* Statistics and tracing: counters nothing reads back.
* The multicast hash: a constant function from addresses to bits.
* A full reset that outlives its 20 polls, and PHY accesses of the settings
  that time out: what a device does then is not in the source.
* What a receiver that has not come to rest does when another queue's start
  sets `CR_RE` again (`rxqueue.cpp:407`): `RtRxRing` has one queue.
* What the framework makes of the fragments that an Advance after a cancel with
  unposted buffers hands it.

What is left of the plan:

1. Safety halves of the other liveness properties, as `Doorbell` is of
   `PacketsReturn`: that no reachable state of `RtRxRing`, `RtInterrupt` or
   `RtLink` waits for a step that nothing will take.
2. `RtTxRing` with `WriteBack = "descriptor"`: which of the properties other
   than `CompletedWasSent` and the refinement survive a device that hands
   descriptors back one by one.
3. Two stopped queues, and the stop of the transmit queue, in one passing run of
   `RtInterrupt`, which needs a coarser grain of the DPC to finish in time.
