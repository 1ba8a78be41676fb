# TLA+ models of the SlimeVR nRF receiver

This directory holds TLA+ specifications of the receiver firmware in `src/src`, the TLC
configurations that check them, and TLAPS proofs. The receiver is an nRF52/54 USB dongle: up to
`MAX_TRACKERS` body trackers talk to it over Nordic ESB radio in time slots, and it hands their
data to a host over USB HID and takes commands from the host and from a serial console.

## 1. Inventory

Threads and interrupts, with their priorities (`thread_priority.h`): radio interrupt 1 and ESB
event interrupt 2; the system work queue at -1, cooperative, runs HID reports and HID commands;
main 0; the ESB thread 7; console, button, statistics, automatic channel worker, LED, status and
USB 8; OTA writer, RSSI work queue and HID logging 9. State is shared through `irq_lock` sections,
two mutexes (`tracker_store_lock`, the HID completion lock), atomics and plain variables.

| Component | State | Operations | Hard behaviour | What makes it correct |
|---|---|---|---|---|
| TDMA membership and layout (`esb.c`) | evidence and wish masks, deadline, active mask, per-tracker slot, epoch, ladder level | packet observed, merge, wait, publish, forced publish on add/pop/clear | interrupt between merge and publish, wrap of the 32-bit clock, cohort and spacing timers | no two trackers in a slot, joins and departures neither lost nor late, a new epoch for every new frame |
| Pairing and roster (`esb.c`, `tracker_roster.c`) | roster record in flash, RAM copy, session (target, start, blocked), request queue | start, finish, request, drain, add, pop, clear, boot, retry, migration | lock-free session calls of several threads, failing flash, reset between write and commit | one slot per address, ids survive, sessions end |
| Radio ownership and channel moves (`esb.c`, `rcv_cmd.c`, `rssi_scan.c`) | busy flag, fault, physical and home channel, flash record, announced move, HID completion | claim, announce, apply and roll back, poll, scan, OTA and collection sessions | every radio and flash call may fail; three kinds of owner | one owner, home served and saved while the gate is open |
| Automatic channel worker (`auto_channel*.c`) | flags and generation, mailbox, trial, cooldown, latch | `auto_step`, enable/disable, completion | decision taken in one epoch, applied in another; mailbox against home | a pinned channel stays, a trial is judged by its own evidence |
| OTA relay (`esb_ota.c`, `scripts/esb_ota.py`) | targets, shared ring, per-tracker cursor and pending command, tombstones | BEGIN, DATA, VERIFY, ACTIVATE, ABORT, ack fill, status | lost acks and reports, session ending inside BEGIN, slow or silent target | session and targets agree, nothing needed is overwritten, a transfer ends |
| Receiver self-update (`receiver_ota.c`) | page slots, queue, writer state | HID reports, writer thread, stop with timeout | writer still in a slot when the session ends | no page lost or written twice, nothing but a verified image installed |
| Remote commands and WOM tokens (`esb.c`, `rcv_cmd.c`, `console_send.c`) | per-tracker command slot, tokens, HID job | queue, PONG selection, echo, expiry | lost or repeated PONG, late echo against a new command | a command is confirmed by its own echo |
| Test-all policy (`esb.c`) | policy, per-tracker confirmation | on, off, targeted test, reconcile | new trackers and targeted commands under the policy | every tracker ends in the policy's state |
| Loss statistics and controller (`esb.c`) | per-tracker counters, windows, ladder request | packet sequence, decision fence, level step | 8-bit sequence numbers, stale windows after a reconfiguration | losses counted once, steps only on current evidence |
| Raw collection and retransmission (`esb.c`, `data_collect*.c`) | session, gap queue, byte ring | start, packet, request, timeout, stop | queue limits, timer against start | gaps asked for or given up, session ends |
| Tracker events (`tracker_events.c`) | lease, three generations, duplicate window, cached operations, rest and power intention | subscribe, receive, process, scan, deliver, pair anew | reordered copies with wrapping numbers, records of an old subscription or pairing | to the current lease only, never back in time, causes that are current |
| HID queue (`hid.c`) | ring with tickets, endpoint flag, work item | claim, publish, peek, submit, consume | producers at interrupt level, link going down | a bounded queue: each accepted report leaves once and in order |
| USB, LED, console, system, front-end module | pins, patterns, line buffers | callbacks | hardware | mostly I/O |

How they interact: the radio interrupt chooses each acknowledgement from the TDMA slot
(`TdmaMembership`), the command slot, the channel announcement and the OTA relay; the event
interrupt feeds evidence, loss statistics, OTA status and the pairing queue. Roster changes reset
per-tracker state in all of these and force a publication. The radio gate is asked by channel
commands, scans, OTA sessions, collection and the automatic worker, and refuses while any other of
them is active.

`PROJECT.json` lists the hazards found in this survey, each at its line, with the properties that
cover it.

## 2. Modules

| Module | Models | Extended or checked by |
|---|---|---|
| `TdmaMembership` | which tracker owns a slot and when the layout changes | `MCTdmaMembership`, `TdmaMembershipProofs` |
| `Pairing` | sessions, queue, roster in RAM and flash | `MCPairing`, `PairingProofs` |
| `ChannelMigration` | gate, announced moves, scan, automatic worker | `MCChannelMigration`, `ChannelMigrationProofs` |
| `OtaRelay` | tracker updates with the host tool | `MCOtaRelay`, `OtaRelayProofs` |
| `ReceiverOta` | the receiver's own update: USB thread, flash writer, installation | `MCReceiverOta`, `ReceiverOtaProofs` |
| `RemoteCommands` | command slots, PONGs, echoes, wake-on-motion tokens, HID requests | `MCRemoteCommands`, `RemoteCommandsProofs` |
| `TestAll` | the sticky test-mode policy and its convergence | `MCTestAll`, `TestAllProofs` |
| `ReportQueue` | what the HID path promises: a bounded queue (abstract) | refined by `HidReports` |
| `HidReports` | the lock-free ring, the work item and the USB link | `MCHidReports`, `HidReportsProofs` |
| `TrackerEvents` | subscriptions, cache and delivery of tracker events | `MCTrackerEvents` |

Operators named `X_Something` beside an operator `X` are variants of it with one plausible mistake;
no specification uses them. They exist to show that a property fails when the code is wrong.

### TdmaMembership

One `irq_lock` section is one action; anything may happen between two of them. `Observe` is
`tdma_shadow_observe`; the statistics thread is `pcS` (`wait`, `sleep`, `sample`, `merge`, `loss`,
`pass1`, `pass2`), where a publication is two passes because `tdma_recalculate` computes the layout
outside the section that installs it and repeats once when the inputs changed; the administrative
thread is `pcA`. `tracker_store_lock` is the guard that keeps the two from overlapping.

Time is a counter modulo `Modulus` for `k_uptime_get_32()`, with signed differences as in the code;
64-bit times are saturating ages. The milliseconds of the source (101 to 15000) become 1 to 4 ticks;
a longer one never gets fewer ticks than a shorter one. `MaxLate` bounds how late the statistics thread runs: its bounds are stated in
terms of it, so the model does not assume that it is punctual, only that it is scheduled. The assumption is that it is
late by less than the fresh window and by at most half the spacing of publications (in the source: at most 500 ms). The loss
measurement is a free choice: the controller may ask for any step the code allows.
`TimeView` identifies states that differ by a shift of the clock; every guard reads clock values
as differences, and values that are not in use are left out.

### Pairing

Roster operations hold `tracker_store_lock` over two actions, flash write and commit to RAM, so
that interrupts and resets fall in between. A write that reports an error (`Save`, and the migration in
`Restore`) has reached the flash or not, as in `tests/host/tracker_roster/fixture.c:202-211`; the caller keeps its
roster in RAM either way. The auxiliary `doubt` names the operation that is in flash against its error code:
until the next successful write or a restart, flash is ahead of RAM by it, and a restart makes it effective
(`Leaving`, `Remaining`). The auxiliary `heard` is what was requested since the session was opened, as far
back as the queue could hold. Session calls take no lock and are two actions each (`call`, and the labels
`ended`/`left` of the ESB thread). `Preempt` says whether other threads run inside them. `timeout` is
the build's `CONFIG_PAIRING_TIMEOUT` (0: none). The auxiliary `assigned` remembers which id a device
was told. The two devices are symmetric; `LiveView` leaves out values that are written before
they are read again.

### ChannelMigration

Every read, check and store of shared state is a step, in the order of the code; measurements and
the choice of a channel are free. Commands (`pcU`) run on the console and HID threads, `Poll` in the
ESB thread, the worker is `pcW`. Starting, stopping and retuning the radio and saving the channel may
each fail. `MaxGen` bounds enable and disable requests. Boot and resets are left out, a running pairing
session appears as a refused request, and the reaction of trackers to an announcement is not modelled.

### OtaRelay

Lock sections of the relay are actions. BEGIN is three of them (admission, radio claim, commit) and
the release, since interrupts fall between. A status packet is one action: the radio interrupt fills
the acknowledgement, the event interrupt processes the packet, and no thread runs between the two.
The host tool is its update procedure: BEGIN and resends, the window over the trackers that
answered, VERIFY, ACTIVATE, its timeouts and Ctrl-C. A report that the host reads late is the same
as one that was lost and repeated, so reports have no queue. Trackers are external: what the
relay sees of an update engine. Disturbances (aborts, roster edits, expiring retries, other radio
users, failing trackers) are bounded by `MaxFaults`; lost acknowledgements and reports are not.
An update starts when no session is left over and its trackers are outside an update; section 6
says what this leaves out.

### ReceiverOta

Host reports are handled one at a time by the USB thread (`pcH`), which is cooperative: the writer
(`pcW`) runs only while that thread waits for a page buffer or for the writer's end, and both waits may
time out. Flash is a few pages of two units, a report carries three, so reports straddle pages. A
checksum is equality of units. MCUboot's second slot is half of the partition; its header and trailer are
not units of the model. Every flash operation may fail, power may fail at any step, and the
four boot arrangements (MCUboot, UF2, none, write-protected) are values of `boot`.

### RemoteCommands and TestAll

A PING and the answer to it are one step: the radio interrupt that fills the acknowledgement and the
event interrupt that handles the packet run without a thread in between; whether the answer arrives is
a choice. Requests of the host run on the system work queue, jobs for all trackers on the lower
`rssi_wq`; `win` is the window between the stores of `remote_hid_begin`, in which interrupts fall.
`log` is a history variable; `log.torn` marks a request that was interrupted in that window.
`TestAll` keeps a tracker's slot, mode and echo, and the layout as an active set and a capacity that
change freely; a policy command is two steps, its start with the scan of the trackers heard, and the
critical section at its end, which publishes the policy and the slots of all trackers at once. That a tracker restarted is seen through its PING; the code also notices it by the number of a
data packet (`esb.c:2820-2831`), which is another occasion for the same step.

### HidReports and ReportQueue

`hid_fifo_try_push` is four steps (read positions, compare-and-swap, fill, publish) for each thread and
one for the interrupt; the consumer is the system work item (peek, revalidate, submit, consume).
Tickets do not wrap in the model; slots are tickets modulo `Capacity`. `ReportQueue` is a sequence of
accepted reports of bounded length that are handed over from the front, where a record whose
subscription ended may be replaced by padding. `ImplementsQueue` is the refinement: `INSTANCE
ReportQueue WITH` the tickets between the positions as its content; claiming a ticket is the abstract
push, although the slot is filled later.

### TrackerEvents

The spinlock of `tracker_events.c` makes one action of what it covers; `deliver` is three (validate,
push, commit the receipt), since it holds no lock in between. An event is a boot and its number in the
boot; on the air the number is modulo `Modulus`. What a tracker says is a script of the scene; copies
are lost, repeated and reordered within a tick and `Lag` newer events, heartbeats for ever. Ages are
ticks; `late` marks a packet that was queued after the ESB thread had read its clock, for which the
code's unsigned differences are huge. A tracker that lost its id is taken to be silent: a packet carries
no more than the id.

## 3. What the runs check

| Run | Instance | Question |
|---|---|---|
| `membership` | 2 trackers, grace 4, fresh 3, spacing 2, modulus 32 | layout, deadline and timing under all interleavings |
| `ladder` | 1 tracker, levels 0..2, test-all and collection switched freely | the loss ladder and the epoch |
| `pairing` | 2 devices, 2 slots, queue 2, resets, failing flash, calls interrupted | roster, ids and queue |
| `pair_ends` | 1 device, timeout 0 or 2, targets to 2, calls not interrupted | sessions end |
| `gate` | 2 channels, all commands, 2 generations, fair | radio ownership under failures, completions arrive |
| `ota_relay` | 2 trackers, 3 packets, ring 2, window 1, 1 disturbance | OTA session, ring and transfer |
| `ota_silent` | the same, no disturbance | a disagreement (section 5) |
| `receiver_ota` | 3 images of different length, pages of 2, 8 pages, all boot loaders | buffers, verification, installation, stopping |
| `remote` | 2 trackers, 2 requests, tokens that wrap at once | commands and their completion |
| `test_all` | 1 tracker and 1 that is not paired, 2 commands, 2 layouts, 1 fault | policy and convergence |
| `hid_queue` | 2 threads and the interrupt, ring 2, batch 2, 5 pushes, link down once | the ring implements a queue |
| `events` | 8 scenes of one tracker, numbers modulo 6, window 2, one entry | records, receipts, order and causes |

A property that is a conjunction has its parts defined above it, each with its own comment.

**membership.** `LayoutSound` (`NoSlotCollision`, `LayoutInForce`): what PONGs may carry at any moment, also
inside a removal. `NoGhostMember`: nobody is wanted without the evidence bit that lets it be evicted.
`DeadlineTracksChange`: the deadline is armed exactly while a change is owed. `ChangesTimely`: upper
bounds for joins and departures in terms of the constants and `MaxLate` (`JoinBounded`,
`EvictionBounded`), and wrapped ages are true ages (`AgesExact`). A departure may cost the grace, a whole
monitor period until a merge notices it, and then the publication spacing, when a removal was published
just before that merge. `DeadlineYoung`: an armed deadline is never so old that the signed
difference reads it as the future. `PassesJust`: no eviction a tick
before the grace, whatever is heard between merge and publication (`NoEarlyEviction`), and an expired
deadline is not found twice in a row (`NoSpin`). Two trackers are enough for one to join while the other
leaves; the ticks keep the order of the source's constants, not their ratios, and the initial clock
stands anywhere, so every step meets the wrap.

**ladder.** `LadderSound` (`LadderOneStep`, `LadderFrozenWhileCollecting`), `EpochMovesWithLayout`. An
epoch modulo 2 is the smallest that can tell a change; a larger one has fewer coincidences.

**pairing.** `RosterSound` (`NoDuplicate`, `FlashCurrent`), `IdsSurvive`, with two devices racing for slots, a
full roster and a full queue in reach. After a write that reported an error and reached the flash, the two are weaker than
one might wish, and say so: flash is ahead by that one operation, and a device whose removal was refused
keeps its id in RAM only (section 5, `PairUnsaved.cfg`). `NoStaleRequest`: outside the calls that
open and end sessions, the queue is the end of what was requested in the session under way, so nothing of an
earlier session is left in it and a full queue loses the oldest
only. It says nothing of the request that the ESB thread has already taken out (section 5, `PairLate.cfg`).
Addresses that `tracker_roster_address_valid` refuses (`BadDevices`) are left to the proofs; the run meets unusable
records through repeated addresses and corrupt keys. **pair_ends.** `SessionsEnd`: by
timeout (`SessionEnds`) and, with the timeout off, by count (`ReachedSessionEnds`).

**gate.** `RadioOwned` (`OneOwner`, `NoMoveUnderSession`), `HomeServed`, `PinnedStays`, `FaultSticky`,
`HidTold` (`HidAckOwn`, `HidAnswered`), `TrialJudged` (`LatchAfterTrial`, `CommitWaitEnds`). Two channels
(0, which is encoded specially, and the factory one) are the smallest set in which a move, a rollback
and the default encoding differ; two generations are one change of epoch under a decision.

**ota_relay.** `SessionSound` (`SessionShape`, `RadioExclusive`, `CancelledIsOut`), `RingServes` (no packet
replaces one that some target may ask for again, and the host's window and the ring's minimum, which
advance by different messages, agree as long as the host follows every target), `Transferred`. An
image of three packets wraps a ring of two, and the window is below the ring as `MAX_IN_FLIGHT` is below
`OTA_TX_RING_SIZE`.

**receiver_ota.** `SlotsSound`: each page buffer has one owner, through errors, timed-out joins and
restarts of the writer. `CompleteVerifies`: a transfer without flash error is whole in flash when it is
verified. `InstallSafe`: only a verified image is installed, the running firmware is untouched before
that, and the boot loader is pointed at a complete image. `WriterStops`: no session replaces one whose
writer lives, and a writer told to stop ends. The images fill pages evenly, fill one partly, and do not
fit.

**remote.** `WomSound`: a wake-on-motion command is reported as executed only by its own result, also when
tokens repeat, and is in a slot only while someone waits for it. `HonestCompletion`: one answer per
request, OK only after all confirmations. `RequestEnds`. A token that wraps after one value meets its
predecessor as early as possible.

**test_all.** `TargetedWins`, `PolicySound` (`RateFits`, `ConvergedIsTrue`), `Converges`. Two layouts shrink
the capacity and raise it again.

**hid_queue.** `RingSound`, `ImplementsQueue`, `EveryReportLeaves`. Five pushes go twice round a ring of
two, with both threads stopped inside a push.

**events.** `NoForeignRecord`, `ToldIsCurrent`, `NeverBack`, `CauseIsCurrent`. The scenes are a calibration
under announced and cancelled sleep, an announced restart, a restart announced before a sleep that is announced
and cancelled (the order of the host test `json_power`: the cancellation leaves the restart announced,
`tracker_events.c:289-291`), more calibrations than entries, a rest that
outlasts a wrap of the numbers, a restart or replacement under a subscriber, hosts that come and go, and a
rest that changes; a scene keeps only what its question needs. `CauseIsCurrent` allows a cause only on an
announcement of that very transition that arrived, that the calibration did not begin after, and that no
arrived notice of a later number takes back; a cancelled sleep takes back a sleep only.

Deadlock is checked except in `OtaRelay`, `ReceiverOta` and `RemoteCommands`, where the last update or
the last request of the bound may be the last thing that happens.

### Fairness

Safety needs none. `Pairing`: the ESB thread, the holder of the mutex, a thread inside a session
call, and time go on; the drain loop is left again and again, since requests arrive over the air
more slowly than the queue is handled. `ChannelMigration`: a thread in the middle of a command, the
ESB thread, the worker and time go on; nobody has to give a command. `OtaRelay`: the work queue runs
and the host keeps sending while its window allows; a tracker that polls for ever is heard, and
reported, infinitely often (strong fairness: radio and HID queue may lose any finite number in a
row). `ReceiverOta`: both threads are scheduled; nobody has to send a report. `RemoteCommands`: submitted
work runs and deadlines come; nothing is assumed of trackers, links and hosts, which is why its liveness
rests on the timeout alone. `TestAll`: a tracker keeps sending PINGs whose answers are not all
lost, grace periods end, and a broadcast, a layout change and the periodic reconciliation go on. `HidReports`: a preempted producer
continues, scheduled work runs, the host polls the endpoint. No action that stands for a failure or a user's decision is fair.

## 4. What is proved

A component's theorems are in `<Component>Proofs`, which extends the component's module. They hold for every
value of the constants that satisfies the module's `ASSUME`; TLC evaluates that on the runs. Each proof
has the same shape: an inductive invariant `IInv` (checked by TLC on the run's instance before it was
proved), lemmas about the operators, one lemma per group of actions with a step per action, and a last
step `BY ..., PTL DEF Spec`. Fairness is not used.

| Module | Theorems | Property of a run |
|---|---|---|
| `TdmaMembershipProofs` | `TypeCorrect`, `LayoutAlwaysSound`, `MembersAreKnown`, `DeadlineExact`, `EpochAlwaysMoves` | `TypeOK`, `LayoutSound`, `NoGhostMember`, `DeadlineTracksChange`, `EpochMovesWithLayout` |
| | `LadderAlwaysSound`, `ChangesAlwaysTimely`, `PassesAlwaysJust`, `YoungWhenQuiet` | `LadderSound`, `ChangesTimely`, `PassesJust`, `DeadlineYoung` |
| | `SlotsNeverCollide`, `AgesAlwaysExact`, `NeverEvictedEarly`, `TimelyWhenQuiet` | `NoSlotCollision`, `AgesExact`, `NoEarlyEviction` (parts of properties, without a proviso); `ChangesTimely` and `PassesJust` with the proviso discharged |
| `ChannelMigrationProofs` | `RadioIsOwned`, `HomeIsServed`, `PinnedHomeStays`, `FaultIsSticky` | `RadioOwned`, `HomeServed`, `PinnedStays`, `FaultSticky` |
| | `HidIsToldItsOwn`, `LatchesAfterTrial` | the safety halves of `HidTold` and `TrialJudged` |
| `HidReportsProofs` | `RingIsSound`, `RingImplementsQueue` | `RingSound`, `ImplementsQueue` |
| `TestAllProofs` | `TargetedCommandWins`, `PolicyIsSound` | `TargetedWins`, `PolicySound` |
| `OtaRelayProofs` | `SessionIsSound`, `RingIsServed` | `SessionSound`, `RingServes` |
| `PairingProofs` | `RosterIsSound`, `IdsAlwaysSurvive`, `RequestsAreFresh` | `RosterSound`, `IdsSurvive`, `NoStaleRequest` |
| | `IdsNeverChange` | none: `IdsStay` is stated with its proof |
| `ReceiverOtaProofs` | `SlotsAreSound`, `CompleteIsVerified`, `InstallIsSafe` | `SlotsSound`, `CompleteVerifies`, `InstallSafe` |
| | `WriterEndsFirst` | the safety half of `WriterStops` |
| `RemoteCommandsProofs` | `WomIsSound`, `CompletionIsHonest` | `WomSound`, `HonestCompletion` |

**TdmaMembership.** `IInv = TypeOK /\ InvMutex /\ InvConfig /\ InvShadow /\ InvArmed /\ InvIdle`: the
administrator's publication excludes the merge and publication of the statistics thread (`InvMutex`, what
`tracker_store_lock` gives); the active count is the size of the active set, every active tracker that is
stored has the layout of its rank, and nobody else has a usable slot (`InvConfig`), which is what survives
the removal of a member between the reset of its slot and the publication; wanted and joining trackers
have evidence and are paired (`InvShadow`); the deadline matches the owed change whoever computes it
(`InvArmed`); outside an edit the active set is paired and a wanted change is armed (`InvIdle`). Arithmetic
lemmas come first (`RankRange`, `RankInjective`, `SlotTicksRange`), then one lemma per shared operation
(`MergedInv`, `PassInv`, `ResetInv`) and `NextInv`.

The ladder adds that the width in force is the one of the published level or the base width (`WidthKept`).
The timing results stand on three further invariants, each on top of the one before.

- `AgeInv`: evidence is kept of exactly the wanted and the queued trackers (`InvKnown`); a queued join has given
  the semaphore, so it is merged before it is older than the thread is late (`InvWoken`, `InvQueuedAge`); wanted
  evidence is younger than a limit that grows with the program counter of the stats thread
  (`InvWantedAge`, `AgeLimit`), hence always under half the clock range, so that the signed difference is
  the true age (`InvTrueAge`). From it `AgesAlwaysExact` and, since a member without evidence has been silent for
  the grace (`InvGoneAge`), `NeverEvictedEarly`.
- `DueInv`: `Left` is what deadline and spacing still hold back. While it is positive an owed change is ahead of its
  limit by that much, and afterwards it is over the limit by the lateness at most (`Within`, used by `InvJoins`
  and `InvLeaves`). The thread's sleep does not outlast `Left` (`InvSleep`). After a wait that found an expired
  deadline either the deadline is gone or a publication is too recent for it to be found again
  (`InvDue`, `InvDone`); this is where the half of the spacing in the assumption on `MaxLate` comes from.
- `YoungInv`: an armed deadline is within a cohort and the spacing of being served.

`ChangesAlwaysTimely` and `PassesAlwaysJust` have the proviso `[]DeadlineYoung`. Every publication of the stats
thread disarms the deadline, and so does a forced one that meets no queued join; but a forced publication that
does meet one keeps the old deadline armed. With three or more trackers, removals that are published closer
together than the spacing, each over a queued join, for half the clock range (24.8 days) could thus let a deadline
age until it reads as the future. `YoungWhenQuiet` shows that nothing else can: without a removal over a
queued join (`RemovalsQuiet`) the proviso holds, and `TimelyWhenQuiet` puts the results together. On the
instance with two trackers TLC checks `DeadlineYoung` without any proviso.

**ChannelMigration.** The invariant ties each label of a thread to what the thread owns: whoever is past
the claim holds the gate and is alone (`Exclusive`), past the second check there is no session
(`SessionClear`), the radio is away from home only in the hands of an owner that put it there, after a
fault, or behind a gate that nobody opens (`HomeKept`), after a fault only the worker's scan that met it is
left (`FaultHeld`). A pinned home excludes an announced automatic move (`PinKept`), which is why the worker
reads `enabled` again under the lock. A second invariant, `TrialInv`, relates the mailbox, the trial and the
home; the latch follows from it.

**HidReports.** `RingSound` is nearly inductive. What it lacks: a capacity check stays true until the
compare-and-swap, since the read position only grows (`Claiming`); a ticket that is claimed and not published
is held by one producer, and its slot waits for it (`Publishing`); what `hid_fifo_consume` is to take was
published (`Taking`). Slots are tickets modulo `Capacity`, so a lemma says that tickets less
than a ring apart do not share a slot. For the refinement every step maps to a push, a hand-over or a
stutter of `ReportQueue`; the lemmas about `SubSeq` and the map from tickets to reports are those it needs.

**TestAll.** The strengthening says that a broadcast that is still good came after the last targeted command
(`Listening`), that what a tracker echoes of a test command is what it does (`Honest`), that no test command
waits for a tracker that has confirmed (`Settled`), and that such a tracker follows the policy unless
the layout has just taken it in, which `test_all_note_layout` is about to forget (`Following`).

**OtaRelay.** The session needs `Calling`: a BEGIN holds the radio claim only in its last two sections. The
ring needs the host: what it has sent is less than `MaxInFlight` ahead of what the followed targets
reported, a report is never ahead of the relay's own counter (`Behind`, `Forward`), so the head
is less than a ring ahead of `ring_seq_min_locked`, and entries less than a ring apart have
different places. `OtaAssumption` has `MaxInFlight \in 1..RingSize`: the tool's window is the ring less 16.

**Pairing.** Between the write and the commit of an operation, flash is one operation ahead of RAM
(`Ahead`); a reset there loads the newer roster, in which every id that was told is still in its place,
except that of the device being removed. An operation that waits for its commit was written without an error, so
there is no `doubt` beside it; `FlashCurrent` covers the writes that reported one. An unloaded roster is empty
(`InUse`), and nothing is requested before the ESB thread is in its loop (`Working`), which is why the session that it
opens by itself starts with an empty queue. `NoStaleRequest` is preserved because a request and the replacement
in a full queue keep an end an end (`EndAppend`, `EndTail`). `IdsStay` says that a step takes an id away only from a
device in `Removing` or `Leaving`. `PairingAssumption`
says that a stored roster is not one of the marks for a missing or corrupt record.

**ReceiverOta.** Three layers. `Control` is about who has what: a writer that is not created has ended, and a
waiting USB thread has asked it to stop (`Life`); what is queued says how far the session is (`Stage`), nothing
is queued twice (`Once`), and no page follows a VERIFY (`Last`), so that the queue of four always has room for a
page and a command; staging lies above the running firmware and above the copier's target (`Placed`, from the
validation of BEGIN); units, pages and reports are counted alike (`Counted`). `Owned` is `SlotOwnership` without
cardinalities. `Whole` is about contents while a transfer goes well: each page of staging before the one being
filled is written or waits in a buffer that is right for it, and the filled part and the rest of the report continue
the image; with `Last` and `Counted` nothing waits when the checksum is computed. `Installs` says that pages go
to staging (`Aimed`), hence not into the running firmware (`RunSafe`); that the image stays in staging after the
checksum because no page is pending and the copier writes below it (`Verified`); and that the copied pages are
those of the image (`Installing`, `Settled`). Pages are found by division, so `Places`, `PageOrder` and
`PagesOf` carry the arithmetic. `OtaConstants` asks only for lengths greater than 0 and a running firmware that
fits into the partition.

**RemoteCommands.** Two arguments. Outcomes (`Reported`): a WOM command is first told to a tracker that
reports nothing, so what the tracker reports from then on is of this command although tokens come back; this
needs no assumption on who else runs. Requests (`Clean`, as long as no request was torn in its first
instructions): the timer runs only for a pending request (`Timed`); the job on `rssi_wq` is that of the
pending request, which has no expected trackers and no timer until the job arms it, so that nothing else
can end it (`Working`); `remote_hid_job` tells WOM requests from the others (`JobOwned`); and a pending request
counts only trackers it has heard (`Counted`). `RemoteConstants` says that flags are none of the marks of
the encoding.

Only model-checked:

- liveness (`SessionsEnd`, `Transferred`, `Converges`, `RequestEnds`, `EveryReportLeaves`, the liveness halves of `HidTold` and
  `TrialJudged`, and the others of section 3), which is out of reach of the proof system together with `ENABLED`;
- `TrackerEvents`: what its subscribers are owed is defined by filtering and flattening sequences of records,
  and the length and order of a filtered sequence need induction over data.

## 5. Disagreements found

A property states what a comment, a help text, a test, a document or `Kconfig` says; the counterexample is a
behaviour of the code. The first is the run `ota_silent`; the others have a configuration of their own.

- `ota_silent` (`RingNeverOverflows`; quotation in `PROJECT.json`): a tracker that the host skipped stays a
  target of the relay; the ring fills, packets are dropped, and the host's gap fill cannot start because it
  waits for an empty window.
- `PairEndless.cfg` (`SessionEnds`): `esb_finish_pair` (`esb.c:3341`) clears `esb_pairing` first and the start
  time later; a session opened in between has no start time, although `Kconfig:107` says "After this time,
  pairing mode will automatically exit."
- `PairUnlimited.cfg` (`UnlimitedAcceptsNew`): starting a session (`esb.c:3292`) does not reset the block on new
  devices; `esb.c:822` says "0 = no limit".
- `PairComplete.cfg` (`CompleteMeansPaired`): the count of new devices (`esb.c:4498`) is a difference of roster
  sizes in a byte; a removal wraps it and the session is complete at once, although `console.c:1007` says "Exit
  after pairing 4 new devices".
- `PairUnsaved.cfg` (`RefusedRemovalStays`): `esb_pop_pair` answers an error with "Pairing removal not saved"
  (`esb.c:3223`) and goes on with the device; the write may be in flash all the same (the host test saves a record
  and returns `-EIO`), and then a restart drops the device and its id is free for another.
- `PairLate.cfg` (`RegisteredInSession`): a request that `process_pairing_queue` (`esb.c:3320`) has taken out of the
  queue is registered although its session has ended meanwhile, after `esb_finish_pair` said "Pairing mode
  disabled" (`esb.c:3348`) and purged the queue.
- `TrialMissed.cfg` (`CommitRecognised`): the worker reads the home channel (`auto_channel.c:386`) before the
  mailbox; a move applied in between is filed as not committed.
- `EventsUnknown.cfg` (`OnlySilenceIsUnknown`): `tracker_events_process` gets a time that was read before the
  queue is drained (`esb.c:4482`); for a packet that the interrupt queues after that, `now - last_rx`
  (`tracker_events.c:479`) underflows and an entry that was just heard is declared unknown, although the
  repository's `README.md:124` says "Silence produces a receiver observation with `UNKNOWN`".
- `HidRefusal.cfg` (`UrgentOnlyRefusedWhenFull`): a producer preempted between its two reads (`hid.c:86-88`) computes
  a huge count and refuses an urgent report in a ring with room, although `hid.c:47` reserves slots for it.
- `RemoteTorn.cfg` (`RequestAlwaysEnds`): a confirmation between the stores of `remote_hid_begin` (`rcv_cmd.c:590`)
  ends the old request and takes the new one's pending flag with it; that request is not answered.

Run one with `tlc -config EventsUnknown.cfg MCTrackerEvents` (`MCPairing`, `MCChannelMigration`,
`MCHidReports`, `MCRemoteCommands` for the others).

Observations without a property: the drain loop may register more devices than the target in one batch;
a session started before the roster is loaded counts restored trackers as new; a forced
recalculation publishes the wish of the last merge; with ten or more trackers the base slot width
is the floor and the ladder has no effect; a short change of membership resets the ladder level;
`channelauto off` does not stop a move that is already announced; a targeted test command ends the
policy but leaves the narrow layout; an UNKNOWN observation that finds the HID queue full is not
repeated; a change of one pairing retires the queued events of all trackers.

## 6. What is not modelled

- Byte layouts, checksums, text, logging, LED curves, pin sequencing: data or pure I/O.
- Zephyr, the ESB library, the USB stack: external, present through what the firmware calls.
- In `ChannelMigration`: boot and the reading of `RF_CHANNEL`, the loss evidence and channel policy,
  trackers.
- In `OtaRelay`: the commands left in the ordinary slots (suppress, unsuppress, abort), firmware
  information, a BEGIN into a session that an earlier update left behind (it keeps the ring of the old
  image), a tracker that is still in an older update when BEGIN arrives (any status but IDLE confirms
  a BEGIN).
- In `TrackerEvents`: several trackers (their caches are independent, the generations are shared), the second
  kind of rest, log lines, the drop counter. Liveness is not stated: whether a rest is told depends on how
  often packets fall into the window described in section 5.
- In `RemoteCommands`: the values of set commands, the PONGs that ask a tracker for metadata
  (`esb.c:1912-1922`, `2448-2458`, `3838-3862`), the reset of a command slot when its tracker is removed, tracker names.
- Loss statistics and the loss controller: sums over one variable; `TdmaMembership` lets the controller take any
  step the code allows, so its results hold whatever is measured.
- Raw collection beyond its flag: gap queue, byte ring, inactivity timer.
- The loss windows, sweep and policy of the automatic worker.

## 7. Plan

Extensions that are left, in order: `RawArq` with `DataCollect`; the loss evidence and policy of the automatic
worker; boot of the channel; suppress, unsuppress and abort of the OTA relay on top of `RemoteCommands`.

Proofs that are left:

1. `TrackerEvents`: `TypeOK` and the parts of its invariants that speak of the cache alone.
2. `TdmaMembership`: how many removals in a row may meet a queued join before `DeadlineYoung` is lost, in terms
   of the number of trackers and the time a pairing takes; `RemovalsQuiet` allows none.
