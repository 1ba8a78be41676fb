--------------------------- MODULE TdmaMembership ---------------------------
(***************************************************************************)
(* The dynamic TDMA schedule of the receiver (src/connection/esb.c): which *)
(* paired trackers own a transmission slot, and when the published layout  *)
(* follows what the radio hears.                                           *)
(*                                                                         *)
(* Three actors share the state:                                           *)
(*   - the radio EVENT interrupt calls tdma_shadow_observe for every valid *)
(*     PING or data packet (Observe);                                      *)
(*   - esb_stats_thread sleeps on tdma_membership_wake with a computed     *)
(*     timeout, then merges the evidence and may publish a new layout      *)
(*     (Stats actions, under tracker_store_lock);                          *)
(*   - a console or pairing thread adds, removes or clears pairings and    *)
(*     forces a publication (Admin actions, under the same mutex).         *)
(* An irq_lock section is one action; between two of them any other actor  *)
(* may run and time may pass.                                              *)
(*                                                                         *)
(* Time is a tick counter modulo Modulus, standing for k_uptime_get_32():  *)
(* its differences are read as signed, so an age of half the modulus or    *)
(* more looks like the future. int64 uptime comparisons are modelled by    *)
(* saturating elapsed times.                                               *)
(***************************************************************************)
EXTENDS Integers, FiniteSets

CONSTANTS
  MaxTrackers,        \* MAX_TRACKERS
  Modulus,            \* range of the 32-bit millisecond clock
  CohortMs,           \* TDMA_MEMBERSHIP_COHORT_MS
  FreshMs,            \* TDMA_SHADOW_FRESH_MS
  GraceMs,            \* TDMA_SHADOW_LEAVE_GRACE_MS
  ReconfigMinMs,      \* TDMA_RECONFIG_MIN_MS
  LossReconfigMinMs,  \* TDMA_LOSS_RECONFIG_MIN_MS
  MonitorMs,          \* TPS_MONITOR_INTERVAL_MS
  EpochModulus,       \* range of the 8-bit configuration epoch
  TopLevel,           \* deepest ladder level the run lets the loss controller use
  TestAllUsed,        \* may test-all mode be switched in this run?
  CollectUsed,        \* may raw data collection run in this run?
  MaxLate             \* how many ticks the stats thread may run late

ASSUME ConstantsAssumption ==
  /\ MaxTrackers \in 1..254
  /\ {CohortMs, FreshMs, GraceMs, ReconfigMinMs, LossReconfigMinMs,
      MonitorMs} \subseteq Nat \ {0}
  /\ FreshMs <= GraceMs /\ ReconfigMinMs <= LossReconfigMinMs
  /\ EpochModulus \in Nat \ {0, 1}
  /\ TopLevel \in 0..4
  /\ TestAllUsed \in BOOLEAN /\ CollectUsed \in BOOLEAN
  /\ MaxLate \in Nat \ {0}
  /\ MaxLate < FreshMs /\ 2 * MaxLate <= ReconfigMinMs
  /\ Modulus \in Nat
  /\ Modulus > 2 * (GraceMs + ReconfigMinMs + MonitorMs + CohortMs + 3 * MaxLate)

VARIABLES
  clock,          \* k_uptime_get_32()
  stored,         \* stored_trackers
  shadow,         \* the tdma_shadow_* masks and the membership deadline
  active,         \* tdma_active_mask
  activeCount,    \* tdma_dynamic_active_count
  slotTicks,      \* tdma_dynamic_slot_ticks
  epoch,          \* tdma_config_epoch
  config,         \* tracker_slots[i].tdma_config_packed
  capLevel,       \* tdma_cap_level
  publishedCap,   \* tdma_published_cap_level
  sinceReconfig,  \* time since tdma_last_reconfig_time
  testAll,        \* test_all_enabled
  collecting,     \* data_collect_is_active() || data_collect_batch_is_active()
  sem,            \* tdma_membership_wake
  pcS,            \* where esb_stats_thread is
  nowS,           \* the tick it sampled for tdma_shadow_update
  sleep,          \* what is left of its k_sem_take timeout
  monitorIn,      \* time until next_monitor_time
  monitoring,     \* is this pass the periodic monitor pass?
  late,           \* ticks since the stats thread should have run
  pcA,            \* where the administrative thread is
  seenAge,        \* auxiliary: true time since each tracker was last heard
  owed,           \* auxiliary: how long it has evidence but no slot
  dueFor          \* auxiliary: the deadline the last wait found expired

shadowVars == <<shadow, seenAge, owed>>
layoutVars == <<active, activeCount, slotTicks, epoch, config, publishedCap,
                sinceReconfig>>
modeVars   == <<testAll, collecting>>
statsVars  == <<pcS, nowS, sleep, monitorIn, monitoring, late, dueFor>>
vars == <<clock, stored, shadowVars, layoutVars, capLevel, modeVars, sem,
          statsVars, pcA>>

Ids    == 0 .. MaxTrackers - 1
NoSlot == 255
Ticks  == 0 .. Modulus - 1
None   == -1

\* Ages saturate here: nothing tells larger ones apart.
AgeCap == GraceMs + ReconfigMinMs + MonitorMs + CohortMs + 3 * MaxLate

Min2(a, b) == IF a < b THEN a ELSE b
Max2(a, b) == IF a > b THEN a ELSE b

-----------------------------------------------------------------------------
(* The slot width *)

BaseSlotTicks == 16
SlotTicksMaxLevel0 == 64
CapLadder == [level \in 0..4 |->
                CASE level = 0 -> 220 [] level = 1 -> 180 [] level = 2 -> 150
                  [] level = 3 -> 130 [] OTHER -> 115]

\* tdma_slot_ticks_for: the widest even width that keeps the opportunity rate
\* of n trackers at the cap of the ladder level, never under the base width.
SlotTicksFor(n, level, test) ==
  IF n = 0 \/ test
  THEN BaseSlotTicks
  ELSE LET limit  == IF level = 0 THEN SlotTicksMaxLevel0 ELSE 255
           sticks == Min2(32768 \div (n * CapLadder[level]), limit)
       IN  Max2(sticks - (sticks % 2), BaseSlotTicks)

-----------------------------------------------------------------------------
(* Membership evidence *)

StoredIds == 0 .. stored - 1

\* (int32_t)(a - b) on the modular clock
SignedDiff(a, b) ==
  LET d == (a - b) % Modulus
  IN  IF 2 * d < Modulus THEN d ELSE d - Modulus

\* age_ms of a tracker that has evidence
Age(i, now) == Max2(SignedDiff(now, shadow.lastSeen[i]), 0)

\* The cases of the loop in tdma_shadow_merge_locked at tick now.
Evidence == shadow.evidence \cap StoredIds
Wanted   == shadow.desired \cap StoredIds
Withdrawn(now) ==   \* never published, and no longer fresh
  {i \in Wanted : i \notin active /\ (i \in Evidence => Age(i, now) >= FreshMs)}
Evicted(now) ==     \* published, silent for the whole grace
  {i \in (Wanted \ Withdrawn(now)) \cap Evidence : Age(i, now) >= GraceMs}
Joined(now)  == {i \in Evidence \ Wanted : Age(i, now) < FreshMs}
Expired(now) == (Evidence \ Wanted) \ Joined(now)
Cleared(now) == Withdrawn(now) \cup Evicted(now) \cup Expired(now)
MergedWant(now) == (Wanted \ (Withdrawn(now) \cup Evicted(now))) \cup Joined(now)

MergedDeadline_Sliding(now) ==
  IF MergedWant(now) # active THEN (now + CohortMs) % Modulus ELSE shadow.deadline
MergedDeadline_GraceAgain(now) ==
  IF MergedWant(now) # active /\ ~shadow.armed
  THEN (now + GraceMs) % Modulus ELSE shadow.deadline
\* A departure has no cohort: it arms at now. An armed deadline stays.
MergedDeadline(now) ==
  IF MergedWant(now) # active /\ ~shadow.armed THEN now ELSE shadow.deadline

\* tdma_shadow_merge_locked: the shadow state after a merge at tick now
MergedShadow(now) ==
  [evidence |-> shadow.evidence \ Cleared(now),
   lastSeen |-> [i \in Ids |-> IF i \in Cleared(now) THEN 0 ELSE shadow.lastSeen[i]],
   desired  |-> MergedWant(now),
   joining  |-> {},
   armed    |-> MergedWant(now) # active,
   deadline |-> MergedDeadline(now)]

ForgottenShadow_KeepsDesired(gone) ==
  [shadow EXCEPT !.evidence = @ \ gone, !.joining = @ \ gone]
\* tdma_shadow_forget_tracker for a set of slots in id order. Each call disarms
\* the deadline when what is left asks for no change.
ForgottenShadow(gone) ==
  LET upTo(k) == {j \in gone : j <= k}
  IN  [evidence |-> shadow.evidence \ gone,
       lastSeen |-> [i \in Ids |-> IF i \in gone THEN 0 ELSE shadow.lastSeen[i]],
       desired  |-> shadow.desired \ gone,
       joining  |-> shadow.joining \ gone,
       armed    |-> shadow.armed /\ \A k \in gone :
                      \/ shadow.desired \ upTo(k) # active
                      \/ shadow.joining \ upTo(k) # {},
       deadline |-> shadow.deadline]

Queues(i) == i \notin shadow.desired
\* Evidence of a tracker that is not wanted yet queues a join; the first of a
\* batch arms the cohort deadline.
ObservedShadow(i) ==
  [shadow EXCEPT
     !.lastSeen[i] = clock,
     !.evidence = @ \cup {i},
     !.joining  = IF Queues(i) THEN @ \cup {i} ELSE @,
     !.armed    = @ \/ Queues(i),
     !.deadline = IF Queues(i) /\ ~shadow.armed
                  THEN (clock + CohortMs) % Modulus ELSE @]

\* tdma_shadow_observe, in the radio interrupt, for PING or data evidence
Observe(i) ==
  /\ i \in StoredIds
  /\ shadow' = ObservedShadow(i)
  /\ sem' = IF Queues(i) /\ i \notin shadow.joining THEN 1 ELSE sem
  /\ seenAge' = [seenAge EXCEPT ![i] = 0]
  /\ owed' = IF i \in shadow.evidence THEN owed ELSE [owed EXCEPT ![i] = 0]
  /\ UNCHANGED <<clock, stored, layoutVars, capLevel, modeVars, statsVars, pcA>>

-----------------------------------------------------------------------------
(* Publication: one pass through the loop of tdma_recalculate *)

NoConfig == [slot |-> 0, total |-> 0, ticks |-> 0, epoch |-> 0]

Rank_Inclusive(members, i) == Cardinality({j \in members : j <= i})
\* The slot a member gets: members are numbered in id order from zero.
Rank(members, i) == Cardinality({j \in members : j < i})

PassShadow_NoResample(forced, resampled) == shadow
\* The layout one pass computes from the masks it resampled. resampled: this
\* is the pass after the diagnostics reset.
PassShadow(forced, resampled) ==
  IF ~forced /\ (resampled \/ shadow.joining # {} \/ ~(shadow.desired \subseteq active))
  THEN MergedShadow(clock)
  ELSE shadow

NewMembers(sh) == sh.desired \cap StoredIds

PassCap_Collecting(members) ==
  IF members # active THEN 0 ELSE capLevel
\* a new membership starts at the top of the ladder; collection holds the level
PassCap(members) ==
  IF members # active THEN 0
  ELSE IF collecting THEN publishedCap
  ELSE capLevel

PassTicks(members) ==
  SlotTicksFor(Cardinality(members), PassCap(members), testAll)

\* Nothing to publish: no member, or the layout in force is already right.
PassIdle(members) ==
  /\ members = active
  /\ members = {} \/ PassTicks(members) = slotTicks

MinReconfig(members) ==
  IF members # active \/ testAll \/ PassCap(members) = publishedCap
  THEN ReconfigMinMs ELSE LossReconfigMinMs

\* The spacing of ordinary publications: the admission cohort and the gap.
PassTooEarly(sh, members) ==
  \/ members # active /\ sh.armed /\ SignedDiff(clock, sh.deadline) < 0
  \/ sinceReconfig < MinReconfig(members)

NextEpoch_MembersOnly(members) ==
  IF members # active THEN (epoch + 1) % EpochModulus ELSE epoch
NextEpoch(members) ==
  IF members # {} THEN (epoch + 1) % EpochModulus ELSE epoch

NewConfig_MembersOnly(members) ==
  [i \in Ids |->
     IF i \in members
     THEN [slot  |-> Rank(members, i), total |-> Cardinality(members),
           ticks |-> PassTicks(members), epoch |-> NextEpoch(members)]
     ELSE config[i]]
\* tdma_pack_config for every slot, members or not
NewConfig(members) ==
  [i \in Ids |->
     [slot  |-> IF i \in members THEN Rank(members, i) ELSE NoSlot,
      total |-> Cardinality(members),
      ticks |-> PassTicks(members), epoch |-> NextEpoch(members)]]

ArmedAfterPublish_Never(sh) == FALSE
ArmedAfterPublish(sh) == sh.armed /\ sh.joining # {}

Publish(sh, members) ==
  /\ epoch' = NextEpoch(members)
  /\ config' = NewConfig(members)
  /\ activeCount' = Cardinality(members)
  /\ slotTicks' = PassTicks(members)
  /\ active' = members
  /\ sinceReconfig' = 0
  /\ shadow' = [sh EXCEPT !.armed = ArmedAfterPublish(sh)]
  /\ publishedCap' = IF members # active \/ ~testAll
                     THEN PassCap(members) ELSE publishedCap

\* tdma_recalculate returns without publishing
PassReturns(sh, members) ==
  /\ shadow' = sh
  /\ slotTicks' = IF members = active /\ members = {} THEN BaseSlotTicks
                  ELSE slotTicks
  /\ publishedCap' = IF members = active /\ (members = {} \/
                          (PassTicks(members) = slotTicks /\ ~testAll))
                     THEN PassCap(members) ELSE publishedCap
  /\ UNCHANGED <<active, activeCount, epoch, config, sinceReconfig>>

\* Does this pass stop to reset the diagnostics and loop once more?
PassRepeats(forced, resampled) ==
  LET sh == PassShadow(forced, resampled)
      members == NewMembers(sh)
  IN  /\ ~PassIdle(members)
      /\ forced \/ ~PassTooEarly(sh, members)
      /\ members # {}
      /\ ~resampled

Pass(forced, resampled) ==
  LET sh == PassShadow(forced, resampled)
      members == NewMembers(sh)
  IN  /\ capLevel' = PassCap(members)
      /\ IF PassIdle(members) \/ (~forced /\ PassTooEarly(sh, members))
         THEN PassReturns(sh, members)
         ELSE IF PassRepeats(forced, resampled)
              THEN shadow' = sh /\ UNCHANGED layoutVars
              ELSE Publish(sh, members)

-----------------------------------------------------------------------------
(* esb_stats_thread *)

MutexFree == pcA = "idle" /\ pcS \in {"wait", "sleep", "sample"}

\* tdma_membership_wait_ms bounded by the time to the next monitor pass
MembershipRemaining ==
  Max2(SignedDiff(shadow.deadline, clock), ReconfigMinMs - sinceReconfig)
WaitMs ==
  IF ~shadow.armed THEN monitorIn
  ELSE IF MembershipRemaining > 0 THEN Min2(monitorIn, MembershipRemaining)
  ELSE 0

StatsWait ==
  /\ pcS = "wait"
  /\ pcS' = "sleep"
  /\ sleep' = WaitMs
  /\ dueFor' = IF shadow.armed /\ MembershipRemaining <= 0
               THEN shadow.deadline ELSE None
  /\ UNCHANGED <<clock, stored, shadowVars, layoutVars, capLevel, modeVars, sem,
                 nowS, monitorIn, monitoring, late, pcA>>

\* k_sem_take returns: the semaphore was given or the timeout elapsed
StatsWake ==
  /\ pcS = "sleep"
  /\ sem = 1 \/ sleep = 0
  /\ sem' = 0
  /\ pcS' = "sample"
  /\ monitoring' = (monitorIn = 0)
  /\ monitorIn' = IF monitorIn = 0 THEN MonitorMs ELSE monitorIn
  /\ UNCHANGED <<clock, stored, shadowVars, layoutVars, capLevel, modeVars, nowS,
                 sleep, late, pcA, dueFor>>

\* takes tracker_store_lock and reads the clock for tdma_shadow_update
StatsSample ==
  /\ pcS = "sample"
  /\ MutexFree
  /\ pcS' = "merge"
  /\ nowS' = clock
  /\ UNCHANGED <<clock, stored, shadowVars, layoutVars, capLevel, modeVars, sem,
                 sleep, monitorIn, monitoring, late, pcA, dueFor>>

\* tdma_shadow_update
StatsMerge ==
  /\ pcS = "merge"
  /\ shadow' = MergedShadow(nowS)
  /\ pcS' = IF monitoring THEN "loss" ELSE "pass1"
  /\ UNCHANGED <<clock, stored, seenAge, owed, layoutVars, capLevel, modeVars, sem,
                 nowS, sleep, monitorIn, monitoring, late, pcA, dueFor>>

LossSteps == {capLevel, Max2(capLevel - 1, 0),
              IF capLevel < TopLevel THEN capLevel + 1 ELSE capLevel}
\* The levels tdma_loss_controller_update may leave: one step from the published
\* one, none while a request is outstanding, none during collection.
LossRequests ==
  IF collecting THEN {publishedCap}
  ELSE IF capLevel # publishedCap THEN {capLevel}
  ELSE LossSteps

\* tdma_loss_controller_tick in the monitor pass
StatsLoss ==
  /\ pcS = "loss"
  /\ capLevel' \in LossRequests
  /\ pcS' = "pass1"
  /\ UNCHANGED <<clock, stored, shadowVars, layoutVars, modeVars, sem, nowS,
                 sleep, monitorIn, monitoring, late, pcA, dueFor>>

\* tdma_recalculate(false)
StatsPass(pc, resampled) ==
  /\ pcS = pc
  /\ Pass(FALSE, resampled)
  /\ pcS' = IF PassRepeats(FALSE, resampled) THEN "pass2" ELSE "wait"
  /\ late' = IF PassRepeats(FALSE, resampled) THEN late ELSE 0
  /\ UNCHANGED <<clock, stored, seenAge, owed, modeVars, sem, nowS, sleep, monitorIn,
                 monitoring, pcA, dueFor>>

Stats == StatsWait \/ StatsWake \/ StatsSample \/ StatsMerge \/ StatsLoss
         \/ StatsPass("pass1", FALSE) \/ StatsPass("pass2", TRUE)

-----------------------------------------------------------------------------
(* Pairing administration. The roster has been saved when these run. *)

\* tracker_slot_reset for a set of slots
ResetSlots(gone) ==
  /\ config' = [i \in Ids |-> IF i \in gone THEN NoConfig ELSE config[i]]
  /\ shadow' = ForgottenShadow(gone)
  /\ seenAge' = [i \in Ids |-> IF i \in gone THEN AgeCap ELSE seenAge[i]]
  /\ owed' = [i \in Ids |-> IF i \in gone THEN 0 ELSE owed[i]]

\* esb_add_pair of an unknown device: takes the next slot, publishes nothing
AdminAdd ==
  /\ MutexFree
  /\ stored < MaxTrackers
  /\ ResetSlots({stored})
  /\ stored' = stored + 1
  /\ UNCHANGED <<clock, active, activeCount, slotTicks, epoch, publishedCap,
                 sinceReconfig, capLevel, modeVars, sem, statsVars, pcA>>

\* the irq_lock section of esb_pop_pair; tdma_recalculate(true) follows
AdminPop ==
  /\ MutexFree
  /\ stored > 0
  /\ stored' = stored - 1
  /\ ResetSlots({stored - 1})
  /\ pcA' = "pass1"
  /\ UNCHANGED <<clock, active, activeCount, slotTicks, epoch, publishedCap,
                 sinceReconfig, capLevel, modeVars, sem, statsVars>>

\* the irq_lock section of esb_clear
AdminClear ==
  /\ MutexFree
  /\ stored' = 0
  /\ ResetSlots(Ids)
  /\ testAll' = FALSE
  /\ pcA' = "pass1"
  /\ UNCHANGED <<clock, active, activeCount, slotTicks, epoch, publishedCap,
                 sinceReconfig, capLevel, collecting, sem, statsVars>>

\* tdma_recalculate(true), then tracker_store_lock is released
AdminPass(pc, resampled) ==
  /\ pcA = pc
  /\ Pass(TRUE, resampled)
  /\ pcA' = IF PassRepeats(TRUE, resampled) THEN "pass2" ELSE "idle"
  /\ UNCHANGED <<clock, stored, seenAge, owed, modeVars, sem, statsVars>>

AdminFinish == AdminPass("pass1", FALSE) \/ AdminPass("pass2", TRUE)
Admin == AdminAdd \/ AdminPop \/ AdminClear \/ AdminFinish

-----------------------------------------------------------------------------
(* The environment *)

\* esb_send_remote_command_test_on_all / _off_all commit their state
SwitchTestAll ==
  /\ TestAllUsed
  /\ testAll' = ~testAll
  /\ UNCHANGED <<clock, stored, shadowVars, layoutVars, capLevel, collecting,
                 sem, statsVars, pcA>>

\* raw data collection starts or stops
SwitchCollect ==
  /\ CollectUsed
  /\ collecting' = ~collecting
  /\ UNCHANGED <<clock, stored, shadowVars, layoutVars, capLevel, testAll,
                 sem, statsVars, pcA>>

\* A tick. The stats thread runs at most MaxLate ticks after it is due, which
\* its priority and the 500 ms monitor interval give in the firmware.
StatsDue == pcS # "sleep" \/ sleep = 0 \/ sem = 1
Tick ==
  /\ StatsDue => late < MaxLate
  /\ late' = IF StatsDue THEN late + 1 ELSE late
  /\ clock' = (clock + 1) % Modulus
  /\ sleep' = Max2(sleep - 1, 0)
  /\ monitorIn' = Max2(monitorIn - 1, 0)
  /\ sinceReconfig' = Min2(sinceReconfig + 1, LossReconfigMinMs)
  /\ seenAge' = [i \in Ids |-> Min2(seenAge[i] + 1, AgeCap)]
  /\ owed' = [i \in Ids |-> IF i \in shadow.evidence \ active
                             THEN Min2(owed[i] + 1, AgeCap) ELSE 0]
  /\ UNCHANGED <<stored, shadow, active, activeCount, slotTicks, epoch, config,
                 publishedCap, capLevel, modeVars, sem, pcS, nowS, monitoring,
                 pcA, dueFor>>

-----------------------------------------------------------------------------
\* At boot nothing is heard or published; the clock may stand anywhere and the
\* roster restores any number of pairings.
Init ==
  /\ clock \in Ticks
  /\ stored \in 0..MaxTrackers
  /\ shadow = [evidence |-> {}, lastSeen |-> [i \in Ids |-> 0], desired |-> {},
               joining |-> {}, armed |-> FALSE, deadline |-> 0]
  /\ active = {} /\ activeCount = 0 /\ slotTicks = 0 /\ epoch = 0
  /\ config = [i \in Ids |-> NoConfig]
  /\ capLevel = 0 /\ publishedCap = 0
  /\ sinceReconfig = LossReconfigMinMs
  /\ testAll = FALSE /\ collecting = FALSE
  /\ sem = 0
  /\ pcS = "wait" /\ nowS = 0 /\ sleep = 0 /\ monitorIn = MonitorMs
  /\ monitoring = FALSE /\ late = 0 /\ dueFor = None
  /\ pcA = "idle"
  /\ seenAge = [i \in Ids |-> AgeCap]
  /\ owed = [i \in Ids |-> 0]

Next ==
  \/ \E i \in Ids : Observe(i)
  \/ Stats
  \/ Admin
  \/ SwitchTestAll
  \/ SwitchCollect
  \/ Tick

Spec == Init /\ [][Next]_vars

-----------------------------------------------------------------------------
(* Properties *)

ShadowType ==
  [evidence : SUBSET Ids, lastSeen : [Ids -> Ticks], desired : SUBSET Ids,
   joining : SUBSET Ids, armed : BOOLEAN, deadline : Ticks]

ConfigType ==
  [slot : Ids \cup {NoSlot}, total : 0..MaxTrackers, ticks : 0..255,
   epoch : 0 .. EpochModulus - 1]

\* Every variable has the range of the C object it stands for: masks hold slot
\* numbers, slot widths and epochs fit their byte.
TypeOK ==
  /\ clock \in Ticks
  /\ stored \in 0..MaxTrackers
  /\ shadow \in ShadowType
  /\ active \subseteq Ids
  /\ activeCount \in 0..MaxTrackers
  /\ slotTicks \in 0..255
  /\ epoch \in 0 .. EpochModulus - 1
  /\ config \in [Ids -> ConfigType]
  /\ capLevel \in 0..4 /\ publishedCap \in 0..4
  /\ sinceReconfig \in 0..LossReconfigMinMs
  /\ testAll \in BOOLEAN /\ collecting \in BOOLEAN
  /\ sem \in {0, 1}
  /\ pcS \in {"wait", "sleep", "sample", "merge", "loss", "pass1", "pass2"}
  /\ nowS \in Ticks
  /\ sleep \in 0..MonitorMs /\ monitorIn \in 0..MonitorMs
  /\ monitoring \in BOOLEAN
  /\ late \in 0..MaxLate
  /\ pcA \in {"idle", "pass1", "pass2"}
  /\ seenAge \in [Ids -> 0..AgeCap] /\ owed \in [Ids -> 0..AgeCap]
  /\ dueFor \in Ticks \cup {None}

\* Trackers whose PONG would carry a usable slot.
Scheduled == {i \in Ids : config[i].total > 0 /\ config[i].slot # NoSlot}

\* No two trackers are ever told to transmit in the same slot, and all of them
\* are told the same frame: this holds also between the slot reset of a removal
\* and the publication it forces, when a PING may be answered at any moment.
NoSlotCollision ==
  \A i, j \in Scheduled : i # j =>
    /\ config[i].slot # config[j].slot
    /\ config[i].total = config[j].total
    /\ config[i].ticks = config[j].ticks
    /\ config[i].epoch = config[j].epoch

\* Outside a forced publication the configurations are exactly the layout of
\* the active mask: every member, and nobody else, owns a slot of the frame that
\* all of them are told (with NoSlotCollision: no slot of it is left unused).
LayoutInForce ==
  pcA = "idle" =>
    /\ Scheduled = active
    /\ activeCount = Cardinality(active)
    /\ \A i \in active : /\ config[i].total = activeCount
                         /\ config[i].ticks = slotTicks
                         /\ config[i].epoch = epoch
                         /\ config[i].slot \in 0 .. activeCount - 1

\* What PONGs tell the trackers is sound at any moment, and complete outside a
\* forced publication.
LayoutSound == NoSlotCollision /\ LayoutInForce

\* No ghost member: whoever is wanted in the layout is paired and has evidence
\* (without the evidence bit merge_locked would never evict it), and the layout
\* in force names only paired trackers once a removal is finished.
NoGhostMember ==
  /\ shadow.desired \subseteq shadow.evidence
  /\ shadow.joining \subseteq shadow.evidence
  /\ shadow.evidence \subseteq StoredIds
  /\ pcA = "idle" => active \subseteq StoredIds

\* The deadline is armed exactly while the layout owes a change: no queued join
\* or departure is left without a wake-up, and an expired deadline that nothing
\* needs never keeps the stats thread from sleeping.
DeadlineTracksChange ==
  pcA = "idle" =>
    (shadow.armed <=> (shadow.desired # active \/ shadow.joining # {}))

\* A tracker that went silent leaves the layout in bounded time: the leave
\* grace, the monitor period in which the next merge notices it, then what is left
\* of a cohort or of the publication spacing, and the delays of the stats thread.
EvictionBounded ==
  \A i \in active \cap StoredIds :
    seenAge[i] < GraceMs + MonitorMs + Max2(CohortMs, ReconfigMinMs) + 3 * MaxLate

\* A tracker that is heard gets its slot in bounded time, whoever else joins or
\* leaves meanwhile: later evidence never extends a cohort, and no sequence of
\* publications keeps a queued join out.
JoinBounded ==
  \A i \in shadow.evidence \ active :
    owed[i] <= Max2(CohortMs, ReconfigMinMs) + 2 * MaxLate

\* An armed deadline lies at most a cohort ahead: none is kept so long that the
\* signed difference of the 32-bit clock reads it as the future again, which would
\* hold every change of the membership back.
DeadlineYoung ==
  shadow.armed => SignedDiff(clock, shadow.deadline) >= 0 - CohortMs

\* The wrapped 32-bit age of every piece of evidence is its true age: evidence
\* never survives long enough to look fresh again after the clock wraps.
AgesExact ==
  \A i \in shadow.evidence :
    /\ seenAge[i] < AgeCap
    /\ SignedDiff(clock, shadow.lastSeen[i]) = seenAge[i]

\* Every change of the membership takes effect in bounded time, at true ages: a
\* silent tracker leaves, a heard one joins, across the wrapping of the clock.
ChangesTimely == EvictionBounded /\ JoinBounded /\ AgesExact

\* A paired member loses its slot in an ordinary publication only if it has been
\* silent for the whole leave grace at that moment, whatever the interrupt heard
\* between the merge and the publication.
NoEarlyEviction ==
  [][pcA = "idle" => \A i \in active \ active' : seenAge[i] >= GraceMs]_vars

\* The stats thread never finds the same expired deadline in two consecutive
\* waits: a zero timeout is always followed by progress, not by a busy loop.
NoSpin ==
  [][pcS = "wait" /\ pcS' = "sleep" /\ dueFor # None => dueFor' # dueFor]_vars

\* A deadline of the stats thread takes no slot too early (tdma_recalculate), and
\* never turns its wait into a busy loop (tdma_membership_wait_ms).
PassesJust == NoEarlyEviction /\ NoSpin

\* A member's configuration never changes under an unchanged epoch: the epoch is
\* how a tracker tells a new frame from the one it follows.
EpochMovesWithLayout ==
  [][\A i \in active \cap active' \cap (0 .. stored' - 1) :
       config'[i] # config[i] => config'[i].epoch # config[i].epoch]_vars

\* The loss controller never runs more than one ladder step ahead of the layout
\* in force, except to fall back to level 0 for a new membership.
LadderOneStep ==
  capLevel \in {0, publishedCap - 1, publishedCap, publishedCap + 1}

\* Raw collection freezes the ladder: while it runs the slot width changes only
\* with the membership, or for test-all mode.
LadderFrozenWhileCollecting ==
  [][collecting /\ active' = active /\ active # {} /\ slotTicks' # slotTicks
       => testAll \/ slotTicks = BaseSlotTicks]_vars

\* The loss ladder moves one published step at a time, and not under a collection.
LadderSound == []LadderOneStep /\ LadderFrozenWhileCollecting
=============================================================================
