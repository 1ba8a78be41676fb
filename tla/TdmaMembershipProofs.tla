------------------------ MODULE TdmaMembershipProofs ------------------------
(***************************************************************************)
(* Proofs about TdmaMembership for every number of trackers and every      *)
(* choice of the time constants: type correctness, the soundness of the    *)
(* published layout, the membership deadline, the epoch, the loss ladder,  *)
(* and the times within which trackers join and leave the layout.          *)
(***************************************************************************)
EXTENDS TdmaMembership, FiniteSetTheorems, TLAPS

-----------------------------------------------------------------------------
(* Arithmetic of the helpers *)

\* The slot numbers of the trackers are a finite set of MaxTrackers elements.
LEMMA IdsFinite ==
  /\ IsFiniteSet(Ids)
  /\ Cardinality(Ids) = MaxTrackers
<1>1. MaxTrackers - 1 \in Int /\ 0 \in Int
  BY ConstantsAssumption
<1>2. /\ IsFiniteSet(0 .. (MaxTrackers - 1))
      /\ Cardinality(0 .. (MaxTrackers - 1)) =
           IF 0 > MaxTrackers - 1 THEN 0 ELSE (MaxTrackers - 1) - 0 + 1
  BY <1>1, FS_Interval, Zenon
<1>3. QED
  BY <1>2, ConstantsAssumption, SMT DEF Ids

\* A set of slot numbers has at most MaxTrackers members.
LEMMA MembersFinite ==
  ASSUME NEW S \in SUBSET Ids
  PROVE  IsFiniteSet(S) /\ Cardinality(S) \in 0..MaxTrackers
<1>1. IsFiniteSet(S) /\ Cardinality(S) <= Cardinality(Ids)
  BY IdsFinite, FS_Subset
<1>2. Cardinality(S) \in Nat
  BY <1>1, FS_CardinalityType
<1>3. QED
  BY <1>1, <1>2, IdsFinite, ConstantsAssumption

\* The rank of a member is one of the slots of the frame.
LEMMA RankRange ==
  ASSUME NEW S \in SUBSET Ids, NEW i \in S
  PROVE  Rank(S, i) \in 0 .. Cardinality(S) - 1
<1> DEFINE below == {j \in S : j < i}
<1>1. IsFiniteSet(S) /\ Cardinality(S) \in Nat
  BY MembersFinite, FS_CardinalityType
<1>2. IsFiniteSet(S \ {i}) /\ Cardinality(S \ {i}) = Cardinality(S) - 1
  BY <1>1, FS_RemoveElement
<1>3. below \subseteq S \ {i}
  BY DEF Ids
<1>4. IsFiniteSet(below) /\ Cardinality(below) <= Cardinality(S \ {i})
  BY <1>2, <1>3, FS_Subset
<1>5. Cardinality(below) \in Nat
  BY <1>4, FS_CardinalityType
<1>6. QED
  BY <1>1, <1>2, <1>4, <1>5 DEF Rank

\* Two members have different ranks.
LEMMA RankInjective ==
  ASSUME NEW S \in SUBSET Ids, NEW i \in S, NEW j \in S, i < j
  PROVE  Rank(S, i) < Rank(S, j)
<1> DEFINE below(k) == {m \in S : m < k}
<1>1. IsFiniteSet(S)
  BY MembersFinite
<1>2. IsFiniteSet(below(i)) /\ IsFiniteSet(below(j))
  BY <1>1, FS_Subset
<1>3. i \notin below(i)
  BY DEF Ids
<1>4. Cardinality(below(i) \cup {i}) = Cardinality(below(i)) + 1
      /\ IsFiniteSet(below(i) \cup {i})
  BY <1>2, <1>3, FS_AddElement
<1>. \A m \in S : m \in Int
  BY ConstantsAssumption DEF Ids
<1>5. below(i) \cup {i} \subseteq below(j)
  OBVIOUS
<1>6. Cardinality(below(i) \cup {i}) <= Cardinality(below(j))
  BY <1>2, <1>5, FS_Subset
<1>7. Cardinality(below(i)) \in Nat /\ Cardinality(below(j)) \in Nat
  BY <1>2, FS_CardinalityType
<1>8. QED
  BY <1>4, <1>6, <1>7 DEF Rank

\* A slot width fits the byte the PONG carries.
LEMMA SlotTicksRange ==
  ASSUME NEW n \in Nat, NEW level \in 0..4, NEW test \in BOOLEAN
  PROVE  SlotTicksFor(n, level, test) \in 0..255
<1> DEFINE quot == 32768 \div (n * CapLadder[level])
           limit == IF level = 0 THEN SlotTicksMaxLevel0 ELSE 255
           sticks == Min2(quot, limit)
<1>1. CASE n = 0 \/ test
  BY <1>1 DEF SlotTicksFor, BaseSlotTicks
<1>2. CASE ~(n = 0 \/ test)
  <2>1. CapLadder[level] \in {220, 180, 150, 130, 115}
    BY DEF CapLadder
  <2>2. n * CapLadder[level] \in Nat \ {0}
    BY <1>2, <2>1
  <2>3. quot \in Nat
    BY <2>2
  <2>4. limit \in {64, 255}
    BY DEF SlotTicksMaxLevel0
  <2>5. sticks \in 0..255
    BY <2>3, <2>4 DEF Min2
  <2>6. SlotTicksFor(n, level, test) = Max2(sticks - (sticks % 2), BaseSlotTicks)
    BY <1>2 DEF SlotTicksFor
  <2>7. sticks % 2 \in 0..1 /\ sticks - (sticks % 2) \in 0..255
    <3> HIDE DEF sticks
    <3> QED BY <2>5
  <2>8. QED
    <3> HIDE DEF sticks
    <3> QED BY <2>6, <2>7 DEF Max2, BaseSlotTicks
<1>3. QED
  BY <1>1, <1>2

\* A merge yields a well-typed shadow state.
LEMMA MergedType ==
  ASSUME TypeOK, NEW now \in Ticks
  PROVE  MergedShadow(now) \in ShadowType
<1>1. 0 \in Ticks
  BY ConstantsAssumption DEF Ticks
<1>2. MergedWant(now) \in SUBSET Ids
  BY DEF MergedWant, Wanted, Withdrawn, Evicted, Joined, Evidence, TypeOK, ShadowType
<1>3. shadow.evidence \ Cleared(now) \in SUBSET Ids
  BY DEF TypeOK, ShadowType
<1>4. [i \in Ids |-> IF i \in Cleared(now) THEN 0 ELSE shadow.lastSeen[i]] \in [Ids -> Ticks]
  BY <1>1 DEF TypeOK, ShadowType
<1>5. MergedDeadline(now) \in Ticks
  BY DEF MergedDeadline, TypeOK, ShadowType
<1>6. QED
  BY <1>2, <1>3, <1>4, <1>5 DEF MergedShadow, ShadowType

\* What one pass of tdma_recalculate computes is well typed.
LEMMA PassTypes ==
  ASSUME TypeOK, NEW forced \in BOOLEAN, NEW resampled \in BOOLEAN
  PROVE  LET sh == PassShadow(forced, resampled)
             members == NewMembers(sh)
         IN  /\ sh \in ShadowType
             /\ members \in SUBSET Ids
             /\ PassCap(members) \in 0..4
             /\ PassTicks(members) \in 0..255
             /\ NextEpoch(members) \in 0 .. EpochModulus - 1
             /\ NewConfig(members) \in [Ids -> ConfigType]
<1> DEFINE sh == PassShadow(forced, resampled)
           members == NewMembers(sh)
<1>1. sh \in ShadowType
  BY MergedType DEF PassShadow, TypeOK
<1>2. members \in SUBSET Ids
  BY <1>1 DEF NewMembers, ShadowType
<1> HIDE DEF members, sh
<1>3. PassCap(members) \in 0..4
  BY DEF PassCap, TypeOK
<1>4. Cardinality(members) \in 0..MaxTrackers
  BY <1>2, MembersFinite
<1>5. PassTicks(members) \in 0..255
  <2>1. Cardinality(members) \in Nat
    BY <1>4, ConstantsAssumption
  <2>2. testAll \in BOOLEAN
    BY DEF TypeOK
  <2>3. SlotTicksFor(Cardinality(members), PassCap(members), testAll) \in 0..255
    BY <1>3, <2>1, <2>2, SlotTicksRange, Zenon
  <2>4. QED
    BY <2>3 DEF PassTicks
<1>6. NextEpoch(members) \in 0 .. EpochModulus - 1
  BY ConstantsAssumption DEF NextEpoch, TypeOK
<1>7. ASSUME NEW i \in Ids
      PROVE (IF i \in members THEN Rank(members, i) ELSE NoSlot) \in Ids \cup {NoSlot}
  BY <1>2, <1>4, RankRange, ConstantsAssumption DEF Ids
<1>8. NewConfig(members) \in [Ids -> ConfigType]
  BY <1>4, <1>5, <1>6, <1>7 DEF NewConfig, ConfigType
<1>9. QED
  BY <1>1, <1>2, <1>3, <1>5, <1>6, <1>8 DEF members, sh

LayoutTypeOK ==
  /\ shadow \in ShadowType
  /\ active \subseteq Ids
  /\ activeCount \in 0..MaxTrackers
  /\ slotTicks \in 0..255
  /\ epoch \in 0 .. EpochModulus - 1
  /\ config \in [Ids -> ConfigType]
  /\ capLevel \in 0..4 /\ publishedCap \in 0..4
  /\ sinceReconfig \in 0..LossReconfigMinMs

\* A pass keeps the layout well typed, whatever way it ends.
LEMMA PassTyped ==
  ASSUME TypeOK, NEW forced \in BOOLEAN, NEW resampled \in BOOLEAN,
         Pass(forced, resampled)
  PROVE  LayoutTypeOK'
<1> DEFINE sh == PassShadow(forced, resampled)
           members == NewMembers(sh)
<1>1. /\ sh \in ShadowType
      /\ members \in SUBSET Ids
      /\ PassCap(members) \in 0..4
      /\ PassTicks(members) \in 0..255
      /\ NextEpoch(members) \in 0 .. EpochModulus - 1
      /\ NewConfig(members) \in [Ids -> ConfigType]
  BY PassTypes
<1>2. Cardinality(members) \in 0..MaxTrackers
  BY <1>1, MembersFinite
<1>3. /\ capLevel' = PassCap(members)
      /\ \/ PassReturns(sh, members)
         \/ shadow' = sh /\ UNCHANGED layoutVars
         \/ Publish(sh, members)
  BY DEF Pass
<1> HIDE DEF members, sh
<1>4. CASE PassReturns(sh, members)
  BY <1>1, <1>3, <1>4 DEF PassReturns, LayoutTypeOK, TypeOK, BaseSlotTicks
<1>5. CASE shadow' = sh /\ UNCHANGED layoutVars
  BY <1>1, <1>3, <1>5 DEF layoutVars, LayoutTypeOK, TypeOK
<1>6. CASE Publish(sh, members)
  <2>1. [sh EXCEPT !.armed = ArmedAfterPublish(sh)] \in ShadowType
    BY <1>1 DEF ShadowType, ArmedAfterPublish
  <2>2. 0 \in 0..LossReconfigMinMs
    BY ConstantsAssumption
  <2>3. QED
    BY <1>1, <1>2, <1>3, <1>6, <2>1, <2>2 DEF Publish, LayoutTypeOK, TypeOK
<1>7. QED
  BY <1>3, <1>4, <1>5, <1>6

-----------------------------------------------------------------------------
(* Type correctness *)

\* Initial states are well typed.
LEMMA InitTyped == Init => TypeOK
<1> SUFFICES ASSUME Init PROVE TypeOK
  OBVIOUS
<1>1. 0 \in Ticks /\ AgeCap \in Nat
  BY ConstantsAssumption DEF Ticks, AgeCap
<1>2. NoConfig \in ConfigType
  BY ConstantsAssumption DEF NoConfig, ConfigType, Ids
<1>3. shadow \in ShadowType
  BY <1>1 DEF Init, ShadowType
<1>4. config \in [Ids -> ConfigType]
  BY <1>2 DEF Init
<1>5. seenAge \in [Ids -> 0..AgeCap] /\ owed \in [Ids -> 0..AgeCap]
  BY <1>1 DEF Init
<1>6. active \subseteq Ids /\ activeCount \in 0..MaxTrackers /\ slotTicks \in 0..255
      /\ epoch \in 0 .. EpochModulus - 1 /\ capLevel \in 0..4
      /\ publishedCap \in 0..4 /\ sinceReconfig \in 0..LossReconfigMinMs
      /\ late \in 0..MaxLate /\ sleep \in 0..MonitorMs /\ monitorIn \in 0..MonitorMs
  BY ConstantsAssumption DEF Init
<1>7. clock \in Ticks /\ nowS \in Ticks /\ dueFor \in Ticks \cup {None}
  BY <1>1 DEF Init
<1>8. QED
  BY <1>3, <1>4, <1>5, <1>6, <1>7 DEF Init, TypeOK

\* The slots an administrator resets leave a well-typed state.
LEMMA ResetTyped ==
  ASSUME TypeOK, NEW gone \in SUBSET Ids, ResetSlots(gone)
  PROVE  /\ config' \in [Ids -> ConfigType]
         /\ shadow' \in ShadowType
         /\ seenAge' \in [Ids -> 0..AgeCap]
         /\ owed' \in [Ids -> 0..AgeCap]
<1>1. 0 \in Ticks /\ AgeCap \in Nat
  BY ConstantsAssumption DEF Ticks, AgeCap
<1>2. NoConfig \in ConfigType
  BY ConstantsAssumption DEF NoConfig, ConfigType, Ids
<1>3. ForgottenShadow(gone) \in ShadowType
  <2>1. [i \in Ids |-> IF i \in gone THEN 0 ELSE shadow.lastSeen[i]] \in [Ids -> Ticks]
    BY <1>1 DEF TypeOK, ShadowType
  <2>2. QED
    BY <2>1 DEF ForgottenShadow, TypeOK, ShadowType
<1>4. QED
  BY <1>1, <1>2, <1>3 DEF ResetSlots, TypeOK

\* Every step keeps the state well typed.
LEMMA NextTyped == TypeOK /\ [Next]_vars => TypeOK'
<1> SUFFICES ASSUME TypeOK, [Next]_vars PROVE TypeOK'
  OBVIOUS
<1> USE DEF shadowVars, layoutVars, modeVars, statsVars
<1>1. CASE \E i \in Ids : Observe(i)
  <2> PICK i \in Ids : Observe(i)
    BY <1>1
  <2>1. ObservedShadow(i) \in ShadowType
    <3>1. (clock + CohortMs) % Modulus \in Ticks
      BY ConstantsAssumption DEF TypeOK, Ticks
    <3>2. QED
      BY <3>1 DEF ObservedShadow, TypeOK, ShadowType
  <2>2. 0 \in 0..AgeCap
    BY ConstantsAssumption DEF AgeCap
  <2>3. QED
    BY <2>1, <2>2 DEF Observe, TypeOK
<1>2. CASE StatsWait
  <2>1. WaitMs \in 0..MonitorMs
    <3>1. MembershipRemaining \in Int
      BY ConstantsAssumption
      DEF MembershipRemaining, TypeOK, ShadowType, Ticks, SignedDiff, Max2
    <3>2. monitorIn \in 0..MonitorMs /\ MonitorMs \in Nat
      BY ConstantsAssumption DEF TypeOK
    <3>3. QED
      BY <3>1, <3>2 DEF WaitMs, Min2
  <2>2. dueFor' \in Ticks \cup {None}
    BY <1>2 DEF StatsWait, TypeOK, ShadowType
  <2>3. QED
    BY <1>2, <2>1, <2>2 DEF StatsWait, TypeOK
<1>3. CASE StatsWake
  BY <1>3, ConstantsAssumption DEF StatsWake, TypeOK
<1>4. CASE StatsSample
  BY <1>4 DEF StatsSample, TypeOK
<1>5. CASE StatsMerge
  <2>1. MergedShadow(nowS) \in ShadowType
    BY MergedType DEF TypeOK
  <2>2. QED
    BY <1>5, <2>1 DEF StatsMerge, TypeOK
<1>6. CASE StatsLoss
  <2>1. LossRequests \subseteq 0..4
    BY ConstantsAssumption DEF LossRequests, LossSteps, Max2, TypeOK
  <2>2. QED
    BY <1>6, <2>1 DEF StatsLoss, TypeOK
<1>7. CASE StatsPass("pass1", FALSE) \/ StatsPass("pass2", TRUE)
  <2>1. PICK r \in BOOLEAN : \E pc : StatsPass(pc, r)
    BY <1>7
  <2>2. LayoutTypeOK'
    BY <2>1, PassTyped DEF StatsPass
  <2>3. pcS' \in {"wait", "pass2"} /\ late' \in 0..MaxLate
    <3>1. late \in 0..MaxLate /\ 0 \in 0..MaxLate
      BY ConstantsAssumption DEF TypeOK
    <3>2. /\ pcS' = "pass2" \/ pcS' = "wait"
          /\ late' = late \/ late' = 0
      BY <2>1, Zenon DEF StatsPass
    <3>3. QED
      BY <3>1, <3>2
  <2>4. UNCHANGED <<clock, stored, seenAge, owed, testAll, collecting, sem, nowS,
                    sleep, monitorIn, monitoring, pcA, dueFor>>
    BY <2>1 DEF StatsPass
  <2>5. QED
    BY <2>2, <2>3, <2>4 DEF TypeOK, LayoutTypeOK
<1>8. CASE AdminAdd
  <2>1. {stored} \in SUBSET Ids
    BY <1>8, ConstantsAssumption DEF AdminAdd, TypeOK, Ids
  <2>2. stored' \in 0..MaxTrackers
    BY <1>8, ConstantsAssumption DEF AdminAdd, TypeOK
  <2>3. /\ config' \in [Ids -> ConfigType]
        /\ shadow' \in ShadowType
        /\ seenAge' \in [Ids -> 0..AgeCap]
        /\ owed' \in [Ids -> 0..AgeCap]
    BY <1>8, <2>1, ResetTyped DEF AdminAdd
  <2>4. QED
    BY <1>8, <2>2, <2>3 DEF AdminAdd, TypeOK
<1>9. CASE AdminPop
  <2>1. {stored - 1} \in SUBSET Ids
    BY <1>9, ConstantsAssumption DEF AdminPop, TypeOK, Ids
  <2>2. stored' \in 0..MaxTrackers
    BY <1>9, ConstantsAssumption DEF AdminPop, TypeOK
  <2>3. /\ config' \in [Ids -> ConfigType]
        /\ shadow' \in ShadowType
        /\ seenAge' \in [Ids -> 0..AgeCap]
        /\ owed' \in [Ids -> 0..AgeCap]
    BY <1>9, <2>1, ResetTyped DEF AdminPop
  <2>4. QED
    BY <1>9, <2>2, <2>3 DEF AdminPop, TypeOK
<1>10. CASE AdminClear
  <2>1. stored' \in 0..MaxTrackers
    BY <1>10, ConstantsAssumption DEF AdminClear
  <2>2. /\ config' \in [Ids -> ConfigType]
        /\ shadow' \in ShadowType
        /\ seenAge' \in [Ids -> 0..AgeCap]
        /\ owed' \in [Ids -> 0..AgeCap]
    BY <1>10, ResetTyped DEF AdminClear
  <2>3. QED
    BY <1>10, <2>1, <2>2 DEF AdminClear, TypeOK
<1>11. CASE AdminFinish
  <2>1. PICK r \in BOOLEAN : \E pc : AdminPass(pc, r)
    BY <1>11 DEF AdminFinish
  <2>2. LayoutTypeOK'
    BY <2>1, PassTyped DEF AdminPass
  <2>3. QED
    BY <2>1, <2>2 DEF AdminPass, TypeOK, LayoutTypeOK
<1>12. CASE SwitchTestAll \/ SwitchCollect
  <2>1. testAll' \in BOOLEAN /\ collecting' \in BOOLEAN
    BY <1>12 DEF SwitchTestAll, SwitchCollect, TypeOK
  <2>2. UNCHANGED <<clock, stored, shadowVars, layoutVars, capLevel, sem,
                    statsVars, pcA>>
    BY <1>12 DEF SwitchTestAll, SwitchCollect
  <2>3. QED
    BY <2>1, <2>2 DEF TypeOK
<1>13. CASE Tick
  <2>1. AgeCap \in Nat
    BY ConstantsAssumption DEF AgeCap
  <2>2. clock' \in Ticks
    BY <1>13, ConstantsAssumption DEF Tick, TypeOK, Ticks
  <2>3. /\ late' \in 0..MaxLate
        /\ sleep' \in 0..MonitorMs /\ monitorIn' \in 0..MonitorMs
        /\ sinceReconfig' \in 0..LossReconfigMinMs
    BY <1>13, ConstantsAssumption DEF Tick, TypeOK, Max2, Min2, StatsDue
  <2>4. seenAge' \in [Ids -> 0..AgeCap] /\ owed' \in [Ids -> 0..AgeCap]
    BY <1>13, <2>1 DEF Tick, TypeOK, Min2
  <2>5. QED
    BY <1>13, <2>2, <2>3, <2>4 DEF Tick, TypeOK
<1>14. CASE UNCHANGED vars
  BY <1>14 DEF vars, TypeOK
<1>15. QED
  BY <1>1, <1>2, <1>3, <1>4, <1>5, <1>6, <1>7, <1>8, <1>9, <1>10, <1>11, <1>12,
     <1>13, <1>14 DEF Next, Stats, Admin

\* Type correctness: in every reachable state the masks name slots, the slot
\* widths and epochs fit their bytes and the timers stay in their ranges.
THEOREM TypeCorrect == Spec => []TypeOK
<1>1. Init => TypeOK
  BY InitTyped
<1>2. TypeOK /\ [Next]_vars => TypeOK'
  BY NextTyped
<1>3. QED
  BY <1>1, <1>2, PTL DEF Spec

-----------------------------------------------------------------------------
(* The inductive invariant. LayoutInForce speaks of quiet states only; what  *)
(* makes it inductive is what still holds inside the window of a forced      *)
(* publication, when the mask in force may name a tracker just removed.      *)

LayoutOf(i) == [slot |-> Rank(active, i), total |-> activeCount,
                ticks |-> slotTicks, epoch |-> epoch]

InvMutex == pcA # "idle" => pcS \in {"wait", "sleep", "sample"}

InvConfig ==
  /\ activeCount = Cardinality(active)
  /\ \A i \in Ids : i \in active /\ i \in StoredIds => config[i] = LayoutOf(i)
  /\ \A i \in Ids : ~(i \in active /\ i \in StoredIds) =>
                      config[i].total = 0 \/ config[i].slot = NoSlot

InvShadow ==
  /\ shadow.desired \subseteq shadow.evidence
  /\ shadow.joining \subseteq shadow.evidence
  /\ shadow.evidence \subseteq StoredIds

InvArmed ==
  /\ shadow.joining # {} => shadow.armed
  /\ shadow.armed => shadow.desired # active \/ shadow.joining # {}

InvIdle ==
  pcA = "idle" => /\ active \subseteq StoredIds
                  /\ shadow.desired # active => shadow.armed

IInv == TypeOK /\ InvMutex /\ InvConfig /\ InvShadow /\ InvArmed /\ InvIdle

\* A merge leaves consistent masks and arms the deadline exactly when the
\* wanted membership differs from the one in force.
LEMMA MergedInv ==
  ASSUME TypeOK, InvShadow, NEW now \in Ticks
  PROVE  LET sh == MergedShadow(now)
         IN  /\ sh.desired \subseteq sh.evidence
             /\ sh.joining = {}
             /\ sh.evidence \subseteq StoredIds
             /\ sh.armed <=> sh.desired # active
<1>1. MergedWant(now) \subseteq shadow.evidence \ Cleared(now)
  BY DEF MergedWant, Cleared, Wanted, Withdrawn, Evicted, Joined, Expired,
         Evidence, InvShadow
<1>2. shadow.evidence \ Cleared(now) \subseteq StoredIds
  BY DEF InvShadow
<1>3. QED
  BY <1>1, <1>2 DEF MergedShadow

\* The masks a pass works on: consistent, with a deadline for every join.
\* An ordinary pass that has not merged has no join to lose.
LEMMA PassShadowInv ==
  ASSUME IInv, NEW forced \in BOOLEAN, NEW resampled \in BOOLEAN
  PROVE  LET sh == PassShadow(forced, resampled)
         IN  /\ sh.desired \subseteq sh.evidence
             /\ sh.joining \subseteq sh.evidence
             /\ sh.evidence \subseteq StoredIds
             /\ sh.joining # {} => sh.armed
             /\ sh.armed => sh.desired # active \/ sh.joining # {}
             /\ pcA = "idle" /\ sh.desired # active => sh.armed
<1>1. clock \in Ticks
  BY DEF IInv, TypeOK
<1>2. CASE PassShadow(forced, resampled) = MergedShadow(clock)
  BY <1>1, <1>2, MergedInv DEF IInv
<1>3. CASE PassShadow(forced, resampled) = shadow
  BY <1>3 DEF IInv, InvShadow, InvArmed, InvIdle
<1>4. QED
  BY <1>2, <1>3 DEF PassShadow

\* Whatever way a pass of tdma_recalculate ends, the configurations are the
\* layout of the mask in force and the deadline matches what is still owed.
LEMMA PassInv ==
  ASSUME IInv, NEW forced \in BOOLEAN, NEW resampled \in BOOLEAN,
         Pass(forced, resampled), stored' = stored
  PROVE  /\ InvConfig'
         /\ InvShadow'
         /\ InvArmed'
         /\ ~PassRepeats(forced, resampled) /\ (pcA = "idle" \/ forced) =>
              /\ active' \subseteq StoredIds'
              /\ shadow'.desired # active' => shadow'.armed
         /\ PassRepeats(forced, resampled) =>
              /\ active' = active
              /\ pcA = "idle" /\ shadow'.desired # active' => shadow'.armed
<1> DEFINE sh == PassShadow(forced, resampled)
           members == NewMembers(sh)
<1>1. /\ sh.desired \subseteq sh.evidence
      /\ sh.joining \subseteq sh.evidence
      /\ sh.evidence \subseteq StoredIds
      /\ sh.joining # {} => sh.armed
      /\ sh.armed => sh.desired # active \/ sh.joining # {}
      /\ pcA = "idle" /\ sh.desired # active => sh.armed
  BY PassShadowInv
<1>2. /\ sh \in ShadowType
      /\ members \in SUBSET Ids
  BY PassTypes DEF IInv
<1>3. members = sh.desired
  BY <1>1 DEF NewMembers
<1>4. StoredIds' = StoredIds
  BY DEF StoredIds
<1>5. \/ /\ PassReturns(sh, members)
         /\ ~PassRepeats(forced, resampled)
         /\ forced => members = active
      \/ /\ shadow' = sh /\ UNCHANGED layoutVars
         /\ PassRepeats(forced, resampled)
      \/ /\ Publish(sh, members)
         /\ ~PassRepeats(forced, resampled)
  BY Zenon DEF Pass, PassRepeats, PassIdle
<1> HIDE DEF members, sh
<1>6. CASE /\ PassReturns(sh, members)
           /\ ~PassRepeats(forced, resampled)
           /\ forced => members = active
  <2>1. /\ shadow' = sh
        /\ active # {} => slotTicks' = slotTicks
        /\ UNCHANGED <<active, activeCount, epoch, config>>
    BY <1>6 DEF PassReturns
  <2>2. InvConfig'
    BY <1>4, <2>1 DEF IInv, InvConfig, LayoutOf
  <2>3. InvShadow' /\ InvArmed'
    BY <1>1, <1>4, <2>1 DEF InvShadow, InvArmed
  <2>4. QED
    BY <1>1, <1>3, <1>4, <1>6, <2>1, <2>2, <2>3 DEF IInv, InvIdle
<1>7. CASE /\ shadow' = sh /\ UNCHANGED layoutVars
           /\ PassRepeats(forced, resampled)
  <2>1. InvConfig'
    BY <1>4, <1>7 DEF IInv, InvConfig, LayoutOf, layoutVars
  <2>2. InvShadow' /\ InvArmed'
    BY <1>1, <1>4, <1>7 DEF InvShadow, InvArmed, layoutVars
  <2>3. QED
    BY <1>1, <1>7, <2>1, <2>2 DEF layoutVars
<1>8. CASE /\ Publish(sh, members)
           /\ ~PassRepeats(forced, resampled)
  <2>1. /\ active' = members
        /\ activeCount' = Cardinality(members)
        /\ slotTicks' = PassTicks(members)
        /\ epoch' = NextEpoch(members)
        /\ config' = NewConfig(members)
    BY <1>8 DEF Publish
  <2>2. /\ shadow'.desired = sh.desired
        /\ shadow'.evidence = sh.evidence
        /\ shadow'.joining = sh.joining
        /\ shadow'.armed <=> sh.armed /\ sh.joining # {}
    BY <1>2, <1>8 DEF Publish, ShadowType, ArmedAfterPublish
  <2>3. members \subseteq StoredIds
    BY <1>1, <1>3
  <2>4. InvConfig'
    BY <1>4, <2>1, <2>3 DEF InvConfig, LayoutOf, NewConfig, Rank
  <2>5. InvShadow' /\ InvArmed'
    BY <1>1, <1>4, <2>2 DEF InvShadow, InvArmed
  <2>6. shadow'.desired = active'
    BY <1>3, <2>1, <2>2
  <2>7. QED
    BY <1>4, <1>8, <2>1, <2>3, <2>4, <2>5, <2>6
<1>9. QED
  BY <1>5, <1>6, <1>7, <1>8

\* The slot reset of an administrator: what it keeps of the invariant when the
\* pairings left are exactly the ones not reset.
LEMMA ResetInv ==
  ASSUME IInv, NEW gone \in SUBSET Ids, gone # {}, ResetSlots(gone),
         pcA = "idle", StoredIds' \cap gone = {}, StoredIds \ gone = StoredIds',
         NEW top \in gone, \A k \in gone : k <= top,
         UNCHANGED <<active, activeCount, slotTicks, epoch>>
  PROVE  InvConfig' /\ InvShadow' /\ InvArmed'
<1>1. /\ shadow'.evidence = shadow.evidence \ gone
      /\ shadow'.desired = shadow.desired \ gone
      /\ shadow'.joining = shadow.joining \ gone
  BY DEF ResetSlots, ForgottenShadow
<1>2. /\ shadow'.armed => shadow.armed
      /\ shadow'.armed => shadow'.desired # active \/ shadow'.joining # {}
  <2>1. {j \in gone : j <= top} = gone
    OBVIOUS
  <2>2. QED
    BY <1>1, <2>1 DEF ResetSlots, ForgottenShadow
<1>3. shadow'.joining # {} => shadow'.armed
  <2>1. SUFFICES ASSUME shadow.joining \ gone # {} PROVE shadow'.armed
    BY <1>1
  <2>2. shadow.armed
    BY <2>1 DEF IInv, InvArmed
  <2>3. ASSUME NEW k \in gone
        PROVE  shadow.joining \ {j \in gone : j <= k} # {}
    BY <2>1
  <2>4. QED
    BY <2>2, <2>3 DEF ResetSlots, ForgottenShadow
<1>4. InvShadow' /\ InvArmed'
  BY <1>1, <1>2, <1>3 DEF IInv, InvShadow, InvArmed
<1>5. InvConfig'
  BY DEF IInv, InvConfig, ResetSlots, LayoutOf, NoConfig, TypeOK
<1>6. QED
  BY <1>4, <1>5

\* Every step preserves the invariant.
LEMMA NextInv == IInv /\ [Next]_vars => IInv'
<1> SUFFICES ASSUME IInv, [Next]_vars PROVE IInv'
  OBVIOUS
<1>0. TypeOK'
  BY NextTyped DEF IInv
<1>1. CASE \E i \in Ids : Observe(i)
  <2> PICK i \in Ids : Observe(i)
    BY <1>1
  <2>1. /\ UNCHANGED <<stored, layoutVars, pcS, pcA>>
        /\ StoredIds' = StoredIds
        /\ i \in StoredIds
    BY DEF Observe, statsVars, StoredIds
  <2>2. /\ shadow'.desired = shadow.desired
        /\ shadow'.evidence = shadow.evidence \cup {i}
        /\ shadow'.joining = IF i \notin shadow.desired
                             THEN shadow.joining \cup {i} ELSE shadow.joining
        /\ shadow'.armed = (shadow.armed \/ i \notin shadow.desired)
    BY DEF Observe, ObservedShadow, Queues, IInv, TypeOK, ShadowType
  <2>3. InvMutex' /\ InvConfig'
    BY <2>1 DEF IInv, InvMutex, InvConfig, LayoutOf, layoutVars
  <2>4. InvShadow'
    BY <2>1, <2>2 DEF IInv, InvShadow
  <2>5. InvArmed' /\ InvIdle'
    BY <2>1, <2>2 DEF IInv, InvArmed, InvIdle, layoutVars
  <2>6. QED
    BY <1>0, <2>3, <2>4, <2>5 DEF IInv
<1>2. CASE StatsWait \/ StatsWake \/ StatsSample
  <2>1. UNCHANGED <<stored, shadow, layoutVars, pcA>> /\ StoredIds' = StoredIds
    BY <1>2 DEF StatsWait, StatsWake, StatsSample, shadowVars, StoredIds
  <2>2. InvMutex'
    BY <1>2, <2>1 DEF StatsWait, StatsWake, StatsSample, MutexFree, IInv, InvMutex
  <2>3. InvConfig' /\ InvShadow' /\ InvArmed' /\ InvIdle'
    BY <2>1 DEF IInv, InvConfig, InvShadow, InvArmed, InvIdle, LayoutOf, layoutVars
  <2>4. QED
    BY <1>0, <2>2, <2>3 DEF IInv
<1>3. CASE StatsMerge
  <2>1. /\ UNCHANGED <<stored, layoutVars, pcA>> /\ StoredIds' = StoredIds
        /\ shadow' = MergedShadow(nowS)
        /\ pcS = "merge"
    BY <1>3 DEF StatsMerge, StoredIds
  <2>2. pcA = "idle"
    BY <2>1 DEF IInv, InvMutex
  <2>3. /\ shadow'.desired \subseteq shadow'.evidence
        /\ shadow'.joining = {}
        /\ shadow'.evidence \subseteq StoredIds
        /\ shadow'.armed <=> shadow'.desired # active
    BY <2>1, MergedInv DEF IInv, TypeOK
  <2>4. InvMutex' /\ InvConfig'
    BY <2>1, <2>2 DEF IInv, InvMutex, InvConfig, LayoutOf, layoutVars
  <2>5. InvShadow' /\ InvArmed' /\ InvIdle'
    BY <2>1, <2>3 DEF IInv, InvShadow, InvArmed, InvIdle, layoutVars
  <2>6. QED
    BY <1>0, <2>4, <2>5 DEF IInv
<1>4. CASE StatsLoss
  <2>1. UNCHANGED <<stored, shadow, layoutVars, pcA>> /\ StoredIds' = StoredIds
    BY <1>4 DEF StatsLoss, shadowVars, StoredIds
  <2>2. InvMutex'
    BY <1>4, <2>1 DEF StatsLoss, IInv, InvMutex
  <2>3. InvConfig' /\ InvShadow' /\ InvArmed' /\ InvIdle'
    BY <2>1 DEF IInv, InvConfig, InvShadow, InvArmed, InvIdle, LayoutOf, layoutVars
  <2>4. QED
    BY <1>0, <2>2, <2>3 DEF IInv
<1>5. CASE StatsPass("pass1", FALSE) \/ StatsPass("pass2", TRUE)
  <2>1. PICK r \in BOOLEAN : \E pc \in {"pass1", "pass2"} : StatsPass(pc, r)
    BY <1>5
  <2>2. /\ Pass(FALSE, r) /\ stored' = stored /\ pcA' = pcA
        /\ pcS \in {"pass1", "pass2"}
    BY <2>1 DEF StatsPass
  <2>3. pcA = "idle"
    BY <2>2 DEF IInv, InvMutex
  <2>4. /\ InvConfig' /\ InvShadow' /\ InvArmed'
        /\ ~PassRepeats(FALSE, r) => /\ active' \subseteq StoredIds'
                                     /\ shadow'.desired # active' => shadow'.armed
        /\ PassRepeats(FALSE, r) => /\ active' = active
                                    /\ shadow'.desired # active' => shadow'.armed
    BY <2>2, <2>3, PassInv, Zenon
  <2>5. active \subseteq StoredIds /\ StoredIds' = StoredIds
    BY <2>2, <2>3 DEF IInv, InvIdle, StoredIds
  <2>6. InvMutex' /\ InvIdle'
    BY <2>2, <2>3, <2>4, <2>5 DEF InvMutex, InvIdle
  <2>7. QED
    BY <1>0, <2>4, <2>6 DEF IInv
<1>6. CASE AdminAdd
  <2>1. /\ pcA = "idle" /\ pcA' = "idle" /\ pcS' = pcS
        /\ UNCHANGED <<active, activeCount, slotTicks, epoch>>
        /\ stored' = stored + 1
        /\ ResetSlots({stored})
        /\ stored \in Ids /\ stored \in Nat
    BY <1>6, ConstantsAssumption DEF AdminAdd, MutexFree, IInv, TypeOK, statsVars, Ids
  <2>2. StoredIds' = StoredIds \cup {stored} /\ stored \notin StoredIds
    BY <2>1 DEF StoredIds
  <2>3. active \subseteq StoredIds /\ shadow.evidence \subseteq StoredIds
        /\ shadow.desired \subseteq StoredIds /\ shadow.joining \subseteq StoredIds
    BY <2>1 DEF IInv, InvIdle, InvShadow
  <2>4. /\ shadow'.evidence = shadow.evidence
        /\ shadow'.desired = shadow.desired
        /\ shadow'.joining = shadow.joining
    BY <2>1, <2>2, <2>3 DEF ResetSlots, ForgottenShadow
  <2>5. shadow'.armed <=> shadow.armed
    <3>1. {j \in {stored} : j <= stored} = {stored}
      BY <2>1
    <3>2. shadow'.armed <=> shadow.armed /\ (shadow.desired \ {stored} # active
                                             \/ shadow.joining \ {stored} # {})
      BY <2>1, <3>1 DEF ResetSlots, ForgottenShadow
    <3>3. shadow.desired \ {stored} = shadow.desired
          /\ shadow.joining \ {stored} = shadow.joining
      BY <2>2, <2>3
    <3>4. QED
      BY <3>2, <3>3 DEF IInv, InvArmed
  <2>6. InvShadow' /\ InvArmed' /\ InvIdle' /\ InvMutex'
    BY <2>1, <2>2, <2>3, <2>4, <2>5
    DEF IInv, InvShadow, InvArmed, InvIdle, InvMutex
  <2>7. InvConfig'
    BY <2>1, <2>2, <2>3
    DEF IInv, InvConfig, ResetSlots, LayoutOf, NoConfig, TypeOK
  <2>8. QED
    BY <1>0, <2>6, <2>7 DEF IInv
<1>7. CASE AdminPop
  <2>1. /\ pcA = "idle" /\ pcA' = "pass1" /\ pcS' = pcS
        /\ pcS \in {"wait", "sleep", "sample"}
        /\ UNCHANGED <<active, activeCount, slotTicks, epoch>>
        /\ stored' = stored - 1
        /\ ResetSlots({stored - 1})
        /\ stored - 1 \in Ids /\ stored \in Nat /\ stored > 0
    BY <1>7, ConstantsAssumption DEF AdminPop, MutexFree, IInv, TypeOK, statsVars, Ids
  <2>2. StoredIds' \cap {stored - 1} = {} /\ StoredIds \ {stored - 1} = StoredIds'
    BY <2>1 DEF StoredIds
  <2>3. \A k \in {stored - 1} : k <= stored - 1
    BY <2>1
  <2>4. InvConfig' /\ InvShadow' /\ InvArmed'
    BY <2>1, <2>2, <2>3, ResetInv
  <2>5. InvMutex' /\ InvIdle'
    BY <2>1 DEF InvMutex, InvIdle
  <2>6. QED
    BY <1>0, <2>4, <2>5 DEF IInv
<1>8. CASE AdminClear
  <2>1. /\ pcA = "idle" /\ pcA' = "pass1" /\ pcS' = pcS
        /\ pcS \in {"wait", "sleep", "sample"}
        /\ UNCHANGED <<active, activeCount, slotTicks, epoch>>
        /\ stored' = 0
        /\ ResetSlots(Ids)
    BY <1>8 DEF AdminClear, MutexFree, statsVars
  <2>2. StoredIds' = {} /\ StoredIds \subseteq Ids
    BY <2>1, ConstantsAssumption DEF StoredIds, Ids, IInv, TypeOK
  <2>3. MaxTrackers - 1 \in Ids /\ \A k \in Ids : k <= MaxTrackers - 1
    BY ConstantsAssumption DEF Ids
  <2>4. InvConfig' /\ InvShadow' /\ InvArmed'
    BY <2>1, <2>2, <2>3, ResetInv
  <2>5. InvMutex' /\ InvIdle'
    BY <2>1 DEF InvMutex, InvIdle
  <2>6. QED
    BY <1>0, <2>4, <2>5 DEF IInv
<1>9. CASE AdminFinish
  <2>1. PICK r \in BOOLEAN : \E pc \in {"pass1", "pass2"} : AdminPass(pc, r)
    BY <1>9 DEF AdminFinish
  <2>2. /\ Pass(TRUE, r) /\ stored' = stored /\ pcS' = pcS
        /\ pcA \in {"pass1", "pass2"}
        /\ PassRepeats(TRUE, r) => pcA' = "pass2"
    BY <2>1 DEF AdminPass, statsVars
  <2>3. /\ InvConfig' /\ InvShadow' /\ InvArmed'
        /\ ~PassRepeats(TRUE, r) => /\ active' \subseteq StoredIds'
                                    /\ shadow'.desired # active' => shadow'.armed
    BY <2>2, PassInv, Zenon
  <2>4. InvMutex' /\ InvIdle'
    BY <2>2, <2>3 DEF IInv, InvMutex, InvIdle
  <2>5. QED
    BY <1>0, <2>3, <2>4 DEF IInv
<1>10. CASE SwitchTestAll \/ SwitchCollect \/ Tick \/ UNCHANGED vars
  <2>1. /\ UNCHANGED <<stored, shadow, active, activeCount, slotTicks, epoch,
                       config, pcA, pcS>>
        /\ StoredIds' = StoredIds
    BY <1>10 DEF SwitchTestAll, SwitchCollect, Tick, vars, shadowVars, layoutVars,
                 statsVars, StoredIds
  <2>2. InvMutex' /\ InvConfig' /\ InvShadow' /\ InvArmed' /\ InvIdle'
    BY <2>1 DEF IInv, InvMutex, InvConfig, InvShadow, InvArmed, InvIdle, LayoutOf
  <2>3. QED
    BY <1>0, <2>2 DEF IInv
<1>11. QED
  BY <1>1, <1>2, <1>3, <1>4, <1>5, <1>6, <1>7, <1>8, <1>9, <1>10
  DEF Next, Stats, Admin

\* Initial states satisfy the invariant.
LEMMA InitInv == Init => IInv
<1> SUFFICES ASSUME Init PROVE IInv
  OBVIOUS
<1>1. TypeOK
  BY InitTyped
<1>2. InvConfig
  BY FS_EmptySet DEF Init, InvConfig, NoConfig
<1>3. InvMutex /\ InvShadow /\ InvArmed /\ InvIdle
  BY DEF Init, InvMutex, InvShadow, InvArmed, InvIdle
<1>4. QED
  BY <1>1, <1>2, <1>3 DEF IInv

\* The invariant holds in every reachable state.
LEMMA InvHolds == Spec => []IInv
<1>1. QED
  BY InitInv, NextInv, PTL DEF Spec

\* Only a member that is still paired is scheduled, in its rank.
LEMMA ScheduledMembers ==
  ASSUME IInv, NEW i \in Scheduled
  PROVE  i \in Ids /\ i \in active /\ i \in StoredIds /\ config[i] = LayoutOf(i)
  BY DEF IInv, InvConfig, Scheduled

\* The invariant excludes slot collisions.
LEMMA InvNoCollision == IInv => NoSlotCollision
<1> SUFFICES ASSUME IInv, NEW i \in Scheduled, NEW j \in Scheduled, i # j
             PROVE  /\ config[i].slot # config[j].slot
                    /\ config[i].total = config[j].total
                    /\ config[i].ticks = config[j].ticks
                    /\ config[i].epoch = config[j].epoch
  BY DEF NoSlotCollision
<1>1. /\ i \in active /\ config[i] = LayoutOf(i)
      /\ j \in active /\ config[j] = LayoutOf(j)
      /\ active \in SUBSET Ids
  BY ScheduledMembers DEF IInv, TypeOK
<1>2. i \in Int /\ j \in Int
  BY <1>1, ConstantsAssumption DEF Ids
<1>3. Rank(active, i) \in Int /\ Rank(active, j) \in Int
  <2>1. Cardinality(active) \in Nat
    BY <1>1, MembersFinite, FS_CardinalityType
  <2>2. QED
    BY <1>1, <2>1, RankRange
<1>4. Rank(active, i) # Rank(active, j)
  <2>1. CASE i < j
    BY <1>1, <1>3, <2>1, RankInjective
  <2>2. CASE j < i
    BY <1>1, <1>3, <2>2, RankInjective
  <2>3. QED
    BY <1>2, <2>1, <2>2
<1>5. QED
  BY <1>1, <1>4 DEF LayoutOf

\* In quiet states the invariant gives the whole layout.
LEMMA InvLayout == IInv => LayoutInForce
<1> SUFFICES ASSUME IInv, pcA = "idle"
             PROVE  /\ Scheduled = active
                    /\ activeCount = Cardinality(active)
                    /\ \A i \in active : /\ config[i].total = activeCount
                                         /\ config[i].ticks = slotTicks
                                         /\ config[i].epoch = epoch
                                         /\ config[i].slot \in 0 .. activeCount - 1
  BY DEF LayoutInForce
<1>1. /\ active \in SUBSET Ids /\ active \subseteq StoredIds
      /\ activeCount = Cardinality(active)
  BY DEF IInv, InvIdle, InvConfig, TypeOK
<1>2. \A i \in active : /\ config[i] = LayoutOf(i)
                        /\ Rank(active, i) \in 0 .. activeCount - 1
  BY <1>1, RankRange DEF IInv, InvConfig
<1>. \A i \in active : /\ config[i].slot = Rank(active, i)
                       /\ config[i].total = activeCount
                       /\ config[i].ticks = slotTicks
                       /\ config[i].epoch = epoch
  <2>1. \A i : /\ LayoutOf(i).slot = Rank(active, i)
               /\ LayoutOf(i).total = activeCount
               /\ LayoutOf(i).ticks = slotTicks
               /\ LayoutOf(i).epoch = epoch
    BY DEF LayoutOf
  <2>2. QED
    BY <1>2, <2>1, Zenon
<1>3. activeCount \in 0..MaxTrackers
  BY <1>1, MembersFinite
<1>4. ASSUME NEW i \in active
      PROVE  i \in Scheduled
  <2>1. activeCount > 0 /\ Rank(active, i) # NoSlot
    BY <1>2, <1>3, ConstantsAssumption DEF NoSlot
  <2>2. QED
    BY <1>1, <2>1 DEF Scheduled
<1>5. Scheduled \subseteq active
  BY ScheduledMembers
<1>6. QED
  BY <1>1, <1>2, <1>4, <1>5

\* No two trackers are ever told to transmit in the same slot, or told different
\* frames, whatever is paired, removed or heard meanwhile.
THEOREM SlotsNeverCollide == Spec => []NoSlotCollision
  BY InvHolds, InvNoCollision, PTL

\* In addition, outside a forced publication the configurations are the layout of
\* the mask in force, each member in a slot of the announced frame.
THEOREM LayoutAlwaysSound == Spec => []LayoutSound
<1>1. IInv => LayoutSound
  BY InvNoCollision, InvLayout DEF LayoutSound
<1>2. QED
  BY <1>1, InvHolds, PTL

\* No ghost member: what is wanted is paired and has evidence.
THEOREM MembersAreKnown == Spec => []NoGhostMember
<1>1. IInv => NoGhostMember
  BY DEF IInv, InvShadow, InvIdle, NoGhostMember
<1>2. QED
  BY <1>1, InvHolds, PTL

\* The membership deadline is armed exactly while a change is owed.
THEOREM DeadlineExact == Spec => []DeadlineTracksChange
<1>1. IInv => DeadlineTracksChange
  BY DEF IInv, InvArmed, InvIdle, DeadlineTracksChange
<1>2. QED
  BY <1>1, InvHolds, PTL

EpochStep ==
  \A i \in active \cap active' \cap (0 .. stored' - 1) :
    config'[i] # config[i] => config'[i].epoch # config[i].epoch

\* A pass that rewrites the configuration of a member moves its epoch.
LEMMA PassEpoch ==
  ASSUME IInv, NEW forced \in BOOLEAN, NEW resampled \in BOOLEAN,
         Pass(forced, resampled), stored' = stored
  PROVE  EpochStep
<1> SUFFICES ASSUME NEW i \in active, i \in active', i \in StoredIds,
                    config'[i] # config[i]
             PROVE  config'[i].epoch # config[i].epoch
  BY DEF EpochStep, StoredIds
<1> DEFINE sh == PassShadow(forced, resampled)
           members == NewMembers(sh)
<1>1. Publish(sh, members)
  BY DEF Pass, PassReturns, layoutVars
<1> HIDE DEF members, sh
<1>2. i \in members /\ i \in Ids
  BY <1>1 DEF Publish, IInv, TypeOK
<1>3. config'[i].epoch = (epoch + 1) % EpochModulus
  BY <1>1, <1>2 DEF Publish, NewConfig, NextEpoch
<1>4. config[i].epoch = epoch
  <2>1. config[i] = LayoutOf(i)
    BY <1>2 DEF IInv, InvConfig
  <2>2. QED
    BY <2>1 DEF LayoutOf
<1>5. (epoch + 1) % EpochModulus # epoch
  <2>1. epoch \in 0 .. EpochModulus - 1 /\ EpochModulus \in Nat /\ EpochModulus > 1
    BY ConstantsAssumption DEF IInv, TypeOK
  <2>2. CASE epoch + 1 < EpochModulus
    BY <2>1, <2>2
  <2>3. CASE epoch + 1 = EpochModulus
    BY <2>1, <2>3
  <2>4. QED
    BY <2>1, <2>2, <2>3
<1>6. QED
  BY <1>3, <1>4, <1>5

\* A member never sees its configuration change under an unchanged epoch.
THEOREM EpochAlwaysMoves == Spec => EpochMovesWithLayout
<1>1. IInv /\ [Next]_vars => [EpochStep]_vars
  <2> SUFFICES ASSUME IInv, Next PROVE EpochStep \/ UNCHANGED vars
    BY DEF vars
  <2>1. CASE StatsPass("pass1", FALSE) \/ StatsPass("pass2", TRUE)
    <3>1. PICK r \in BOOLEAN : \E pc : StatsPass(pc, r)
      BY <2>1
    <3>2. QED
      BY <3>1, PassEpoch DEF StatsPass
  <2>2. CASE AdminFinish
    <3>1. PICK r \in BOOLEAN : \E pc : AdminPass(pc, r)
      BY <2>2 DEF AdminFinish
    <3>2. QED
      BY <3>1, PassEpoch DEF AdminPass
  <2>3. CASE AdminAdd
    <3>1. /\ active \subseteq StoredIds /\ stored \in Nat /\ active \subseteq Ids
      BY <2>3 DEF AdminAdd, MutexFree, IInv, InvIdle, TypeOK
    <3>2. stored \notin active
      BY <3>1 DEF StoredIds
    <3>3. QED
      BY <2>3, <3>1, <3>2 DEF AdminAdd, ResetSlots, EpochStep
  <2>4. CASE AdminPop
    <3>1. stored \in Nat /\ stored' = stored - 1 /\ active \subseteq Ids
      BY <2>4 DEF AdminPop, IInv, TypeOK
    <3>2. ASSUME NEW i \in active, i \in 0 .. stored' - 1
          PROVE  config'[i] = config[i]
      <4>1. i # stored - 1 /\ i \in Ids
        BY <3>1, <3>2
      <4>2. QED
        BY <2>4, <4>1 DEF AdminPop, ResetSlots
    <3>3. QED
      BY <3>2 DEF EpochStep
  <2>5. CASE AdminClear
    BY <2>5 DEF AdminClear, EpochStep
  <2>6. CASE config' = config
    BY <2>6 DEF EpochStep
  <2>7. QED
    BY <2>1, <2>2, <2>3, <2>4, <2>5, <2>6
    DEF Next, Stats, Admin, Observe, StatsWait, StatsWake, StatsSample, StatsMerge,
        StatsLoss, SwitchTestAll, SwitchCollect, Tick, layoutVars
<1>2. EpochMovesWithLayout <=> [][EpochStep]_vars
  BY DEF EpochMovesWithLayout, EpochStep
<1>3. QED
  BY <1>1, <1>2, InvHolds, PTL DEF Spec

-----------------------------------------------------------------------------
(* The loss ladder. Next to the step itself, the width in force is the one   *)
(* of the published level, or the base width that test-all mode asks for.    *)

\* The width of the frame belongs to the published level, or is the base width.
WidthKept ==
  active # {} => slotTicks \in {SlotTicksFor(Cardinality(active), publishedCap, FALSE),
                                BaseSlotTicks}

\* What every step keeps of the ladder.
LadderInv == LadderOneStep /\ WidthKept

\* A running collection holds the width of an unchanged membership, except from or
\* to the base width of test-all mode.
LadderStep ==
  collecting /\ active' = active /\ active # {} /\ slotTicks' # slotTicks
    => testAll \/ slotTicks = BaseSlotTicks

\* A pass takes the level and the width it publishes from the ladder, and while a
\* collection runs it changes the width of an unchanged membership only from or
\* to the base width.
LEMMA PassLadder ==
  ASSUME TypeOK, LadderInv, NEW forced \in BOOLEAN, NEW resampled \in BOOLEAN,
         Pass(forced, resampled)
  PROVE  LadderInv' /\ LadderStep
<1> DEFINE sh == PassShadow(forced, resampled)
           members == NewMembers(sh)
<1>1. /\ capLevel' = PassCap(members)
      /\ \/ PassReturns(sh, members)
         \/ UNCHANGED layoutVars
         \/ Publish(sh, members)
  BY DEF Pass
<1> HIDE DEF members, sh
<1>2. /\ capLevel \in 0..4 /\ publishedCap \in 0..4
      /\ testAll \in BOOLEAN /\ collecting \in BOOLEAN
      /\ capLevel \in {0, publishedCap - 1, publishedCap, publishedCap + 1}
  BY DEF TypeOK, LadderInv, LadderOneStep
<1>3. PassCap(members) \in {0, publishedCap, capLevel}
  BY DEF PassCap
<1>4. testAll => PassTicks(members) = BaseSlotTicks
  BY DEF PassTicks, SlotTicksFor
<1>5. ~testAll => PassTicks(members) = SlotTicksFor(Cardinality(members), PassCap(members), FALSE)
  BY <1>2 DEF PassTicks
<1>6. collecting /\ members = active => PassCap(members) = publishedCap
  BY DEF PassCap
<1>7. CASE PassReturns(sh, members)
  <2>1. /\ publishedCap' \in {publishedCap, PassCap(members)}
        /\ active' = active
        /\ active # {} => slotTicks' = slotTicks
        /\ active # {} /\ publishedCap' # publishedCap =>
             members = active /\ PassTicks(members) = slotTicks /\ ~testAll
                              /\ publishedCap' = PassCap(members)
    BY <1>7 DEF PassReturns
  <2>2. LadderOneStep'
    BY <1>1, <1>2, <1>3, <2>1 DEF LadderOneStep
  <2>3. WidthKept'
    BY <1>5, <2>1 DEF WidthKept, LadderInv
  <2>4. QED
    BY <2>1, <2>2, <2>3 DEF LadderInv, LadderStep
<1>8. CASE UNCHANGED layoutVars
  <2>1. LadderOneStep'
    BY <1>1, <1>2, <1>3, <1>8 DEF LadderOneStep, layoutVars
  <2>2. QED
    BY <1>8, <2>1 DEF LadderInv, WidthKept, LadderStep, layoutVars
<1>9. CASE Publish(sh, members)
  <2>1. /\ publishedCap' = IF members # active \/ ~testAll
                           THEN PassCap(members) ELSE publishedCap
        /\ active' = members
        /\ slotTicks' = PassTicks(members)
    BY <1>9 DEF Publish
  <2>2. LadderOneStep'
    BY <1>1, <1>2, <1>3, <2>1 DEF LadderOneStep
  <2>3. WidthKept'
    <3>1. CASE testAll
      BY <1>4, <2>1, <3>1 DEF WidthKept
    <3>2. CASE ~testAll
      BY <1>5, <2>1, <3>2 DEF WidthKept
    <3>3. QED
      BY <3>1, <3>2
  <2>4. LadderStep
    <3>1. SUFFICES ASSUME collecting, active' = active, active # {},
                          slotTicks' # slotTicks, ~testAll
                   PROVE  slotTicks = BaseSlotTicks
      BY DEF LadderStep
    <3>2. slotTicks' = SlotTicksFor(Cardinality(active), publishedCap, FALSE)
      BY <1>5, <1>6, <2>1, <3>1
    <3>3. QED
      BY <3>1, <3>2 DEF LadderInv, WidthKept
  <2>5. QED
    BY <2>2, <2>3, <2>4 DEF LadderInv
<1>10. QED
  BY <1>1, <1>7, <1>8, <1>9

\* Every step keeps the ladder sound and respects a running collection.
LEMMA NextLadder ==
  ASSUME TypeOK, LadderInv, [Next]_vars
  PROVE  LadderInv' /\ LadderStep
<1>1. CASE StatsPass("pass1", FALSE) \/ StatsPass("pass2", TRUE)
  <2>1. PICK r \in BOOLEAN : \E pc : StatsPass(pc, r)
    BY <1>1
  <2>2. QED
    BY <2>1, PassLadder DEF StatsPass
<1>2. CASE AdminFinish
  <2>1. PICK r \in BOOLEAN : \E pc : AdminPass(pc, r)
    BY <1>2 DEF AdminFinish
  <2>2. QED
    BY <2>1, PassLadder DEF AdminPass
<1>3. CASE StatsLoss
  <2>1. UNCHANGED <<active, slotTicks, publishedCap>>
    BY <1>3 DEF StatsLoss, layoutVars
  <2>2. capLevel' \in {publishedCap, capLevel, capLevel - 1, capLevel + 1, 0}
        /\ (capLevel' \in {publishedCap, capLevel, 0} \/ capLevel = publishedCap)
    BY <1>3, ConstantsAssumption
    DEF StatsLoss, LossRequests, LossSteps, Max2, TypeOK
  <2>3. LadderOneStep'
    BY <2>1, <2>2 DEF LadderInv, LadderOneStep, TypeOK
  <2>4. QED
    BY <2>1, <2>3 DEF LadderInv, WidthKept, LadderStep
<1>4. CASE UNCHANGED <<active, slotTicks, publishedCap, capLevel>>
  BY <1>4 DEF LadderInv, LadderOneStep, WidthKept, LadderStep
<1>5. QED
  BY <1>1, <1>2, <1>3, <1>4
  DEF Next, Stats, Admin, Observe, StatsWait, StatsWake, StatsSample, StatsMerge,
      AdminAdd, AdminPop, AdminClear, SwitchTestAll, SwitchCollect, Tick,
      layoutVars, vars

\* The loss ladder moves one published step at a time, and raw collection holds
\* it: no order of collection, test-all mode, monitor passes and membership
\* changes lets the width of a frame drift under a running collection.
THEOREM LadderAlwaysSound == Spec => LadderSound
<1>1. Init => LadderInv
  BY DEF Init, LadderInv, LadderOneStep, WidthKept
<1>2. TypeOK /\ LadderInv /\ [Next]_vars => LadderInv'
  BY NextLadder
<1>3. TypeOK /\ LadderInv /\ [Next]_vars => [LadderStep]_vars
  BY NextLadder
<1>4. LadderInv => LadderOneStep
  BY DEF LadderInv
<1>5. LadderSound <=> []LadderOneStep /\ [][LadderStep]_vars
  BY DEF LadderSound, LadderFrozenWhileCollecting, LadderStep
<1>6. QED
  BY <1>1, <1>2, <1>3, <1>4, <1>5, TypeCorrect, PTL DEF Spec

-----------------------------------------------------------------------------
(* Signed differences of the wrapping clock *)

\* The time constants are positive, and every age the proofs compare stays under
\* half the range of the clock.
LEMMA Times ==
  /\ CohortMs \in Nat /\ FreshMs \in Nat /\ GraceMs \in Nat /\ ReconfigMinMs \in Nat
  /\ LossReconfigMinMs \in Nat /\ MonitorMs \in Nat /\ MaxLate \in Nat
  /\ CohortMs > 0 /\ GraceMs > 0 /\ MonitorMs > 0 /\ MaxLate > 0
  /\ MaxLate < FreshMs /\ FreshMs <= GraceMs
  /\ 2 * MaxLate <= ReconfigMinMs /\ ReconfigMinMs <= LossReconfigMinMs
  /\ AgeCap \in Nat
  /\ AgeCap = GraceMs + ReconfigMinMs + MonitorMs + CohortMs + 3 * MaxLate
  /\ Modulus \in Nat /\ Modulus > 2 * AgeCap /\ Modulus > 0
<1>1. \A x \in {CohortMs, FreshMs, GraceMs, ReconfigMinMs, LossReconfigMinMs, MonitorMs} :
        x \in Nat /\ x > 0
  BY ConstantsAssumption
<1>2. QED
  BY <1>1, ConstantsAssumption DEF AgeCap

\* The signed difference, by cases on the order of the two readings.
LEMMA DiffValue ==
  ASSUME NEW a \in Ticks, NEW b \in Ticks
  PROVE  LET d == IF a >= b THEN a - b ELSE a - b + Modulus
         IN  SignedDiff(a, b) = IF 2 * d < Modulus THEN d ELSE d - Modulus
<1>1. a \in Int /\ b \in Int /\ 0 <= a /\ a < Modulus /\ 0 <= b /\ b < Modulus
      /\ Modulus \in Nat /\ Modulus > 0
  BY Times DEF Ticks
<1>2. (a - b) % Modulus = IF a >= b THEN a - b ELSE a - b + Modulus
  <2>1. CASE a >= b
    BY <1>1, <2>1
  <2>2. CASE a < b
    BY <1>1, <2>2
  <2>3. QED
    BY <1>1, <2>1, <2>2
<1>3. QED
  BY <1>2, Zenon DEF SignedDiff

\* Its range is half the clock on either side.
LEMMA DiffRange ==
  ASSUME NEW a \in Ticks, NEW b \in Ticks
  PROVE  /\ SignedDiff(a, b) \in Int
         /\ 2 * SignedDiff(a, b) < Modulus
         /\ 2 * SignedDiff(a, b) >= 0 - Modulus
  BY DiffValue, Times DEF Ticks

\* A reading has no distance from itself.
LEMMA DiffSelf ==
  ASSUME NEW a \in Ticks
  PROVE  SignedDiff(a, a) = 0
  BY DiffValue, Times DEF Ticks

\* A tick adds one until half the range is reached.
LEMMA DiffTick ==
  ASSUME NEW a \in Ticks, NEW b \in Ticks, 2 * (SignedDiff(a, b) + 1) < Modulus
  PROVE  (a + 1) % Modulus \in Ticks /\ SignedDiff((a + 1) % Modulus, b) = SignedDiff(a, b) + 1
<1>1. a \in Int /\ b \in Int /\ 0 <= a /\ a < Modulus /\ 0 <= b /\ b < Modulus
      /\ Modulus \in Nat /\ Modulus > 0
  BY Times DEF Ticks
<1>2. (a + 1) % Modulus = IF a + 1 = Modulus THEN 0 ELSE a + 1
  <2>1. CASE a + 1 = Modulus
    BY <1>1, <2>1
  <2>2. CASE a + 1 < Modulus
    BY <1>1, <2>2
  <2>3. QED
    BY <1>1, <2>1, <2>2
<1>3. (a + 1) % Modulus \in Ticks
  BY <1>1, <1>2 DEF Ticks
<1> DEFINE c == (a + 1) % Modulus
<1>4. c = (IF a + 1 = Modulus THEN 0 ELSE a + 1) /\ c \in Ticks
  BY <1>2, <1>3
<1> HIDE DEF c
<1>5. SignedDiff(c, b) = SignedDiff(a, b) + 1
  BY <1>1, <1>4, DiffValue
<1>6. QED
  BY <1>3, <1>5 DEF c

\* A moment n ticks ahead is n ticks ahead.
LEMMA DiffAhead ==
  ASSUME NEW a \in Ticks, NEW n \in Nat, 2 * n < Modulus
  PROVE  (a + n) % Modulus \in Ticks /\ SignedDiff(a, (a + n) % Modulus) = 0 - n
<1>1. a \in Int /\ 0 <= a /\ a < Modulus /\ Modulus \in Nat /\ Modulus > 0
  BY Times DEF Ticks
<1>2. (a + n) % Modulus = IF a + n < Modulus THEN a + n ELSE a + n - Modulus
  <2>1. CASE a + n < Modulus
    BY <1>1, <2>1
  <2>2. CASE a + n >= Modulus
    BY <1>1, <2>2
  <2>3. QED
    BY <1>1, <2>1, <2>2
<1> DEFINE c == (a + n) % Modulus
<1>3. c = (IF a + n < Modulus THEN a + n ELSE a + n - Modulus) /\ c \in Ticks
  BY <1>1, <1>2 DEF Ticks
<1> HIDE DEF c
<1>4. SignedDiff(a, c) = 0 - n
  BY <1>1, <1>3, DiffValue
<1>5. QED
  BY <1>3, <1>4 DEF c

\* The difference is antisymmetric, but for the one value that has no negative.
LEMMA DiffAnti ==
  ASSUME NEW a \in Ticks, NEW b \in Ticks, 2 * SignedDiff(a, b) > 0 - Modulus
  PROVE  SignedDiff(b, a) = 0 - SignedDiff(a, b)
  BY DiffValue, Times DEF Ticks

\* Differences from one reading subtract, as long as the result is in range.
LEMMA DiffSub ==
  ASSUME NEW a \in Ticks, NEW b \in Ticks, NEW c \in Ticks,
         2 * (SignedDiff(a, b) - SignedDiff(a, c)) < Modulus,
         2 * (SignedDiff(a, b) - SignedDiff(a, c)) >= 0 - Modulus
  PROVE  SignedDiff(c, b) = SignedDiff(a, b) - SignedDiff(a, c)
<1> DEFINE d(x, y) == IF x >= y THEN x - y ELSE x - y + Modulus
<1>1. /\ a \in Int /\ 0 <= a /\ a < Modulus
      /\ b \in Int /\ 0 <= b /\ b < Modulus
      /\ c \in Int /\ 0 <= c /\ c < Modulus
      /\ Modulus \in Nat
  BY Times DEF Ticks
<1>2. /\ SignedDiff(a, b) = IF 2 * d(a, b) < Modulus THEN d(a, b) ELSE d(a, b) - Modulus
      /\ SignedDiff(a, c) = IF 2 * d(a, c) < Modulus THEN d(a, c) ELSE d(a, c) - Modulus
      /\ SignedDiff(c, b) = IF 2 * d(c, b) < Modulus THEN d(c, b) ELSE d(c, b) - Modulus
  BY DiffValue
<1> DEFINE x == SignedDiff(a, b)
           y == SignedDiff(a, c)
           z == SignedDiff(c, b)
<1>3. /\ x = a - b \/ x = a - b + Modulus \/ x = a - b - Modulus
      /\ y = a - c \/ y = a - c + Modulus \/ y = a - c - Modulus
      /\ z = c - b \/ z = c - b + Modulus \/ z = c - b - Modulus
      /\ 2 * z < Modulus /\ 2 * z >= 0 - Modulus
      /\ 2 * (x - y) < Modulus /\ 2 * (x - y) >= 0 - Modulus
  BY <1>1, <1>2
<1> HIDE DEF x, y, z
<1>4. z = x - y
  BY <1>1, <1>3
<1>5. QED
  BY <1>4 DEF x, y, z

-----------------------------------------------------------------------------
(* True ages. Evidence is either wanted or queued; a queued join keeps the   *)
(* stats thread due, so it is merged within its lateness, and a wanted one   *)
(* is looked at in every pass. The limit of its age therefore follows the    *)
(* program counter of the stats thread.                                      *)

\* Evidence is kept of exactly the trackers that are wanted or about to be.
InvKnown == shadow.evidence = shadow.desired \cup shadow.joining

\* A queued join has given the semaphore the stats thread waits for.
InvWoken == shadow.joining # {} /\ pcS \in {"wait", "sleep"} => sem = 1

\* The time a merge works with was read no longer ago than the thread is late.
InvSampled ==
  pcS = "merge" => SignedDiff(clock, nowS) >= 0 /\ SignedDiff(clock, nowS) <= late

\* The signed difference of the clock is the true age of all evidence.
InvTrueAge ==
  \A i \in shadow.evidence : SignedDiff(clock, shadow.lastSeen[i]) = seenAge[i]

\* A queued join is as fresh as the thread is late.
InvQueuedAge == \A i \in shadow.joining : seenAge[i] <= late

\* How old evidence can be before the next merge drops it, by how far the stats
\* thread has got in its round.
AgeLimit ==
  IF pcS \in {"loss", "pass1", "pass2"} THEN GraceMs + late
  ELSE IF pcS = "wait" THEN GraceMs + MaxLate + late
  ELSE IF pcS = "sleep" THEN GraceMs + MaxLate + late + (MonitorMs - sleep)
  ELSE GraceMs + MaxLate + late + MonitorMs

\* Wanted trackers were heard within the limit.
InvWantedAge == \A i \in shadow.desired : seenAge[i] < AgeLimit

\* A member without evidence has been silent for the whole leave grace.
InvGoneAge ==
  \A i \in (active \cap StoredIds) \ shadow.evidence : seenAge[i] >= GraceMs

\* The invariant about ages.
AgeInv == /\ InvKnown /\ InvWoken /\ InvSampled /\ InvTrueAge
          /\ InvQueuedAge /\ InvWantedAge /\ InvGoneAge

\* The types the arithmetic below needs.
LEMMA StatsTypes ==
  ASSUME TypeOK
  PROVE  /\ clock \in Ticks /\ nowS \in Ticks /\ shadow.deadline \in Ticks
         /\ late \in Nat /\ late <= MaxLate
         /\ sleep \in Nat /\ sleep <= MonitorMs
         /\ sinceReconfig \in Nat /\ sinceReconfig <= LossReconfigMinMs
         /\ shadow.armed \in BOOLEAN
         /\ shadow.desired \subseteq Ids /\ shadow.joining \subseteq Ids
         /\ shadow.evidence \subseteq Ids /\ active \subseteq Ids
         /\ \A i \in Ids : /\ shadow.lastSeen[i] \in Ticks
                           /\ seenAge[i] \in Nat /\ seenAge[i] <= AgeCap
                           /\ owed[i] \in Nat /\ owed[i] <= AgeCap
<1>1. shadow \in ShadowType
  BY DEF TypeOK
<1>2. /\ shadow.deadline \in Ticks /\ shadow.armed \in BOOLEAN
      /\ shadow.desired \subseteq Ids /\ shadow.joining \subseteq Ids
      /\ shadow.evidence \subseteq Ids
      /\ shadow.lastSeen \in [Ids -> Ticks]
  BY <1>1 DEF ShadowType
<1>3. seenAge \in [Ids -> 0..AgeCap] /\ owed \in [Ids -> 0..AgeCap]
  BY DEF TypeOK
<1>4. \A i \in Ids : seenAge[i] \in Nat /\ seenAge[i] <= AgeCap
                     /\ owed[i] \in Nat /\ owed[i] <= AgeCap
  BY <1>3, Times
<1>5. /\ late \in Nat /\ late <= MaxLate /\ sleep \in Nat /\ sleep <= MonitorMs
      /\ sinceReconfig \in Nat /\ sinceReconfig <= LossReconfigMinMs
      /\ clock \in Ticks /\ nowS \in Ticks /\ active \subseteq Ids
  BY Times DEF TypeOK
<1>6. QED
  BY <1>2, <1>4, <1>5

\* No piece of evidence is older than the grace, a monitor period and twice the
\* lateness of the stats thread.
LEMMA AgeBound ==
  ASSUME TypeOK, AgeInv, NEW i \in shadow.evidence
  PROVE  /\ seenAge[i] < GraceMs + MonitorMs + 2 * MaxLate
         /\ seenAge[i] < AgeCap
         /\ 2 * (seenAge[i] + 1) < Modulus
<1>1. /\ late \in Nat /\ late <= MaxLate /\ sleep \in Nat /\ sleep <= MonitorMs
      /\ seenAge[i] \in Nat
  BY StatsTypes
<1>2. AgeLimit <= GraceMs + MaxLate + late + MonitorMs /\ AgeLimit \in Nat
  BY <1>1, Times DEF AgeLimit
<1>3. seenAge[i] < GraceMs + MonitorMs + 2 * MaxLate
  <2>1. CASE i \in shadow.desired
    <3>1. seenAge[i] < AgeLimit
      BY <2>1 DEF AgeInv, InvWantedAge
    <3>2. QED
      BY <1>1, <1>2, <3>1, Times
  <2>2. CASE i \in shadow.joining
    <3>1. seenAge[i] <= late
      BY <2>2 DEF AgeInv, InvQueuedAge
    <3>2. QED
      BY <1>1, <3>1, Times
  <2>3. QED
    BY <2>1, <2>2 DEF AgeInv, InvKnown
<1>4. QED
  BY <1>1, <1>3, Times

\* What a merge at a tick e ticks ago does to ages. What stays wanted was heard
\* less than the grace before that tick; a member it drops has been silent for
\* the whole grace; and a queued join is never dropped, because it is fresh.
LEMMA MergeAges ==
  ASSUME IInv, AgeInv, NEW now \in Ticks, NEW e \in Nat, e <= late,
         SignedDiff(clock, now) = e
  PROVE  LET sh == MergedShadow(now)
         IN  /\ sh.joining = {}
             /\ sh.evidence = sh.desired
             /\ sh.desired \subseteq shadow.evidence
             /\ \A i \in sh.desired : /\ sh.lastSeen[i] = shadow.lastSeen[i]
                                      /\ seenAge[i] < GraceMs + e
             /\ \A i \in active \cap (shadow.evidence \ sh.desired) :
                  seenAge[i] >= GraceMs
<1> DEFINE sh == MergedShadow(now)
<1>0. /\ TypeOK /\ late \in Nat /\ late <= MaxLate
      /\ clock \in Ticks /\ \A i \in Ids : seenAge[i] \in Nat
      /\ shadow.evidence \subseteq Ids
  BY StatsTypes DEF IInv
<1>1. /\ sh.joining = {} /\ sh.desired = MergedWant(now)
      /\ sh.evidence = shadow.evidence \ Cleared(now)
      /\ sh.lastSeen = [i \in Ids |-> IF i \in Cleared(now) THEN 0 ELSE shadow.lastSeen[i]]
  BY DEF MergedShadow
<1>2. ASSUME NEW i \in shadow.evidence
      PROVE  /\ Age(i, now) \in Nat
             /\ Age(i, now) < GraceMs => seenAge[i] < GraceMs + e
             /\ Age(i, now) >= GraceMs => seenAge[i] >= GraceMs
             /\ i \in shadow.joining => Age(i, now) < FreshMs
  <2>1. i \in Ids /\ shadow.lastSeen[i] \in Ticks /\ seenAge[i] \in Nat
    BY <1>0, StatsTypes
  <2>2. SignedDiff(clock, shadow.lastSeen[i]) = seenAge[i]
    BY DEF AgeInv, InvTrueAge
  <2>3. 2 * (seenAge[i] + 1) < Modulus
    BY <1>0, AgeBound
  <2>4. SignedDiff(now, shadow.lastSeen[i]) = seenAge[i] - e
    <3>1. /\ 2 * (SignedDiff(clock, shadow.lastSeen[i]) - SignedDiff(clock, now)) < Modulus
          /\ 2 * (SignedDiff(clock, shadow.lastSeen[i]) - SignedDiff(clock, now)) >= 0 - Modulus
      BY <1>0, <2>1, <2>2, <2>3, Times
    <3>2. QED
      BY <1>0, <2>1, <2>2, <3>1, DiffSub
  <2>5. Age(i, now) = IF seenAge[i] - e > 0 THEN seenAge[i] - e ELSE 0
    BY <2>4 DEF Age, Max2
  <2>6. i \in shadow.joining => seenAge[i] <= late
    BY DEF AgeInv, InvQueuedAge
  <2>7. QED
    BY <1>0, <2>1, <2>5, <2>6, Times
<1>3. /\ shadow.evidence \subseteq StoredIds /\ shadow.desired \subseteq shadow.evidence
      /\ shadow.evidence = shadow.desired \cup shadow.joining
      /\ Evidence = shadow.evidence /\ Wanted = shadow.desired
  BY DEF IInv, InvShadow, AgeInv, InvKnown, Evidence, Wanted
<1>4. \A i \in shadow.evidence : i \notin shadow.desired => i \in Joined(now)
  BY <1>2, <1>3 DEF Joined
<1>5. /\ MergedWant(now) \subseteq shadow.evidence
      /\ MergedWant(now) = shadow.evidence \ Cleared(now)
  BY <1>3, <1>4 DEF MergedWant, Cleared, Withdrawn, Evicted, Joined, Expired
<1>6. ASSUME NEW i \in MergedWant(now)
      PROVE  Age(i, now) < GraceMs
  <2>1. i \in shadow.evidence /\ Age(i, now) \in Nat
    BY <1>2, <1>5
  <2>2. CASE i \in Joined(now)
    BY <2>1, <2>2, Times DEF Joined
  <2>3. CASE i \notin Joined(now)
    <3>1. i \in shadow.desired /\ i \notin Withdrawn(now) /\ i \notin Evicted(now)
      BY <1>3, <2>3 DEF MergedWant
    <3>2. ~(Age(i, now) >= GraceMs)
      BY <1>3, <2>1, <3>1 DEF Evicted
    <3>3. QED
      BY <2>1, <3>2, Times
  <2>4. QED
    BY <2>2, <2>3
<1>7. ASSUME NEW i \in active, i \in shadow.evidence, i \notin MergedWant(now)
      PROVE  Age(i, now) >= GraceMs
  BY <1>3, <1>4, <1>7 DEF MergedWant, Withdrawn, Evicted
<1>8. ASSUME NEW i \in MergedWant(now)
      PROVE  sh.lastSeen[i] = shadow.lastSeen[i] /\ seenAge[i] < GraceMs + e
  <2>1. i \in shadow.evidence /\ i \in Ids /\ i \notin Cleared(now)
    BY <1>0, <1>5
  <2>2. QED
    BY <1>1, <1>2, <1>6, <2>1
<1>9. QED
  BY <1>1, <1>2, <1>5, <1>7, <1>8

\* The outcomes of one pass of tdma_recalculate: which masks it works on, and
\* whether it returns, repeats or publishes exactly what is wanted.
LEMMA PassOutcome ==
  ASSUME IInv, NEW forced \in BOOLEAN, NEW resampled \in BOOLEAN,
         Pass(forced, resampled)
  PROVE  LET sh == PassShadow(forced, resampled)
         IN  /\ \/ sh = MergedShadow(clock) /\ ~forced
                \/ /\ sh = shadow
                   /\ forced \/ (shadow.joining = {} /\ shadow.desired \subseteq active)
             /\ \/ /\ shadow' = sh
                   /\ UNCHANGED <<active, sinceReconfig>>
                   /\ \/ PassRepeats(forced, resampled)
                      \/ sh.desired = active
                      \/ /\ ~forced
                         /\ \/ sh.armed /\ SignedDiff(clock, sh.deadline) < 0
                            \/ sinceReconfig < ReconfigMinMs
                \/ /\ ~PassRepeats(forced, resampled)
                   /\ active' = sh.desired
                   /\ sinceReconfig' = 0
                   /\ shadow'.evidence = sh.evidence
                   /\ shadow'.desired = sh.desired
                   /\ shadow'.joining = sh.joining
                   /\ shadow'.lastSeen = sh.lastSeen
                   /\ shadow'.deadline = sh.deadline
                   /\ shadow'.armed <=> sh.armed /\ sh.joining # {}
<1> DEFINE sh == PassShadow(forced, resampled)
           members == NewMembers(sh)
<1>1. sh.desired \subseteq sh.evidence /\ sh.evidence \subseteq StoredIds
  BY PassShadowInv
<1>2. sh \in ShadowType
  BY PassTypes DEF IInv
<1>3. members = sh.desired
  BY <1>1 DEF NewMembers
<1>4. \/ sh = MergedShadow(clock) /\ ~forced
      \/ /\ sh = shadow
         /\ forced \/ (shadow.joining = {} /\ shadow.desired \subseteq active)
  BY DEF PassShadow
<1>5. \/ /\ PassReturns(sh, members)
         /\ members = active \/ (~forced /\ PassTooEarly(sh, members))
      \/ /\ shadow' = sh /\ UNCHANGED layoutVars
         /\ PassRepeats(forced, resampled)
      \/ /\ Publish(sh, members)
         /\ ~PassRepeats(forced, resampled)
  BY Zenon DEF Pass, PassIdle
<1> HIDE DEF members, sh
<1>6. CASE /\ PassReturns(sh, members)
           /\ members = active \/ (~forced /\ PassTooEarly(sh, members))
  <2>1. shadow' = sh /\ UNCHANGED <<active, sinceReconfig>>
    BY <1>6 DEF PassReturns
  <2>2. \/ sh.desired = active
        \/ /\ ~forced
           /\ \/ sh.armed /\ SignedDiff(clock, sh.deadline) < 0
              \/ sinceReconfig < ReconfigMinMs
    BY <1>3, <1>6 DEF PassTooEarly, MinReconfig
  <2>3. QED
    BY <1>4, <2>1, <2>2 DEF sh
<1>7. CASE /\ shadow' = sh /\ UNCHANGED layoutVars
           /\ PassRepeats(forced, resampled)
  BY <1>4, <1>7 DEF layoutVars, sh
<1>8. CASE /\ Publish(sh, members)
           /\ ~PassRepeats(forced, resampled)
  <2>1. active' = sh.desired /\ sinceReconfig' = 0
        /\ shadow' = [sh EXCEPT !.armed = ArmedAfterPublish(sh)]
    BY <1>3, <1>8 DEF Publish
  <2>2. /\ shadow'.evidence = sh.evidence
        /\ shadow'.desired = sh.desired
        /\ shadow'.joining = sh.joining
        /\ shadow'.lastSeen = sh.lastSeen
        /\ shadow'.deadline = sh.deadline
        /\ shadow'.armed <=> sh.armed /\ sh.joining # {}
    BY <1>2, <2>1 DEF ShadowType, ArmedAfterPublish
  <2>3. QED
    BY <1>4, <1>8, <2>1, <2>2 DEF sh
<1>9. QED
  BY <1>5, <1>6, <1>7, <1>8

\* An observation stamps the tracker with the current tick and queues it unless
\* it is already wanted.
LEMMA ObserveEffect ==
  ASSUME TypeOK, NEW i \in Ids, Observe(i)
  PROVE  /\ UNCHANGED <<clock, stored, layoutVars, statsVars, pcA>>
         /\ StoredIds' = StoredIds /\ i \in StoredIds
         /\ shadow'.desired = shadow.desired
         /\ shadow'.evidence = shadow.evidence \cup {i}
         /\ shadow'.joining = IF i \notin shadow.desired
                              THEN shadow.joining \cup {i} ELSE shadow.joining
         /\ shadow'.armed <=> shadow.armed \/ i \notin shadow.desired
         /\ shadow'.deadline = IF i \notin shadow.desired /\ ~shadow.armed
                               THEN (clock + CohortMs) % Modulus ELSE shadow.deadline
         /\ shadow'.lastSeen = [shadow.lastSeen EXCEPT ![i] = clock]
         /\ seenAge' = [seenAge EXCEPT ![i] = 0]
         /\ sem' = IF i \notin shadow.desired /\ i \notin shadow.joining THEN 1 ELSE sem
         /\ owed' = IF i \in shadow.evidence THEN owed ELSE [owed EXCEPT ![i] = 0]
  BY DEF Observe, ObservedShadow, Queues, TypeOK, ShadowType, StoredIds

\* A slot reset removes its slots from every mask, keeps the deadline, and never
\* arms it.
LEMMA ResetEffect ==
  ASSUME TypeOK, NEW gone \in SUBSET Ids, ResetSlots(gone)
  PROVE  /\ shadow'.evidence = shadow.evidence \ gone
         /\ shadow'.desired = shadow.desired \ gone
         /\ shadow'.joining = shadow.joining \ gone
         /\ shadow'.deadline = shadow.deadline
         /\ shadow'.armed => shadow.armed
         /\ shadow.armed => \/ shadow'.armed
                            \/ \E k \in gone :
                                 /\ shadow.desired \ {j \in gone : j <= k} = active
                                 /\ shadow.joining \ {j \in gone : j <= k} = {}
         /\ \A i \in Ids \ gone : /\ shadow'.lastSeen[i] = shadow.lastSeen[i]
                                  /\ seenAge'[i] = seenAge[i]
                                  /\ owed'[i] = owed[i]
  BY DEF ResetSlots, ForgottenShadow

\* The stats thread's own steps that leave masks and clock alone.
LEMMA StatsAges ==
  ASSUME IInv, AgeInv, StatsWait \/ StatsWake \/ StatsSample \/ StatsLoss, TypeOK'
  PROVE  AgeInv'
<1>0. /\ late \in Nat /\ late <= MaxLate /\ sleep \in Nat /\ sleep <= MonitorMs
      /\ clock \in Ticks /\ sleep' \in Nat /\ sleep' <= MonitorMs
      /\ \A i \in shadow.desired : seenAge[i] \in Nat
  BY StatsTypes, Times DEF IInv, TypeOK
<1>1. /\ UNCHANGED <<clock, shadow, seenAge, active, late>> /\ StoredIds' = StoredIds
      /\ \/ pcS = "wait" /\ pcS' = "sleep" /\ sem' = sem
         \/ pcS = "sleep" /\ pcS' = "sample"
         \/ pcS = "sample" /\ pcS' = "merge" /\ nowS' = clock
         \/ pcS = "loss" /\ pcS' = "pass1"
  BY DEF StatsWait, StatsWake, StatsSample, StatsLoss, shadowVars, layoutVars, StoredIds
<1>2. InvKnown' /\ InvTrueAge' /\ InvQueuedAge' /\ InvGoneAge'
  BY <1>1 DEF AgeInv, InvKnown, InvTrueAge, InvQueuedAge, InvGoneAge
<1>3. InvWoken'
  BY <1>1 DEF AgeInv, InvWoken
<1>4. InvSampled'
  <2>1. SignedDiff(clock, clock) = 0
    BY <1>0, DiffSelf
  <2>2. QED
    BY <1>0, <1>1, <2>1 DEF InvSampled
<1>5. AgeLimit <= AgeLimit' /\ AgeLimit \in Int /\ AgeLimit' \in Int
  <2>1. CASE pcS = "wait"
    <3>1. pcS' = "sleep" /\ late' = late
      BY <1>1, <2>1
    <3>2. PICK w \in Nat : w = sleep' /\ w <= MonitorMs
      BY <1>0
    <3>3. /\ AgeLimit = GraceMs + MaxLate + late
          /\ AgeLimit' = GraceMs + MaxLate + late + (MonitorMs - w)
      BY <2>1, <3>1, <3>2 DEF AgeLimit
    <3>4. /\ GraceMs + MaxLate + late <= GraceMs + MaxLate + late + (MonitorMs - w)
          /\ GraceMs + MaxLate + late \in Int
          /\ GraceMs + MaxLate + late + (MonitorMs - w) \in Int
      <4>1. w <= MonitorMs /\ late \in Nat
        BY <1>0, <3>2
      <4>2. QED
        BY <4>1, Times
    <3>5. QED
      BY <3>3, <3>4, Zenon
  <2>2. CASE pcS = "sleep"
    BY <1>0, <1>1, <2>2, Times DEF AgeLimit
  <2>3. CASE pcS = "sample"
    BY <1>0, <1>1, <2>3, Times DEF AgeLimit
  <2>4. CASE pcS = "loss"
    BY <1>0, <1>1, <2>4, Times DEF AgeLimit
  <2>5. QED
    BY <1>1, <2>1, <2>2, <2>3, <2>4
<1>6. InvWantedAge'
  BY <1>0, <1>1, <1>5 DEF AgeInv, InvWantedAge
<1>7. QED
  BY <1>2, <1>3, <1>4, <1>6 DEF AgeInv

\* tdma_shadow_update keeps the ages right: it judges them at the tick it read
\* before, at most the lateness ago.
LEMMA MergeStepAges ==
  ASSUME IInv, AgeInv, StatsMerge
  PROVE  AgeInv'
<1> DEFINE e == SignedDiff(clock, nowS)
<1>0. /\ TypeOK /\ late \in Nat /\ late <= MaxLate /\ clock \in Ticks /\ nowS \in Ticks
      /\ shadow.evidence \subseteq Ids
      /\ \A i \in shadow.evidence : seenAge[i] \in Nat
  BY StatsTypes DEF IInv
<1>1. /\ UNCHANGED <<clock, seenAge, active, late>> /\ StoredIds' = StoredIds
      /\ pcS = "merge" /\ pcS' \in {"loss", "pass1"}
      /\ shadow' = MergedShadow(nowS)
  BY DEF StatsMerge, layoutVars, StoredIds
<1>2. e \in Nat /\ e <= late
  BY <1>0, <1>1, DiffRange DEF AgeInv, InvSampled
<1> HIDE DEF e
<1>3. /\ shadow'.joining = {}
      /\ shadow'.evidence = shadow'.desired
      /\ shadow'.desired \subseteq shadow.evidence
      /\ \A i \in shadow'.desired : /\ shadow'.lastSeen[i] = shadow.lastSeen[i]
                                    /\ seenAge[i] < GraceMs + e
      /\ \A i \in active \cap (shadow.evidence \ shadow'.desired) :
           seenAge[i] >= GraceMs
  BY <1>0, <1>1, <1>2, MergeAges DEF e
<1>4. InvKnown' /\ InvWoken' /\ InvSampled' /\ InvQueuedAge'
  BY <1>1, <1>3 DEF InvKnown, InvWoken, InvSampled, InvQueuedAge
<1>5. InvTrueAge'
  BY <1>1, <1>3 DEF AgeInv, InvTrueAge
<1>6. InvGoneAge'
  BY <1>1, <1>3 DEF AgeInv, InvGoneAge
<1>7. InvWantedAge'
  <2>1. AgeLimit' = GraceMs + late
    BY <1>1 DEF AgeLimit
  <2>2. ASSUME NEW i \in shadow'.desired PROVE seenAge[i] < GraceMs + late
    <3>1. seenAge[i] \in Nat /\ seenAge[i] < GraceMs + e
      BY <1>0, <1>3
    <3>2. QED
      BY <1>0, <1>2, <3>1, Times
  <2>3. QED
    BY <1>1, <2>1, <2>2 DEF InvWantedAge
<1>8. QED
  BY <1>4, <1>5, <1>6, <1>7 DEF AgeInv

\* An ordinary pass keeps the ages right, and takes the slot of nobody that was
\* heard within the grace.
LEMMA PassAges ==
  ASSUME IInv, AgeInv, NEW r \in BOOLEAN, NEW pc \in {"pass1", "pass2"},
         StatsPass(pc, r)
  PROVE  AgeInv' /\ \A i \in active \ active' : seenAge[i] >= GraceMs
<1> DEFINE sh == PassShadow(FALSE, r)
<1>0. /\ TypeOK /\ late \in Nat /\ late <= MaxLate /\ clock \in Ticks
      /\ shadow.evidence \subseteq Ids
      /\ \A i \in shadow.evidence : seenAge[i] \in Nat
  BY StatsTypes DEF IInv
<1>1. /\ UNCHANGED <<clock, seenAge, sem>> /\ StoredIds' = StoredIds
      /\ pcS \in {"pass1", "pass2"} /\ Pass(FALSE, r)
      /\ pcS' = IF PassRepeats(FALSE, r) THEN "pass2" ELSE "wait"
      /\ late' = IF PassRepeats(FALSE, r) THEN late ELSE 0
  BY DEF StatsPass, StoredIds
<1>2. pcA = "idle" /\ active \subseteq StoredIds
  BY <1>1 DEF IInv, InvMutex, InvIdle
<1>3. /\ \/ sh = MergedShadow(clock)
         \/ sh = shadow /\ shadow.joining = {}
      /\ shadow'.evidence = sh.evidence /\ shadow'.desired = sh.desired
      /\ shadow'.joining = sh.joining /\ shadow'.lastSeen = sh.lastSeen
      /\ active' = active \/ active' = sh.desired
  <2>1. FALSE \in BOOLEAN
    OBVIOUS
  <2>2. QED
    BY <1>1, <2>1, PassOutcome
<1>4. /\ sh.joining = {}
      /\ sh.evidence = sh.desired
      /\ sh.desired \subseteq shadow.evidence
      /\ \A i \in sh.desired : /\ sh.lastSeen[i] = shadow.lastSeen[i]
                               /\ seenAge[i] < GraceMs + late
      /\ \A i \in active \cap (shadow.evidence \ sh.desired) : seenAge[i] >= GraceMs
  <2>1. CASE sh = MergedShadow(clock)
    <3>1. SignedDiff(clock, clock) = 0 /\ 0 \in Nat /\ 0 <= late
      BY <1>0, DiffSelf
    <3> HIDE DEF sh
    <3>2. /\ sh.joining = {}
          /\ sh.evidence = sh.desired
          /\ sh.desired \subseteq shadow.evidence
          /\ \A i \in sh.desired : /\ sh.lastSeen[i] = shadow.lastSeen[i]
                                   /\ seenAge[i] < GraceMs + 0
          /\ \A i \in active \cap (shadow.evidence \ sh.desired) : seenAge[i] >= GraceMs
      BY <1>0, <2>1, <3>1, MergeAges
    <3>3. ASSUME NEW i \in sh.desired PROVE seenAge[i] < GraceMs + late
      <4>1. seenAge[i] \in Nat /\ seenAge[i] < GraceMs + 0
        BY <1>0, <3>2
      <4>2. QED
        BY <1>0, <4>1, Times
    <3>4. QED
      BY <3>2, <3>3
  <2>2. CASE sh = shadow /\ shadow.joining = {}
    <3>1. AgeLimit = GraceMs + late
      BY <1>1 DEF AgeLimit
    <3>2. \A i \in shadow.desired : seenAge[i] < GraceMs + late
      BY <3>1 DEF AgeInv, InvWantedAge
    <3>3. shadow.evidence = shadow.desired
      BY <2>2 DEF AgeInv, InvKnown
    <3>4. QED
      BY <2>2, <3>2, <3>3
  <2>3. QED
    BY <1>3, <2>1, <2>2
<1> HIDE DEF sh
<1>5. \A i \in active \ shadow.evidence : seenAge[i] >= GraceMs
  BY <1>2 DEF AgeInv, InvGoneAge
<1>6. \A i \in active \ sh.desired : seenAge[i] >= GraceMs
  BY <1>4, <1>5
<1>7. InvKnown' /\ InvWoken' /\ InvSampled' /\ InvQueuedAge'
  BY <1>1, <1>3, <1>4 DEF InvKnown, InvWoken, InvSampled, InvQueuedAge
<1>8. InvTrueAge'
  BY <1>1, <1>3, <1>4 DEF AgeInv, InvTrueAge
<1>9. InvGoneAge'
  BY <1>1, <1>3, <1>4, <1>6 DEF InvGoneAge
<1>10. InvWantedAge'
  <2>1. AgeLimit' \in Nat /\ AgeLimit' >= GraceMs + late
    <3>1. CASE PassRepeats(FALSE, r)
      <4>1. AgeLimit' = GraceMs + late
        BY <1>1, <3>1 DEF AgeLimit
      <4>2. QED
        BY <1>0, <4>1, Times
    <3>2. CASE ~PassRepeats(FALSE, r)
      <4>1. AgeLimit' = GraceMs + MaxLate + 0
        BY <1>1, <3>2 DEF AgeLimit
      <4>2. QED
        BY <1>0, <4>1, Times
    <3>3. QED
      BY <3>1, <3>2
  <2>2. ASSUME NEW i \in sh.desired PROVE seenAge[i] < AgeLimit'
    <3>1. seenAge[i] \in Nat /\ seenAge[i] < GraceMs + late
      BY <1>0, <1>4
    <3>2. QED
      BY <1>0, <2>1, <3>1, Times
  <2>3. QED
    BY <1>1, <1>3, <2>2 DEF InvWantedAge
<1>11. QED
  BY <1>3, <1>6, <1>7, <1>8, <1>9, <1>10 DEF AgeInv

\* A tick ages everything by one; a queued join makes the stats thread due, so
\* its lateness grows as well.
LEMMA TickAges ==
  ASSUME IInv, AgeInv, Tick
  PROVE  AgeInv'
<1>0. /\ TypeOK /\ late \in Nat /\ late <= MaxLate /\ clock \in Ticks /\ nowS \in Ticks
      /\ sleep \in Nat /\ sleep <= MonitorMs
      /\ shadow.evidence \subseteq Ids /\ active \subseteq Ids
      /\ \A i \in Ids : seenAge[i] \in Nat /\ seenAge[i] <= AgeCap
                        /\ shadow.lastSeen[i] \in Ticks
  BY StatsTypes DEF IInv
<1>1. /\ UNCHANGED <<shadow, active, pcS, nowS, sem>> /\ StoredIds' = StoredIds
      /\ clock' = (clock + 1) % Modulus
      /\ late' = IF StatsDue THEN late + 1 ELSE late
      /\ sleep' = IF sleep > 0 THEN sleep - 1 ELSE 0
      /\ seenAge' = [i \in Ids |-> Min2(seenAge[i] + 1, AgeCap)]
      /\ StatsDue => late < MaxLate
  BY <1>0 DEF Tick, StoredIds, Max2
<1>2. \A i \in Ids : seenAge'[i] = Min2(seenAge[i] + 1, AgeCap)
  BY <1>1
<1>3. /\ StatsDue <=> (pcS # "sleep" \/ sleep = 0 \/ sem = 1)
      /\ late' \in Nat
  BY <1>0, <1>1 DEF StatsDue
<1>4. ASSUME NEW i \in shadow.evidence
      PROVE  seenAge'[i] = seenAge[i] + 1 /\ SignedDiff(clock', shadow.lastSeen[i]) = seenAge'[i]
  <2>1. i \in Ids /\ seenAge[i] \in Nat /\ seenAge[i] < AgeCap /\ 2 * (seenAge[i] + 1) < Modulus
    BY <1>0, AgeBound
  <2>2. seenAge'[i] = seenAge[i] + 1
    BY <1>2, <2>1, Times DEF Min2
  <2>3. SignedDiff(clock, shadow.lastSeen[i]) = seenAge[i]
    BY DEF AgeInv, InvTrueAge
  <2>4. QED
    BY <1>0, <1>1, <2>1, <2>2, <2>3, DiffTick
<1>5. InvKnown' /\ InvWoken'
  BY <1>1 DEF AgeInv, InvKnown, InvWoken
<1>6. InvTrueAge'
  BY <1>1, <1>4 DEF InvTrueAge
<1>7. InvSampled'
  <2> SUFFICES ASSUME pcS = "merge"
               PROVE  SignedDiff(clock', nowS) >= 0 /\ SignedDiff(clock', nowS) <= late'
    BY <1>1 DEF InvSampled
  <2>1. SignedDiff(clock, nowS) >= 0 /\ SignedDiff(clock, nowS) <= late
        /\ SignedDiff(clock, nowS) \in Int /\ late' = late + 1
    BY <1>0, <1>1, <1>3, DiffRange DEF AgeInv, InvSampled
  <2>2. SignedDiff(clock', nowS) = SignedDiff(clock, nowS) + 1
    <3>1. 2 * (SignedDiff(clock, nowS) + 1) < Modulus
      BY <1>0, <2>1, Times
    <3>2. QED
      BY <1>0, <1>1, <3>1, DiffTick
  <2>3. QED
    BY <1>0, <2>1, <2>2
<1>8. InvQueuedAge'
  <2> SUFFICES ASSUME NEW i \in shadow.joining PROVE seenAge'[i] <= late'
    BY <1>1 DEF InvQueuedAge
  <2>1. StatsDue
    BY <1>3 DEF AgeInv, InvWoken
  <2>2. i \in shadow.evidence /\ seenAge[i] <= late /\ seenAge[i] \in Nat
    BY <1>0 DEF AgeInv, InvKnown, InvQueuedAge
  <2>3. QED
    BY <1>0, <1>1, <1>4, <2>1, <2>2
<1>9. InvWantedAge'
  <2> SUFFICES ASSUME NEW i \in shadow.desired PROVE seenAge'[i] < AgeLimit'
    BY <1>1 DEF InvWantedAge
  <2>1. i \in shadow.evidence /\ seenAge[i] < AgeLimit /\ seenAge[i] \in Nat
    BY <1>0 DEF AgeInv, InvKnown, InvWantedAge
  <2>2. AgeLimit \in Int /\ AgeLimit' \in Int
    BY <1>0, <1>1, <1>3, Times DEF AgeLimit
  <2>3. AgeLimit' >= AgeLimit + 1
    <3>1. CASE pcS # "sleep"
      BY <1>0, <1>1, <1>3, <3>1, Times DEF AgeLimit
    <3>2. CASE pcS = "sleep"
      BY <1>0, <1>1, <1>3, <3>2, Times DEF AgeLimit
    <3>3. QED
      BY <3>1, <3>2
  <2>4. QED
    BY <1>4, <2>1, <2>2, <2>3
<1>10. InvGoneAge'
  <2> SUFFICES ASSUME NEW i \in (active \cap StoredIds) \ shadow.evidence
               PROVE  seenAge'[i] >= GraceMs
    BY <1>1 DEF InvGoneAge
  <2>1. i \in Ids /\ seenAge[i] >= GraceMs /\ seenAge[i] \in Nat
    BY <1>0 DEF AgeInv, InvGoneAge
  <2>2. QED
    BY <1>2, <2>1, Times DEF Min2
<1>11. QED
  BY <1>5, <1>6, <1>7, <1>8, <1>9, <1>10 DEF AgeInv

\* The interrupt stamps a tracker with the present: its age restarts at zero.
LEMMA ObserveAges ==
  ASSUME IInv, AgeInv, NEW i \in Ids, Observe(i)
  PROVE  AgeInv'
<1>0. /\ TypeOK /\ clock \in Ticks /\ late \in Nat /\ sleep \in Nat /\ sleep <= MonitorMs
      /\ shadow.evidence \subseteq Ids
  BY StatsTypes DEF IInv
<1>0a. seenAge \in [Ids -> 0..AgeCap] /\ shadow.lastSeen \in [Ids -> Ticks]
  BY DEF IInv, TypeOK, ShadowType
<1>1. /\ UNCHANGED <<clock, active, pcS, nowS, sleep, late>>
      /\ StoredIds' = StoredIds
      /\ shadow'.desired = shadow.desired
      /\ shadow'.evidence = shadow.evidence \cup {i}
      /\ shadow'.joining = IF i \notin shadow.desired
                           THEN shadow.joining \cup {i} ELSE shadow.joining
      /\ shadow'.lastSeen = [shadow.lastSeen EXCEPT ![i] = clock]
      /\ seenAge' = [seenAge EXCEPT ![i] = 0]
      /\ sem' = IF i \notin shadow.desired /\ i \notin shadow.joining THEN 1 ELSE sem
  BY <1>0, ObserveEffect DEF layoutVars, statsVars
<1>2. /\ seenAge'[i] = 0 /\ shadow'.lastSeen[i] = clock
      /\ \A j \in Ids \ {i} : /\ seenAge'[j] = seenAge[j]
                              /\ shadow'.lastSeen[j] = shadow.lastSeen[j]
  BY <1>0a, <1>1
<1>3. InvKnown'
  BY <1>1 DEF AgeInv, InvKnown
<1>4. InvWoken'
  BY <1>1 DEF AgeInv, InvWoken
<1>5. InvSampled'
  BY <1>1 DEF AgeInv, InvSampled
<1>6. InvTrueAge'
  <2>1. SignedDiff(clock, clock) = 0
    BY <1>0, DiffSelf
  <2>2. ASSUME NEW j \in shadow.evidence \cup {i}
        PROVE  SignedDiff(clock, shadow'.lastSeen[j]) = seenAge'[j]
    <3>1. CASE j = i
      BY <1>2, <2>1, <3>1
    <3>2. CASE j # i
      BY <1>0, <1>2, <3>2 DEF AgeInv, InvTrueAge
    <3>3. QED
      BY <3>1, <3>2
  <2>3. QED
    BY <1>1, <2>2 DEF InvTrueAge
<1>7. InvQueuedAge'
  <2>1. ASSUME NEW j \in shadow.joining \cup {i}
        PROVE  seenAge'[j] <= late
    <3>1. CASE j = i
      BY <1>0, <1>2, <3>1
    <3>2. CASE j # i
      BY <1>0, <1>2, <3>2 DEF AgeInv, InvQueuedAge, InvKnown
    <3>3. QED
      BY <3>1, <3>2
  <2>2. QED
    BY <1>1, <2>1 DEF InvQueuedAge
<1>8. InvWantedAge'
  <2>1. AgeLimit' = AgeLimit /\ 0 < AgeLimit
    BY <1>0, <1>1, Times DEF AgeLimit
  <2>2. ASSUME NEW j \in shadow.desired
        PROVE  seenAge'[j] < AgeLimit
    <3>1. CASE j = i
      BY <1>2, <2>1, <3>1
    <3>2. CASE j # i
      BY <1>0, <1>2, <3>2 DEF AgeInv, InvWantedAge, InvKnown
    <3>3. QED
      BY <3>1, <3>2
  <2>3. QED
    BY <1>1, <2>1, <2>2 DEF InvWantedAge
<1>9. InvGoneAge'
  <2>1. active \subseteq Ids
    BY DEF IInv, TypeOK
  <2>2. QED
    BY <1>1, <1>2, <2>1 DEF AgeInv, InvGoneAge
<1>10. QED
  BY <1>3, <1>4, <1>5, <1>6, <1>7, <1>8, <1>9 DEF AgeInv

\* A slot reset forgets the evidence of its slots and nothing else.
LEMMA ResetAges ==
  ASSUME IInv, AgeInv, NEW gone \in SUBSET Ids, ResetSlots(gone),
         UNCHANGED <<clock, active, pcS, nowS, sleep, late, sem>>,
         (active \cap StoredIds') \cap gone = {},
         active \cap StoredIds' \subseteq StoredIds
  PROVE  AgeInv'
<1>0. TypeOK /\ shadow.evidence \subseteq Ids /\ active \subseteq Ids
      /\ shadow.desired \subseteq shadow.evidence /\ shadow.joining \subseteq shadow.evidence
  BY StatsTypes DEF IInv, InvShadow
<1>1. /\ shadow'.evidence = shadow.evidence \ gone
      /\ shadow'.desired = shadow.desired \ gone
      /\ shadow'.joining = shadow.joining \ gone
      /\ \A i \in Ids \ gone : /\ shadow'.lastSeen[i] = shadow.lastSeen[i]
                               /\ seenAge'[i] = seenAge[i]
  BY <1>0, ResetEffect
<1>2. InvKnown' /\ InvWoken' /\ InvSampled'
  BY <1>1 DEF AgeInv, InvKnown, InvWoken, InvSampled
<1>3. InvTrueAge' /\ InvQueuedAge'
  BY <1>0, <1>1 DEF AgeInv, InvTrueAge, InvQueuedAge
<1>4. InvWantedAge'
  <2>1. AgeLimit' = AgeLimit
    BY DEF AgeLimit
  <2>2. QED
    BY <1>0, <1>1, <2>1 DEF AgeInv, InvWantedAge
<1>5. InvGoneAge'
  BY <1>0, <1>1 DEF AgeInv, InvGoneAge
<1>6. QED
  BY <1>2, <1>3, <1>4, <1>5 DEF AgeInv

\* A forced publication changes no evidence; the mask it puts in force is wanted.
LEMMA ForcedAges ==
  ASSUME IInv, AgeInv, NEW r \in BOOLEAN, NEW pc, AdminPass(pc, r)
  PROVE  AgeInv'
<1> DEFINE sh == PassShadow(TRUE, r)
<1>0. shadow.desired \subseteq shadow.evidence
  BY DEF IInv, InvShadow
<1>1. /\ UNCHANGED <<clock, seenAge, sem, pcS, nowS, sleep, late>> /\ StoredIds' = StoredIds
      /\ Pass(TRUE, r)
  BY DEF AdminPass, StoredIds, statsVars
<1>2. /\ shadow'.evidence = shadow.evidence /\ shadow'.desired = shadow.desired
      /\ shadow'.joining = shadow.joining /\ shadow'.lastSeen = shadow.lastSeen
      /\ active' = active \/ active' = shadow.desired
  <2>1. TRUE \in BOOLEAN
    OBVIOUS
  <2>2. PassShadow(TRUE, r) = shadow
    BY DEF PassShadow
  <2>3. QED
    BY <1>1, <2>1, <2>2, PassOutcome
<1>3. AgeLimit' = AgeLimit
  BY <1>1 DEF AgeLimit
<1>4. InvKnown' /\ InvWoken' /\ InvSampled' /\ InvTrueAge' /\ InvQueuedAge' /\ InvWantedAge'
  BY <1>1, <1>2, <1>3
  DEF AgeInv, InvKnown, InvWoken, InvSampled, InvTrueAge, InvQueuedAge, InvWantedAge
<1>5. InvGoneAge'
  BY <1>0, <1>1, <1>2 DEF AgeInv, InvGoneAge
<1>6. QED
  BY <1>4, <1>5 DEF AgeInv

\* Every step keeps the ages right.
LEMMA NextAges ==
  ASSUME IInv, AgeInv, [Next]_vars
  PROVE  AgeInv'
<1>1. CASE \E i \in Ids : Observe(i)
  BY <1>1, ObserveAges
<1>2. CASE StatsWait \/ StatsWake \/ StatsSample \/ StatsLoss
  <2>1. TypeOK'
    BY NextTyped DEF IInv
  <2>2. QED
    BY <1>2, <2>1, StatsAges
<1>3. CASE StatsMerge
  BY <1>3, MergeStepAges
<1>4. CASE StatsPass("pass1", FALSE) \/ StatsPass("pass2", TRUE)
  BY <1>4, PassAges
<1>5. CASE AdminAdd
  <2>1. /\ pcA = "idle" /\ stored \in Nat /\ stored \in Ids
        /\ UNCHANGED <<clock, active, pcS, nowS, sleep, late, sem>>
        /\ stored' = stored + 1 /\ ResetSlots({stored})
    BY <1>5, ConstantsAssumption DEF AdminAdd, MutexFree, IInv, TypeOK, statsVars, Ids
  <2>2. active \subseteq StoredIds
    BY <2>1 DEF IInv, InvIdle
  <2>3. stored \notin StoredIds
    BY <2>1 DEF StoredIds
  <2>4. {stored} \in SUBSET Ids
    BY <2>1
  <2>5. (active \cap StoredIds') \cap {stored} = {} /\ active \cap StoredIds' \subseteq StoredIds
    BY <2>2, <2>3
  <2>6. QED
    BY <2>1, <2>4, <2>5, ResetAges
<1>6. CASE AdminPop
  <2>1. /\ stored \in Nat /\ stored > 0 /\ stored - 1 \in Ids
        /\ UNCHANGED <<clock, active, pcS, nowS, sleep, late, sem>>
        /\ stored' = stored - 1 /\ ResetSlots({stored - 1})
    BY <1>6, ConstantsAssumption DEF AdminPop, IInv, TypeOK, statsVars, Ids
  <2>2. StoredIds' \cap {stored - 1} = {} /\ StoredIds' \subseteq StoredIds
    BY <2>1 DEF StoredIds
  <2>3. {stored - 1} \in SUBSET Ids
    BY <2>1
  <2>4. /\ (active \cap StoredIds') \cap {stored - 1} = {}
        /\ active \cap StoredIds' \subseteq StoredIds
    BY <2>2
  <2>5. QED
    BY <2>1, <2>3, <2>4, ResetAges
<1>7. CASE AdminClear
  <2>1. /\ UNCHANGED <<clock, active, pcS, nowS, sleep, late, sem>>
        /\ stored' = 0 /\ ResetSlots(Ids)
    BY <1>7 DEF AdminClear, statsVars
  <2>2. StoredIds' = {}
    BY <2>1 DEF StoredIds
  <2>3. Ids \in SUBSET Ids
    OBVIOUS
  <2>4. (active \cap StoredIds') \cap Ids = {} /\ active \cap StoredIds' \subseteq StoredIds
    BY <2>2
  <2>5. QED
    BY <2>1, <2>3, <2>4, ResetAges
<1>8. CASE AdminFinish
  BY <1>8, ForcedAges DEF AdminFinish
<1>9. CASE Tick
  BY <1>9, TickAges
<1>10. CASE SwitchTestAll \/ SwitchCollect \/ UNCHANGED vars
  <2>1. UNCHANGED <<clock, shadow, seenAge, active, sem, pcS, nowS, sleep, late>>
        /\ StoredIds' = StoredIds
    BY <1>10 DEF SwitchTestAll, SwitchCollect, vars, shadowVars, layoutVars, statsVars, StoredIds
  <2>2. AgeLimit' = AgeLimit
    BY <2>1 DEF AgeLimit
  <2>3. QED
    BY <2>1, <2>2 DEF AgeInv, InvKnown, InvWoken, InvSampled, InvTrueAge, InvQueuedAge,
                      InvWantedAge, InvGoneAge
<1>11. QED
  BY <1>1, <1>2, <1>3, <1>4, <1>5, <1>6, <1>7, <1>8, <1>9, <1>10
  DEF Next, Stats, Admin

\* The ages are right in every reachable state.
LEMMA AgesHold == Spec => [](IInv /\ AgeInv)
<1>1. Init => AgeInv
  BY DEF Init, AgeInv, InvKnown, InvWoken, InvSampled, InvTrueAge, InvQueuedAge,
         InvWantedAge, InvGoneAge
<1>2. IInv /\ AgeInv /\ [Next]_vars => AgeInv'
  BY NextAges
<1>3. QED
  BY <1>1, <1>2, InvHolds, PTL DEF Spec

\* The wrapped age of every piece of evidence is its true age: none survives until
\* the clock makes it look fresh again.
THEOREM AgesAlwaysExact == Spec => []AgesExact
<1>1. IInv /\ AgeInv => AgesExact
  BY AgeBound DEF IInv, AgeInv, InvTrueAge, AgesExact
<1>2. QED
  BY <1>1, AgesHold, PTL

\* The step NoEarlyEviction allows.
EarlyStep == pcA = "idle" => \A i \in active \ active' : seenAge[i] >= GraceMs

\* An ordinary publication takes the slot of nobody that was heard within the
\* leave grace.
THEOREM NeverEvictedEarly == Spec => NoEarlyEviction
<1>1. IInv /\ AgeInv /\ [Next]_vars => [EarlyStep]_vars
  <2> SUFFICES ASSUME IInv, AgeInv, Next, pcA = "idle"
               PROVE  \A i \in active \ active' : seenAge[i] >= GraceMs
    BY DEF EarlyStep
  <2>1. CASE StatsPass("pass1", FALSE) \/ StatsPass("pass2", TRUE)
    BY <2>1, PassAges
  <2>2. CASE AdminFinish
    BY <2>2 DEF AdminFinish, AdminPass
  <2>3. CASE active' = active
    BY <2>3
  <2>4. QED
    BY <2>1, <2>2, <2>3
    DEF Next, Stats, Admin, Observe, StatsWait, StatsWake, StatsSample, StatsMerge,
        StatsLoss, AdminAdd, AdminPop, AdminClear, SwitchTestAll, SwitchCollect, Tick,
        layoutVars
<1>2. NoEarlyEviction <=> [][EarlyStep]_vars
  BY DEF NoEarlyEviction, EarlyStep
<1>3. QED
  BY <1>1, <1>2, AgesHold, PTL DEF Spec

-----------------------------------------------------------------------------
(* How long a change may be owed. Left is what the deadline and the spacing  *)
(* of publications still hold back: while it is positive a change is ahead   *)
(* of its limit by that much, and once it is not, the stats thread is due    *)
(* and the change is over its limit by the lateness at most. A deadline that *)
(* has been armed for half the range of the clock would look like the future *)
(* and break this; the results below assume DeadlineYoung.                   *)

\* What deadline and spacing hold back, for a deadline lag ticks ago and a
\* publication since ticks ago.
LeftOf(lag, since) == Max2(0 - lag, ReconfigMinMs - since)

\* The same for the deadline and the last publication of the present state.
Left == LeftOf(SignedDiff(clock, shadow.deadline), sinceReconfig)

\* A change of age q is ahead of its limit by what is left, or over it by the
\* lateness l at most.
Within(q, left, l, limit) == IF left > 0 THEN q + left <= limit ELSE q <= limit + l

\* The ages at which joins and departures are due, the last lateness not counted.
JoinLimit  == Max2(CohortMs, ReconfigMinMs + MaxLate)
LeaveLimit == GraceMs + MonitorMs + 2 * MaxLate + Max2(CohortMs, ReconfigMinMs)

\* A change is owed only under an armed deadline, also in the window of a
\* forced publication.
InvOwing ==
  (shadow.desired \ active # {} \/ (active \cap StoredIds) \ shadow.desired # {})
    => shadow.armed

\* An undisturbed sleep ends when the owed change may be published.
InvSleep == pcS = "sleep" /\ sem = 0 /\ shadow.armed => sleep <= Max2(Left, 0)

\* A queued join has waited no longer than the thread is late, and its deadline is
\* no more than a cohort away from when it was queued.
InvQueued ==
  \A i \in shadow.joining :
    owed[i] <= late /\ owed[i] <= CohortMs + SignedDiff(clock, shadow.deadline)

\* Wanted trackers that are not yet in the layout are within their limit.
InvJoins ==
  \A i \in shadow.desired \ active : Within(owed[i], Left, late, JoinLimit)

\* Members whose evidence was dropped are within theirs.
InvLeaves ==
  \A i \in (active \cap StoredIds) \ shadow.evidence :
    Within(seenAge[i] + 1, Left, late, LeaveLimit)

\* How long ago the deadline was that the last wait found expired.
DueAge == (clock - dueFor) % Modulus

\* The stats thread comes back to its wait with time left to sleep.
InvRested == pcS = "wait" /\ late = 0 /\ shadow.armed => Left > 0

\* After a wait that found an expired deadline: a forced publication may restart
\* the spacing, but too late for the deadline to be found expired again.
InvDue ==
  dueFor # None /\ pcS # "wait" =>
    /\ late > 0 /\ (pcS = "sleep" => sleep = 0)
    /\ 2 * DueAge < Modulus + 2 * late
    /\ sinceReconfig >= ReconfigMinMs \/ sinceReconfig < late

\* Back at the wait: a deadline that is still the same was held by a publication
\* that is too recent for it to be found expired again.
InvDone ==
  dueFor # None /\ pcS = "wait" =>
    /\ 2 * DueAge < Modulus + 2 * (MaxLate + late)
    /\ shadow.armed /\ shadow.deadline = dueFor => sinceReconfig < MaxLate + late

\* The invariant about what is owed.
DueInv == /\ InvOwing /\ InvSleep /\ InvQueued /\ InvJoins /\ InvLeaves
          /\ InvRested /\ InvDue /\ InvDone

\* Unsigned distances, by cases on the order of the two readings.
LEMMA ElapsedValue ==
  ASSUME NEW a \in Ticks, NEW b \in Ticks
  PROVE  /\ (a - b) % Modulus = IF a >= b THEN a - b ELSE a - b + Modulus
         /\ (a - b) % Modulus \in Nat
<1>1. a \in Int /\ b \in Int /\ 0 <= a /\ a < Modulus /\ 0 <= b /\ b < Modulus
      /\ Modulus \in Nat /\ Modulus > 0
  BY Times DEF Ticks
<1>2. CASE a >= b
  BY <1>1, <1>2
<1>3. CASE a < b
  BY <1>1, <1>3
<1>4. QED
  BY <1>1, <1>2, <1>3

\* The next tick.
LEMMA NextTick ==
  ASSUME NEW a \in Ticks
  PROVE  /\ (a + 1) % Modulus \in Ticks
         /\ (a + 1) % Modulus = IF a + 1 = Modulus THEN 0 ELSE a + 1
<1>1. a \in Int /\ 0 <= a /\ a < Modulus /\ Modulus \in Nat /\ Modulus > 0
  BY Times DEF Ticks
<1>2. CASE a + 1 = Modulus
  BY <1>1, <1>2 DEF Ticks
<1>3. CASE a + 1 < Modulus
  BY <1>1, <1>3 DEF Ticks
<1>4. QED
  BY <1>1, <1>2, <1>3

\* A tick adds at most one to a distance.
LEMMA ElapsedTick ==
  ASSUME NEW a \in Ticks, NEW b \in Ticks
  PROVE  (((a + 1) % Modulus) - b) % Modulus <= ((a - b) % Modulus) + 1
<1> DEFINE c == (a + 1) % Modulus
<1>1. c \in Ticks /\ c = IF a + 1 = Modulus THEN 0 ELSE a + 1
  BY NextTick
<1> HIDE DEF c
<1>2. (c - b) % Modulus <= ((a - b) % Modulus) + 1
  <2>1. /\ (c - b) % Modulus = IF c >= b THEN c - b ELSE c - b + Modulus
        /\ (a - b) % Modulus = IF a >= b THEN a - b ELSE a - b + Modulus
    BY <1>1, ElapsedValue
  <2>2. a \in Int /\ b \in Int /\ 0 <= a /\ a < Modulus /\ 0 <= b /\ b < Modulus
        /\ Modulus \in Nat
    BY Times DEF Ticks
  <2>3. QED
    BY <1>1, <2>1, <2>2
<1>3. QED
  BY <1>2 DEF c

\* A moment n ticks ahead is almost a whole range ago.
LEMMA ElapsedAhead ==
  ASSUME NEW a \in Ticks, NEW n \in Nat, 0 < n, n < Modulus
  PROVE  (a - ((a + n) % Modulus)) % Modulus = Modulus - n
<1>1. a \in Int /\ 0 <= a /\ a < Modulus /\ Modulus \in Nat /\ Modulus > 0
  BY Times DEF Ticks
<1>2. (a + n) % Modulus = IF a + n < Modulus THEN a + n ELSE a + n - Modulus
  <2>1. CASE a + n < Modulus
    BY <1>1, <2>1
  <2>2. CASE a + n >= Modulus
    BY <1>1, <2>2
  <2>3. QED
    BY <1>1, <2>1, <2>2
<1> DEFINE c == (a + n) % Modulus
<1>3. c = (IF a + n < Modulus THEN a + n ELSE a + n - Modulus) /\ c \in Ticks
  BY <1>1, <1>2 DEF Ticks
<1> HIDE DEF c
<1>4. (a - c) % Modulus = IF a >= c THEN a - c ELSE a - c + Modulus
  BY <1>3, ElapsedValue
<1>5. (a - c) % Modulus = Modulus - n
  BY <1>1, <1>3, <1>4
<1>6. QED
  BY <1>5 DEF c

\* The signed difference as a distance.
LEMMA ElapsedDiff ==
  ASSUME NEW a \in Ticks, NEW b \in Ticks
  PROVE  /\ SignedDiff(a, b) >= 0 => (a - b) % Modulus = SignedDiff(a, b)
         /\ SignedDiff(a, b) < 0 => (a - b) % Modulus = SignedDiff(a, b) + Modulus
<1>1. a \in Int /\ b \in Int /\ 0 <= a /\ a < Modulus /\ 0 <= b /\ b < Modulus
      /\ Modulus \in Nat /\ Modulus > 0
  BY Times DEF Ticks
<1>2. (a - b) % Modulus = IF a >= b THEN a - b ELSE a - b + Modulus
  BY ElapsedValue
<1>3. QED
  BY <1>1, <1>2, DiffValue

\* A difference that is not far negative after a tick grew by one.
LEMMA DiffTickYoung ==
  ASSUME NEW a \in Ticks, NEW b \in Ticks, NEW n \in Nat, n < AgeCap,
         SignedDiff(a, b) >= 0 - n, SignedDiff((a + 1) % Modulus, b) >= 0 - n
  PROVE  SignedDiff((a + 1) % Modulus, b) = SignedDiff(a, b) + 1
<1> DEFINE c == (a + 1) % Modulus
<1>1. c \in Ticks /\ c = IF a + 1 = Modulus THEN 0 ELSE a + 1
  BY NextTick
<1>2. SignedDiff(c, b) >= 0 - n
  OBVIOUS
<1> HIDE DEF c
<1>3. a \in Int /\ b \in Int /\ 0 <= a /\ a < Modulus /\ 0 <= b /\ b < Modulus
      /\ Modulus \in Nat /\ Modulus > 0
  BY Times DEF Ticks
<1>4. SignedDiff(c, b) = SignedDiff(a, b) + 1
  <2> DEFINE d(x) == IF x >= b THEN x - b ELSE x - b + Modulus
  <2>1. /\ SignedDiff(a, b) = IF 2 * d(a) < Modulus THEN d(a) ELSE d(a) - Modulus
        /\ SignedDiff(c, b) = IF 2 * d(c) < Modulus THEN d(c) ELSE d(c) - Modulus
    BY <1>1, DiffValue
  <2>2. Modulus > 2 * n + 1
    BY Times
  <2>3. QED
    BY <1>1, <1>2, <1>3, <2>1, <2>2
<1>5. QED
  BY <1>4 DEF c

\* What is left shrinks by one with every tick, down to zero.
LEMMA LeftTick ==
  ASSUME NEW lag \in Int, NEW since \in Nat
  PROVE  LET left  == LeftOf(lag, since)
             after == LeftOf(lag + 1, Min2(since + 1, LossReconfigMinMs))
         IN  /\ left \in Int /\ after \in Int
             /\ left > 0 => after = left - 1
             /\ left <= 0 => after <= 0
  BY Times DEF LeftOf, Max2, Min2

\* A limit survives a tick: either less is left, or the lateness grows.
LEMMA WithinTick ==
  ASSUME NEW q \in Nat, NEW q2 \in Nat, NEW left \in Int, NEW left2 \in Int,
         NEW l \in Nat, NEW l2 \in Nat, NEW limit \in Nat,
         Within(q, left, l, limit), q2 <= q + 1,
         left > 0 => left2 = left - 1,
         left <= 0 => left2 <= 0 /\ l2 = l + 1
  PROVE  Within(q2, left2, l2, limit)
  BY DEF Within

\* The limits of joins and departures are numbers.
LEMMA Limits ==
  /\ JoinLimit \in Nat /\ JoinLimit >= CohortMs /\ JoinLimit >= ReconfigMinMs + MaxLate
  /\ LeaveLimit \in Nat
  /\ LeaveLimit >= GraceMs + MonitorMs + 2 * MaxLate + CohortMs
  /\ LeaveLimit >= GraceMs + MonitorMs + 2 * MaxLate + ReconfigMinMs
  BY Times DEF JoinLimit, LeaveLimit, Max2

\* A join that a merge has just taken over is within its limit.
LEMMA QueuedWithin ==
  ASSUME NEW q \in Nat, NEW lag \in Int, NEW since \in Nat, NEW l \in Nat,
         l <= MaxLate, q <= l, q <= CohortMs + lag
  PROVE  Within(q, LeftOf(lag, since), l, JoinLimit)
  BY Times, Limits DEF Within, LeftOf, Max2

\* A departure that a merge has just noticed is within its limit.
LEMMA NoticedWithin ==
  ASSUME NEW q \in Nat, NEW lag \in Int, NEW since \in Nat, NEW l \in Nat,
         q < GraceMs + MonitorMs + 2 * MaxLate, lag >= 0 - CohortMs
  PROVE  Within(q + 1, LeftOf(lag, since), l, LeaveLimit)
  BY Times, Limits DEF Within, LeftOf, Max2

\* The types of the parts of DueInv.
LEMMA DueTypes ==
  ASSUME TypeOK
  PROVE  /\ SignedDiff(clock, shadow.deadline) \in Int /\ Left \in Int
         /\ dueFor # None => dueFor \in Ticks /\ DueAge \in Nat
<1>1. clock \in Ticks /\ shadow.deadline \in Ticks /\ sinceReconfig \in Nat
  BY StatsTypes
<1>2. SignedDiff(clock, shadow.deadline) \in Int
  BY <1>1, DiffRange
<1>3. Left \in Int
  BY <1>1, <1>2, Times DEF Left, LeftOf, Max2
<1>4. dueFor # None => dueFor \in Ticks
  BY DEF TypeOK
<1>5. QED
  BY <1>1, <1>2, <1>3, <1>4, ElapsedValue DEF DueAge

\* The timeout of the wait is computed from what is left.
LEMMA RemainingIsLeft ==
  ASSUME TypeOK, DeadlineYoung, shadow.armed
  PROVE  MembershipRemaining = Left
<1>1. clock \in Ticks /\ shadow.deadline \in Ticks
  BY StatsTypes
<1>2. SignedDiff(clock, shadow.deadline) \in Int
      /\ SignedDiff(clock, shadow.deadline) >= 0 - CohortMs
  BY <1>1, DiffRange DEF DeadlineYoung
<1>3. 2 * SignedDiff(clock, shadow.deadline) > 0 - Modulus
  BY <1>2, Times
<1>4. SignedDiff(shadow.deadline, clock) = 0 - SignedDiff(clock, shadow.deadline)
  BY <1>1, <1>3, DiffAnti
<1>5. QED
  BY <1>4 DEF MembershipRemaining, Left, LeftOf

\* The steps of the stats thread that leave masks, clock and layout alone.
LEMMA StatsDueInv ==
  ASSUME IInv, DueInv, DeadlineYoung, StatsWait \/ StatsWake \/ StatsSample \/ StatsLoss
  PROVE  DueInv' /\ (StatsWait /\ dueFor # None => dueFor' # dueFor)
<1>0. /\ TypeOK /\ late \in Nat /\ late <= MaxLate /\ sleep \in Nat
      /\ clock \in Ticks /\ shadow.deadline \in Ticks
      /\ sinceReconfig \in Nat /\ Left \in Int /\ shadow.armed \in BOOLEAN
      /\ SignedDiff(clock, shadow.deadline) \in Int
  BY StatsTypes, DueTypes DEF IInv
<1>1. /\ UNCHANGED <<clock, shadow, seenAge, owed, active, late, sinceReconfig>>
      /\ StoredIds' = StoredIds
      /\ \/ StatsWait
         \/ pcS = "sleep" /\ pcS' = "sample" /\ dueFor' = dueFor
         \/ pcS = "sample" /\ pcS' = "merge" /\ dueFor' = dueFor
         \/ pcS = "loss" /\ pcS' = "pass1" /\ dueFor' = dueFor
  BY DEF StatsWait, StatsWake, StatsSample, StatsLoss, shadowVars, layoutVars, StoredIds
<1>2. Left' = Left
  BY <1>1 DEF Left
<1>3. InvOwing' /\ InvQueued' /\ InvJoins' /\ InvLeaves'
  BY <1>1, <1>2 DEF DueInv, InvOwing, InvQueued, InvJoins, InvLeaves
<1>4. InvRested' /\ InvDone'
  BY <1>1 DEF InvRested, InvDone, StatsWait
<1>5. CASE StatsWait
  <2>1. /\ pcS = "wait" /\ pcS' = "sleep" /\ sleep' = WaitMs /\ sem' = sem
        /\ dueFor' = IF shadow.armed /\ MembershipRemaining <= 0
                     THEN shadow.deadline ELSE None
        /\ monitorIn \in Nat
    BY <1>5, Times DEF StatsWait, IInv, TypeOK
  <2>2. shadow.armed => MembershipRemaining = Left
    BY <1>0, RemainingIsLeft
  <2>3. InvSleep'
    <3>1. shadow.armed => WaitMs <= Max2(Left, 0)
      BY <1>0, <2>1, <2>2 DEF WaitMs, Max2, Min2
    <3>2. QED
      BY <1>1, <1>2, <2>1, <3>1 DEF InvSleep
  <2>4. CASE dueFor' = None
    BY <1>3, <1>4, <2>3, <2>4 DEF DueInv, InvDue
  <2>5. CASE dueFor' # None
    <3>1. shadow.armed /\ Left <= 0 /\ dueFor' = shadow.deadline
      BY <2>1, <2>2, <2>5
    <3>2. sleep' = 0
      BY <1>0, <2>1, <2>2, <3>1 DEF WaitMs
    <3>3. late > 0
      BY <1>0, <2>1, <3>1 DEF DueInv, InvRested
    <3>4. SignedDiff(clock, shadow.deadline) >= 0 /\ sinceReconfig >= ReconfigMinMs
      BY <1>0, <3>1, Times DEF Left, LeftOf, Max2
    <3>5. DueAge' = SignedDiff(clock, shadow.deadline)
      <4>1. DueAge' = (clock - shadow.deadline) % Modulus
        BY <1>1, <3>1 DEF DueAge
      <4>2. QED
        BY <1>0, <3>4, <4>1, ElapsedDiff
    <3>6. 2 * SignedDiff(clock, shadow.deadline) < Modulus + 2 * late
      BY <1>0, DiffRange, Times
    <3>7. InvDue'
      BY <1>1, <3>2, <3>3, <3>4, <3>5, <3>6 DEF InvDue
    <3>8. dueFor # None => dueFor' # dueFor
      <4> SUFFICES ASSUME dueFor # None, dueFor' = dueFor PROVE FALSE
        OBVIOUS
      <4>1. sinceReconfig < MaxLate + late
        BY <2>1, <3>1 DEF DueInv, InvDone
      <4>2. QED
        BY <1>0, <3>4, <4>1, Times
    <3>9. QED
      BY <1>3, <1>4, <2>3, <3>7, <3>8 DEF DueInv
  <2>6. QED
    BY <2>4, <2>5
<1>6. CASE ~StatsWait
  <2>1. /\ pcS # "wait" /\ pcS' # "sleep" /\ pcS' # "wait" /\ dueFor' = dueFor
    BY <1>1, <1>6
  <2>2. DueAge' = DueAge
    BY <1>1, <2>1 DEF DueAge
  <2>3. InvSleep' /\ InvDue'
    BY <1>1, <2>1, <2>2 DEF DueInv, InvSleep, InvDue
  <2>4. QED
    BY <1>3, <1>4, <1>6, <2>3 DEF DueInv
<1>7. QED
  BY <1>5, <1>6

\* The masks of a merge at a tick at most the lateness ago: every change they owe
\* is within its limit, and the deadline is at most a cohort ahead.
LEMMA MergeDue ==
  ASSUME IInv, AgeInv, DueInv, DeadlineYoung, pcA = "idle",
         NEW now \in Ticks, NEW e \in Nat, e <= late, SignedDiff(clock, now) = e
  PROVE  LET sh == MergedShadow(now)
             left == LeftOf(SignedDiff(clock, sh.deadline), sinceReconfig)
         IN  /\ sh.armed <=> sh.desired # active
             /\ sh.deadline \in Ticks
             /\ sh.armed => SignedDiff(clock, sh.deadline) >= 0 - CohortMs
             /\ \A i \in sh.desired \ active : Within(owed[i], left, late, JoinLimit)
             /\ \A i \in active \ sh.evidence : Within(seenAge[i] + 1, left, late, LeaveLimit)
<1> DEFINE sh == MergedShadow(now)
           lag == SignedDiff(clock, sh.deadline)
           left == LeftOf(lag, sinceReconfig)
<1>0. /\ TypeOK /\ late \in Nat /\ late <= MaxLate /\ clock \in Ticks
      /\ sinceReconfig \in Nat /\ shadow.evidence \subseteq Ids /\ active \subseteq Ids
      /\ \A i \in Ids : seenAge[i] \in Nat /\ owed[i] \in Nat
      /\ shadow.armed \in BOOLEAN /\ shadow.deadline \in Ticks
      /\ active \subseteq StoredIds
      /\ SignedDiff(clock, shadow.deadline) \in Int
  BY StatsTypes, DueTypes DEF IInv, InvIdle
<1>1. /\ sh.joining = {}
      /\ sh.evidence = sh.desired
      /\ sh.desired \subseteq shadow.evidence
  BY MergeAges
<1>2. /\ sh.armed <=> sh.desired # active
      /\ sh.deadline = IF sh.desired # active /\ ~shadow.armed THEN now ELSE shadow.deadline
  BY DEF MergedShadow, MergedDeadline
<1>3. sh.deadline \in Ticks
  BY <1>0, <1>2
<1> HIDE DEF sh
<1>4. lag \in Int
  BY <1>0, <1>3, DiffRange
<1>5. shadow.armed => sh.deadline = shadow.deadline /\ lag >= 0 - CohortMs /\ left = Left
  BY <1>2 DEF DeadlineYoung, Left
<1>6. sh.desired # active => lag >= 0 - CohortMs
  <2>1. CASE shadow.armed
    BY <1>5, <2>1
  <2>2. CASE ~shadow.armed
    <3>1. sh.desired # active => lag = e
      BY <1>2, <2>2
    <3>2. QED
      BY <3>1, Times
  <2>3. QED
    BY <2>1, <2>2
<1>7. ASSUME NEW i \in sh.desired, i \notin active
      PROVE  Within(owed[i], left, late, JoinLimit)
  <2>1. CASE i \in shadow.desired
    <3>1. shadow.armed
      BY <1>7, <2>1 DEF DueInv, InvOwing
    <3>2. QED
      BY <1>5, <1>7, <2>1, <3>1 DEF DueInv, InvJoins
  <2>2. CASE i \in shadow.joining
    <3>1. shadow.armed
      BY <2>2 DEF IInv, InvArmed
    <3>2. /\ owed[i] \in Nat /\ owed[i] <= late
          /\ owed[i] <= CohortMs + lag
      BY <1>0, <1>1, <1>5, <1>7, <2>2, <3>1 DEF DueInv, InvQueued
    <3> HIDE DEF lag
    <3>3. QED
      BY <1>0, <1>4, <3>2, QueuedWithin
  <2>3. QED
    BY <1>1, <2>1, <2>2 DEF AgeInv, InvKnown
<1>8. ASSUME NEW i \in active, i \notin sh.evidence
      PROVE  Within(seenAge[i] + 1, left, late, LeaveLimit)
  <2>1. CASE i \notin shadow.evidence
    <3>1. i \in active \cap StoredIds /\ i \notin shadow.desired
      BY <1>0, <2>1 DEF IInv, InvShadow
    <3>2. shadow.armed
      BY <3>1 DEF DueInv, InvOwing
    <3>3. QED
      BY <1>5, <2>1, <3>1, <3>2 DEF DueInv, InvLeaves
  <2>2. CASE i \in shadow.evidence
    <3>1. seenAge[i] \in Nat /\ seenAge[i] < GraceMs + MonitorMs + 2 * MaxLate
      BY <1>0, <2>2, AgeBound
    <3>2. lag >= 0 - CohortMs
      BY <1>1, <1>6, <1>8
    <3> HIDE DEF lag
    <3>3. QED
      BY <1>0, <1>4, <3>1, <3>2, NoticedWithin
  <2>3. QED
    BY <2>1, <2>2
<1>9. QED
  BY <1>2, <1>3, <1>6, <1>7, <1>8 DEF sh

\* tdma_shadow_update keeps every owed change within its limit.
LEMMA MergeStepDue ==
  ASSUME IInv, AgeInv, DueInv, DeadlineYoung, StatsMerge
  PROVE  DueInv'
<1> DEFINE e == SignedDiff(clock, nowS)
<1>0. /\ TypeOK /\ late \in Nat /\ clock \in Ticks /\ nowS \in Ticks
  BY StatsTypes DEF IInv
<1>1. /\ UNCHANGED <<clock, seenAge, owed, active, late, sinceReconfig, dueFor>>
      /\ StoredIds' = StoredIds
      /\ pcS = "merge" /\ pcS' \in {"loss", "pass1"}
      /\ shadow' = MergedShadow(nowS)
  BY DEF StatsMerge, layoutVars, StoredIds
<1>2. pcA = "idle"
  BY <1>1 DEF IInv, InvMutex
<1>3. e \in Nat /\ e <= late
  BY <1>0, <1>1, DiffRange DEF AgeInv, InvSampled
<1> HIDE DEF e
<1>4. /\ shadow'.joining = {} /\ shadow'.evidence = shadow'.desired
  BY <1>0, <1>1, <1>3, MergeAges DEF e
<1>5. /\ shadow'.armed <=> shadow'.desired # active
      /\ LET left == LeftOf(SignedDiff(clock, shadow'.deadline), sinceReconfig)
         IN  /\ \A i \in shadow'.desired \ active : Within(owed[i], left, late, JoinLimit)
             /\ \A i \in active \ shadow'.evidence :
                  Within(seenAge[i] + 1, left, late, LeaveLimit)
  BY <1>0, <1>1, <1>2, <1>3, MergeDue DEF e
<1>6. Left' = LeftOf(SignedDiff(clock, shadow'.deadline), sinceReconfig)
  BY <1>1 DEF Left
<1>7. InvOwing' /\ InvQueued' /\ InvSleep' /\ InvRested' /\ InvDone'
  BY <1>1, <1>4, <1>5 DEF InvOwing, InvQueued, InvSleep, InvRested, InvDone
<1>8. InvJoins' /\ InvLeaves'
  BY <1>1, <1>5, <1>6 DEF InvJoins, InvLeaves
<1>9. InvDue'
  <2>1. DueAge' = DueAge
    BY <1>1 DEF DueAge
  <2>2. QED
    BY <1>1, <2>1 DEF DueInv, InvDue
<1>10. QED
  BY <1>7, <1>8, <1>9 DEF DueInv

\* An ordinary pass publishes what is owed, or leaves time to sleep before the
\* next one.
LEMMA PassDue ==
  ASSUME IInv, AgeInv, DueInv, DeadlineYoung,
         NEW r \in BOOLEAN, NEW pc \in {"pass1", "pass2"}, StatsPass(pc, r)
  PROVE  DueInv'
<1> DEFINE sh == PassShadow(FALSE, r)
           lag == SignedDiff(clock, sh.deadline)
           left == LeftOf(lag, sinceReconfig)
<1>0. /\ TypeOK /\ late \in Nat /\ late <= MaxLate /\ clock \in Ticks
      /\ sinceReconfig \in Nat /\ shadow.deadline \in Ticks
  BY StatsTypes DEF IInv
<1>1. /\ UNCHANGED <<clock, seenAge, owed, sem, dueFor>> /\ StoredIds' = StoredIds
      /\ pcS \in {"pass1", "pass2"} /\ Pass(FALSE, r)
      /\ pcS' = IF PassRepeats(FALSE, r) THEN "pass2" ELSE "wait"
      /\ late' = IF PassRepeats(FALSE, r) THEN late ELSE 0
  BY DEF StatsPass, StoredIds
<1>2. pcA = "idle" /\ active \subseteq StoredIds
  BY <1>1 DEF IInv, InvMutex, InvIdle
<1>3. /\ \/ sh = MergedShadow(clock)
         \/ sh = shadow /\ shadow.joining = {}
      /\ \/ /\ shadow' = sh
            /\ UNCHANGED <<active, sinceReconfig>>
            /\ \/ PassRepeats(FALSE, r)
               \/ sh.desired = active
               \/ sh.armed /\ lag < 0
               \/ sinceReconfig < ReconfigMinMs
         \/ /\ ~PassRepeats(FALSE, r)
            /\ active' = sh.desired
            /\ shadow'.evidence = sh.evidence
            /\ shadow'.desired = sh.desired
            /\ shadow'.joining = sh.joining
            /\ shadow'.armed <=> sh.armed /\ sh.joining # {}
  <2>1. FALSE \in BOOLEAN
    OBVIOUS
  <2>2. QED
    BY <1>1, <2>1, PassOutcome
<1>4. /\ sh.joining = {} /\ sh.evidence = sh.desired /\ sh.deadline \in Ticks
      /\ sh.armed <=> sh.desired # active
      /\ sh.armed => lag >= 0 - CohortMs
      /\ \A i \in sh.desired \ active : Within(owed[i], left, late, JoinLimit)
      /\ \A i \in active \ sh.evidence : Within(seenAge[i] + 1, left, late, LeaveLimit)
  <2>1. CASE sh = MergedShadow(clock)
    <3>1. SignedDiff(clock, clock) = 0 /\ 0 \in Nat /\ 0 <= late
      BY <1>0, DiffSelf
    <3> HIDE DEF sh
    <3>2. sh.joining = {} /\ sh.evidence = sh.desired
      BY <1>0, <2>1, <3>1, MergeAges
    <3>3. QED
      BY <1>0, <1>2, <2>1, <3>1, <3>2, MergeDue
  <2>2. CASE sh = shadow /\ shadow.joining = {}
    <3>1. shadow.evidence = shadow.desired
      BY <2>2 DEF AgeInv, InvKnown
    <3>2. shadow.armed <=> shadow.desired # active
      BY <1>2, <2>2 DEF IInv, InvArmed, InvIdle
    <3>3. shadow.armed => SignedDiff(clock, shadow.deadline) >= 0 - CohortMs
      BY DEF DeadlineYoung
    <3>4. \A i \in shadow.desired \ active : Within(owed[i], Left, late, JoinLimit)
      BY DEF DueInv, InvJoins
    <3>5. \A i \in active \ shadow.evidence : Within(seenAge[i] + 1, Left, late, LeaveLimit)
      BY <1>2 DEF DueInv, InvLeaves
    <3>6. lag = SignedDiff(clock, shadow.deadline) /\ left = Left
      BY <2>2 DEF Left
    <3> HIDE DEF sh, lag, left
    <3>7. QED
      BY <1>0, <2>2, <3>1, <3>2, <3>3, <3>4, <3>5, <3>6
  <2>3. QED
    BY <1>3, <2>1, <2>2
<1> HIDE DEF sh
<1>5. lag \in Int /\ left \in Int
  BY <1>0, <1>4, DiffRange, Times DEF LeftOf, Max2
<1>6. DueAge' = DueAge
  BY <1>1 DEF DueAge
<1>7. dueFor # None => /\ DueAge \in Nat /\ dueFor \in Ticks
                       /\ 2 * DueAge < Modulus + 2 * late
                       /\ sinceReconfig >= ReconfigMinMs \/ sinceReconfig < late
  BY <1>0, <1>1, DueTypes DEF DueInv, InvDue
<1>8. dueFor # None => 2 * DueAge < Modulus + 2 * (MaxLate + 0)
  BY <1>0, <1>7, Times
<1>9. CASE PassRepeats(FALSE, r)
  <2>1. /\ shadow' = sh /\ UNCHANGED <<active, sinceReconfig, late>> /\ pcS' = "pass2"
    BY <1>1, <1>3, <1>9
  <2>2. Left' = left
    BY <1>1, <2>1 DEF Left
  <2>3. InvOwing' /\ InvSleep' /\ InvQueued' /\ InvRested' /\ InvDone'
    BY <1>1, <1>4, <2>1 DEF InvOwing, InvSleep, InvQueued, InvRested, InvDone
  <2>4. InvJoins' /\ InvLeaves'
    BY <1>1, <1>4, <2>1, <2>2 DEF InvJoins, InvLeaves
  <2>5. InvDue'
    BY <1>1, <1>6, <2>1 DEF DueInv, InvDue
  <2>6. QED
    BY <2>3, <2>4, <2>5 DEF DueInv
<1>10. CASE ~PassRepeats(FALSE, r) /\ shadow' = sh /\ UNCHANGED <<active, sinceReconfig>>
            /\ (sh.desired = active \/ (sh.armed /\ lag < 0) \/ sinceReconfig < ReconfigMinMs)
  <2>1. late' = 0 /\ pcS' = "wait"
    BY <1>1, <1>10
  <2>2. Left' = left
    BY <1>1, <1>10 DEF Left
  <2>3. sh.armed => left > 0
    BY <1>0, <1>4, <1>5, <1>10, Times DEF LeftOf, Max2
  <2>4. InvOwing' /\ InvSleep' /\ InvQueued' /\ InvRested' /\ InvDue'
    BY <1>1, <1>4, <1>10, <2>1, <2>2, <2>3
    DEF InvOwing, InvSleep, InvQueued, InvRested, InvDue
  <2>5. InvJoins'
    <3>1. ASSUME NEW i \in sh.desired \ active PROVE Within(owed[i], left, 0, JoinLimit)
      BY <1>4, <2>3 DEF Within
    <3>2. QED
      BY <1>1, <1>10, <2>1, <2>2, <3>1 DEF InvJoins
  <2>6. InvLeaves'
    <3>1. ASSUME NEW i \in active \ sh.evidence
          PROVE  Within(seenAge[i] + 1, left, 0, LeaveLimit)
      BY <1>4, <2>3 DEF Within
    <3>2. QED
      BY <1>1, <1>10, <2>1, <2>2, <3>1 DEF InvLeaves
  <2>7. InvDone'
    <3>1. ASSUME dueFor # None, sh.armed, sh.deadline = dueFor
          PROVE  sinceReconfig < MaxLate + 0
      <4>1. CASE sinceReconfig < ReconfigMinMs
        BY <1>0, <1>7, <3>1, <4>1, Times
      <4>2. CASE sinceReconfig >= ReconfigMinMs
        <5>1. lag < 0 /\ lag >= 0 - CohortMs
          BY <1>0, <1>4, <1>10, <3>1, <4>2, Times
        <5>2. DueAge = lag + Modulus
          BY <1>0, <1>4, <3>1, <5>1, ElapsedDiff DEF DueAge
        <5>3. QED
          BY <1>5, <1>8, <3>1, <5>1, <5>2, Times
      <4>3. QED
        BY <1>0, <4>1, <4>2, Times
    <3>2. QED
      BY <1>1, <1>6, <1>8, <1>10, <2>1, <3>1 DEF InvDone
  <2>8. QED
    BY <2>4, <2>5, <2>6, <2>7 DEF DueInv
<1>11. CASE /\ ~PassRepeats(FALSE, r)
            /\ active' = sh.desired
            /\ shadow'.evidence = sh.evidence
            /\ shadow'.desired = sh.desired
            /\ shadow'.joining = sh.joining
            /\ shadow'.armed <=> sh.armed /\ sh.joining # {}
  <2>1. late' = 0 /\ pcS' = "wait" /\ ~shadow'.armed
    BY <1>1, <1>4, <1>11
  <2>2. InvOwing' /\ InvSleep' /\ InvQueued' /\ InvRested' /\ InvDue' /\ InvJoins' /\ InvLeaves'
    BY <1>1, <1>4, <1>11, <2>1
    DEF InvOwing, InvSleep, InvQueued, InvRested, InvDue, InvJoins, InvLeaves
  <2>3. InvDone'
    BY <1>1, <1>6, <1>8, <2>1 DEF InvDone
  <2>4. QED
    BY <2>2, <2>3 DEF DueInv
<1>12. QED
  BY <1>3, <1>9, <1>10, <1>11

\* A forced publication clears what is owed; a join it leaves queued still has
\* its wake-up.
LEMMA ForcedDue ==
  ASSUME IInv, AgeInv, DueInv, NEW r \in BOOLEAN, NEW pc, AdminPass(pc, r)
  PROVE  DueInv'
<1>0. /\ TypeOK /\ late \in Nat /\ shadow.desired \subseteq shadow.evidence
      /\ SignedDiff(clock, shadow.deadline) \in Int
  BY StatsTypes, DueTypes DEF IInv, InvShadow
<1>1. /\ UNCHANGED <<clock, seenAge, owed, sem, pcS, sleep, late, dueFor>>
      /\ StoredIds' = StoredIds /\ Pass(TRUE, r)
  BY DEF AdminPass, StoredIds, statsVars
<1>2. \/ shadow' = shadow /\ UNCHANGED <<active, sinceReconfig>>
      \/ /\ active' = shadow.desired
         /\ sinceReconfig' = 0
         /\ shadow'.evidence = shadow.evidence
         /\ shadow'.desired = shadow.desired
         /\ shadow'.joining = shadow.joining
         /\ shadow'.deadline = shadow.deadline
         /\ shadow'.armed <=> shadow.armed /\ shadow.joining # {}
  <2>1. TRUE \in BOOLEAN
    OBVIOUS
  <2>2. PassShadow(TRUE, r) = shadow
    BY DEF PassShadow
  <2>3. QED
    BY <1>1, <2>1, <2>2, PassOutcome
<1>3. DueAge' = DueAge
  BY <1>1 DEF DueAge
<1>4. CASE shadow' = shadow /\ UNCHANGED <<active, sinceReconfig>>
  <2>1. Left' = Left
    BY <1>1, <1>4 DEF Left
  <2>2. QED
    BY <1>1, <1>3, <1>4, <2>1 DEF DueInv, InvOwing, InvSleep, InvQueued, InvJoins,
                                  InvLeaves, InvRested, InvDue, InvDone
<1>5. CASE /\ active' = shadow.desired
           /\ sinceReconfig' = 0
           /\ shadow'.evidence = shadow.evidence
           /\ shadow'.desired = shadow.desired
           /\ shadow'.joining = shadow.joining
           /\ shadow'.deadline = shadow.deadline
           /\ shadow'.armed <=> shadow.armed /\ shadow.joining # {}
  <2>1. InvOwing' /\ InvJoins' /\ InvLeaves'
    BY <1>0, <1>1, <1>5 DEF InvOwing, InvJoins, InvLeaves
  <2>2. InvQueued'
    BY <1>1, <1>5 DEF DueInv, InvQueued
  <2>3. InvSleep'
    BY <1>1, <1>5 DEF AgeInv, InvWoken, InvSleep
  <2>4. InvRested'
    <3>1. Left' = LeftOf(SignedDiff(clock, shadow.deadline), 0)
      BY <1>1, <1>5 DEF Left
    <3>2. LeftOf(SignedDiff(clock, shadow.deadline), 0) > 0
      BY <1>0, Times DEF LeftOf, Max2
    <3>3. QED
      BY <3>1, <3>2 DEF InvRested
  <2>5. InvDue'
    <3>1. late > 0 => 0 < late
      BY <1>0
    <3>2. QED
      BY <1>1, <1>3, <1>5, <3>1 DEF DueInv, InvDue
  <2>6. InvDone'
    <3>1. 0 < MaxLate + late
      BY <1>0, Times
    <3>2. QED
      BY <1>1, <1>3, <1>5, <3>1 DEF DueInv, InvDone
  <2>7. QED
    BY <2>1, <2>2, <2>3, <2>4, <2>5, <2>6 DEF DueInv
<1>6. QED
  BY <1>2, <1>4, <1>5

\* Evidence never moves a deadline that is armed, and a new one is a whole
\* cohort ahead.
LEMMA ObserveDue ==
  ASSUME IInv, AgeInv, DueInv, DeadlineYoung', NEW i \in Ids, Observe(i)
  PROVE  DueInv'
<1>0. /\ TypeOK /\ clock \in Ticks /\ late \in Nat /\ late <= MaxLate
      /\ shadow.evidence \subseteq Ids /\ active \subseteq Ids /\ sinceReconfig \in Nat
      /\ shadow.armed \in BOOLEAN
      /\ shadow.desired \subseteq Ids /\ shadow.joining \subseteq Ids
  BY StatsTypes DEF IInv
<1>0a. seenAge \in [Ids -> 0..AgeCap] /\ owed \in [Ids -> 0..AgeCap]
  BY DEF IInv, TypeOK
<1>1. /\ UNCHANGED <<clock, active, sinceReconfig, pcS, nowS, sleep, late, dueFor>>
      /\ StoredIds' = StoredIds
      /\ shadow'.desired = shadow.desired
      /\ shadow'.evidence = shadow.evidence \cup {i}
      /\ shadow'.joining = IF i \notin shadow.desired
                           THEN shadow.joining \cup {i} ELSE shadow.joining
      /\ shadow'.armed <=> shadow.armed \/ i \notin shadow.desired
      /\ shadow'.deadline = IF i \notin shadow.desired /\ ~shadow.armed
                            THEN (clock + CohortMs) % Modulus ELSE shadow.deadline
      /\ seenAge' = [seenAge EXCEPT ![i] = 0]
      /\ owed' = IF i \in shadow.evidence THEN owed ELSE [owed EXCEPT ![i] = 0]
      /\ sem' = IF i \notin shadow.desired /\ i \notin shadow.joining THEN 1 ELSE sem
  BY <1>0, ObserveEffect DEF layoutVars, statsVars
<1>2. /\ \A j \in Ids \ {i} : seenAge'[j] = seenAge[j] /\ owed'[j] = owed[j]
      /\ i \in shadow.evidence => owed'[i] = owed[i]
      /\ i \notin shadow.evidence => owed'[i] = 0
  BY <1>0a, <1>1
<1>3. shadow.armed => shadow'.deadline = shadow.deadline /\ Left' = Left
  BY <1>1 DEF Left
<1>4. DueAge' = DueAge
  BY <1>1 DEF DueAge
<1>5. InvOwing'
  BY <1>1 DEF DueInv, InvOwing
<1>6. InvSleep'
  <2> SUFFICES ASSUME pcS = "sleep", sem' = 0, shadow'.armed
               PROVE  sleep <= Max2(Left', 0)
    BY <1>1 DEF InvSleep
  <2>1. sem = 0 /\ (i \in shadow.desired \/ i \in shadow.joining)
    BY <1>1
  <2>2. shadow.joining = {}
    BY <2>1 DEF AgeInv, InvWoken
  <2>3. shadow.armed
    BY <1>1, <2>1, <2>2
  <2>4. QED
    BY <1>3, <2>1, <2>3 DEF DueInv, InvSleep
<1>7. InvQueued'
  <2> SUFFICES ASSUME NEW j \in shadow'.joining
               PROVE  /\ owed'[j] <= late
                      /\ owed'[j] <= CohortMs + SignedDiff(clock, shadow'.deadline)
    BY <1>1 DEF InvQueued
  <2>1. CASE j \in shadow.joining
    <3>1. shadow.armed
      BY <2>1 DEF IInv, InvArmed
    <3>2. owed'[j] = owed[j]
      BY <1>0, <1>2, <2>1 DEF AgeInv, InvKnown
    <3>3. QED
      BY <1>3, <2>1, <3>1, <3>2 DEF DueInv, InvQueued
  <2>2. CASE j \notin shadow.joining
    <3>1. j = i /\ i \notin shadow.desired
      BY <1>1, <2>2
    <3>2. owed'[j] = 0
      BY <1>2, <2>2, <3>1 DEF AgeInv, InvKnown
    <3>3. SignedDiff(clock, shadow'.deadline) >= 0 - CohortMs
      BY <1>1, <3>1 DEF DeadlineYoung
    <3>4. SignedDiff(clock, shadow'.deadline) \in Int
      <4>1. shadow'.deadline \in Ticks
        <5>1. 2 * CohortMs < Modulus
          BY Times
        <5>2. QED
          BY <1>0, <1>1, <5>1, DiffAhead, StatsTypes, Times
      <4>2. QED
        BY <1>0, <4>1, DiffRange
    <3>5. QED
      BY <1>0, <3>2, <3>3, <3>4, Times
  <2>3. QED
    BY <2>1, <2>2
<1>8. InvJoins'
  <2> SUFFICES ASSUME NEW j \in shadow.desired, j \notin active
               PROVE  Within(owed'[j], Left', late, JoinLimit)
    BY <1>1 DEF InvJoins
  <2>1. shadow.armed
    BY DEF DueInv, InvOwing
  <2>2. owed'[j] = owed[j]
    BY <1>0, <1>2 DEF AgeInv, InvKnown
  <2>3. QED
    BY <1>3, <2>1, <2>2 DEF DueInv, InvJoins
<1>9. InvLeaves'
  <2> SUFFICES ASSUME NEW j \in active \cap StoredIds, j \notin shadow.evidence \cup {i}
               PROVE  Within(seenAge'[j] + 1, Left', late, LeaveLimit)
    BY <1>1 DEF InvLeaves
  <2>1. shadow.armed
    BY DEF DueInv, InvOwing, AgeInv, InvKnown
  <2>2. seenAge'[j] = seenAge[j]
    BY <1>0, <1>2
  <2>3. QED
    BY <1>3, <2>1, <2>2 DEF DueInv, InvLeaves
<1>10. ASSUME ~shadow.armed, shadow'.armed
       PROVE  /\ Left' > 0
              /\ dueFor # None /\ pcS = "wait" => shadow'.deadline # dueFor
  <2>1. shadow'.deadline = (clock + CohortMs) % Modulus
    BY <1>1, <1>10
  <2>2. SignedDiff(clock, (clock + CohortMs) % Modulus) = 0 - CohortMs
    <3>1. CohortMs \in Nat /\ 2 * CohortMs < Modulus
      BY Times
    <3>2. QED
      BY <1>0, <3>1, DiffAhead
  <2>3. Left' = LeftOf(0 - CohortMs, sinceReconfig)
    BY <1>1, <2>1, <2>2 DEF Left
  <2>4. LeftOf(0 - CohortMs, sinceReconfig) > 0
    BY <1>0, Times DEF LeftOf, Max2
  <2>5. ASSUME dueFor # None, pcS = "wait", shadow'.deadline = dueFor PROVE FALSE
    <3>1. DueAge = Modulus - CohortMs
      <4>1. 0 < CohortMs /\ CohortMs < Modulus /\ CohortMs \in Nat
        BY Times
      <4>2. QED
        BY <1>0, <2>1, <2>5, <4>1, ElapsedAhead DEF DueAge
    <3>2. 2 * DueAge < Modulus + 2 * (MaxLate + late)
      BY <2>5 DEF DueInv, InvDone
    <3>3. QED
      BY <1>0, <3>1, <3>2, Times
  <2>6. QED
    BY <2>3, <2>4, <2>5
<1>11. InvRested'
  BY <1>1, <1>3, <1>10 DEF DueInv, InvRested
<1>12. InvDue'
  BY <1>1, <1>4 DEF DueInv, InvDue
<1>13. InvDone'
  BY <1>1, <1>3, <1>4, <1>10 DEF DueInv, InvDone
<1>14. QED
  BY <1>5, <1>6, <1>7, <1>8, <1>9, <1>11, <1>12, <1>13 DEF DueInv

\* A slot reset disarms the deadline only when nothing is owed any more.
LEMMA ResetDue ==
  ASSUME IInv, AgeInv, DueInv, NEW gone \in SUBSET Ids, ResetSlots(gone),
         UNCHANGED <<clock, active, sinceReconfig, pcS, sleep, late, sem, dueFor>>,
         (active \cap StoredIds') \cap gone = {},
         active \cap StoredIds' \subseteq StoredIds
  PROVE  DueInv'
<1>0. /\ TypeOK /\ shadow.evidence \subseteq Ids /\ active \subseteq Ids
      /\ shadow.desired \subseteq shadow.evidence /\ shadow.joining \subseteq shadow.evidence
  BY StatsTypes DEF IInv, InvShadow
<1>1. /\ shadow'.evidence = shadow.evidence \ gone
      /\ shadow'.desired = shadow.desired \ gone
      /\ shadow'.joining = shadow.joining \ gone
      /\ shadow'.deadline = shadow.deadline
      /\ shadow'.armed => shadow.armed
      /\ \A i \in Ids \ gone : seenAge'[i] = seenAge[i] /\ owed'[i] = owed[i]
  BY <1>0, ResetEffect
<1>2. shadow.armed => \/ shadow'.armed
                      \/ \E k \in gone : shadow.desired \ {j \in gone : j <= k} = active
  BY <1>0, ResetEffect
<1>3. Left' = Left /\ DueAge' = DueAge
  BY <1>1 DEF Left, DueAge
<1>4. InvOwing'
  <2> SUFFICES ASSUME NEW i, \/ i \in shadow'.desired \ active
                             \/ i \in (active \cap StoredIds') \ shadow'.desired
               PROVE  shadow'.armed
    BY DEF InvOwing
  <2>1. i \notin gone
    BY <1>1
  <2>2. i \in shadow.desired \ active \/ i \in (active \cap StoredIds) \ shadow.desired
    BY <1>1, <2>1
  <2>3. shadow.armed
    BY <2>2 DEF DueInv, InvOwing
  <2>4. ASSUME NEW k \in gone, shadow.desired \ {j \in gone : j <= k} = active
        PROVE  FALSE
    BY <2>1, <2>2, <2>4
  <2>5. QED
    BY <1>2, <2>3, <2>4
<1>5. InvSleep' /\ InvRested' /\ InvDue' /\ InvDone'
  BY <1>1, <1>3 DEF DueInv, InvSleep, InvRested, InvDue, InvDone
<1>6. InvQueued'
  BY <1>0, <1>1 DEF DueInv, InvQueued
<1>7. InvJoins'
  BY <1>0, <1>1, <1>3 DEF DueInv, InvJoins
<1>8. InvLeaves'
  BY <1>0, <1>1, <1>3 DEF DueInv, InvLeaves
<1>9. QED
  BY <1>4, <1>5, <1>6, <1>7, <1>8 DEF DueInv

\* A tick brings every owed change one closer to its deadline, or makes the stats
\* thread one tick later.
LEMMA TickDue ==
  ASSUME IInv, AgeInv, DueInv, DeadlineYoung, DeadlineYoung', Tick
  PROVE  DueInv'
<1>0. /\ TypeOK /\ late \in Nat /\ late <= MaxLate /\ clock \in Ticks
      /\ shadow.deadline \in Ticks /\ sinceReconfig \in Nat /\ Left \in Int
      /\ sleep \in Nat /\ SignedDiff(clock, shadow.deadline) \in Int
      /\ shadow.evidence \subseteq Ids /\ active \subseteq Ids
      /\ shadow.desired \subseteq Ids /\ shadow.joining \subseteq Ids
      /\ \A i \in Ids : seenAge[i] \in Nat /\ owed[i] \in Nat
      /\ dueFor # None => dueFor \in Ticks /\ DueAge \in Nat
  BY StatsTypes, DueTypes DEF IInv
<1>1. /\ UNCHANGED <<shadow, active, pcS, sem, dueFor>> /\ StoredIds' = StoredIds
      /\ clock' = (clock + 1) % Modulus
      /\ late' = IF StatsDue THEN late + 1 ELSE late
      /\ sleep' = IF sleep > 0 THEN sleep - 1 ELSE 0
      /\ sinceReconfig' = Min2(sinceReconfig + 1, LossReconfigMinMs)
      /\ seenAge' = [i \in Ids |-> Min2(seenAge[i] + 1, AgeCap)]
      /\ owed' = [i \in Ids |-> IF i \in shadow.evidence \ active
                                THEN Min2(owed[i] + 1, AgeCap) ELSE 0]
      /\ StatsDue <=> (pcS # "sleep" \/ sleep = 0 \/ sem = 1)
  BY <1>0 DEF Tick, StoredIds, Max2, StatsDue
<1>2. \A i \in Ids : /\ seenAge'[i] \in Nat /\ seenAge'[i] <= seenAge[i] + 1
                     /\ owed'[i] \in Nat /\ owed'[i] <= owed[i] + 1
                     /\ owed'[i] = 0 \/ owed'[i] <= owed[i] + 1
  <2>1. ASSUME NEW i \in Ids
        PROVE  /\ seenAge'[i] = Min2(seenAge[i] + 1, AgeCap)
               /\ owed'[i] = Min2(owed[i] + 1, AgeCap) \/ owed'[i] = 0
    BY <1>1
  <2>2. \A i \in Ids : /\ Min2(seenAge[i] + 1, AgeCap) \in Nat
                       /\ Min2(seenAge[i] + 1, AgeCap) <= seenAge[i] + 1
                       /\ Min2(owed[i] + 1, AgeCap) \in Nat
                       /\ Min2(owed[i] + 1, AgeCap) <= owed[i] + 1
                       /\ 0 <= owed[i] + 1
    BY <1>0, Times DEF Min2
  <2>3. QED
    BY <2>1, <2>2
<1>3. shadow.armed =>
        /\ SignedDiff(clock', shadow.deadline) = SignedDiff(clock, shadow.deadline) + 1
        /\ SignedDiff(clock', shadow.deadline) >= 0 - CohortMs
  <2> SUFFICES ASSUME shadow.armed
               PROVE  /\ SignedDiff(clock', shadow.deadline) =
                           SignedDiff(clock, shadow.deadline) + 1
                      /\ SignedDiff(clock', shadow.deadline) >= 0 - CohortMs
    OBVIOUS
  <2>1. CohortMs \in Nat /\ CohortMs < AgeCap
    BY Times
  <2>2. /\ SignedDiff(clock, shadow.deadline) >= 0 - CohortMs
        /\ SignedDiff((clock + 1) % Modulus, shadow.deadline) >= 0 - CohortMs
    BY <1>1 DEF DeadlineYoung
  <2>3. QED
    BY <1>0, <1>1, <2>1, <2>2, DiffTickYoung
<1>4. shadow.armed => /\ Left' \in Int
                      /\ Left > 0 => Left' = Left - 1
                      /\ Left <= 0 => Left' <= 0
  <2> SUFFICES ASSUME shadow.armed
               PROVE  /\ Left' \in Int
                      /\ Left > 0 => Left' = Left - 1
                      /\ Left <= 0 => Left' <= 0
    OBVIOUS
  <2> DEFINE lag == SignedDiff(clock, shadow.deadline)
  <2>1. Left' = LeftOf(lag + 1, Min2(sinceReconfig + 1, LossReconfigMinMs))
    BY <1>1, <1>3 DEF Left
  <2>2. Left = LeftOf(lag, sinceReconfig) /\ lag \in Int /\ sinceReconfig \in Nat
    BY <1>0 DEF Left
  <2> HIDE DEF lag
  <2>3. QED
    BY <2>1, <2>2, LeftTick
<1>5. shadow.armed /\ Left <= 0 => StatsDue
  <2>1. Left <= 0 => Max2(Left, 0) = 0
    BY <1>0 DEF Max2
  <2>2. sem \in {0, 1}
    BY DEF IInv, TypeOK
  <2>3. QED
    BY <1>0, <1>1, <2>1, <2>2 DEF DueInv, InvSleep
<1>6. PICK l2 \in Nat : l2 = late' /\ (StatsDue => l2 = late + 1) /\ (~StatsDue => l2 = late)
  BY <1>0, <1>1
<1>7. InvOwing' /\ InvRested'
  <2>1. pcS = "wait" => late' # 0
    BY <1>0, <1>1
  <2>2. QED
    BY <1>1, <2>1 DEF DueInv, InvOwing, InvRested
<1>8. InvSleep'
  <2> SUFFICES ASSUME pcS = "sleep", sem = 0, shadow.armed
               PROVE  sleep' <= Max2(Left', 0)
    BY <1>1 DEF InvSleep
  <2>1. sleep <= Max2(Left, 0)
    BY DEF DueInv, InvSleep
  <2>2. CASE Left > 0
    <3>1. Left' = Left - 1
      BY <1>4, <2>2
    <3>2. (IF sleep > 0 THEN sleep - 1 ELSE 0) <= Max2(Left - 1, 0)
      BY <1>0, <2>1, <2>2 DEF Max2
    <3>3. QED
      BY <1>1, <3>1, <3>2
  <2>3. CASE ~(Left > 0)
    <3>1. sleep' = 0
      BY <1>0, <1>1, <2>1, <2>3 DEF Max2
    <3>2. PICK x \in Int : x = Left'
      BY <1>4
    <3>3. 0 <= Max2(x, 0)
      BY DEF Max2
    <3>4. QED
      BY <3>1, <3>2, <3>3
  <2>4. QED
    BY <2>2, <2>3
<1>9. InvQueued'
  <2> SUFFICES ASSUME NEW i \in shadow.joining
               PROVE  /\ owed'[i] <= late'
                      /\ owed'[i] <= CohortMs + SignedDiff(clock', shadow.deadline)
    BY <1>1 DEF InvQueued
  <2>1. shadow.armed /\ StatsDue /\ i \in Ids
    BY <1>0, <1>1 DEF IInv, InvArmed, AgeInv, InvWoken
  <2>2. owed[i] <= late /\ owed[i] <= CohortMs + SignedDiff(clock, shadow.deadline)
    BY DEF DueInv, InvQueued
  <2>3. PICK q \in Nat : q = owed'[i] /\ q <= owed[i] + 1
    BY <1>2, <2>1
  <2>4. q <= late + 1 /\ q <= CohortMs + (SignedDiff(clock, shadow.deadline) + 1)
    <3>1. q <= owed[i] + 1 /\ owed[i] \in Nat
      BY <1>0, <2>1, <2>3
    <3>2. QED
      BY <1>0, <2>2, <3>1, Times
  <2>5. late' = late + 1
    BY <1>1, <2>1
  <2>6. QED
    BY <1>3, <2>1, <2>3, <2>4, <2>5
<1>10. ASSUME shadow.armed, NEW q \in Nat, NEW q2 \in Nat, q2 <= q + 1,
              NEW limit \in Nat, Within(q, Left, late, limit)
       PROVE  Within(q2, Left', late', limit)
  <2>1. PICK x \in Int : x = Left' /\ (Left > 0 => x = Left - 1) /\ (Left <= 0 => x <= 0)
    BY <1>4, <1>10
  <2>2. Left <= 0 => l2 = late + 1
    BY <1>5, <1>6, <1>10
  <2>3. /\ Left > 0 => x = Left - 1
        /\ Left <= 0 => x <= 0 /\ l2 = late + 1
    BY <2>1, <2>2
  <2>4. Within(q2, x, l2, limit)
    BY <1>0, <1>10, <2>3, WithinTick
  <2>5. QED
    BY <1>6, <2>1, <2>4
<1>11. InvJoins'
  <2> SUFFICES ASSUME NEW i \in shadow.desired \ active
               PROVE  Within(owed'[i], Left', late', JoinLimit)
    BY <1>1 DEF InvJoins
  <2>1. shadow.armed /\ i \in Ids /\ owed[i] \in Nat
    BY <1>0 DEF DueInv, InvOwing
  <2>2. Within(owed[i], Left, late, JoinLimit)
    BY DEF DueInv, InvJoins
  <2>3. PICK q \in Nat : q = owed'[i] /\ q <= owed[i] + 1
    BY <1>2, <2>1
  <2>4. JoinLimit \in Nat
    BY Limits
  <2>5. Within(q, Left', late', JoinLimit)
    BY <1>10, <2>1, <2>2, <2>3, <2>4
  <2>6. QED
    BY <2>3, <2>5
<1>12. InvLeaves'
  <2> SUFFICES ASSUME NEW i \in (active \cap StoredIds) \ shadow.evidence
               PROVE  Within(seenAge'[i] + 1, Left', late', LeaveLimit)
    BY <1>1 DEF InvLeaves
  <2>1. shadow.armed /\ i \in Ids /\ seenAge[i] \in Nat
    BY <1>0 DEF DueInv, InvOwing, AgeInv, InvKnown
  <2>2. Within(seenAge[i] + 1, Left, late, LeaveLimit)
    BY DEF DueInv, InvLeaves
  <2>3. PICK q \in Nat : q = seenAge'[i] /\ q <= seenAge[i] + 1
    BY <1>2, <2>1
  <2>4. LeaveLimit \in Nat /\ q + 1 \in Nat /\ seenAge[i] + 1 \in Nat
        /\ q + 1 <= (seenAge[i] + 1) + 1
    <3>1. q <= seenAge[i] + 1
      BY <2>3
    <3>2. QED
      BY <2>1, <3>1, Limits
  <2>5. Within(q + 1, Left', late', LeaveLimit)
    BY <1>10, <2>1, <2>2, <2>4
  <2>6. QED
    BY <2>3, <2>5
<1>13. ASSUME dueFor # None
       PROVE  \E x \in Nat : x = DueAge' /\ x <= DueAge + 1
  <2>1. DueAge' = (((clock + 1) % Modulus) - dueFor) % Modulus
    BY <1>1 DEF DueAge
  <2>2. (((clock + 1) % Modulus) - dueFor) % Modulus <= DueAge + 1
    BY <1>0, <1>13, ElapsedTick DEF DueAge
  <2>3. (((clock + 1) % Modulus) - dueFor) % Modulus \in Nat
    BY <1>0, <1>13, NextTick, ElapsedValue
  <2>4. QED
    BY <2>1, <2>2, <2>3
<1>14. PICK s2 \in Nat : /\ s2 = sinceReconfig' /\ s2 <= sinceReconfig + 1
                         /\ sinceReconfig >= ReconfigMinMs => s2 >= ReconfigMinMs
  <2>1. /\ Min2(sinceReconfig + 1, LossReconfigMinMs) \in Nat
        /\ Min2(sinceReconfig + 1, LossReconfigMinMs) <= sinceReconfig + 1
        /\ sinceReconfig >= ReconfigMinMs =>
             Min2(sinceReconfig + 1, LossReconfigMinMs) >= ReconfigMinMs
    BY <1>0, Times DEF Min2
  <2>2. QED
    BY <1>1, <2>1
<1>15. InvDue'
  <2> SUFFICES ASSUME dueFor # None, pcS # "wait"
               PROVE  /\ late' > 0 /\ (pcS = "sleep" => sleep' = 0)
                      /\ 2 * DueAge' < Modulus + 2 * late'
                      /\ sinceReconfig' >= ReconfigMinMs \/ sinceReconfig' < late'
    BY <1>1 DEF InvDue
  <2>1. /\ late > 0 /\ (pcS = "sleep" => sleep = 0)
        /\ 2 * DueAge < Modulus + 2 * late
        /\ sinceReconfig >= ReconfigMinMs \/ sinceReconfig < late
    BY DEF DueInv, InvDue
  <2>2. late' = late + 1 /\ (pcS = "sleep" => sleep' = 0)
    BY <1>0, <1>1, <2>1
  <2>3. PICK x \in Nat : x = DueAge' /\ x <= DueAge + 1
    BY <1>13
  <2>4. DueAge \in Nat /\ x <= DueAge + 1
    BY <1>0, <2>3
  <2>5. 2 * x < Modulus + 2 * (late + 1)
    BY <1>0, <2>1, <2>4, Times
  <2>6. s2 <= sinceReconfig + 1 /\ (sinceReconfig >= ReconfigMinMs => s2 >= ReconfigMinMs)
    BY <1>14
  <2>7. s2 >= ReconfigMinMs \/ s2 < late + 1
    BY <1>0, <2>1, <2>6, Times
  <2>8. late + 1 > 0
    BY <1>0
  <2>9. QED
    BY <1>14, <2>2, <2>3, <2>5, <2>7, <2>8
<1>16. InvDone'
  <2> SUFFICES ASSUME dueFor # None, pcS = "wait"
               PROVE  /\ 2 * DueAge' < Modulus + 2 * (MaxLate + late')
                      /\ shadow.armed /\ shadow.deadline = dueFor =>
                           sinceReconfig' < MaxLate + late'
    BY <1>1 DEF InvDone
  <2>1. /\ 2 * DueAge < Modulus + 2 * (MaxLate + late)
        /\ shadow.armed /\ shadow.deadline = dueFor => sinceReconfig < MaxLate + late
    BY DEF DueInv, InvDone
  <2>2. late' = late + 1
    BY <1>1
  <2>3. PICK x \in Nat : x = DueAge' /\ x <= DueAge + 1
    BY <1>13
  <2>4. DueAge \in Nat /\ x <= DueAge + 1 /\ s2 <= sinceReconfig + 1
    BY <1>0, <1>14, <2>3
  <2>5. 2 * x < Modulus + 2 * (MaxLate + (late + 1))
    BY <1>0, <2>1, <2>4, Times
  <2>6. shadow.armed /\ shadow.deadline = dueFor => s2 < MaxLate + (late + 1)
    BY <1>0, <2>1, <2>4, Times
  <2>7. QED
    BY <1>14, <2>2, <2>3, <2>5, <2>6
<1>17. QED
  BY <1>7, <1>8, <1>9, <1>11, <1>12, <1>15, <1>16 DEF DueInv

\* The step NoSpin allows.
SpinStep == pcS = "wait" /\ pcS' = "sleep" /\ dueFor # None => dueFor' # dueFor

\* Every step keeps owed changes within their limits and finds an expired deadline
\* once only.
LEMMA NextDue ==
  ASSUME IInv, AgeInv, DueInv, DeadlineYoung, DeadlineYoung', [Next]_vars
  PROVE  DueInv' /\ SpinStep
<1>1. CASE \E i \in Ids : Observe(i)
  BY <1>1, ObserveDue DEF Observe, statsVars, SpinStep
<1>2. CASE StatsWait \/ StatsWake \/ StatsSample \/ StatsLoss
  <2>1. DueInv' /\ (StatsWait /\ dueFor # None => dueFor' # dueFor)
    BY <1>2, StatsDueInv
  <2>2. QED
    BY <1>2, <2>1 DEF SpinStep, StatsWake, StatsSample, StatsLoss
<1>3. CASE StatsMerge
  BY <1>3, MergeStepDue DEF StatsMerge, SpinStep
<1>4. CASE StatsPass("pass1", FALSE) \/ StatsPass("pass2", TRUE)
  BY <1>4, PassDue DEF StatsPass, SpinStep
<1>5. CASE AdminAdd
  <2>1. /\ pcA = "idle" /\ stored \in Nat /\ stored \in Ids
        /\ UNCHANGED <<clock, active, sinceReconfig, pcS, sleep, late, sem, dueFor>>
        /\ stored' = stored + 1 /\ ResetSlots({stored})
    BY <1>5, ConstantsAssumption DEF AdminAdd, MutexFree, IInv, TypeOK, statsVars, Ids
  <2>2. active \subseteq StoredIds
    BY <2>1 DEF IInv, InvIdle
  <2>3. stored \notin StoredIds
    BY <2>1 DEF StoredIds
  <2>4. {stored} \in SUBSET Ids
    BY <2>1
  <2>5. (active \cap StoredIds') \cap {stored} = {} /\ active \cap StoredIds' \subseteq StoredIds
    BY <2>2, <2>3
  <2>6. QED
    BY <2>1, <2>4, <2>5, ResetDue DEF SpinStep
<1>6. CASE AdminPop
  <2>1. /\ stored \in Nat /\ stored > 0 /\ stored - 1 \in Ids
        /\ UNCHANGED <<clock, active, sinceReconfig, pcS, sleep, late, sem, dueFor>>
        /\ stored' = stored - 1 /\ ResetSlots({stored - 1})
    BY <1>6, ConstantsAssumption DEF AdminPop, IInv, TypeOK, statsVars, Ids
  <2>2. StoredIds' \cap {stored - 1} = {} /\ StoredIds' \subseteq StoredIds
    BY <2>1 DEF StoredIds
  <2>3. {stored - 1} \in SUBSET Ids
    BY <2>1
  <2>4. /\ (active \cap StoredIds') \cap {stored - 1} = {}
        /\ active \cap StoredIds' \subseteq StoredIds
    BY <2>2
  <2>5. QED
    BY <2>1, <2>3, <2>4, ResetDue DEF SpinStep
<1>7. CASE AdminClear
  <2>1. /\ UNCHANGED <<clock, active, sinceReconfig, pcS, sleep, late, sem, dueFor>>
        /\ stored' = 0 /\ ResetSlots(Ids)
    BY <1>7 DEF AdminClear, statsVars
  <2>2. StoredIds' = {}
    BY <2>1 DEF StoredIds
  <2>3. Ids \in SUBSET Ids
    OBVIOUS
  <2>4. (active \cap StoredIds') \cap Ids = {} /\ active \cap StoredIds' \subseteq StoredIds
    BY <2>2
  <2>5. QED
    BY <2>1, <2>3, <2>4, ResetDue DEF SpinStep
<1>8. CASE AdminFinish
  BY <1>8, ForcedDue DEF AdminFinish, AdminPass, statsVars, SpinStep
<1>9. CASE Tick
  BY <1>9, TickDue DEF Tick, SpinStep
<1>10. CASE SwitchTestAll \/ SwitchCollect \/ UNCHANGED vars
  <2>1. /\ UNCHANGED <<clock, shadow, seenAge, owed, active, sinceReconfig, sem, pcS, sleep,
                       late, dueFor>>
        /\ StoredIds' = StoredIds
    BY <1>10 DEF SwitchTestAll, SwitchCollect, vars, shadowVars, layoutVars, statsVars, StoredIds
  <2>2. Left' = Left /\ DueAge' = DueAge
    BY <2>1 DEF Left, DueAge
  <2>3. QED
    BY <2>1, <2>2 DEF DueInv, InvOwing, InvSleep, InvQueued, InvJoins, InvLeaves,
                      InvRested, InvDue, InvDone, SpinStep
<1>11. QED
  BY <1>1, <1>2, <1>3, <1>4, <1>5, <1>6, <1>7, <1>8, <1>9, <1>10
  DEF Next, Stats, Admin

\* Owed changes stay within their limits in every state of a behaviour whose
\* deadlines stay young.
LEMMA DueHolds == Spec /\ []DeadlineYoung => [](IInv /\ AgeInv /\ DueInv)
<1>1. Init => DueInv
  BY DEF Init, DueInv, InvOwing, InvSleep, InvQueued, InvJoins, InvLeaves, InvRested,
         InvDue, InvDone
<1>2. IInv /\ AgeInv /\ DueInv /\ DeadlineYoung /\ DeadlineYoung' /\ [Next]_vars => DueInv'
  BY NextDue
<1>3. QED
  BY <1>1, <1>2, AgesHold, PTL DEF Spec

\* The invariants give the two bounds.
LEMMA DueBounds ==
  ASSUME IInv, AgeInv, DueInv
  PROVE  EvictionBounded /\ JoinBounded
<1>0. /\ TypeOK /\ late \in Nat /\ late <= MaxLate /\ Left \in Int
      /\ shadow.evidence \subseteq Ids /\ active \subseteq Ids
      /\ \A i \in Ids : seenAge[i] \in Nat /\ owed[i] \in Nat
  BY StatsTypes, DueTypes DEF IInv
<1>1. ASSUME NEW q \in Nat, NEW limit \in Nat, Within(q, Left, late, limit)
      PROVE  q <= limit + MaxLate
  BY <1>0, <1>1, Times DEF Within
<1>2. ASSUME NEW i \in active \cap StoredIds
      PROVE  seenAge[i] < GraceMs + MonitorMs + Max2(CohortMs, ReconfigMinMs) + 3 * MaxLate
  <2>1. seenAge[i] \in Nat /\ Max2(CohortMs, ReconfigMinMs) \in Nat
    BY <1>0, Times DEF Max2
  <2>2. CASE i \in shadow.evidence
    <3>1. seenAge[i] < GraceMs + MonitorMs + 2 * MaxLate
      BY <1>0, <2>2, AgeBound
    <3>2. QED
      BY <2>1, <3>1, Times
  <2>3. CASE i \notin shadow.evidence
    <3>1. Within(seenAge[i] + 1, Left, late, LeaveLimit)
      BY <2>3 DEF DueInv, InvLeaves
    <3>2. seenAge[i] + 1 \in Nat /\ LeaveLimit \in Nat
      BY <2>1, Limits
    <3>3. seenAge[i] + 1 <= LeaveLimit + MaxLate
      BY <1>1, <3>1, <3>2
    <3>4. QED
      BY <2>1, <3>3, Times DEF LeaveLimit
  <2>4. QED
    BY <2>2, <2>3
<1>3. ASSUME NEW i \in shadow.evidence \ active
      PROVE  owed[i] <= Max2(CohortMs, ReconfigMinMs) + 2 * MaxLate
  <2>1. owed[i] \in Nat /\ Max2(CohortMs, ReconfigMinMs) \in Nat
        /\ JoinLimit <= Max2(CohortMs, ReconfigMinMs) + MaxLate
    BY <1>0, Times DEF Max2, JoinLimit
  <2>2. CASE i \in shadow.desired
    <3>1. Within(owed[i], Left, late, JoinLimit)
      BY <2>2 DEF DueInv, InvJoins
    <3>2. owed[i] <= JoinLimit + MaxLate
      BY <1>1, <2>1, <3>1, Limits
    <3>3. QED
      BY <2>1, <3>2, Limits, Times
  <2>3. CASE i \in shadow.joining
    <3>1. owed[i] <= late
      BY <2>3 DEF DueInv, InvQueued
    <3>2. QED
      BY <1>0, <2>1, <3>1, Times
  <2>4. QED
    BY <2>2, <2>3 DEF AgeInv, InvKnown
<1>4. QED
  BY <1>2, <1>3 DEF EvictionBounded, JoinBounded

\* Every change of the membership takes effect in bounded time, at true ages, for
\* every choice of the constants, as long as no deadline stays armed for half the
\* range of the clock.
THEOREM ChangesAlwaysTimely == Spec /\ []DeadlineYoung => []ChangesTimely
<1>1. IInv /\ AgeInv /\ DueInv => EvictionBounded /\ JoinBounded
  BY DueBounds
<1>2. ChangesTimely <=> EvictionBounded /\ JoinBounded /\ AgesExact
  BY DEF ChangesTimely
<1>3. QED
  BY <1>1, <1>2, DueHolds, AgesAlwaysExact, PTL

\* A stats pass takes no slot early, and its wait never becomes a busy loop, under
\* the same proviso.
THEOREM PassesAlwaysJust == Spec /\ []DeadlineYoung => PassesJust
<1>1. IInv /\ AgeInv /\ DueInv /\ DeadlineYoung /\ DeadlineYoung' /\ [Next]_vars
        => [SpinStep]_vars
  BY NextDue
<1>2. NoSpin <=> [][SpinStep]_vars
  BY DEF NoSpin, SpinStep
<1>3. PassesJust <=> NoEarlyEviction /\ NoSpin
  BY DEF PassesJust
<1>4. QED
  BY <1>1, <1>2, <1>3, DueHolds, NeverEvictedEarly, PTL DEF Spec

-----------------------------------------------------------------------------
(* When deadlines stay young. Every publication of the stats thread disarms  *)
(* the deadline, and so does a forced one that meets no queued join; an      *)
(* armed deadline can only grow old if removals keep being published, closer *)
(* together than the spacing, just while joins are queued.                   *)

\* No removal is published while a join is queued.
RemovalsQuiet == [][AdminFinish => shadow.joining = {}]_vars

\* How long ago the deadline was; negative while it is ahead.
Lag == SignedDiff(clock, shadow.deadline)

\* An armed deadline is within a cohort and the spacing of being served.
InvYoung ==
  shadow.armed => /\ Lag >= 0 - CohortMs
                  /\ Within(Lag + CohortMs, Left, late, ReconfigMinMs + CohortMs)

\* No publication comes between the time a merge works with and the merge, unless
\* the spacing has already passed.
InvSpaced ==
  pcS = "merge" => \/ SignedDiff(clock, nowS) <= sinceReconfig
                   \/ sinceReconfig >= ReconfigMinMs

\* The invariant about armed deadlines.
YoungInv == InvYoung /\ InvSpaced

\* A deadline that a merge arms at its own tick is young.
LEMMA MergeYoung ==
  ASSUME IInv, AgeInv, YoungInv, NEW now \in Ticks, NEW e \in Nat, e <= late,
         SignedDiff(clock, now) = e, e <= sinceReconfig \/ sinceReconfig >= ReconfigMinMs
  PROVE  LET sh == MergedShadow(now)
             lag == SignedDiff(clock, sh.deadline)
         IN  /\ sh.deadline \in Ticks
             /\ sh.armed => /\ lag >= 0 - CohortMs
                            /\ Within(lag + CohortMs, LeftOf(lag, sinceReconfig), late,
                                      ReconfigMinMs + CohortMs)
<1> DEFINE sh == MergedShadow(now)
<1>0. /\ late \in Nat /\ sinceReconfig \in Nat /\ shadow.armed \in BOOLEAN
      /\ shadow.deadline \in Ticks
  BY StatsTypes DEF IInv
<1>1. sh.armed => sh.deadline = IF shadow.armed THEN shadow.deadline ELSE now
  BY DEF MergedShadow, MergedDeadline
<1>2. sh.deadline \in Ticks
  BY <1>0 DEF MergedShadow, MergedDeadline
<1> HIDE DEF sh
<1>3. CASE shadow.armed
  <2>1. sh.armed => SignedDiff(clock, sh.deadline) = Lag
    BY <1>1, <1>3 DEF Lag
  <2>2. Left = LeftOf(Lag, sinceReconfig)
    BY DEF Left, Lag
  <2>3. Lag >= 0 - CohortMs /\ Within(Lag + CohortMs, Left, late, ReconfigMinMs + CohortMs)
    BY <1>3 DEF YoungInv, InvYoung
  <2>4. QED
    BY <1>2, <2>1, <2>2, <2>3 DEF sh
<1>4. CASE ~shadow.armed
  <2>1. sh.armed => SignedDiff(clock, sh.deadline) = e
    BY <1>1, <1>4
  <2>2. e >= 0 - CohortMs
        /\ Within(e + CohortMs, LeftOf(e, sinceReconfig), late, ReconfigMinMs + CohortMs)
    BY <1>0, Times DEF Within, LeftOf, Max2
  <2>3. QED
    BY <1>2, <2>1, <2>2 DEF sh
<1>5. QED
  BY <1>3, <1>4

\* An ordinary pass disarms the deadline or comes before it is due.
LEMMA PassYoung ==
  ASSUME IInv, AgeInv, YoungInv, NEW r \in BOOLEAN, NEW pc \in {"pass1", "pass2"},
         StatsPass(pc, r)
  PROVE  YoungInv'
<1> DEFINE sh == PassShadow(FALSE, r)
           lag == SignedDiff(clock, sh.deadline)
           left == LeftOf(lag, sinceReconfig)
<1>0. /\ TypeOK /\ late \in Nat /\ clock \in Ticks /\ sinceReconfig \in Nat
      /\ shadow.deadline \in Ticks
  BY StatsTypes DEF IInv
<1>1. /\ UNCHANGED <<clock, nowS>>
      /\ pcS \in {"pass1", "pass2"} /\ Pass(FALSE, r)
      /\ pcS' = IF PassRepeats(FALSE, r) THEN "pass2" ELSE "wait"
      /\ late' = IF PassRepeats(FALSE, r) THEN late ELSE 0
  BY DEF StatsPass
<1>2. pcA = "idle"
  BY <1>1 DEF IInv, InvMutex
<1>3. /\ \/ sh = MergedShadow(clock)
         \/ sh = shadow /\ shadow.joining = {}
      /\ \/ /\ shadow' = sh
            /\ UNCHANGED <<active, sinceReconfig>>
            /\ \/ PassRepeats(FALSE, r)
               \/ sh.desired = active
               \/ sh.armed /\ lag < 0
               \/ sinceReconfig < ReconfigMinMs
         \/ /\ ~PassRepeats(FALSE, r)
            /\ shadow'.armed <=> sh.armed /\ sh.joining # {}
  <2>1. FALSE \in BOOLEAN
    OBVIOUS
  <2>2. QED
    BY <1>1, <2>1, PassOutcome
<1>4. /\ sh.joining = {} /\ sh.deadline \in Ticks
      /\ sh.armed => sh.desired # active
      /\ sh.armed => /\ lag >= 0 - CohortMs
                     /\ Within(lag + CohortMs, left, late, ReconfigMinMs + CohortMs)
  <2>1. CASE sh = MergedShadow(clock)
    <3>1. SignedDiff(clock, clock) = 0 /\ 0 \in Nat /\ 0 <= late /\ 0 <= sinceReconfig
      BY <1>0, DiffSelf
    <3> HIDE DEF sh
    <3>2. sh.joining = {} /\ (sh.armed => sh.desired # active)
      BY <2>1 DEF MergedShadow
    <3>3. QED
      BY <1>0, <2>1, <3>1, <3>2, MergeYoung
  <2>2. CASE sh = shadow /\ shadow.joining = {}
    <3>1. shadow.armed => shadow.desired # active
      BY <2>2 DEF IInv, InvArmed
    <3>2. lag = Lag /\ left = Left
      BY <2>2 DEF Left, Lag
    <3>3. shadow.armed => /\ Lag >= 0 - CohortMs
                          /\ Within(Lag + CohortMs, Left, late, ReconfigMinMs + CohortMs)
      BY DEF YoungInv, InvYoung
    <3> HIDE DEF sh, lag, left
    <3>4. QED
      BY <1>0, <2>2, <3>1, <3>2, <3>3
  <2>3. QED
    BY <1>3, <2>1, <2>2
<1> HIDE DEF sh
<1>5. lag \in Int /\ left \in Int
  BY <1>0, <1>4, DiffRange, Times DEF LeftOf, Max2
<1>6. InvSpaced'
  BY <1>1 DEF InvSpaced
<1>7. CASE PassRepeats(FALSE, r)
  <2>1. shadow' = sh /\ sinceReconfig' = sinceReconfig /\ late' = late
    BY <1>1, <1>3, <1>7
  <2>2. Lag' = lag /\ Left' = left
    BY <1>1, <2>1 DEF Lag, Left
  <2>3. QED
    BY <1>4, <1>6, <2>1, <2>2 DEF YoungInv, InvYoung
<1>8. CASE ~PassRepeats(FALSE, r) /\ ~shadow'.armed
  BY <1>6, <1>8 DEF YoungInv, InvYoung
<1>9. CASE ~PassRepeats(FALSE, r) /\ shadow'.armed
  <2>1. /\ shadow' = sh /\ sinceReconfig' = sinceReconfig /\ late' = 0
        /\ (lag < 0 \/ sinceReconfig < ReconfigMinMs) /\ sh.armed
    BY <1>1, <1>3, <1>4, <1>9
  <2>2. Lag' = lag /\ Left' = left
    BY <1>1, <2>1 DEF Lag, Left
  <2>3. left > 0
    BY <1>0, <1>5, <2>1, Times DEF LeftOf, Max2
  <2>4. Within(lag + CohortMs, left, 0, ReconfigMinMs + CohortMs)
    BY <1>4, <2>1, <2>3 DEF Within
  <2>5. QED
    BY <1>4, <1>6, <2>1, <2>2, <2>4 DEF YoungInv, InvYoung
<1>10. QED
  BY <1>7, <1>8, <1>9

\* A tick ages the deadline by one.
LEMMA TickYoung ==
  ASSUME IInv, AgeInv, DueInv, YoungInv, Tick
  PROVE  YoungInv'
<1>0. /\ TypeOK /\ late \in Nat /\ late <= MaxLate /\ clock \in Ticks /\ nowS \in Ticks
      /\ shadow.deadline \in Ticks /\ sinceReconfig \in Nat /\ Left \in Int
      /\ Lag \in Int /\ sleep \in Nat
      /\ SignedDiff(clock, nowS) \in Int
  BY StatsTypes, DueTypes, DiffRange DEF IInv, Lag
<1>1. /\ UNCHANGED <<shadow, pcS, nowS, sem>>
      /\ clock' = (clock + 1) % Modulus
      /\ late' = IF StatsDue THEN late + 1 ELSE late
      /\ sinceReconfig' = Min2(sinceReconfig + 1, LossReconfigMinMs)
      /\ StatsDue <=> (pcS # "sleep" \/ sleep = 0 \/ sem = 1)
  BY DEF Tick, StatsDue
<1>2. InvSpaced'
  <2> SUFFICES ASSUME pcS = "merge"
               PROVE  \/ SignedDiff(clock', nowS) <= sinceReconfig'
                      \/ sinceReconfig' >= ReconfigMinMs
    BY <1>1 DEF InvSpaced
  <2>1. /\ SignedDiff(clock, nowS) <= sinceReconfig \/ sinceReconfig >= ReconfigMinMs
        /\ SignedDiff(clock, nowS) <= late /\ SignedDiff(clock, nowS) >= 0
    BY DEF YoungInv, InvSpaced, AgeInv, InvSampled
  <2>2. 2 * (SignedDiff(clock, nowS) + 1) < Modulus
    BY <1>0, <2>1, Times
  <2>3. SignedDiff(clock', nowS) = SignedDiff(clock, nowS) + 1
    BY <1>0, <1>1, <2>2, DiffTick
  <2>4. \/ SignedDiff(clock, nowS) + 1 <= Min2(sinceReconfig + 1, LossReconfigMinMs)
        \/ Min2(sinceReconfig + 1, LossReconfigMinMs) >= ReconfigMinMs
    BY <1>0, <2>1, Times DEF Min2
  <2>5. QED
    BY <1>1, <2>3, <2>4
<1>3. InvYoung'
  <2> SUFFICES ASSUME shadow.armed
               PROVE  /\ Lag' >= 0 - CohortMs
                      /\ Within(Lag' + CohortMs, Left', late', ReconfigMinMs + CohortMs)
    BY <1>1 DEF InvYoung
  <2>1. Lag >= 0 - CohortMs /\ Within(Lag + CohortMs, Left, late, ReconfigMinMs + CohortMs)
    BY DEF YoungInv, InvYoung
  <2>2. Lag <= ReconfigMinMs + MaxLate
    BY <1>0, <2>1, Times DEF Within
  <2>3. 2 * (Lag + 1) < Modulus
    BY <1>0, <2>2, Times
  <2>4. Lag' = Lag + 1
    <3>1. SignedDiff((clock + 1) % Modulus, shadow.deadline) = Lag + 1
      BY <1>0, <2>3, DiffTick DEF Lag
    <3>2. QED
      BY <1>1, <3>1 DEF Lag
  <2>5. PICK x \in Int : x = Left' /\ (Left > 0 => x = Left - 1) /\ (Left <= 0 => x <= 0)
    <3>1. Left' = LeftOf(Lag + 1, Min2(sinceReconfig + 1, LossReconfigMinMs))
      BY <1>1, <2>4 DEF Left, Lag
    <3>2. Left = LeftOf(Lag, sinceReconfig)
      BY DEF Left, Lag
    <3>3. QED
      BY <1>0, <3>1, <3>2, LeftTick
  <2>6. PICK l2 \in Nat : l2 = late' /\ (Left <= 0 => l2 = late + 1)
    <3>1. Left <= 0 => StatsDue
      <4>1. Left <= 0 => Max2(Left, 0) = 0
        BY <1>0 DEF Max2
      <4>2. sem \in {0, 1}
        BY DEF IInv, TypeOK
      <4>3. QED
        BY <1>0, <1>1, <4>1, <4>2 DEF DueInv, InvSleep
    <3>2. QED
      BY <1>0, <1>1, <3>1
  <2>7. /\ Left > 0 => x = Left - 1
        /\ Left <= 0 => x <= 0 /\ l2 = late + 1
    BY <2>5, <2>6
  <2>8. /\ Lag + CohortMs \in Nat /\ (Lag + 1) + CohortMs \in Nat
        /\ (Lag + 1) + CohortMs <= (Lag + CohortMs) + 1
        /\ ReconfigMinMs + CohortMs \in Nat
        /\ Lag + 1 >= 0 - CohortMs
    BY <1>0, <2>1, Times
  <2>9. Within((Lag + 1) + CohortMs, x, l2, ReconfigMinMs + CohortMs)
    BY <1>0, <2>1, <2>7, <2>8, WithinTick
  <2>10. QED
    BY <2>4, <2>5, <2>6, <2>8, <2>9
<1>4. QED
  BY <1>2, <1>3 DEF YoungInv

\* Every step keeps the deadline young, if no removal is published over a queued
\* join.
LEMMA NextYoung ==
  ASSUME IInv, AgeInv, DueInv, YoungInv, [Next]_vars, AdminFinish => shadow.joining = {}
  PROVE  YoungInv'
<1>0. /\ TypeOK /\ late \in Nat /\ clock \in Ticks /\ nowS \in Ticks
      /\ sinceReconfig \in Nat /\ shadow.armed \in BOOLEAN
  BY StatsTypes DEF IInv
<1>1. CASE \E i \in Ids : Observe(i)
  <2>1. PICK i \in Ids : Observe(i)
    BY <1>1
  <2>2. /\ UNCHANGED <<clock, sinceReconfig, pcS, nowS, late>>
        /\ shadow'.armed <=> shadow.armed \/ i \notin shadow.desired
        /\ shadow'.deadline = IF i \notin shadow.desired /\ ~shadow.armed
                              THEN (clock + CohortMs) % Modulus ELSE shadow.deadline
    BY <1>0, <2>1, ObserveEffect DEF layoutVars, statsVars
  <2>3. InvSpaced'
    BY <2>2 DEF YoungInv, InvSpaced
  <2>4. CASE shadow.armed
    <3>1. Lag' = Lag /\ Left' = Left
      BY <2>2, <2>4 DEF Lag, Left
    <3>2. QED
      BY <2>2, <2>3, <2>4, <3>1 DEF YoungInv, InvYoung
  <2>5. CASE ~shadow.armed /\ shadow'.armed
    <3>1. CohortMs \in Nat /\ 2 * CohortMs < Modulus
      BY Times
    <3>2. Lag' = 0 - CohortMs
      BY <1>0, <2>2, <2>5, <3>1, DiffAhead DEF Lag
    <3>3. Left' = LeftOf(0 - CohortMs, sinceReconfig)
      BY <2>2, <3>2 DEF Lag, Left
    <3>4. /\ 0 - CohortMs >= 0 - CohortMs
          /\ Within((0 - CohortMs) + CohortMs, LeftOf(0 - CohortMs, sinceReconfig), late,
                    ReconfigMinMs + CohortMs)
      BY <1>0, Times DEF Within, LeftOf, Max2
    <3>5. QED
      BY <2>2, <2>3, <3>2, <3>3, <3>4 DEF YoungInv, InvYoung
  <2>6. CASE ~shadow'.armed
    BY <2>3, <2>6 DEF YoungInv, InvYoung
  <2>7. QED
    BY <2>4, <2>5, <2>6
<1>2. CASE StatsSample
  <2>1. /\ UNCHANGED <<clock, shadow, sinceReconfig, late>> /\ nowS' = clock
    BY <1>2 DEF StatsSample, shadowVars, layoutVars
  <2>2. SignedDiff(clock, clock) = 0 /\ 0 <= sinceReconfig
    BY <1>0, DiffSelf
  <2>3. QED
    BY <2>1, <2>2 DEF YoungInv, InvYoung, InvSpaced, Lag, Left
<1>3. CASE StatsMerge
  <2> DEFINE e == SignedDiff(clock, nowS)
  <2>1. /\ UNCHANGED <<clock, sinceReconfig, late>>
        /\ pcS = "merge" /\ pcS' # "merge" /\ shadow' = MergedShadow(nowS)
    BY <1>3 DEF StatsMerge, layoutVars
  <2>2. /\ e \in Nat /\ e <= late
        /\ e <= sinceReconfig \/ sinceReconfig >= ReconfigMinMs
    BY <1>0, <2>1, DiffRange DEF AgeInv, InvSampled, YoungInv, InvSpaced
  <2> HIDE DEF e
  <2>3. LET lag == SignedDiff(clock, shadow'.deadline)
        IN  shadow'.armed => /\ lag >= 0 - CohortMs
                             /\ Within(lag + CohortMs, LeftOf(lag, sinceReconfig), late,
                                       ReconfigMinMs + CohortMs)
    BY <1>0, <2>1, <2>2, MergeYoung DEF e
  <2>4. QED
    BY <2>1, <2>3 DEF YoungInv, InvYoung, InvSpaced, Lag, Left
<1>4. CASE StatsPass("pass1", FALSE) \/ StatsPass("pass2", TRUE)
  BY <1>4, PassYoung
<1>5. CASE AdminAdd \/ AdminPop \/ AdminClear
  <2>1. /\ UNCHANGED <<clock, sinceReconfig, pcS, nowS, late>>
        /\ \E gone \in SUBSET Ids : ResetSlots(gone)
    <3>1. CASE AdminAdd
      <4>1. {stored} \in SUBSET Ids
        BY <3>1, ConstantsAssumption DEF AdminAdd, IInv, TypeOK, Ids
      <4>2. QED
        BY <3>1, <4>1 DEF AdminAdd, statsVars
    <3>2. CASE AdminPop
      <4>1. {stored - 1} \in SUBSET Ids
        BY <3>2, ConstantsAssumption DEF AdminPop, IInv, TypeOK, Ids
      <4>2. QED
        BY <3>2, <4>1 DEF AdminPop, statsVars
    <3>3. CASE AdminClear
      BY <3>3 DEF AdminClear, statsVars
    <3>4. QED
      BY <1>5, <3>1, <3>2, <3>3
  <2>2. shadow'.deadline = shadow.deadline /\ (shadow'.armed => shadow.armed)
    BY <1>0, <2>1, ResetEffect
  <2>3. QED
    BY <2>1, <2>2 DEF YoungInv, InvYoung, InvSpaced, Lag, Left
<1>6. CASE AdminFinish
  <2>1. PICK r \in BOOLEAN : \E pc : AdminPass(pc, r)
    BY <1>6 DEF AdminFinish
  <2>2. /\ UNCHANGED <<clock, pcS, nowS, late>> /\ Pass(TRUE, r)
        /\ pcS # "merge"
    BY <1>6, <2>1 DEF AdminPass, AdminFinish, statsVars, IInv, InvMutex
  <2>3. \/ shadow' = shadow /\ UNCHANGED <<active, sinceReconfig>>
        \/ shadow'.armed <=> shadow.armed /\ shadow.joining # {}
    <3>1. TRUE \in BOOLEAN
      OBVIOUS
    <3>2. PassShadow(TRUE, r) = shadow
      BY DEF PassShadow
    <3>3. QED
      BY <2>2, <3>1, <3>2, PassOutcome
  <2>4. CASE shadow' = shadow /\ UNCHANGED <<active, sinceReconfig>>
    BY <2>2, <2>4 DEF YoungInv, InvYoung, InvSpaced, Lag, Left
  <2>5. CASE shadow'.armed <=> shadow.armed /\ shadow.joining # {}
    BY <1>6, <2>2, <2>5 DEF YoungInv, InvYoung, InvSpaced
  <2>6. QED
    BY <2>3, <2>4, <2>5
<1>7. CASE Tick
  BY <1>7, TickYoung
<1>8. CASE StatsWait \/ StatsWake \/ StatsLoss \/ SwitchTestAll \/ SwitchCollect \/ UNCHANGED vars
  <2>1. /\ UNCHANGED <<clock, shadow, sinceReconfig, nowS, late>>
        /\ pcS' = "merge" => pcS = "merge"
    BY <1>8 DEF StatsWait, StatsWake, StatsLoss, SwitchTestAll, SwitchCollect, vars,
                shadowVars, layoutVars, statsVars
  <2>2. QED
    BY <2>1 DEF YoungInv, InvYoung, InvSpaced, Lag, Left
<1>9. QED
  BY <1>1, <1>2, <1>3, <1>4, <1>5, <1>6, <1>7, <1>8
  DEF Next, Stats, Admin

\* No deadline grows old while no removal is published over a queued join: the
\* proviso of the bounds can only fail through the administrator.
THEOREM YoungWhenQuiet == Spec /\ RemovalsQuiet => []DeadlineYoung
<1>1. Init => DueInv /\ YoungInv
  BY DEF Init, DueInv, InvOwing, InvSleep, InvQueued, InvJoins, InvLeaves, InvRested,
         InvDue, InvDone, YoungInv, InvYoung, InvSpaced
<1>2. YoungInv => DeadlineYoung
  BY DEF YoungInv, InvYoung, Lag, DeadlineYoung
<1>3. IInv /\ AgeInv /\ DueInv /\ YoungInv /\ [Next]_vars
        /\ [AdminFinish => shadow.joining = {}]_vars => YoungInv'
  <2>1. CASE AdminFinish => shadow.joining = {}
    BY <2>1, NextYoung
  <2>2. CASE UNCHANGED vars
    BY <2>2 DEF vars, shadowVars, layoutVars, statsVars, YoungInv, InvYoung, InvSpaced,
                Lag, Left
  <2>3. QED
    BY <2>1, <2>2
<1>4. YoungInv' => DeadlineYoung'
  BY DEF YoungInv, InvYoung, Lag, DeadlineYoung
<1>5. IInv /\ AgeInv /\ DueInv /\ YoungInv /\ [Next]_vars
        /\ [AdminFinish => shadow.joining = {}]_vars => DueInv'
  BY <1>2, <1>3, <1>4, NextDue
<1>6. QED
  BY <1>1, <1>2, <1>3, <1>5, AgesHold, PTL DEF Spec, RemovalsQuiet

\* Together: as long as no removal is published over a queued join, changes take
\* effect in time and the stats thread neither evicts early nor spins.
THEOREM TimelyWhenQuiet == Spec /\ RemovalsQuiet => []ChangesTimely /\ PassesJust
<1>1. QED
  BY YoungWhenQuiet, ChangesAlwaysTimely, PassesAlwaysJust, PTL
=============================================================================
