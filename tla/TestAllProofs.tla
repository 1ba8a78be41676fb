---------------------------- MODULE TestAllProofs ----------------------------
(***************************************************************************)
(* Proofs about TestAll for every set of trackers, of rates and of         *)
(* capacities: a command for one tracker wins over one for all, the rate   *)
(* in force fits the layout, and a tracker that counts as converged is in  *)
(* the mode of the policy.                                                 *)
(***************************************************************************)
EXTENDS TestAll, TLAPS

----------------------------------------------------------------------------
(* The inductive invariant *)

Flags == {"normal", "on", "off", "other"}

PolType ==
  pol \in [valid : BOOLEAN, enabled : BOOLEAN, broadcasting : BOOLEAN, confirmed : SUBSET Trackers,
           requested : Rates \cup {0}, effective : Rate]
CastType == cast \in [pc : {"idle", "scan"}, on : BOOLEAN, tps : Rates \cup {0}, stale : BOOLEAN]
SlotState == [cmd : Flags, tps : Rate, grace : BOOLEAN]
SlotType == slot \in [Trackers -> SlotState]
LayoutType ==
  layout \in [active : SUBSET (Trackers \cup Others), cap : Caps, pc : {"idle", "note", "clamp"},
              joined : SUBSET (Trackers \cup Others)]
TrackerState ==
  [mode : Rate \cup {Off}, echo : [flag : Flags, tps : Rate], odd : {"no", "restart", "missed", "gap"}]
TrkType == trk \in [Trackers -> TrackerState]
Types == PolType /\ CastType /\ SlotType /\ LayoutType /\ TrkType

\* An enabled policy has a rate.
Rated == pol.valid /\ pol.enabled => pol.effective > 0

\* A command for all that is still good came after the last one for one tracker.
Listening == cast.pc = "scan" /\ ~cast.stale => ~targeted

\* Without a policy nobody has confirmed one.
Ended == ~pol.valid => pol.confirmed = {}

\* What a tracker echoes of a test command is what it does.
Honest ==
  \A t \in Trackers :
    /\ trk[t].echo.flag = "on" => trk[t].mode = trk[t].echo.tps
    /\ trk[t].echo.flag = "off" => trk[t].mode = Off

\* No test command waits for a tracker that has confirmed.
Settled == \A t \in pol.confirmed : slot[t].cmd \notin {"on", "off"}

Goal(p) == IF p.enabled THEN Wire(p) ELSE Off

\* A tracker that the layout has just taken in may have confirmed an older rate;
\* test_all_note_layout forgets that.
Following ==
  \A t \in layout.active \cap pol.confirmed :
    ~(layout.pc = "note" /\ t \in layout.joined) /\ trk[t].odd \notin {"restart", "missed"} =>
      trk[t].mode = Goal(pol)

IInv ==
  /\ Types /\ Rated /\ Listening /\ TargetedWins /\ RateFits
  /\ Ended /\ Honest /\ Settled /\ Following
----------------------------------------------------------------------------
(* Rates *)

\* The rate of a policy before it is clamped.
LEMMA RequestedType ==
  ASSUME NEW p, p.requested \in Rates \cup {0}
  PROVE  Requested(p) \in Rate /\ Requested(p) \in Nat /\ Requested(p) > 0
<1>1. Rates \subseteq Nat /\ Default \in Nat /\ Default > 0
  BY TestAllConstants
<1>2. CASE p.requested = 0
  BY <1>1, <1>2 DEF Requested, Rate
<1>3. CASE p.requested # 0
  <2>1. p.requested \in Rates
    BY <1>3
  <2>2. p.requested \in Nat
    BY <1>1, <2>1
  <2>3. p.requested > 0
    BY <1>3, <2>2
  <2>4. QED
    BY <1>3, <2>1, <2>2, <2>3 DEF Requested, Rate
<1>4. QED
  BY <1>2, <1>3

\* Clamping gives one of the two rates.
LEMMA SmallerType ==
  ASSUME NEW a \in Rate, NEW b \in Rate, a > 0, b > 0
  PROVE  Smaller(a, b) \in Rate /\ Smaller(a, b) > 0
BY DEF Smaller

\* The capacity of a layout is a rate.
LEMMA CapType ==
  ASSUME LayoutType
  PROVE  layout.cap \in Rate /\ layout.cap > 0
<1>1. Caps \subseteq Nat \ {0}
  BY TestAllConstants
<1>2. layout.cap \in Caps
  BY DEF LayoutType
<1>3. layout.cap \in Nat \ {0}
  BY <1>1, <1>2
<1>4. QED
  BY <1>2, <1>3 DEF Rate

\* What a layout allows is a rate.
LEMMA LimitedType ==
  ASSUME LayoutType, NEW a \in Rate, a > 0
  PROVE  Limited(a) \in Rate /\ Limited(a) > 0 /\ (layout.active # {} => Limited(a) = Smaller(a, layout.cap))
BY CapType, SmallerType DEF Limited

\* What goes on the air is a rate.
LEMMA WireType ==
  ASSUME NEW p, p.effective \in Rate
  PROVE  Wire(p) \in Rate
BY DEF Wire, Rate

\* The policy that a command for all publishes.
LEMMA PolicyOnType ==
  ASSUME PolType, LayoutType, NEW tps \in Rates \cup {0}, NEW q, q = PolicyOn(tps)
  PROVE  /\ q \in [valid : BOOLEAN, enabled : BOOLEAN, broadcasting : BOOLEAN, confirmed : SUBSET Trackers,
                   requested : Rates \cup {0}, effective : Rate]
         /\ q.valid /\ q.enabled /\ q.confirmed = {} /\ q.effective > 0
         /\ layout.active # {} => q.effective = Smaller(Requested(q), layout.cap)
<1> DEFINE p == [pol EXCEPT !.valid = TRUE, !.enabled = TRUE, !.confirmed = {}, !.requested = tps,
                            !.broadcasting = FALSE]
<1>1. p \in [valid : BOOLEAN, enabled : BOOLEAN, broadcasting : BOOLEAN, confirmed : SUBSET Trackers,
             requested : Rates \cup {0}, effective : Rate]
  BY DEF PolType
<1>2. p.valid /\ p.enabled /\ p.confirmed = {} /\ p.requested = tps
  BY DEF PolType
<1>3. q = [p EXCEPT !.effective = Limited(Requested(p))]
  BY DEF PolicyOn
<1> HIDE DEF p
<1>4. Requested(p) \in Rate /\ Requested(p) > 0
  BY <1>1, RequestedType
<1>5. /\ Limited(Requested(p)) \in Rate /\ Limited(Requested(p)) > 0
      /\ layout.active # {} => Limited(Requested(p)) = Smaller(Requested(p), layout.cap)
  BY <1>4, LimitedType
<1>6. /\ q.valid = p.valid /\ q.enabled = p.enabled /\ q.confirmed = p.confirmed
      /\ q.requested = p.requested /\ q.effective = Limited(Requested(p))
  BY <1>1, <1>3
<1>7. Requested(q) = Requested(p)
  BY <1>6 DEF Requested
<1>8. q \in [valid : BOOLEAN, enabled : BOOLEAN, broadcasting : BOOLEAN, confirmed : SUBSET Trackers,
             requested : Rates \cup {0}, effective : Rate]
  BY <1>1, <1>3, <1>5
<1>9. QED
  BY <1>2, <1>5, <1>6, <1>7, <1>8

\* ... and the one that ends the tests.
LEMMA PolicyOffType ==
  ASSUME PolType, NEW q, q = PolicyOff
  PROVE  /\ q \in [valid : BOOLEAN, enabled : BOOLEAN, broadcasting : BOOLEAN, confirmed : SUBSET Trackers,
                   requested : Rates \cup {0}, effective : Rate]
         /\ q.valid /\ ~q.enabled /\ q.confirmed = {}
BY DEF PolicyOff, PolType, Rate

----------------------------------------------------------------------------
(* Each step keeps the invariant *)

\* Init establishes it.
LEMMA InitInvariant == Init => IInv
<1> SUFFICES ASSUME Init PROVE IInv
  OBVIOUS
<1>1. PolType /\ CastType /\ SlotType
  BY DEF Init, Idle, PolType, CastType, SlotType, SlotState, Rate, Flags
<1>2. LayoutType
  BY DEF Init, LayoutType
<1>3. TrkType
  BY DEF Init, Quiet, TrkType, TrackerState, Rate, Flags
<1>4. QED
  BY <1>1, <1>2, <1>3
  DEF Init, Idle, Quiet, IInv, Types, Rated, Listening, TargetedWins, RateFits, Ended, Honest, Settled, Following

\* A command for all trackers starts to listen.
LEMMA CastStartStep ==
  ASSUME IInv, NEW on \in BOOLEAN, NEW tps \in Rates \cup {0}, CastStart(on, tps)
  PROVE  IInv'
<1>1. /\ pol' = [pol EXCEPT !.broadcasting = TRUE] /\ targeted' = FALSE
      /\ UNCHANGED <<slot, layout, trk>>
      /\ cast' = [pc |-> "scan", on |-> on, tps |-> tps, stale |-> FALSE]
  BY DEF CastStart
<1>2. /\ pol'.valid = pol.valid /\ pol'.enabled = pol.enabled /\ pol'.confirmed = pol.confirmed
      /\ pol'.requested = pol.requested /\ pol'.effective = pol.effective
  BY <1>1 DEF IInv, Types, PolType
<1>3. Types'
  BY <1>1 DEF IInv, Types, PolType, CastType, SlotType, LayoutType, TrkType
<1>4. Goal(pol') = Goal(pol) /\ Requested(pol') = Requested(pol)
  BY <1>2 DEF Goal, Wire, Requested
<1>5. QED
  BY <1>1, <1>2, <1>3, <1>4
  DEF IInv, Rated, Listening, TargetedWins, RateFits, Ended, Honest, Settled, Following

\* It publishes, unless a command for one tracker superseded it.
LEMMA CastEndStep ==
  ASSUME IInv, NEW mask \in SUBSET Trackers, CastEnd(mask)
  PROVE  IInv'
<1>0. Types /\ cast.pc = "scan" /\ cast' = Idle /\ UNCHANGED <<layout, trk, targeted>>
  BY DEF CastEnd, IInv
<1>1. CastType' /\ LayoutType' /\ TrkType' /\ Listening'
  BY <1>0 DEF Types, CastType, LayoutType, TrkType, Listening, Idle
<1>2. CASE cast.stale
  <2>1. pol' = [pol EXCEPT !.broadcasting = FALSE] /\ slot' = slot
    BY <1>2 DEF CastEnd, Superseded
  <2>2. /\ pol'.valid = pol.valid /\ pol'.enabled = pol.enabled /\ pol'.confirmed = pol.confirmed
        /\ pol'.requested = pol.requested /\ pol'.effective = pol.effective
    BY <1>0, <2>1 DEF Types, PolType
  <2>3. PolType' /\ SlotType'
    BY <1>0, <2>1 DEF Types, PolType, SlotType
  <2>4. Goal(pol') = Goal(pol) /\ Requested(pol') = Requested(pol)
    BY <2>2 DEF Goal, Wire, Requested
  <2>5. QED
    BY <1>0, <1>1, <2>1, <2>2, <2>3, <2>4
    DEF IInv, Types, Rated, TargetedWins, RateFits, Ended, Honest, Settled, Following
<1>3. CASE ~cast.stale
  <2> DEFINE q == IF cast.on THEN PolicyOn(cast.tps) ELSE PolicyOff
  <2>1. pol' = q
    BY <1>3 DEF CastEnd, Superseded
  <2>2. /\ PolType' /\ pol'.valid /\ pol'.confirmed = {} /\ (pol'.enabled => pol'.effective > 0)
        /\ pol'.enabled /\ layout.active # {} => pol'.effective = Smaller(Requested(pol'), layout.cap)
    <3>1. CASE cast.on
      <4>1. cast.tps \in Rates \cup {0} /\ pol' = PolicyOn(cast.tps)
        BY <1>0, <2>1, <3>1 DEF Types, CastType
      <4>2. QED
        BY <1>0, <4>1, PolicyOnType DEF Types, PolType
    <3>2. CASE ~cast.on
      <4>1. pol' = PolicyOff
        BY <2>1, <3>2
      <4>2. QED
        BY <1>0, <4>1, PolicyOffType DEF Types, PolType
    <3>3. QED
      BY <3>1, <3>2
  <2>3. SlotType'
    <3>1. slot' = [t \in Trackers |->
                    LET s == [slot[t] EXCEPT !.tps = IF cast.on THEN Wire(q) ELSE 0]
                    IN  IF t \in mask THEN Flagged(s, IF cast.on THEN "on" ELSE "off") ELSE s]
      BY <1>3 DEF CastEnd, Superseded
    <3>2. (IF cast.on THEN Wire(q) ELSE 0) \in Rate
      BY <2>1, <2>2, WireType DEF PolType, Rate
    <3> HIDE DEF q
    <3>3. ASSUME NEW t \in Trackers
          PROVE  slot'[t] \in SlotState
      <4>1. slot[t] \in SlotState
        BY <1>0 DEF Types, SlotType
      <4>2. QED
        BY <3>1, <3>2, <4>1 DEF Flagged, Flags, SlotState
    <3>4. QED
      BY <3>1, <3>3 DEF SlotType
  <2> HIDE DEF q
  <2>4. ~targeted'
    BY <1>0, <1>3 DEF IInv, Listening
  <2>5. QED
    BY <1>0, <1>1, <2>2, <2>3, <2>4
    DEF IInv, Types, Rated, TargetedWins, RateFits, Ended, Honest, Settled, Following
<1>4. QED
  BY <1>2, <1>3

\* A command for one tracker ends the policy.
LEMMA TargetStep ==
  ASSUME IInv, NEW t \in Trackers, NEW on \in BOOLEAN, NEW tps \in Rates \cup {0}, Target(t, on, tps)
  PROVE  IInv'
<1>1. /\ pol' = [pol EXCEPT !.valid = FALSE, !.confirmed = {}, !.broadcasting = FALSE]
      /\ cast' = [cast EXCEPT !.stale = cast.pc = "scan"]
      /\ slot' = [slot EXCEPT ![t].tps = IF on THEN tps ELSE 0, ![t].cmd = IF on THEN "on" ELSE "off"]
      /\ UNCHANGED <<layout, trk>>
  BY DEF Target
<1>2. PolType' /\ ~pol'.valid /\ pol'.confirmed = {}
  BY <1>1 DEF IInv, Types, PolType
<1>3. CastType' /\ Listening'
  <2>1. (cast.pc = "scan") \in BOOLEAN
    OBVIOUS
  <2>2. QED
    BY <1>1, <2>1 DEF IInv, Types, CastType, Listening
<1>4. SlotType'
  <2>1. (IF on THEN tps ELSE 0) \in Rate /\ (IF on THEN "on" ELSE "off") \in Flags
    BY DEF Rate, Flags
  <2>2. QED
    BY <1>1, <2>1 DEF IInv, Types, SlotType, SlotState
<1>5. LayoutType' /\ TrkType' /\ Honest'
  BY <1>1 DEF IInv, Types, LayoutType, TrkType, Honest
<1>6. QED
  BY <1>2, <1>3, <1>4, <1>5
  DEF IInv, Types, Rated, TargetedWins, RateFits, Ended, Settled, Following

\* A step that changes the slots only, and puts no test command in the slot of a
\* tracker that has confirmed.
LEMMA SlotStep ==
  ASSUME IInv, UNCHANGED <<pol, cast, layout, trk, targeted>>, SlotType',
         \A t \in pol.confirmed : slot'[t].cmd \in {slot[t].cmd, "other"}
  PROVE  IInv'
<1>1. Settled'
  BY DEF IInv, Settled
<1>2. QED
  BY <1>1
  DEF IInv, Types, PolType, CastType, LayoutType, TrkType, Rated, Listening, TargetedWins, RateFits, Ended,
      Honest, Following

\* The steps that do.
LEMMA SlotSteps ==
  ASSUME IInv, NEW t \in Trackers, OtherCommand(t) \/ GraceEnds(t) \/ Reconcile
  PROVE  IInv'
<1>0. SlotType /\ PolType
  BY DEF IInv, Types
<1>1. CASE OtherCommand(t)
  <2>1. SlotType' /\ \A u \in Trackers : slot'[u].cmd \in {slot[u].cmd, "other"}
    BY <1>0, <1>1 DEF OtherCommand, SlotType, SlotState, Flags
  <2>2. QED
    BY <1>0, <1>1, <2>1, SlotStep DEF OtherCommand, PolType
<1>2. CASE GraceEnds(t)
  <2>1. SlotType' /\ \A u \in Trackers : slot'[u].cmd = slot[u].cmd
    BY <1>0, <1>2 DEF GraceEnds, SlotType, SlotState
  <2>2. QED
    BY <1>0, <1>2, <2>1, SlotStep DEF GraceEnds, PolType
<1>3. CASE Reconcile
  <2>1. slot' = [u \in Trackers |->
                  IF u \in Unconverged
                  THEN [slot[u] EXCEPT !.tps = IF pol.enabled THEN Wire(pol) ELSE @,
                                       !.cmd = IF pol.enabled THEN "on" ELSE "off"]
                  ELSE slot[u]]
    BY <1>3 DEF Reconcile
  <2>2. Wire(pol) \in Rate
    BY <1>0, WireType DEF PolType
  <2>3. ASSUME NEW u \in Trackers
        PROVE  slot'[u] \in SlotState
    <3>1. slot[u] \in SlotState
      BY <1>0 DEF SlotType
    <3>2. QED
      BY <2>1, <2>2, <3>1 DEF Flags, SlotState
  <2>4. SlotType'
    BY <2>1, <2>3 DEF SlotType
  <2>5. \A u \in pol.confirmed : u \in Trackers /\ slot'[u] = slot[u]
    BY <1>0, <2>1 DEF Unconverged, PolType
  <2>6. QED
    BY <1>3, <2>4, <2>5, SlotStep DEF Reconcile
<1>4. QED
  BY <1>1, <1>2, <1>3

\* A layout is published: whoever is new in it is on record.
LEMMA PublishStep ==
  ASSUME IInv, NEW active \in SUBSET (Trackers \cup Others), NEW cap \in Caps, Publish(active, cap)
  PROVE  IInv'
<1>1. /\ layout.pc = "idle" /\ UNCHANGED <<pol, cast, slot, trk, targeted>>
      /\ layout' = [active |-> active, cap |-> cap, pc |-> IF active = {} THEN "idle" ELSE "note",
                    joined |-> active \ layout.active]
  BY DEF Publish
<1>2. LayoutType'
  BY <1>1 DEF IInv, Types, LayoutType
<1>3. RateFits'
  BY <1>1 DEF RateFits
<1>4. Following'
  BY <1>1 DEF IInv, Following
<1>5. QED
  BY <1>1, <1>2, <1>3, <1>4
  DEF IInv, Types, PolType, CastType, SlotType, TrkType, Rated, Listening, TargetedWins, Ended, Honest, Settled

\* test_all_note_layout.
LEMMA NoteLayoutStep ==
  ASSUME IInv, NoteLayout
  PROVE  IInv'
<1>0. /\ Types /\ layout.pc = "note" /\ layout' = [layout EXCEPT !.pc = "clamp"]
      /\ UNCHANGED <<cast, trk, targeted>>
  BY DEF NoteLayout, IInv
<1>1. LayoutType' /\ layout'.pc = "clamp" /\ layout'.active = layout.active
  BY <1>0 DEF Types, LayoutType
<1>2. CastType' /\ TrkType' /\ Listening' /\ Honest' /\ RateFits'
  BY <1>0, <1>1 DEF IInv, Types, CastType, TrkType, Listening, Honest, RateFits
<1>3. CASE ~pol.valid
  <2>1. UNCHANGED <<pol, slot>> /\ pol.confirmed = {}
    BY <1>3 DEF NoteLayout, IInv, Ended
  <2>2. QED
    BY <1>0, <1>1, <1>2, <2>1
    DEF IInv, Types, PolType, SlotType, Rated, TargetedWins, Ended, Settled, Following
<1>4. CASE pol.valid
  <2>1. pol' = [pol EXCEPT !.confirmed = Joined(@)]
    BY <1>4 DEF NoteLayout
  <2>2. slot' = [t \in Trackers |->
                  IF t \in layout.joined
                  THEN [slot[t] EXCEPT !.tps = IF pol.enabled THEN Wire(pol) ELSE @, !.grace = TRUE]
                  ELSE slot[t]]
    BY <1>4 DEF NoteLayout
  <2>3. /\ PolType' /\ pol'.confirmed = pol.confirmed \ layout.joined
        /\ pol'.valid = pol.valid /\ pol'.enabled = pol.enabled
        /\ pol'.requested = pol.requested /\ pol'.effective = pol.effective
    BY <1>0, <2>1 DEF Types, PolType, Joined
  <2>4. Wire(pol) \in Rate
    BY <1>0, WireType DEF Types, PolType
  <2>5. ASSUME NEW t \in Trackers
        PROVE  slot'[t] \in SlotState /\ slot'[t].cmd = slot[t].cmd
    <3>1. slot[t] \in SlotState
      BY <1>0 DEF Types, SlotType
    <3>2. QED
      BY <2>2, <2>4, <3>1 DEF SlotState
  <2>6. SlotType'
    BY <2>2, <2>5 DEF SlotType
  <2>7. Settled'
    BY <1>0, <2>3, <2>5 DEF IInv, Types, PolType, Settled
  <2>8. Goal(pol') = Goal(pol)
    BY <2>3 DEF Goal, Wire
  <2>9. Following'
    BY <1>0, <1>1, <2>3, <2>8 DEF IInv, Following
  <2>10. QED
    BY <1>0, <1>1, <1>2, <1>4, <2>3, <2>6, <2>7, <2>9 DEF IInv, Types, Rated, TargetedWins, Ended
<1>5. QED
  BY <1>3, <1>4

\* test_all_update_effective.
LEMMA UpdateEffectiveStep ==
  ASSUME IInv, UpdateEffective
  PROVE  IInv'
<1>0. /\ Types /\ layout.pc = "clamp" /\ layout' = [layout EXCEPT !.pc = "idle", !.joined = {}]
      /\ UNCHANGED <<cast, trk, targeted>>
  BY DEF UpdateEffective, IInv
<1>1. LayoutType' /\ layout'.pc = "idle" /\ layout'.active = layout.active /\ layout'.cap = layout.cap
  BY <1>0 DEF Types, LayoutType
<1>2. CastType' /\ TrkType' /\ Listening' /\ Honest'
  BY <1>0, <1>1 DEF IInv, Types, CastType, TrkType, Listening, Honest
<1>3. CASE ~(pol.valid /\ pol.enabled /\ Clamp # pol.effective)
  <2>1. UNCHANGED <<pol, slot>>
    BY <1>3 DEF UpdateEffective
  <2>2. RateFits'
    BY <1>1, <1>3, <2>1 DEF RateFits, Clamp
  <2>3. QED
    BY <1>0, <1>1, <1>2, <2>1, <2>2
    DEF IInv, Types, PolType, SlotType, Rated, TargetedWins, Ended, Settled, Following
<1>4. CASE pol.valid /\ pol.enabled /\ Clamp # pol.effective
  <2> DEFINE q == [pol EXCEPT !.effective = Clamp, !.confirmed = @ \ layout.active]
  <2>1. pol' = q
    BY <1>4 DEF UpdateEffective
  <2>2. slot' = [t \in Trackers |->
                  IF t \in layout.active THEN [slot[t] EXCEPT !.tps = Wire(q), !.grace = TRUE] ELSE slot[t]]
    BY <1>4 DEF UpdateEffective
  <2>3. Clamp \in Rate /\ Clamp > 0
    <3>1. Requested(pol) \in Rate /\ Requested(pol) > 0
      BY <1>0, RequestedType DEF Types, PolType
    <3>2. layout.cap \in Rate /\ layout.cap > 0
      BY <1>0, CapType DEF Types
    <3>3. QED
      BY <3>1, <3>2, SmallerType DEF Clamp
  <2>4. /\ PolType' /\ pol'.confirmed = pol.confirmed \ layout.active
        /\ pol'.valid = pol.valid /\ pol'.enabled = pol.enabled
        /\ pol'.requested = pol.requested /\ pol'.effective = Clamp
    BY <1>0, <2>1, <2>3 DEF Types, PolType
  <2>5. Wire(q) \in Rate
    BY <2>1, <2>4, WireType DEF PolType
  <2> HIDE DEF q
  <2>6. ASSUME NEW t \in Trackers
        PROVE  slot'[t] \in SlotState /\ slot'[t].cmd = slot[t].cmd
    <3>1. slot[t] \in SlotState
      BY <1>0 DEF Types, SlotType
    <3>2. QED
      BY <2>2, <2>5, <3>1 DEF SlotState
  <2>7. SlotType'
    BY <2>2, <2>6 DEF SlotType
  <2>8. Settled'
    BY <1>0, <2>4, <2>6 DEF IInv, Types, PolType, Settled
  <2>9. Following'
    BY <1>1, <2>4 DEF Following
  <2>10. RateFits'
    BY <1>1, <2>4 DEF RateFits, Clamp, Requested
  <2>11. QED
    BY <1>0, <1>1, <1>2, <1>4, <2>3, <2>4, <2>7, <2>8, <2>9, <2>10 DEF IInv, Types, Rated, TargetedWins, Ended
<1>5. QED
  BY <1>3, <1>4
\* A tracker does what it is told, if it hears it.
LEMMA ObeyedType ==
  ASSUME NEW k \in TrackerState,
         NEW s \in SlotState, NEW lost \in BOOLEAN
  PROVE  LET j == Obeyed(k, s, lost) IN
         /\ j \in TrackerState
         /\ j.odd = k.odd
         /\ s.cmd \notin {"on", "off"} => j.mode = k.mode
         /\ lost => j = k
         /\ ~lost /\ s.cmd = "on" => j.mode = s.tps /\ j.echo = [flag |-> "on", tps |-> s.tps]
         /\ ~lost /\ s.cmd = "off" => j.mode = Off /\ j.echo.flag = "off"
         /\ ~lost /\ s.cmd \notin {"on", "off"} => j.echo.flag \notin {"on", "off"}
<1> DEFINE j == Obeyed(k, s, lost)
<1>1. CASE lost
  BY <1>1 DEF Obeyed
<1>2. CASE ~lost
  <2>1. Quiet \in [flag : Flags, tps : Rate] /\ Quiet.flag = "normal"
    BY DEF Quiet, Flags, Rate
  <2>2. [flag |-> s.cmd, tps |-> s.tps] \in [flag : Flags, tps : Rate]
    BY DEF SlotState
  <2>3. CASE s.cmd = "on"
    <3>1. j = [k EXCEPT !.mode = s.tps, !.echo = [flag |-> s.cmd, tps |-> s.tps]]
      BY <1>2, <2>3 DEF Obeyed
    <3> HIDE DEF j
    <3>2. j \in TrackerState /\ j.odd = k.odd /\ j.mode = s.tps /\ j.echo = [flag |-> s.cmd, tps |-> s.tps]
      BY <2>2, <3>1 DEF TrackerState, SlotState
    <3>3. j.echo.flag = s.cmd
      BY <3>2
    <3>4. QED
      BY <1>2, <2>3, <3>2, <3>3 DEF j
  <2>4. CASE s.cmd = "off"
    <3>1. j = [k EXCEPT !.mode = Off, !.echo = [flag |-> s.cmd, tps |-> s.tps]]
      BY <1>2, <2>4 DEF Obeyed
    <3> HIDE DEF j
    <3>2. j \in TrackerState /\ j.odd = k.odd /\ j.mode = Off /\ j.echo = [flag |-> s.cmd, tps |-> s.tps]
      BY <2>2, <3>1 DEF TrackerState, SlotState
    <3>3. j.echo.flag = s.cmd
      BY <3>2
    <3>4. QED
      BY <1>2, <2>4, <3>2, <3>3 DEF j
  <2>5. CASE s.cmd = "other"
    <3>1. j = [k EXCEPT !.mode = @, !.echo = [flag |-> s.cmd, tps |-> s.tps]]
      BY <1>2, <2>5 DEF Obeyed
    <3> HIDE DEF j
    <3>2. j \in TrackerState /\ j.odd = k.odd /\ j.mode = k.mode /\ j.echo = [flag |-> s.cmd, tps |-> s.tps]
      BY <2>2, <3>1 DEF TrackerState, SlotState
    <3>3. j.echo.flag = s.cmd
      BY <3>2
    <3>4. QED
      BY <1>2, <2>5, <3>2, <3>3 DEF j
  <2>6. CASE s.cmd = "normal"
    <3>1. j = [k EXCEPT !.mode = @, !.echo = Quiet]
      BY <1>2, <2>6 DEF Obeyed
    <3> HIDE DEF j
    <3>2. j \in TrackerState /\ j.odd = k.odd /\ j.mode = k.mode /\ j.echo = Quiet
      BY <2>1, <3>1 DEF TrackerState, SlotState
    <3>3. j.echo.flag = s.cmd
      BY <2>1, <2>6, <3>2
    <3>4. QED
      BY <1>2, <2>6, <3>2, <3>3 DEF j
  <2>7. QED
    BY <2>3, <2>4, <2>5, <2>6 DEF SlotState, Flags
<1>3. QED
  BY <1>1, <1>2

\* What a tracker echoes stays what it does.
LEMMA ObeyedHonest ==
  ASSUME Types, Honest, NEW t \in Trackers, NEW lost \in BOOLEAN, NEW j, j = Obeyed(trk[t], slot[t], lost)
  PROVE  /\ j.echo.flag = "on" => j.mode = j.echo.tps
         /\ j.echo.flag = "off" => j.mode = Off
<1>1. /\ slot[t] \in SlotState
      /\ trk[t] \in TrackerState
  BY DEF Types, SlotType, TrkType
<1>2. /\ slot[t].cmd \notin {"on", "off"} => j.mode = trk[t].mode
      /\ lost => j = trk[t]
      /\ ~lost /\ slot[t].cmd = "on" => j.mode = slot[t].tps /\ j.echo = [flag |-> "on", tps |-> slot[t].tps]
      /\ ~lost /\ slot[t].cmd = "off" => j.mode = Off /\ j.echo.flag = "off"
      /\ ~lost /\ slot[t].cmd \notin {"on", "off"} => j.echo.flag \notin {"on", "off"}
  BY <1>1, ObeyedType
<1>3. QED
  BY <1>2 DEF Honest

\* A PING that was answered before is answered again.
LEMMA RepeatedPingStep ==
  ASSUME IInv, NEW t \in Trackers, RepeatedPing(t)
  PROVE  IInv'
<1>0. Types /\ UNCHANGED <<pol, cast, slot, layout, targeted>>
  BY DEF RepeatedPing, IInv
<1> DEFINE j == Obeyed(trk[t], slot[t], FALSE)
<1>1. trk' = [trk EXCEPT ![t] = j]
  BY DEF RepeatedPing
<1>2. /\ slot[t] \in SlotState
      /\ trk[t] \in TrackerState
  BY <1>0 DEF Types, SlotType, TrkType
<1>3. /\ j \in TrackerState
      /\ j.odd = trk[t].odd /\ (slot[t].cmd \notin {"on", "off"} => j.mode = trk[t].mode)
  BY <1>2, ObeyedType
<1>4. (j.echo.flag = "on" => j.mode = j.echo.tps) /\ (j.echo.flag = "off" => j.mode = Off)
  BY <1>0, ObeyedHonest DEF IInv
<1> HIDE DEF j
<1>5. trk'[t] = j /\ \A u \in Trackers \ {t} : trk'[u] = trk[u]
  BY <1>0, <1>1 DEF Types, TrkType
<1>6. TrkType' /\ Honest'
  BY <1>0, <1>1, <1>3, <1>4, <1>5 DEF IInv, Types, TrkType, Honest
<1>7. Following'
  BY <1>0, <1>3, <1>5 DEF IInv, Types, PolType, Settled, Following
<1>8. QED
  BY <1>0, <1>6, <1>7
  DEF IInv, Types, PolType, CastType, SlotType, LayoutType, Rated, Listening, TargetedWins, RateFits, Ended,
      Settled

\* A tracker restarts or is silent.
LEMMA FaultStep ==
  ASSUME IInv, NEW t \in Trackers, NEW what, Fault(t, what)
  PROVE  IInv'
<1>0. Types /\ UNCHANGED <<pol, cast, slot, layout, targeted>>
  BY DEF Fault, IInv
<1>1. [mode |-> Off, echo |-> Quiet, odd |-> "restart"]
        \in TrackerState
  BY DEF Quiet, Flags, Rate, TrackerState
<1>2. /\ TrkType' /\ \A u \in Trackers \ {t} : trk'[u] = trk[u]
      /\ \/ trk'[t].mode = Off /\ trk'[t].echo = Quiet /\ trk'[t].odd = "restart"
         \/ trk'[t].mode = trk[t].mode /\ trk'[t].echo = trk[t].echo
              /\ (trk'[t].odd = trk[t].odd \/ trk[t].odd = "no")
  BY <1>0, <1>1 DEF Fault, Types, TrkType, TrackerState
<1>3. Honest'
  BY <1>2 DEF IInv, Honest, Quiet
<1>4. Following'
  BY <1>0, <1>2 DEF IInv, Types, PolType, Following
<1>5. QED
  BY <1>0, <1>2, <1>3, <1>4
  DEF IInv, Types, PolType, CastType, SlotType, LayoutType, Rated, Listening, TargetedWins, RateFits, Ended,
      Settled

\* A PING: the counter or the time may show a restart, the echo may confirm.
LEMMA PingStep ==
  ASSUME IInv, NEW t \in Trackers, NEW seen \in BOOLEAN, NEW lost \in BOOLEAN, Ping(t, seen, lost)
  PROVE  IInv'
<1> DEFINE e == trk[t].echo
           back == seen /\ pol.valid
           s == IF back THEN Recovered(slot[t]) ELSE slot[t]
           ok == Matches(s, e)
           conf == IF back THEN pol.confirmed \ {t} ELSE pol.confirmed
           yes == ok /\ pol.valid /\ Converged(e)
           j == Obeyed(trk[t], slot[t], lost)
<1>0. Types /\ UNCHANGED <<cast, layout, targeted>>
  BY DEF Ping, IInv
<1>1. /\ slot' = [slot EXCEPT ![t] = IF ok THEN [s EXCEPT !.cmd = "normal"] ELSE s]
      /\ pol' = [pol EXCEPT !.confirmed = IF yes THEN conf \cup {t} ELSE conf]
  BY DEF Ping
<1>2. trk' = [trk EXCEPT ![t] = [j EXCEPT !.odd = Noticed(j.odd, seen)]]
  BY DEF Ping
<1>3. /\ slot[t] \in SlotState
      /\ trk[t] \in TrackerState
  BY <1>0 DEF Types, SlotType, TrkType
<1>4. /\ s \in SlotState
      /\ s.cmd \in {slot[t].cmd, "normal"} /\ (~back => s = slot[t])
      /\ back => s.cmd \notin {"on", "off"}
  <2>1. CASE back
    BY <1>3, <2>1 DEF Recovered, Flags, SlotState
  <2>2. CASE ~back
    BY <1>3, <2>2
  <2>3. QED
    BY <2>1, <2>2
<1>5. yes => /\ ~back /\ slot[t].cmd = e.flag /\ slot'[t].cmd = "normal"
             /\ e.flag = "on" /\ pol.enabled => slot[t].tps = e.tps /\ e.tps = Wire(pol)
             /\ (e.flag = "on" /\ pol.enabled) \/ (e.flag = "off" /\ ~pol.enabled)
  <2>1. yes => (e.flag = "on" /\ pol.enabled /\ e.tps = Wire(pol)) \/ (e.flag = "off" /\ ~pol.enabled)
    BY DEF Converged
  <2>2. yes => s.cmd = e.flag /\ (e.flag = "on" => e.tps = s.tps)
    BY DEF Matches
  <2>3. yes => ~back
    BY <1>4, <2>1, <2>2
  <2>4. yes => slot'[t].cmd = "normal"
    BY <1>0, <1>1, <1>4 DEF Types, SlotType, SlotState
  <2>5. QED
    BY <1>4, <2>1, <2>2, <2>3, <2>4
<1>6. /\ j \in TrackerState
      /\ j.odd = trk[t].odd /\ (slot[t].cmd \notin {"on", "off"} => j.mode = trk[t].mode)
      /\ \/ j = trk[t]
         \/ slot[t].cmd = "on" /\ j.mode = slot[t].tps
         \/ slot[t].cmd = "off" /\ j.mode = Off
         \/ slot[t].cmd \notin {"on", "off"}
  <2>1. CASE lost
    BY <1>3, <2>1, ObeyedType
  <2>2. CASE ~lost
    BY <1>3, <2>2, ObeyedType
  <2>3. QED
    BY <2>1, <2>2
<1>7. (j.echo.flag = "on" => j.mode = j.echo.tps) /\ (j.echo.flag = "off" => j.mode = Off)
  BY <1>0, ObeyedHonest DEF IInv
<1> HIDE DEF j
<1>8. /\ TrkType' /\ trk'[t].mode = j.mode /\ trk'[t].echo = j.echo
      /\ ~seen /\ j.odd \in {"restart", "missed"} => trk'[t].odd = "missed"
      /\ \A u \in Trackers \ {t} : trk'[u] = trk[u]
  <2> DEFINE o == Noticed(j.odd, seen)
  <2>1. o \in {"no", "restart", "missed", "gap"} /\ (~seen /\ j.odd \in {"restart", "missed"} => o = "missed")
    BY <1>6 DEF Noticed, TrackerState
  <2>2. trk' = [trk EXCEPT ![t] = [j EXCEPT !.odd = o]]
    BY <1>2
  <2> HIDE DEF o
  <2>3. QED
    BY <1>0, <1>6, <2>1, <2>2 DEF Types, TrkType, TrackerState
<1>9. Honest'
  BY <1>7, <1>8 DEF IInv, Honest
<1>10. /\ SlotType' /\ \A u \in Trackers \ {t} : slot'[u] = slot[u]
       /\ slot'[t].cmd \in {slot[t].cmd, "normal"}
  <2>1. [s EXCEPT !.cmd = "normal"] \in SlotState
    BY <1>4 DEF Flags, SlotState
  <2>2. QED
    BY <1>0, <1>1, <1>4, <2>1 DEF Types, SlotType, SlotState
<1>11. /\ PolType' /\ pol'.valid = pol.valid /\ pol'.enabled = pol.enabled
       /\ pol'.requested = pol.requested /\ pol'.effective = pol.effective
       /\ pol'.confirmed = IF yes THEN conf \cup {t} ELSE conf
  BY <1>0, <1>1 DEF Types, PolType
<1>12. Goal(pol') = Goal(pol) /\ Requested(pol') = Requested(pol)
  BY <1>11 DEF Goal, Wire, Requested
<1>13. Settled'
  BY <1>0, <1>5, <1>10, <1>11 DEF IInv, Types, PolType, Settled
<1>14. Ended'
  BY <1>11 DEF IInv, Ended
<1>15. Following'
  <2>1. CASE yes
    <3>1. trk[t].mode = Goal(pol) /\ j.mode = Goal(pol)
      BY <1>5, <1>6, <2>1 DEF IInv, Honest, Goal
    <3>2. pol'.confirmed \subseteq pol.confirmed \cup {t} /\ trk'[t].mode = Goal(pol)
      BY <1>8, <1>11, <3>1
    <3>3. QED
      BY <1>0, <1>8, <1>12, <3>2 DEF IInv, Types, PolType, Following
  <2>2. CASE ~yes
    <3>1. pol'.confirmed = conf
      BY <1>11, <2>2
    <3>2. CASE back
      <4>1. pol'.confirmed = pol.confirmed \ {t}
        BY <3>1, <3>2
      <4>2. QED
        BY <1>0, <1>8, <1>12, <4>1 DEF IInv, Types, PolType, Following
    <3>3. CASE ~back
      <4>1. pol'.confirmed = pol.confirmed
        BY <3>1, <3>3
      <4>2. CASE ~pol.valid
        BY <4>1, <4>2 DEF IInv, Ended, Following
      <4>3. CASE ~seen /\ t \in pol.confirmed
        <5>1. j.mode = trk[t].mode
          BY <1>6, <4>3 DEF IInv, Settled
        <5>2. trk[t].odd \in {"restart", "missed"} => trk'[t].odd \in {"restart", "missed"}
          BY <1>6, <1>8, <4>3
        <5>3. QED
          BY <1>0, <1>8, <1>12, <4>1, <5>1, <5>2 DEF IInv, Types, PolType, Following
      <4>4. CASE ~seen /\ t \notin pol.confirmed
        BY <1>0, <1>8, <1>12, <4>1, <4>4 DEF IInv, Types, PolType, Following
      <4>5. QED
        BY <3>3, <4>2, <4>3, <4>4
    <3>4. QED
      BY <3>2, <3>3
  <2>3. QED
    BY <2>1, <2>2
<1>16. QED
  BY <1>0, <1>8, <1>9, <1>10, <1>11, <1>12, <1>13, <1>14, <1>15
  DEF IInv, Types, CastType, LayoutType, Rated, Listening, TargetedWins, RateFits

----------------------------------------------------------------------------
(* The theorems *)

\* Every step keeps the invariant.
LEMMA StepInvariant == IInv /\ [Next]_vars => IInv'
<1> SUFFICES ASSUME IInv, [Next]_vars PROVE IInv'
  OBVIOUS
<1>1. CASE UNCHANGED vars
  BY <1>1
  DEF vars, IInv, Types, PolType, CastType, SlotType, LayoutType, TrkType, Rated, Listening, TargetedWins,
      RateFits, Ended, Honest, Settled, Following
<1>2. CASE User
  <2>1. ASSUME NEW tps \in Rates, CastStart(TRUE, tps)
        PROVE  IInv'
    BY <2>1, CastStartStep
  <2>2. CASE CastStart(FALSE, 0)
    BY <2>2, CastStartStep
  <2>3. ASSUME NEW t \in Trackers, Target(t, FALSE, 0)
        PROVE  IInv'
    BY <2>3, TargetStep
  <2>4. ASSUME NEW t \in Trackers, NEW tps \in Rates, Target(t, TRUE, tps)
        PROVE  IInv'
    BY <2>4, TargetStep
  <2>5. ASSUME NEW t \in Trackers, OtherCommand(t)
        PROVE  IInv'
    BY <2>5, SlotSteps
  <2>6. QED
    BY <1>2, <2>1, <2>2, <2>3, <2>4, <2>5 DEF User
<1>3. CASE StatsThread
  <2>1. CASE Reconcile
    <3>1. PICK t \in Trackers : TRUE
      BY <2>1 DEF Reconcile, Unconverged
    <3>2. QED
      BY <2>1, <3>1, SlotSteps
  <2>2. QED
    BY <1>3, <2>1, NoteLayoutStep, UpdateEffectiveStep, PublishStep DEF StatsThread
<1>4. ASSUME NEW t \in Trackers,
             \/ GraceEnds(t) \/ RepeatedPing(t) \/ (\E seen, lost \in BOOLEAN : Ping(t, seen, lost))
             \/ \E what \in {"restart", "gap"} : Fault(t, what)
      PROVE  IInv'
  BY <1>4, SlotSteps, RepeatedPingStep, PingStep, FaultStep
<1>5. QED
  BY <1>1, <1>2, <1>3, <1>4, CastEndStep DEF Next

\* The invariant holds in every behaviour.
LEMMA Invariant == Spec => []IInv
BY InitInvariant, StepInvariant, PTL DEF Spec

\* A command for one tracker ends the policy for all, for every number of trackers,
\* and also when it comes while a command for all still listens (the generation that
\* esb_send_remote_command_test_on_all compares at its end).
THEOREM TargetedCommandWins == Spec => []TargetedWins
<1>1. IInv => TargetedWins
  BY DEF IInv
<1>2. QED
  BY <1>1, Invariant, PTL

\* What the receiver believes is so, for every number of trackers and every rate and
\* capacity: the rate in force is the one asked for, cut to the layout, and an active
\* tracker in test_all_confirmed_mask is in the mode of the policy, unless it has
\* restarted and no PING has shown it.
THEOREM PolicyIsSound == Spec => []PolicySound
<1>1. IInv => PolicySound
  <2> SUFFICES ASSUME IInv PROVE PolicySound
    OBVIOUS
  <2>1. TypeOK
    BY DEF IInv, Types, PolType, SlotType, SlotState, LayoutType, TrkType, TrackerState, Rated, Flags, TypeOK
  <2>2. ConvergedIsTrue
    BY DEF IInv, Types, LayoutType, Following, Goal, ConvergedIsTrue
  <2>3. QED
    BY <2>1, <2>2 DEF IInv, PolicySound
<1>2. QED
  BY <1>1, Invariant, PTL
=============================================================================
