---------------------------- MODULE OtaRelayProofs ----------------------------
(***************************************************************************)
(* Proofs about OtaRelay for every set of trackers, every length of the    *)
(* image and every size of the ring: the session, its targets, its         *)
(* tombstones and its claim of the radio agree; the ring serves its        *)
(* slowest target, and is full for no reason that the host could see.      *)
(***************************************************************************)
EXTENDS OtaRelay, FiniteSetTheorems, WellFoundedInduction, TLAPS

-----------------------------------------------------------------------------
(* The inductive invariant of the session *)

Phases == {"idle", "begin", "stream", "verify", "activate"}

RelayState == [part : BOOLEAN, next : 0..Total, cmd : Commands \cup {"none"}, late : BOOLEAN]
TrackerState == [st : Statuses, need : 0..Total]
HostState ==
  [phase : Phases, ids : SUBSET Trackers, todo : SUBSET Trackers, ok : SUBSET Trackers,
   out : SUBSET Trackers, sent : 0..Total, seen : [Trackers -> 0..Total]]
CallState == [step : {"idle", "radio", "commit", "end"}, t : Trackers \cup {None}, acq : BOOLEAN]

SessionType ==
  /\ active \in BOOLEAN /\ targets \in SUBSET Trackers /\ tomb \in SUBSET Trackers
  /\ head \in 0..Total /\ ring \in [0..RingSize - 1 -> 0..Total - 1]
TrType   == tr \in [Trackers -> RelayState]
RadioType == busy \in SUBSET {"relay", "other"} /\ call \in CallState
HostType == host \in HostState
TrkType  == trk \in [Trackers -> TrackerState]
Types == SessionType /\ TrType /\ RadioType /\ HostType /\ TrkType

\* The BEGIN in progress is for a tracker; it holds the radio from the moment
\* that it has claimed it until its end.
Calling ==
  /\ call.step # "idle" => call.t \in Trackers
  /\ call.acq => call.step \in {"commit", "end"} /\ "relay" \in busy

IInv == Types /\ Calling /\ SessionShape /\ RadioExclusive /\ CancelledIsOut

-----------------------------------------------------------------------------
(* The inductive invariant of the ring *)

\* A BEGIN is in progress only in the first phase of an update.
Beginning == call.step # "idle" => host.phase = "begin" /\ call.t \in host.ids

\* In the first phase nothing was sent yet: the ring is empty, no tracker of the
\* update is past its first packet, and only trackers of the update are sent to.
Untouched ==
  host.phase = "begin" =>
    /\ host.sent = 0 /\ head = 0 /\ targets \subseteq host.ids /\ host.todo \subseteq host.ids
    /\ \A t \in host.ids : trk[t].need = 0 /\ host.seen[t] = 0

\* Unless a packet was dropped, the relay has what the host sent.
InStep == host.phase = "stream" /\ active /\ ~dropped => head = host.sent

\* A target never goes back behind what the relay knows of it; one that has not
\* confirmed its BEGIN is at the start.
Forward ==
  \A t \in targets :
    /\ trk[t] # Normal => trk[t].need >= tr[t].next
    /\ tr[t].cmd = "begin" => tr[t].next = 0 /\ trk[t].need = 0
    /\ host.phase \in {"begin", "stream"} => tr[t].cmd \in {"none", "begin"}

\* The host's view of a target is not ahead of the relay's.
Behind == host.phase = "stream" => \A t \in targets : host.seen[t] <= tr[t].next

RInv == Beginning /\ Untouched /\ InStep /\ Forward /\ Behind /\ Retransmittable
-----------------------------------------------------------------------------
(* Types *)

\* The values that the records start from.
LEMMA StartTypes ==
  /\ Idle \in RelayState /\ Normal \in TrackerState /\ HostIdle \in HostState /\ NoCall \in CallState
  /\ 0 \in 0..Total /\ ~Idle.part /\ Normal.need = 0 /\ Normal.st = "idle"
  /\ NoCall.step = "idle" /\ NoCall.acq = FALSE
<1>1. 0 \in 0..Total
  BY OtaAssumption
<1>2. Idle \in RelayState
  BY <1>1 DEF Idle, RelayState
<1>3. Normal \in TrackerState
  BY <1>1 DEF Normal, TrackerState, Statuses
<1>4. HostIdle \in HostState
  BY <1>1 DEF HostIdle, HostState, Phases
<1>5. NoCall \in CallState
  BY DEF NoCall, CallState
<1>6. QED
  BY <1>1, <1>2, <1>3, <1>4, <1>5 DEF Idle, Normal, NoCall

\* A new command leaves the rest of a tracker's record alone.
LEMMA WithCmdType ==
  ASSUME NEW r \in RelayState, NEW c \in Commands \cup {"none"}
  PROVE  /\ WithCmd(r, c) \in RelayState
         /\ WithCmd(r, c).part = r.part /\ WithCmd(r, c).next = r.next /\ WithCmd(r, c).cmd = c
BY DEF WithCmd, RelayState

\* What esb_ota_relay_fill_ack answers to a tracker, and what it notes of it.
LEMMA FillAckFacts ==
  ASSUME SessionType, TrType, NEW t \in Trackers, NEW n, n \in 0..Total \/ n = None, NEW a, a = FillAck(t, n)
  PROVE  /\ a.r \in RelayState /\ a.r.part = tr[t].part /\ a.r.cmd \in {tr[t].cmd, "none"}
         /\ a.r.next = tr[t].next \/ (n # None /\ a.r.next = n)
         /\ a.ack.k = "data" => n \in 0..Total - 1 /\ n < head /\ a.ack.seq = n /\ tr[t].cmd # "begin"
         /\ a.ack.k = "begin" => tr[t].cmd = "begin" /\ tr[t].part /\ t \notin tomb
         /\ a.ack.k = "abort" => t \in tomb
         /\ tr[t].cmd = "begin" => a.r.next = tr[t].next
         /\ active /\ tr[t].part /\ t \notin tomb /\ tr[t].cmd = "none" /\ n # None => a.r.next = n
<1> DEFINE r == tr[t]
<1>0. r \in RelayState /\ r.cmd \in Commands \cup {"none"} /\ r.next \in 0..Total
  BY DEF TrType, RelayState
<1>1. /\ WithCmd(r, "none") \in RelayState /\ WithCmd(r, "none").part = r.part
      /\ WithCmd(r, "none").next = r.next /\ WithCmd(r, "none").cmd = "none"
  BY <1>0, WithCmdType
<1>2. CASE t \in tomb
  <2>1. a = [ack |-> [k |-> "abort", seq |-> None], r |-> r]
    BY <1>2 DEF FillAck, Ack
  <2>2. a.r = r /\ a.ack.k = "abort"
    BY <2>1
  <2>3. QED
    BY <1>0, <1>2, <2>2
<1>3. CASE t \notin tomb /\ ~(active /\ r.part)
  <2>1. a = [ack |-> [k |-> "none", seq |-> None], r |-> r]
    BY <1>3 DEF FillAck, NoAck, Ack
  <2>2. a.r = r /\ a.ack.k = "none"
    BY <2>1
  <2>3. QED
    BY <1>0, <1>3, <2>2
<1>4. CASE t \notin tomb /\ active /\ r.part
  <2>1. CASE r.cmd # "none" /\ r.late
    <3>1. a = [ack |-> [k |-> "none", seq |-> None], r |-> WithCmd(r, "none")]
      BY <1>4, <2>1 DEF FillAck, NoAck, Ack
    <3>2. a.r = WithCmd(r, "none") /\ a.ack.k = "none"
      BY <3>1
    <3>3. QED
      BY <1>0, <1>1, <2>1, <3>2
  <2>2. CASE r.cmd # "none" /\ ~r.late /\ ~Defers(t, n)
    <3>1. a = [ack |-> [k |-> r.cmd, seq |-> None], r |-> r]
      BY <1>4, <2>2 DEF FillAck, Ack
    <3>2. a.r = r /\ a.ack.k = r.cmd /\ a.ack.k \in Commands
      BY <1>0, <2>2, <3>1
    <3>3. QED
      BY <1>0, <1>4, <2>2, <3>2 DEF Commands
  <2>3. CASE ~(r.cmd # "none" /\ (r.late \/ ~Defers(t, n)))
    <3>1. r.cmd = "none" \/ (r.cmd # "begin" /\ HasEntry(n))
      BY <2>3 DEF Defers
    <3>2. CASE n = None
      <4>1. a = [ack |-> [k |-> "none", seq |-> None], r |-> r]
        BY <1>4, <2>3, <3>2 DEF FillAck, NoAck, Ack
      <4>2. a.r = r /\ a.ack.k = "none"
        BY <4>1
      <4>3. QED
        BY <1>0, <3>2, <4>2
    <3>3. CASE n # None
      <4>1. a = [ack |-> IF HasEntry(n) THEN Ack("data", ring[n % RingSize]) ELSE NoAck,
                 r |-> [r EXCEPT !.next = n]]
        BY <1>4, <2>3, <3>3 DEF FillAck
      <4>2. a.r = [r EXCEPT !.next = n] /\ a.ack = IF HasEntry(n) THEN Ack("data", ring[n % RingSize]) ELSE NoAck
        BY <4>1
      <4>3. /\ a.r \in RelayState /\ a.r.part = r.part /\ a.r.cmd = r.cmd /\ a.r.next = n
        <5>1. n \in 0..Total
          BY <3>3
        <5>2. QED
          BY <1>0, <4>2, <5>1 DEF RelayState
      <4>4. HasEntry(n) => a.ack.k = "data" /\ a.ack.seq = n /\ n < head
        BY <4>2 DEF Ack, HasEntry
      <4>5. ~HasEntry(n) => a.ack.k = "none"
        BY <4>2 DEF NoAck, Ack
      <4>6. n < head => n \in 0..Total - 1
        <5>1. n \in 0..Total /\ head \in 0..Total /\ Total \in Nat
          BY <3>3, OtaAssumption DEF SessionType
        <5>2. QED
          BY <5>1
      <4>7. r.cmd # "begin"
        BY <3>1
      <4>8. QED
        BY <1>0, <3>3, <4>3, <4>4, <4>5, <4>6, <4>7
    <3>4. QED
      BY <3>2, <3>3
  <2>4. QED
    BY <2>1, <2>2, <2>3
<1>5. QED
  BY <1>2, <1>3, <1>4

\* What an acknowledgement does to the progress of a tracker.
LEMMA ReactionFacts ==
  ASSUME TrkType, NEW t \in Trackers, NEW ack, ack.k = "data" => ack.seq \in 0..Total - 1,
         NEW new \in Reactions(t, ack)
  PROVE  /\ new \in TrackerState
         /\ ack.k \notin {"begin", "abort", "data"} => new.need = trk[t].need
         /\ ack.k = "data" => new.need >= trk[t].need
         /\ ack.k \in {"begin", "abort"} => new.need \in {trk[t].need, 0}
         /\ trk[t].st = "idle" /\ ack.k \notin {"begin", "abort"} => new = trk[t]
<1> DEFINE s == trk[t]
<1>0. s \in TrackerState /\ s.need \in 0..Total /\ s.st \in Statuses /\ Total \in Nat /\ s.need \in Int
  <2>1. s \in TrackerState /\ Total \in Nat
    BY OtaAssumption DEF TrkType
  <2>2. QED
    BY <2>1 DEF TrackerState
<1>1. CASE ack.k = "begin" /\ s.st \notin Terminal
  <2>1. new \in {[st |-> st, need |-> 0] : st \in {"receiving", "error"}}
    BY <1>1 DEF Reactions
  <2>2. PICK st \in {"receiving", "error"} : new = [st |-> st, need |-> 0]
    BY <2>1
  <2>3. 0 \in 0..Total /\ st \in Statuses
    BY <1>0 DEF Statuses, Terminal
  <2>4. new \in TrackerState /\ new.need = 0
    BY <2>2, <2>3 DEF TrackerState
  <2>5. QED
    BY <1>1, <2>4
<1>2. CASE ack.k = "abort"
  <2>1. new = Normal
    BY <1>2 DEF Reactions
  <2>2. QED
    BY <1>2, <2>1, StartTypes
<1>3. CASE ack.k = "data" /\ s.st = "receiving"
  <2>1. new = IF s.need = ack.seq THEN [s EXCEPT !.need = @ + 1] ELSE [s EXCEPT !.st = "error"]
    BY <1>3 DEF Reactions
  <2>2. CASE s.need = ack.seq
    <3>1. s.need + 1 \in 0..Total /\ s.need + 1 >= s.need
      BY <1>0, <1>3, <2>2
    <3>2. new \in TrackerState /\ new.need = s.need + 1
      BY <1>0, <2>1, <2>2, <3>1 DEF TrackerState
    <3>3. QED
      BY <1>3, <3>1, <3>2
  <2>3. CASE s.need # ack.seq
    <3>1. new \in TrackerState /\ new.need = s.need
      BY <1>0, <2>1, <2>3 DEF TrackerState, Statuses, Terminal
    <3>2. QED
      BY <1>0, <1>3, <3>1
  <2>4. QED
    BY <2>2, <2>3
<1>4. CASE ack.k = "verify" /\ s.st = "receiving"
  <2>1. new = [s EXCEPT !.st = IF s.need = Total THEN "verify_ok" ELSE "verify_fail"]
    BY <1>4 DEF Reactions
  <2>2. new \in TrackerState /\ new.need = s.need
    BY <1>0, <2>1 DEF TrackerState, Statuses, Terminal
  <2>3. QED
    BY <1>4, <2>2
<1>5. CASE ack.k = "activate" /\ s.st = "verify_ok"
  <2>1. new = [s EXCEPT !.st = "activating"]
    BY <1>5 DEF Reactions
  <2>2. new \in TrackerState /\ new.need = s.need
    BY <1>0, <2>1 DEF TrackerState, Statuses
  <2>3. QED
    BY <1>5, <2>2
<1>6. CASE /\ ~(ack.k = "begin" /\ s.st \notin Terminal) /\ ack.k # "abort"
           /\ ~(ack.k = "data" /\ s.st = "receiving") /\ ~(ack.k = "verify" /\ s.st = "receiving")
           /\ ~(ack.k = "activate" /\ s.st = "verify_ok")
  <2>1. new = s
    BY <1>6 DEF Reactions
  <2>2. QED
    BY <1>0, <2>1
<1>7. QED
  BY <1>1, <1>2, <1>3, <1>4, <1>5, <1>6

\* The host's record after a status report.
LEMMA HearsType ==
  ASSUME HostType, NEW t \in Trackers, NEW st, NEW n \in 0..Total, NEW h, h = Hears(t, st, n)
  PROVE  /\ h \in HostState
         /\ h.phase \in {host.phase, "idle"}
         /\ h.phase = "begin" => /\ host.phase = "begin" /\ h.ids = host.ids /\ h.sent = host.sent
                                 /\ h.seen = host.seen /\ h.todo = host.todo
         /\ host.phase = "begin" => h.phase = "begin"
         /\ h.phase = "stream" =>
              /\ host.phase = "stream" /\ h.sent = host.sent
              /\ h.seen[t] \in {host.seen[t], n} /\ \A u \in Trackers \ {t} : h.seen[u] = host.seen[u]
<1>0. host \in HostState
  BY DEF HostType
<1>1. CASE host.phase = "stream"
  <2>1. CASE st \in Terminal /\ host.ids = {t}
    <3>1. h = HostIdle
      BY <1>1, <2>1 DEF Hears
    <3>2. QED
      BY <1>1, <3>1, StartTypes DEF HostIdle
  <2>2. CASE st \in Terminal /\ host.ids # {t}
    <3>1. h = [host EXCEPT !.ids = @ \ {t}]
      BY <1>1, <2>2 DEF Hears
    <3>2. QED
      BY <1>0, <1>1, <3>1 DEF HostState
  <2>3. CASE st \notin Terminal
    <3>1. h = [host EXCEPT !.seen[t] = n]
      BY <1>1, <2>3 DEF Hears
    <3>2. h \in HostState /\ h.phase = host.phase /\ h.sent = host.sent /\ h.seen = [host.seen EXCEPT ![t] = n]
      BY <1>0, <3>1 DEF HostState
    <3>3. host.seen \in [Trackers -> 0..Total]
      BY <1>0 DEF HostState
    <3>4. h.seen[t] = n /\ \A u \in Trackers \ {t} : h.seen[u] = host.seen[u]
      BY <3>2, <3>3
    <3>5. QED
      BY <1>1, <3>2, <3>4
  <2>4. QED
    BY <2>1, <2>2, <2>3
<1>2. CASE host.phase # "stream"
  <2> DEFINE ok  == IF st \in Good(host.phase) THEN host.ok \cup {t} ELSE host.ok
             out == IF st \in Terminal \ Good(host.phase) THEN host.out \cup {t} ELSE host.out
  <2>0. ok \in SUBSET Trackers /\ out \in SUBSET Trackers
    BY <1>0 DEF HostState
  <2>1. h = host \/ h = [host EXCEPT !.ok = ok, !.out = out]
    BY <1>2 DEF Hears
  <2> HIDE DEF ok, out
  <2>2. /\ h \in HostState /\ h.phase = host.phase /\ h.ids = host.ids /\ h.sent = host.sent
        /\ h.seen = host.seen /\ h.todo = host.todo
    BY <1>0, <2>0, <2>1 DEF HostState
  <2>3. QED
    BY <1>2, <2>2
<1>3. QED
  BY <1>1, <1>2
-----------------------------------------------------------------------------
(* Each step keeps the session sound *)

\* Init establishes the invariant.
LEMMA InitSession == Init => IInv
<1> SUFFICES ASSUME Init PROVE IInv
  OBVIOUS
<1>1. SessionType
  <2>1. 0 \in 0..Total /\ 0 \in 0..Total - 1
    BY OtaAssumption
  <2>2. [k \in 0..RingSize-1 |-> 0] \in [0..RingSize - 1 -> 0..Total - 1]
    BY <2>1
  <2>3. QED
    BY <2>1, <2>2 DEF Init, SessionType
<1>2. TrType /\ HostType /\ TrkType
  BY StartTypes DEF Init, TrType, HostType, TrkType
<1>3. RadioType /\ Calling /\ RadioExclusive
  BY StartTypes DEF Init, RadioType, Calling, RadioExclusive
<1>4. SessionShape
  <2>1. Cardinality({}) = 0
    BY FS_EmptySet
  <2>2. \A t \in Trackers : ~tr[t].part
    BY StartTypes DEF Init
  <2>3. QED
    BY <2>1, <2>2, OtaAssumption DEF Init, SessionShape
<1>5. CancelledIsOut
  BY DEF Init, CancelledIsOut
<1>6. QED
  BY <1>1, <1>2, <1>3, <1>4, <1>5 DEF IInv, Types

\* A set of targets is finite, and smaller when one goes.
LEMMA TargetsCount ==
  ASSUME NEW S \in SUBSET Trackers, NEW T \in SUBSET S
  PROVE  /\ IsFiniteSet(S) /\ Cardinality(S) \in Nat /\ Cardinality(T) \in Nat
         /\ Cardinality(T) <= Cardinality(S)
<1>1. IsFiniteSet(S)
  BY OtaAssumption, FS_Subset
<1>2. IsFiniteSet(T) /\ Cardinality(T) <= Cardinality(S)
  BY <1>1, FS_Subset
<1>3. QED
  BY <1>1, <1>2, FS_CardinalityType

\* A step that leaves the session and its targets alone.
LEMMA ShapeFrame ==
  ASSUME SessionShape, UNCHANGED <<active, targets, head>>, \A t \in Trackers : tr'[t].part = tr[t].part
  PROVE  SessionShape'
BY DEF SessionShape

\* remove_target_locked, with the tracker's own flag.
LEMMA RemoveShape ==
  ASSUME SessionType, TrType, SessionShape, NEW t \in Trackers, RemoveTargets({t}),
         ~tr'[t].part, \A u \in Trackers \ {t} : tr'[u].part = tr[u].part
  PROVE  /\ SessionShape' /\ targets' = targets \ {t} /\ targets' \in SUBSET Trackers
         /\ active' \in BOOLEAN /\ head' \in {0, head} /\ head' \in 0..Total
         /\ active' => active /\ head' = head
<1>1. /\ targets' = targets \ {t} /\ active' = (active /\ targets \ {t} # {})
      /\ head' = IF targets \ {t} = {} /\ targets # {} THEN 0 ELSE head
  BY DEF RemoveTargets
<1>2. targets \in SUBSET Trackers /\ active \in BOOLEAN /\ head \in 0..Total /\ 0 \in 0..Total
  BY StartTypes DEF SessionType
<1>3. active' <=> targets' # {}
  BY <1>1, <1>2 DEF SessionShape
<1>4. targets' = {u \in Trackers : tr'[u].part}
  BY <1>1 DEF SessionShape
<1>5. Cardinality(targets') <= MaxParallel
  <2>1. Cardinality(targets) \in Nat /\ Cardinality(targets') \in Nat /\ Cardinality(targets') <= Cardinality(targets)
    BY <1>1, <1>2, TargetsCount
  <2>2. QED
    BY <2>1, OtaAssumption DEF SessionShape
<1>6. ~active' => head' = 0
  BY <1>1, <1>2 DEF SessionShape
<1>7. QED
  BY <1>1, <1>2, <1>3, <1>4, <1>5, <1>6 DEF SessionShape

\* Steps of the host and of a tracker that touch neither relay nor radio.
LEMMA OutsideStep ==
  ASSUME IInv, UNCHANGED <<relayVars, busy, call>>, HostType', TrkType'
  PROVE  IInv'
BY DEF relayVars, IInv, Types, SessionType, TrType, RadioType, Calling, SessionShape, RadioExclusive,
       CancelledIsOut

\* The host's own steps.
LEMMA HostSteps ==
  ASSUME IInv, HostStart \/ HostResends \/ HostMovesOn
  PROVE  IInv'
<1>0. host \in HostState /\ TrkType
  BY DEF IInv, Types, HostType
<1>1. UNCHANGED <<relayVars, busy, call>> /\ TrkType'
  BY <1>0 DEF HostStart, HostResends, HostMovesOn, TrkType
<1>2. HostType'
  <2>1. CASE HostStart
    <3>1. PICK ids \in SUBSET Trackers \ {{}} :
            host' = [HostIdle EXCEPT !.phase = "begin", !.ids = ids, !.todo = ids]
      BY <2>1 DEF HostStart
    <3>2. QED
      BY <3>1, StartTypes DEF HostType, HostState, Phases
  <2>2. CASE HostResends
    <3>1. host' = [host EXCEPT !.todo = Waiting] /\ Waiting \in SUBSET Trackers
      BY <1>0, <2>2 DEF HostResends, Waiting, HostState
    <3>2. QED
      BY <1>0, <3>1 DEF HostType, HostState
  <2>3. CASE HostMovesOn
    <3>1. PICK next \in Phases :
            host' = [host EXCEPT !.phase = next, !.ids = Keep, !.todo = IF next = "stream" THEN {} ELSE Keep,
                                 !.ok = {}, !.out = {}]
      BY <2>3 DEF HostMovesOn, Phases
    <3>2. Keep \in SUBSET Trackers
      BY <1>0 DEF Keep, HostState
    <3>3. (IF next = "stream" THEN {} ELSE Keep) \in SUBSET Trackers
      BY <3>2
    <3>4. QED
      BY <1>0, <3>1, <3>2, <3>3 DEF HostType, HostState
  <2>4. QED
    BY <2>1, <2>2, <2>3
<1>3. QED
  BY <1>1, <1>2, OutsideStep

\* A tracker's own steps.
LEMMA TrackerSteps ==
  ASSUME IInv, NEW t \in Trackers, TrackerDone(t) \/ TrackerFails(t)
  PROVE  IInv'
<1>0. trk \in [Trackers -> TrackerState] /\ HostType
  BY DEF IInv, Types, TrkType
<1>1. UNCHANGED <<relayVars, busy, call>> /\ HostType'
  BY <1>0 DEF TrackerDone, TrackerFails, HostType
<1>2. TrkType'
  BY <1>0, StartTypes DEF TrackerDone, TrackerFails, TrkType, TrackerState, Statuses, Terminal
<1>3. QED
  BY <1>1, <1>2, OutsideStep

\* BEGIN and its claim of the radio.
LEMMA CallSteps ==
  ASSUME IInv, BeginRadio \/ BeginEnd \/ RadioOther \/ (\E t \in Trackers : Begin(t) /\ HostType')
  PROVE  IInv'
<1>0. call \in CallState /\ busy \in SUBSET {"relay", "other"} /\ active \in BOOLEAN
  BY DEF IInv, Types, RadioType, SessionType
<1>1. UNCHANGED relayVars /\ TrkType' /\ HostType'
  BY DEF IInv, Types, HostType, TrkType, BeginRadio, BeginEnd, RadioOther, Begin
<1>2. /\ call.step # "idle" => call.t \in Trackers
      /\ call.acq => call.step \in {"commit", "end"} /\ "relay" \in busy
      /\ "other" \in busy => ~active /\ "relay" \notin busy
      /\ "relay" \in busy => call.acq
  BY DEF IInv, Calling, RadioExclusive
<1>3. active' = active
  BY <1>1 DEF relayVars
<1>4. RadioType' /\ Calling' /\ RadioExclusive'
  <2>1. CASE BeginRadio
    <3>1. CASE RadioOpen
      <4>1. /\ call' = [call EXCEPT !.step = "commit", !.acq = TRUE] /\ busy' = {"relay"}
            /\ call.t \in Trackers
        BY <1>2, <2>1, <3>1 DEF BeginRadio, RadioOpen
      <4>2. call' \in CallState /\ call'.step = "commit" /\ call'.acq = TRUE /\ call'.t = call.t
        BY <1>0, <4>1 DEF CallState
      <4>3. QED
        BY <4>1, <4>2 DEF RadioType, Calling, RadioExclusive
    <3>2. CASE ~RadioOpen
      <4>1. call' = NoCall /\ busy' = busy /\ ~call.acq
        BY <1>2, <2>1, <3>2 DEF BeginRadio
      <4>2. QED
        BY <1>0, <1>2, <1>3, <4>1, StartTypes DEF RadioType, Calling, RadioExclusive
    <3>3. QED
      BY <3>1, <3>2
  <2>2. CASE BeginEnd
    <3>1. call' = NoCall /\ busy' = (IF call.acq THEN busy \ {"relay"} ELSE busy)
      BY <2>2 DEF BeginEnd
    <3>2. QED
      BY <1>0, <1>2, <1>3, <3>1, StartTypes DEF RadioType, Calling, RadioExclusive
  <2>3. CASE RadioOther
    <3>1. call = NoCall /\ call' = call /\ "relay" \notin busy
      BY <1>2, <2>3, StartTypes DEF RadioOther, HidFree
    <3>2. (RadioOpen /\ busy' = busy \cup {"other"}) \/ busy' = busy \ {"other"}
      BY <2>3 DEF RadioOther
    <3>3. QED
      BY <1>0, <1>2, <1>3, <3>1, <3>2, StartTypes DEF RadioOpen, RadioType, Calling, RadioExclusive
  <2>4. ASSUME NEW t \in Trackers, Begin(t)
        PROVE  RadioType' /\ Calling' /\ RadioExclusive'
    <3>1. call = NoCall /\ busy' = busy /\ "relay" \notin busy
      BY <1>2, <2>4, StartTypes DEF Begin, HidFree
    <3>2. call' = NoCall \/ call' = [step |-> IF active THEN "commit" ELSE "radio", t |-> t, acq |-> FALSE]
      BY <2>4 DEF Begin
    <3>3. call' \in CallState /\ ~call'.acq /\ (call'.step # "idle" => call'.t \in Trackers)
      <4>1. CASE call' = NoCall
        BY <4>1, StartTypes
      <4>2. CASE call' # NoCall
        <5>1. PICK s \in {"commit", "radio"} : call' = [step |-> s, t |-> t, acq |-> FALSE]
          BY <3>2, <4>2
        <5>2. QED
          BY <5>1 DEF CallState
      <4>3. QED
        BY <4>1, <4>2
    <3>4. QED
      BY <1>0, <1>2, <1>3, <3>1, <3>3 DEF RadioType, Calling, RadioExclusive
  <2>5. QED
    BY <2>1, <2>2, <2>3, <2>4
<1>5. SessionType' /\ TrType' /\ SessionShape' /\ CancelledIsOut'
  BY <1>1 DEF IInv, Types, relayVars, SessionType, TrType, SessionShape, CancelledIsOut
<1>6. QED
  BY <1>1, <1>4, <1>5 DEF IInv, Types

\* Steps that leave the radio and the BEGIN in progress alone, and start no session.
LEMMA SessionStep ==
  ASSUME IInv, UNCHANGED <<busy, call>>, active' => active, SessionType', TrType', HostType', TrkType',
         SessionShape', CancelledIsOut'
  PROVE  IInv'
BY DEF IInv, Types, RadioType, Calling, RadioExclusive

\* A tombstone or a command expires, and VERIFY and ACTIVATE are noted.
LEMMA NoteSteps ==
  ASSUME IInv, NEW t \in Trackers,
         TombExpires(t) \/ CmdExpires(t) \/ (\E c \in Commands \cup {"none"} : Command(t, c) /\ HostType')
  PROVE  IInv'
<1>0. SessionType /\ tr \in [Trackers -> RelayState]
  BY DEF IInv, Types, TrType
<1>1. /\ UNCHANGED <<busy, call, active, targets, head, ring>> /\ tomb' \subseteq tomb
      /\ TrkType' /\ HostType'
  BY DEF IInv, Types, TombExpires, CmdExpires, Command, TrkType, HostType
<1>2. tr' \in [Trackers -> RelayState] /\ \A u \in Trackers : tr'[u].part = tr[u].part
  <2>1. CASE TombExpires(t)
    BY <1>0, <2>1 DEF TombExpires
  <2>2. CASE CmdExpires(t)
    BY <1>0, <2>2 DEF CmdExpires, RelayState
  <2>3. ASSUME NEW c \in Commands \cup {"none"}, Command(t, c)
        PROVE  tr' \in [Trackers -> RelayState] /\ \A u \in Trackers : tr'[u].part = tr[u].part
    <3>1. WithCmd(tr[t], c) \in RelayState /\ WithCmd(tr[t], c).part = tr[t].part
      BY <1>0, WithCmdType
    <3>2. tr' = tr \/ tr' = [tr EXCEPT ![t] = WithCmd(tr[t], c)]
      BY <2>3 DEF Command
    <3>3. QED
      BY <1>0, <3>1, <3>2
  <2>4. QED
    BY <2>1, <2>2, <2>3
<1>3. SessionShape'
  BY <1>1, <1>2, ShapeFrame DEF IInv
<1>4. SessionType' /\ CancelledIsOut'
  BY <1>0, <1>1 DEF IInv, SessionType, CancelledIsOut
<1>5. QED
  BY <1>1, <1>2, <1>3, <1>4, SessionStep DEF TrType

\* DATA: the packet goes into the ring of a session.
LEMMA DataStep ==
  ASSUME IInv, HostData
  PROVE  IInv' /\ UNCHANGED <<targets, tr, trk>>
<1>0. host \in HostState /\ SessionType /\ host.sent \in 0..Total /\ host.sent < Total /\ Total \in Nat
  <2>1. host \in HostState /\ SessionType /\ Total \in Nat /\ host.sent < Total
    BY OtaAssumption DEF IInv, Types, HostType, HostData, MoreToSend
  <2>2. QED
    BY <2>1 DEF HostState
<1>1. /\ UNCHANGED <<busy, call, active, targets, tr, tomb, trk>> /\ host' = [host EXCEPT !.sent = @ + 1]
      /\ \/ UNCHANGED <<ring, head>>
         \/ /\ active /\ ring' = [ring EXCEPT ![host.sent % RingSize] = host.sent]
            /\ head' = IF host.sent + 1 > head THEN host.sent + 1 ELSE head
  BY DEF HostData, Data
<1>2. host.sent \in 0..Total - 1 /\ host.sent + 1 \in 0..Total
  BY <1>0
<1>3. HostType'
  BY <1>0, <1>1, <1>2 DEF HostType, HostState
<1>4. SessionType'
  BY <1>0, <1>1, <1>2 DEF SessionType
<1>5. TrType' /\ TrkType' /\ CancelledIsOut'
  BY <1>1 DEF IInv, Types, TrType, TrkType, CancelledIsOut
<1>6. SessionShape'
  <2>1. ~active => head' = head
    BY <1>1
  <2>2. QED
    BY <1>1, <2>1 DEF IInv, SessionShape
<1>7. QED
  BY <1>1, <1>3, <1>4, <1>5, <1>6, SessionStep

\* The lock section of cancel_target; the roster forgets a tracker.
LEMMA RemoveSteps ==
  ASSUME IInv, NEW t \in Trackers, (CancelTarget(t) /\ HostType') \/ Forget(t)
  PROVE  /\ IInv' /\ targets' = targets \ {t} /\ (active' => active /\ head' = head) /\ ring' = ring
         /\ \A u \in Trackers \ {t} : tr'[u] = tr[u] /\ trk'[u] = trk[u]
<1>0. SessionType /\ TrType /\ SessionShape /\ TrkType
  BY DEF IInv, Types
<1>1. /\ RemoveTargets({t}) /\ UNCHANGED <<ring, busy, call>>
      /\ tomb' \in {tomb \cup {t}, tomb \ {t}} /\ HostType'
  BY DEF CancelTarget, Forget, IInv, Types, HostType
<1>2. TrType' /\ ~tr'[t].part /\ \A u \in Trackers \ {t} : tr'[u] = tr[u]
  <2>1. PICK r \in RelayState : tr' = [tr EXCEPT ![t] = r] /\ ~r.part
    <3>1. CASE Forget(t)
      BY <3>1, StartTypes DEF Forget
    <3>2. CASE CancelTarget(t)
      <4>1. tr' = [tr EXCEPT ![t] = [tr[t] EXCEPT !.part = FALSE]]
        BY <3>2 DEF CancelTarget
      <4>2. [tr[t] EXCEPT !.part = FALSE] \in RelayState /\ ~[tr[t] EXCEPT !.part = FALSE].part
        BY <1>0 DEF TrType, RelayState
      <4>3. QED
        BY <4>1, <4>2
    <3>3. QED
      BY <3>1, <3>2
  <2>2. QED
    BY <1>0, <2>1 DEF TrType
<1>3. TrkType' /\ \A u \in Trackers \ {t} : trk'[u] = trk[u]
  BY <1>0, StartTypes DEF CancelTarget, Forget, TrkType
<1>4. /\ SessionShape' /\ targets' = targets \ {t} /\ targets' \in SUBSET Trackers
      /\ active' \in BOOLEAN /\ head' \in 0..Total /\ (active' => active /\ head' = head)
  BY <1>0, <1>1, <1>2, RemoveShape
<1>5. SessionType' /\ CancelledIsOut'
  BY <1>0, <1>1, <1>4 DEF IInv, SessionType, CancelledIsOut
<1>6. QED
  BY <1>1, <1>2, <1>3, <1>4, <1>5, SessionStep

\* The lock section of cancel_all_targets.
LEMMA CancelAllStep ==
  ASSUME IInv, CancelAll, HostType'
  PROVE  IInv' /\ targets' = {} /\ ~active' /\ UNCHANGED <<ring, trk>>
<1>0. SessionType /\ TrkType
  BY DEF IInv, Types
<1>1. /\ tomb' = tomb \cup targets /\ ~active' /\ active' \in BOOLEAN /\ targets' = {} /\ head' = 0
      /\ tr' = [t \in Trackers |-> Idle] /\ UNCHANGED <<ring, busy, call, trk>>
  BY DEF CancelAll
<1>2. SessionType' /\ TrType' /\ TrkType' /\ CancelledIsOut'
  BY <1>0, <1>1, StartTypes DEF SessionType, TrType, TrkType, CancelledIsOut
<1>3. SessionShape'
  <2>1. Cardinality(targets') = 0
    BY <1>1, FS_EmptySet
  <2>2. \A t \in Trackers : ~tr'[t].part
    BY <1>1, StartTypes
  <2>3. QED
    BY <1>1, <2>1, <2>2, OtaAssumption DEF SessionShape
<1>4. QED
  BY <1>1, <1>2, <1>3, SessionStep

\* The commit section of BEGIN.
LEMMA BeginCommitStep ==
  ASSUME IInv, BeginCommit
  PROVE  IInv'
<1>0. /\ SessionType /\ TrType /\ TrkType /\ HostType /\ call \in CallState /\ call.step = "commit"
      /\ busy \in SUBSET {"relay", "other"} /\ call.t \in Trackers /\ SessionShape
  BY DEF IInv, Types, RadioType, Calling, BeginCommit
<1>1. UNCHANGED <<busy, host, trk>> /\ TrkType' /\ HostType'
  BY <1>0 DEF BeginCommit, TrkType, HostType
<1> DEFINE t == call.t
           full == ~tr[t].part /\ Cardinality(targets) >= MaxParallel
<1>2. CASE full \/ (~active /\ ~call.acq)
  <2>1. call' = [call EXCEPT !.step = IF full THEN "end" ELSE "radio"] /\ UNCHANGED relayVars
    BY <1>2 DEF BeginCommit
  <2>2. call' \in CallState /\ call'.t = call.t /\ call'.acq = call.acq /\ call'.step \in {"end", "radio"}
        /\ (call.acq => call'.step = "end")
    <3>1. call.acq => full
      BY <1>2
    <3> HIDE DEF full
    <3>2. QED
      BY <1>0, <2>1, <3>1 DEF CallState
  <2>3. RadioType' /\ Calling' /\ RadioExclusive'
    BY <1>0, <1>1, <2>1, <2>2 DEF IInv, RadioType, Calling, RadioExclusive, relayVars
  <2>4. SessionType' /\ TrType' /\ SessionShape' /\ CancelledIsOut'
    BY <2>1 DEF IInv, Types, relayVars, SessionType, TrType, SessionShape, CancelledIsOut
  <2>5. QED
    BY <1>1, <2>3, <2>4 DEF IInv, Types
<1>3. CASE ~full /\ (active \/ call.acq)
  <2> DEFINE r == WithCmd([Idle EXCEPT !.part = TRUE], "begin")
  <2>1. r \in RelayState /\ r.part
    <3>1. [Idle EXCEPT !.part = TRUE] \in RelayState /\ [Idle EXCEPT !.part = TRUE].part
      BY StartTypes DEF RelayState
    <3>2. QED
      BY <3>1, WithCmdType DEF Commands
  <2>2. /\ active' = TRUE /\ tomb' = tomb \ {t} /\ ring' = ring /\ call' = [call EXCEPT !.step = "end"]
    BY <1>3 DEF BeginCommit, Unmarked
  <2>3. /\ ~active => head' = 0 /\ targets' = {t} /\ tr' = [[u \in Trackers |-> Idle] EXCEPT ![t] = r]
        /\ active => head' = head /\ targets' = targets \cup {t} /\ tr' = [tr EXCEPT ![t] = r]
    <3>1. CASE active
      BY <1>3, <3>1 DEF BeginCommit
    <3>2. CASE ~active
      BY <1>3, <3>2 DEF BeginCommit, Fresh
    <3>3. QED
      BY <3>1, <3>2
  <2> HIDE DEF r
  <2>4. call' \in CallState /\ call'.t = call.t /\ call'.acq = call.acq /\ call'.step = "end"
    BY <1>0, <2>2 DEF CallState
  <2>5. RadioType' /\ Calling'
    BY <1>0, <1>1, <2>4 DEF IInv, RadioType, Calling
  <2>6. RadioExclusive'
    BY <1>0, <1>1, <1>3, <2>4 DEF IInv, Calling, RadioExclusive
  <2>7. SessionType' /\ CancelledIsOut'
    BY <1>0, <2>2, <2>3, StartTypes DEF IInv, SessionType, CancelledIsOut
  <2>8. TrType' /\ targets' = {u \in Trackers : tr'[u].part}
    <3>1. CASE active
      BY <1>0, <2>1, <2>3, <3>1 DEF TrType, SessionShape
    <3>2. CASE ~active
      BY <1>0, <2>1, <2>3, <3>2, StartTypes DEF TrType
    <3>3. QED
      BY <3>1, <3>2
  <2>9. Cardinality(targets') <= MaxParallel
    <3>0. MaxParallel \in Nat \ {0} /\ targets \in SUBSET Trackers
      BY <1>0, OtaAssumption DEF SessionType
    <3>1. CASE ~active
      <4>1. Cardinality(targets') = 1
        BY <2>3, <3>1, FS_Singleton
      <4>2. QED
        BY <3>0, <4>1
    <3>2. CASE active /\ t \in targets
      <4>1. targets' = targets
        BY <2>3, <3>2
      <4>2. QED
        BY <1>0, <4>1 DEF SessionShape
    <3>3. CASE active /\ t \notin targets
      <4>1. targets' = targets \cup {t} /\ ~tr[t].part
        BY <1>0, <2>3, <3>3 DEF SessionShape
      <4>2. IsFiniteSet(targets) /\ Cardinality(targets) \in Nat
        BY <3>0, TargetsCount
      <4>3. Cardinality(targets') = Cardinality(targets) + 1
        BY <3>3, <4>1, <4>2, FS_AddElement
      <4>4. ~(Cardinality(targets) >= MaxParallel)
        BY <1>3, <4>1
      <4>5. QED
        BY <3>0, <4>2, <4>3, <4>4
    <3>4. QED
      BY <3>1, <3>2, <3>3
  <2>10. SessionShape'
    BY <2>2, <2>3, <2>8, <2>9 DEF SessionShape
  <2>11. QED
    BY <1>1, <2>5, <2>6, <2>7, <2>8, <2>10 DEF IInv, Types
<1>4. QED
  BY <1>2, <1>3

\* A PING of a target.
LEMMA PingStep ==
  ASSUME IInv, NEW t \in Trackers, NEW heard \in BOOLEAN, Ping(t, heard)
  PROVE  IInv'
<1>0. SessionType /\ TrType /\ TrkType /\ HostType
  BY DEF IInv, Types
<1> DEFINE a == FillAck(t, None)
<1>1. /\ tr' = [tr EXCEPT ![t] = a.r] /\ Delivers(t, a.ack, heard)
      /\ UNCHANGED <<active, targets, head, ring, tomb, busy, call, host>>
  BY DEF Ping
<1>2. /\ a.r \in RelayState /\ a.r.part = tr[t].part
      /\ a.ack.k = "data" => None \in 0..Total - 1 /\ a.ack.seq = None
  BY <1>0, FillAckFacts
<1> HIDE DEF a
<1>3. TrkType'
  <2>1. PICK new \in IF heard THEN Reactions(t, a.ack) ELSE {trk[t]} : trk' = [trk EXCEPT ![t] = new]
    BY <1>1 DEF Delivers
  <2>2. new \in TrackerState
    <3>1. CASE heard
      BY <1>0, <1>2, <2>1, <3>1, ReactionFacts
    <3>2. CASE ~heard
      BY <1>0, <2>1, <3>2 DEF TrkType
    <3>3. QED
      BY <3>1, <3>2
  <2>3. QED
    BY <1>0, <2>1, <2>2 DEF TrkType
<1>4. TrType' /\ \A u \in Trackers : tr'[u].part = tr[u].part
  BY <1>0, <1>1, <1>2 DEF TrType
<1>5. SessionShape'
  BY <1>1, <1>4, ShapeFrame DEF IInv
<1>6. SessionType' /\ CancelledIsOut' /\ HostType'
  BY <1>0, <1>1 DEF IInv, SessionType, CancelledIsOut, HostType
<1>7. QED
  BY <1>1, <1>3, <1>4, <1>5, <1>6, SessionStep

\* A status packet.
LEMMA StatusStep ==
  ASSUME IInv, NEW t \in Trackers, NEW heard \in BOOLEAN, NEW reported \in BOOLEAN, Status(t, heard, reported)
  PROVE  IInv'
<1>0. SessionType /\ TrType /\ TrkType /\ HostType /\ SessionShape
  BY DEF IInv, Types
<1> DEFINE st == trk[t].st
           n == trk[t].need
           a == FillAck(t, n)
           r == IF Confirms(a.r.cmd, st) THEN WithCmd(a.r, "none") ELSE a.r
<1>1. /\ Delivers(t, a.ack, heard) /\ tr' = [tr EXCEPT ![t] = [r EXCEPT !.part = r.part /\ ~Ends(st)]]
      /\ IF Ends(st) /\ r.part THEN RemoveTargets({t}) ELSE UNCHANGED <<active, targets, head>>
      /\ host' = IF reported THEN Hears(t, st, n) ELSE host
      /\ UNCHANGED <<ring, tomb, busy, call>>
  BY DEF Status
<1>2. n \in 0..Total
  BY <1>0 DEF TrkType, TrackerState
<1>3. /\ a.r \in RelayState /\ a.r.part = tr[t].part
      /\ a.ack.k = "data" => a.ack.seq \in 0..Total - 1
  BY <1>0, <1>2, FillAckFacts
<1> HIDE DEF a, st, n
<1>4. r \in RelayState /\ r.part = tr[t].part
  BY <1>3, WithCmdType
<1> HIDE DEF r
<1>5. TrkType'
  <2>1. PICK new \in IF heard THEN Reactions(t, a.ack) ELSE {trk[t]} : trk' = [trk EXCEPT ![t] = new]
    BY <1>1 DEF Delivers
  <2>2. new \in TrackerState
    <3>1. CASE heard
      BY <1>0, <1>3, <2>1, <3>1, ReactionFacts
    <3>2. CASE ~heard
      BY <1>0, <2>1, <3>2 DEF TrkType
    <3>3. QED
      BY <3>1, <3>2
  <2>3. QED
    BY <1>0, <2>1, <2>2 DEF TrkType
<1>6. HostType'
  BY <1>0, <1>1, <1>2, HearsType DEF HostType
<1>7. TrType' /\ (tr'[t].part <=> tr[t].part /\ ~Ends(st)) /\ \A u \in Trackers \ {t} : tr'[u] = tr[u]
  <2>1. (r.part /\ ~Ends(st)) \in BOOLEAN
    OBVIOUS
  <2>2. QED
    BY <1>0, <1>1, <1>4, <2>1 DEF TrType, RelayState
<1>8. SessionShape' /\ SessionType' /\ CancelledIsOut' /\ (active' => active)
  <2>1. CASE Ends(st) /\ r.part
    <3>1. /\ SessionShape' /\ targets' = targets \ {t} /\ targets' \in SUBSET Trackers
          /\ active' \in BOOLEAN /\ head' \in 0..Total /\ (active' => active)
      BY <1>0, <1>1, <1>7, <2>1, RemoveShape
    <3>2. QED
      BY <1>0, <1>1, <3>1 DEF IInv, SessionType, CancelledIsOut
  <2>2. CASE ~(Ends(st) /\ r.part)
    <3>1. UNCHANGED <<active, targets, head>>
      BY <1>1, <2>2
    <3>2. (tr'[t].part <=> tr[t].part) /\ tr[t].part \in BOOLEAN /\ tr'[t].part \in BOOLEAN
      BY <1>0, <1>4, <1>7, <2>2 DEF TrType, RelayState
    <3>3. \A u \in Trackers : tr'[u].part = tr[u].part
      BY <1>7, <3>2
    <3>4. SessionShape'
      BY <1>0, <3>1, <3>3, ShapeFrame
    <3>5. QED
      BY <1>0, <1>1, <3>1, <3>4 DEF IInv, SessionType, CancelledIsOut
  <2>3. QED
    BY <2>1, <2>2
<1>9. QED
  BY <1>1, <1>5, <1>6, <1>7, <1>8, SessionStep

\* Every step of the relay, its host, its trackers and its surroundings.
LEMMA StepSession == IInv /\ [Next]_vars => IInv'
<1> SUFFICES ASSUME IInv, [Next]_vars PROVE IInv'
  OBVIOUS
<1>0. host \in HostState
  BY DEF IInv, Types, HostType
<1>1. CASE UNCHANGED vars
  BY <1>1
  DEF vars, sysVars, relayVars, IInv, Types, SessionType, TrType, RadioType, HostType, TrkType, Calling,
      SessionShape, RadioExclusive, CancelledIsOut
<1>2. CASE HostEnds \/ HostInterrupted
  <2>1. host' = HostIdle /\ CancelAll
    BY <1>2 DEF HostEnds, HostInterrupted
  <2>2. QED
    BY <2>1, CancelAllStep, StartTypes DEF HostType
<1>3. CASE ConsoleAbort
  <2>1. HostType'
    BY <1>0, <1>3 DEF ConsoleAbort, HostType
  <2>2. QED
    BY <1>3, <2>1, CancelAllStep, RemoveSteps DEF ConsoleAbort
<1>4. ASSUME NEW t \in Trackers, HostSends(t)
      PROVE  IInv'
  <2>1. HostType'
    BY <1>0, <1>4 DEF HostSends, HostType, HostState
  <2>2. CASE host.phase = "begin"
    BY <1>4, <2>1, <2>2, CallSteps DEF HostSends
  <2>3. CASE host.phase # "begin"
    <3>1. Step(host.phase) \in Commands \cup {"none"}
      BY DEF Step, Commands
    <3>2. QED
      BY <1>4, <2>1, <2>3, <3>1, NoteSteps DEF HostSends
  <2>4. QED
    BY <1>4, <2>2, <2>3
<1>5. ASSUME NEW t \in Trackers,
             \/ TombExpires(t) \/ TrackerDone(t) \/ Forget(t) \/ CmdExpires(t) \/ TrackerFails(t)
             \/ \E h, r \in BOOLEAN : Ping(t, h) \/ Status(t, h, r)
      PROVE  IInv'
  BY <1>5, NoteSteps, TrackerSteps, RemoveSteps, PingStep, StatusStep
<1>6. CASE HidWork \/ RadioOther
  BY <1>6, CallSteps, BeginCommitStep DEF HidWork
<1>7. CASE HostStart \/ HostResends \/ HostMovesOn \/ HostData
  BY <1>7, HostSteps, DataStep
<1>8. QED
  BY <1>1, <1>2, <1>3, <1>4, <1>5, <1>6, <1>7 DEF Next, Works, Disturbed, Host

\* The inductive invariant of the session holds throughout.
LEMMA Session == Spec => []IInv
<1>1. QED
  BY InitSession, StepSession, PTL DEF Spec

\* The session, its targets, its tombstones and its claim of the radio agree in every
\* state, whatever the host, the radio, the console and the roster do (esb_ota.c).
THEOREM SessionIsSound == Spec => []SessionSound
<1>1. IInv => SessionSound
  <2> SUFFICES ASSUME IInv PROVE SessionSound
    OBVIOUS
  <2>1. SessionType /\ TrType /\ RadioType /\ TrkType
    BY DEF IInv, Types
  <2>2. call.step \in {"idle", "radio", "commit", "end"}
    BY <2>1 DEF RadioType, CallState
  <2>3. TypeOK
    BY <2>1, <2>2 DEF TypeOK, SessionType, TrType, RadioType, TrkType, RelayState, TrackerState
  <2>4. QED
    BY <2>3 DEF IInv, SessionSound
<1>2. QED
  BY <1>1, Session, PTL

-----------------------------------------------------------------------------
(* Each step keeps the ring in step *)

\* The numbers that the ring is about.
LEMMA Numbers ==
  ASSUME IInv
  PROVE  /\ head \in Nat /\ host.sent \in Nat
         /\ \A t \in Trackers : tr[t].next \in Nat /\ trk[t].need \in Nat /\ host.seen[t] \in Nat
         /\ targets \in SUBSET Trackers
<1>1. head \in Nat /\ targets \in SUBSET Trackers /\ host \in HostState
  BY DEF IInv, Types, SessionType, HostType
<1>2. host.sent \in 0..Total /\ host.seen \in [Trackers -> 0..Total]
  BY <1>1 DEF HostState
<1>3. ASSUME NEW t \in Trackers PROVE tr[t].next \in 0..Total /\ trk[t].need \in 0..Total
  BY DEF IInv, Types, TrType, TrkType, RelayState, TrackerState
<1>4. QED
  BY <1>1, <1>2, <1>3

\* Nothing is lost from the ring by a step that writes no packet.
LEMMA RingFrame ==
  ASSUME IInv, IInv', Retransmittable, ring' = ring, ~dropped' => ~dropped, targets' \subseteq targets,
         active' => head' = head, \A u \in targets' : tr'[u].next >= tr[u].next
  PROVE  Retransmittable'
<1> SUFFICES ASSUME ~dropped', NEW u \in targets', NEW n \in tr'[u].next .. head' - 1
             PROVE  ring'[n % RingSize] = n
  BY DEF Retransmittable
<1>1. u \in targets /\ u \in Trackers /\ head' = head
  BY Numbers DEF IInv, SessionShape
<1>2. tr[u].next \in Nat /\ head \in Nat
  BY <1>1, Numbers
<1>3. tr'[u].next \in Nat
  <2>1. tr'[u] \in RelayState
    BY <1>1 DEF IInv, Types, TrType
  <2>2. QED
    BY <2>1 DEF RelayState
<1>4. n \in tr[u].next .. head - 1
  BY <1>1, <1>2, <1>3
<1>5. QED
  BY <1>1, <1>4 DEF Retransmittable

\* The steps that neither commit a BEGIN, nor move a packet, nor enter a phase that
\* the ring is used in.
LEMMA QuietStep ==
  ASSUME IInv, IInv', RInv, Beginning', ring' = ring, dropped' = dropped, targets' \subseteq targets,
         active' => active /\ head' = head,
         \A u \in targets' : tr'[u].next = tr[u].next,
         \A u \in targets' : \/ tr'[u].cmd \in {tr[u].cmd, "none"}
                             \/ host'.phase \notin {"begin", "stream"} /\ tr'[u].cmd # "begin",
         \A u \in Trackers : \/ trk'[u] \in {trk[u], Normal}
                             \/ trk[u] # Normal /\ trk'[u].need = trk[u].need,
         host'.phase \in {"begin", "stream"} => host'.phase = host.phase /\ host'.sent = host.sent /\ host'.seen = host.seen,
         host'.phase = "begin" => host'.ids = host.ids /\ host'.todo \subseteq host.ids
  PROVE  RInv'
<1>1. Untouched'
  <2> SUFFICES ASSUME host'.phase = "begin" PROVE Untouched'
    BY DEF Untouched
  <2>1. /\ host.phase = "begin" /\ host'.sent = host.sent /\ host'.seen = host.seen /\ host'.ids = host.ids
        /\ host'.todo \subseteq host.ids
    OBVIOUS
  <2>2. /\ host.sent = 0 /\ head = 0 /\ targets \subseteq host.ids
        /\ \A t \in host.ids : trk[t].need = 0 /\ host.seen[t] = 0
    BY <2>1 DEF RInv, Untouched
  <2>3. host.ids \in SUBSET Trackers
    BY DEF IInv, Types, HostType, HostState
  <2>4. \A t \in host.ids : trk'[t].need = 0
    BY <2>2, <2>3, StartTypes
  <2>5. head' = 0
    BY <2>2 DEF IInv, SessionShape
  <2>6. QED
    BY <2>1, <2>2, <2>4, <2>5 DEF Untouched
<1>2. InStep'
  BY DEF RInv, InStep
<1>3. Forward'
  <2> SUFFICES ASSUME NEW u \in targets'
               PROVE  /\ trk'[u] # Normal => trk'[u].need >= tr'[u].next
                      /\ tr'[u].cmd = "begin" => tr'[u].next = 0 /\ trk'[u].need = 0
                      /\ host'.phase \in {"begin", "stream"} => tr'[u].cmd \in {"none", "begin"}
    BY DEF Forward
  <2>1. u \in targets /\ u \in Trackers /\ tr'[u].next = tr[u].next
    BY Numbers
  <2>2. /\ trk[u] # Normal => trk[u].need >= tr[u].next
        /\ tr[u].cmd = "begin" => tr[u].next = 0 /\ trk[u].need = 0
        /\ host.phase \in {"begin", "stream"} => tr[u].cmd \in {"none", "begin"}
    BY <2>1 DEF RInv, Forward
  <2>3. \/ trk'[u] = trk[u] \/ trk'[u] = Normal
        \/ trk[u] # Normal /\ trk'[u].need = trk[u].need
    BY <2>1
  <2>4. trk'[u] # Normal => trk'[u].need >= tr'[u].next
    BY <2>1, <2>2, <2>3
  <2>5. tr'[u].cmd = "begin" => tr[u].cmd = "begin"
    OBVIOUS
  <2>6. tr'[u].cmd = "begin" => tr'[u].next = 0 /\ trk'[u].need = 0
    BY <2>1, <2>2, <2>3, <2>5, StartTypes
  <2>7. QED
    BY <2>2, <2>4, <2>6
<1>4. Behind'
  BY DEF RInv, Behind
<1>5. Retransmittable'
  <2>1. \A u \in targets' : tr'[u].next >= tr[u].next
    BY Numbers
  <2>2. QED
    BY <2>1, RingFrame DEF RInv
<1>6. QED
  BY <1>1, <1>2, <1>3, <1>4, <1>5 DEF RInv

\* A step that leaves the host's record and the BEGIN in progress alone.
LEMMA HostFrame ==
  ASSUME RInv, host' = host
  PROVE  /\ call' = call => Beginning'
         /\ host'.phase \in {"begin", "stream"} =>
              host'.phase = host.phase /\ host'.sent = host.sent /\ host'.seen = host.seen
         /\ host'.phase = "begin" => host'.ids = host.ids /\ host'.todo \subseteq host.ids
BY DEF RInv, Beginning, Untouched

\* The steps of a BEGIN around its commit section, and the radio's other owner.
LEMMA CallRing ==
  ASSUME IInv, IInv', RInv, BeginRadio \/ BeginEnd \/ RadioOther
  PROVE  RInv'
<1>1. UNCHANGED <<relayVars, host, trk, dropped>>
  BY DEF BeginRadio, BeginEnd, RadioOther
<1>2. UNCHANGED <<active, targets, head, ring, tr>> /\ host' = host /\ trk' = trk /\ dropped' = dropped
  BY <1>1 DEF relayVars
<1>3. call' = NoCall \/ call' = call \/ (call' = [call EXCEPT !.step = "commit", !.acq = TRUE] /\ call.step = "radio")
  BY DEF BeginRadio, BeginEnd, RadioOther
<1>4. call'.step # "idle" => call.step # "idle" /\ call'.t = call.t
  <2>1. call \in CallState
    BY DEF IInv, Types, RadioType
  <2>2. QED
    BY <1>3, <2>1, StartTypes DEF CallState
<1>5. Beginning'
  BY <1>2, <1>4 DEF RInv, Beginning
<1>6. QED
  BY <1>2, <1>5, HostFrame, QuietStep

\* What expires, and what a tracker does by itself.
LEMMA TimeRing ==
  ASSUME IInv, IInv', RInv, NEW t \in Trackers,
         TombExpires(t) \/ CmdExpires(t) \/ TrackerDone(t) \/ TrackerFails(t)
  PROVE  RInv'
<1>1. UNCHANGED <<active, targets, head, ring>> /\ call' = call /\ host' = host /\ dropped' = dropped
  BY DEF TombExpires, CmdExpires, TrackerDone, TrackerFails, relayVars
<1>2. \A u \in targets' : tr'[u].next = tr[u].next /\ tr'[u].cmd = tr[u].cmd
  <2>1. CASE CmdExpires(t)
    <3>1. tr \in [Trackers -> RelayState] /\ tr' = [tr EXCEPT ![t] = [tr[t] EXCEPT !.late = TRUE]]
      BY <2>1 DEF CmdExpires, IInv, Types, TrType
    <3>2. [tr[t] EXCEPT !.late = TRUE].next = tr[t].next /\ [tr[t] EXCEPT !.late = TRUE].cmd = tr[t].cmd
      BY <3>1 DEF RelayState
    <3>3. QED
      BY <1>1, <3>1, <3>2, Numbers
  <2>2. CASE ~CmdExpires(t)
    <3>1. tr' = tr
      BY <2>2 DEF TombExpires, TrackerDone, TrackerFails, relayVars
    <3>2. QED
      BY <3>1
  <2>3. QED
    BY <2>1, <2>2
<1>3. \A u \in Trackers : \/ trk'[u] \in {trk[u], Normal}
                          \/ trk[u] # Normal /\ trk'[u].need = trk[u].need
  <2>1. CASE TombExpires(t) \/ CmdExpires(t)
    BY <2>1 DEF TombExpires, CmdExpires
  <2>2. CASE TrackerDone(t) \/ TrackerFails(t)
    <3>1. trk \in [Trackers -> TrackerState]
      BY DEF IInv, Types, TrkType
    <3>2. \/ trk' = [trk EXCEPT ![t] = Normal]
          \/ trk[t] # Normal /\ \E st \in Statuses : trk' = [trk EXCEPT ![t] = [trk[t] EXCEPT !.st = st]]
      BY <2>2, StartTypes DEF TrackerDone, TrackerFails, Statuses, Terminal
    <3>3. \A st \in Statuses : [trk[t] EXCEPT !.st = st].need = trk[t].need
      BY <3>1 DEF TrackerState
    <3>4. QED
      BY <3>1, <3>2, <3>3
  <2>3. QED
    BY <2>1, <2>2
<1>4. QED
  BY <1>1, <1>2, <1>3, HostFrame, QuietStep

\* A tracker is cancelled or forgotten.
LEMMA RemoveRing ==
  ASSUME IInv, IInv', RInv, NEW t \in Trackers, (CancelTarget(t) /\ host' = host) \/ Forget(t)
  PROVE  RInv'
<1>1. call' = call /\ host' = host /\ dropped' = dropped
  BY DEF CancelTarget, Forget
<1>2. /\ targets' = targets \ {t} /\ (active' => active /\ head' = head) /\ ring' = ring
      /\ \A u \in Trackers \ {t} : tr'[u] = tr[u] /\ trk'[u] = trk[u]
  BY RemoveSteps DEF IInv, Types
<1>3. trk'[t] \in {trk[t], Normal}
  BY DEF CancelTarget, Forget, IInv, Types, TrkType
<1>4. \A u \in targets' : tr'[u].next = tr[u].next /\ tr'[u].cmd = tr[u].cmd
  BY <1>2, Numbers
<1>5. \A u \in Trackers : trk'[u] \in {trk[u], Normal}
  BY <1>2, <1>3
<1>6. QED
  BY <1>1, <1>2, <1>4, <1>5, HostFrame, QuietStep

\* Everything is cancelled, by the console or at the end of an update.
LEMMA CancelAllRing ==
  ASSUME IInv, IInv', RInv, HidFree, CancelAll, host' \in {host, HostIdle}
  PROVE  RInv'
<1>1. targets' = {} /\ ~active' /\ ring' = ring /\ trk' = trk /\ call' = call /\ dropped' = dropped
  BY DEF CancelAll
<1>2. Beginning'
  BY <1>1, StartTypes DEF HidFree, Beginning
<1>3. HostIdle.phase = "idle"
  BY DEF HostIdle
<1>4. CASE host' = host
  BY <1>1, <1>2, <1>4, HostFrame, QuietStep
<1>5. CASE host' = HostIdle
  BY <1>1, <1>2, <1>3, <1>5, QuietStep
<1>6. QED
  BY <1>4, <1>5

\* The host sends a command of its phase.
LEMMA SendsRing ==
  ASSUME IInv, IInv', RInv, NEW t \in Trackers, HostSends(t)
  PROVE  RInv'
<1>0. host \in HostState /\ tr \in [Trackers -> RelayState] /\ tr[t] \in RelayState
  BY DEF IInv, Types, HostType, TrType
<1>1. t \in host.todo /\ host' = [host EXCEPT !.todo = @ \ {t}] /\ call = NoCall
  BY DEF HostSends, Begin, Command, HidFree
<1>2. /\ host'.phase = host.phase /\ host'.ids = host.ids /\ host'.sent = host.sent /\ host'.seen = host.seen
      /\ host'.todo = host.todo \ {t}
  BY <1>0, <1>1 DEF HostState
<1>3. host.phase = "begin" => host.todo \subseteq host.ids
  BY DEF RInv, Untouched
<1>4. UNCHANGED <<active, targets, head, ring>> /\ trk' = trk /\ dropped' = dropped
  BY DEF HostSends, Begin, Command, relayVars
<1>5. CASE host.phase = "begin"
  <2>1. tr' = tr
    BY <1>5 DEF HostSends, Begin, relayVars
  <2>2. call' = NoCall \/ call'.t = t
    BY <1>5 DEF HostSends, Begin
  <2>3. Beginning'
    BY <1>1, <1>2, <1>3, <1>5, <2>2, StartTypes DEF Beginning
  <2>4. QED
    BY <1>2, <1>3, <1>4, <2>1, <2>3, QuietStep
<1>6. CASE host.phase # "begin"
  <2> DEFINE c == Step(host.phase)
  <2>1. c \in Commands \cup {"none"} /\ c # "begin" /\ (host.phase = "stream" => c = "none")
    BY <1>6 DEF Step, Commands
  <2>2. call' = call /\ (tr' = tr \/ tr' = [tr EXCEPT ![t] = WithCmd(tr[t], c)])
    BY <1>6 DEF HostSends, Command
  <2> HIDE DEF c
  <2>3. WithCmd(tr[t], c).next = tr[t].next /\ WithCmd(tr[t], c).cmd = c
    BY <1>0, <2>1, WithCmdType
  <2>4. \A u \in targets' : /\ tr'[u].next = tr[u].next
                            /\ tr'[u].cmd = tr[u].cmd \/ tr'[u].cmd = c
    BY <1>0, <1>4, <2>2, <2>3, Numbers
  <2>5. Beginning'
    BY <1>1, <2>2, StartTypes DEF Beginning
  <2>6. \A u \in targets' : \/ tr'[u].cmd \in {tr[u].cmd, "none"}
                            \/ host'.phase \notin {"begin", "stream"} /\ tr'[u].cmd # "begin"
    BY <1>2, <1>6, <2>1, <2>4
  <2>7. QED
    BY <1>2, <1>4, <1>6, <2>4, <2>5, <2>6, QuietStep
<1>7. QED
  BY <1>5, <1>6

\* The host's own steps.
LEMMA HostRing ==
  ASSUME IInv, IInv', RInv, HostStart \/ HostResends \/ HostMovesOn
  PROVE  RInv'
<1>0. host \in HostState
  BY DEF IInv, Types, HostType
<1>1. UNCHANGED <<active, targets, head, ring, tr>> /\ trk' = trk /\ call' = call /\ call = NoCall
  BY DEF HostStart, HostResends, HostMovesOn, relayVars, HidFree
<1>2. Beginning'
  BY <1>1, StartTypes DEF Beginning
<1>3. CASE HostStart
  <2>1. PICK ids \in SUBSET Trackers :
          /\ host' = [HostIdle EXCEPT !.phase = "begin", !.ids = ids, !.todo = ids]
          /\ \A t \in ids : trk[t] = Normal
    BY <1>3 DEF HostStart
  <2>2. /\ host'.phase = "begin" /\ host'.ids = ids /\ host'.todo = ids /\ host'.sent = 0
        /\ host'.seen = [t \in Trackers |-> 0]
    BY <2>1 DEF HostIdle
  <2>3. targets' = {} /\ head' = 0
    BY <1>1, <1>3 DEF HostStart, IInv, SessionShape
  <2>4. Untouched'
    BY <1>1, <2>1, <2>2, <2>3, StartTypes DEF Untouched
  <2>5. InStep' /\ Behind'
    BY <2>2 DEF InStep, Behind
  <2>6. Forward' /\ Retransmittable'
    BY <2>3 DEF Forward, Retransmittable
  <2>7. QED
    BY <1>2, <2>4, <2>5, <2>6 DEF RInv
<1>4. CASE HostResends
  <2>1. host' = [host EXCEPT !.todo = Waiting] /\ Waiting \subseteq host.ids /\ dropped' = dropped
    BY <1>4 DEF HostResends, Waiting
  <2>2. /\ host'.phase = host.phase /\ host'.ids = host.ids /\ host'.sent = host.sent /\ host'.seen = host.seen
        /\ host'.todo = Waiting
    BY <1>0, <2>1 DEF HostState
  <2>3. QED
    BY <1>1, <1>2, <2>1, <2>2, QuietStep
<1>5. CASE HostMovesOn
  <2>1. PICK next \in {"stream", "verify", "activate"}, todo \in {{}, Keep} :
          /\ host' = [host EXCEPT !.phase = next, !.ids = Keep, !.todo = todo, !.ok = {}, !.out = {}]
          /\ next = "stream" => host.phase = "begin"
    BY <1>5 DEF HostMovesOn
  <2>2. host'.phase = next /\ host'.sent = host.sent /\ host'.seen = host.seen
    BY <1>0, <2>1 DEF HostState
  <2>3. dropped' = dropped
    BY <1>5 DEF HostMovesOn
  <2>4. CASE next # "stream"
    BY <1>1, <1>2, <2>1, <2>2, <2>3, <2>4, QuietStep
  <2>5. CASE next = "stream"
    <3>1. host.phase = "begin" /\ host'.phase = "stream"
      BY <2>1, <2>2, <2>5
    <3>2. /\ host.sent = 0 /\ head = 0 /\ targets \subseteq host.ids
          /\ \A t \in host.ids : trk[t].need = 0 /\ host.seen[t] = 0
      BY <3>1 DEF RInv, Untouched
    <3>3. Untouched' /\ InStep'
      BY <1>1, <2>2, <3>1, <3>2 DEF Untouched, InStep
    <3>4. Forward'
      BY <1>1, <3>1 DEF RInv, Forward
    <3>5. \A t \in targets : host'.seen[t] <= tr[t].next
      BY <2>2, <3>2, Numbers
    <3>6. Behind'
      BY <1>1, <3>5 DEF Behind
    <3>7. Retransmittable'
      BY <1>1, <2>3 DEF RInv, Retransmittable
    <3>8. QED
      BY <1>2, <3>3, <3>4, <3>6, <3>7 DEF RInv
  <2>6. QED
    BY <2>4, <2>5
<1>6. QED
  BY <1>3, <1>4, <1>5

\* The commit section of BEGIN: the first packet is still to come.
LEMMA BeginCommitRing ==
  ASSUME IInv, IInv', RInv, BeginCommit
  PROVE  RInv'
<1>0. /\ call \in CallState /\ call.step = "commit" /\ call.t \in Trackers
      /\ tr \in [Trackers -> RelayState] /\ targets \in SUBSET Trackers
  BY DEF IInv, Types, RadioType, Calling, BeginCommit, TrType, SessionType
<1>1. host' = host /\ trk' = trk /\ dropped' = dropped /\ ring' = ring
  BY DEF BeginCommit, relayVars
<1>2. host.phase = "begin" /\ call.t \in host.ids
  BY <1>0 DEF RInv, Beginning
<1>3. /\ host.sent = 0 /\ head = 0 /\ targets \subseteq host.ids /\ host.todo \subseteq host.ids
      /\ \A t \in host.ids : trk[t].need = 0 /\ host.seen[t] = 0
  BY <1>2 DEF RInv, Untouched
<1>4. call'.t = call.t
  <2>1. \E s : call' = [call EXCEPT !.step = s]
    BY DEF BeginCommit
  <2>2. QED
    BY <1>0, <2>1 DEF CallState
<1>5. Beginning'
  BY <1>1, <1>2, <1>4 DEF Beginning
<1> DEFINE t == call.t
           r == WithCmd([Idle EXCEPT !.part = TRUE], "begin")
<1>6. r.next = 0 /\ r.cmd = "begin"
  BY DEF WithCmd, Idle
<1>7. \/ UNCHANGED relayVars
      \/ /\ active /\ head' = head /\ targets' = targets \cup {t} /\ tr' = [tr EXCEPT ![t] = r]
      \/ /\ head' = 0 /\ targets' = {t} /\ tr' = [[u \in Trackers |-> Idle] EXCEPT ![t] = r]
  BY DEF BeginCommit, Fresh
<1> HIDE DEF r
<1>8. /\ head' = 0 /\ targets' \subseteq host.ids
      /\ \A u \in targets' : (u \in targets /\ tr'[u] = tr[u]) \/ (u = t /\ tr'[u] = r)
  <2>1. CASE UNCHANGED relayVars
    BY <1>3, <2>1 DEF relayVars
  <2>2. CASE active /\ head' = head /\ targets' = targets \cup {t} /\ tr' = [tr EXCEPT ![t] = r]
    BY <1>0, <1>2, <1>3, <2>2
  <2>3. CASE head' = 0 /\ targets' = {t} /\ tr' = [[u \in Trackers |-> Idle] EXCEPT ![t] = r]
    BY <1>0, <1>2, <2>3
  <2>4. QED
    BY <1>7, <2>1, <2>2, <2>3
<1>9. Untouched' /\ InStep' /\ Behind'
  BY <1>1, <1>2, <1>3, <1>8 DEF Untouched, InStep, Behind
<1>10. Forward'
  <2> SUFFICES ASSUME NEW u \in targets'
               PROVE  /\ trk'[u] # Normal => trk'[u].need >= tr'[u].next
                      /\ tr'[u].cmd = "begin" => tr'[u].next = 0 /\ trk'[u].need = 0
                      /\ host'.phase \in {"begin", "stream"} => tr'[u].cmd \in {"none", "begin"}
    BY DEF Forward
  <2>1. CASE u \in targets /\ tr'[u] = tr[u]
    BY <1>1, <2>1 DEF RInv, Forward
  <2>2. CASE u = t /\ tr'[u] = r
    BY <1>1, <1>2, <1>3, <1>6, <2>2
  <2>3. QED
    BY <1>8, <2>1, <2>2
<1>11. Retransmittable'
  <2>1. \A u \in targets' : tr'[u].next \in Nat
    BY <1>6, <1>8, Numbers
  <2>2. \A u \in targets' : \A n \in tr'[u].next .. head' - 1 : FALSE
    BY <1>8, <2>1
  <2>3. QED
    BY <2>2 DEF Retransmittable
<1>12. QED
  BY <1>5, <1>9, <1>10, <1>11 DEF RInv

\* A PING of a target: only a BEGIN moves it, to the start.
LEMMA PingRing ==
  ASSUME IInv, IInv', RInv, NEW t \in Trackers, NEW heard \in BOOLEAN, Ping(t, heard)
  PROVE  RInv'
<1>0. SessionType /\ TrType /\ TrkType /\ tr \in [Trackers -> RelayState] /\ trk \in [Trackers -> TrackerState]
  BY DEF IInv, Types, TrType, TrkType
<1> DEFINE a == FillAck(t, None)
<1>1. /\ tr' = [tr EXCEPT ![t] = a.r] /\ Delivers(t, a.ack, heard) /\ trk[t] = Normal /\ t \notin tomb
      /\ UNCHANGED <<active, targets, head, ring>> /\ call' = call /\ host' = host /\ dropped' = dropped
      /\ tr[t].part
  BY DEF Ping
<1>2. /\ a.r.next = tr[t].next /\ a.r.cmd \in {tr[t].cmd, "none"}
      /\ a.ack.k = "data" => a.ack.seq \in 0..Total - 1
      /\ a.ack.k = "begin" => tr[t].cmd = "begin"
      /\ a.ack.k = "abort" => t \in tomb
  BY <1>0, FillAckFacts
<1> HIDE DEF a
<1>3. t \in targets
  BY <1>1 DEF IInv, SessionShape
<1>4. /\ tr[t].cmd = "begin" => tr[t].next = 0
      /\ host.phase \in {"begin", "stream"} => tr[t].cmd \in {"none", "begin"}
  BY <1>3 DEF RInv, Forward
<1>5. PICK new : /\ trk' = [trk EXCEPT ![t] = new] /\ new.need = 0
                 /\ new = Normal \/ tr[t].cmd = "begin"
  <2>1. PICK new \in IF heard THEN Reactions(t, a.ack) ELSE {trk[t]} : trk' = [trk EXCEPT ![t] = new]
    BY <1>1 DEF Delivers
  <2>2. CASE ~heard
    BY <1>1, <2>1, <2>2, StartTypes
  <2>3. CASE heard
    <3>1. /\ a.ack.k = "begin" => new.need \in {trk[t].need, 0}
          /\ a.ack.k # "begin" => new = trk[t]
      BY <1>0, <1>1, <1>2, <2>1, <2>3, ReactionFacts, StartTypes
    <3>2. QED
      BY <1>1, <1>2, <2>1, <3>1, StartTypes
  <2>4. QED
    BY <2>2, <2>3
<1>6. Untouched'
  <2>1. \A u \in Trackers : trk'[u].need = trk[u].need
    BY <1>0, <1>1, <1>5, StartTypes
  <2>2. host.ids \in SUBSET Trackers
    BY DEF IInv, Types, HostType, HostState
  <2>3. QED
    BY <1>1, <2>1, <2>2 DEF RInv, Untouched
<1>7. InStep' /\ Beginning'
  BY <1>1 DEF RInv, InStep, Beginning
<1>8. \A u \in Trackers : tr'[u].next = tr[u].next
  BY <1>0, <1>1, <1>2
<1>9. Behind' /\ Retransmittable'
  BY <1>1, <1>8, Numbers DEF RInv, Behind, Retransmittable
<1>10. Forward'
  <2> SUFFICES ASSUME NEW u \in targets'
               PROVE  /\ trk'[u] # Normal => trk'[u].need >= tr'[u].next
                      /\ tr'[u].cmd = "begin" => tr'[u].next = 0 /\ trk'[u].need = 0
                      /\ host'.phase \in {"begin", "stream"} => tr'[u].cmd \in {"none", "begin"}
    BY DEF Forward
  <2>1. CASE u # t
    <3>1. u \in targets /\ tr'[u] = tr[u] /\ trk'[u] = trk[u] /\ host' = host
      BY <1>0, <1>1, <1>5, <2>1, Numbers
    <3>2. QED
      BY <3>1 DEF RInv, Forward
  <2>2. CASE u = t
    <3>1. tr'[u] = a.r /\ trk'[u] = new /\ host' = host
      BY <1>0, <1>1, <1>5, <2>2
    <3>2. QED
      BY <1>2, <1>4, <1>5, <2>2, <3>1
  <2>3. QED
    BY <2>1, <2>2
<1>11. QED
  BY <1>6, <1>7, <1>9, <1>10 DEF RInv

\* A status packet: what the relay notes and what the host hears is what the tracker
\* asked for, and what the tracker gets moves it only forward.
LEMMA StatusRing ==
  ASSUME IInv, IInv', RInv, NEW t \in Trackers, NEW heard \in BOOLEAN, NEW reported \in BOOLEAN,
         Status(t, heard, reported)
  PROVE  RInv'
<1>0. /\ SessionType /\ TrType /\ TrkType /\ HostType /\ tr \in [Trackers -> RelayState]
      /\ trk \in [Trackers -> TrackerState] /\ host \in HostState
  BY DEF IInv, Types, TrType, TrkType, HostType
<1> DEFINE st == trk[t].st
           n == trk[t].need
           a == FillAck(t, n)
           r == IF Confirms(a.r.cmd, st) THEN WithCmd(a.r, "none") ELSE a.r
           q == [r EXCEPT !.part = r.part /\ ~Ends(st)]
           h == Hears(t, st, n)
<1>1. /\ Delivers(t, a.ack, heard) /\ tr' = [tr EXCEPT ![t] = q] /\ trk[t] # Normal
      /\ IF Ends(st) /\ r.part THEN RemoveTargets({t}) ELSE UNCHANGED <<active, targets, head>>
      /\ host' = IF reported THEN h ELSE host
      /\ ring' = ring /\ tomb' = tomb /\ call' = call /\ dropped' = dropped
  BY DEF Status
<1>2. n \in 0..Total
  BY <1>0 DEF TrackerState
<1>3. /\ a.r \in RelayState /\ a.r.cmd \in {tr[t].cmd, "none"}
      /\ a.r.next = tr[t].next \/ a.r.next = n
      /\ a.ack.k = "data" => n \in 0..Total - 1 /\ n < head /\ a.ack.seq = n /\ tr[t].cmd # "begin"
      /\ a.ack.k = "begin" => tr[t].cmd = "begin" /\ tr[t].part /\ t \notin tomb
      /\ a.ack.k = "abort" => t \in tomb
      /\ tr[t].cmd = "begin" => a.r.next = tr[t].next
      /\ active /\ tr[t].part /\ t \notin tomb /\ tr[t].cmd = "none" /\ n # None => a.r.next = n
  BY <1>0, <1>2, FillAckFacts
<1>4. r \in RelayState /\ r.next = a.r.next /\ r.cmd \in {tr[t].cmd, "none"}
  BY <1>3, WithCmdType
<1> HIDE DEF r
<1>5. q.next = a.r.next /\ q.cmd \in {tr[t].cmd, "none"}
  BY <1>4 DEF RelayState
<1>6. PICK new \in IF heard THEN Reactions(t, a.ack) ELSE {trk[t]} : trk' = [trk EXCEPT ![t] = new]
  BY <1>1 DEF Delivers
<1>7. /\ a.ack.k = "data" => new.need >= n
      /\ a.ack.k \notin {"begin", "abort", "data"} => new.need = n
      /\ a.ack.k \in {"begin", "abort"} => new.need \in {n, 0}
  <2>0. n \in Nat
    BY <1>2
  <2>1. CASE heard
    <3>1. new \in Reactions(t, a.ack)
      BY <1>6, <2>1
    <3>2. a.ack.k = "data" => a.ack.seq \in 0..Total - 1
      BY <1>3
    <3>3. QED
      BY <1>0, <3>1, <3>2, ReactionFacts
  <2>2. CASE ~heard
    <3>1. new.need = n
      BY <1>6, <2>2
    <3>2. QED
      BY <2>0, <3>1
  <2>3. QED
    BY <2>1, <2>2
<1>8. /\ h.phase = "begin" => /\ host.phase = "begin" /\ h.ids = host.ids /\ h.sent = host.sent
                              /\ h.seen = host.seen /\ h.todo = host.todo
      /\ h.phase = "stream" =>
           /\ host.phase = "stream" /\ h.sent = host.sent
           /\ h.seen[t] \in {host.seen[t], n} /\ \A u \in Trackers \ {t} : h.seen[u] = host.seen[u]
      /\ host.phase = "begin" => h.phase = "begin"
  BY <1>0, <1>2, HearsType
<1> HIDE DEF h
<1>9. /\ host'.phase = "begin" => /\ host.phase = "begin" /\ host'.ids = host.ids /\ host'.sent = host.sent
                                  /\ host'.seen = host.seen /\ host'.todo = host.todo
      /\ host'.phase = "stream" =>
           /\ host.phase = "stream" /\ host'.sent = host.sent
           /\ host'.seen[t] \in {host.seen[t], n} /\ \A u \in Trackers \ {t} : host'.seen[u] = host.seen[u]
  BY <1>1, <1>8
<1>10. /\ targets' \subseteq targets /\ (active' => active /\ head' = head)
  BY <1>1, Zenon DEF RemoveTargets, IInv, SessionShape
<1>11. head = 0 => head' = 0
  BY <1>1 DEF RemoveTargets
<1> HIDE DEF q, a, st, n
<1>12. tr'[t] = q /\ trk'[t] = new /\ \A u \in Trackers \ {t} : tr'[u] = tr[u] /\ trk'[u] = trk[u]
  BY <1>0, <1>1, <1>6
<1>13. trk[t].need = n /\ n # None /\ n \in Nat
  BY <1>2 DEF n, None
<1>14. Untouched'
  <2> SUFFICES ASSUME host'.phase = "begin" PROVE Untouched'
    BY DEF Untouched
  <2>1. /\ host.phase = "begin" /\ host'.sent = host.sent /\ host'.seen = host.seen /\ host'.ids = host.ids
        /\ host'.todo = host.todo
    BY <1>9
  <2>2. /\ host.sent = 0 /\ head = 0 /\ targets \subseteq host.ids /\ host.todo \subseteq host.ids
        /\ \A u \in host.ids : trk[u].need = 0 /\ host.seen[u] = 0
    BY <2>1 DEF RInv, Untouched
  <2>3. host.ids \in SUBSET Trackers
    BY <1>0 DEF HostState
  <2>4. t \in host.ids => new.need = 0
    <3>1. a.ack.k # "data"
      BY <1>3, <1>13, <2>2
    <3>2. QED
      BY <1>7, <1>13, <2>2, <3>1
  <2>5. \A u \in host.ids : trk'[u].need = 0
    BY <1>12, <2>2, <2>3, <2>4
  <2>6. QED
    BY <1>10, <1>11, <2>1, <2>2, <2>5 DEF Untouched
<1>15. InStep'
  BY <1>1, <1>9, <1>10 DEF RInv, InStep
<1>16. Beginning'
  <2>1. host.phase = "begin" => host'.phase = "begin" /\ host'.ids = host.ids
    BY <1>1, <1>8
  <2>2. QED
    BY <1>1, <2>1 DEF RInv, Beginning
<1>17. t \in targets => t \notin tomb /\ active /\ tr[t].part
  BY DEF IInv, SessionShape, CancelledIsOut
<1>18. t \in targets =>
         /\ n >= tr[t].next
         /\ tr[t].cmd = "begin" => tr[t].next = 0 /\ n = 0
         /\ host.phase \in {"begin", "stream"} => tr[t].cmd \in {"none", "begin"}
  BY <1>1, <1>13 DEF RInv, Forward
<1>19. t \in targets => new.need >= n /\ (tr[t].cmd = "begin" => new.need = 0)
  <2>1. t \in targets => a.ack.k # "abort"
    BY <1>3, <1>17
  <2>2. t \in targets /\ a.ack.k = "begin" => n = 0
    BY <1>3, <1>18
  <2>3. t \in targets /\ tr[t].cmd = "begin" => a.ack.k # "data" /\ n = 0
    BY <1>3, <1>18
  <2>4. QED
    BY <1>7, <1>13, <2>1, <2>2, <2>3
<1>20. tr[t].next \in Nat
  BY Numbers
<1>21. Forward'
  <2> SUFFICES ASSUME NEW u \in targets'
               PROVE  /\ trk'[u] # Normal => trk'[u].need >= tr'[u].next
                      /\ tr'[u].cmd = "begin" => tr'[u].next = 0 /\ trk'[u].need = 0
                      /\ host'.phase \in {"begin", "stream"} => tr'[u].cmd \in {"none", "begin"}
    BY DEF Forward
  <2>0. u \in targets /\ u \in Trackers /\ (host'.phase \in {"begin", "stream"} => host.phase = host'.phase)
    BY <1>9, <1>10, Numbers
  <2>1. CASE u # t
    <3>1. tr'[u] = tr[u] /\ trk'[u] = trk[u]
      BY <1>12, <2>0, <2>1
    <3>2. QED
      BY <2>0, <3>1 DEF RInv, Forward
  <2>2. CASE u = t
    <3>1. new.need >= q.next
      <4>1. new.need \in Int
        BY <1>12, <1>13 DEF IInv, Types, TrkType, TrackerState
      <4>2. QED
        BY <1>3, <1>5, <1>13, <1>18, <1>19, <1>20, <2>0, <2>2, <4>1
    <3>2. q.cmd = "begin" => q.next = 0 /\ new.need = 0
      BY <1>3, <1>5, <1>18, <1>19, <2>0, <2>2
    <3>3. QED
      BY <1>5, <1>12, <1>18, <2>0, <2>2, <3>1, <3>2
  <2>3. QED
    BY <2>1, <2>2
<1>22. Behind'
  <2> SUFFICES ASSUME host'.phase = "stream", NEW u \in targets' PROVE host'.seen[u] <= tr'[u].next
    BY DEF Behind
  <2>0. u \in targets /\ u \in Trackers /\ host.phase = "stream" /\ host.seen[u] <= tr[u].next /\ host.seen[u] \in Nat
    BY <1>9, <1>10, Numbers DEF RInv, Behind
  <2>1. CASE u # t
    BY <1>9, <1>12, <2>0, <2>1
  <2>2. CASE u = t
    <3>1. q.next = n
      BY <1>3, <1>5, <1>13, <1>17, <1>18, <2>0, <2>2
    <3>2. host'.seen[t] \in {host.seen[t], n} /\ n >= tr[t].next
      BY <1>9, <1>18, <2>0, <2>2
    <3>3. QED
      BY <1>12, <1>13, <1>20, <2>0, <2>2, <3>1, <3>2
  <2>3. QED
    BY <2>1, <2>2
<1>23. Retransmittable'
  <2>1. \A u \in targets' : tr'[u].next >= tr[u].next
    <3> SUFFICES ASSUME NEW u \in targets' PROVE tr'[u].next >= tr[u].next
      OBVIOUS
    <3>0. u \in targets /\ u \in Trackers /\ tr[u].next \in Nat
      BY <1>10, Numbers
    <3>1. CASE u # t
      BY <1>12, <3>0, <3>1
    <3>2. CASE u = t
      BY <1>3, <1>5, <1>12, <1>13, <1>18, <3>0, <3>2
    <3>3. QED
      BY <3>1, <3>2
  <2>2. QED
    BY <1>1, <1>10, <2>1, RingFrame DEF RInv
<1>24. QED
  BY <1>14, <1>15, <1>16, <1>21, <1>22, <1>23 DEF RInv
-----------------------------------------------------------------------------
(* The host's window and the ring *)

\* A set of numbers has a least one.
LEMMA MinExists ==
  ASSUME NEW S \in SUBSET Nat, S # {}
  PROVE  MinOf(S) \in S /\ \A y \in S : MinOf(S) <= y
<1> DEFINE R == OpToRel(<, Nat)
<1>1. IsWellFoundedOn(R, Nat)
  BY NatLessThanWellFounded
<1>2. PICK x \in S : \A y \in S : ~(<<y, x>> \in R)
  BY <1>1, WFMin
<1>3. ASSUME NEW y \in S
      PROVE  x <= y
  <2>1. <<y, x>> \in Nat \X Nat /\ <<y, x>>[1] = y /\ <<y, x>>[2] = x
    OBVIOUS
  <2>2. y < x => <<y, x>> \in R
    BY <2>1, Zenon DEF OpToRel
  <2>3. ~(y < x)
    BY <1>2, <2>2, Zenon
  <2>4. QED
    BY <2>3
<1>4. QED
  BY <1>3 DEF MinOf

\* The ring's minimum is the progress of a target, or the ring is empty.
LEMMA RingMinFacts ==
  ASSUME IInv
  PROVE  /\ RingMin \in Nat /\ RingMin <= head
         /\ \A t \in targets : RingMin <= tr[t].next
         /\ RingMin = head \/ \E t \in targets : RingMin = tr[t].next
<1> DEFINE S == {head} \cup {tr[t].next : t \in targets}
<1>1. S \in SUBSET Nat /\ S # {}
  BY Numbers
<1>2. MinOf(S) \in S /\ \A y \in S : MinOf(S) <= y
  <2> HIDE DEF S
  <2>1. QED
    BY <1>1, MinExists
<1>3. RingMin = MinOf(S)
  BY DEF RingMin
<1>4. QED
  BY <1>1, <1>2, <1>3

\* A packet's number is a whole number of rings and its entry.
LEMMA Entry ==
  ASSUME NEW n \in Nat
  PROVE  \E q \in Nat : \E r \in 0..RingSize - 1 : n = RingSize * q + r /\ r = n % RingSize
<1>1. RingSize \in Nat \ {0}
  BY OtaAssumption
<1>2. QED
  BY <1>1

\* Two packets less than a ring apart do not share an entry.
LEMMA EntriesApart ==
  ASSUME NEW n \in Nat, NEW m \in Nat, n < m, m < n + RingSize
  PROVE  n % RingSize # m % RingSize
<1>0. RingSize \in Nat \ {0}
  BY OtaAssumption
<1> SUFFICES ASSUME n % RingSize = m % RingSize PROVE FALSE
  OBVIOUS
<1>1. PICK q \in Nat : \E r \in 0..RingSize - 1 : n = RingSize * q + r /\ r = n % RingSize
  BY Entry
<1>2. PICK p \in Nat : \E r \in 0..RingSize - 1 : m = RingSize * p + r /\ r = m % RingSize
  BY Entry
<1>3. m - n = RingSize * (p - q)
  BY <1>0, <1>1, <1>2
<1>4. p - q >= 1 => RingSize * (p - q) >= RingSize
  BY <1>0
<1>5. p - q <= 0 => RingSize * (p - q) <= 0
  BY <1>0
<1>6. QED
  BY <1>0, <1>3, <1>4, <1>5

\* DATA into a ring with room: the new packet replaces none that is still needed.
LEMMA DataRing ==
  ASSUME IInv, IInv', RInv, HostData
  PROVE  RInv'
<1>0. /\ host \in HostState /\ host.phase = "stream" /\ ring \in [0..RingSize - 1 -> 0..Total - 1]
      /\ RingSize \in Nat \ {0}
  BY OtaAssumption DEF IInv, Types, HostType, HostData, SessionType
<1>1. /\ UNCHANGED <<active, targets>> /\ tr' = tr /\ trk' = trk /\ call' = call /\ call = NoCall
      /\ host' = [host EXCEPT !.sent = host.sent + 1]
      /\ dropped' = (dropped \/ (active /\ RingFull))
      /\ IF active /\ ~RingFull
         THEN /\ ring' = [ring EXCEPT ![host.sent % RingSize] = host.sent]
              /\ head' = IF host.sent + 1 > head THEN host.sent + 1 ELSE head
         ELSE ring' = ring /\ head' = head
  BY DEF HostData, Data, HidFree
<1>2. host'.phase = "stream" /\ host'.ids = host.ids /\ host'.seen = host.seen /\ host'.sent = host.sent + 1
  BY <1>0, <1>1 DEF HostState
<1>3. Beginning' /\ Untouched'
  BY <1>1, <1>2, StartTypes DEF Beginning, Untouched
<1>4. Forward' /\ Behind'
  BY <1>0, <1>1, <1>2 DEF RInv, Forward, Behind
<1>5. host.sent \in Nat /\ head \in Nat
  BY Numbers
<1>6. active /\ ~dropped' => ~dropped /\ ~RingFull /\ head = host.sent
  BY <1>0, <1>1 DEF RInv, InStep
<1>7. active /\ ~dropped' => head' = head + 1 /\ ring' = [ring EXCEPT ![head % RingSize] = head]
  BY <1>1, <1>5, <1>6
<1>8. InStep'
  BY <1>1, <1>2, <1>6, <1>7 DEF InStep
<1>9. Retransmittable'
  <2> SUFFICES ASSUME ~dropped', NEW u \in targets, NEW n \in tr[u].next .. head' - 1
               PROVE  ring'[n % RingSize] = n
    BY <1>1 DEF Retransmittable
  <2>1. active /\ u \in Trackers /\ tr[u].next \in Nat
    BY Numbers DEF IInv, SessionShape
  <2>2. head' = head + 1 /\ ring' = [ring EXCEPT ![head % RingSize] = head] /\ ~RingFull /\ ~dropped
    BY <1>6, <1>7, <2>1
  <2>3. n \in Nat /\ n <= head /\ n >= tr[u].next
    BY <1>5, <2>1, <2>2
  <2>4. head % RingSize \in 0..RingSize - 1 /\ n % RingSize \in 0..RingSize - 1
    BY <1>0, <1>5, <2>3
  <2>5. CASE n = head
    BY <1>0, <2>2, <2>4, <2>5
  <2>6. CASE n < head
    <3>1. ring[n % RingSize] = n
      <4>1. n \in tr[u].next .. head - 1
        BY <1>5, <2>1, <2>3, <2>6
      <4>2. QED
        BY <2>2, <4>1 DEF RInv, Retransmittable
    <3>2. RingMin \in Nat /\ RingMin <= tr[u].next /\ head - RingMin < RingSize
      <4>1. RingMin \in Nat /\ RingMin <= tr[u].next
        BY RingMinFacts
      <4>2. ~(head - RingMin >= RingSize)
        BY <2>2 DEF RingFull, RingCount
      <4>3. QED
        BY <1>0, <1>5, <4>1, <4>2
    <3>3. head < n + RingSize
      BY <1>0, <1>5, <2>1, <2>3, <3>2
    <3>4. n % RingSize # head % RingSize
      BY <1>5, <2>3, <2>6, <3>3, EntriesApart
    <3>5. QED
      BY <1>0, <2>2, <2>4, <3>1, <3>4
  <2>7. QED
    BY <1>5, <2>3, <2>5, <2>6
<1>10. QED
  BY <1>3, <1>4, <1>8, <1>9 DEF RInv

\* Init establishes the invariant.
LEMMA InitRing == Init => RInv
<1> SUFFICES ASSUME Init PROVE RInv
  OBVIOUS
<1>1. host.phase = "idle" /\ call.step = "idle" /\ targets = {}
  BY DEF Init, HostIdle, NoCall
<1>2. QED
  BY <1>1 DEF RInv, Beginning, Untouched, InStep, Forward, Behind, Retransmittable

\* Every step of the relay, its host, its trackers and its surroundings.
LEMMA StepRing == IInv /\ IInv' /\ RInv /\ [Next]_vars => RInv'
<1> SUFFICES ASSUME IInv, IInv', RInv, [Next]_vars PROVE RInv'
  OBVIOUS
<1>1. CASE UNCHANGED vars
  BY <1>1
  DEF vars, sysVars, relayVars, RInv, Beginning, Untouched, InStep, Forward, Behind, Retransmittable
<1>2. CASE HostEnds \/ HostInterrupted
  BY <1>2, CancelAllRing DEF HostEnds, HostInterrupted
<1>3. CASE ConsoleAbort
  <2>1. host' = host /\ HidFree /\ (CancelAll \/ \E t \in Trackers : CancelTarget(t))
    BY <1>3 DEF ConsoleAbort
  <2>2. QED
    BY <2>1, CancelAllRing, RemoveRing
<1>4. CASE HidWork \/ RadioOther
  BY <1>4, CallRing, BeginCommitRing DEF HidWork
<1>5. CASE HostStart \/ HostResends \/ HostMovesOn \/ HostData
  BY <1>5, HostRing, DataRing
<1>6. ASSUME NEW t \in Trackers,
             \/ HostSends(t) \/ TombExpires(t) \/ TrackerDone(t) \/ Forget(t) \/ CmdExpires(t) \/ TrackerFails(t)
             \/ \E h, r \in BOOLEAN : Ping(t, h) \/ Status(t, h, r)
      PROVE  RInv'
  BY <1>6, SendsRing, TimeRing, RemoveRing, PingRing, StatusRing
<1>7. QED
  BY <1>1, <1>2, <1>3, <1>4, <1>5, <1>6 DEF Next, Works, Disturbed, Host

\* A step drops a packet only when the host's window does not see a target.
LEMMA StepDrops == IInv /\ RInv /\ [Next]_vars => [dropped' /\ ~dropped => ~Followed]_vars
<1> SUFFICES ASSUME IInv, RInv, [Next]_vars, dropped', ~dropped, Followed PROVE FALSE
  OBVIOUS
<1>1. CASE HostData
  <2>1. active /\ RingFull /\ host.phase = "stream" /\ host.sent - Consumed < MaxInFlight
    BY <1>1 DEF HostData, Data
  <2>2. head = host.sent
    BY <2>1 DEF RInv, InStep
  <2>3. /\ RingSize \in Nat \ {0} /\ MaxInFlight \in Nat /\ MaxInFlight <= RingSize
        /\ head \in Nat /\ RingMin \in Nat
    BY OtaAssumption, Numbers, RingMinFacts
  <2>4. head - RingMin >= RingSize
    BY <2>1 DEF RingFull, RingCount
  <2>5. RingMin # head
    BY <2>3, <2>4
  <2>6. PICK t \in targets : RingMin = tr[t].next
    BY <2>5, RingMinFacts
  <2>7. t \in Trackers /\ t \in host.ids /\ host.seen[t] <= tr[t].next /\ host.seen[t] \in Nat
    BY <2>1, Numbers DEF RInv, Behind, Followed
  <2>8. Consumed \in Nat /\ Consumed <= host.seen[t]
    <3> DEFINE S == {host.seen[u] : u \in host.ids}
    <3>1. host.ids \in SUBSET Trackers
      BY DEF IInv, Types, HostType, HostState
    <3>2. S \in SUBSET Nat /\ host.seen[t] \in S
      BY <2>7, <3>1, Numbers
    <3>3. Consumed = MinOf(S)
      BY DEF Consumed
    <3> HIDE DEF S
    <3>4. QED
      BY <3>2, <3>3, MinExists
  <2>9. QED
    BY <2>1, <2>2, <2>3, <2>4, <2>6, <2>7, <2>8
<1>2. CASE ~HostData
  <2>1. dropped' = FALSE \/ dropped' = dropped
    BY <1>2 DEF Next, Works, Disturbed, Host, HidWork, vars, sysVars, BeginRadio, BeginCommit, BeginEnd,
      HostStart, HostResends, HostMovesOn, HostEnds, HostInterrupted, HostSends, Begin, Command, CancelAll,
      CancelTarget, TombExpires, TrackerDone, Ping, Status, ConsoleAbort, RadioOther, Forget, CmdExpires,
      TrackerFails
  <2>2. QED
    BY <2>1
<1>3. QED
  BY <1>1, <1>2

\* In every state each target can be sent again what it has not confirmed, and no step
\* drops a packet of a session that the host follows: the ring is full only for a
\* target that the host does not know of (ring_seq_min_locked,
\* esb_ota_relay_process_hid, and the window of the host tool).
THEOREM RingIsServed == Spec => RingServes
<1>1. Spec => []RInv
  BY Session, InitRing, StepRing, PTL DEF Spec
<1>2. RInv => Retransmittable
  BY DEF RInv
<1>3. Spec => DropsExplained
  BY <1>1, Session, StepDrops, PTL DEF Spec, DropsExplained
<1>4. QED
  BY <1>1, <1>2, <1>3, PTL DEF RingServes
=============================================================================
