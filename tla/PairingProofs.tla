---------------------------- MODULE PairingProofs ----------------------------
(***************************************************************************)
(* Proofs about Pairing for every set of devices, every size of the roster *)
(* and of the request queue, with resets and preemption anywhere, and with *)
(* failing writes that reached the flash or did not: the roster in use,    *)
(* the record in flash and the ids that devices were told agree, and the   *)
(* request queue holds the latest requests of the session under way.       *)
(***************************************************************************)
EXTENDS Pairing, SequenceTheorems, TLAPS

-----------------------------------------------------------------------------
(* The inductive invariant *)

OpState == [kind : {"none", "add", "pop", "clear"}, who : {"none", "esb", "user"}, dev : Devices \cup {NoDev}]
Doubts == {"none", "add", "pop", "clear"}
CallState == [kind : {"none", "start", "finish"}, count : 0..MaxTarget]
Points == {"boot", "count", "fresh", "loop", "drain", "parse", "add", "commit",
           "timeout", "target", "mark", "exit", "ended", "left"}

\* A roster: addresses in the order of their slots.
Slots == {s \in Seq(Devices) : Len(s) <= MaxTrackers}
Stored == Slots \cup {Absent, Corrupt}

StoreType ==
  /\ timeout \in Timeouts /\ record \in Stored /\ legacy \in Stored /\ roster \in Slots
  /\ ready \in BOOLEAN /\ rosterErr \in {"none", "transient", "invalid"}
SessionType ==
  /\ pairing \in BOOLEAN /\ blocked \in BOOLEAN
  /\ target \in 0..MaxTarget /\ initial \in 0..MaxTrackers
AgeType ==
  sessionAge \in 0..AgeTop \cup {None} /\ reachedAge \in 0..AgeTop \cup {None}
QueueType ==
  /\ queue \in Seq(Devices) /\ Len(queue) <= QueueCap
  /\ heard \in Seq(Devices) /\ Len(heard) <= QueueCap
ThreadType ==
  call \in CallState /\ pcE \in Points /\ evt \in Devices \cup {NoDev}
OpType == op \in OpState /\ doubt \in Doubts
AuxType == assigned \in [Devices -> Ids \cup {None}] /\ added \in 0..MaxTarget
Types == StoreType /\ SessionType /\ AgeType /\ QueueType /\ ThreadType /\ OpType /\ AuxType

\* The request in work is one of a device, and nothing is requested before the ESB
\* thread is in its loop.
Working ==
  /\ pcE \in {"parse", "add"} => evt \in Devices
  /\ ~Booted => ~pairing /\ queue = <<>>

\* A roster is in use only once it was loaded, and has no address twice.
InUse == (~ready => roster = <<>>) /\ Distinct(roster)

\* The flash is one operation ahead of the roster, until the operation commits; its
\* write succeeded, so it left no doubt.
Ahead ==
  /\ op.kind = "none" => op = NoOp
  /\ op # NoOp => doubt = "none"
  /\ op.kind = "add" =>
       /\ ready /\ op.dev \in Devices /\ ~Known(op.dev) /\ Len(roster) < MaxTrackers
       /\ record = Append(roster, op.dev)
       /\ op.who = "esb" => pcE = "commit"
  /\ op.kind = "pop" =>
       /\ ready /\ roster # <<>> /\ op.dev = roster[Len(roster)]
       /\ record = SubSeq(roster, 1, Len(roster) - 1)
  /\ op.kind = "clear" => record = <<>>

IInv == Types /\ Working /\ InUse /\ Ahead /\ FlashCurrent /\ IdsSurvive /\ NoStaleRequest

-----------------------------------------------------------------------------
(* Rosters *)

\* The constants.
LEMMA Constants ==
  /\ MaxTrackers \in Nat \ {0} /\ QueueCap \in Nat \ {0} /\ MaxTarget \in Nat \ {0}
  /\ Timeouts \in SUBSET Nat /\ ExitTicks \in Nat \ {0}
BY PairingAssumption

\* The empty roster.
LEMMA EmptyRoster ==
  /\ <<>> \in Slots /\ <<>> \in Seq(Devices) /\ Len(<<>>) = 0 /\ Distinct(<<>>) /\ Ran(<<>>) = {}
BY Constants DEF Slots, Distinct, Ran

\* Two ways to say that a sequence is a roster.
LEMMA RosterSlots == Rosters(MaxTrackers) = Slots
<1>1. ASSUME NEW s \in Rosters(MaxTrackers) PROVE s \in Slots
  <2>1. PICK k \in 0..MaxTrackers : s \in [1..k -> Devices]
    BY DEF Rosters
  <2>2. k \in Nat /\ k <= MaxTrackers
    BY Constants
  <2>3. s \in Seq(Devices) /\ Len(s) = k
    BY <2>1, <2>2
  <2>4. QED
    BY <2>2, <2>3 DEF Slots
<1>2. ASSUME NEW s \in Slots PROVE s \in Rosters(MaxTrackers)
  <2>1. s \in Seq(Devices) /\ Len(s) \in Nat /\ Len(s) <= MaxTrackers
    BY DEF Slots
  <2>2. s \in [1..Len(s) -> Devices] /\ Len(s) \in 0..MaxTrackers
    BY <2>1, Constants
  <2>3. QED
    BY <2>2 DEF Rosters
<1>3. QED
  BY <1>1, <1>2

\* A new address takes the next slot, and the others keep theirs.
LEMMA Appended ==
  ASSUME NEW s \in Seq(Devices), NEW d \in Devices
  PROVE  /\ Append(s, d) \in Seq(Devices) /\ Len(Append(s, d)) = Len(s) + 1
         /\ \A k \in 1..Len(s) : Append(s, d)[k] = s[k] /\ k \in 1..Len(Append(s, d))
         /\ Append(s, d)[Len(s) + 1] = d
         /\ Distinct(s) /\ d \notin Ran(s) => Distinct(Append(s, d))
         /\ Len(s) < MaxTrackers => Append(s, d) \in Slots
<1>1. /\ Append(s, d) \in Seq(Devices) /\ Len(Append(s, d)) = Len(s) + 1 /\ Len(s) \in Nat
      /\ \A k \in 1..Len(s) : Append(s, d)[k] = s[k] /\ k \in 1..Len(Append(s, d))
      /\ Append(s, d)[Len(s) + 1] = d
  OBVIOUS
<1>2. Distinct(s) /\ d \notin Ran(s) => Distinct(Append(s, d))
  <2>1. SUFFICES ASSUME Distinct(s), d \notin Ran(s),
                        NEW j \in DOMAIN Append(s, d), NEW k \in DOMAIN Append(s, d),
                        Append(s, d)[j] = Append(s, d)[k]
                 PROVE  j = k
    BY DEF Distinct
  <2>2. j \in 1..Len(s) + 1 /\ k \in 1..Len(s) + 1 /\ DOMAIN s = 1..Len(s)
    BY <1>1
  <2>3. \A i \in 1..Len(s) : s[i] # d
    BY <2>1 DEF Ran
  <2>4. \A i \in 1..Len(s), m \in 1..Len(s) : s[i] = s[m] => i = m
    BY <2>1, <2>2 DEF Distinct
  <2>5. (j \in 1..Len(s) \/ j = Len(s) + 1) /\ (k \in 1..Len(s) \/ k = Len(s) + 1)
    BY <1>1, <2>2
  <2>6. QED
    BY <1>1, <2>1, <2>3, <2>4, <2>5
<1>3. Len(s) < MaxTrackers => Append(s, d) \in Slots
  BY <1>1, Constants DEF Slots
<1>4. QED
  BY <1>1, <1>2, <1>3

\* Without the last slot, the others keep theirs.
LEMMA Popped ==
  ASSUME NEW s \in Slots, s # <<>>, NEW p, p = SubSeq(s, 1, Len(s) - 1)
  PROVE  /\ p \in Slots /\ Len(s) \in Nat \ {0} /\ Len(p) = Len(s) - 1
         /\ \A k \in 1..Len(s) - 1 : p[k] = s[k]
         /\ s[Len(s)] \in Devices
         /\ Distinct(s) => Distinct(p)
<1>1. s \in Seq(Devices) /\ Len(s) \in Nat /\ Len(s) <= MaxTrackers /\ MaxTrackers \in Nat
  BY Constants DEF Slots
<1>2. Len(s) # 0
  BY <1>1
<1>3. Len(s) - 1 \in Nat /\ s[Len(s)] \in Devices
  BY <1>1, <1>2
<1>4. /\ p \in Seq(Devices) /\ Len(p) = Len(s) - 1
      /\ \A k \in 1..Len(s) - 1 : p[k] = s[k]
  <2>1. 1 \in Int /\ Len(s) - 1 \in Int /\ \A i \in 1..Len(s) - 1 : s[i] \in Devices
    BY <1>1, <1>2
  <2>2. /\ SubSeq(s, 1, Len(s) - 1) \in Seq(Devices)
        /\ Len(SubSeq(s, 1, Len(s) - 1)) = IF 1 <= Len(s) - 1 THEN Len(s) - 1 - 1 + 1 ELSE 0
        /\ \A i \in 1..Len(s) - 1 - 1 + 1 : SubSeq(s, 1, Len(s) - 1)[i] = s[1 + i - 1]
    BY <2>1, SubSeqProperties
  <2> DEFINE q == SubSeq(s, 1, Len(s) - 1)
  <2> HIDE DEF q
  <2>3. p = q /\ q \in Seq(Devices) /\ Len(q) = IF 1 <= Len(s) - 1 THEN Len(s) - 1 - 1 + 1 ELSE 0
    BY <2>2 DEF q
  <2>4. \A i \in 1..Len(s) - 1 : q[i] = s[i]
    <3>1. \A i \in 1..Len(s) - 1 - 1 + 1 : q[i] = s[1 + i - 1]
      BY <2>2 DEF q
    <3>2. ASSUME NEW i \in 1..Len(s) - 1 PROVE q[i] = s[i]
      <4>1. i \in 1..Len(s) - 1 - 1 + 1 /\ 1 + i - 1 = i
        BY <1>1
      <4>2. QED
        BY <3>1, <4>1
    <3>3. QED
      BY <3>2
  <2>5. Len(q) = Len(s) - 1
    <3>1. \A n \in Nat \ {0} : (IF 1 <= n - 1 THEN n - 1 - 1 + 1 ELSE 0) = n - 1
      OBVIOUS
    <3>2. Len(s) \in Nat \ {0}
      BY <1>1, <1>2
    <3>3. QED
      BY <2>3, <3>1, <3>2, Zenon
  <2>6. QED
    BY <2>3, <2>4, <2>5
<1>5. p \in Slots
  BY <1>1, <1>4 DEF Slots
<1>6. ASSUME Distinct(s) PROVE Distinct(p)
  <2>1. DOMAIN p = 1..Len(s) - 1 /\ DOMAIN s = 1..Len(s)
    BY <1>1, <1>4
  <2>2. \A k \in DOMAIN p : k \in DOMAIN s /\ p[k] = s[k]
    BY <1>1, <1>4, <2>1
  <2>3. QED
    BY <1>6, <2>2 DEF Distinct
<1>7. QED
  BY <1>1, <1>2, <1>3, <1>4, <1>5, <1>6
-----------------------------------------------------------------------------
(* Ends of sequences *)

\* A new request comes last in both.
LEMMA EndAppend ==
  ASSUME NEW s \in Seq(Devices), NEW t \in Seq(Devices), NEW d \in Devices, EndOf(s, t)
  PROVE  EndOf(Append(s, d), Append(t, d))
<1>1. /\ Len(s) \in Nat /\ Len(t) \in Nat /\ Len(s) <= Len(t)
      /\ \A k \in 1..Len(s) : s[k] = t[Len(t) - Len(s) + k]
  BY DEF EndOf
<1>2. /\ Len(Append(s, d)) = Len(s) + 1 /\ Append(s, d)[Len(s) + 1] = d
      /\ \A k \in 1..Len(s) : Append(s, d)[k] = s[k]
  BY Appended
<1>3. /\ Len(Append(t, d)) = Len(t) + 1 /\ Append(t, d)[Len(t) + 1] = d
      /\ \A k \in 1..Len(t) : Append(t, d)[k] = t[k]
  BY Appended
<1> DEFINE a == Append(s, d)
           b == Append(t, d)
<1> HIDE DEF a, b
<1>4. ASSUME NEW k \in 1..Len(s) + 1 PROVE a[k] = b[Len(t) + 1 - (Len(s) + 1) + k]
  <2>1. CASE k = Len(s) + 1
    <3>1. Len(t) + 1 - (Len(s) + 1) + k = Len(t) + 1
      BY <1>1, <2>1
    <3>2. QED
      BY <1>2, <1>3, <2>1, <3>1 DEF a, b
  <2>2. CASE k # Len(s) + 1
    <3>1. /\ k \in 1..Len(s) /\ Len(t) + 1 - (Len(s) + 1) + k = Len(t) - Len(s) + k
          /\ Len(t) - Len(s) + k \in 1..Len(t)
      BY <1>1, <2>2
    <3>2. a[k] = s[k] /\ b[Len(t) - Len(s) + k] = t[Len(t) - Len(s) + k]
      BY <1>2, <1>3, <3>1 DEF a, b
    <3>3. QED
      BY <1>1, <3>1, <3>2
  <2>3. QED
    BY <2>1, <2>2
<1>5. Len(a) = Len(s) + 1 /\ Len(b) = Len(t) + 1 /\ Len(s) + 1 <= Len(t) + 1
  BY <1>1, <1>2, <1>3 DEF a, b
<1>6. EndOf(a, b)
  BY <1>4, <1>5 DEF EndOf
<1>7. QED
  BY <1>6 DEF a, b

\* The first request is taken off the end, or off what is longer than it.
LEMMA EndTail ==
  ASSUME NEW s \in Seq(Devices), NEW t \in Seq(Devices), EndOf(s, t)
  PROVE  /\ s # <<>> => EndOf(Tail(s), t)
         /\ Len(s) < Len(t) => EndOf(s, Tail(t))
<1>1. /\ Len(s) \in Nat /\ Len(t) \in Nat /\ Len(s) <= Len(t)
      /\ \A k \in 1..Len(s) : s[k] = t[Len(t) - Len(s) + k]
  BY DEF EndOf
<1>2. ASSUME s # <<>> PROVE EndOf(Tail(s), t)
  <2>1. Len(s) \in Nat \ {0}
    BY <1>1, <1>2
  <2>2. Len(Tail(s)) = Len(s) - 1 /\ \A k \in 1..Len(s) - 1 : Tail(s)[k] = s[k + 1]
    BY <1>2, <2>1
  <2> DEFINE u == Tail(s)
  <2> HIDE DEF u
  <2>3. ASSUME NEW k \in 1..Len(s) - 1 PROVE u[k] = t[Len(t) - (Len(s) - 1) + k]
    <3>1. k + 1 \in 1..Len(s) /\ Len(t) - (Len(s) - 1) + k = Len(t) - Len(s) + (k + 1)
      BY <1>1
    <3>2. u[k] = s[k + 1]
      BY <2>2 DEF u
    <3>3. QED
      BY <1>1, <3>1, <3>2
  <2>4. Len(u) = Len(s) - 1 /\ Len(s) - 1 <= Len(t)
    BY <1>1, <2>2 DEF u
  <2>5. EndOf(u, t)
    BY <2>3, <2>4 DEF EndOf
  <2>6. QED
    BY <2>5 DEF u
<1>3. ASSUME Len(s) < Len(t) PROVE EndOf(s, Tail(t))
  <2>1. Len(t) \in Nat \ {0} /\ t # <<>>
    BY <1>1, <1>3
  <2>2. Len(Tail(t)) = Len(t) - 1 /\ \A k \in 1..Len(t) - 1 : Tail(t)[k] = t[k + 1]
    BY <2>1
  <2> DEFINE u == Tail(t)
  <2> HIDE DEF u
  <2>3. ASSUME NEW k \in 1..Len(s) PROVE s[k] = u[Len(t) - 1 - Len(s) + k]
    <3> DEFINE j == Len(t) - 1 - Len(s) + k
    <3>1. j \in 1..Len(t) - 1 /\ j + 1 = Len(t) - Len(s) + k
      BY <1>1, <1>3
    <3> HIDE DEF j
    <3>2. u[j] = t[j + 1]
      BY <2>2, <3>1 DEF u
    <3>3. s[k] = t[j + 1]
      BY <1>1, <3>1
    <3>4. QED
      BY <3>2, <3>3 DEF j
  <2>4. Len(u) = Len(t) - 1 /\ Len(s) <= Len(t) - 1
    BY <1>1, <1>3, <2>2 DEF u
  <2>5. EndOf(s, u)
    BY <2>3, <2>4 DEF EndOf
  <2>6. QED
    BY <2>5 DEF u
<1>4. QED
  BY <1>2, <1>3

\* Nothing is the end of everything.
LEMMA EndEmpty == ASSUME NEW t \in Seq(Devices) PROVE EndOf(<<>>, t)
BY DEF EndOf

\* Room for one more.
LEMMA RoomyType ==
  ASSUME NEW q \in Seq(Devices), Len(q) <= QueueCap
  PROVE  /\ Roomy(q) \in Seq(Devices) /\ Len(Roomy(q)) \in Nat /\ Len(Roomy(q)) < QueueCap
         /\ Roomy(q) = IF Len(q) = QueueCap THEN Tail(q) ELSE q
<1>1. QueueCap \in Nat \ {0} /\ Len(q) \in Nat
  BY Constants
<1>2. CASE Len(q) = QueueCap
  <2>1. q # <<>>
    BY <1>1, <1>2
  <2>2. Tail(q) \in Seq(Devices) /\ Len(Tail(q)) = Len(q) - 1
    BY <2>1
  <2>3. QED
    BY <1>1, <1>2, <2>2 DEF Roomy
<1>3. CASE Len(q) # QueueCap
  BY <1>1, <1>3 DEF Roomy
<1>4. QED
  BY <1>2, <1>3
-----------------------------------------------------------------------------
(* Steps of sessions *)

\* The queue and what was heard stay as they are or are emptied.
LEMMA Purged ==
  ASSUME QueueType, queue' = queue \/ queue' = <<>>, heard' = heard \/ heard' = <<>>
  PROVE  QueueType'
<1>1. <<>> \in Seq(Devices) /\ Len(<<>>) <= QueueCap
  BY EmptyRoster, Constants
<1>2. queue' \in Seq(Devices) /\ Len(queue') <= QueueCap
  <2>1. CASE queue' = queue
    BY <2>1 DEF QueueType
  <2>2. CASE queue' = <<>>
    BY <1>1, <2>2
  <2>3. QED
    BY <2>1, <2>2
<1>3. heard' \in Seq(Devices) /\ Len(heard') <= QueueCap
  <2>1. CASE heard' = heard
    BY <2>1 DEF QueueType
  <2>2. CASE heard' = <<>>
    BY <1>1, <2>2
  <2>3. QED
    BY <2>1, <2>2
<1>4. QED
  BY <1>2, <1>3 DEF QueueType

\* A step that leaves the roster, the flash and the ids alone.
LEMMA SessionStep ==
  ASSUME IInv, UNCHANGED <<storeVars, op, doubt, assigned>>, SessionType', AgeType', QueueType', ThreadType',
         added' \in 0..MaxTarget, Working', NoStaleRequest', pcE = "commit" => pcE' = "commit"
  PROVE  IInv'
<1>1. /\ timeout' = timeout /\ record' = record /\ legacy' = legacy /\ roster' = roster /\ ready' = ready
      /\ rosterErr' = rosterErr /\ op' = op /\ doubt' = doubt /\ assigned' = assigned
  BY DEF storeVars
<1>2. StoreType' /\ OpType' /\ AuxType'
  BY <1>1 DEF IInv, Types, StoreType, OpType, AuxType
<1>3. InUse' /\ FlashCurrent'
  BY <1>1 DEF IInv, InUse, FlashCurrent
<1>4. Ahead'
  BY <1>1 DEF IInv, Ahead, Known
<1>5. IdsSurvive'
  BY <1>1 DEF IInv, IdsSurvive, Removing, Leaving
<1>6. QED
  BY <1>2, <1>3, <1>4, <1>5 DEF IInv, Types

\* The bound of the ages.
LEMMA Ages ==
  ASSUME StoreType
  PROVE  AgeTop \in Nat /\ 0 \in 0..AgeTop \cup {None} /\ None \in 0..AgeTop \cup {None} /\ None \notin Nat
<1>1. timeout \in Nat /\ ExitTicks \in Nat
  BY Constants DEF StoreType
<1>2. QED
  BY <1>1 DEF AgeTop, None

\* No call, and the call of a session command.
LEMMA CallTypes == NoCall \in CallState /\ NoCall.kind = "none"
BY Constants DEF NoCall, CallState

\* The session commands of users.
LEMMA UserSteps ==
  ASSUME IInv, UserStart \/ UserStarted \/ UserFinish \/ UserFinished
  PROVE  IInv'
<1>0. StoreType /\ SessionType /\ AgeType /\ QueueType /\ ThreadType /\ added \in 0..MaxTarget /\ Working /\ call \in CallState
  BY DEF IInv, Types, ThreadType, AuxType
<1>1. UNCHANGED <<storeVars, op, doubt, assigned>> /\ pcE' = pcE /\ evt' = evt
  BY DEF UserStart, UserStarted, UserFinish, UserFinished
<1>2. timeout' = timeout /\ AgeTop' = AgeTop /\ 0 \in 0..MaxTarget /\ 0 \in 0..MaxTrackers
  BY <1>1, Constants DEF storeVars, AgeTop
<1>3. Working'
  BY <1>0, <1>1
  DEF Working, Booted, UserStart, UserStarted, UserFinish, UserFinished, StartRest, FinishRest
<1>4. CASE UserStart \/ UserFinish
  <2>1. /\ UNCHANGED <<target, initial, sessionAge, reachedAge, blocked>> /\ queue' = queue /\ added' = added
        /\ pairing' \in BOOLEAN /\ heard' = <<>> /\ Booted
    BY <1>4 DEF UserStart, UserFinish
  <2>2. PICK k \in {"start", "finish"}, n \in 0..MaxTarget : call' = [kind |-> k, count |-> n]
    BY <1>2, <1>4 DEF UserStart, UserFinish
  <2>3. call' \in CallState /\ call'.kind # "none"
    BY <2>2 DEF CallState
  <2>4. call' # NoCall
    BY <2>3, CallTypes
  <2>5. SessionType' /\ AgeType' /\ QueueType' /\ ThreadType'
    BY <1>0, <1>1, <1>2, <2>1, <2>3, EmptyRoster, Constants DEF SessionType, AgeType, QueueType, ThreadType
  <2>6. NoStaleRequest'
    BY <2>4 DEF NoStaleRequest
  <2>7. QED
    BY <1>0, <1>1, <1>3, <2>1, <2>5, <2>6, SessionStep
<1>5. CASE UserStarted \/ UserFinished
  <2>1. /\ call' = NoCall /\ queue' = <<>> /\ heard' = heard /\ pairing' = pairing /\ sessionAge' \in {0, None}
        /\ reachedAge' \in {reachedAge, None} /\ blocked' \in {blocked, FALSE} /\ added' \in {added, 0}
    BY <1>5 DEF UserStarted, UserFinished, StartRest, FinishRest
  <2>2. target' \in 0..MaxTarget
    <3>1. target' = call.count \/ target' = 0
      BY <1>5 DEF UserStarted, UserFinished, StartRest, FinishRest
    <3>2. QED
      BY <1>0, <1>2, <3>1 DEF CallState
  <2>3. initial' \in 0..MaxTrackers
    <3>1. initial' = Len(roster) \/ initial' = 0
      BY <1>5 DEF UserStarted, UserFinished, StartRest, FinishRest
    <3>2. Len(roster) \in Nat /\ Len(roster) <= MaxTrackers /\ MaxTrackers \in Nat
      BY <1>0, Constants DEF StoreType, Slots
    <3>3. QED
      BY <3>1, <3>2
  <2>4. SessionType'
    BY <1>0, <2>1, <2>2, <2>3 DEF SessionType
  <2>5. AgeType'
    BY <1>0, <1>2, <2>1, Ages DEF AgeType
  <2>6. QueueType'
    BY <1>0, <2>1, EmptyRoster, Constants DEF QueueType
  <2>7. ThreadType' /\ NoStaleRequest' /\ added' \in 0..MaxTarget
    BY <1>0, <1>1, <1>2, <2>1, CallTypes, EndEmpty DEF ThreadType, NoStaleRequest, QueueType
  <2>8. QED
    BY <1>1, <1>3, <2>4, <2>5, <2>6, <2>7, SessionStep
<1>6. QED
  BY <1>4, <1>5

\* A discovery packet of an unknown device.
LEMMA RequestStep ==
  ASSUME IInv, NEW d \in Devices, Request(d)
  PROVE  IInv'
<1>0. /\ StoreType /\ SessionType /\ AgeType /\ QueueType /\ ThreadType /\ added \in 0..MaxTarget
      /\ Working /\ NoStaleRequest
  BY DEF IInv, Types, AuxType
<1> DEFINE q == Roomy(queue)
           h == Roomy(heard)
<1>1. /\ pairing /\ queue' = Append(q, d) /\ heard' = Append(h, d)
      /\ UNCHANGED <<storeVars, op, doubt, assigned>> /\ UNCHANGED <<pairing, target, initial, sessionAge, reachedAge, blocked>>
      /\ call' = call /\ pcE' = pcE /\ evt' = evt /\ added' = added /\ timeout' = timeout
  BY DEF Request, Roomy, sessionVars, threadVars, storeVars
<1>2. /\ QueueCap \in Nat \ {0} /\ queue \in Seq(Devices) /\ Len(queue) \in Nat /\ Len(queue) <= QueueCap
      /\ heard \in Seq(Devices) /\ Len(heard) \in Nat /\ Len(heard) <= QueueCap
  BY <1>0, Constants DEF QueueType
<1>3. /\ q \in Seq(Devices) /\ Len(q) \in Nat /\ Len(q) < QueueCap
      /\ q = IF Len(queue) = QueueCap THEN Tail(queue) ELSE queue
  BY <1>2, RoomyType
<1>4. /\ h \in Seq(Devices) /\ Len(h) \in Nat /\ Len(h) < QueueCap
      /\ h = IF Len(heard) = QueueCap THEN Tail(heard) ELSE heard
  BY <1>2, RoomyType
<1> HIDE DEF q, h
<1>5. QueueType'
  <2>1. /\ Append(q, d) \in Seq(Devices) /\ Len(Append(q, d)) = Len(q) + 1
        /\ Append(h, d) \in Seq(Devices) /\ Len(Append(h, d)) = Len(h) + 1
    BY <1>3, <1>4
  <2>2. QED
    BY <1>1, <1>2, <1>3, <1>4, <2>1 DEF QueueType
<1>6. ASSUME EndOf(queue, heard) PROVE EndOf(queue', heard')
  <2>0. Len(queue) <= Len(heard)
    BY <1>6 DEF EndOf
  <2>1. CASE Len(queue) = QueueCap
    <3>1. Len(heard) = QueueCap /\ queue # <<>>
      BY <1>2, <2>0, <2>1
    <3>2. q = Tail(queue) /\ h = Tail(heard) /\ EndOf(Tail(queue), heard)
      BY <1>2, <1>3, <1>4, <1>6, <2>1, <3>1, EndTail
    <3>3. EndOf(q, h)
      BY <1>2, <1>3, <3>1, <3>2, EndTail
    <3>4. QED
      BY <1>1, <1>3, <1>4, <3>3, EndAppend
  <2>2. CASE Len(queue) # QueueCap
    <3>1. q = queue /\ Len(queue) < QueueCap
      BY <1>2, <1>3, <2>2
    <3>2. EndOf(q, h)
      <4>1. CASE Len(heard) = QueueCap
        BY <1>2, <1>4, <1>6, <3>1, <4>1, EndTail
      <4>2. CASE Len(heard) # QueueCap
        BY <1>4, <1>6, <3>1, <4>2
      <4>3. QED
        BY <4>1, <4>2
    <3>3. QED
      BY <1>1, <1>3, <1>4, <3>2, EndAppend
  <2>3. QED
    BY <2>1, <2>2
<1>7. AgeTop' = AgeTop
  BY <1>1 DEF AgeTop
<1>8. SessionType' /\ AgeType' /\ ThreadType' /\ Working'
  BY <1>0, <1>1, <1>7 DEF SessionType, AgeType, ThreadType, Working, Booted
<1>9. NoStaleRequest'
  BY <1>0, <1>1, <1>6 DEF NoStaleRequest
<1>10. QED
  BY <1>0, <1>1, <1>5, <1>8, <1>9, SessionStep

\* Time passes.
LEMMA TickStep ==
  ASSUME IInv, Tick
  PROVE  IInv'
<1>0. StoreType /\ SessionType /\ AgeType /\ QueueType /\ ThreadType /\ added \in 0..MaxTarget /\ Working /\ NoStaleRequest
  BY DEF IInv, Types, AuxType
<1>1. /\ UNCHANGED <<storeVars, op, doubt, assigned>> /\ UNCHANGED <<pairing, target, initial, blocked>> /\ queue' = queue /\ heard' = heard
      /\ call' = call /\ pcE' = pcE /\ evt' = evt /\ added' = added /\ timeout' = timeout
      /\ sessionAge' = Older(sessionAge) /\ reachedAge' = Older(reachedAge)
  BY DEF Tick, threadVars, storeVars
<1>2. ASSUME NEW age \in 0..AgeTop \cup {None} PROVE Older(age) \in 0..AgeTop \cup {None}
  <2>1. AgeTop \in Nat
    BY <1>0, Ages
  <2>2. CASE age = None \/ age = AgeTop
    BY <2>2 DEF Older
  <2>3. CASE age # None /\ age # AgeTop
    <3>1. age \in 0..AgeTop /\ Older(age) = age + 1
      BY <2>3 DEF Older
    <3>2. QED
      BY <2>1, <2>3, <3>1
  <2>4. QED
    BY <2>2, <2>3
<1>3. AgeTop' = AgeTop
  BY <1>1 DEF AgeTop
<1>4. AgeType'
  BY <1>0, <1>1, <1>2, <1>3 DEF AgeType
<1>5. SessionType' /\ QueueType' /\ ThreadType' /\ Working' /\ NoStaleRequest'
  BY <1>0, <1>1 DEF SessionType, QueueType, ThreadType, Working, Booted, NoStaleRequest
<1>6. QED
  BY <1>0, <1>1, <1>4, <1>5, SessionStep

\* The steps of the ESB thread that only move it on.
LEMMA EsbMoves ==
  ASSUME IInv, EsbCount \/ EsbLoop \/ EsbParse \/ EsbTarget \/ EsbDrain
  PROVE  IInv'
<1>0. StoreType /\ SessionType /\ AgeType /\ QueueType /\ ThreadType /\ added \in 0..MaxTarget /\ Working /\ NoStaleRequest
  BY DEF IInv, Types, AuxType
<1>1. /\ UNCHANGED <<storeVars, op, doubt, assigned>> /\ UNCHANGED <<pairing, target, initial, sessionAge, reachedAge, blocked>>
      /\ call' = call /\ added' = added /\ timeout' = timeout /\ pcE \notin {"commit", "ended", "left"} /\ heard' = heard
  BY DEF EsbCount, EsbLoop, EsbParse, EsbTarget, EsbDrain, sessionVars, storeVars
<1>2. AgeTop' = AgeTop
  BY <1>1 DEF AgeTop
<1>3. SessionType' /\ AgeType'
  BY <1>0, <1>1, <1>2 DEF SessionType, AgeType
<1>4. CASE EsbCount \/ EsbLoop \/ EsbParse \/ EsbTarget
  <2>1. /\ queue' = queue /\ evt' = evt /\ pcE' \in Points /\ (pcE' \in {"parse", "add"} => pcE \in {"parse", "add"})
        /\ ~Booted' => ~Booted
    BY <1>4 DEF EsbCount, EsbLoop, EsbParse, EsbTarget, Points, Booted
  <2>2. QueueType' /\ ThreadType' /\ Working' /\ NoStaleRequest'
    BY <1>0, <1>1, <2>1 DEF QueueType, ThreadType, Working, NoStaleRequest
  <2>3. QED
    BY <1>0, <1>1, <1>3, <2>2, SessionStep
<1>5. CASE EsbDrain /\ queue = <<>>
  <2>1. pcE' = "timeout" /\ queue' = queue /\ evt' = evt
    BY <1>5 DEF EsbDrain
  <2>2. QueueType' /\ ThreadType' /\ Working' /\ NoStaleRequest'
    BY <1>0, <1>1, <2>1, <1>5 DEF QueueType, ThreadType, Working, Booted, NoStaleRequest, Points
  <2>3. QED
    BY <1>0, <1>1, <1>3, <2>2, SessionStep
<1>6. CASE EsbDrain /\ queue # <<>>
  <2>1. pcE' = "parse" /\ evt' = Head(queue) /\ queue' = Tail(queue)
    BY <1>6 DEF EsbDrain
  <2>2. queue \in Seq(Devices) /\ Len(queue) \in Nat /\ Len(queue) <= QueueCap /\ QueueCap \in Nat
    BY <1>0, Constants DEF QueueType
  <2>3. Head(queue) \in Devices /\ Tail(queue) \in Seq(Devices) /\ Len(Tail(queue)) = Len(queue) - 1
    BY <1>6, <2>2
  <2>4. QueueType'
    BY <1>0, <1>1, <2>1, <2>2, <2>3 DEF QueueType
  <2>5. ThreadType' /\ Working'
    BY <1>0, <1>1, <2>1, <2>3 DEF ThreadType, Working, Booted, Points
  <2>6. NoStaleRequest'
    <3>1. heard \in Seq(Devices) /\ (EndOf(queue, heard) => EndOf(Tail(queue), heard))
      BY <1>0, <1>6, <2>2, EndTail DEF QueueType
    <3>2. QED
      BY <1>0, <1>1, <2>1, <3>1 DEF NoStaleRequest
  <2>7. QED
    BY <1>0, <1>1, <1>3, <2>4, <2>5, <2>6, SessionStep
<1>7. QED
  BY <1>4, <1>5, <1>6

\* The steps of the ESB thread that start, mark and end sessions.
LEMMA EsbSessions ==
  ASSUME IInv, EsbFresh \/ EsbTimeout \/ EsbFinished \/ EsbMark \/ EsbExit
  PROVE  IInv'
<1>0. StoreType /\ SessionType /\ AgeType /\ QueueType /\ ThreadType /\ added \in 0..MaxTarget /\ Working /\ NoStaleRequest
  BY DEF IInv, Types, AuxType
<1>1. /\ UNCHANGED <<storeVars, op, doubt, assigned>> /\ timeout' = timeout /\ call' = call /\ evt' = evt
      /\ pcE # "commit" /\ pcE' \in Points \ {"parse", "add"}
  BY DEF EsbFresh, EsbTimeout, EsbFinished, EsbMark, EsbExit, storeVars, Points
<1>2. AgeTop' = AgeTop
  BY <1>1 DEF AgeTop
<1>3. /\ pairing' \in {pairing, TRUE, FALSE} /\ target' \in {target, 0} /\ initial' \in {initial, 0}
      /\ sessionAge' \in {sessionAge, 0, None} /\ reachedAge' \in {reachedAge, 0, None}
      /\ added' \in {added, 0}
  BY DEF EsbFresh, EsbTimeout, EsbFinished, EsbMark, EsbExit, sessionVars, FinishRest, ReachedOnce
<1>4. blocked' \in BOOLEAN
  BY <1>0 DEF EsbFresh, EsbTimeout, EsbFinished, EsbMark, EsbExit, sessionVars, FinishRest, SessionType
<1>5. 0 \in 0..MaxTarget /\ 0 \in 0..MaxTrackers
  BY Constants
<1>6. SessionType' /\ added' \in 0..MaxTarget
  BY <1>0, <1>3, <1>4, <1>5 DEF SessionType
<1>7. AgeType'
  BY <1>0, <1>2, <1>3, Ages DEF AgeType
<1>8. ThreadType' /\ Working'
  BY <1>0, <1>1 DEF ThreadType, Working, Booted, EsbFresh, EsbTimeout, EsbFinished, EsbMark, EsbExit
<1>9. /\ \/ queue' = <<>>
         \/ /\ queue' = queue /\ pcE \notin {"ended", "left"}
            /\ heard' = heard \/ pcE' \in {"ended", "left"}
      /\ heard' \in {heard, <<>>}
  BY <1>0 DEF EsbFresh, EsbTimeout, EsbFinished, EsbMark, EsbExit, sessionVars, FinishRest, Working, Booted
<1>10. QueueType'
  BY <1>0, <1>9, Purged
<1>11. NoStaleRequest'
  <2>1. CASE queue' = <<>>
    BY <1>10, <2>1, EndEmpty DEF NoStaleRequest, QueueType
  <2>2. CASE queue' # <<>>
    BY <1>0, <1>1, <1>9, <2>2 DEF NoStaleRequest
  <2>3. QED
    BY <2>1, <2>2
<1>12. QED
  BY <1>1, <1>6, <1>7, <1>8, <1>10, <1>11, SessionStep
-----------------------------------------------------------------------------
(* Steps of the roster *)

\* The slot of a device that was told its id.
LEMMA Held ==
  ASSUME IInv, NEW d \in Devices, assigned[d] # None, NEW k, k = assigned[d] + 1
  PROVE  /\ k \in Nat \ {0}
         /\ ready => k \in 1..Len(roster) /\ roster[k] = d
         /\ d \notin Removing \cup Leaving => k <= Len(record) /\ record[k] = d
<1>1. assigned[d] \in Ids
  BY DEF IInv, Types, AuxType
<1>2. k \in Nat \ {0}
  BY <1>1, Constants DEF Ids
<1>3. /\ ready => k <= Len(roster) /\ roster[k] = d
      /\ d \notin Removing \cup Leaving => k <= Len(record) /\ record[k] = d
  BY DEF IInv, IdsSurvive
<1>4. Len(roster) \in Nat
  BY DEF IInv, Types, StoreType, Slots
<1>5. QED
  BY <1>2, <1>3, <1>4

\* What the invariant says of the device of an id, once more.
LEMMA IdsFrom ==
  ASSUME \A d \in Devices : assigned'[d] # None =>
           /\ ready' => assigned'[d] + 1 <= Len(roster') /\ roster'[assigned'[d] + 1] = d
           /\ d \notin Removing' \cup Leaving' => assigned'[d] + 1 <= Len(record') /\ record'[assigned'[d] + 1] = d
  PROVE  IdsSurvive'
BY DEF IdsSurvive

\* No operation.
LEMMA NoOpFacts == NoOp \in OpState /\ NoOp.kind = "none" /\ \A o \in OpState : o = NoOp => o.kind = "none"
BY DEF NoOp, OpState

\* A step that writes a record and leaves the roster as it is.
LEMMA SaveStep ==
  ASSUME IInv, UNCHANGED <<timeout, legacy, roster, ready, rosterErr>>,
         UNCHANGED <<target, initial, sessionAge, reachedAge, blocked>>, UNCHANGED <<assigned, added>>,
         pairing' \in BOOLEAN, QueueType', ThreadType', Working', NoStaleRequest',
         record' \in Stored, op' \in OpState, doubt' \in Doubts, Ahead', FlashCurrent', IdsSurvive'
  PROVE  IInv'
<1>1. StoreType' /\ SessionType' /\ OpType' /\ AuxType'
  BY DEF IInv, Types, StoreType, SessionType, OpType, AuxType
<1>2. AgeType'
  BY DEF IInv, Types, AgeType, AgeTop
<1>3. InUse'
  BY DEF IInv, InUse
<1>4. QED
  BY <1>1, <1>2, <1>3 DEF IInv, Types

\* A write: it succeeds, reports an error that is one, or reports an error although
\* the roster reached the flash.
LEMMA Saved ==
  ASSUME NEW kind \in Doubts, NEW s, NEW ok \in BOOLEAN, Save(kind, s, ok)
  PROVE  \/ ok /\ record' = s /\ doubt' = "none"
         \/ ~ok /\ record' = record /\ doubt' = doubt
         \/ ~ok /\ record' = s /\ doubt' = kind
BY DEF Save

\* The record of a roster with a new device has every id.
LEMMA AddRecorded ==
  ASSUME IInv, NEW d \in Devices, AddWrites(d), record' = Append(roster, d),
         UNCHANGED <<roster, ready, assigned>>
  PROVE  record' \in Stored /\ IdsSurvive' /\ ready /\ d \notin Ran(roster) /\ Len(roster) < MaxTrackers
<1>1. ready /\ d \notin Ran(roster) /\ Len(roster) < MaxTrackers /\ roster \in Slots /\ roster \in Seq(Devices)
  BY DEF AddWrites, Known, IInv, Types, StoreType, Slots
<1>2. /\ Append(roster, d) \in Slots /\ Len(Append(roster, d)) = Len(roster) + 1
      /\ \A k \in 1..Len(roster) : Append(roster, d)[k] = roster[k]
  BY <1>1, Appended
<1>3. IdsSurvive'
  <2>1. ASSUME NEW e \in Devices, assigned[e] # None
        PROVE  /\ assigned[e] + 1 <= Len(roster) /\ roster[assigned[e] + 1] = e
               /\ assigned[e] + 1 <= Len(record') /\ record'[assigned[e] + 1] = e
    <3> DEFINE k == assigned[e] + 1
    <3>1. k \in 1..Len(roster) /\ roster[k] = e
      BY <1>1, <2>1, Held
    <3> HIDE DEF k
    <3>2. k <= Len(roster) /\ k <= Len(record') /\ record'[k] = e
      BY <1>1, <1>2, <3>1
    <3>3. QED
      BY <3>1, <3>2 DEF k
  <2>2. QED
    BY <2>1, IdsFrom
<1>4. QED
  BY <1>1, <1>2, <1>3 DEF Stored

\* What esb_add_pair leaves behind: an operation to commit, nothing, or a record that
\* is ahead of the roster.
LEMMA AddSaved ==
  ASSUME IInv, op = NoOp, NEW d \in Devices, AddWrites(d), NEW who \in {"esb", "user"}, NEW ok \in BOOLEAN,
         AddSave(who, d, ok), UNCHANGED <<roster, ready, assigned>>, ok /\ who = "esb" => pcE' = "commit"
  PROVE  \/ UNCHANGED <<record, op, doubt>>
         \/ /\ record' \in Stored /\ op' \in OpState /\ doubt' \in Doubts
            /\ Ahead' /\ FlashCurrent' /\ IdsSurvive'
<1>0. "add" \in Doubts /\ "none" \in Doubts
  BY DEF Doubts
<1>1. /\ Save("add", Append(roster, d), ok)
      /\ op' = IF ok THEN [kind |-> "add", who |-> who, dev |-> d] ELSE op
  BY DEF AddSave
<1>2. CASE ok /\ record' = Append(roster, d) /\ doubt' = "none"
  <2>1. op'.kind = "add" /\ op'.who = who /\ op'.dev = d /\ op' \in OpState /\ op' # NoOp
    <3>1. op' = [kind |-> "add", who |-> who, dev |-> d]
      BY <1>1, <1>2
    <3>2. QED
      BY <3>1, NoOpFacts DEF OpState
  <2>2. record' \in Stored /\ IdsSurvive' /\ ready /\ d \notin Ran(roster) /\ Len(roster) < MaxTrackers
    BY <1>2, AddRecorded
  <2>3. Ahead'
    BY <1>2, <2>1, <2>2 DEF Ahead, Known
  <2>4. FlashCurrent'
    BY <2>1 DEF FlashCurrent
  <2>5. QED
    BY <1>0, <1>2, <2>1, <2>2, <2>3, <2>4
<1>3. CASE ~ok /\ record' = record /\ doubt' = doubt
  BY <1>1, <1>3
<1>4. CASE ~ok /\ record' = Append(roster, d) /\ doubt' = "add"
  <2>1. op' = NoOp
    BY <1>1, <1>4
  <2>2. record' \in Stored /\ IdsSurvive' /\ d \notin Ran(roster)
    BY <1>4, AddRecorded
  <2>3. Ahead' /\ op' \in OpState
    BY <2>1, NoOpFacts DEF Ahead
  <2>4. FlashCurrent'
    BY <1>4, <2>2 DEF FlashCurrent
  <2>5. QED
    BY <1>0, <1>4, <2>2, <2>3, <2>4
<1>5. QED
  BY <1>0, <1>1, <1>2, <1>3, <1>4, Saved

\* A user adds a device.
LEMMA UserAddStep ==
  ASSUME IInv, UserAdd
  PROVE  IInv'
<1>0. QueueType /\ ThreadType /\ Working /\ NoStaleRequest /\ pairing \in BOOLEAN
  BY DEF IInv, Types, SessionType
<1>1. /\ UNCHANGED <<timeout, legacy, roster, ready, rosterErr>> /\ queue' = queue /\ heard' = heard
      /\ UNCHANGED <<pairing, target, initial, sessionAge, reachedAge, blocked>> /\ evt' = evt
      /\ UNCHANGED <<assigned, added>> /\ call' = call /\ pcE' = pcE
  BY DEF UserAdd, sessionVars, threadVars
<1>2. PICK d \in Devices, ok \in BOOLEAN : AddWrites(d) /\ AddSave("user", d, ok) /\ op = NoOp
  BY DEF UserAdd
<1>3. QueueType' /\ ThreadType' /\ Working' /\ NoStaleRequest'
  BY <1>0, <1>1 DEF QueueType, ThreadType, Working, Booted, NoStaleRequest
<1>4. \/ UNCHANGED <<record, op, doubt>>
      \/ /\ record' \in Stored /\ op' \in OpState /\ doubt' \in Doubts
         /\ Ahead' /\ FlashCurrent' /\ IdsSurvive'
  BY <1>1, <1>2, AddSaved
<1>5. CASE UNCHANGED <<record, op, doubt>>
  <2>1. UNCHANGED <<storeVars, op, doubt, assigned>>
    BY <1>1, <1>5 DEF storeVars
  <2>2. SessionType' /\ AgeType' /\ added' \in 0..MaxTarget
    BY <1>1 DEF IInv, Types, SessionType, AgeType, AgeTop, AuxType
  <2>3. QED
    BY <1>1, <1>3, <2>1, <2>2, SessionStep
<1>6. CASE /\ record' \in Stored /\ op' \in OpState /\ doubt' \in Doubts
           /\ Ahead' /\ FlashCurrent' /\ IdsSurvive'
  BY <1>0, <1>1, <1>3, <1>6, SaveStep
<1>7. QED
  BY <1>4, <1>5, <1>6

\* The ESB thread registers a device.
LEMMA EsbAddStep ==
  ASSUME IInv, EsbAdd
  PROVE  IInv'
<1>0. QueueType /\ ThreadType /\ Working /\ NoStaleRequest /\ pairing \in BOOLEAN /\ evt \in Devices /\ pcE = "add" /\ op = NoOp
  BY DEF IInv, Types, SessionType, EsbAdd, Working
<1>1. /\ UNCHANGED <<timeout, legacy, roster, ready, rosterErr>> /\ queue' = queue /\ heard' = heard /\ call' = call
      /\ UNCHANGED <<pairing, target, initial, sessionAge, reachedAge, blocked>> /\ evt' = evt
      /\ UNCHANGED <<assigned, added>> /\ pcE' \in {"commit", "drain"}
  BY DEF EsbAdd, sessionVars
<1>2. QueueType' /\ ThreadType' /\ Working' /\ NoStaleRequest'
  BY <1>0, <1>1 DEF QueueType, ThreadType, Working, Booted, NoStaleRequest, Points
<1>3. \/ UNCHANGED <<record, op, doubt>>
      \/ /\ record' \in Stored /\ op' \in OpState /\ doubt' \in Doubts
         /\ Ahead' /\ FlashCurrent' /\ IdsSurvive'
  <2>1. CASE AddWrites(evt)
    <3>1. PICK ok \in BOOLEAN : AddSave("esb", evt, ok) /\ pcE' = IF ok THEN "commit" ELSE "drain"
      BY <2>1 DEF EsbAdd
    <3>2. QED
      BY <1>0, <1>1, <2>1, <3>1, AddSaved
  <2>2. CASE ~AddWrites(evt)
    BY <2>2 DEF EsbAdd
  <2>3. QED
    BY <2>1, <2>2
<1>4. CASE UNCHANGED <<record, op, doubt>>
  <2>1. UNCHANGED <<storeVars, op, doubt, assigned>>
    BY <1>1, <1>4 DEF storeVars
  <2>2. SessionType' /\ AgeType' /\ added' \in 0..MaxTarget
    BY <1>1 DEF IInv, Types, SessionType, AgeType, AgeTop, AuxType
  <2>3. QED
    BY <1>0, <1>1, <1>2, <2>1, <2>2, SessionStep
<1>5. CASE /\ record' \in Stored /\ op' \in OpState /\ doubt' \in Doubts
           /\ Ahead' /\ FlashCurrent' /\ IdsSurvive'
  BY <1>0, <1>1, <1>2, <1>5, SaveStep
<1>6. QED
  BY <1>3, <1>4, <1>5

\* The record of a roster without its last device has every other id.
LEMMA PopRecorded ==
  ASSUME IInv, ready, roster # <<>>, record' = SubSeq(roster, 1, Len(roster) - 1),
         UNCHANGED <<roster, ready, assigned>>, roster[Len(roster)] \in Removing' \cup Leaving'
  PROVE  record' \in Stored /\ IdsSurvive'
<1> DEFINE p == SubSeq(roster, 1, Len(roster) - 1)
           last == roster[Len(roster)]
<1>0. roster \in Slots
  BY DEF IInv, Types, StoreType
<1>1. /\ p \in Slots /\ Len(roster) \in Nat \ {0} /\ Len(p) = Len(roster) - 1
      /\ \A k \in 1..Len(roster) - 1 : p[k] = roster[k]
  BY <1>0, Popped
<1>2. record' = p /\ last \in Removing' \cup Leaving'
  OBVIOUS
<1> HIDE DEF p
<1>3. ASSUME NEW e \in Devices, assigned[e] # None
      PROVE  /\ assigned[e] + 1 <= Len(roster) /\ roster[assigned[e] + 1] = e
             /\ e # last => assigned[e] + 1 <= Len(p) /\ p[assigned[e] + 1] = e
  <2> DEFINE k == assigned[e] + 1
  <2>1. k \in 1..Len(roster) /\ roster[k] = e
    BY <1>3, Held
  <2> HIDE DEF k
  <2>2. e # last => k # Len(roster)
    BY <2>1
  <2>3. e # last => k \in 1..Len(roster) - 1
    BY <1>1, <2>1, <2>2
  <2>4. e # last => k <= Len(p) /\ p[k] = e
    BY <1>1, <2>1, <2>3
  <2>5. k <= Len(roster)
    BY <1>1, <2>1
  <2>6. QED
    BY <2>1, <2>4, <2>5 DEF k
<1> HIDE DEF last
<1>4. IdsSurvive'
  BY <1>2, <1>3, IdsFrom
<1>5. QED
  BY <1>1, <1>2, <1>4 DEF Stored

\* A user removes the last device.
LEMMA UserPopStep ==
  ASSUME IInv, UserPop
  PROVE  IInv'
<1>0. /\ QueueType /\ ThreadType /\ Working /\ NoStaleRequest /\ pairing \in BOOLEAN /\ roster \in Slots
      /\ "pop" \in Doubts /\ "none" \in Doubts
  BY DEF IInv, Types, SessionType, StoreType, Doubts
<1>1. /\ UNCHANGED <<timeout, legacy, roster, ready, rosterErr>> /\ queue' = queue /\ heard' = heard
      /\ UNCHANGED <<pairing, target, initial, sessionAge, reachedAge, blocked>> /\ evt' = evt
      /\ UNCHANGED <<assigned, added>> /\ call' = call /\ pcE' = pcE
  BY DEF UserPop, sessionVars, threadVars
<1>2. PICK ok \in BOOLEAN : PopSave(ok) /\ op = NoOp /\ ready /\ roster # <<>>
  BY DEF UserPop
<1>3. QueueType' /\ ThreadType' /\ Working' /\ NoStaleRequest'
  BY <1>0, <1>1 DEF QueueType, ThreadType, Working, Booted, NoStaleRequest
<1> DEFINE p == SubSeq(roster, 1, Len(roster) - 1)
           last == roster[Len(roster)]
<1>4. Save("pop", p, ok) /\ op' = IF ok THEN [kind |-> "pop", who |-> "user", dev |-> last] ELSE op
  BY <1>2 DEF PopSave
<1>5. last \in Devices
  BY <1>0, <1>2, Popped
<1>6. CASE ok /\ record' = p /\ doubt' = "none"
  <2>1. op' \in OpState /\ op'.kind = "pop" /\ op'.dev = last /\ op' # NoOp
    <3> HIDE DEF last
    <3>1. op' = [kind |-> "pop", who |-> "user", dev |-> last]
      BY <1>4, <1>6
    <3>2. QED
      BY <1>5, <3>1, NoOpFacts DEF OpState
  <2>2. last \in Removing'
    BY <2>1 DEF Removing
  <2>3. Ahead' /\ FlashCurrent'
    BY <1>1, <1>2, <1>6, <2>1 DEF Ahead, FlashCurrent
  <2>4. record' \in Stored /\ IdsSurvive'
    BY <1>1, <1>2, <1>6, <2>2, PopRecorded
  <2>5. QED
    BY <1>0, <1>1, <1>3, <1>6, <2>1, <2>3, <2>4, SaveStep
<1>7. CASE ~ok /\ record' = record /\ doubt' = doubt
  <2>1. UNCHANGED <<storeVars, op, doubt, assigned>>
    BY <1>1, <1>4, <1>7 DEF storeVars
  <2>2. SessionType' /\ AgeType' /\ added' \in 0..MaxTarget
    BY <1>1 DEF IInv, Types, SessionType, AgeType, AgeTop, AuxType
  <2>3. QED
    BY <1>1, <1>3, <2>1, <2>2, SessionStep
<1>8. CASE ~ok /\ record' = p /\ doubt' = "pop"
  <2>1. op' = NoOp /\ op' \in OpState /\ Ahead'
    BY <1>2, <1>4, <1>8, NoOpFacts DEF Ahead
  <2>2. last \in Leaving'
    BY <1>1, <1>8 DEF Leaving
  <2>3. FlashCurrent'
    BY <1>1, <1>8 DEF FlashCurrent
  <2>4. record' \in Stored /\ IdsSurvive'
    BY <1>1, <1>2, <1>8, <2>2, PopRecorded
  <2>5. QED
    BY <1>0, <1>1, <1>3, <1>8, <2>1, <2>3, <2>4, SaveStep
<1> HIDE DEF p, last
<1>9. QED
  BY <1>0, <1>4, <1>6, <1>7, <1>8, Saved

\* A user clears the roster.
LEMMA UserClearStep ==
  ASSUME IInv, UserClear
  PROVE  IInv'
<1>0. /\ QueueType /\ ThreadType /\ Working /\ NoStaleRequest /\ pairing \in BOOLEAN
      /\ "clear" \in Doubts /\ "none" \in Doubts
  BY DEF IInv, Types, SessionType, Doubts
<1>1. /\ UNCHANGED <<timeout, legacy, roster, ready, rosterErr>> /\ call' = call /\ pcE' = pcE
      /\ UNCHANGED <<target, initial, sessionAge, reachedAge, blocked>> /\ evt' = evt
      /\ UNCHANGED <<assigned, added>> /\ op = NoOp
  BY DEF UserClear, threadVars
<1>2. PICK ok \in BOOLEAN :
        /\ Save("clear", <<>>, ok)
        /\ IF ok THEN /\ op' = [kind |-> "clear", who |-> "user", dev |-> NoDev]
                      /\ pairing' = FALSE /\ heard' = <<>> /\ queue' = <<>>
           ELSE UNCHANGED <<op, pairing, heard, queue>>
  BY DEF UserClear, ClearedQueue
<1>3. ThreadType' /\ Working'
  BY <1>0, <1>1, <1>2 DEF ThreadType, Working, Booted
<1>4. QueueType' /\ pairing' \in BOOLEAN
  BY <1>0, <1>2, Purged
<1>5. NoStaleRequest'
  <2>1. CASE ok
    BY <1>2, <1>4, <2>1, EndEmpty DEF NoStaleRequest, QueueType
  <2>2. CASE ~ok
    BY <1>0, <1>1, <1>2, <2>2 DEF NoStaleRequest
  <2>3. QED
    BY <2>1, <2>2
<1>6. CASE ok /\ record' = <<>> /\ doubt' = "none"
  <2>1. op' \in OpState /\ op'.kind = "clear" /\ op' # NoOp
    <3>1. op' = [kind |-> "clear", who |-> "user", dev |-> NoDev]
      BY <1>2, <1>6
    <3>2. QED
      BY <3>1, NoOpFacts DEF OpState
  <2>2. record' \in Stored /\ Ahead' /\ FlashCurrent'
    BY <1>6, <2>1, EmptyRoster DEF Stored, Ahead, FlashCurrent
  <2>3. Removing' = Devices
    BY <2>1 DEF Removing
  <2>4. IdsSurvive'
    BY <1>1, <2>3, IdsFrom DEF IInv, IdsSurvive
  <2>5. QED
    BY <1>0, <1>1, <1>3, <1>4, <1>5, <1>6, <2>1, <2>2, <2>4, SaveStep
<1>7. CASE ~ok /\ record' = record /\ doubt' = doubt
  <2>1. UNCHANGED <<storeVars, op, doubt, assigned>>
    BY <1>1, <1>2, <1>7 DEF storeVars
  <2>2. SessionType' /\ AgeType' /\ added' \in 0..MaxTarget
    BY <1>1, <1>2, <1>7 DEF IInv, Types, SessionType, AgeType, AgeTop, AuxType
  <2>3. QED
    BY <1>1, <1>3, <1>4, <1>5, <2>1, <2>2, SessionStep
<1>8. CASE ~ok /\ record' = <<>> /\ doubt' = "clear"
  <2>1. op' = NoOp /\ op' \in OpState /\ Ahead'
    BY <1>1, <1>2, <1>8, NoOpFacts DEF Ahead
  <2>2. Leaving' = Devices /\ FlashCurrent' /\ record' \in Stored
    BY <1>8, EmptyRoster DEF Leaving, FlashCurrent, Stored
  <2>3. IdsSurvive'
    BY <1>1, <2>2, IdsFrom DEF IInv, IdsSurvive
  <2>4. QED
    BY <1>0, <1>1, <1>3, <1>4, <1>5, <1>8, <2>1, <2>2, <2>3, SaveStep
<1>9. QED
  BY <1>0, <1>2, <1>6, <1>7, <1>8, Saved

\* The flash has every device of the roster in its slot, but the ones it is about to lose.
LEMMA FlashHas ==
  ASSUME IInv, NEW k \in 1..Len(roster), roster[k] \in Devices \ (Removing \cup Leaving)
  PROVE  k <= Len(record) /\ record[k] = roster[k]
<1>0. roster \in Slots /\ roster \in Seq(Devices) /\ Len(roster) \in Nat /\ op \in OpState
  BY DEF IInv, Types, StoreType, Slots, OpType
<1>1. ready /\ roster # <<>>
  BY <1>0 DEF IInv, InUse
<1>2. CASE op.kind = "none"
  <2>1. op = NoOp /\ doubt \in Doubts
    BY <1>2 DEF IInv, Ahead, Types, OpType
  <2>2. CASE doubt = "none"
    <3>1. record = roster
      BY <1>1, <2>1, <2>2 DEF IInv, FlashCurrent
    <3>2. QED
      BY <1>0, <3>1
  <2>3. CASE doubt = "add"
    <3>1. PICK d \in Devices : record = Append(roster, d)
      BY <1>1, <2>1, <2>3 DEF IInv, FlashCurrent
    <3>2. Append(roster, d)[k] = roster[k] /\ Len(Append(roster, d)) = Len(roster) + 1
      BY <1>0, Appended
    <3>3. QED
      BY <1>0, <3>1, <3>2
  <2>4. CASE doubt = "pop"
    <3> DEFINE p == SubSeq(roster, 1, Len(roster) - 1)
    <3>1. record = p /\ roster[Len(roster)] \in Leaving
      BY <1>1, <2>1, <2>4 DEF IInv, FlashCurrent, Leaving
    <3>2. Len(p) = Len(roster) - 1 /\ \A j \in 1..Len(roster) - 1 : p[j] = roster[j]
      BY <1>0, <1>1, Popped
    <3> HIDE DEF p
    <3>3. k # Len(roster)
      BY <3>1
    <3>4. k \in 1..Len(roster) - 1
      BY <1>0, <3>3
    <3>5. QED
      BY <1>0, <3>1, <3>2, <3>4
  <2>5. CASE doubt = "clear"
    BY <2>5 DEF Leaving
  <2>6. QED
    BY <2>1, <2>2, <2>3, <2>4, <2>5 DEF Doubts
<1>3. CASE op.kind = "add"
  <2>1. record = Append(roster, op.dev) /\ op.dev \in Devices
    BY <1>3 DEF IInv, Ahead
  <2>2. Append(roster, op.dev)[k] = roster[k] /\ Len(Append(roster, op.dev)) = Len(roster) + 1
    BY <1>0, <2>1, Appended
  <2>3. QED
    BY <1>0, <2>1, <2>2
<1>4. CASE op.kind = "pop"
  <2> DEFINE p == SubSeq(roster, 1, Len(roster) - 1)
  <2>1. record = p /\ op.dev = roster[Len(roster)] /\ op.dev \in Removing
    BY <1>4 DEF IInv, Ahead, Removing
  <2>2. Len(p) = Len(roster) - 1 /\ \A j \in 1..Len(roster) - 1 : p[j] = roster[j]
    BY <1>0, <1>1, Popped
  <2> HIDE DEF p
  <2>3. k # Len(roster)
    BY <2>1
  <2>4. k \in 1..Len(roster) - 1
    BY <1>0, <2>3
  <2>5. QED
    BY <1>0, <2>1, <2>2, <2>4
<1>5. CASE op.kind = "clear"
  BY <1>5 DEF Removing
<1>6. QED
  BY <1>0, <1>2, <1>3, <1>4, <1>5 DEF OpState

\* The slot that a known device is told.
LEMMA Told ==
  ASSUME StoreType, NEW d \in Devices, Known(d)
  PROVE  /\ IdOf(d) + 1 \in 1..Len(roster) /\ roster[IdOf(d) + 1] = d /\ IdOf(d) \in Ids
<1>1. Len(roster) \in Nat /\ Len(roster) <= MaxTrackers /\ MaxTrackers \in Nat
  BY Constants DEF StoreType, Slots
<1>2. \E k \in 1..Len(roster) : roster[k] = d
  BY DEF Known, Ran
<1> DEFINE k == CHOOSE k \in 1..Len(roster) : roster[k] = d
<1>3. k \in 1..Len(roster) /\ roster[k] = d
  BY <1>2
<1>4. IdOf(d) = k - 1
  BY DEF IdOf
<1> HIDE DEF k
<1>5. k - 1 + 1 = k /\ k - 1 \in Ids
  BY <1>1, <1>3 DEF Ids
<1>6. QED
  BY <1>3, <1>4, <1>5

\* A known device is told its id.
LEMMA AnswerStep ==
  ASSUME IInv, NEW d \in Devices, Answer(d)
  PROVE  IInv'
<1>0. StoreType /\ AuxType /\ Known(d) /\ assigned \in [Devices -> Ids \cup {None}]
  BY DEF IInv, Types, AuxType, Answer
<1>1. /\ assigned' = [assigned EXCEPT ![d] = IdOf(d)]
      /\ timeout' = timeout /\ record' = record /\ legacy' = legacy /\ roster' = roster /\ ready' = ready
      /\ rosterErr' = rosterErr /\ op' = op /\ doubt' = doubt /\ queue' = queue /\ heard' = heard
      /\ call' = call /\ pcE' = pcE /\ evt' = evt
      /\ UNCHANGED <<pairing, target, initial, sessionAge, reachedAge, blocked>> /\ added' = added
  BY DEF Answer, storeVars, sessionVars, threadVars
<1>2. StoreType' /\ SessionType' /\ AgeType' /\ QueueType' /\ ThreadType' /\ OpType'
  BY <1>1 DEF IInv, Types, StoreType, SessionType, AgeType, AgeTop, QueueType, ThreadType, OpType
<1>3. Working' /\ InUse' /\ Ahead' /\ FlashCurrent' /\ NoStaleRequest'
  BY <1>1 DEF IInv, Working, Booted, InUse, Ahead, Known, FlashCurrent, NoStaleRequest
<1>4. IdOf(d) + 1 \in 1..Len(roster) /\ roster[IdOf(d) + 1] = d /\ IdOf(d) \in Ids
  BY <1>0, Told
<1> DEFINE id == IdOf(d)
<1>5. AuxType'
  BY <1>0, <1>1, <1>4 DEF AuxType
<1>6. Removing' = Removing /\ Leaving' = Leaving
  BY <1>1 DEF Removing, Leaving
<1>7. Len(roster) \in Nat
  BY <1>0 DEF StoreType, Slots
<1>8. IdsSurvive'
  <2>1. ASSUME NEW e \in Devices, assigned'[e] # None
        PROVE  /\ ready => assigned'[e] + 1 <= Len(roster) /\ roster[assigned'[e] + 1] = e
               /\ e \notin Removing \cup Leaving => assigned'[e] + 1 <= Len(record) /\ record[assigned'[e] + 1] = e
    <3>1. CASE e = d
      <4>1. assigned'[e] = id
        BY <1>0, <1>1, <3>1
      <4>2. id + 1 <= Len(roster) /\ roster[id + 1] = e
        BY <1>4, <1>7, <3>1
      <4>3. e \notin Removing \cup Leaving => id + 1 <= Len(record) /\ record[id + 1] = e
        BY <1>4, <3>1, FlashHas
      <4> HIDE DEF id
      <4>4. QED
        BY <4>1, <4>2, <4>3
    <3>2. CASE e # d
      <4>1. assigned'[e] = assigned[e]
        BY <1>0, <1>1, <3>2
      <4>2. QED
        BY <2>1, <4>1 DEF IInv, IdsSurvive
    <3>3. QED
      BY <3>1, <3>2
  <2>2. QED
    BY <1>1, <1>6, <2>1, IdsFrom
<1>9. QED
  BY <1>2, <1>3, <1>5, <1>8 DEF IInv, Types

\* A step that publishes what the flash holds as the roster.
LEMMA PublishStep ==
  ASSUME IInv, UNCHANGED <<timeout, legacy>>, SessionType', AgeType', QueueType', ThreadType', Working',
         NoStaleRequest', AuxType', rosterErr' \in {"none", "transient", "invalid"},
         roster' \in Slots, Distinct(roster'), ready' = TRUE, record' = roster', op' = NoOp, doubt' = "none",
         \A d \in Devices : assigned'[d] # None =>
           assigned'[d] + 1 <= Len(roster') /\ roster'[assigned'[d] + 1] = d
  PROVE  IInv'
<1>1. StoreType' /\ OpType'
  BY NoOpFacts DEF IInv, Types, StoreType, OpType, Stored, Doubts
<1>2. InUse' /\ Ahead' /\ FlashCurrent'
  BY NoOpFacts DEF InUse, Ahead, FlashCurrent
<1>3. IdsSurvive'
  BY IdsFrom
<1>4. QED
  BY <1>1, <1>2, <1>3 DEF IInv, Types

\* The irq_lock sections.
LEMMA CommitStep ==
  ASSUME IInv, Commit
  PROVE  IInv'
<1>0. /\ StoreType /\ SessionType /\ AgeType /\ QueueType /\ ThreadType /\ AuxType /\ Working /\ NoStaleRequest
      /\ roster \in Slots /\ roster \in Seq(Devices) /\ Distinct(roster)
      /\ assigned \in [Devices -> Ids \cup {None}]
  BY DEF IInv, Types, StoreType, InUse, Slots, AuxType
<1>1. /\ op' = NoOp /\ UNCHANGED <<timeout, legacy>> /\ record' = record /\ rosterErr' = rosterErr
      /\ UNCHANGED <<pairing, target, initial, sessionAge, reachedAge, blocked>> /\ queue' = queue /\ heard' = heard
      /\ call' = call /\ evt' = evt
  BY DEF Commit, sessionVars
<1>d. doubt' = "none" /\ doubt = "none" /\ Leaving = {}
  <2>1. op # NoOp
    BY NoOpFacts DEF Commit, CommitAdd, CommitPop, CommitClear
  <2>2. doubt' = doubt /\ doubt = "none"
    BY <2>1 DEF Commit, IInv, Ahead
  <2>3. QED
    BY <2>2 DEF Leaving
<1>2. SessionType' /\ AgeType' /\ QueueType' /\ rosterErr' \in {"none", "transient", "invalid"}
  BY <1>0, <1>1 DEF SessionType, AgeType, AgeTop, QueueType, StoreType
<1>3. CASE CommitAdd
  <2>1. /\ op.kind = "add" /\ roster' = Append(roster, op.dev) /\ ready' = ready /\ assigned' = assigned
        /\ pcE' = IF op.who = "esb" THEN "drain" ELSE pcE
        /\ added' = IF added < MaxTarget THEN added + 1 ELSE added
    BY <1>3 DEF CommitAdd
  <2>2. /\ ready /\ op.dev \in Devices /\ op.dev \notin Ran(roster) /\ Len(roster) < MaxTrackers
        /\ record = Append(roster, op.dev) /\ (op.who = "esb" => pcE = "commit")
    BY <2>1 DEF IInv, Ahead, Known
  <2>3. Append(roster, op.dev) \in Slots /\ Distinct(Append(roster, op.dev))
    BY <1>0, <2>2, Appended
  <2>4. ThreadType' /\ Working' /\ NoStaleRequest'
    BY <1>0, <1>1, <2>1, <2>2 DEF ThreadType, Working, Booted, NoStaleRequest, Points
  <2>5. added' \in 0..MaxTarget
    BY <1>0, <2>1, Constants DEF AuxType
  <2>6. AuxType'
    BY <1>0, <2>1, <2>5 DEF AuxType
  <2>7. Removing = {}
    BY <2>1 DEF Removing
  <2>8. \A d \in Devices : assigned'[d] # None => assigned'[d] + 1 <= Len(roster') /\ roster'[assigned'[d] + 1] = d
    BY <1>d, <2>1, <2>2, <2>7 DEF IInv, IdsSurvive
  <2>9. roster' \in Slots /\ Distinct(roster') /\ ready' = TRUE /\ record' = roster'
    BY <1>0, <1>1, <2>1, <2>2, <2>3 DEF StoreType
  <2>10. QED
    BY <1>1, <1>2, <1>d, <2>4, <2>6, <2>8, <2>9, PublishStep
<1>4. CASE CommitPop
  <2> DEFINE p == SubSeq(roster, 1, Len(roster) - 1)
  <2>1. /\ op.kind = "pop" /\ roster' = p /\ ready' = ready /\ assigned' = [assigned EXCEPT ![op.dev] = None]
        /\ pcE' = pcE /\ added' = added
    BY <1>4 DEF CommitPop
  <2>2. ready /\ roster # <<>> /\ op.dev = roster[Len(roster)] /\ record = p /\ Removing = {op.dev}
    BY <2>1 DEF IInv, Ahead, Removing
  <2>3. p \in Slots /\ Distinct(p) /\ op.dev \in Devices
    BY <1>0, <2>2, Popped
  <2> HIDE DEF p
  <2>4. ThreadType' /\ Working' /\ NoStaleRequest'
    BY <1>0, <1>1, <2>1 DEF ThreadType, Working, Booted, NoStaleRequest
  <2>5. AuxType'
    BY <1>0, <2>1, <2>3 DEF AuxType
  <2>6. ASSUME NEW d \in Devices, assigned'[d] # None
        PROVE  assigned'[d] + 1 <= Len(roster') /\ roster'[assigned'[d] + 1] = d
    <3>1. d # op.dev /\ assigned'[d] = assigned[d]
      BY <1>0, <2>1, <2>3, <2>6
    <3>2. assigned[d] + 1 <= Len(record) /\ record[assigned[d] + 1] = d
      BY <1>d, <2>2, <2>6, <3>1 DEF IInv, IdsSurvive
    <3>3. QED
      BY <2>1, <2>2, <3>1, <3>2
  <2>7. roster' \in Slots /\ Distinct(roster') /\ ready' = TRUE /\ record' = roster'
    BY <1>0, <1>1, <2>1, <2>2, <2>3 DEF StoreType
  <2>8. QED
    BY <1>1, <1>2, <1>d, <2>4, <2>5, <2>6, <2>7, PublishStep
<1>5. CASE CommitClear
  <2>1. /\ op.kind = "clear" /\ roster' = <<>> /\ ready' = TRUE /\ assigned' = [d \in Devices |-> None]
        /\ pcE' = pcE /\ added' = added
    BY <1>5 DEF CommitClear
  <2>2. record = <<>>
    BY <2>1 DEF IInv, Ahead
  <2>3. ThreadType' /\ Working' /\ NoStaleRequest'
    BY <1>0, <1>1, <2>1 DEF ThreadType, Working, Booted, NoStaleRequest
  <2>4. AuxType'
    BY <1>0, <2>1 DEF AuxType
  <2>5. roster' \in Slots /\ Distinct(roster') /\ record' = roster'
    BY <1>1, <2>1, <2>2, EmptyRoster
  <2>6. \A d \in Devices : assigned'[d] = None
    BY <2>1
  <2>7. QED
    BY <1>1, <1>2, <1>d, <2>1, <2>3, <2>4, <2>5, <2>6, PublishStep
<1>6. QED
  BY <1>3, <1>4, <1>5 DEF Commit

\* What a restart loads is a roster.
LEMMA FoundSlots ==
  ASSUME IInv, Loads
  PROVE  Found \in Slots /\ Distinct(Found)
<1>0. record \in Stored /\ legacy \in Stored
  BY DEF IInv, Types, StoreType
<1>1. Found # Corrupt /\ Distinct(Found)
  BY DEF Loads, RosterValid
<1>2. CASE record # Absent
  BY <1>0, <1>1, <1>2 DEF Found, Stored
<1>3. CASE record = Absent /\ legacy # Absent
  BY <1>0, <1>1, <1>3 DEF Found, Stored
<1>4. CASE record = Absent /\ legacy = Absent
  BY <1>1, <1>4, EmptyRoster DEF Found
<1>5. QED
  BY <1>2, <1>3, <1>4

\* The flash of a device that holds an id is what a restart loads.
LEMMA FoundHas ==
  ASSUME IInv, op = NoOp, NEW d \in Devices, assigned[d] # None, d \notin Leaving
  PROVE  /\ record # Absent /\ Found = record
         /\ assigned[d] + 1 <= Len(record) /\ record[assigned[d] + 1] = d
<1> DEFINE k == assigned[d] + 1
<1>1. Removing = {}
  BY NoOpFacts DEF Removing
<1>2. k \in Nat \ {0} /\ k <= Len(record) /\ record[k] = d
  BY <1>1, Held
<1> HIDE DEF k
<1>3. record # Absent
  <2> SUFFICES ASSUME record = Absent PROVE FALSE
    OBVIOUS
  <2>1. Len(record) = 1 /\ record[1] = "absent"
    BY DEF Absent
  <2>2. k = 1
    BY <1>2, <2>1
  <2>3. QED
    BY <1>2, <2>1, <2>2, PairingAssumption
<1>4. Found = record
  BY <1>3 DEF Found
<1>5. QED
  BY <1>2, <1>3, <1>4 DEF k

\* What tracker_store_restore leaves behind: the roster as it was, with the old keys
\* migrated or not, or the roster that it found in flash.
LEMMA Restored ==
  ASSUME IInv, op = NoOp, Restore
  PROVE  \/ /\ UNCHANGED <<roster, ready, doubt, assigned>> /\ rosterErr' \in {"none", "transient", "invalid"}
            /\ record' = record \/ (~ready /\ Loads /\ record' = Found)
         \/ /\ roster' \in Slots /\ Distinct(roster') /\ ready' = TRUE /\ record' = roster' /\ rosterErr' = "none"
            /\ doubt' = "none" /\ assigned' = Remaining
            /\ \A d \in Devices : assigned'[d] # None =>
                 assigned'[d] + 1 <= Len(roster') /\ roster'[assigned'[d] + 1] = d
<1>1. \/ /\ UNCHANGED <<roster, ready, doubt, assigned>> /\ rosterErr' \in {"none", "transient", "invalid"}
         /\ record' = record \/ (~ready /\ Loads /\ record' = Found)
      \/ /\ Loads /\ record' = Found /\ roster' = Found /\ ready' = TRUE /\ rosterErr' = "none"
         /\ doubt' = "none" /\ assigned' = Remaining
  BY DEF Restore
<1> SUFFICES ASSUME Loads, record' = Found, roster' = Found, assigned' = Remaining
             PROVE  /\ roster' \in Slots /\ Distinct(roster')
                    /\ \A d \in Devices : assigned'[d] # None =>
                         assigned'[d] + 1 <= Len(roster') /\ roster'[assigned'[d] + 1] = d
  BY <1>1
<1>2. Found \in Slots /\ Distinct(Found)
  BY FoundSlots
<1>3. ASSUME NEW d \in Devices, assigned'[d] # None
      PROVE  assigned'[d] + 1 <= Len(Found) /\ Found[assigned'[d] + 1] = d
  <2>1. assigned'[d] = assigned[d] /\ d \notin Leaving
    BY <1>3 DEF Remaining
  <2>2. QED
    BY <1>3, <2>1, FoundHas
<1>4. QED
  BY <1>2, <1>3

\* The ESB thread loads the roster, at its start and again after a transient failure.
LEMMA RestoreSteps ==
  ASSUME IInv, EsbBoot \/ EsbRetry
  PROVE  IInv'
<1>0. /\ StoreType /\ SessionType /\ AgeType /\ QueueType /\ ThreadType /\ AuxType /\ Working /\ NoStaleRequest
      /\ assigned \in [Devices -> Ids \cup {None}]
  BY DEF IInv, Types, AuxType
<1>1. /\ Restore /\ op = NoOp /\ op' = op /\ UNCHANGED <<timeout, legacy>>
      /\ call' = call /\ evt' = evt /\ pcE \in {"boot", "loop"} /\ pcE' \in {"count", "loop"}
      /\ (pcE' = "count" => pcE = "boot" /\ pairing' = pairing /\ queue' = queue)
  BY DEF EsbBoot, EsbRetry, threadVars, sessionVars
<1>2. \/ UNCHANGED <<pairing, target, initial, sessionAge, reachedAge, blocked>> /\ queue' = queue /\ added' = added
         /\ heard' = heard
      \/ /\ pairing' = TRUE /\ sessionAge' = 0 /\ target' = 0 /\ initial' = 0 /\ queue' = <<>> /\ added' = 0
         /\ UNCHANGED <<reachedAge, blocked>> /\ heard' = <<>>
  BY DEF EsbBoot, EsbRetry, sessionVars
<1>3. 0 \in 0..MaxTarget /\ 0 \in 0..MaxTrackers
  BY Constants
<1>4. SessionType' /\ added' \in 0..MaxTarget
  BY <1>0, <1>1, <1>2, <1>3 DEF SessionType, AuxType
<1>5. AgeType'
  BY <1>0, <1>1, <1>2, Ages DEF AgeType, AgeTop
<1>6. QueueType'
  BY <1>0, <1>2, Purged
<1>7. ThreadType' /\ Working'
  BY <1>0, <1>1, <1>2 DEF ThreadType, Working, Booted, Points
<1>8. NoStaleRequest'
  <2>1. CASE queue' = <<>>
    BY <1>6, <2>1, EndEmpty DEF NoStaleRequest, QueueType
  <2>2. CASE queue' # <<>>
    BY <1>0, <1>1, <1>2, <2>2 DEF NoStaleRequest
  <2>3. QED
    BY <2>1, <2>2
<1>9. AuxType'
  <2>1. assigned' = assigned \/ assigned' = Remaining
    BY <1>1 DEF Restore
  <2>2. QED
    BY <1>0, <1>4, <2>1 DEF AuxType, Remaining
<1>10. CASE /\ UNCHANGED <<roster, ready, doubt, assigned>> /\ rosterErr' \in {"none", "transient", "invalid"}
            /\ record' = record \/ (~ready /\ Loads /\ record' = Found)
  <2>1. record' \in Stored
    BY <1>0, <1>10, FoundSlots DEF StoreType, Stored
  <2>2. StoreType' /\ OpType'
    BY <1>0, <1>1, <1>10, <2>1, NoOpFacts DEF IInv, Types, StoreType, OpType
  <2>3. InUse' /\ Ahead'
    BY <1>1, <1>10, NoOpFacts DEF IInv, InUse, Ahead
  <2>4. FlashCurrent'
    BY <1>1, <1>10 DEF IInv, FlashCurrent
  <2>5. Removing' = Removing /\ Leaving' = Leaving
    BY <1>1, <1>10 DEF Removing, Leaving
  <2>6. ASSUME NEW d \in Devices, assigned[d] # None
        PROVE  /\ ready => assigned[d] + 1 <= Len(roster) /\ roster[assigned[d] + 1] = d
               /\ d \notin Removing \cup Leaving =>
                    assigned[d] + 1 <= Len(record') /\ record'[assigned[d] + 1] = d
    <3>1. ready => assigned[d] + 1 <= Len(roster) /\ roster[assigned[d] + 1] = d
      BY <2>6 DEF IInv, IdsSurvive
    <3>2. ASSUME d \notin Leaving
          PROVE  assigned[d] + 1 <= Len(record') /\ record'[assigned[d] + 1] = d
      <4>1. Found = record /\ assigned[d] + 1 <= Len(record) /\ record[assigned[d] + 1] = d
        BY <1>1, <2>6, <3>2, FoundHas
      <4>2. record' = record
        BY <1>10, <4>1
      <4>3. QED
        BY <4>1, <4>2
    <3>3. QED
      BY <3>1, <3>2
  <2>7. IdsSurvive'
    BY <1>10, <2>5, <2>6, IdsFrom
  <2>8. QED
    BY <1>4, <1>5, <1>6, <1>7, <1>8, <1>9, <2>2, <2>3, <2>4, <2>7 DEF IInv, Types
<1>11. CASE /\ roster' \in Slots /\ Distinct(roster') /\ ready' = TRUE /\ record' = roster' /\ rosterErr' = "none"
            /\ doubt' = "none" /\ assigned' = Remaining
            /\ \A d \in Devices : assigned'[d] # None =>
                 assigned'[d] + 1 <= Len(roster') /\ roster'[assigned'[d] + 1] = d
  BY <1>1, <1>4, <1>5, <1>6, <1>7, <1>8, <1>9, <1>11, PublishStep
<1>12. QED
  BY <1>1, <1>10, <1>11, Restored

\* A reset at any point.
LEMMA ResetStep ==
  ASSUME IInv, Reset
  PROVE  IInv'
<1>0. StoreType /\ AuxType /\ assigned \in [Devices -> Ids \cup {None}]
  BY DEF IInv, Types, AuxType
<1>1. /\ roster' = <<>> /\ ready' = FALSE /\ rosterErr' = "none"
      /\ pairing' = FALSE /\ target' = 0 /\ initial' = 0
      /\ sessionAge' = None /\ reachedAge' = None /\ blocked' = FALSE
      /\ queue' = <<>> /\ call' = NoCall /\ pcE' = "boot" /\ evt' = NoDev
      /\ op' = NoOp /\ doubt' = "none" /\ heard' = <<>> /\ added' = 0
      /\ assigned' = [d \in Devices |-> IF d \in Removing \cup Leaving THEN None ELSE assigned[d]]
      /\ timeout' = timeout /\ record' = record /\ legacy' = legacy
  BY DEF Reset, Remaining
<1>2. 0 \in 0..MaxTarget /\ 0 \in 0..MaxTrackers
  BY Constants
<1>3. StoreType' /\ SessionType' /\ AgeType'
  BY <1>0, <1>1, <1>2, EmptyRoster, Ages DEF StoreType, SessionType, AgeType, AgeTop
<1>4. QueueType' /\ ThreadType' /\ OpType'
  BY <1>1, EmptyRoster, Constants, CallTypes, NoOpFacts DEF QueueType, ThreadType, OpType, Doubts, Points
<1>5. AuxType'
  BY <1>0, <1>1, <1>2 DEF AuxType
<1>6. Working' /\ InUse' /\ FlashCurrent' /\ NoStaleRequest' /\ Ahead'
  BY <1>1, EmptyRoster, NoOpFacts, EndEmpty DEF Working, InUse, FlashCurrent, NoStaleRequest, Ahead
<1>7. IdsSurvive'
  <2>1. ASSUME NEW d \in Devices, assigned'[d] # None
        PROVE  assigned'[d] + 1 <= Len(record) /\ record[assigned'[d] + 1] = d
    <3>1. d \notin Removing \cup Leaving /\ assigned'[d] = assigned[d]
      BY <1>0, <1>1, <2>1
    <3>2. QED
      BY <2>1, <3>1 DEF IInv, IdsSurvive
  <2>2. QED
    BY <1>1, <2>1, IdsFrom
<1>8. QED
  BY <1>3, <1>4, <1>5, <1>6, <1>7 DEF IInv, Types
-----------------------------------------------------------------------------
(* The theorems *)

\* Init establishes the invariant, whatever older firmware left in the flash.
LEMMA InitInvariant == Init => IInv
<1> SUFFICES ASSUME Init PROVE IInv
  OBVIOUS
<1>1. /\ timeout \in Timeouts /\ roster = <<>> /\ ready = FALSE /\ rosterErr = "none"
      /\ pairing = FALSE /\ target = 0 /\ initial = 0
      /\ sessionAge = None /\ reachedAge = None /\ blocked = FALSE
      /\ queue = <<>> /\ call = NoCall /\ pcE = "boot" /\ evt = NoDev /\ op = NoOp
      /\ doubt = "none" /\ heard = <<>>
      /\ assigned = [d \in Devices |-> None] /\ added = 0
  BY DEF Init
<1>2. record \in Stored /\ legacy \in Stored
  BY RosterSlots DEF Init, Stored
<1>3. 0 \in 0..MaxTarget /\ 0 \in 0..MaxTrackers
  BY Constants
<1>4. StoreType
  BY <1>1, <1>2, EmptyRoster DEF StoreType
<1>5. SessionType /\ AgeType
  BY <1>1, <1>3, <1>4, Ages DEF SessionType, AgeType
<1>6. QueueType /\ ThreadType /\ OpType /\ AuxType
  BY <1>1, <1>3, EmptyRoster, Constants, CallTypes, NoOpFacts DEF QueueType, ThreadType, OpType, Doubts, AuxType, Points
<1>7. Working /\ InUse /\ FlashCurrent /\ NoStaleRequest /\ Ahead
  BY <1>1, EmptyRoster, NoOpFacts, EndEmpty DEF Working, InUse, FlashCurrent, NoStaleRequest, Ahead
<1>8. IdsSurvive
  BY <1>1 DEF IdsSurvive
<1>9. QED
  BY <1>4, <1>5, <1>6, <1>7, <1>8 DEF IInv, Types

\* Every step keeps it.
LEMMA StepInvariant == IInv /\ [Next]_vars => IInv'
<1> SUFFICES ASSUME IInv, [Next]_vars PROVE IInv'
  OBVIOUS
<1>1. CASE UNCHANGED vars
  <2>1. /\ UNCHANGED <<storeVars, op, doubt, assigned>> /\ UNCHANGED <<pairing, target, initial, sessionAge, reachedAge, blocked>>
        /\ queue' = queue /\ heard' = heard /\ call' = call /\ pcE' = pcE /\ evt' = evt /\ added' = added
        /\ timeout' = timeout
    BY <1>1 DEF vars, storeVars, sessionVars, threadVars
  <2>2. SessionType' /\ AgeType' /\ QueueType' /\ ThreadType' /\ added' \in 0..MaxTarget /\ Working' /\ NoStaleRequest'
    BY <2>1
    DEF IInv, Types, SessionType, AgeType, AgeTop, QueueType, ThreadType, AuxType, Working, Booted,
        NoStaleRequest
  <2>3. QED
    BY <2>1, <2>2, SessionStep
<1>2. CASE Esb
  BY <1>2, RestoreSteps, EsbMoves, EsbSessions, EsbAddStep DEF Esb
<1>3. QED
  BY <1>1, <1>2, UserSteps, UserAddStep, UserPopStep, UserClearStep, RequestStep, AnswerStep, CommitStep,
     TickStep, ResetStep
  DEF Next

\* The inductive invariant holds throughout.
LEMMA Invariant == Spec => []IInv
<1>1. QED
  BY InitInvariant, StepInvariant, PTL DEF Spec

\* The state stays well formed, no address ever has two slots, and between operations
\* the flash holds the roster in use, or is ahead of it by the one operation whose write
\* reported an error and reached it all the same (tracker_roster_save, esb_add_pair,
\* esb_pop_pair, esb_clear, tracker_store_restore).
THEOREM RosterIsSound == Spec => []RosterSound
<1>1. IInv => RosterSound
  <2> SUFFICES ASSUME IInv PROVE RosterSound
    OBVIOUS
  <2>1. StoreType /\ SessionType /\ AgeType /\ QueueType /\ ThreadType /\ OpType /\ AuxType
    BY DEF IInv, Types
  <2>2. Ran(queue) \subseteq Devices /\ Ran(heard) \subseteq Devices
    <3>1. queue \in Seq(Devices) /\ heard \in Seq(Devices)
      BY <2>1 DEF QueueType
    <3>2. QED
      BY <3>1 DEF Ran
  <2>3. TypeOK
    BY <2>1, <2>2, RosterSlots
    DEF TypeOK, StoreType, Stored, SessionType, AgeType, QueueType, ThreadType, CallState, Points, OpType,
        OpState, Doubts, AuxType
  <2>4. QED
    BY <2>3 DEF IInv, InUse, RosterSound, NoDuplicate
<1>2. QED
  BY <1>1, Invariant, PTL

\* The id that a device was told stays its own until its removal is asked for, through
\* writes that fail before or after they reach the flash, unreadable flash, resets
\* between any two steps and the migration of the keys of older firmware.  A removal
\* that reported an error leaves it in RAM and may have taken it from the flash
\* (esb_add_pair, esb_pop_pair, esb_clear, tracker_store_restore).
THEOREM IdsAlwaysSurvive == Spec => []IdsSurvive
<1>1. IInv => IdsSurvive
  BY DEF IInv
<1>2. QED
  BY <1>1, Invariant, PTL

\* Outside the calls that open and end sessions the request queue holds the latest
\* requests of the session under way and no other; the request that the ESB thread
\* has already taken out is not in it (event_handler, process_pairing_queue,
\* esb_start_pairing, esb_finish_pair, esb_clear).
THEOREM RequestsAreFresh == Spec => []NoStaleRequest
<1>1. IInv => NoStaleRequest
  BY DEF IInv
<1>2. QED
  BY <1>1, Invariant, PTL

\* A device keeps the id it was told, or loses it to its removal: one under way, or one
\* that is in flash although it reported an error.
KeepsOrLeaves(d) ==
  assigned'[d] = assigned[d] \/ (assigned'[d] = None /\ d \in Removing \cup Leaving)
\* No step takes an id away or exchanges it otherwise.
IdsStay == [][\A d \in Devices : assigned[d] # None => KeepsOrLeaves(d)]_assigned

\* A step of the receiver that tells or takes away an id.
LEMMA StepIds ==
  IInv /\ [Next]_vars => [\A d \in Devices : assigned[d] # None => KeepsOrLeaves(d)]_assigned
<1> SUFFICES ASSUME IInv, [Next]_vars, NEW d \in Devices, assigned[d] # None, assigned' # assigned
             PROVE  KeepsOrLeaves(d)
  OBVIOUS
<1>0. assigned \in [Devices -> Ids \cup {None}] /\ StoreType
  BY DEF IInv, Types, AuxType
<1>1. CASE Reset \/ EsbBoot \/ EsbRetry
  <2>1. assigned' = assigned \/ assigned' = Remaining
    BY <1>1 DEF Reset, EsbBoot, EsbRetry, Restore
  <2>2. QED
    BY <2>1 DEF Remaining, KeepsOrLeaves
<1>2. CASE Commit
  BY <1>0, <1>2 DEF Commit, CommitAdd, CommitPop, CommitClear, Removing, KeepsOrLeaves
<1>3. ASSUME NEW e \in Devices, Answer(e) PROVE KeepsOrLeaves(d)
  <2>1. assigned' = [assigned EXCEPT ![e] = IdOf(e)] /\ Known(e)
    BY <1>3 DEF Answer
  <2>2. CASE e # d
    BY <1>0, <2>1, <2>2 DEF KeepsOrLeaves
  <2>3. CASE e = d
    <3>1. IdOf(d) + 1 \in 1..Len(roster) /\ roster[IdOf(d) + 1] = d /\ IdOf(d) \in Ids
      BY <1>0, <2>1, <2>3, Told
    <3>2. roster # <<>> /\ roster \in Slots
      BY <1>0, <2>1, EmptyRoster DEF StoreType, Known
    <3>3. ready
      BY <3>2 DEF IInv, InUse
    <3>4. assigned[d] + 1 \in 1..Len(roster) /\ roster[assigned[d] + 1] = d /\ assigned[d] \in Ids
      BY <1>0, <3>3, Held
    <3>5. DOMAIN roster = 1..Len(roster)
      BY <3>2 DEF Slots
    <3>6. IdOf(d) + 1 = assigned[d] + 1
      BY <3>1, <3>4, <3>5 DEF IInv, InUse, Distinct
    <3>7. IdOf(d) = assigned[d]
      <4>1. IdOf(d) \in Int /\ assigned[d] \in Int
        BY <3>1, <3>4, Constants DEF Ids
      <4>2. QED
        BY <3>6, <4>1
    <3>8. QED
      BY <1>0, <2>1, <2>3, <3>7 DEF KeepsOrLeaves
  <2>4. QED
    BY <2>2, <2>3
<1>4. CASE ~Reset /\ ~EsbBoot /\ ~EsbRetry /\ ~Commit /\ \A e \in Devices : ~Answer(e)
  <2>1. assigned' = assigned
    BY <1>4
    DEF Next, vars, UserStart, UserStarted, UserFinish, UserFinished, UserAdd, UserPop, UserClear, Request, Esb,
        Tick, EsbCount, EsbFresh, EsbLoop, EsbDrain, EsbParse, EsbAdd, EsbTimeout, EsbFinished,
        EsbTarget, EsbMark, EsbExit
  <2>2. QED
    BY <2>1 DEF KeepsOrLeaves
<1>5. QED
  BY <1>1, <1>2, <1>3, <1>4

\* No step tells a device another id while it holds one, however often it pairs again,
\* and it loses its id to its removal only: one under way, or one that is in flash
\* although it reported an error (esb_ack_handler_cb, esb_pop_pair, esb_clear).
THEOREM IdsNeverChange == Spec => IdsStay
<1>1. QED
  BY Invariant, StepIds, PTL DEF Spec, IdsStay
=============================================================================
