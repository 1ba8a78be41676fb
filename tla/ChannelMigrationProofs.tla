------------------------ MODULE ChannelMigrationProofs ------------------------
(***************************************************************************)
(* Proofs about ChannelMigration for every set of channels, every length   *)
(* of an announcement and every choice of commands: who owns the radio,    *)
(* which channel it serves, and what a fault leaves behind.                *)
(***************************************************************************)
EXTENDS ChannelMigration, TLAPS

-----------------------------------------------------------------------------
(* Encoded channels *)

\* Decoding an encoded channel gives the channel back, 0 included.
LEMMA EncodeDecode ==
  ASSUME NEW c \in Channels
  PROVE  Encode(c) \in Encodings /\ Effective(Encode(c)) = c
<1>1. c \in 0..100
  BY ChannelAssumption
<1>2. Encode(c) \in Encodings
  BY DEF Encodings
<1>3. Decode(Encode(c)) = c
  BY <1>1 DEF Encode, Decode, ZeroEnc, Default
<1>4. QED
  BY <1>1, <1>2, <1>3 DEF Effective, Default

\* Whatever is stored, the radio is put on a channel.
LEMMA EffectiveType ==
  ASSUME NEW e \in Encodings
  PROVE  Effective(e) \in Channels
<1>1. CASE e = Default
  BY <1>1, ChannelAssumption DEF Effective, Decode, Default, ZeroEnc
<1>2. CASE \E c \in Channels : e = Encode(c)
  BY <1>2, EncodeDecode
<1>3. QED
  BY <1>1, <1>2 DEF Encodings

\* The default is an encoding.
LEMMA DefaultType == Default \in Encodings /\ FactoryHome \in Channels
BY ChannelAssumption DEF Encodings

\* What channel_apply leaves behind.
LEMMA OutcomeType ==
  ASSUME TypeOK, NEW e \in Encodings, NEW o \in ApplyOutcomes(e)
  PROVE  /\ o.ok \in BOOLEAN /\ o.fault \in BOOLEAN
         /\ o.phys \in Channels \cup {Off, Unknown}
         /\ o.enc \in Encodings
         /\ o.fault => ~o.ok /\ o.phys = Unknown
         /\ o.ok => o.enc = e /\ o.phys = Effective(e)
         /\ ~o.ok => o.enc = home
         /\ ~o.ok /\ ~o.fault => o.phys = phys
<1>1. /\ phys \in Channels \cup {Off, Unknown} /\ home \in Encodings
      /\ Effective(e) \in Channels
  BY EffectiveType DEF TypeOK, RadioType
<1>2. CASE o = [ok |-> TRUE, phys |-> Effective(e), enc |-> e, fault |-> FALSE]
  BY <1>1, <1>2
<1>3. CASE o = [ok |-> FALSE, phys |-> phys, enc |-> home, fault |-> FALSE]
  BY <1>1, <1>3
<1>4. CASE o = [ok |-> FALSE, phys |-> Unknown, enc |-> home, fault |-> TRUE]
  BY <1>1, <1>4
<1>5. QED
  BY <1>2, <1>3, <1>4 DEF ApplyOutcomes

-----------------------------------------------------------------------------
(* The inductive invariant *)

\* A command that will switch avoidance off was counted when it claimed the radio.
GenRoom ==
  \A u \in Users :
    pcU[u] \in {"check", "go"} /\ cmd[u].kind \in {"all", "rx"} => generation < MaxGen

\* A thread is only in the steps of its command.
Places ==
  \A u \in Users :
    /\ pcU[u] # "idle" => cmd[u].kind \in Commands
    /\ pcU[u] \in {"announce", "arm"} => cmd[u].kind = "all"
    /\ pcU[u] = "apply" => cmd[u].kind = "rx"
    /\ pcU[u] = "scan" => cmd[u].kind = "scan"
    /\ pcU[u] = "arm" => u = "hid"

\* The worker asks for a channel that it has chosen.
Requested ==
  pcW \in {"reqclaim", "reqcheck", "reqput"} => reqTarget \in AutoChannels /\ reqHome = wHome

\* Who holds the gate of the radio.
UserOwns(u) == pcU[u] \in {"check", "go", "announce", "apply", "scan"}
WorkerOwns == pcW \in {"check", "own", "stop", "radio", "reqcheck", "reqput"}
MoveOwns == pending \/ pcP # "idle"

\* One at a time, and the gate is closed meanwhile; the ESB thread reports a move
\* before the next is announced.
Exclusive ==
  /\ \A u, v \in Users : UserOwns(u) /\ UserOwns(v) => u = v
  /\ \A u \in Users : UserOwns(u) => busy /\ ~WorkerOwns /\ ~MoveOwns
  /\ WorkerOwns => busy /\ ~MoveOwns
  /\ MoveOwns => busy
  /\ ~(pending /\ pcP # "idle")

\* Past the check of the gate there is no session that forbids the operation.
SessionClear ==
  /\ \A u \in Users :
       pcU[u] \in {"go", "announce", "apply", "scan"} /\ cmd[u].kind # "collect" => sessions = {}
  /\ pcW \in {"own", "stop", "radio", "reqput"} => sessions = {}
  /\ pending \/ pcP = "report" => sessions = {}

\* The radio is away from the home channel only in the hands of an owner that put
\* it there, after a fault, or with a gate that nobody will open.
HomeKept ==
  /\ flash = home
  /\ \/ phys = Effective(home) \/ fault \/ pcW = "radio"
     \/ \E u \in Users : pcU[u] = "scan"
     \/ busy /\ ~WorkerOwns /\ ~MoveOwns /\ \A u \in Users : ~UserOwns(u)

\* After a fault only the operation that met it goes on, without the radio.
FaultHeld ==
  fault => /\ busy /\ phys = Unknown /\ ~pending
           /\ \A u \in Users : ~UserOwns(u)
           /\ WorkerOwns => pcW = "radio"

\* A home that a command set with avoidance off is not in the way of a move of the
\* worker.
PinKept ==
  /\ enabled \/ (pending /\ move.auto) => pinned = NoChannel
  /\ PinnedStays

\* The completion that is armed, or about to be, belongs to the move under way.
HidOwn ==
  pcU["hid"] = "arm" \/ hidPending =>
    \/ pending /\ move.who = "hid"
    \/ pcP \in {"report", "callback"} /\ polled.who = "hid"

IInv ==
  /\ TypeOK /\ GenRoom /\ Places /\ Requested
  /\ Exclusive /\ SessionClear /\ HomeKept /\ FaultHeld /\ PinKept /\ HidOwn

-----------------------------------------------------------------------------
(* Type correctness *)

WorkerPlaces ==
  {"read", "mail", "evidence", "gate", "check", "own", "stop", "radio", "decide", "reqclaim",
   "reqcheck", "reqput"}

\* auto_channel_set_enabled counts a generation.
LEMMA SetEnabledType ==
  ASSUME FlagType, generation < MaxGen, NEW v \in BOOLEAN, SetEnabled(v)
  PROVE  /\ enabled' \in BOOLEAN /\ latched' \in BOOLEAN /\ acFault' \in BOOLEAN
         /\ generation' \in 0..MaxGen
<1>1. enabled' \in BOOLEAN /\ latched' \in BOOLEAN /\ acFault' \in BOOLEAN
  BY Zenon DEF SetEnabled, FlagType
<1>2. generation' \in 0..MaxGen
  BY ChannelAssumption DEF SetEnabled, FlagType
<1>3. QED
  BY <1>1, <1>2

\* A command step keeps the types.
LEMMA UserTypes ==
  ASSUME TypeOK, GenRoom, NEW u \in Users, User(u)
  PROVE  TypeOK'
<1> USE DEF TypeOK, radioVars, moveVars, pollVars, userVars, flagVars, trialVars, workerVars
<1>0. NoCmd \in [kind : Commands \cup {None}, enc : Encodings]
  BY DefaultType DEF NoCmd
<1>1. CASE UserClaim(u)
  <2>1. UserType'
    <3>1. PICK k \in Kinds[u], c \in Encodings : cmd' = [cmd EXCEPT ![u] = [kind |-> k, enc |-> c]]
      BY <1>1 DEF UserClaim
    <3>2. k \in Commands
      BY ChannelAssumption
    <3>3. QED
      BY <1>1, <3>1, <3>2 DEF UserClaim, UserType
  <2>2. QED
    BY <1>1, <2>1 DEF UserClaim, RadioType, MoveType, FlagType, MailType, TrialType, WorkerType
<1>2. CASE UserCheck(u)
  <2>1. UserType'
    BY <1>0, <1>2 DEF UserCheck, UserType
  <2>2. RadioType'
    BY <1>2 DEF UserCheck, RadioType
  <2>3. QED
    BY <1>2, <2>1, <2>2 DEF UserCheck, MoveType, FlagType, MailType, TrialType, WorkerType
<1>3. CASE UserDisable(u)
  <2>1. generation < MaxGen
    BY <1>3 DEF GenRoom, UserDisable
  <2>2. FlagType'
    BY <1>3, <2>1, SetEnabledType DEF UserDisable, FlagType
  <2>3. UserType'
    BY <1>3 DEF UserDisable, UserType
  <2>4. QED
    BY <1>3, <2>2, <2>3 DEF UserDisable, RadioType, MoveType, MailType, TrialType, WorkerType
<1>4. CASE UserAnnounce(u)
  <2>1. MoveType'
    BY <1>4, EffectiveType, ChannelAssumption DEF UserAnnounce, Announce, MoveType, RadioType, UserType
  <2>2. UserType'
    BY <1>0, <1>4 DEF UserAnnounce, UserType
  <2>3. QED
    BY <1>4, <2>1, <2>2 DEF UserAnnounce, RadioType, FlagType, MailType, TrialType, WorkerType
<1>5. CASE UserApply(u)
  <2>1. cmd[u].enc \in Encodings
    BY DEF UserType
  <2>2. PICK o \in ApplyOutcomes(cmd[u].enc) :
          /\ Apply(o)
          /\ busy' = BusyAtEnd(o.fault)
          /\ pinned' = IF o.ok THEN (IF enabled THEN NoChannel ELSE o.enc) ELSE pinned
    BY <1>5 DEF UserApply
  <2>3. RadioType' /\ FlagType'
    BY <1>5, <2>1, <2>2, OutcomeType DEF UserApply, Apply, BusyAtEnd, RadioType, FlagType
  <2>4. UserType'
    BY <1>0, <1>5 DEF UserApply, UserType
  <2>5. QED
    BY <1>5, <2>3, <2>4 DEF UserApply, MoveType, MailType, TrialType, WorkerType
<1>6. CASE UserSession(u)
  <2>1. UserType'
    BY <1>0, <1>6 DEF UserSession, UserType
  <2>2. RadioType'
    BY <1>6 DEF UserSession, BusyAtEnd, RadioType
  <2>3. QED
    BY <1>6, <2>1, <2>2 DEF UserSession, MoveType, FlagType, MailType, TrialType, WorkerType
<1>7. CASE ScanStop(u)
  <2>1. UserType'
    BY <1>0, <1>7 DEF ScanStop, UserType
  <2>2. RadioType'
    BY <1>7 DEF ScanStop, BusyAtEnd, RadioType
  <2>3. QED
    BY <1>7, <2>1, <2>2 DEF ScanStop, MoveType, FlagType, MailType, TrialType, WorkerType
<1>8. CASE ScanRestore(u)
  <2>1. UserType'
    BY <1>0, <1>8 DEF ScanRestore, UserType
  <2>2. RadioType'
    BY <1>8, EffectiveType DEF ScanRestore, BusyAtEnd, RadioType
  <2>3. QED
    BY <1>8, <2>1, <2>2 DEF ScanRestore, MoveType, FlagType, MailType, TrialType, WorkerType
<1>9. QED
  BY <1>1, <1>2, <1>3, <1>4, <1>5, <1>6, <1>7, <1>8 DEF User

\* A step of the ESB thread keeps the types.
LEMMA PollTypes ==
  ASSUME TypeOK, Poll
  PROVE  TypeOK'
<1> USE DEF TypeOK, radioVars, moveVars, pollVars, userVars, flagVars, trialVars, workerVars
<1>1. CASE PollApply
  <2>1. move.enc \in Encodings /\ move.who \in Users \cup {"worker", None}
    BY DEF MoveType
  <2>2. PICK o \in ApplyOutcomes(move.enc) :
          /\ Apply(o)
          /\ polled' = [ok |-> o.ok, who |-> move.who]
          /\ pinned' = IF o.ok /\ ~move.auto THEN (IF enabled THEN NoChannel ELSE o.enc) ELSE pinned
    BY <1>1 DEF PollApply
  <2>3. RadioType' /\ FlagType'
    BY <1>1, <2>1, <2>2, OutcomeType DEF PollApply, Apply, RadioType, FlagType
  <2>4. MoveType'
    BY <1>1, <2>1, <2>2, OutcomeType DEF PollApply, MoveType
  <2>5. QED
    BY <1>1, <2>3, <2>4 DEF PollApply, UserType, MailType, TrialType, WorkerType
<1>2. CASE PollReport
  <2>1. Effective(home) \in Channels
    BY EffectiveType DEF RadioType
  <2>2. MailType'
    BY <1>2, <2>1 DEF PollReport, MoveType, MailType
  <2>3. MoveType' /\ RadioType'
    BY <1>2 DEF PollReport, BusyAtReport, MoveType, RadioType
  <2>4. QED
    BY <1>2, <2>2, <2>3 DEF PollReport, UserType, FlagType, TrialType, WorkerType
<1>3. CASE PollCallback
  <2>1. MoveType'
    BY <1>3 DEF PollCallback, MoveType
  <2>2. QED
    BY <1>3, <2>1 DEF PollCallback, RadioType, UserType, FlagType, MailType, TrialType, WorkerType
<1>4. CASE PollEnd
  BY <1>4 DEF PollEnd, BusyAtEnd, RadioType, MoveType, UserType, FlagType, MailType, TrialType, WorkerType
<1>5. QED
  BY <1>1, <1>2, <1>3, <1>4 DEF Poll

\* The end of a pass, or the next step of it.
LEMMA PassTypes ==
  ASSUME WorkerType, Schedule \/ \E pc \in WorkerPlaces : GoTo(pc)
  PROVE  WorkerType'
<1>1. CASE Schedule
  BY <1>1, ChannelAssumption DEF Schedule, WorkerType
<1>2. ASSUME NEW pc \in WorkerPlaces, GoTo(pc)
      PROVE  WorkerType'
  BY <1>2 DEF GoTo, WorkerType, WorkerPlaces
<1>3. QED
  BY <1>1, <1>2

\* A step of the automatic worker keeps the types.
LEMMA WorkerTypes ==
  ASSUME TypeOK, Requested, Worker
  PROVE  TypeOK'
<1> USE DEF TypeOK, radioVars, moveVars, pollVars, userVars, flagVars, trialVars, workerVars,
            OtherThreads, UNCHANGEDTrial
<1>1. CASE WorkerRead
  <2>1. WorkerType'
    BY <1>1, EffectiveType DEF WorkerRead, RadioType, FlagType, WorkerType
  <2>2. QED
    BY <1>1, <2>1 DEF WorkerRead, RadioType, MoveType, UserType, FlagType, MailType, TrialType
<1>2. CASE WorkerMail
  <2>1. WorkerType' /\ MailType'
    BY <1>2, PassTypes, ChannelAssumption DEF WorkerMail, MailType, NoMail, WorkerPlaces
  <2>2. TrialType'
    BY <1>2 DEF WorkerMail, WorkerType, TrialType, DiagInEpoch
  <2>3. QED
    BY <1>2, <2>1, <2>2 DEF WorkerMail, RadioType, MoveType, UserType, FlagType
<1>3. CASE WorkerEvidence
  <2>1. WorkerType'
    BY <1>3, PassTypes, ChannelAssumption DEF WorkerEvidence, WorkerType
  <2>2. TrialType' /\ FlagType'
    BY <1>3 DEF WorkerEvidence, TrialType, FlagType
  <2>3. QED
    BY <1>3, <2>1, <2>2 DEF WorkerEvidence, RadioType, MoveType, UserType, MailType
<1>4. CASE WorkerClaim \/ WorkerCheck
  <2>1. WorkerType'
    BY <1>4, PassTypes DEF WorkerClaim, WorkerCheck, WorkerPlaces
  <2>2. TrialType' /\ RadioType'
    BY <1>4 DEF WorkerClaim, WorkerCheck, TrialType, RadioType, ScanGivenUp
  <2>3. QED
    BY <1>4, <2>1, <2>2 DEF WorkerClaim, WorkerCheck, MoveType, UserType, FlagType, MailType
<1>5. CASE WorkerOwn
  <2>1. WorkerType'
    BY <1>5, PassTypes DEF WorkerOwn, WorkerPlaces
  <2>2. TrialType' /\ RadioType'
    BY <1>5 DEF WorkerOwn, TrialType, RadioType, ScanGivenUp, BusyAtEnd
  <2>3. QED
    BY <1>5, <2>1, <2>2 DEF WorkerOwn, MoveType, UserType, FlagType, MailType
<1>6. CASE WorkerStop
  <2>1. WorkerType'
    BY <1>6, PassTypes DEF WorkerStop, WorkerPlaces
  <2>2. TrialType' /\ RadioType'
    BY <1>6 DEF WorkerStop, TrialType, RadioType, ScanGivenUp, BusyAtEnd
  <2>3. QED
    BY <1>6, <2>1, <2>2 DEF WorkerStop, MoveType, UserType, FlagType, MailType
<1>7. CASE WorkerRadio
  <2>1. WorkerType'
    BY <1>7, PassTypes DEF WorkerRadio, WorkerPlaces
  <2>2. TrialType' /\ RadioType'
    BY <1>7, EffectiveType DEF WorkerRadio, TrialType, RadioType, ScanGivenUp, BusyAtEnd
  <2>3. FlagType'
    BY <1>7 DEF WorkerRadio, FlagType
  <2>4. QED
    BY <1>7, <2>1, <2>2, <2>3 DEF WorkerRadio, MoveType, UserType, MailType
<1>8. CASE WorkerDecide
  <2>1. WorkerType'
    BY <1>8, PassTypes DEF WorkerDecide, WorkerPlaces
  <2>2. TrialType'
    BY <1>8 DEF WorkerDecide, TrialType, WorkerType, ScanGivenUp
  <2>3. QED
    BY <1>8, <2>1, <2>2 DEF WorkerDecide, RadioType, MoveType, UserType, FlagType, MailType
<1>9. CASE WorkerReqClaim \/ WorkerReqCheck
  <2>1. WorkerType'
    BY <1>9, PassTypes DEF WorkerReqClaim, WorkerReqCheck, WorkerPlaces
  <2>2. TrialType' /\ RadioType'
    BY <1>9 DEF WorkerReqClaim, WorkerReqCheck, TrialType, RadioType
  <2>3. QED
    BY <1>9, <2>1, <2>2 DEF WorkerReqClaim, WorkerReqCheck, MoveType, UserType, FlagType, MailType
<1>10. CASE WorkerReqPut
  <2>1. WorkerType'
    BY <1>10, PassTypes DEF WorkerReqPut, WorkerPlaces
  <2>2. TrialType' /\ RadioType'
    BY <1>10 DEF WorkerReqPut, TrialType, RadioType, BusyAtEnd
  <2>3. Encode(reqTarget) \in Encodings /\ Effective(home) \in Channels
    BY <1>10, EncodeDecode, EffectiveType, ChannelAssumption DEF WorkerReqPut, Requested, RadioType
  <2>4. MoveType'
    <3>1. CASE UNCHANGED moveVars
      BY <1>10, <3>1 DEF WorkerReqPut, MoveType
    <3>2. CASE Announce([enc |-> Encode(reqTarget), auto |-> TRUE, gen |-> wToken,
                         old |-> Effective(home), who |-> "worker"])
      BY <1>10, <2>3, <3>2, ChannelAssumption DEF WorkerReqPut, Announce, MoveType, WorkerType
    <3>3. QED
      BY <1>10, <3>1, <3>2 DEF WorkerReqPut
  <2>5. QED
    BY <1>10, <2>1, <2>2, <2>4 DEF WorkerReqPut, UserType, FlagType, MailType
<1>11. QED
  BY <1>1, <1>2, <1>3, <1>4, <1>5, <1>6, <1>7, <1>8, <1>9, <1>10 DEF Worker

\* The steps of nobody in particular keep the types.
LEMMA OtherTypes ==
  ASSUME TypeOK, HidArm \/ SessionEnd \/ Toggle \/ Announcing \/ CooldownOver \/ UNCHANGED vars
  PROVE  TypeOK'
<1> USE DEF TypeOK, radioVars, moveVars, pollVars, userVars, flagVars, trialVars, workerVars
<1>1. CASE HidArm
  <2>1. UserType'
    BY <1>1, DefaultType DEF HidArm, UserType, NoCmd, Users
  <2>2. QED
    BY <1>1, <2>1 DEF HidArm, RadioType, MoveType, FlagType, MailType, TrialType, WorkerType
<1>2. CASE SessionEnd
  BY <1>2 DEF SessionEnd, RadioType, MoveType, UserType, FlagType, MailType, TrialType, WorkerType
<1>3. CASE Toggle
  <2>1. PICK v \in BOOLEAN : SetEnabled(v) /\ pinned' = IF v THEN NoChannel ELSE pinned
    BY <1>3 DEF Toggle
  <2>2. generation < MaxGen
    BY <1>3, ChannelAssumption DEF Toggle, FlagType
  <2>3. FlagType'
    BY <2>1, <2>2, SetEnabledType DEF FlagType
  <2>4. QED
    BY <1>3, <2>3 DEF Toggle, RadioType, MoveType, UserType, MailType, TrialType, WorkerType
<1>4. CASE Announcing
  <2>1. MoveType'
    BY <1>4, ChannelAssumption DEF Announcing, MoveType
  <2>2. QED
    BY <1>4, <2>1 DEF Announcing, RadioType, UserType, FlagType, MailType, TrialType, WorkerType
<1>5. CASE CooldownOver
  <2>1. TrialType'
    BY <1>5 DEF CooldownOver, TrialType
  <2>2. QED
    BY <1>5, <2>1 DEF CooldownOver, RadioType, MoveType, UserType, FlagType, MailType, WorkerType
<1>6. CASE UNCHANGED vars
  BY <1>6 DEF vars, RadioType, MoveType, UserType, FlagType, MailType, TrialType, WorkerType
<1>7. QED
  BY <1>1, <1>2, <1>3, <1>4, <1>5, <1>6

\* Every step keeps the types.
LEMMA NextTypes ==
  ASSUME TypeOK, GenRoom, Requested, [Next]_vars
  PROVE  TypeOK'
<1>1. CASE \E u \in Users : User(u)
  BY <1>1, UserTypes
<1>2. CASE Poll
  BY <1>2, PollTypes
<1>3. CASE Worker
  BY <1>3, WorkerTypes
<1>4. QED
  BY <1>1, <1>2, <1>3, OtherTypes DEF Next

-----------------------------------------------------------------------------
(* The invariant is inductive *)

Safe ==
  /\ GenRoom /\ Places /\ Requested
  /\ Exclusive /\ SessionClear /\ HomeKept /\ FaultHeld /\ PinKept /\ HidOwn

\* A command step keeps the safety part.
LEMMA UserSafe ==
  ASSUME IInv, TypeOK', NEW u \in Users, User(u)
  PROVE  Safe'
<1> USE DEF IInv, Safe, GenRoom, Places, Requested, Exclusive, SessionClear, HomeKept,
            FaultHeld, PinKept, PinnedStays, HidOwn, UserOwns, WorkerOwns, MoveOwns,
            radioVars, moveVars, pollVars, userVars, flagVars, trialVars, workerVars
<1>0. /\ pcU \in [Users -> {"idle", "check", "go", "announce", "apply", "arm", "scan"}]
      /\ cmd \in [Users -> [kind : Commands \cup {None}, enc : Encodings]]
      /\ "hid" \in Users
  BY DEF TypeOK, UserType, Users
<1>1. CASE UserClaim(u)
  <2>1. PICK k \in Kinds[u], c \in Encodings :
          /\ k \in {"all", "rx"} => generation < MaxGen
          /\ cmd' = [cmd EXCEPT ![u] = [kind |-> k, enc |-> c]]
    BY <1>1 DEF UserClaim
  <2>2. k \in Commands
    BY ChannelAssumption
  <2>3. QED
    BY <1>0, <1>1, <2>1, <2>2 DEF UserClaim, MayClaim
<1>2. CASE UserCheck(u)
  BY <1>0, <1>2 DEF UserCheck, Refused, NoCmd
<1>3. CASE UserDisable(u)
  BY <1>0, <1>3 DEF UserDisable, SetEnabled
<1>4. CASE UserAnnounce(u)
  BY <1>0, <1>4 DEF UserAnnounce, Announce, NoCmd
<1>5. CASE UserApply(u)
  <2>1. cmd[u].enc \in Encodings
    BY DEF TypeOK, UserType
  <2>2. PICK o \in ApplyOutcomes(cmd[u].enc) :
          /\ Apply(o)
          /\ busy' = BusyAtEnd(o.fault)
          /\ pinned' = IF o.ok THEN (IF enabled THEN NoChannel ELSE o.enc) ELSE pinned
    BY <1>5 DEF UserApply
  <2>3. /\ ~fault /\ flash = home /\ phys = Effective(home) /\ ~MoveOwns /\ ~WorkerOwns
        /\ \A v \in Users \ {u} : ~UserOwns(v)
    BY <1>0, <1>5 DEF UserApply
  <2>4. GenRoom' /\ Places' /\ Requested' /\ Exclusive' /\ SessionClear' /\ HidOwn'
    BY <1>0, <1>5, <2>3 DEF UserApply, NoCmd
  <2>5. flash' = home' /\ (phys' = Effective(home') \/ fault')
    BY <2>1, <2>2, <2>3, OutcomeType DEF Apply
  <2>6. HomeKept' /\ FaultHeld' /\ PinKept'
    BY <1>0, <1>5, <2>1, <2>2, <2>3, <2>5, OutcomeType DEF UserApply, Apply, BusyAtEnd
  <2>7. QED
    BY <2>4, <2>6
<1>6. CASE UserSession(u)
  BY <1>0, <1>6 DEF UserSession, BusyAtEnd, NoCmd
<1>7. CASE ScanStop(u)
  <2>1. ~fault /\ busy /\ ~MoveOwns /\ ~WorkerOwns /\ \A v \in Users \ {u} : ~UserOwns(v)
    BY <1>0, <1>7 DEF ScanStop
  <2>2. CASE pcU' = [pcU EXCEPT ![u] = "scan"] /\ UNCHANGED <<cmd, fault>>
    BY <1>0, <1>7, <2>1, <2>2 DEF ScanStop, BusyAtEnd
  <2>3. CASE /\ phys' = Unknown /\ fault' = TRUE
             /\ pcU' = [pcU EXCEPT ![u] = "idle"] /\ cmd' = [cmd EXCEPT ![u] = NoCmd]
    BY <1>0, <1>7, <2>1, <2>3 DEF ScanStop, BusyAtEnd, NoCmd
  <2>4. QED
    BY <1>7, <2>2, <2>3 DEF ScanStop
<1>8. CASE ScanRestore(u)
  <2>1. ~fault /\ busy /\ ~MoveOwns /\ ~WorkerOwns /\ \A v \in Users \ {u} : ~UserOwns(v)
    BY <1>0, <1>8 DEF ScanRestore
  <2>2. GenRoom' /\ Places' /\ Requested' /\ SessionClear' /\ HidOwn' /\ PinKept'
    BY <1>0, <1>8, <2>1 DEF ScanRestore, NoCmd
  <2>3. Exclusive'
    BY <1>0, <1>8, <2>1 DEF ScanRestore
  <2>4. HomeKept' /\ FaultHeld'
    <3>1. CASE phys' = Effective(home) /\ busy' = BusyAtEnd(fault) /\ UNCHANGED fault
      BY <1>0, <1>8, <2>1, <3>1 DEF ScanRestore
    <3>2. CASE phys' = Unknown /\ UNCHANGED busy
      BY <1>0, <1>8, <2>1, <3>2 DEF ScanRestore
    <3>3. QED
      BY <1>8, <3>1, <3>2 DEF ScanRestore
  <2>5. QED
    BY <2>2, <2>3, <2>4
<1>9. QED
  BY <1>1, <1>2, <1>3, <1>4, <1>5, <1>6, <1>7, <1>8 DEF User

\* A step of the ESB thread keeps the safety part.
LEMMA PollSafe ==
  ASSUME IInv, TypeOK', Poll
  PROVE  Safe'
<1> USE DEF IInv, Safe, GenRoom, Places, Requested, Exclusive, SessionClear, HomeKept,
            FaultHeld, PinKept, PinnedStays, HidOwn, UserOwns, WorkerOwns, MoveOwns,
            radioVars, moveVars, pollVars, userVars, flagVars, trialVars, workerVars
<1>0. "hid" \in Users
  BY DEF Users
<1>1. CASE PollApply
  <2>1. move.enc \in Encodings
    BY DEF TypeOK, MoveType
  <2>2. PICK o \in ApplyOutcomes(move.enc) :
          /\ Apply(o)
          /\ polled' = [ok |-> o.ok, who |-> move.who]
          /\ pinned' = IF o.ok /\ ~move.auto THEN (IF enabled THEN NoChannel ELSE o.enc) ELSE pinned
    BY <1>1 DEF PollApply
  <2>3. /\ busy /\ ~fault /\ flash = home /\ phys = Effective(home) /\ ~WorkerOwns
        /\ \A v \in Users : ~UserOwns(v)
    BY <1>1 DEF PollApply
  <2>4. GenRoom' /\ Places' /\ Requested' /\ Exclusive' /\ SessionClear'
    BY <1>1, <2>3 DEF PollApply
  <2>5. HidOwn'
    BY <1>0, <1>1, <2>2 DEF PollApply
  <2>6. flash' = home' /\ (phys' = Effective(home') \/ fault')
    BY <2>1, <2>2, <2>3, OutcomeType DEF Apply
  <2>7. HomeKept' /\ FaultHeld'
    BY <1>1, <2>1, <2>2, <2>3, <2>6, OutcomeType DEF PollApply, Apply
  <2>8. PinKept'
    BY <1>1, <2>1, <2>2, OutcomeType DEF PollApply, Apply
  <2>9. QED
    BY <2>4, <2>5, <2>7, <2>8
<1>2. CASE PollReport
  BY <1>0, <1>2 DEF PollReport, BusyAtReport
<1>3. CASE PollCallback
  BY <1>0, <1>3 DEF PollCallback, HoldsCompletionLock
<1>4. CASE PollEnd
  BY <1>0, <1>4 DEF PollEnd, BusyAtEnd
<1>5. QED
  BY <1>1, <1>2, <1>3, <1>4 DEF Poll

\* A step of the automatic worker keeps the safety part.
LEMMA WorkerSafe ==
  ASSUME IInv, TypeOK', Worker
  PROVE  Safe'
<1> USE DEF IInv, Safe, GenRoom, Places, Requested, Exclusive, SessionClear, HomeKept,
            FaultHeld, PinKept, PinnedStays, HidOwn, UserOwns, WorkerOwns, MoveOwns,
            radioVars, moveVars, pollVars, userVars, flagVars, trialVars, workerVars,
            OtherThreads, UNCHANGEDTrial, Schedule, GoTo
<1>1. CASE WorkerRead
  BY <1>1 DEF WorkerRead
<1>2. CASE WorkerMail
  BY <1>2 DEF WorkerMail
<1>3. CASE WorkerEvidence
  BY <1>3 DEF WorkerEvidence
<1>4. CASE WorkerClaim
  BY <1>4 DEF WorkerClaim, MayClaim
<1>5. CASE WorkerCheck
  BY <1>5 DEF WorkerCheck, Refused
<1>6. CASE WorkerOwn
  BY <1>6 DEF WorkerOwn, BusyAtEnd
<1>7. CASE WorkerStop
  <2>1. busy /\ ~fault /\ ~MoveOwns /\ \A v \in Users : ~UserOwns(v)
    BY <1>7 DEF WorkerStop
  <2>2. CASE Schedule /\ busy' = BusyAtEnd(fault) /\ UNCHANGED <<phys, fault>>
    BY <1>7, <2>1, <2>2 DEF WorkerStop, BusyAtEnd
  <2>3. CASE GoTo("radio") /\ UNCHANGED busy /\ (UNCHANGED fault \/ (phys' = Unknown /\ fault' = TRUE))
    BY <1>7, <2>1, <2>3 DEF WorkerStop
  <2>4. QED
    BY <1>7, <2>2, <2>3 DEF WorkerStop
<1>8. CASE WorkerRadio
  <2>1. busy /\ ~MoveOwns /\ \A v \in Users : ~UserOwns(v)
    BY <1>8 DEF WorkerRadio
  <2>2. CASE ~fault /\ phys' = Effective(home) /\ UNCHANGED fault /\ (Schedule \/ GoTo("decide"))
    BY <1>8, <2>1, <2>2 DEF WorkerRadio
  <2>3. CASE phys' = Unknown /\ Schedule /\ UNCHANGED busy
    BY <1>8, <2>1, <2>3 DEF WorkerRadio
  <2>4. QED
    BY <1>8, <2>2, <2>3 DEF WorkerRadio
<1>9. CASE WorkerDecide
  BY <1>9 DEF WorkerDecide
<1>10. CASE WorkerReqClaim
  BY <1>10 DEF WorkerReqClaim, MayClaim
<1>11. CASE WorkerReqCheck
  BY <1>11 DEF WorkerReqCheck, Refused
<1>12. CASE WorkerReqPut
  <2>1. busy /\ ~fault /\ ~MoveOwns /\ \A v \in Users : ~UserOwns(v)
    BY <1>12 DEF WorkerReqPut
  <2>2. CASE busy' = BusyAtEnd(fault) /\ UNCHANGED moveVars
    BY <1>12, <2>1, <2>2 DEF WorkerReqPut, BusyAtEnd
  <2>3. CASE MayAnnounce /\ pending' = TRUE /\ UNCHANGED busy
    BY <1>12, <2>1, <2>3 DEF WorkerReqPut, MayAnnounce, DecisionValid
  <2>4. QED
    BY <1>12, <2>2, <2>3 DEF WorkerReqPut, Announce
<1>13. QED
  BY <1>1, <1>2, <1>3, <1>4, <1>5, <1>6, <1>7, <1>8, <1>9, <1>10, <1>11, <1>12 DEF Worker

\* The steps of nobody in particular keep the safety part.
LEMMA OtherSafe ==
  ASSUME IInv, TypeOK', HidArm \/ SessionEnd \/ Toggle \/ Announcing \/ CooldownOver \/ UNCHANGED vars
  PROVE  Safe'
<1> USE DEF IInv, Safe, GenRoom, Places, Requested, Exclusive, SessionClear, HomeKept,
            FaultHeld, PinKept, PinnedStays, HidOwn, UserOwns, WorkerOwns, MoveOwns,
            radioVars, moveVars, pollVars, userVars, flagVars, trialVars, workerVars
<1>0. /\ pcU \in [Users -> {"idle", "check", "go", "announce", "apply", "arm", "scan"}]
      /\ cmd \in [Users -> [kind : Commands \cup {None}, enc : Encodings]]
      /\ "hid" \in Users
  BY DEF TypeOK, UserType, Users
<1>1. CASE HidArm
  BY <1>0, <1>1 DEF HidArm, NoCmd
<1>2. CASE SessionEnd
  BY <1>2 DEF SessionEnd
<1>3. CASE Toggle
  BY <1>3, ChannelAssumption DEF Toggle, SetEnabled, TypeOK, FlagType
<1>4. CASE Announcing
  BY <1>4 DEF Announcing
<1>5. CASE CooldownOver
  BY <1>5 DEF CooldownOver
<1>6. CASE UNCHANGED vars
  BY <1>6 DEF vars
<1>7. QED
  BY <1>1, <1>2, <1>3, <1>4, <1>5, <1>6

-----------------------------------------------------------------------------
(* Theorems *)

\* Every step keeps the invariant.
LEMMA Inductive == IInv /\ [Next]_vars => IInv'
<1> SUFFICES ASSUME IInv, [Next]_vars
             PROVE  IInv'
  OBVIOUS
<1>1. TypeOK'
  BY NextTypes DEF IInv
<1>2. Safe'
  <2>1. CASE \E u \in Users : User(u)
    BY <1>1, <2>1, UserSafe
  <2>2. CASE Poll
    BY <1>1, <2>2, PollSafe
  <2>3. CASE Worker
    BY <1>1, <2>3, WorkerSafe
  <2>4. QED
    BY <1>1, <2>1, <2>2, <2>3, OtherSafe DEF Next
<1>3. QED
  BY <1>1, <1>2 DEF IInv, Safe

\* The invariant holds when the receiver starts.
LEMMA Initial == Init => IInv
<1> SUFFICES ASSUME Init
             PROVE  IInv
  OBVIOUS
<1>1. TypeOK
  <2>1. Effective(home) \in Channels
    BY EffectiveType DEF Init
  <2>2. RadioType /\ WorkerType
    <3>1. RadioType
      BY <2>1 DEF Init, RadioType
    <3>2. WorkerType
      BY ChannelAssumption DEF Init, WorkerType
    <3>3. QED
      BY <3>1, <3>2
  <2>3. MoveType /\ MailType
    <3>1. 0 \in 0..MaxGen /\ 0 \in 0..AnnounceTicks
      BY ChannelAssumption
    <3>2. MailType
      BY <3>1, DefaultType DEF Init, MailType, NoMail
    <3>3. move \in [enc : Encodings, auto : BOOLEAN, gen : 0..MaxGen, old : Channels,
                   who : Users \cup {"worker", None}]
      BY <3>1, DefaultType DEF Init, NoMove
    <3>4. QED
      BY <3>1, <3>2, <3>3 DEF Init, MoveType
  <2>4. UserType
    BY DefaultType DEF Init, UserType, NoCmd
  <2>5. FlagType /\ TrialType
    <3>1. 0 \in 0..MaxGen
      BY ChannelAssumption
    <3>2. QED
      BY <3>1 DEF Init, FlagType, TrialType
  <2>6. QED
    BY <2>2, <2>3, <2>4, <2>5 DEF TypeOK
<1>2. GenRoom /\ Places /\ Requested /\ Exclusive /\ SessionClear /\ HidOwn
  BY DEF Init, GenRoom, Places, Requested, Exclusive, SessionClear, HidOwn, UserOwns, WorkerOwns,
         MoveOwns, Users
<1>3. HomeKept /\ FaultHeld /\ PinKept
  BY DEF Init, HomeKept, FaultHeld, PinKept, PinnedStays
<1>4. QED
  BY <1>1, <1>2, <1>3 DEF IInv

\* The invariant holds in every state of every behaviour.
LEMMA Invariance == Spec => []IInv
BY Initial, Inductive, PTL DEF Spec

\* Who owns the radio, in the terms of the model.
LEMMA OwnersSound == IInv => OneOwner
BY DEF IInv, Exclusive, OneOwner, Owners, UserOwns, WorkerOwns, MoveOwns

\* The state is well formed, radio_operation_begin lets in one operation at a time,
\* and no channel is changed under a session.
THEOREM RadioIsOwned == Spec => []RadioOwned
<1>1. IInv => RadioOwned
  BY OwnersSound DEF RadioOwned, NoMoveUnderSession, IInv, SessionClear
<1>2. QED
  BY <1>1, Invariance, PTL

\* With the gate open the radio receives on the home channel, which is the one in
\* flash, after every failure of channel_apply, of a scan or of a beacon.
THEOREM HomeIsServed == Spec => []HomeServed
<1>1. IInv => HomeServed
  BY DEF HomeServed, IInv, HomeKept, FaultHeld, Exclusive, UserOwns, WorkerOwns
<1>2. QED
  BY <1>1, Invariance, PTL

\* A home set by a command with avoidance off stays, whatever the worker was doing.
THEOREM PinnedHomeStays == Spec => []PinnedStays
<1>1. IInv => PinnedStays
  BY DEF IInv, PinKept
<1>2. QED
  BY <1>1, Invariance, PTL

-----------------------------------------------------------------------------
(* The evidence of a trial *)

\* Generations only grow.
Stamps ==
  /\ wToken <= generation /\ obsGen <= generation
  /\ mailbox.gen <= generation /\ move.gen <= generation

\* No move is announced and no command is about to change the home.
Settled == ~pending /\ \A u \in Users : pcU[u] \notin {"announce", "apply"}

\* A pass of auto_step works on the epoch it observed, and wants what it found due.
Pass ==
  /\ pcW \notin {"read", "mail"} => obsGen = wToken
  /\ pcW \in {"read", "mail", "evidence"} => want = {}
  /\ pcW \in {"reqclaim", "reqcheck", "reqput"} => diag = "commit" /\ "scan" \in want

\* A trial of this generation is on the home channel.
TrialHome ==
  diag \in {"recovery", "postcheck"} /\ obsGen = generation =>
    Effective(home) = reqTarget /\ Settled

\* A completion of this generation tells of the home channel, and the pass that has
\* not seen it is not choosing another.
MailHome ==
  mailbox.full /\ mailbox.gen = generation =>
    /\ Effective(home) = mailbox.new /\ Settled
    /\ pcW = "evidence" => diag # "scanning"
    /\ "scan" \in want => wToken # generation

\* Nor while the move of this generation is on its way.
Moving ==
  (pending \/ pcP = "report") /\ move.auto /\ move.gen = generation =>
    /\ diag # "scanning"
    /\ "scan" \in want => wToken # generation

TrialInv == Stamps /\ Pass /\ TrialHome /\ MailHome /\ Moving

\* A command step keeps it: a command counts a generation before it moves anything.
LEMMA UserTrial ==
  ASSUME IInv, TrialInv, NEW u \in Users, User(u)
  PROVE  TrialInv'
<1> USE DEF TrialInv, Stamps, Settled, Pass, TrialHome, MailHome, Moving,
            radioVars, moveVars, pollVars, userVars, flagVars, trialVars, workerVars
<1>0. /\ pcU \in [Users -> {"idle", "check", "go", "announce", "apply", "arm", "scan"}]
      /\ wToken \in Nat /\ obsGen \in Nat /\ mailbox.gen \in Nat /\ generation \in Nat
      /\ move.gen \in Nat
  BY ChannelAssumption
  DEF IInv, TypeOK, UserType, WorkerType, TrialType, MailType, FlagType, MoveType
<1>1. CASE UserClaim(u)
  BY <1>0, <1>1 DEF UserClaim
<1>2. CASE UserCheck(u)
  BY <1>0, <1>2 DEF UserCheck
<1>3. CASE UserDisable(u)
  BY <1>0, <1>3 DEF UserDisable, SetEnabled
<1>4. CASE UserAnnounce(u)
  BY <1>0, <1>4 DEF UserAnnounce, Announce
<1>5. CASE UserApply(u)
  BY <1>0, <1>5 DEF UserApply
<1>6. CASE UserSession(u)
  BY <1>0, <1>6 DEF UserSession
<1>7. CASE ScanStop(u)
  BY <1>0, <1>7 DEF ScanStop
<1>8. CASE ScanRestore(u)
  BY <1>0, <1>8 DEF ScanRestore
<1>9. QED
  BY <1>1, <1>2, <1>3, <1>4, <1>5, <1>6, <1>7, <1>8 DEF User

\* A step of the ESB thread keeps it: what it reports is the home.
LEMMA PollTrial ==
  ASSUME IInv, TrialInv, Poll
  PROVE  TrialInv'
<1> USE DEF TrialInv, Stamps, Settled, Pass, TrialHome, MailHome, Moving,
            radioVars, moveVars, pollVars, userVars, flagVars, trialVars, workerVars
<1>1. CASE PollApply
  BY <1>1 DEF PollApply
<1>2. CASE PollReport
  <2>1. ~pending /\ \A u \in Users : pcU[u] \notin {"announce", "apply"}
    BY <1>2 DEF PollReport, IInv, Exclusive, UserOwns, MoveOwns
  <2>2. CASE Reports
    <3>1. /\ mailbox' = [full |-> TRUE, gen |-> move.gen, old |-> move.old, new |-> Effective(home),
                         ok |-> polled.ok /\ Effective(home) # move.old]
          /\ move.auto /\ move.gen = generation
      BY <1>2, <2>2 DEF PollReport, Reports
    <3>2. mailbox'.gen = generation /\ mailbox'.new = Effective(home)
      BY <3>1
    <3>3. QED
      BY <1>2, <2>1, <3>1, <3>2 DEF PollReport
  <2>3. CASE ~Reports
    BY <1>2, <2>3 DEF PollReport
  <2>4. QED
    BY <2>2, <2>3
<1>3. CASE PollCallback
  BY <1>3 DEF PollCallback
<1>4. CASE PollEnd
  BY <1>4 DEF PollEnd
<1>5. QED
  BY <1>1, <1>2, <1>3, <1>4 DEF Poll

\* A step of the worker keeps it: the mail is taken before evidence is looked at.
LEMMA WorkerTrial ==
  ASSUME IInv, TrialInv, Worker
  PROVE  TrialInv'
<1> USE DEF TrialInv, Stamps, Settled, Pass, TrialHome, MailHome, Moving,
            radioVars, moveVars, pollVars, userVars, flagVars, trialVars, workerVars,
            OtherThreads, UNCHANGEDTrial, Schedule, GoTo
<1>0. generation \in Nat /\ ~(WorkerOwns /\ MoveOwns)
  BY ChannelAssumption DEF IInv, TypeOK, FlagType, Exclusive
<1>1. CASE WorkerRead
  BY <1>0, <1>1 DEF WorkerRead
<1>2. CASE WorkerMail
  <2>1. ~mailbox'.full /\ mailbox'.gen = 0
    BY <1>2 DEF WorkerMail, NoMail
  <2>2. Stamps' /\ Pass' /\ MailHome'
    BY <1>0, <1>2, <2>1 DEF WorkerMail
  <2>3. Moving'
    BY <1>2 DEF WorkerMail, DiagInEpoch
  <2>4. TrialHome'
    <3> SUFFICES ASSUME diag' \in {"recovery", "postcheck"}, wToken = generation
                 PROVE  Effective(home) = reqTarget /\ Settled
      BY <1>2 DEF WorkerMail
    <3>1. CASE TrialOver /\ Committed
      BY <3>1 DEF Committed
    <3>2. CASE ~(TrialOver /\ Committed)
      <4>1. diag' = DiagInEpoch
        BY <1>2, <3>2 DEF WorkerMail
      <4>2. ~NewEpoch /\ diag \in {"recovery", "postcheck"}
        BY <4>1 DEF DiagInEpoch, Committed
      <4>3. QED
        BY <4>2 DEF NewEpoch
    <3>3. QED
      BY <3>1, <3>2
  <2>5. QED
    BY <2>2, <2>3, <2>4
<1>3. CASE WorkerEvidence
  <2>1. /\ diag' \in {"recovery", "postcheck"} => diag \in {"recovery", "postcheck"}
        /\ diag' = "scanning" => diag = "scanning"
        /\ "scan" \in want' => diag = "scanning"
        /\ diag = "commit" => diag' = "commit"
        /\ pcW' \in {"gate", "read"} /\ (pcW' = "read" => want' = {})
        /\ wToken' \in {wToken, 0} /\ (pcW' = "gate" => wToken' = wToken)
    BY <1>3 DEF WorkerEvidence, Evidence
  <2>2. QED
    BY <1>0, <1>3, <2>1 DEF WorkerEvidence
<1>4. CASE WorkerClaim
  BY <1>0, <1>4 DEF WorkerClaim, ScanGivenUp
<1>5. CASE WorkerCheck
  BY <1>0, <1>5 DEF WorkerCheck, ScanGivenUp
<1>6. CASE WorkerOwn
  BY <1>0, <1>6 DEF WorkerOwn, ScanGivenUp, WorkerOwns, MoveOwns
<1>7. CASE WorkerStop
  BY <1>0, <1>7 DEF WorkerStop, ScanGivenUp
<1>8. CASE WorkerRadio
  <2>1. /\ diag' \in {diag, "monitor"} /\ (Schedule \/ GoTo("decide"))
        /\ UNCHANGED <<home, moveVars, generation, mailbox, obsGen, reqTarget, pcU, pcP>>
    BY <1>8 DEF WorkerRadio, ScanGivenUp
  <2>2. QED
    BY <1>0, <1>8, <2>1 DEF WorkerRadio
<1>9. CASE WorkerDecide
  BY <1>0, <1>9 DEF WorkerDecide, ScanGivenUp, StillValid, DecisionValid
<1>10. CASE WorkerReqClaim
  BY <1>0, <1>10 DEF WorkerReqClaim
<1>11. CASE WorkerReqCheck
  BY <1>0, <1>11 DEF WorkerReqCheck
<1>12. CASE WorkerReqPut
  BY <1>0, <1>12 DEF WorkerReqPut, MayAnnounce, DecisionValid, Announce
<1>13. QED
  BY <1>1, <1>2, <1>3, <1>4, <1>5, <1>6, <1>7, <1>8, <1>9, <1>10, <1>11, <1>12 DEF Worker

\* The steps of nobody in particular keep it.
LEMMA OtherTrial ==
  ASSUME IInv, TrialInv,
         HidArm \/ SessionEnd \/ Toggle \/ Announcing \/ CooldownOver \/ UNCHANGED vars
  PROVE  TrialInv'
<1> USE DEF TrialInv, Stamps, Settled, Pass, TrialHome, MailHome, Moving,
            radioVars, moveVars, pollVars, userVars, flagVars, trialVars, workerVars
<1>0. /\ pcU \in [Users -> {"idle", "check", "go", "announce", "apply", "arm", "scan"}]
      /\ wToken \in Nat /\ obsGen \in Nat /\ mailbox.gen \in Nat /\ generation \in Nat
      /\ move.gen \in Nat
  BY ChannelAssumption
  DEF IInv, TypeOK, UserType, WorkerType, TrialType, MailType, FlagType, MoveType
<1>1. CASE HidArm
  BY <1>0, <1>1 DEF HidArm
<1>2. CASE SessionEnd
  BY <1>2 DEF SessionEnd
<1>3. CASE Toggle
  BY <1>0, <1>3 DEF Toggle, SetEnabled
<1>4. CASE Announcing
  BY <1>4 DEF Announcing
<1>5. CASE CooldownOver
  BY <1>5 DEF CooldownOver
<1>6. CASE UNCHANGED vars
  BY <1>6 DEF vars
<1>7. QED
  BY <1>1, <1>2, <1>3, <1>4, <1>5, <1>6

\* A completion and a trial of this generation are about the home channel.
LEMMA TrialInvariance == Spec => [](IInv /\ TrialInv)
<1>1. Init => TrialInv
  BY ChannelAssumption
  DEF Init, TrialInv, Stamps, Settled, Pass, TrialHome, MailHome, Moving, NoMail, NoMove
<1>2. IInv /\ TrialInv /\ [Next]_vars => TrialInv'
  <2> SUFFICES ASSUME IInv, TrialInv, [Next]_vars
               PROVE  TrialInv'
    OBVIOUS
  <2>1. CASE \E u \in Users : User(u)
    BY <2>1, UserTrial
  <2>2. CASE Poll
    BY <2>2, PollTrial
  <2>3. CASE Worker
    BY <2>3, WorkerTrial
  <2>4. QED
    BY <2>1, <2>2, <2>3, OtherTrial DEF Next
<1>3. QED
  BY <1>1, <1>2, Invariance, PTL DEF Spec

\* The interference latch is set only on evidence from a trial channel that is still
\* the home, in the epoch of the trial (the last part of auto_step that looks at loss).
THEOREM LatchesAfterTrial == Spec => LatchAfterTrial
<1>1. IInv /\ TrialInv /\ [Next]_vars
        => [~latched /\ latched' => Effective(home) = reqTarget /\ obsGen = generation]_vars
  <2> SUFFICES ASSUME IInv, TrialInv, Next, ~latched, latched'
               PROVE  Effective(home) = reqTarget /\ obsGen = generation
    OBVIOUS
  <2> USE DEF radioVars, moveVars, pollVars, userVars, flagVars, trialVars, workerVars,
              OtherThreads, UNCHANGEDTrial
  <2>1. WorkerEvidence
    <3>1. ASSUME NEW u \in Users, User(u)
          PROVE  FALSE
      BY <3>1 DEF User, UserClaim, UserCheck, UserDisable, UserAnnounce, UserApply, UserSession,
                  ScanStop, ScanRestore, SetEnabled
    <3>2. CASE Poll
      BY <3>2 DEF Poll, PollApply, PollReport, PollCallback, PollEnd
    <3>3. CASE HidArm \/ SessionEnd \/ Toggle \/ Announcing \/ CooldownOver
      BY <3>3 DEF HidArm, SessionEnd, Toggle, Announcing, CooldownOver, SetEnabled
    <3>4. CASE Worker
      BY <3>4 DEF Worker, WorkerRead, WorkerMail, WorkerClaim, WorkerCheck, WorkerOwn, WorkerStop,
                  WorkerRadio, WorkerDecide, WorkerReqClaim, WorkerReqCheck, WorkerReqPut
    <3>5. QED
      BY <3>1, <3>2, <3>3, <3>4 DEF Next
  <2>2. diag = "postcheck" /\ DecisionValid(wToken) /\ pcW = "evidence"
    BY <2>1 DEF WorkerEvidence, Evidence, Latches
  <2>3. obsGen = generation
    BY <2>2 DEF DecisionValid, TrialInv, Pass
  <2>4. QED
    BY <2>2, <2>3 DEF TrialInv, TrialHome
<1>2. QED
  BY <1>1, TrialInvariance, PTL DEF Spec, LatchAfterTrial

\* After a fault nobody touches the radio and the gate stays closed.
THEOREM FaultIsSticky == Spec => FaultSticky
<1>1. IInv /\ [Next]_vars
        => [fault => fault' /\ busy' /\ phys' = phys /\ home' = home]_vars
  <2> SUFFICES ASSUME IInv, Next, fault
               PROVE  fault' /\ busy' /\ phys' = phys /\ home' = home
    OBVIOUS
  <2> USE DEF radioVars, moveVars, pollVars, userVars, flagVars, trialVars, workerVars,
              OtherThreads, UNCHANGEDTrial
  <2>0. /\ busy /\ phys = Unknown /\ ~pending /\ \A u \in Users : ~UserOwns(u)
        /\ WorkerOwns => pcW = "radio"
    BY DEF IInv, FaultHeld
  <2>1. ASSUME NEW u \in Users, User(u)
        PROVE  fault' /\ busy' /\ phys' = phys /\ home' = home
    BY <2>0, <2>1 DEF User, UserClaim, UserCheck, UserDisable, UserAnnounce, UserApply, UserSession,
                      ScanStop, ScanRestore, MayClaim, UserOwns
  <2>2. CASE Poll
    BY <2>0, <2>2 DEF Poll, PollApply, PollReport, PollCallback, PollEnd, BusyAtReport, BusyAtEnd
  <2>3. CASE HidArm \/ SessionEnd \/ Toggle \/ Announcing \/ CooldownOver
    BY <2>0, <2>3 DEF HidArm, SessionEnd, Toggle, Announcing, CooldownOver
  <2>4. CASE Worker
    BY <2>0, <2>4 DEF Worker, WorkerRead, WorkerMail, WorkerEvidence, WorkerClaim, WorkerCheck,
                      WorkerOwn, WorkerStop, WorkerRadio, WorkerDecide, WorkerReqClaim,
                      WorkerReqCheck, WorkerReqPut, MayClaim, WorkerOwns
  <2>5. QED
    BY <2>1, <2>2, <2>3, <2>4 DEF Next
<1>2. QED
  BY <1>1, Invariance, PTL DEF Spec, FaultSticky

\* A HID host is told "done" about its own move, not about another's
\* (on_tracker_channel_done with arm_ch_hid_completion).
THEOREM HidIsToldItsOwn == Spec => HidAckOwn
<1>1. IInv /\ [Next]_vars => [hidPending /\ ~hidPending' => polled.who = "hid"]_vars
  <2> SUFFICES ASSUME IInv, Next, hidPending, ~hidPending'
               PROVE  polled.who = "hid"
    OBVIOUS
  <2> USE DEF radioVars, moveVars, pollVars, userVars, flagVars, trialVars, workerVars,
              OtherThreads, UNCHANGEDTrial
  <2>1. ASSUME NEW u \in Users, User(u)
        PROVE  FALSE
    BY <2>1 DEF User, UserClaim, UserCheck, UserDisable, UserAnnounce, UserApply, UserSession,
                ScanStop, ScanRestore
  <2>2. CASE HidArm \/ SessionEnd \/ Toggle \/ Announcing \/ CooldownOver
    BY <2>2 DEF HidArm, SessionEnd, Toggle, Announcing, CooldownOver
  <2>3. CASE Worker
    BY <2>3 DEF Worker, WorkerRead, WorkerMail, WorkerEvidence, WorkerClaim, WorkerCheck,
                WorkerOwn, WorkerStop, WorkerRadio, WorkerDecide, WorkerReqClaim,
                WorkerReqCheck, WorkerReqPut
  <2>4. CASE Poll
    <3>1. pcP = "callback"
      BY <2>4 DEF Poll, PollApply, PollReport, PollCallback, PollEnd
    <3>2. QED
      BY <3>1 DEF IInv, HidOwn, Exclusive
  <2>5. QED
    BY <2>1, <2>2, <2>3, <2>4 DEF Next
<1>2. QED
  BY <1>1, Invariance, PTL DEF Spec, HidAckOwn

===============================================================================
