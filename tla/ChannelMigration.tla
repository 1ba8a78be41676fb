--------------------------- MODULE ChannelMigration ---------------------------
(***************************************************************************)
(* Who may use the radio, and how its home channel moves: the admission    *)
(* gate of esb.c, channel moves announced to the trackers and applied by   *)
(* the ESB thread, the automatic channel worker (auto_channel.c), the      *)
(* console and HID commands (rcv_cmd.c) and the RSSI scan (rssi_scan.c).   *)
(*                                                                         *)
(* Measurements, loss evidence and the choice of a channel are free        *)
(* choices; what is kept is every read, check and store of shared state,   *)
(* in the order of the code, with the other threads in between.            *)
(***************************************************************************)
EXTENDS Integers, FiniteSets

CONSTANTS
  Channels,       \* radio channels
  AutoChannels,   \* those an automatic move may choose
  FactoryHome,    \* CONFIG_RADIO_RF_CHANNEL
  AnnounceTicks,  \* CHANNEL_CHANGE_ANNOUNCE_MS
  MaxGen,         \* bound: enable and disable requests, the last left to a command
  Kinds           \* Kinds[u]: the commands the thread u gives in this run

Default == 255     \* ESB_RF_CHANNEL_DEFAULT
ZeroEnc == 128     \* ESB_RF_CHANNEL_ZERO_ENC
Off     == -1      \* of the radio: stopped,
Unknown == -2      \* or in a state nobody vouches for
NoChannel == -3
Users   == {"console", "hid"}
Commands == {"all", "rx", "scan", "ota", "collect"}

ASSUME ChannelAssumption ==
  /\ Channels \subseteq 0..100
  /\ AutoChannels \subseteq Channels /\ FactoryHome \in Channels
  /\ AnnounceTicks \in Nat /\ MaxGen \in Nat
  /\ Kinds \in [Users -> SUBSET Commands]

VARIABLES
  busy,       \* radio_operation_busy
  fault,      \* esb_radio_fault
  phys,       \* the channel the radio receives on, Off or Unknown
  home,       \* receiver_rf_channel, encoded
  flash,      \* the RF_CHANNEL record
  sessions,   \* OTA and raw collection sessions that are active
  pending,    \* channel_change_pending
  move,       \* the move announced last
  age,        \* time since its announcement
  pcP,        \* channel_change_poll in the ESB thread
  polled,     \* did its channel_apply succeed, and (auxiliary) for whom?
  hidPending, \* ch_hid_pending
  pcU, cmd,   \* where each command thread is, and in which command
  enabled, generation, latched, acFault,  \* the automatic worker's shared flags
  mailbox,    \* completion, completion_pending
  diag,       \* diagnostic
  obsHome, obsGen, reqHome, reqTarget, cooling,
  pcW, wHome, wToken, want,   \* the worker's place and locals in auto_step
  pinned      \* auxiliary: the home a command set with avoidance off

radioVars  == <<busy, fault, phys, home, flash>>
moveVars   == <<pending, move, age>>
pollVars   == <<pcP, polled>>
userVars   == <<pcU, cmd>>
flagVars   == <<enabled, generation, latched, acFault>>
trialVars  == <<diag, obsHome, obsGen, reqHome, reqTarget, cooling>>
workerVars == <<pcW, wHome, wToken, want>>
vars == <<radioVars, sessions, moveVars, pollVars, hidPending, userVars, flagVars,
          mailbox, trialVars, workerVars, pinned>>

None   == "none"
NoMove == [enc |-> Default, auto |-> FALSE, gen |-> 0, old |-> FactoryHome, who |-> None]
NoMail == [full |-> FALSE, gen |-> 0, old |-> FactoryHome, new |-> FactoryHome,
           ok |-> FALSE]
NoCmd  == [kind |-> None, enc |-> Default]

Encode(channel) == IF channel = 0 THEN ZeroEnc ELSE channel
Decode(stored) ==
  CASE stored = ZeroEnc -> 0
    [] stored = 0 \/ (stored > 100 /\ stored # ZeroEnc) -> Default
    [] OTHER -> stored
Encodings == {Encode(c) : c \in Channels} \cup {Default}

\* the decoded channel, RADIO_RF_CHANNEL in place of the default
Effective(enc) == IF Decode(enc) = Default THEN FactoryHome ELSE Decode(enc)

-----------------------------------------------------------------------------
(* The gate *)

MayClaim == ~fault /\ ~busy

\* radio_operation_begin after the compare-and-set: what refuses a request
Refused_NotAfterClaim(kind) == FALSE
Refused(kind) == IF kind = "collect" THEN "ota" \in sessions ELSE sessions # {}

BusyAtEnd_Always(f) == FALSE
\* esb_radio_operation_end, f the state of esb_radio_fault
BusyAtEnd(f) == f

\* channel_apply: success; failure with the old channel kept or restored;
\* failure to restore it
ApplyOutcomes_NoRollback(enc) ==
  {[ok |-> TRUE,  phys |-> Effective(enc), enc |-> enc,  fault |-> FALSE],
   [ok |-> FALSE, phys |-> Effective(enc), enc |-> home, fault |-> FALSE]}
ApplyOutcomes(enc) ==
  {[ok |-> TRUE,  phys |-> Effective(enc), enc |-> enc,  fault |-> FALSE],
   [ok |-> FALSE, phys |-> phys,           enc |-> home, fault |-> FALSE],
   [ok |-> FALSE, phys |-> Unknown,      enc |-> home, fault |-> TRUE]}

Apply(o) ==
  /\ phys' = o.phys
  /\ home' = o.enc
  /\ flash' = IF o.ok THEN o.enc ELSE flash
  /\ fault' = o.fault

\* auto_channel_set_enabled
SetEnabled(v) ==
  /\ enabled' = v
  /\ generation' = generation + 1
  /\ latched' = IF v THEN FALSE ELSE latched
  /\ UNCHANGED acFault

DecisionValid(token) == enabled /\ ~latched /\ ~acFault /\ generation = token

\* the irq_lock section of channel_change_begin
Announce(m) ==
  /\ move' = m
  /\ pending' = TRUE
  /\ age' = 0

-----------------------------------------------------------------------------
(* Commands *)

UserClaim(u) ==
  /\ pcU[u] = "idle" /\ MayClaim
  /\ \E k \in Kinds[u], c \in Encodings :
       /\ k \in {"all", "rx"} => generation < MaxGen
       /\ k \notin {"all", "rx"} => c = Default
       /\ cmd' = [cmd EXCEPT ![u] = [kind |-> k, enc |-> c]]
  /\ busy' = TRUE
  /\ pcU' = [pcU EXCEPT ![u] = "check"]
  /\ UNCHANGED <<fault, phys, home, flash, sessions, moveVars, pollVars, hidPending,
                 flagVars, mailbox, trialVars, workerVars, pinned>>

UserCheck(u) ==
  /\ pcU[u] = "check"
  /\ IF Refused(cmd[u].kind)
     THEN /\ busy' = FALSE
          /\ pcU' = [pcU EXCEPT ![u] = "idle"] /\ cmd' = [cmd EXCEPT ![u] = NoCmd]
     ELSE /\ pcU' = [pcU EXCEPT ![u] = "go"]
          /\ UNCHANGED <<busy, cmd>>
  /\ UNCHANGED <<fault, phys, home, flash, sessions, moveVars, pollVars, hidPending,
                 flagVars, mailbox, trialVars, workerVars, pinned>>

\* A manual command switches automatic avoidance off while it owns the radio.
UserDisable(u) ==
  /\ pcU[u] = "go" /\ cmd[u].kind \in {"all", "rx"}
  /\ SetEnabled(FALSE)
  /\ pcU' = [pcU EXCEPT ![u] = IF cmd[u].kind = "all" THEN "announce" ELSE "apply"]
  /\ UNCHANGED <<radioVars, sessions, moveVars, pollVars, hidPending, cmd, mailbox,
                 trialVars, workerVars, pinned>>

\* esb_set_all_trackers_channel, esb_clear_all_trackers_channel
UserAnnounce(u) ==
  /\ pcU[u] = "announce"
  /\ Announce([enc |-> cmd[u].enc, auto |-> FALSE, gen |-> 0, old |-> Effective(home),
               who |-> u])
  /\ pcU' = [pcU EXCEPT ![u] = IF u = "hid" THEN "arm" ELSE "idle"]
  /\ cmd' = IF u = "hid" THEN cmd ELSE [cmd EXCEPT ![u] = NoCmd]
  /\ UNCHANGED <<radioVars, sessions, pollVars, hidPending, flagVars, mailbox,
                 trialVars, workerVars, pinned>>

\* arm_ch_hid_completion, still under channel_completion_lock
HidArm ==
  /\ pcU["hid"] = "arm"
  /\ hidPending' = TRUE
  /\ pcU' = [pcU EXCEPT !["hid"] = "idle"] /\ cmd' = [cmd EXCEPT !["hid"] = NoCmd]
  /\ UNCHANGED <<radioVars, sessions, moveVars, pollVars, flagVars, mailbox, trialVars,
                 workerVars, pinned>>

\* esb_set_receiver_channel, esb_clear_receiver_channel
UserApply(u) ==
  /\ pcU[u] = "apply"
  /\ \E o \in ApplyOutcomes(cmd[u].enc) :
       /\ Apply(o)
       /\ busy' = BusyAtEnd(o.fault)
       /\ pinned' = IF o.ok THEN (IF enabled THEN NoChannel ELSE o.enc) ELSE pinned
  /\ pcU' = [pcU EXCEPT ![u] = "idle"] /\ cmd' = [cmd EXCEPT ![u] = NoCmd]
  /\ UNCHANGED <<sessions, moveVars, pollVars, hidPending, flagVars, mailbox,
                 trialVars, workerVars>>

\* OTA BEGIN and collection start: the gate covers the start of the session
UserSession(u) ==
  /\ pcU[u] = "go" /\ cmd[u].kind \in {"ota", "collect"}
  /\ sessions' = sessions \cup {cmd[u].kind}
  /\ busy' = BusyAtEnd(fault)
  /\ pcU' = [pcU EXCEPT ![u] = "idle"] /\ cmd' = [cmd EXCEPT ![u] = NoCmd]
  /\ UNCHANGED <<fault, phys, home, flash, moveVars, pollVars, hidPending, flagVars,
                 mailbox, trialVars, workerVars, pinned>>

SessionEnd ==
  /\ \E s \in sessions : sessions' = sessions \ {s}
  /\ UNCHANGED <<radioVars, moveVars, pollVars, hidPending, userVars, flagVars, mailbox,
                 trialVars, workerVars, pinned>>

\* rssi_scan_run_and_print stops the radio ...
ScanStop(u) ==
  /\ pcU[u] = "go" /\ cmd[u].kind = "scan"
  /\ \/ /\ phys' = Off /\ UNCHANGED fault
        /\ pcU' = [pcU EXCEPT ![u] = "scan"]
        /\ UNCHANGED cmd
     \/ /\ phys' = Unknown /\ fault' = TRUE
        /\ pcU' = [pcU EXCEPT ![u] = "idle"] /\ cmd' = [cmd EXCEPT ![u] = NoCmd]
  /\ busy' = (busy /\ (pcU'[u] = "scan" \/ BusyAtEnd(fault')))
  /\ UNCHANGED <<home, flash, sessions, moveVars, pollVars, hidPending, flagVars,
                 mailbox, trialVars, workerVars, pinned>>

\* ... and restores it, keeping the gate closed when that fails
ScanRestore(u) ==
  /\ pcU[u] = "scan"
  /\ \/ phys' = Effective(home) /\ busy' = BusyAtEnd(fault) /\ UNCHANGED fault
     \/ phys' = Unknown /\ UNCHANGED busy /\ fault' \in {fault, TRUE}
  /\ pcU' = [pcU EXCEPT ![u] = "idle"] /\ cmd' = [cmd EXCEPT ![u] = NoCmd]
  /\ UNCHANGED <<home, flash, sessions, moveVars, pollVars, hidPending, flagVars,
                 mailbox, trialVars, workerVars, pinned>>

\* channelauto on | off, which asks no one
Toggle ==
  /\ generation < MaxGen - 1
  /\ \E v \in BOOLEAN :
       /\ SetEnabled(v)
       /\ pinned' = IF v THEN NoChannel ELSE pinned
  /\ UNCHANGED <<radioVars, sessions, moveVars, pollVars, hidPending, userVars, mailbox,
                 trialVars, workerVars>>

User(u) ==
  \/ UserClaim(u) \/ UserCheck(u) \/ UserDisable(u) \/ UserAnnounce(u) \/ UserApply(u)
  \/ UserSession(u) \/ ScanStop(u) \/ ScanRestore(u)

-----------------------------------------------------------------------------
(* channel_change_poll in the ESB thread *)

PollApply ==
  /\ pcP = "idle" /\ pending /\ age = AnnounceTicks
  /\ pending' = FALSE
  /\ \E o \in ApplyOutcomes(move.enc) :
       /\ Apply(o)
       /\ polled' = [ok |-> o.ok, who |-> move.who]
       /\ pinned' = IF o.ok /\ ~move.auto THEN (IF enabled THEN NoChannel ELSE o.enc) ELSE pinned
  /\ pcP' = "report"
  /\ UNCHANGED <<busy, sessions, move, age, hidPending, userVars, flagVars, mailbox,
                 trialVars, workerVars>>

Reports_OnSuccess == move.auto /\ move.gen = generation /\ polled.ok
\* auto_channel_migration_complete accepts the result of its own generation
Reports == move.auto /\ move.gen = generation

BusyAtReport == busy

PollReport ==
  /\ pcP = "report"
  /\ busy' = BusyAtReport
  /\ mailbox' = IF Reports
                THEN [full |-> TRUE, gen |-> move.gen, old |-> move.old,
                      new |-> Effective(home),
                      ok |-> polled.ok /\ Effective(home) # move.old]
                ELSE mailbox
  /\ pcP' = "callback"
  /\ UNCHANGED <<fault, phys, home, flash, sessions, moveVars, polled, hidPending, userVars, flagVars,
                 trialVars, workerVars, pinned>>

HoldsCompletionLock_Never == FALSE
\* channel_completion_lock is held by the HID handler of a move for all
HoldsCompletionLock == pcU["hid"] # "idle" /\ cmd["hid"].kind = "all"

\* on_tracker_channel_done
PollCallback ==
  /\ pcP = "callback" /\ ~HoldsCompletionLock
  /\ hidPending' = FALSE
  /\ pcP' = "end"
  /\ UNCHANGED <<radioVars, sessions, moveVars, polled, userVars, flagVars, mailbox,
                 trialVars, workerVars, pinned>>

\* Admission stays closed until the completion is delivered.
PollEnd ==
  /\ pcP = "end"
  /\ busy' = BusyAtEnd(fault)
  /\ pcP' = "idle"
  /\ UNCHANGED <<fault, phys, home, flash, sessions, moveVars, polled, hidPending,
                 userVars, flagVars, mailbox, trialVars, workerVars, pinned>>

Poll == PollApply \/ PollReport \/ PollCallback \/ PollEnd
-----------------------------------------------------------------------------
(* auto_step of the automatic channel worker *)

\* the end of a pass: the locals go out of scope
Schedule == pcW' = "read" /\ wHome' = NoChannel /\ wToken' = 0 /\ want' = {}
GoTo(pc) == pcW' = pc /\ UNCHANGED <<wHome, wToken, want>>
\* reset_sweep and a scan given up
ScanGivenUp == IF diag = "scanning" THEN "monitor" ELSE diag
UNCHANGEDTrial == UNCHANGED <<obsHome, obsGen, reqHome, reqTarget, cooling>>
OtherThreads == <<sessions, pollVars, hidPending, userVars, pinned>>

WorkerRead ==
  /\ pcW = "read"
  /\ wHome' = Effective(home) /\ wToken' = generation
  /\ pcW' = "mail"
  /\ UNCHANGED <<radioVars, moveVars, flagVars, mailbox, trialVars, want, OtherThreads>>

\* The completed move is the one asked for, and the home read above is its target.
Committed ==
  /\ mailbox.full /\ diag = "commit"
  /\ mailbox.gen = wToken /\ wToken = obsGen
  /\ mailbox.old = reqHome /\ mailbox.new = reqTarget
  /\ mailbox.ok /\ wHome = mailbox.new
NewEpoch == wHome # obsHome \/ wToken # obsGen
DiagInEpoch == IF NewEpoch /\ ~Committed THEN "monitor" ELSE diag
TrialOver ==
  /\ mailbox.full /\ DiagInEpoch = "commit"
  /\ mailbox.gen = wToken /\ mailbox.old = reqHome
  /\ ~mailbox.ok \/ mailbox.new = reqTarget

WorkerMail ==
  /\ pcW = "mail"
  /\ diag' = IF ~TrialOver THEN DiagInEpoch
             ELSE IF Committed THEN "recovery" ELSE "monitor"
  /\ cooling' = IF TrialOver /\ Committed THEN TRUE ELSE (cooling /\ ~NewEpoch)
  /\ obsHome' = wHome /\ obsGen' = wToken
  /\ mailbox' = NoMail
  /\ GoTo("evidence")
  /\ UNCHANGED <<radioVars, moveVars, flagVars, reqHome, reqTarget, OtherThreads>>

Latches == DecisionValid(wToken)
\* the loss evidence of this wake, per phase; a wake may bring none
Evidence(next, latch, qualified) ==
  \/ next = diag /\ ~latch /\ ~qualified
  \/ diag = "recovery" /\ next = "postcheck" /\ ~latch /\ ~qualified
  \/ diag = "scanning" /\ next = "monitor" /\ ~latch /\ ~qualified
  \/ diag = "postcheck" /\ next \in {"recovery", "monitor"} /\ ~latch /\ ~qualified
  \/ diag = "postcheck" /\ next = "postcheck" /\ latch /\ ~qualified
  \/ diag = "monitor" /\ next = "monitor" /\ ~latch /\ qualified /\ ~cooling

\* pairing: esb_pairing_is_active; latch: loss stayed high after the trial
WorkerEvidence ==
  /\ pcW = "evidence"
  /\ \E next \in {"monitor", "scanning", "commit", "recovery", "postcheck"},
        latch, qualified, pairing, beacon, scan \in BOOLEAN :
       /\ Evidence(next, latch, qualified)
       /\ latched' = (latched \/ (latch /\ Latches))
       /\ scan => next = "scanning"
       /\ LET available == DecisionValid(wToken) /\ ~pairing /\ ~latch
              due == (IF beacon THEN {"beacon"} ELSE {})
                     \cup (IF scan THEN {"scan"} ELSE {})
                     \cup (IF qualified THEN {"start"} ELSE {})
          IN  /\ diag' = IF ~available /\ next = "scanning" THEN "monitor" ELSE next
              /\ IF available /\ due # {}
                 THEN pcW' = "gate" /\ want' = due /\ UNCHANGED <<wHome, wToken>>
                 ELSE Schedule
  /\ UNCHANGEDTrial
  /\ UNCHANGED <<radioVars, moveVars, enabled, generation, acFault, mailbox,
                 OtherThreads>>

WorkerClaim ==
  /\ pcW = "gate"
  /\ IF MayClaim
     THEN busy' = TRUE /\ GoTo("check") /\ UNCHANGED diag
     ELSE diag' = ScanGivenUp /\ Schedule /\ UNCHANGED busy
  /\ UNCHANGEDTrial
  /\ UNCHANGED <<fault, phys, home, flash, moveVars, flagVars, mailbox, OtherThreads>>

WorkerCheck ==
  /\ pcW = "check"
  /\ IF Refused("auto")
     THEN busy' = FALSE /\ diag' = ScanGivenUp /\ Schedule
     ELSE GoTo("own") /\ UNCHANGED <<busy, diag>>
  /\ UNCHANGEDTrial
  /\ UNCHANGED <<fault, phys, home, flash, moveVars, flagVars, mailbox, OtherThreads>>

StillValid == DecisionValid(wToken) /\ Effective(home) = wHome

\* the checks with the gate held, and the start of a sweep
WorkerOwn ==
  /\ pcW = "own"
  /\ \/ /\ busy' = BusyAtEnd(fault) /\ diag' = ScanGivenUp   \* not valid, or pairing
        /\ Schedule
     \/ /\ StillValid
        /\ diag' = IF "start" \in want THEN "scanning" ELSE diag
        /\ IF want \cap {"beacon", "scan"} = {}
           THEN busy' = BusyAtEnd(fault) /\ Schedule
           ELSE GoTo("stop") /\ UNCHANGED busy
  /\ UNCHANGEDTrial
  /\ UNCHANGED <<fault, phys, home, flash, moveVars, flagVars, mailbox, OtherThreads>>

\* checked again after the dither, then esb_radio_operation_stop
WorkerStop ==
  /\ pcW = "stop"
  /\ \/ /\ busy' = BusyAtEnd(fault) /\ diag' = ScanGivenUp
        /\ Schedule
        /\ UNCHANGED <<phys, fault>>
     \/ /\ StillValid
        /\ \/ phys' = Off /\ UNCHANGED fault
           \/ phys' = Unknown /\ fault' = TRUE
        /\ GoTo("radio")
        /\ UNCHANGED <<busy, diag>>
  /\ UNCHANGEDTrial
  /\ UNCHANGED <<home, flash, moveVars, flagVars, mailbox, OtherThreads>>

\* beacon and measurement, then restore; err: one of them failed
WorkerRadio ==
  /\ pcW = "radio"
  /\ \E err \in BOOLEAN :
       \/ /\ ~fault                                           \* restored
          /\ phys' = Effective(home)
          /\ busy' = BusyAtEnd(fault)
          /\ IF err THEN diag' = ScanGivenUp /\ Schedule
                    ELSE GoTo("decide") /\ UNCHANGED diag
          /\ UNCHANGED <<fault, acFault>>
       \/ /\ phys' = Unknown /\ fault' \in {fault, TRUE}     \* not restored
          /\ acFault' = TRUE
          /\ diag' = ScanGivenUp
          /\ Schedule
          /\ UNCHANGED busy
  /\ UNCHANGEDTrial
  /\ UNCHANGED <<home, flash, moveVars, enabled, generation, latched, mailbox,
                 OtherThreads>>

\* the sweep goes on, ends without a better channel, or finds one
WorkerDecide ==
  /\ pcW = "decide"
  /\ \/ /\ ~StillValid
        /\ diag' = ScanGivenUp /\ Schedule /\ UNCHANGED <<reqHome, reqTarget>>
     \/ /\ StillValid
        /\ diag' \in (IF "scan" \in want THEN {"scanning", "monitor"} ELSE {diag})
        /\ Schedule /\ UNCHANGED <<reqHome, reqTarget>>
     \/ /\ StillValid /\ "scan" \in want
        /\ reqHome' = wHome
        /\ reqTarget' \in AutoChannels \ {wHome}
        /\ diag' = "commit"
        /\ GoTo("reqclaim")
  /\ UNCHANGED <<obsHome, obsGen, cooling>>
  /\ UNCHANGED <<radioVars, moveVars, flagVars, mailbox, OtherThreads>>

\* esb_auto_channel_request: the gate is taken anew
WorkerReqClaim ==
  /\ pcW = "reqclaim"
  /\ IF MayClaim
     THEN busy' = TRUE /\ GoTo("reqcheck") /\ UNCHANGED diag
     ELSE diag' = "monitor" /\ Schedule /\ UNCHANGED busy
  /\ UNCHANGEDTrial
  /\ UNCHANGED <<fault, phys, home, flash, moveVars, flagVars, mailbox, OtherThreads>>

WorkerReqCheck ==
  /\ pcW = "reqcheck"
  /\ IF Refused("auto")
     THEN busy' = FALSE /\ diag' = "monitor" /\ Schedule
     ELSE GoTo("reqput") /\ UNCHANGED <<busy, diag>>
  /\ UNCHANGEDTrial
  /\ UNCHANGED <<fault, phys, home, flash, moveVars, flagVars, mailbox, OtherThreads>>

MayAnnounce_Unchecked == TRUE
\* the check of channel_change_begin for a move that is not manual
MayAnnounce == DecisionValid(wToken) /\ Effective(home) = wHome

WorkerReqPut ==
  /\ pcW = "reqput"
  /\ \/ /\ busy' = BusyAtEnd(fault) /\ diag' = "monitor"      \* refused, or pairing
        /\ UNCHANGED moveVars
     \/ /\ MayAnnounce
        /\ Announce([enc |-> Encode(reqTarget), auto |-> TRUE, gen |-> wToken, old |-> Effective(home),
                     who |-> "worker"])
        /\ UNCHANGED <<busy, diag>>
  /\ Schedule
  /\ UNCHANGEDTrial
  /\ UNCHANGED <<fault, phys, home, flash, flagVars, mailbox, OtherThreads>>

Worker ==
  \/ WorkerRead \/ WorkerMail \/ WorkerEvidence \/ WorkerClaim \/ WorkerCheck
  \/ WorkerOwn \/ WorkerStop \/ WorkerRadio \/ WorkerDecide
  \/ WorkerReqClaim \/ WorkerReqCheck \/ WorkerReqPut

-----------------------------------------------------------------------------

\* time passes for the announcement
Announcing ==
  /\ pending /\ age < AnnounceTicks
  /\ age' = age + 1
  /\ UNCHANGED <<radioVars, sessions, pending, move, pollVars, hidPending, userVars,
                 flagVars, mailbox, trialVars, workerVars, pinned>>

CooldownOver ==
  /\ cooling /\ cooling' = FALSE
  /\ UNCHANGED <<radioVars, sessions, moveVars, pollVars, hidPending, userVars, flagVars,
                 mailbox, diag, obsHome, obsGen, reqHome, reqTarget, workerVars, pinned>>

Init ==
  /\ busy = FALSE /\ fault = FALSE
  /\ home \in Encodings /\ flash = home /\ phys = Effective(home)
  /\ sessions = {}
  /\ pending = FALSE /\ move = NoMove /\ age = 0
  /\ pcP = "idle" /\ polled = [ok |-> FALSE, who |-> None]
  /\ hidPending = FALSE
  /\ pcU = [u \in Users |-> "idle"] /\ cmd = [u \in Users |-> NoCmd]
  /\ enabled = FALSE /\ generation = 0 /\ latched = FALSE /\ acFault = FALSE
  /\ mailbox = NoMail
  /\ diag = "monitor" /\ obsHome = NoChannel /\ obsGen = 0
  /\ reqHome = NoChannel /\ reqTarget = NoChannel /\ cooling = FALSE
  /\ pcW = "read" /\ wHome = NoChannel /\ wToken = 0 /\ want = {}
  /\ pinned = NoChannel

Next ==
  \/ \E u \in Users : User(u)
  \/ HidArm \/ SessionEnd \/ Toggle \/ Poll \/ Worker \/ Announcing \/ CooldownOver

Spec == Init /\ [][Next]_vars

\* A thread in the middle of a command, the ESB thread and the worker go on,
\* and time passes. No one has to give another command.
FairSpec ==
  /\ Spec
  /\ \A u \in Users : WF_vars(pcU[u] # "idle" /\ User(u))
  /\ WF_vars(HidArm) /\ WF_vars(Poll) /\ WF_vars(Worker) /\ WF_vars(Announcing)

-----------------------------------------------------------------------------
(* Properties *)

RadioType ==
  /\ busy \in BOOLEAN /\ fault \in BOOLEAN
  /\ phys \in Channels \cup {Off, Unknown}
  /\ home \in Encodings /\ flash \in Encodings
  /\ sessions \subseteq {"ota", "collect"}
MoveType ==
  /\ pending \in BOOLEAN /\ age \in 0..AnnounceTicks
  /\ move \in [enc : Encodings, auto : BOOLEAN, gen : 0..MaxGen,
               old : Channels, who : Users \cup {"worker", None}]
  /\ pcP \in {"idle", "report", "callback", "end"}
  /\ polled \in [ok : BOOLEAN, who : Users \cup {"worker", None}]
  /\ hidPending \in BOOLEAN
UserType ==
  /\ pcU \in [Users -> {"idle", "check", "go", "announce", "apply", "arm", "scan"}]
  /\ cmd \in [Users -> [kind : Commands \cup {None}, enc : Encodings]]
FlagType ==
  /\ enabled \in BOOLEAN /\ latched \in BOOLEAN /\ acFault \in BOOLEAN
  /\ generation \in 0..MaxGen
  /\ pinned \in Encodings \cup {NoChannel}
MailType ==
  mailbox \in [full : BOOLEAN, gen : 0..MaxGen, old : Channels, new : Channels, ok : BOOLEAN]
TrialType ==
  /\ diag \in {"monitor", "scanning", "commit", "recovery", "postcheck"}
  /\ obsHome \in Channels \cup {NoChannel} /\ obsGen \in 0..MaxGen
  /\ reqHome \in Channels \cup {NoChannel} /\ reqTarget \in AutoChannels \cup {NoChannel}
  /\ cooling \in BOOLEAN
WorkerType ==
  /\ pcW \in {"read", "mail", "evidence", "gate", "check", "own", "stop", "radio",
              "decide", "reqclaim", "reqcheck", "reqput"}
  /\ wHome \in Channels \cup {NoChannel} /\ wToken \in 0..MaxGen
  /\ want \subseteq {"beacon", "scan", "start"}

\* Every variable has the range of the C object it stands for.
TypeOK ==
  RadioType /\ MoveType /\ UserType /\ FlagType /\ MailType /\ TrialType /\ WorkerType

Owners ==
  {u \in Users : pcU[u] \in {"check", "go", "announce", "apply", "scan"}}
  \cup (IF pcW \in {"check", "own", "stop", "radio", "reqcheck", "reqput"}
        THEN {"worker"} ELSE {})
  \cup (IF pending \/ pcP # "idle" THEN {"move"} ELSE {})

\* The radio has one owner at a time: a command, the worker, or an announced
\* move from its announcement to the delivery of its result.
OneOwner ==
  /\ \A o, p \in Owners : o = p
  /\ Owners # {} => busy

\* Whenever the gate is open the radio listens on the home channel, and that
\* is the one a restart would use, whatever failed on the way.
HomeServed == ~busy => phys = Effective(home) /\ flash = home

\* No channel is changed under an OTA or a raw collection session.
NoMoveUnderSession == pending \/ pcP = "report" => sessions = {}

\* The state is well formed, and radio_operation_begin lets one operation in, and
\* none that a session forbids.
RadioOwned == TypeOK /\ OneOwner /\ NoMoveUnderSession

\* With avoidance off, the home a command set stays until the next command,
\* though the worker was in the middle of a decision.
PinnedStays == pinned # NoChannel => home = pinned

\* After a fault no one touches the radio and the gate stays closed.
FaultSticky == [][fault => fault' /\ busy' /\ phys' = phys /\ home' = home]_vars

\* The interference latch is set only on evidence from a trial channel that
\* is still the home, in the epoch of the trial.
LatchAfterTrial ==
  [][~latched /\ latched' => Effective(home) = reqTarget /\ obsGen = generation]_vars

\* The HID command that is told "done" is the one whose move is done.
HidAckOwn == [][hidPending /\ ~hidPending' => polled.who = "hid"]_vars

\* A host that was told "started" is told the end.
HidAnswered == hidPending ~> ~hidPending

\* A host that asked for a move is told its end, and not that of another move
\* (the completion in rcv_cmd.c).
HidTold == HidAckOwn /\ HidAnswered

\* The worker does not wait for ever for a move it asked for.
CommitWaitEnds == diag = "commit" ~> diag # "commit"

\* A trial of the worker is judged by its own evidence, and ends (auto_step).
TrialJudged == LatchAfterTrial /\ CommitWaitEnds

\* A committed trial of the current epoch is followed by its recovery check.  It
\* does not hold: see TrialMissed.cfg.
CommitRecognised ==
  [][pcW = "mail" /\ pcW' # pcW /\ diag = "commit" /\ mailbox.full /\ mailbox.ok
       /\ mailbox.gen = generation /\ mailbox.gen = obsGen
     => diag' = "recovery"]_vars
=============================================================================
