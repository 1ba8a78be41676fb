------------------------------- MODULE Pairing -------------------------------
(***************************************************************************)
(* Pairing sessions and the tracker roster (src/connection/esb.c and       *)
(* tracker_roster.c): the radio interrupts that see discovery packets, the *)
(* ESB thread that registers queued devices and ends sessions, the console *)
(* / HID / button threads that start, stop and edit, and the roster record *)
(* in flash that must survive a reset at any point.                        *)
(*                                                                         *)
(* A roster operation holds tracker_store_lock from its checks to its      *)
(* irq_lock section; it is two actions, the flash write and the commit to  *)
(* RAM, so that interrupts and resets fall between them. Starting and      *)
(* finishing a session take no lock: each is two actions, the store to     *)
(* esb_pairing and the rest, and the threads interleave between the two    *)
(* when Preempt holds. A slot id is an index of the roster minus one.      *)
(***************************************************************************)
EXTENDS Integers, Sequences, FiniteSets

CONSTANTS
  Devices,        \* device addresses heard by the radio
  BadDevices,     \* those tracker_roster_address_valid refuses
  MaxTrackers,    \* MAX_TRACKERS
  QueueCap,       \* depth of esb_pairing_msgq
  MaxTarget,      \* largest count given to esb_start_pairing_with_count
  Timeouts,       \* the values of CONFIG_PAIRING_TIMEOUT, 0 switches it off
  ExitTicks,      \* PAIRING_EXIT_DELAY_MS
  Resets,         \* may the receiver reset?
  Preempt,        \* may a thread run in the middle of another's lock-free code?
  UserOps         \* the roster edits users make in this run

ASSUME PairingAssumption ==
  /\ BadDevices \subseteq Devices
  /\ "absent" \notin Devices /\ "corrupt" \notin Devices   \* see Absent, Corrupt
  /\ MaxTrackers \in 1..255 /\ QueueCap \in Nat \ {0}
  /\ MaxTarget \in 1..255
  /\ Timeouts \subseteq Nat /\ IsFiniteSet(Timeouts) /\ ExitTicks \in Nat \ {0}
  /\ Resets \in BOOLEAN /\ Preempt \in BOOLEAN
  /\ UserOps \subseteq {"add", "pop", "clear"}

VARIABLES
  timeout,     \* CONFIG_PAIRING_TIMEOUT of this build, fixed
  record,      \* the TRACKER_ROSTER record in flash
  legacy,      \* the keys older firmware wrote, or Absent
  roster,      \* stored_tracker_addr[0 .. stored_trackers - 1]
  ready,       \* tracker_store_ready
  rosterErr,   \* roster_err of the ESB thread
  pairing,     \* esb_pairing
  target,      \* pairing_target_count
  initial,     \* pairing_initial_count
  sessionAge,  \* time since pairing_start_time, None when it is 0
  reachedAge,  \* time since pairing_target_reached_time, None when it is 0
  blocked,     \* pairing_new_devices_blocked
  queue,       \* esb_pairing_msgq
  call,        \* the session call a user thread is in the middle of
  pcE,         \* where the ESB thread is
  evt,         \* the request it is working on
  op,          \* the roster operation holding tracker_store_lock
  doubt,       \* auxiliary: the operation whose write reported an error and is in
               \* flash all the same, "none" when RAM and flash agree again
  heard,       \* auxiliary: the last QueueCap requests since the session was opened
  assigned,    \* auxiliary: the id each device was told and still holds
  added        \* auxiliary: devices registered since the session started

sessionVars == <<pairing, target, initial, sessionAge, reachedAge, blocked>>
storeVars   == <<timeout, record, legacy, roster, ready, rosterErr>>
threadVars  == <<call, pcE, evt>>
vars == <<storeVars, sessionVars, queue, threadVars, op, doubt, heard, assigned, added>>

None    == -1
Absent  == <<"absent">>
Corrupt == <<"corrupt">>
NoDev   == "none"
NoOp    == [kind |-> "none", who |-> "none", dev |-> NoDev]
NoCall  == [kind |-> "none", count |-> 0]
ByteRange == 256

Ran(s) == {s[k] : k \in 1..Len(s)}
AgeTop == IF timeout > ExitTicks THEN timeout ELSE ExitTicks
Older(age) == IF age = None \/ age = AgeTop THEN age ELSE age + 1

Rosters(n) == UNION {[1..k -> Devices] : k \in 0..n}
Distinct(s) == \A j, k \in DOMAIN s : s[j] = s[k] => j = k

\* roster_valid
RosterValid(s) ==
  Len(s) <= MaxTrackers /\ Ran(s) \cap BadDevices = {} /\ Distinct(s)

Known(d) == d \in Ran(roster)                 \* esb_find_tracker
IdOf(d) == (CHOOSE k \in 1..Len(roster) : roster[k] = d) - 1

-----------------------------------------------------------------------------
(* Sessions *)

\* esb_start_pairing (n = 0) and esb_start_pairing_with_count once
\* esb_pairing is set
StartRest(n) ==
  /\ sessionAge' = 0
  /\ target' = n
  /\ initial' = Len(roster)
  /\ queue' = <<>>
  /\ added' = 0
  /\ UNCHANGED <<reachedAge, blocked>>

\* esb_finish_pair once esb_pairing is cleared
FinishRest ==
  /\ sessionAge' = None /\ reachedAge' = None
  /\ target' = 0 /\ initial' = 0
  /\ blocked' = FALSE
  /\ queue' = <<>>

\* Console and button threads run below the ESB thread and not inside its
\* non-blocking code; the work queue of the HID commands runs anywhere.
UserMayRun ==
  Preempt \/ pcE \notin {"timeout", "target", "mark", "exit", "ended", "left"}
EsbMayRun == Preempt \/ call = NoCall
\* Session commands come over USB or from the button, with the ESB thread in
\* its loop.
Booted == pcE \notin {"boot", "count", "fresh"}

UserStart ==
  /\ call = NoCall /\ Booted /\ UserMayRun
  /\ pairing' = TRUE /\ heard' = <<>>
  /\ \E n \in 0..MaxTarget : call' = [kind |-> "start", count |-> n]
  /\ UNCHANGED <<storeVars, target, initial, sessionAge, reachedAge, blocked, queue,
                 pcE, evt, op, doubt, assigned, added>>

UserStarted ==
  /\ call.kind = "start"
  /\ StartRest(call.count)
  /\ call' = NoCall
  /\ UNCHANGED <<storeVars, pairing, pcE, evt, op, doubt, heard, assigned>>

UserFinish ==
  /\ call = NoCall /\ Booted /\ UserMayRun
  /\ pairing' = FALSE /\ heard' = <<>>
  /\ call' = [kind |-> "finish", count |-> 0]
  /\ UNCHANGED <<storeVars, target, initial, sessionAge, reachedAge, blocked, queue,
                 pcE, evt, op, doubt, assigned, added>>

UserFinished ==
  /\ call.kind = "finish"
  /\ FinishRest
  /\ call' = NoCall
  /\ UNCHANGED <<storeVars, pairing, pcE, evt, op, doubt, heard, assigned, added>>

-----------------------------------------------------------------------------
(* Discovery packets in the radio interrupts *)

\* A full queue makes room for the new request.
Roomy(q) == IF Len(q) = QueueCap THEN Tail(q) ELSE q

\* Step 0 in event_handler: an unknown device is queued, the oldest request
\* making room; a blocked session ignores it.
Request(d) ==
  /\ pairing /\ ~Known(d) /\ ~blocked
  /\ queue' = Append(Roomy(queue), d)
  /\ heard' = Append(IF Len(heard) = QueueCap THEN Tail(heard) ELSE heard, d)
  /\ UNCHANGED <<storeVars, sessionVars, threadVars, op, doubt, assigned, added>>

\* Step 1 in esb_ack_handler_cb: the answer tells a known device its id.
Answer(d) ==
  /\ pairing /\ Known(d)
  /\ assigned' = [assigned EXCEPT ![d] = IdOf(d)]
  /\ UNCHANGED <<storeVars, sessionVars, queue, threadVars, op, doubt, heard, added>>

-----------------------------------------------------------------------------
(* Roster operations under tracker_store_lock *)

\* tracker_roster_save, with the result that its caller sees: it refuses an invalid
\* roster, and a write that reports an error may have reached the flash or not.
Save(kind, s, ok) ==
  /\ ok => RosterValid(s)
  /\ record' \in IF ok THEN {s} ELSE IF RosterValid(s) THEN {record, s} ELSE {record}
  /\ doubt' = IF ok THEN "none" ELSE IF record' = record THEN doubt ELSE kind

\* esb_add_pair goes on to write the roster
AddWrites_NotReady(d) ==
  d \notin BadDevices /\ ~Known(d) /\ Len(roster) < MaxTrackers
AddWrites(d) ==
  d \notin BadDevices /\ ready /\ ~Known(d) /\ Len(roster) < MaxTrackers

\* on an error the roster in RAM stays as it is
AddSave(who, d, ok) ==
  /\ Save("add", Append(roster, d), ok)
  /\ op' = IF ok THEN [kind |-> "add", who |-> who, dev |-> d] ELSE op

UserAdd ==
  /\ UserMayRun /\ "add" \in UserOps /\ op = NoOp
  /\ \E d \in Devices, ok \in BOOLEAN : AddWrites(d) /\ AddSave("user", d, ok)
  /\ UNCHANGED <<timeout, legacy, roster, ready, rosterErr, sessionVars, queue, threadVars,
                 heard, assigned, added>>

PopSave_IgnoresError(ok) ==
  /\ Save("pop", SubSeq(roster, 1, Len(roster) - 1), ok)
  /\ op' = [kind |-> "pop", who |-> "user", dev |-> roster[Len(roster)]]
PopSave(ok) ==
  /\ Save("pop", SubSeq(roster, 1, Len(roster) - 1), ok)
  /\ op' = IF ok THEN [kind |-> "pop", who |-> "user", dev |-> roster[Len(roster)]]
           ELSE op

\* esb_pop_pair up to its irq_lock section
UserPop ==
  /\ UserMayRun /\ "pop" \in UserOps /\ op = NoOp
  /\ ready /\ roster # <<>>
  /\ \E ok \in BOOLEAN : PopSave(ok)
  /\ UNCHANGED <<timeout, legacy, roster, ready, rosterErr, sessionVars, queue, threadVars,
                 heard, assigned, added>>

ClearedQueue_Kept == queue
ClearedQueue == <<>>
\* esb_clear up to its irq_lock section; the session flag falls without the
\* rest of esb_finish_pair
UserClear ==
  /\ UserMayRun /\ "clear" \in UserOps /\ op = NoOp
  /\ \E ok \in BOOLEAN :
       /\ Save("clear", <<>>, ok)
       /\ IF ok
          THEN /\ op' = [kind |-> "clear", who |-> "user", dev |-> NoDev]
               /\ pairing' = FALSE /\ heard' = <<>>
               /\ queue' = ClearedQueue
          ELSE UNCHANGED <<op, pairing, heard, queue>>
  /\ UNCHANGED <<timeout, legacy, roster, ready, rosterErr, target, initial, sessionAge,
                 reachedAge, blocked, threadVars, assigned, added>>

\* the devices that an operation under way removes, and those that a removal took
\* out of the flash although its write reported an error
Removing == CASE op.kind = "pop"   -> {op.dev}
              [] op.kind = "clear" -> Devices
              [] OTHER             -> {}
Leaving == CASE doubt = "pop"   -> {roster[Len(roster)]}
             [] doubt = "clear" -> Devices
             [] OTHER           -> {}
\* the ids that are left when the flash is all there is
Remaining == [d \in Devices |-> IF d \in Removing \cup Leaving THEN None ELSE assigned[d]]

\* The irq_lock sections that publish an operation to the interrupts
CommitAdd ==
  /\ op.kind = "add"
  /\ roster' = Append(roster, op.dev)
  /\ added' = IF added < MaxTarget THEN added + 1 ELSE added
  /\ pcE' = IF op.who = "esb" THEN "drain" ELSE pcE
  /\ UNCHANGED <<ready, assigned>>

CommitPop ==
  /\ op.kind = "pop"
  /\ roster' = SubSeq(roster, 1, Len(roster) - 1)
  /\ assigned' = [assigned EXCEPT ![op.dev] = None]
  /\ UNCHANGED <<ready, added, pcE>>

CommitClear ==
  /\ op.kind = "clear"
  /\ roster' = <<>> /\ ready' = TRUE
  /\ assigned' = [d \in Devices |-> None]
  /\ UNCHANGED <<added, pcE>>

Commit ==
  /\ CommitAdd \/ CommitPop \/ CommitClear
  /\ op' = NoOp
  /\ UNCHANGED <<timeout, record, legacy, rosterErr, sessionVars, queue, call, evt, doubt, heard>>

-----------------------------------------------------------------------------
(* The ESB thread *)

\* tracker_roster_load finds the record, or the keys of older firmware, which
\* it commits as a record before it returns them.
Found == IF record # Absent THEN record ELSE IF legacy # Absent THEN legacy ELSE <<>>
Loads == Found # Corrupt /\ RosterValid(Found)

\* tracker_store_restore; a read may fail, and so may the write that migrates, before
\* or after it reached the flash
Restore ==
  IF ready THEN rosterErr' = "none" /\ UNCHANGED <<record, roster, ready, doubt, assigned>>
  ELSE \/ /\ Loads
          /\ record' = Found /\ roster' = Found
          /\ ready' = TRUE /\ rosterErr' = "none"
          /\ doubt' = "none" /\ assigned' = Remaining
       \/ ~Loads /\ rosterErr' = "invalid" /\ UNCHANGED <<record, roster, ready, doubt, assigned>>
       \/ /\ rosterErr' = "transient"
          /\ record' \in {record} \cup (IF Loads THEN {Found} ELSE {})
          /\ UNCHANGED <<roster, ready, doubt, assigned>>

EsbBoot ==
  /\ pcE = "boot" /\ op = NoOp
  /\ Restore
  /\ pcE' = "count"
  /\ UNCHANGED <<timeout, legacy, sessionVars, queue, call, evt, op, heard, added>>

\* tracker_count is read once and used after the radio has been started
EsbCount ==
  /\ pcE = "count"
  /\ pcE' = IF roster = <<>> THEN "fresh" ELSE "loop"
  /\ UNCHANGED <<storeVars, sessionVars, queue, call, evt, op, doubt, heard, assigned, added>>

\* an empty roster opens a session by itself
EsbFresh ==
  /\ pcE = "fresh"
  /\ pcE' = "loop"
  /\ IF ready
     THEN /\ pairing' = TRUE /\ sessionAge' = 0 /\ target' = 0 /\ initial' = 0
          /\ heard' = <<>> /\ added' = 0
          /\ UNCHANGED <<reachedAge, blocked>>
     ELSE UNCHANGED <<sessionVars, heard, added>>
  /\ UNCHANGED <<storeVars, queue, call, evt, op, doubt, assigned>>

\* retry of a transient roster failure at the top of the loop
EsbRetry ==
  /\ pcE = "loop" /\ rosterErr = "transient" /\ op = NoOp
  /\ Restore
  /\ IF rosterErr' = "none" /\ roster' = <<>>
     THEN /\ pairing' = TRUE /\ sessionAge' = 0 /\ target' = 0 /\ initial' = 0
          /\ queue' = <<>> /\ heard' = <<>> /\ added' = 0
          /\ UNCHANGED <<reachedAge, blocked>>
     ELSE UNCHANGED <<sessionVars, queue, heard, added>>
  /\ UNCHANGED <<timeout, legacy, threadVars, op>>

\* tracker_events_process apart, nothing runs outside a session
EsbLoop ==
  /\ pcE = "loop" /\ pairing
  /\ pcE' = "drain"
  /\ UNCHANGED <<storeVars, sessionVars, queue, call, evt, op, doubt, heard, assigned, added>>

\* process_pairing_queue takes one request, or goes on when there is none
EsbDrain ==
  /\ pcE = "drain"
  /\ IF queue = <<>>
     THEN pcE' = "timeout" /\ UNCHANGED <<queue, evt>>
     ELSE pcE' = "parse" /\ evt' = Head(queue) /\ queue' = Tail(queue)
  /\ UNCHANGED <<storeVars, sessionVars, call, op, doubt, heard, assigned, added>>

\* the lookup of esb_parse_pair, before it calls esb_add_pair
EsbParse ==
  /\ pcE = "parse" /\ op = NoOp
  /\ pcE' = IF Known(evt) \/ Len(roster) >= MaxTrackers THEN "drain" ELSE "add"
  /\ UNCHANGED <<storeVars, sessionVars, queue, call, evt, op, doubt, heard, assigned, added>>

\* esb_add_pair up to its irq_lock section
EsbAdd ==
  /\ pcE = "add" /\ op = NoOp
  /\ IF AddWrites(evt)
     THEN \E ok \in BOOLEAN :
            AddSave("esb", evt, ok) /\ pcE' = IF ok THEN "commit" ELSE "drain"
     ELSE pcE' = "drain" /\ UNCHANGED <<record, op, doubt>>
  /\ UNCHANGED <<timeout, legacy, roster, ready, rosterErr, sessionVars, queue, call, evt,
                 heard, assigned, added>>

\* esb_finish_pair begins: with the timeout, or after the target was reached
EsbTimeout ==
  /\ pcE = "timeout"
  /\ IF timeout > 0 /\ sessionAge # None /\ sessionAge >= timeout
     THEN pcE' = "ended" /\ pairing' = FALSE /\ heard' = <<>>
     ELSE pcE' = "target" /\ UNCHANGED <<pairing, heard>>
  /\ UNCHANGED <<storeVars, target, initial, sessionAge, reachedAge, blocked, queue,
                 call, evt, op, doubt, assigned, added>>

\* esb_finish_pair ends
EsbFinished ==
  /\ pcE \in {"ended", "left"}
  /\ FinishRest
  /\ pcE' = IF pcE = "ended" THEN "target" ELSE "loop"
  /\ UNCHANGED <<storeVars, pairing, call, evt, op, doubt, heard, assigned, added>>

\* uint8_t new_devices = stored_trackers - pairing_initial_count
NewDevices == (Len(roster) - initial) % ByteRange

EsbTarget ==
  /\ pcE = "target"
  /\ pcE' = IF target > 0 /\ NewDevices >= target THEN "mark" ELSE "loop"
  /\ UNCHANGED <<storeVars, sessionVars, queue, call, evt, op, doubt, heard, assigned, added>>

ReachedOnce_Always == 0
ReachedOnce == IF reachedAge = None THEN 0 ELSE reachedAge
EsbMark ==
  /\ pcE = "mark"
  /\ pcE' = "exit"
  /\ reachedAge' = ReachedOnce
  /\ blocked' = (blocked \/ reachedAge = None)
  /\ UNCHANGED <<storeVars, pairing, target, initial, sessionAge, queue, call, evt,
                 op, doubt, heard, assigned, added>>

\* With the time zeroed meanwhile the difference is the whole uptime.
EsbExit ==
  /\ pcE = "exit"
  /\ IF reachedAge = None \/ reachedAge >= ExitTicks
     THEN pcE' = "left" /\ pairing' = FALSE /\ heard' = <<>>
     ELSE pcE' = "loop" /\ UNCHANGED <<pairing, heard>>
  /\ UNCHANGED <<storeVars, target, initial, sessionAge, reachedAge, blocked, queue,
                 call, evt, op, doubt, assigned, added>>

Esb ==
  /\ EsbMayRun
  /\ \/ EsbBoot \/ EsbCount \/ EsbFresh \/ EsbRetry \/ EsbLoop \/ EsbDrain \/ EsbParse
     \/ EsbAdd \/ EsbTimeout \/ EsbFinished \/ EsbTarget \/ EsbMark \/ EsbExit

-----------------------------------------------------------------------------
(* Time and resets *)

Tick ==
  /\ sessionAge' = Older(sessionAge)
  /\ reachedAge' = Older(reachedAge)
  /\ <<sessionAge', reachedAge'>> # <<sessionAge, reachedAge>>
  /\ UNCHANGED <<storeVars, pairing, target, initial, blocked, queue, threadVars,
                 op, doubt, heard, assigned, added>>

\* A reset between any two steps: RAM is lost, flash and the trackers' ids stay.
\* A removal that is in flash counts as done, also one that reported an error.
Reset ==
  /\ Resets
  /\ roster' = <<>> /\ ready' = FALSE /\ rosterErr' = "none"
  /\ pairing' = FALSE /\ target' = 0 /\ initial' = 0
  /\ sessionAge' = None /\ reachedAge' = None /\ blocked' = FALSE
  /\ queue' = <<>> /\ call' = NoCall /\ pcE' = "boot" /\ evt' = NoDev
  /\ op' = NoOp /\ doubt' = "none" /\ heard' = <<>> /\ added' = 0
  /\ assigned' = Remaining
  /\ UNCHANGED <<timeout, record, legacy>>

Init ==
  /\ timeout \in Timeouts
  /\ \/ record = Absent /\ legacy \in {Absent, Corrupt} \cup Rosters(MaxTrackers)
     \/ /\ record \in {Corrupt} \cup {s \in Rosters(MaxTrackers) : RosterValid(s)}
        /\ legacy = Absent
  /\ roster = <<>> /\ ready = FALSE /\ rosterErr = "none"
  /\ pairing = FALSE /\ target = 0 /\ initial = 0
  /\ sessionAge = None /\ reachedAge = None /\ blocked = FALSE
  /\ queue = <<>> /\ call = NoCall /\ pcE = "boot" /\ evt = NoDev /\ op = NoOp
  /\ doubt = "none" /\ heard = <<>>
  /\ assigned = [d \in Devices |-> None]
  /\ added = 0

Next ==
  \/ UserStart \/ UserStarted \/ UserFinish \/ UserFinished
  \/ UserAdd \/ UserPop \/ UserClear
  \/ \E d \in Devices : Request(d) \/ Answer(d)
  \/ Commit \/ Esb \/ Tick \/ Reset

Spec == Init /\ [][Next]_vars

\* Threads and the holder of the mutex are scheduled, time passes, and requests
\* come in more slowly than process_pairing_queue handles them.
FairSpec ==
  /\ Spec
  /\ WF_vars(Esb) /\ WF_vars(UserStarted \/ UserFinished)
  /\ WF_vars(Commit) /\ WF_vars(Tick)
  /\ []<>(pcE \notin {"drain", "parse", "add", "commit"})

-----------------------------------------------------------------------------
(* Properties *)

Ids == 0 .. MaxTrackers - 1

\* Every variable has the range of the C object it stands for; in particular
\* the roster never outgrows its MAX_TRACKERS slots.
TypeOK ==
  /\ timeout \in Timeouts
  /\ record \in Rosters(MaxTrackers) \cup {Absent, Corrupt}
  /\ legacy \in Rosters(MaxTrackers) \cup {Absent, Corrupt}
  /\ roster \in Rosters(MaxTrackers)
  /\ ready \in BOOLEAN /\ rosterErr \in {"none", "transient", "invalid"}
  /\ pairing \in BOOLEAN /\ blocked \in BOOLEAN
  /\ target \in 0..MaxTarget /\ initial \in 0..MaxTrackers
  /\ sessionAge \in 0..AgeTop \cup {None} /\ reachedAge \in 0..AgeTop \cup {None}
  /\ Len(queue) <= QueueCap /\ Ran(queue) \subseteq Devices
  /\ call \in [kind : {"none", "start", "finish"}, count : 0..MaxTarget]
  /\ pcE \in {"boot", "count", "fresh", "loop", "drain", "parse", "add", "commit",
              "timeout", "target", "mark", "exit", "ended", "left"}
  /\ evt \in Devices \cup {NoDev}
  /\ op \in [kind : {"none", "add", "pop", "clear"}, who : {"none", "esb", "user"},
             dev : Devices \cup {NoDev}]
  /\ doubt \in {"none", "add", "pop", "clear"}
  /\ Len(heard) <= QueueCap /\ Ran(heard) \subseteq Devices
  /\ assigned \in [Devices -> Ids \cup {None}]
  /\ added \in 0..MaxTarget

\* One address never gets two slots, whichever threads register it at once.
NoDuplicate == Distinct(roster)

\* Between operations the flash holds exactly the roster in use; after a write that
\* reported an error and reached it all the same, it is ahead by that operation only,
\* until the next write or restart.
FlashCurrent ==
  ready /\ op = NoOp =>
    CASE doubt = "none"  -> record = roster
      [] doubt = "add"   -> \E d \in Devices \ Ran(roster) : record = Append(roster, d)
      [] doubt = "pop"   -> record = SubSeq(roster, 1, Len(roster) - 1)
      [] doubt = "clear" -> record = <<>>

\* The state is well formed, and the roster has no address twice and is what a
\* restart would load, up to one operation whose write reported an error
\* (tracker_roster_save, tracker_roster_load).
RosterSound == TypeOK /\ NoDuplicate /\ FlashCurrent

\* The id a device was told stays its own until its removal is asked for: through
\* writes that fail before or after they reach the flash, unreadable flash, resets at
\* any point and the migration of old keys.  In RAM it stays until the removal
\* succeeds; in flash a removal that reported an error may have taken it.
IdsSurvive ==
  \A d \in Devices : assigned[d] # None =>
    LET k == assigned[d] + 1
    IN  /\ ready => k <= Len(roster) /\ roster[k] = d
        /\ d \notin Removing \cup Leaving => k <= Len(record) /\ record[k] = d

\* The log line of esb_pop_pair, "Pairing removal not saved": a device whose removal
\* was refused keeps its id over a restart.  It does not hold: see PairUnsaved.cfg.
RefusedRemovalStays ==
  \A d \in Devices : assigned[d] # None /\ d \notin Removing =>
    assigned[d] + 1 <= Len(record) /\ record[assigned[d] + 1] = d

\* s is the end of t.
EndOf(s, t) ==
  /\ Len(s) <= Len(t)
  /\ \A k \in 1..Len(s) : s[k] = t[Len(t) - Len(s) + k]

\* The queue holds the latest requests of the session under way, in their order:
\* none of an earlier session, also when a new one was opened while the last was
\* ended, and a full queue loses the oldest only.  Inside a call that opens or ends a
\* session the purge may be still to come; a request that was taken out of the queue
\* before (evt) is registered although its session ends.
NoStaleRequest ==
  call = NoCall /\ pcE \notin {"ended", "left"} => EndOf(queue, heard)

\* Once a session has ended nobody is registered by it ("Pairing mode disabled").  It
\* does not hold: see PairLate.cfg.
RegisteredInSession == [][CommitAdd /\ op.who = "esb" => pairing]_vars

\* With a timeout configured every session ends unless it is restarted.
SessionEnds == (timeout > 0 /\ pairing) ~> (~pairing \/ sessionAge = 0)

\* A session whose target was marked reached ends after the exit delay, also
\* with the timeout switched off.
ReachedSessionEnds ==
  (pairing /\ target > 0 /\ reachedAge # None /\ Len(roster) >= initial + target)
    ~> (~pairing \/ sessionAge = 0 \/ Len(roster) < initial + target)

\* A session ends by its timeout, or by its count (esb_thread, esb_finish_pair).
SessionsEnd == SessionEnds /\ ReachedSessionEnds

\* esb.c declares pairing_target_count as "0 = no limit": an unlimited session
\* never refuses new devices.  It does not hold: see PairUnlimited.cfg.
UnlimitedAcceptsNew == pairing /\ target = 0 => ~blocked

\* The console promises "Exit after pairing 4 new devices": a counted session
\* is only marked complete when that many devices were registered in it.  It does
\* not hold: see PairComplete.cfg.
CompleteMeansPaired ==
  [][~blocked /\ blocked' => added >= target]_vars
=============================================================================
