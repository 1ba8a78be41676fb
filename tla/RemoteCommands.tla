--------------------------- MODULE RemoteCommands ---------------------------
(***************************************************************************)
(* Commands for trackers (esb.c, rcv_cmd.c, console_send.c).  A command    *)
(* waits in the tracker's slot until the answer (PONG) to one of its PINGs *)
(* carries it; a later PING echoes it, which clears the slot and confirms  *)
(* it.  Wake-on-motion (WOM) commands carry a token and end only with a    *)
(* result of that token.                                                   *)
(*                                                                         *)
(* One remote request of the host, or one WOM command of the console, is   *)
(* pending at a time (the state remote_hid).  Three contexts work: the     *)
(* system work queue (HID commands, the timeout work), which no other      *)
(* thread preempts; the queue rssi_wq with the jobs for all trackers,      *)
(* which every other thread preempts; and the radio interrupts, which      *)
(* preempt all.  The radio ISR and the event handler of one PING follow    *)
(* each other without a thread in between: Ping is one step.               *)
(***************************************************************************)
EXTENDS Integers, FiniteSets

CONSTANTS
  Trackers,   \* MAX_TRACKERS slots, all paired
  Flags,      \* commands without a token
  MaxReq,     \* bound: requests that are begun
  MaxTok      \* WOM tokens are 1..MaxTok and wrap (UINT16_MAX in the code)

ASSUME RemoteConstants ==
  /\ IsFiniteSet(Trackers) /\ Trackers # {} /\ {"normal", "wom", "other", "outcome"} \cap Flags = {}
  /\ MaxReq \in Nat \ {0} /\ MaxTok \in Nat \ {0}

VARIABLES
  hid,     \* remote_hid_*: pending, seq, flag, expected, confirmed, job, timer
  wom,     \* remote_wom_*: token and failed
  win,     \* where a request is between its first and its last instruction
  wq,      \* the work queue rssi_wq: a job is queued, where its handler is
  slot,    \* tracker_slots
  tok,     \* wom_next_token
  trk,     \* the trackers: what their PINGs report
  log      \* history: requests, their answers, who confirmed; no action reads it

vars == <<hid, wom, win, wq, slot, tok, trk, log>>

Cmds == Flags \cup {"normal", "wom"}

\* A slot: cmd is tracker_remote_command and w the wom_* fields; w.first says that
\* the last PING still has the counter of the one that was first answered with the
\* command.  w.req and w.by are history: the request that owns the token and the
\* request whose result was taken.
NoWom == [tok |-> 0, done |-> FALSE, err |-> FALSE, adv |-> FALSE, first |-> FALSE, req |-> 0, by |-> 0]
NewSlot == [cmd |-> "normal", w |-> NoWom]

NoRequest == [pending |-> FALSE, seq |-> 0, flag |-> "normal", expected |-> {}, confirmed |-> {},
              job |-> "none", timer |-> FALSE]
NoWindow == [pc |-> "none", kind |-> "none", T |-> {}, f |-> "normal"]
IdleQueue == [queued |-> FALSE, pc |-> "idle", f |-> "normal", mask |-> {}, status |-> "none"]

\* What a PING of a tracker reports: nothing, the echo of a flag, or the outcome of
\* a WOM command.  retry: the answer was lost and the same PING may be repeated.
Quiet == [says |-> "normal", tok |-> 0, req |-> 0, err |-> FALSE, retry |-> FALSE]

\* The log of a request: n counts them, status is the answer to the last one, twice
\* says that some request was answered twice.
NoLog == [n |-> 0, status |-> "none", twice |-> FALSE, heard |-> {}, want |-> {}, torn |-> FALSE]
Answered(n, status) ==
  IF n = log.n /\ log.status = "started" THEN [log EXCEPT !.status = status] ELSE [log EXCEPT !.twice = TRUE]

----------------------------------------------------------------------------
(* The pending request.                                                    *)

\* remote_hid_finish, as a change of the request and the log; the caller has seen
\* that the request is pending.
Finished(h) == [h EXCEPT !.pending = FALSE, !.timer = FALSE, !.job = "none"]
FinishLog(h, status) == Answered(h.seq, status)

\* remote_hid_begin up to its first instruction: a HID command or the console.
\* A request that finds another one pending is answered EBUSY.
Begin(kind, T, f) ==
  /\ ~hid.pending /\ win.pc = "none" /\ log.n < MaxReq
  /\ hid' = [hid EXCEPT !.pending = TRUE]
  /\ win' = [pc |-> "begun", kind |-> kind, T |-> T, f |-> f]
  /\ log' = [log EXCEPT !.n = @ + 1, !.status = "started", !.heard = {}, !.want = {},
                        !.torn = @ \/ wq.pc = "tail"]
  /\ UNCHANGED <<wom, wq, slot, tok, trk>>

\* Its other instructions, and for a command to all trackers the job.
BeginReset ==
  /\ win.pc = "begun"
  /\ LET toAll == win.kind \in {"all", "womall"}
         h == [hid EXCEPT !.seq = log.n, !.flag = win.f, !.expected = {}, !.confirmed = {}]
     IN  /\ hid' = IF win.kind \in {"all", "wom", "womall"}
                   THEN [h EXCEPT !.job = IF win.kind = "all" THEN "all" ELSE "wom"] ELSE h
         /\ wq' = IF toAll THEN [wq EXCEPT !.queued = TRUE] ELSE wq
         /\ win' = IF toAll THEN NoWindow ELSE [win EXCEPT !.pc = "reset"]
  /\ wom' = IF win.kind \in {"wom", "womall"} THEN [token |-> 0, failed |-> {}] ELSE wom
  /\ UNCHANGED <<slot, tok, trk, log>>

\* A mistake: no timeout.
Armed_NoTimer(T) == [hid EXCEPT !.confirmed = {}, !.expected = T]
\* remote_hid_arm_expected, but for the end of a request without trackers.
Armed(T) == [hid EXCEPT !.confirmed = {}, !.expected = T, !.timer = @ \/ T # {}]

\* On the system work queue it comes before the command is queued.
Arm ==
  /\ win.pc = "reset" /\ win.kind \in {"one", "roster"}
  /\ LET h == Armed(win.T)
     IN  IF win.T # {}
         THEN /\ hid' = h
              /\ win' = [win EXCEPT !.pc = "armed"]
              /\ log' = [log EXCEPT !.want = win.T]
         ELSE /\ hid' = IF h.pending THEN Finished(h) ELSE h
              /\ log' = IF h.pending THEN FinishLog(h, "enoent") ELSE log
              /\ win' = NoWindow
  /\ UNCHANGED <<wom, wq, slot, tok, trk>>

\* remote_hid_abort: the request is answered with an error.
Aborted == [hid EXCEPT !.pending = FALSE, !.job = "none", !.timer = FALSE]
AbortLog == Answered(log.n, "refused")

\* esb_send_remote_command and esb_send_remote_command_all: the command takes the
\* slots of the trackers in T, whatever is in them.
Queued(T, f) == [t \in Trackers |-> IF t \in T THEN [slot[t] EXCEPT !.cmd = f] ELSE slot[t]]

\* The command goes into the slots; an automatic sensitivity run is refused for a
\* tracker that is silent, so not for one that has just confirmed.
Send ==
  /\ win.pc = "armed"
  /\ win' = NoWindow
  /\ \/ /\ slot' = Queued(win.T, win.f)
        /\ UNCHANGED <<hid, log>>
     \/ /\ win.kind = "one" /\ hid.pending
        /\ hid' = Aborted
        /\ log' = AbortLog
        /\ UNCHANGED slot
  /\ UNCHANGED <<wom, wq, tok, trk>>

NextToken == IF tok = MaxTok THEN 1 ELSE tok + 1

\* esb_send_remote_wom_command for the trackers in T: a new token.
WomQueued(T) ==
  [t \in Trackers |->
     IF t \in T THEN [cmd |-> "wom", w |-> [NoWom EXCEPT !.tok = NextToken, !.req = log.n]]
     ELSE slot[t]]

\* remote_wom_begin for one tracker.
SendWom ==
  /\ win.pc = "reset" /\ win.kind = "wom"
  /\ win' = NoWindow
  /\ \/ /\ slot' = WomQueued(win.T)
        /\ tok' = NextToken
        /\ wom' = [wom EXCEPT !.token = NextToken]
        /\ hid' = [hid EXCEPT !.expected = win.T, !.timer = TRUE]
        /\ UNCHANGED log
     \/ /\ hid' = Aborted
        /\ log' = AbortLog
        /\ UNCHANGED <<slot, tok, wom>>
  /\ UNCHANGED <<wq, trk>>

----------------------------------------------------------------------------
(* The job for all trackers, on rssi_wq: remote_hid_job_handler.           *)

\* The handler chooses by remote_hid_job and looks who is active for a second.
JobStart ==
  /\ win.pc = "none" /\ wq.queued /\ wq.pc = "idle"
  /\ wq' = [wq EXCEPT !.queued = FALSE,
                      !.pc = IF ~hid.pending THEN "idle" ELSE IF hid.job = "none" THEN "finish" ELSE hid.job,
                      !.f = hid.flag, !.status = "refused"]
  /\ UNCHANGED <<hid, wom, win, slot, tok, trk, log>>

\* The commands are queued for the trackers that were heard.
JobPublish(mask) ==
  /\ win.pc = "none" /\ wq.pc = "all"
  /\ slot' = Queued(mask, wq.f)
  /\ log' = [log EXCEPT !.want = mask]
  /\ wq' = [wq EXCEPT !.pc = "arm", !.mask = mask]
  /\ UNCHANGED <<hid, wom, win, tok, trk>>

JobWom(mask) ==
  /\ win.pc = "none" /\ wq.pc = "wom"
  /\ slot' = WomQueued(mask)
  /\ tok' = IF mask = {} THEN tok ELSE NextToken
  /\ wom' = [wom EXCEPT !.token = IF mask = {} THEN 0 ELSE NextToken]
  /\ hid' = [hid EXCEPT !.expected = mask, !.timer = TRUE]
  /\ wq' = [wq EXCEPT !.pc = "idle"]
  /\ UNCHANGED <<win, trk, log>>

\* remote_hid_arm_expected after the commands are out: confirmations from before are gone.
JobArm ==
  /\ win.pc = "none" /\ wq.pc = "arm"
  /\ hid' = Armed(wq.mask)
  /\ wq' = IF wq.mask = {} THEN [wq EXCEPT !.pc = "finish", !.status = "enoent"]
           ELSE [wq EXCEPT !.pc = "idle"]
  /\ UNCHANGED <<wom, win, slot, tok, trk, log>>

\* remote_hid_finish on rssi_wq: other threads run between the exchange of
\* remote_hid_pending and the rest.
JobFinish ==
  /\ win.pc = "none" /\ wq.pc = "finish"
  /\ wq' = [wq EXCEPT !.pc = IF hid.pending THEN "tail" ELSE "idle"]
  /\ hid' = [hid EXCEPT !.pending = FALSE]
  /\ UNCHANGED <<wom, win, slot, tok, trk, log>>

JobTail ==
  /\ win.pc = "none" /\ wq.pc = "tail"
  /\ hid' = [hid EXCEPT !.timer = FALSE, !.job = "none"]
  /\ log' = FinishLog(hid, wq.status)
  /\ wq' = [wq EXCEPT !.pc = "idle"]
  /\ UNCHANGED <<wom, win, slot, tok, trk>>

----------------------------------------------------------------------------
(* The timeout work, on the system work queue.                             *)

\* remote_hid_timeout_handler for a command without a token.
Timeout ==
  /\ hid.timer /\ win.pc = "none"
  /\ hid.pending => hid.job # "wom"
  /\ hid' = IF hid.pending THEN Finished(hid) ELSE [hid EXCEPT !.timer = FALSE]
  /\ log' = IF hid.pending THEN FinishLog(hid, "enoent") ELSE log
  /\ UNCHANGED <<wom, win, wq, slot, tok, trk>>

\* esb_get_remote_wom_result: another command in the slot displaced this one.
Displaced(t) == slot[t].w.tok = wom.token /\ ~slot[t].w.done /\ slot[t].cmd # "wom"
Outcome(t) ==
  CASE Displaced(t) -> "error"
    [] slot[t].w.tok = wom.token /\ slot[t].w.done -> IF slot[t].w.err THEN "error" ELSE "success"
    [] OTHER -> "open"

\* esb_cancel_remote_wom_command.
Cancelled(T) ==
  [t \in Trackers |->
     IF t \in T /\ slot[t].w.tok = wom.token
     THEN [cmd |-> IF slot[t].cmd = "wom" THEN "normal" ELSE slot[t].cmd, w |-> NoWom] ELSE slot[t]]

\* remote_wom_poll, before or after the deadline.
WomPoll(expired) ==
  /\ hid.timer /\ win.pc = "none" /\ hid.pending /\ hid.job = "wom"
  /\ LET open == hid.expected \ (hid.confirmed \cup wom.failed)
         good == {t \in open : Outcome(t) = "success"}
         bad == {t \in open : Outcome(t) = "error" \/ (expired /\ Outcome(t) = "open")}
         confirmed == hid.confirmed \cup good
         failed == wom.failed \cup bad
         over == confirmed \cup failed = hid.expected
     IN  /\ wom' = [wom EXCEPT !.failed = failed]
         /\ IF over
            THEN /\ hid' = [Finished(hid) EXCEPT !.confirmed = confirmed]
                 /\ slot' = Cancelled(hid.expected)
                 /\ log' = FinishLog(hid, IF failed # {} \/ hid.expected = {} THEN "enoent" ELSE "ok")
            ELSE /\ hid' = [hid EXCEPT !.confirmed = confirmed]
                 /\ slot' = [t \in Trackers |->
                               IF t \in open /\ Displaced(t)
                               THEN [slot[t] EXCEPT !.w.done = TRUE, !.w.err = TRUE] ELSE slot[t]]
                 /\ UNCHANGED log
  /\ UNCHANGED <<win, wq, tok, trk>>

----------------------------------------------------------------------------
(* A PING of tracker t.                                                    *)

\* A mistake: answer with the command although the tracker reports something.
Pong_NoDrain(t, over) == IF over THEN "other" ELSE slot[t].cmd
\* esb_ack_handler_cb: the command in the answer.  Channel migration, collection
\* and the OTA relay may put theirs in its place (over); a WOM command waits until
\* the tracker has dropped its last outcome.
Pong(t, over) ==
  CASE over -> "other"
    [] ~over /\ slot[t].cmd = "wom" /\ ~slot[t].w.adv /\ trk[t].says # "normal" -> "normal"
    [] OTHER -> slot[t].cmd

\* The slot after the answer is chosen; new: the PING has a new counter.
AfterAck(t, pong, new) ==
  IF pong = "wom" /\ ~slot[t].w.adv THEN [slot[t] EXCEPT !.w.adv = TRUE, !.w.first = TRUE]
  ELSE IF new THEN [slot[t] EXCEPT !.w.first = FALSE] ELSE slot[t]

\* remote_wom_receive: only a result of this token ends the command.
WomTaken(s, r) ==
  /\ r.says = "outcome" /\ s.cmd = "wom" /\ r.tok = s.w.tok /\ ~s.w.done
  /\ s.w.adv /\ ~s.w.first

\* esb_receive_ping for the slot s and a report r: a repeated PING is ignored.
Received(s, r, new) ==
  CASE new /\ WomTaken(s, r) ->
         [cmd |-> "normal", w |-> [s.w EXCEPT !.done = TRUE, !.err = r.err, !.by = r.req]]
    [] new /\ r.says = s.cmd /\ s.cmd \in Flags -> [s EXCEPT !.cmd = "normal"]
    [] OTHER -> s

\* on_remote_confirm: whether the echo counts for the pending request.
Counts(t, f) == hid.pending /\ f = hid.flag /\ t \in hid.expected

\* What the tracker does with the answer; it keeps its outcome until an ordinary
\* answer arrives, and executes a command once while it reports it.
Reaction(t, pong) ==
  CASE pong = "normal" -> {Quiet}
    [] pong = "other" -> {[trk[t] EXCEPT !.retry = FALSE]}
    [] pong \in Flags -> {[Quiet EXCEPT !.says = pong]} \cup (IF trk[t].says = pong THEN {Quiet} ELSE {})
    [] pong = "wom" ->
         IF trk[t].says = "outcome" /\ trk[t].tok = slot[t].w.tok THEN {[trk[t] EXCEPT !.retry = FALSE]}
         ELSE {[says |-> "outcome", tok |-> slot[t].w.tok, req |-> slot[t].w.req, err |-> e, retry |-> FALSE] :
                 e \in BOOLEAN}

\* A mistake: the first confirmation ends the request.
AllConfirmed_Any(h) == h.confirmed # {}
AllConfirmed(h) == h.expected \subseteq h.confirmed

Ping(t, new, over, lost) ==
  /\ ~new => trk[t].retry
  /\ LET pong == Pong(t, over)
         acked == AfterAck(t, pong, new)
         s == Received(acked, trk[t], new)
         echoed == acked.cmd \in Flags /\ s.cmd = "normal"
         counts == echoed /\ Counts(t, acked.cmd)
         h == IF counts THEN [hid EXCEPT !.confirmed = @ \cup {t}] ELSE hid
         ends == counts /\ AllConfirmed(h)
         l == IF ends THEN FinishLog(h, "ok") ELSE log
     IN  /\ slot' = [slot EXCEPT ![t] = s]
         /\ hid' = IF ends THEN Finished(h) ELSE h
         /\ log' = [l EXCEPT !.heard = IF echoed /\ hid.pending THEN @ \cup {t} ELSE @,
                             !.torn = @ \/ (ends /\ win.pc = "begun")]
         /\ trk' \in {[trk EXCEPT ![t] = r] :
                        r \in IF lost THEN {[trk[t] EXCEPT !.retry = TRUE]} ELSE Reaction(t, pong)}
  /\ UNCHANGED <<wom, win, wq, tok>>

----------------------------------------------------------------------------
(* The rest of the world.                                                  *)

\* console_handle_send, and the raw collection: a command for one tracker or for
\* all that were heard.
ConsoleTargets == SUBSET Trackers \ {{}}
ConsoleSend(T, f) ==
  /\ win.pc = "none"
  /\ slot' = Queued(T, f)
  /\ UNCHANGED <<hid, wom, win, wq, tok, trk, log>>

\* A tracker restarts and forgets what it reported.
TrackerRestarts(t) ==
  /\ trk' = [trk EXCEPT ![t] = Quiet]
  /\ UNCHANGED <<hid, wom, win, wq, slot, tok, log>>

\* The receiver restarts: tokens start again, the trackers keep their outcomes.
Reboot ==
  /\ hid' = NoRequest /\ wom' = [token |-> 0, failed |-> {}] /\ win' = NoWindow /\ wq' = IdleQueue
  /\ slot' = [t \in Trackers |-> NewSlot] /\ tok' = 0
  /\ log' = [NoLog EXCEPT !.n = log.n]
  /\ UNCHANGED trk

Init ==
  /\ hid = NoRequest /\ wom = [token |-> 0, failed |-> {}] /\ win = NoWindow /\ wq = IdleQueue
  /\ slot = [t \in Trackers |-> NewSlot] /\ tok = 0
  /\ trk = [t \in Trackers |-> Quiet]
  /\ log = NoLog

\* The requests of rcv_cmd_process_hid: a command for one tracker or for those that
\* a job finds active, the sensitivity for one or for all that are paired, and WOM
\* commands, of the console too.
FlagRequest == \E f \in Flags : Begin("all", {}, f) \/ \E t \in Trackers : Begin("one", {t}, f)
SensRequest == \E T \in {{}, Trackers}, f \in Flags : Begin("roster", T, f)
WomRequest == Begin("womall", {}, "wom") \/ \E t \in Trackers : Begin("wom", {t}, "wom")
Request == FlagRequest \/ SensRequest \/ WomRequest

System == BeginReset \/ Arm \/ Send \/ SendWom
Jobs ==
  \/ JobStart \/ JobArm \/ JobFinish \/ JobTail
  \/ \E mask \in SUBSET Trackers : JobPublish(mask) \/ JobWom(mask)

Next ==
  \/ Request \/ System \/ Jobs \/ Timeout \/ (\E e \in BOOLEAN : WomPoll(e))
  \/ \E t \in Trackers, new, over, lost \in BOOLEAN : Ping(t, new, over, lost)
  \/ \E T \in ConsoleTargets, f \in Flags : ConsoleSend(T, f)
  \/ \E t \in Trackers : TrackerRestarts(t)
  \/ Reboot

\* Work that is submitted runs, and time passes: the timeout and the deadline of a
\* WOM command come.  Nothing is assumed of trackers, links and hosts.
Fairness ==
  /\ WF_vars(System) /\ WF_vars(Jobs) /\ WF_vars(Timeout) /\ WF_vars(WomPoll(TRUE))

Spec == Init /\ [][Next]_vars /\ Fairness

----------------------------------------------------------------------------
(* Properties.                                                             *)

\* Type correctness.
TypeOK ==
  /\ hid \in [pending : BOOLEAN, seq : 0..MaxReq, flag : Cmds, expected : SUBSET Trackers,
              confirmed : SUBSET Trackers, job : {"none", "all", "wom"}, timer : BOOLEAN]
  /\ wom \in [token : 0..MaxTok, failed : SUBSET Trackers]
  /\ win.pc \in {"none", "begun", "reset", "armed"} /\ win.T \subseteq Trackers
  /\ wq.pc \in {"idle", "all", "wom", "arm", "finish", "tail"} /\ wq.queued \in BOOLEAN
  /\ \A t \in Trackers : slot[t].cmd \in Cmds /\ slot[t].w.tok \in 0..MaxTok
  /\ tok \in 0..MaxTok

\* A WOM command is reported as executed only when the tracker has executed this
\* very command: also when a token comes back after a restart of the receiver or
\* a wrap, while a tracker still reports the outcome of an older command.
WomTruthful ==
  \A t \in Trackers : slot[t].w.done /\ ~slot[t].w.err => slot[t].w.by = slot[t].w.req

\* Every accepted request is answered at most once, and with OK only when all the
\* trackers it is for have confirmed the command since it began; unless a
\* confirmation of the last request, or the end of a job, met a request in its first
\* instructions.
HonestCompletion ==
  log.torn \/
  /\ ~log.twice
  /\ log.status = "ok" /\ hid.flag # "wom" =>
       log.want # {} /\ log.want \subseteq log.heard

\* No tracker is told a WOM command that nobody waits for: the command is in a slot
\* only while its request is pending with its token.
NoOrphanWom ==
  \A t \in Trackers :
    slot[t].cmd = "wom" /\ ~log.torn =>
      hid.pending /\ hid.job = "wom" /\ slot[t].w.tok = wom.token /\ t \in hid.expected

\* The state is well formed, and WOM commands are told to trackers only for a request
\* and reported only as executed by them (rcv_cmd.c, esb.c).
WomSound == TypeOK /\ WomTruthful /\ NoOrphanWom

\* A request that was accepted ends, whatever trackers and links do; with the same
\* exception as above.
RequestEnds == hid.pending ~> (~hid.pending \/ log.torn)

\* The same without the exception.  It does not hold: see RemoteTorn.cfg.
RequestAlwaysEnds == hid.pending ~> ~hid.pending
=============================================================================
