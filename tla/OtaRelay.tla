------------------------------- MODULE OtaRelay -------------------------------
(***************************************************************************)
(* Firmware updates of trackers (src/esb_ota.c): the relay between the     *)
(* host's HID reports and the acknowledgements of the radio, with the host *)
(* tool that drives it (scripts/esb_ota.py).                               *)
(*                                                                         *)
(* Every lock section of the relay is one action. HID reports are handled  *)
(* on a cooperative work queue; the console and the roster edits run below *)
(* it. The radio interrupt fills the acknowledgement of a packet and the   *)
(* event interrupt then processes the packet, before any thread goes on:   *)
(* the two are one action, and it falls between any two lock sections. A   *)
(* tracker is only what the relay sees of it. The commands that the relay  *)
(* leaves in the ordinary command slots (suppress, unsuppress, abort) are  *)
(* not kept.                                                               *)
(***************************************************************************)
EXTENDS Integers, FiniteSets

CONSTANTS
  Trackers,      \* tracker ids
  Total,         \* packets of an image
  RingSize,      \* OTA_TX_RING_SIZE
  MaxParallel,   \* OTA_MAX_PARALLEL
  MaxInFlight,   \* MAX_IN_FLIGHT of the host tool
  MaxFaults      \* bound: disturbances from outside the transfer in a behaviour

ASSUME OtaAssumption ==
  /\ IsFiniteSet(Trackers)
  /\ Total \in Nat \ {0} /\ RingSize \in Nat \ {0}
  /\ MaxParallel \in Nat \ {0}
  /\ MaxInFlight \in 1..RingSize   \* the tool has RING_BUFFER_SIZE - 16
  /\ MaxFaults \in Nat

VARIABLES
  active, targets, head, ring,  \* ota_relay: session, target_ids, ring_head, ring
  tr,       \* ota_relay.tracker[]
  tomb,     \* ids with a live ota_abort_valid
  busy,     \* the owners of the radio (radio_operation_busy)
  call,     \* the BEGIN the HID work queue is in the middle of
  host,     \* the host tool
  trk,      \* the trackers
  dropped,  \* auxiliary: a packet of this update was dropped, the ring being full
  faults    \* auxiliary: disturbances so far

relayVars == <<active, targets, head, ring, tr, tomb>>
sysVars == <<relayVars, busy, call, host, trk, dropped>>
vars == <<sysVars, faults>>

None     == -1
Commands == {"begin", "verify", "activate"}
Terminal == {"complete", "error", "verify_fail"}
\* READY and RECEIVING are told apart nowhere in the relay or in the host
Statuses == {"idle", "receiving", "verify_ok", "activating"} \cup Terminal
Idle     == [part |-> FALSE, next |-> 0, cmd |-> "none", late |-> FALSE]
NoCall   == [step |-> "idle", t |-> None, acq |-> FALSE]
Normal   == [st |-> "idle", need |-> 0]
HostIdle == [phase |-> "idle", ids |-> {}, todo |-> {}, ok |-> {},
             out |-> {}, sent |-> 0, seen |-> [t \in Trackers |-> 0]]

\* the HID work queue is free for the next report; lower threads run then too
HidFree == call = NoCall

-----------------------------------------------------------------------------
(* Helpers of the relay *)

MinOf(S) == CHOOSE n \in S : \A m \in S : n <= m

\* ring_seq_min_locked, ring_count_locked
RingMin_Everyone == MinOf({head} \cup {tr[t].next : t \in Trackers})
RingMin   == MinOf({head} \cup {tr[t].next : t \in targets})
RingCount == head - RingMin
RingFull  == RingCount >= RingSize

\* the entry for packet n is there and was not overwritten by a later one
HasEntry_NotLast(n) == n # None /\ n + 1 < head /\ ring[n % RingSize] = n
HasEntry(n) == n # None /\ n < head /\ ring[n % RingSize] = n

\* remove_target_locked on a set of targets
RemoveTargets(T) ==
  LET left == targets \ T
  IN  /\ targets' = left
      /\ active' = (active /\ left # {})
      /\ head' = IF left = {} /\ targets # {} THEN 0 ELSE head

\* set_pending_command_locked
WithCmd(r, c) == [r EXCEPT !.cmd = c, !.late = FALSE]

-----------------------------------------------------------------------------
(* HID reports *)

\* HID_OTA_BEGIN, the admission check
Begin(t) ==
  /\ HidFree
  /\ call' = IF ~tr[t].part /\ Cardinality(targets) >= MaxParallel
             THEN NoCall
             ELSE [step |-> IF active THEN "commit" ELSE "radio", t |-> t, acq |-> FALSE]
  /\ UNCHANGED <<relayVars, busy, trk, dropped>>

\* esb_radio_operation_begin succeeds
RadioOpen == busy = {} /\ ~active /\ tomb = {}

BeginRadio ==
  /\ call.step = "radio"
  /\ IF RadioOpen
     THEN busy' = busy \cup {"relay"} /\ call' = [call EXCEPT !.step = "commit", !.acq = TRUE]
     ELSE call' = NoCall /\ UNCHANGED busy
  /\ UNCHANGED <<relayVars, host, trk, dropped>>

\* reset_session_locked for the first target
Fresh == [head |-> 0, targets |-> {}, tr |-> [t \in Trackers |-> Idle]]

\* a BEGIN takes back an abort that the tracker has not heard
Unmarked_Kept(t) == tomb
Unmarked(t) == tomb \ {t}

\* The commit section of BEGIN. The session may have ended since the admission
\* check: then the radio is still to be claimed.
BeginCommit ==
  LET t     == call.t
      first == ~active
      full  == ~tr[t].part /\ Cardinality(targets) >= MaxParallel
      now   == IF first THEN Fresh ELSE [head |-> head, targets |-> targets, tr |-> tr]
  IN  /\ call.step = "commit"
      /\ IF full \/ (first /\ ~call.acq)
         THEN /\ call' = [call EXCEPT !.step = IF full THEN "end" ELSE "radio"]
              /\ UNCHANGED relayVars
         ELSE /\ head' = now.head
              /\ targets' = now.targets \cup {t}
              /\ tr' = [now.tr EXCEPT ![t] =
                          WithCmd([Idle EXCEPT !.part = TRUE], "begin")]
              /\ active' = TRUE
              /\ tomb' = Unmarked(t)
              /\ call' = [call EXCEPT !.step = "end"]
              /\ UNCHANGED ring
      /\ UNCHANGED <<busy, host, trk, dropped>>

\* esb_radio_operation_end
BeginEnd ==
  /\ call.step = "end"
  /\ busy' = IF call.acq THEN busy \ {"relay"} ELSE busy
  /\ call' = NoCall
  /\ UNCHANGED <<relayVars, host, trk, dropped>>

\* HID_OTA_DATA
Data(seq) ==
  /\ HidFree
  /\ IF active /\ ~RingFull
     THEN /\ ring' = [ring EXCEPT ![seq % RingSize] = seq]
          /\ head' = IF seq + 1 > head THEN seq + 1 ELSE head
     ELSE UNCHANGED <<ring, head>>
  /\ dropped' = (dropped \/ (active /\ RingFull))
  /\ UNCHANGED <<active, targets, tr, tomb, busy, call, trk>>

\* HID_OTA_VERIFY, HID_OTA_ACTIVATE
Command(t, c) ==
  /\ HidFree
  /\ tr' = IF active /\ tr[t].part THEN [tr EXCEPT ![t] = WithCmd(@, c)] ELSE tr
  /\ UNCHANGED <<active, targets, head, ring, tomb, busy, call, trk,
                 dropped>>

\* the lock section of cancel_target
CancelTarget(t) ==
  /\ tomb' = tomb \cup {t}
  /\ RemoveTargets({t})
  /\ tr' = [tr EXCEPT ![t].part = FALSE]
  /\ UNCHANGED <<ring, busy, call, trk, dropped>>

\* the lock section of cancel_all_targets
CancelAll ==
  /\ tomb' = tomb \cup targets
  /\ active' = FALSE /\ targets' = {} /\ head' = 0
  /\ tr' = [t \in Trackers |-> Idle]
  /\ UNCHANGED <<ring, busy, call, trk, dropped>>

-----------------------------------------------------------------------------
(* Console and roster edits *)

ConsoleAbort ==
  /\ HidFree
  /\ CancelAll \/ \E t \in Trackers : CancelTarget(t)
  /\ UNCHANGED host

\* esb_ota_forget_tracker: the next tracker in the slot starts afresh
Forget(t) ==
  /\ HidFree
  /\ RemoveTargets({t})
  /\ tr' = [tr EXCEPT ![t] = Idle]
  /\ tomb' = tomb \ {t}
  /\ trk' = [trk EXCEPT ![t] = Normal]
  /\ UNCHANGED <<ring, busy, call, host, dropped>>

\* Another owner of the radio; a tombstone's ten seconds end; the retry of a
\* pending command runs out.
RadioOther ==
  /\ HidFree
  /\ \/ RadioOpen /\ busy' = busy \cup {"other"}
     \/ "other" \in busy /\ busy' = busy \ {"other"}
  /\ UNCHANGED <<relayVars, call, host, trk, dropped>>

TombExpires(t) ==
  /\ t \in tomb
  /\ tomb' = tomb \ {t}
  /\ UNCHANGED <<active, targets, head, ring, tr, busy, call, host,
                 trk, dropped>>

CmdExpires(t) ==
  /\ tr[t].cmd # "none" /\ ~tr[t].late
  /\ tr' = [tr EXCEPT ![t].late = TRUE]
  /\ UNCHANGED <<active, targets, head, ring, tomb, busy, call, host,
                 trk, dropped>>

-----------------------------------------------------------------------------
(* What the host makes of a status report *)

\* the trackers that have not answered in this phase
Waiting == host.ids \ (host.ok \cup host.out)

\* the statuses a phase waits for
Good(phase) == CASE phase = "begin" -> {"receiving"}
                 [] phase = "verify" -> {"verify_ok"}
                 [] phase = "activate" -> {"complete"} [] OTHER -> {}
\* a status report of a tracker the host follows
Hears(t, st, next) ==
  IF host.phase = "stream"
  THEN IF st \in Terminal
       THEN IF host.ids = {t} THEN HostIdle ELSE [host EXCEPT !.ids = @ \ {t}]
       ELSE [host EXCEPT !.seen[t] = next]
  ELSE IF t \notin Waiting THEN host
  ELSE [host EXCEPT
          !.ok  = IF st \in Good(host.phase) THEN @ \cup {t} ELSE @,
          !.out = IF st \in Terminal \ Good(host.phase) THEN @ \cup {t} ELSE @]

-----------------------------------------------------------------------------
(* The radio: esb_ota_relay_fill_ack, then the event handler *)

Ack(k, seq) == [k |-> k, seq |-> seq]
NoAck       == Ack("none", None)

\* VERIFY and ACTIVATE wait while the ring has what the tracker asks for
Defers(t, n) == tr[t].cmd # "begin" /\ HasEntry(n)

\* the acknowledgement of a packet that asks for n (None: it asks for nothing),
\* and the per-tracker state it leaves
FillAck(t, n) ==
  LET r    == tr[t]
      pend == r.cmd # "none"
      Answer(ack, new) == [ack |-> ack, r |-> new]
  IN  CASE t \in tomb                 -> Answer(Ack("abort", None), r)
        [] t \notin tomb /\ ~(active /\ r.part) -> Answer(NoAck, r)
        [] OTHER ->
             IF pend /\ r.late THEN Answer(NoAck, WithCmd(r, "none"))
             ELSE IF pend /\ ~Defers(t, n) THEN Answer(Ack(r.cmd, None), r)
             ELSE IF n = None THEN Answer(NoAck, r)
             ELSE Answer(IF HasEntry(n) THEN Ack("data", ring[n % RingSize]) ELSE NoAck,
                         [r EXCEPT !.next = n])

\* What a tracker may do with an acknowledgement it hears.
Reactions(t, ack) ==
  LET s == trk[t]
  IN  CASE ack.k = "begin" /\ s.st \notin Terminal -> {[st |-> st, need |-> 0] : st \in {"receiving", "error"}}
        [] ack.k = "abort" -> {Normal}
        [] ack.k = "data" /\ s.st = "receiving" ->
             {IF s.need = ack.seq THEN [s EXCEPT !.need = @ + 1] ELSE [s EXCEPT !.st = "error"]}
        [] ack.k = "verify" /\ s.st = "receiving" ->
             {[s EXCEPT !.st = IF s.need = Total THEN "verify_ok" ELSE "verify_fail"]}
        [] ack.k = "activate" /\ s.st = "verify_ok" -> {[s EXCEPT !.st = "activating"]}
        [] OTHER -> {s}
\* the tracker hears the acknowledgement, or it is lost
Delivers(t, ack, heard) ==
  \E new \in IF heard THEN Reactions(t, ack) ELSE {trk[t]} :
    trk' = [trk EXCEPT ![t] = new]

\* A PING of a tracker that is not in an update: only a target is looked up.
Ping(t, heard) ==
  LET a == FillAck(t, None)
  IN  /\ trk[t] = Normal
      /\ active /\ tr[t].part /\ t \notin tomb
      /\ tr' = [tr EXCEPT ![t] = a.r]
      /\ Delivers(t, a.ack, heard)
      /\ UNCHANGED <<active, targets, head, ring, tomb, busy, call, host,
                     dropped>>

\* a status confirms the pending command
Confirms(cmd, st) ==
  \/ cmd = "begin" /\ st # "idle"
  \/ cmd = "verify" /\ st \in {"verify_ok", "verify_fail"}
  \/ cmd = "activate" /\ st \in {"activating", "complete"}

Ends(st) == st \in Terminal
\* A status packet, asking for the packet the tracker needs next: the
\* acknowledgement, then esb_ota_relay_process_tracker_packet. An unchanged
\* status is forwarded at most every 30 ms and the HID queue may drop the
\* report. A report that the host reads late is one that was lost and comes
\* again; the host reads none while it sends the commands of a phase.
Status(t, heard, reported) ==
  LET st  == trk[t].st
      a   == FillAck(t, trk[t].need)
      r   == IF Confirms(a.r.cmd, st) THEN WithCmd(a.r, "none") ELSE a.r
  IN  /\ trk[t] # Normal
      /\ Delivers(t, a.ack, heard)
      /\ tr' = [tr EXCEPT ![t] = [r EXCEPT !.part = @ /\ ~Ends(st)]]
      /\ IF Ends(st) /\ r.part THEN RemoveTargets({t})
         ELSE UNCHANGED <<active, targets, head>>
      /\ reported => t \in host.ids /\ (host.phase = "stream" \/ host.todo = {})
      /\ host' = IF reported THEN Hears(t, st, trk[t].need) ELSE host
      /\ UNCHANGED <<ring, tomb, busy, call, dropped>>

\* An activated tracker reports completion and leaves the update.
TrackerDone(t) ==
  /\ \/ trk[t].st = "activating" /\ trk' = [trk EXCEPT ![t].st = "complete"]
     \/ trk[t].st \in Terminal /\ trk' = [trk EXCEPT ![t] = Normal]
  /\ UNCHANGED <<relayVars, busy, call, host, dropped>>

\* A tracker fails or restarts by itself.
TrackerFails(t) ==
  /\ trk[t] # Normal /\ trk[t].st \notin Terminal
  /\ \/ trk' = [trk EXCEPT ![t] = Normal]
     \/ trk' = [trk EXCEPT ![t].st = "error"]
  /\ UNCHANGED <<relayVars, busy, call, host, dropped>>

-----------------------------------------------------------------------------
(* The host tool, do_update *)

Step(phase) == CASE phase = "begin" -> "begin" [] phase = "verify" -> "verify"
                 [] phase = "activate" -> "activate" [] OTHER -> "none"

\* An update is started on trackers that are not in the middle of another, with
\* no session left over (a BEGIN into one keeps its packets; see the README).
HostStart ==
  /\ HidFree /\ host.phase = "idle" /\ ~active
  /\ \E ids \in SUBSET Trackers \ {{}} :
       /\ Cardinality(ids) <= MaxParallel
       /\ \A t \in ids : trk[t] = Normal
       /\ host' = [HostIdle EXCEPT !.phase = "begin", !.ids = ids, !.todo = ids]
  /\ dropped' = FALSE
  /\ UNCHANGED <<relayVars, busy, call, trk>>

\* BEGIN, VERIFY or ACTIVATE to the trackers of this phase, and again to the
\* ones that have not answered
HostSends(t) ==
  /\ t \in host.todo
  /\ host' = [host EXCEPT !.todo = @ \ {t}]
  /\ IF host.phase = "begin" THEN Begin(t) ELSE Command(t, Step(host.phase))

HostResends ==
  /\ HidFree /\ host.phase \in Commands /\ host.todo = {} /\ Waiting # {}
  /\ host' = [host EXCEPT !.todo = Waiting]
  /\ UNCHANGED <<relayVars, busy, call, trk, dropped>>

Consumed == MinOf({host.seen[t] : t \in host.ids})
MoreToSend == host.sent < Total
\* DATA while fewer than MAX_IN_FLIGHT packets are on their way
HostData ==
  /\ host.phase = "stream" /\ MoreToSend
  /\ host.sent - Consumed < MaxInFlight
  /\ Data(host.sent)
  /\ host' = [host EXCEPT !.sent = @ + 1]

\* The trackers that go on to the next phase. Every wait has its timeout, after
\* which the host goes on without the silent ones, or with an unfinished transfer.
Keep == IF host.phase = "stream" THEN host.ids ELSE host.ok
HostMovesOn ==
  LET next == CASE host.phase = "begin"  -> "stream"
                [] host.phase = "stream" -> "verify"
                [] OTHER                 -> "activate"
  IN  /\ HidFree /\ host.phase \in {"begin", "stream", "verify"}
      /\ host.todo = {} /\ Keep # {}
      /\ host' = [host EXCEPT !.phase = next, !.ids = Keep,
                              !.todo = IF next = "stream" THEN {} ELSE Keep,
                              !.ok = {}, !.out = {}]
      /\ UNCHANGED <<relayVars, busy, call, trk, dropped>>

\* The end of an update: nobody is left, or everyone was activated. Ctrl-C ends
\* it at any moment. Each aborts what is left of the session.
HostEnds ==
  /\ HidFree /\ host.phase \in Commands /\ host.todo = {}
  /\ host.phase = "activate" \/ Keep = {}
  /\ host' = HostIdle
  /\ CancelAll
HostInterrupted ==
  /\ HidFree /\ host.phase # "idle"
  /\ host' = HostIdle
  /\ CancelAll

-----------------------------------------------------------------------------
Init ==
  /\ active = FALSE /\ targets = {} /\ head = 0
  /\ ring = [k \in 0..RingSize-1 |-> 0]
  /\ tr = [t \in Trackers |-> Idle]
  /\ tomb = {}
  /\ busy = {} /\ call = NoCall
  /\ host = HostIdle
  /\ trk = [t \in Trackers |-> Normal]
  /\ dropped = FALSE /\ faults = 0

HidWork == BeginRadio \/ BeginCommit \/ BeginEnd
Host ==
  \/ HostStart \/ HostResends \/ HostData \/ HostMovesOn \/ HostEnds
  \/ \E t \in Trackers : HostSends(t)

Works ==
  \/ HidWork \/ Host
  \/ \E t \in Trackers :
       \/ TombExpires(t) \/ TrackerDone(t)
       \/ \E h, r \in BOOLEAN : Ping(t, h) \/ Status(t, h, r)
Disturbed ==
  \/ ConsoleAbort \/ HostInterrupted \/ RadioOther
  \/ \E t \in Trackers : Forget(t) \/ CmdExpires(t) \/ TrackerFails(t)

Next ==
  \/ Works /\ UNCHANGED faults
  \/ Disturbed /\ faults < MaxFaults /\ faults' = faults + 1

Spec == Init /\ [][Next]_vars

\* The work queue runs and the host keeps at its work; a tracker that keeps
\* polling is heard again and again, and so are its reports.
FairSpec ==
  /\ Spec
  /\ WF_sysVars(HidWork) /\ WF_sysVars(HostData)
  /\ \A t \in Trackers : SF_sysVars(Status(t, TRUE, TRUE))

-----------------------------------------------------------------------------
(* Properties *)

\* Every variable has the range of the object it stands for.
TypeOK ==
  /\ active \in BOOLEAN /\ targets \subseteq Trackers /\ head \in 0..Total
  /\ ring \in [0..RingSize-1 -> 0..Total-1]
  /\ tr \in [Trackers -> [part : BOOLEAN, next : 0..Total,
                          cmd : Commands \cup {"none"},
                          late : BOOLEAN]]
  /\ tomb \subseteq Trackers
  /\ busy \subseteq {"relay", "other"}
  /\ call.step \in {"idle", "radio", "commit", "end"}
  /\ trk \in [Trackers -> [st : Statuses, need : 0..Total]]

\* The session exists exactly as long as it has targets, the target list and
\* the per-tracker flags agree, and a session that ended left no packets.
SessionShape ==
  /\ active <=> targets # {}
  /\ targets = {t \in Trackers : tr[t].part}
  /\ Cardinality(targets) <= MaxParallel
  /\ ~active => head = 0

\* No update and no other radio operation at once, and the radio is released.
RadioExclusive ==
  /\ "other" \in busy => ~active /\ "relay" \notin busy
  /\ "relay" \in busy => call.acq

\* A cancelled tracker is not a target, whoever cancels it at whatever moment.
CancelledIsOut == tomb \cap targets = {}

\* The session, its targets, its tombstones and its claim of the radio agree after
\* every step of host, interrupt, console and roster (esb_ota.c).
SessionSound == TypeOK /\ SessionShape /\ RadioExclusive /\ CancelledIsOut

\* What a target has not confirmed can still be sent to it again: no packet
\* replaces one that some target, the slowest too, may yet ask for.
Retransmittable ==
  ~dropped => \A t \in targets : \A n \in tr[t].next .. head - 1 : ring[n % RingSize] = n

\* The host tool keeps its packets in flight below the size of the ring "to
\* prevent ring overflow": no packet of it is dropped.
RingNeverOverflows == ~dropped

\* The host follows every target of the session.
Followed == targets \subseteq host.ids

\* A packet is only dropped when the session has a target whose progress the
\* host's window does not see: the window and the ring's minimum, which advance
\* by different messages, agree otherwise.
DropsExplained == [][dropped' /\ ~dropped => ~Followed]_vars

\* The shared ring serves its slowest target, and is full for no other reason
\* (ring_seq_min_locked, esb_ota_relay_process_hid).
RingServes == []Retransmittable /\ DropsExplained

\* Every tracker of a running transfer gets the whole image, however many
\* acknowledgements and reports are lost, as long as the session is the host's
\* alone, nothing was dropped before it was, and every tracker in it keeps
\* asking. (One that stops asking holds up the others until the host's timeout;
\* the host resends what was dropped only with nothing in flight, and a missing
\* packet keeps its successors in flight.)
Transferred ==
  \A t \in Trackers :
    (host.phase = "stream" /\ t \in host.ids /\ Followed)
      ~> \/ host.phase # "stream" \/ ~Followed \/ ~(host.ids \subseteq targets)
         \/ trk[t].need = Total \/ dropped
         \/ \E u \in host.ids : trk[u] = Normal \/ trk[u].st # "receiving"
=============================================================================
