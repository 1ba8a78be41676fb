----------------------------- MODULE HidReports -----------------------------
(***************************************************************************)
(* The HID input path (hid.c, usb.c): a lock-free ring of reports with     *)
(* tickets and a sequence number in each slot, filled by threads and by    *)
(* the radio interrupt, drained by the work item report_send, which hands  *)
(* batches to the USB endpoint.  A thread may be preempted between any two *)
(* accesses to shared memory, by the interrupt, the work item, the USB     *)
(* callbacks and other threads; the work item and the USB callbacks are    *)
(* cooperative threads, which only interrupts preempt; the interrupt's     *)
(* push is one step.                                                       *)
(*                                                                         *)
(* Positions are 32-bit counters in the code; here they do not wrap (the   *)
(* difference that a producer computes does).                              *)
(***************************************************************************)
EXTENDS Integers, Sequences, FiniteSets

CONSTANTS
  Threads,    \* producers that are threads
  Isr,        \* the producer that is the radio interrupt
  Kinds,      \* reports that threads write
  IsrKinds,   \* reports that the interrupt writes
  Capacity,   \* MAX_REPORTS
  Reserve,    \* HID_FIFO_PRIORITY_RESERVE
  Batch,      \* HID_EP_REPORT_COUNT
  MaxPush,    \* bound: no new report after this many tickets
  MaxUsb      \* bound: times that the USB link goes down

Report == [by : Threads \cup {Isr}, urgent : BOOLEAN, gen : 0..(2 * MaxUsb + 1)]

ASSUME HidConstants ==
  /\ IsFiniteSet(Threads) /\ Kinds \cup IsrKinds \subseteq {"stream", "ack", "event"}
  /\ Capacity \in Nat \ {0} /\ Reserve \in 0..Capacity - 1 /\ Batch \in Nat \ {0}
  /\ MaxPush \in Nat /\ MaxUsb \in Nat

VARIABLES
  ring,      \* hid_fifo_slots
  wpos,      \* hid_fifo_write_pos
  rpos,      \* hid_fifo_read_pos
  prod,      \* the threads in hid_enqueue_packet
  work,      \* report_send: scheduled; what is left of hid_fifo_consume
  usb,       \* configured, ready (hid_ready), busy (hid_ep_in_busy), a transfer is under way
  gen,       \* subscription_generation
  accepted,  \* history: reports by ticket
  sent       \* history: what the endpoint got

vars == <<ring, wpos, rpos, prod, work, usb, gen, accepted, sent>>

NoReport == [by |-> Isr, urgent |-> FALSE, gen |-> 0]
Slot(pos) == pos % Capacity
Idle == [pc |-> "idle", r |-> NoReport, pos |-> 0]
Least(S) == CHOOSE x \in S : \A y \in S : x <= y

\* A report of a kind; an event is for the current subscription.
Written(p, kind) ==
  [by |-> p, urgent |-> kind # "stream", gen |-> IF kind = "event" THEN gen ELSE 0]

\* The checks of hid_fifo_try_push; a difference below zero is a huge one.
Full(r, pos, read) ==
  \/ pos - read >= Capacity \/ pos - read < 0
  \/ ~r.urgent /\ Capacity - (pos - read) <= Reserve

\* The work item is not in the middle of its work: threads and callbacks may run.
Free == work.left = 0

\* k_work_schedule.
Scheduled == [work EXCEPT !.armed = TRUE]

----------------------------------------------------------------------------
(* hid_enqueue_packet in a thread.                                         *)

Write(p, kind) ==
  /\ Free /\ prod[p].pc = "idle" /\ wpos < MaxPush
  /\ prod' = [prod EXCEPT ![p] = [pc |-> "check", r |-> Written(p, kind), pos |-> wpos]]
  /\ UNCHANGED <<ring, wpos, rpos, work, usb, gen, accepted, sent>>

\* The capacity, with a read position that may be newer than the write position.
Check(p) ==
  /\ Free /\ prod[p].pc = "check"
  /\ prod' = [prod EXCEPT ![p] = IF Full(@.r, @.pos, rpos) THEN Idle ELSE [@ EXCEPT !.pc = "claim"]]
  /\ UNCHANGED <<ring, wpos, rpos, work, usb, gen, accepted, sent>>

Claimable(p) == wpos = prod[p].pos

\* atomic_cas on the write position; it is read again when that fails.
Claim(p) ==
  /\ Free /\ prod[p].pc = "claim"
  /\ IF Claimable(p)
     THEN /\ wpos' = prod[p].pos + 1
          /\ accepted' = Append(accepted, prod[p].r)
          /\ prod' = [prod EXCEPT ![p].pc = "publish"]
     ELSE /\ prod' = [prod EXCEPT ![p].pc = "check", ![p].pos = wpos]
          /\ UNCHANGED <<wpos, accepted>>
  /\ UNCHANGED <<ring, rpos, work, usb, gen, sent>>

\* The data, then the sequence number: nobody reads the slot in between.
Publish(p) ==
  /\ Free /\ prod[p].pc = "publish"
  /\ ring' = [ring EXCEPT ![Slot(prod[p].pos)] = [seq |-> prod[p].pos + 1, r |-> prod[p].r]]
  /\ prod' = [prod EXCEPT ![p].pc = "schedule"]
  /\ UNCHANGED <<wpos, rpos, work, usb, gen, accepted, sent>>

Schedule(p) ==
  /\ Free /\ prod[p].pc = "schedule"
  /\ prod' = [prod EXCEPT ![p] = Idle]
  /\ work' = Scheduled
  /\ UNCHANGED <<ring, wpos, rpos, usb, gen, accepted, sent>>

\* The same in the radio interrupt.
IsrWrite(kind) ==
  /\ wpos < MaxPush
  /\ LET r == Written(Isr, kind)
     IN  IF Full(r, wpos, rpos)
         THEN UNCHANGED <<ring, wpos, work, accepted>>
         ELSE /\ ring' = [ring EXCEPT ![Slot(wpos)] = [seq |-> wpos + 1, r |-> r]]
              /\ wpos' = wpos + 1
              /\ accepted' = Append(accepted, r)
              /\ work' = Scheduled
  /\ UNCHANGED <<rpos, prod, usb, gen, sent>>

----------------------------------------------------------------------------
(* report_send.                                                            *)

Up == usb.configured /\ usb.ready

\* How many reports hid_fifo_peek_batch finds.
Peeked ==
  LET missing == {n \in 0..Batch - 1 : ring[Slot(rpos + n)].seq # rpos + n + 1}
  IN  IF missing = {} THEN Batch ELSE Least(missing)

\* A mistake: send what the ring holds, whoever it was for.
Valid_Always(r) == TRUE
\* tracker_events_hid_valid: padding takes the place of other reports.
Valid(r) == r.gen \in {0, gen}

Batched(n) == SelectSeq([i \in 1..n |-> ring[Slot(rpos + i - 1)].r], Valid)

\* send_report when the endpoint takes the batch; without reports it is a
\* registration, once in 100 ms.
Submit ==
  /\ Free /\ work.armed /\ Up /\ ~usb.busy
  /\ work' = [work EXCEPT !.armed = FALSE, !.left = Peeked]
  /\ usb' = [usb EXCEPT !.busy = TRUE, !.flying = TRUE]
  /\ sent' = sent \o Batched(Peeked)
  /\ UNCHANGED <<ring, wpos, rpos, prod, gen, accepted>>

\* ... and when the endpoint refuses it: tried again later.
SubmitFails ==
  /\ Free /\ work.armed /\ Up /\ ~usb.busy
  /\ UNCHANGED vars

\* ... and when it returns early: there is nothing to do, or no endpoint to do it.
SendNothing ==
  /\ Free /\ work.armed
  /\ ~Up \/ usb.busy \/ Peeked = 0
  /\ work' = [work EXCEPT !.armed = FALSE]
  /\ UNCHANGED <<ring, wpos, rpos, prod, usb, gen, accepted, sent>>

\* A mistake: give the slot away before it is marked free.
Consume_PositionFirst ==
  /\ work.left > 0
  /\ IF work.freed
     THEN /\ ring' = [ring EXCEPT ![Slot(rpos - 1)].seq = rpos - 1 + Capacity]
          /\ work' = [work EXCEPT !.freed = FALSE, !.left = @ - 1]
          /\ UNCHANGED rpos
     ELSE /\ rpos' = rpos + 1
          /\ work' = [work EXCEPT !.freed = TRUE]
          /\ UNCHANGED ring
  /\ UNCHANGED <<wpos, prod, usb, gen, accepted, sent>>
\* hid_fifo_consume: the slot is marked free, then the position moves.
Consume ==
  /\ work.left > 0
  /\ IF work.freed
     THEN /\ rpos' = rpos + 1
          /\ work' = [work EXCEPT !.freed = FALSE, !.left = @ - 1]
          /\ UNCHANGED ring
     ELSE /\ ring' = [ring EXCEPT ![Slot(rpos)].seq = rpos + Capacity]
          /\ work' = [work EXCEPT !.freed = TRUE]
          /\ UNCHANGED rpos
  /\ UNCHANGED <<wpos, prod, usb, gen, accepted, sent>>

\* report_event_handler, the heartbeat of registrations.
Heartbeat ==
  /\ Up /\ ~work.armed
  /\ work' = Scheduled
  /\ UNCHANGED <<ring, wpos, rpos, prod, usb, gen, accepted, sent>>

----------------------------------------------------------------------------
(* USB callbacks.                                                          *)

\* hid_fifo_is_empty, negated.
Backlog == ring[Slot(rpos)].seq = rpos + 1

\* input_report_done_cb and int_in_ready_cb.
Polled ==
  /\ Free /\ usb.flying
  /\ usb' = [usb EXCEPT !.flying = FALSE, !.busy = FALSE]
  /\ work' = IF Backlog THEN Scheduled ELSE work
  /\ UNCHANGED <<ring, wpos, rpos, prod, gen, accepted, sent>>

\* The link goes down (reset, cable): iface_ready_cb(false).
InterfaceDown ==
  /\ Free /\ usb.ready /\ usb.downs < MaxUsb
  /\ usb' = [usb EXCEPT !.ready = FALSE, !.busy = FALSE, !.flying = FALSE, !.downs = @ + 1]
  /\ gen' = gen + 1
  /\ UNCHANGED <<ring, wpos, rpos, prod, work, accepted, sent>>

\* status_cb and hid_usb_state_changed with the message about it.
Unconfigured ==
  /\ Free /\ usb.configured /\ ~usb.ready
  /\ usb' = [usb EXCEPT !.configured = FALSE, !.ready = FALSE, !.busy = FALSE]
  /\ gen' = gen + 1
  /\ UNCHANGED <<ring, wpos, rpos, prod, work, accepted, sent>>

\* The host configures the device: iface_ready_cb(true); the message about the last
\* reset was handled long before.
InterfaceUp ==
  /\ Free /\ ~usb.ready /\ ~usb.configured
  /\ usb' = [usb EXCEPT !.ready = TRUE]
  /\ work' = Scheduled
  /\ UNCHANGED <<ring, wpos, rpos, prod, gen, accepted, sent>>

\* A mistake: leave what was queued while the link was down to the next report.
Configured_Quiet ==
  /\ Free /\ ~usb.configured /\ usb.ready
  /\ usb' = [usb EXCEPT !.configured = TRUE]
  /\ UNCHANGED <<ring, wpos, rpos, prod, work, gen, accepted, sent>>
\* status_cb and hid_usb_state_changed with the message about that.
Configured ==
  /\ Free /\ ~usb.configured /\ usb.ready
  /\ usb' = [usb EXCEPT !.configured = TRUE]
  /\ work' = Scheduled
  /\ UNCHANGED <<ring, wpos, rpos, prod, gen, accepted, sent>>

----------------------------------------------------------------------------

Init ==
  /\ ring = [i \in 0..Capacity - 1 |-> [seq |-> i, r |-> NoReport]]
  /\ wpos = 0 /\ rpos = 0
  /\ prod = [p \in Threads |-> Idle]
  /\ work = [armed |-> FALSE, left |-> 0, freed |-> FALSE]
  /\ usb = [configured |-> FALSE, ready |-> FALSE, busy |-> FALSE, flying |-> FALSE, downs |-> 0]
  /\ gen = 1 /\ accepted = <<>> /\ sent = <<>>

Producer(p) == Check(p) \/ Claim(p) \/ Publish(p) \/ Schedule(p)
Sender == Submit \/ SendNothing \/ Consume
Link == InterfaceUp \/ Configured \/ Unconfigured

Next ==
  \/ \E p \in Threads : Producer(p) \/ \E kind \in Kinds : Write(p, kind)
  \/ \E kind \in IsrKinds : IsrWrite(kind)
  \/ Sender \/ SubmitFails \/ Heartbeat \/ Polled \/ Link \/ InterfaceDown

\* Threads run; scheduled work runs, and the endpoint does not refuse forever; the
\* host polls it.  Nothing is assumed about heartbeats: there are none without
\* trackers.
Fairness ==
  /\ \A p \in Threads : WF_vars(Producer(p))
  /\ WF_vars(Sender) /\ WF_vars(Polled)

Spec == Init /\ [][Next]_vars /\ Fairness

----------------------------------------------------------------------------
(* Properties.                                                             *)

\* Type correctness; tickets are given out once.
TypeOK ==
  /\ ring \in [0..Capacity - 1 -> [seq : Nat, r : Report]]
  /\ wpos \in 0..MaxPush + Cardinality(Threads) /\ rpos \in 0..wpos /\ wpos = Len(accepted)
  /\ \A p \in Threads : prod[p].pc \in {"idle", "check", "claim", "publish", "schedule"}
  /\ work \in [armed : BOOLEAN, left : 0..Batch, freed : BOOLEAN]

\* The report of ticket t is in its slot, or on its way there by the one producer
\* that holds the ticket, or was just taken out.
Holds(t) ==
  LET slot == ring[Slot(t)]
  IN  \/ slot.seq = t + 1 /\ slot.r = accepted[t + 1]
      \/ slot.seq = t /\ \E p \in Threads :
           prod[p].pc = "publish" /\ prod[p].pos = t /\ prod[p].r = accepted[t + 1]
      \/ t = rpos /\ work.freed /\ slot.seq = t + Capacity

\* The state is well formed, and the capacity check is enough to own a slot (the comment in hid_fifo_try_push):
\* between the two positions every slot holds, or waits for, the report of its
\* ticket, all other slots are free, and the buffer that the endpoint reads is not
\* written (a transfer under way keeps hid_ep_in_busy).
RingSound ==
  /\ TypeOK
  /\ \A t \in rpos..wpos - 1 : Holds(t)
  /\ \A t \in wpos..rpos + Capacity - 1 : ring[Slot(t)].seq = t
  /\ usb.flying => usb.busy

\* What has been handed over, in tickets.
Handed == rpos + work.left

\* hid.c implements the queue that hid.h promises.
Queue == INSTANCE ReportQueue WITH queue <- SubSeq(accepted, Handed + 1, Len(accepted))
ImplementsQueue == Queue!Spec

\* Every accepted report leaves the queue, unless the link goes down: none is stuck
\* behind a slot that was claimed and published late, a busy endpoint, a refused
\* transfer, or a link that was down when it was written.
EveryReportLeaves ==
  (Handed < Len(accepted) /\ Up) ~> (Handed = Len(accepted) \/ ~Up)

\* An urgent report is refused only when the ring is full (hid_fifo_try_push keeps a
\* reserve for it).  It does not hold: see HidRefusal.cfg.
UrgentOnlyRefusedWhenFull ==
  [][\A p \in Threads :
       prod[p].pc = "check" /\ prod'[p].pc = "idle" /\ prod[p].r.urgent => wpos - rpos >= Capacity]_vars
=============================================================================
