---------------------------- MODULE ReportQueue ----------------------------
(***************************************************************************)
(* What the HID input queue promises (hid.c): a bounded queue that hands   *)
(* every accepted report to the USB endpoint exactly once and in the order *)
(* of acceptance, a batch at a time, but for reports of a subscription     *)
(* that has ended, which leave the queue unsent.  Some places are kept for *)
(* urgent reports.                                                         *)
(***************************************************************************)
EXTENDS Integers, Sequences

CONSTANTS
  Report,     \* reports that producers write
  Capacity,   \* MAX_REPORTS
  Reserve,    \* HID_FIFO_PRIORITY_RESERVE
  Batch       \* HID_EP_REPORT_COUNT

VARIABLES
  queue,      \* accepted reports that are not yet handed over
  sent,       \* what was handed to the endpoint so far
  gen         \* the current generation of subscriptions

vars == <<queue, sent, gen>>

\* A report: urgent or not; gen is the subscription that it is for, 0 for none.
Current(r) == r.gen \in {0, gen}

Init == queue = <<>> /\ sent = <<>> /\ gen = 1

Accept(r) ==
  /\ Len(queue) < Capacity - (IF r.urgent THEN 0 ELSE Reserve)
  /\ queue' = Append(queue, r)
  /\ UNCHANGED <<sent, gen>>

\* A batch leaves; an empty one is a registration in its place.
Send(n) ==
  /\ sent' = sent \o SelectSeq(SubSeq(queue, 1, n), Current)
  /\ queue' = SubSeq(queue, n + 1, Len(queue))
  /\ UNCHANGED gen

\* Subscriptions end.
Renew == gen' = gen + 1 /\ UNCHANGED <<queue, sent>>

Smaller(a, b) == IF a < b THEN a ELSE b

Next ==
  \/ \E r \in Report : Accept(r)
  \/ \E n \in 0..Smaller(Batch, Len(queue)) : Send(n)
  \/ Renew

Spec == Init /\ [][Next]_vars
=============================================================================
