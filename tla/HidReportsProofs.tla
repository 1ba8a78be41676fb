-------------------------- MODULE HidReportsProofs --------------------------
(***************************************************************************)
(* Proofs about HidReports for every number of threads, every size of the  *)
(* ring, of its reserve and of a batch: the capacity check is enough to    *)
(* own a slot, and the ring implements the queue of ReportQueue.           *)
(***************************************************************************)
EXTENDS HidReports, FiniteSetTheorems, SequenceTheorems, WellFoundedInduction, TLAPS

----------------------------------------------------------------------------
(* Arithmetic of positions *)

\* Division with remainder by the size of the ring.
LEMMA Remainder ==
  ASSUME NEW a \in Nat
  PROVE  \E q \in Nat : \E r \in 0..Capacity - 1 : a = Capacity * q + r /\ r = a % Capacity
<1>1. Capacity \in Nat \ {0}
  BY HidConstants
<1>2. QED
  BY <1>1

\* The remainder is unique.
LEMMA RemainderUnique ==
  ASSUME NEW a \in Int, NEW q \in Int, NEW r \in 0..Capacity - 1, a = Capacity * q + r
  PROVE  r = a % Capacity
<1>1. Capacity \in Nat \ {0}
  BY HidConstants
<1>2. QED
  BY <1>1

\* A position has a slot.
LEMMA SlotType ==
  ASSUME NEW a \in Nat
  PROVE  Slot(a) \in 0..Capacity - 1
BY Remainder DEF Slot

\* The slot of a position is used again one ring later ...
LEMMA SlotNext ==
  ASSUME NEW a \in Nat
  PROVE  Slot(a + Capacity) = Slot(a)
<1>0. Capacity \in Nat \ {0}
  BY HidConstants
<1>1. PICK q \in Nat : \E r \in 0..Capacity - 1 : a = Capacity * q + r /\ r = a % Capacity
  BY Remainder
<1>2. PICK r \in 0..Capacity - 1 : a = Capacity * q + r /\ r = a % Capacity
  BY <1>1
<1>3. a + Capacity = Capacity * (q + 1) + r /\ a + Capacity \in Int /\ q + 1 \in Int
  BY <1>0, <1>2
<1>4. r = (a + Capacity) % Capacity
  BY <1>0, <1>3, RemainderUnique
<1>5. QED
  BY <1>2, <1>4 DEF Slot

\* ... and not before.
LEMMA SlotInjective ==
  ASSUME NEW a \in Nat, NEW b \in Nat, a < b + Capacity, b < a + Capacity, Slot(a) = Slot(b)
  PROVE  a = b
<1>0. Capacity \in Nat \ {0}
  BY HidConstants
<1>1. PICK q \in Nat : \E r \in 0..Capacity - 1 : a = Capacity * q + r /\ r = a % Capacity
  BY Remainder
<1>2. PICK p \in Nat : \E r \in 0..Capacity - 1 : b = Capacity * p + r /\ r = b % Capacity
  BY Remainder
<1>3. a - b = Capacity * (q - p)
  BY <1>0, <1>1, <1>2 DEF Slot
<1>4. q - p >= 1 => Capacity * (q - p) >= Capacity
  BY <1>0
<1>5. q - p <= -1 => Capacity * (q - p) <= -Capacity
  BY <1>0
<1>6. q = p
  BY <1>0, <1>3, <1>4, <1>5
<1>7. QED
  BY <1>0, <1>3, <1>6

\* A set of numbers has a least one.
LEMMA LeastExists ==
  ASSUME NEW S \in SUBSET Nat, S # {}
  PROVE  Least(S) \in S /\ \A y \in S : Least(S) <= y
<1> DEFINE R == OpToRel(<, Nat)
<1>1. IsWellFoundedOn(R, Nat)
  BY NatLessThanWellFounded
<1>2. PICK x \in S : \A y \in S : ~(<<y, x>> \in R)
  BY <1>1, WFMin
<1>3. ASSUME NEW y \in S
      PROVE  x <= y
  <2>1. <<y, x>> \in Nat \X Nat /\ <<y, x>>[1] = y /\ <<y, x>>[2] = x
    OBVIOUS
  <2>2. y < x => <<y, x>> \in R
    BY <2>1, Zenon DEF OpToRel
  <2>3. ~(y < x)
    BY <1>2, <2>2, Zenon
  <2>4. QED
    BY <2>3
<1>4. QED
  BY <1>3 DEF Least

----------------------------------------------------------------------------
(* The inductive invariant *)

\* Threads that may still take a ticket.
Entered == {p \in Threads : prod[p].pc \in {"check", "claim"}}

ProdType ==
  prod \in [Threads -> [pc : {"idle", "check", "claim", "publish", "schedule"}, r : Report, pos : Nat]]
UsbType ==
  /\ usb \in [configured : BOOLEAN, ready : BOOLEAN, busy : BOOLEAN, flying : BOOLEAN, downs : 0..MaxUsb]
  /\ gen \in 1..2 * usb.downs + 1
  /\ usb.configured /\ ~usb.ready => gen <= 2 * usb.downs
RingType ==
  /\ ring \in [0..Capacity - 1 -> [seq : Nat, r : Report]]
  /\ wpos \in Nat /\ rpos \in 0..wpos /\ accepted \in Seq(Report) /\ wpos = Len(accepted)
  /\ wpos + Cardinality(Entered) <= MaxPush + Cardinality(Threads)
WorkType == work \in [armed : BOOLEAN, left : 0..Batch, freed : BOOLEAN]
Types == ProdType /\ UsbType /\ RingType /\ WorkType

\* The check of the capacity stays true until the ticket is taken: the read position
\* only grows.
Claiming ==
  \A p \in Threads : prod[p].pc = "claim" =>
    /\ prod[p].pos < rpos + Capacity
    /\ ~prod[p].r.urgent => prod[p].pos < rpos + Capacity - Reserve

\* A ticket is held by one thread, and its slot waits for it.
Publishing ==
  /\ \A p \in Threads : prod[p].pc = "publish" =>
       /\ prod[p].pos \in rpos..wpos - 1
       /\ ring[Slot(prod[p].pos)].seq = prod[p].pos
       /\ prod[p].r = accepted[prod[p].pos + 1]
  /\ \A p, q \in Threads :
       prod[p].pc = "publish" /\ prod[q].pc = "publish" /\ prod[p].pos = prod[q].pos => p = q

\* What hid_fifo_consume is to take was published.
Taking ==
  /\ work.freed => work.left > 0
  /\ rpos + work.left <= wpos
  /\ \A t \in rpos..rpos + work.left - 1 :
       ring[Slot(t)].seq = IF work.freed /\ t = rpos THEN t + Capacity ELSE t + 1

\* The slots, as RingSound has them; the write position is at most a ring ahead.
Slots ==
  /\ wpos <= rpos + Capacity
  /\ \A t \in rpos..wpos - 1 : Holds(t)
  /\ \A t \in wpos..rpos + Capacity - 1 : ring[Slot(t)].seq = t

\* A transfer is under way only while the interface is up: status_cb, which clears
\* hid_ep_in_busy too, comes after the end of the link.
Flying == usb.flying => usb.busy /\ usb.ready

IInv == Types /\ Claiming /\ Publishing /\ Taking /\ Slots /\ Flying

----------------------------------------------------------------------------
(* Types *)

\* A set of threads is finite and no larger than one that includes it.
LEMMA ThreadsCount ==
  ASSUME NEW S \in SUBSET Threads, NEW T \in SUBSET S
  PROVE  /\ IsFiniteSet(T) /\ Cardinality(T) \in Nat /\ Cardinality(S) \in Nat
         /\ Cardinality(T) <= Cardinality(S)
<1>1. IsFiniteSet(S)
  BY HidConstants, FS_Subset
<1>2. IsFiniteSet(T) /\ Cardinality(T) <= Cardinality(S)
  BY <1>1, FS_Subset
<1>3. QED
  BY <1>1, <1>2, FS_CardinalityType

\* What producers write is a report of a generation that the bound allows.
LEMMA WrittenType ==
  ASSUME UsbType, NEW p \in Threads \cup {Isr}, NEW kind
  PROVE  Written(p, kind) \in Report
<1>1. gen \in 0..2 * MaxUsb + 1
  BY HidConstants DEF UsbType
<1>2. 0 \in 0..2 * MaxUsb + 1
  BY HidConstants
<1>3. QED
  BY <1>1, <1>2 DEF Written, Report

\* The empty report is one.
LEMMA IdleType == Idle \in [pc : {"idle", "check", "claim", "publish", "schedule"}, r : Report, pos : Nat]
<1>1. 0 \in 0..2 * MaxUsb + 1
  BY HidConstants
<1>2. NoReport \in Report
  BY <1>1 DEF NoReport, Report
<1>3. QED
  BY <1>2 DEF Idle

\* A report that is accepted is the last one.
LEMMA Appended ==
  ASSUME NEW s \in Seq(Report), NEW r \in Report
  PROVE  /\ Append(s, r) \in Seq(Report) /\ Len(s) \in Nat /\ Len(Append(s, r)) = Len(s) + 1
         /\ Append(s, r)[Len(s) + 1] = r
         /\ \A i \in 1..Len(s) : Append(s, r)[i] = s[i]
OBVIOUS

\* A step of a producer keeps the types.
LEMMA ProducerTypes ==
  ASSUME Types, NEW p \in Threads, Producer(p) \/ \E kind \in Kinds : Write(p, kind)
  PROVE  Types'
<1>0. /\ prod[p].r \in Report /\ prod[p].pos \in Nat /\ wpos \in Nat
      /\ Entered \in SUBSET Threads /\ Cardinality(Threads) \in Nat /\ Cardinality(Entered) \in Nat
  BY ThreadsCount DEF Types, ProdType, RingType, Entered
<1>1. ASSUME NEW kind \in Kinds, Write(p, kind)
      PROVE  Types'
  <2>1. ProdType'
    BY <1>0, <1>1, WrittenType DEF Write, Types, ProdType
  <2>2. Entered' \in SUBSET Threads
    BY DEF Entered
  <2>3. Cardinality(Entered') <= Cardinality(Threads) /\ Cardinality(Entered') \in Nat
    BY <2>2, ThreadsCount
  <2>4. RingType'
    BY <1>0, <1>1, <2>3, HidConstants DEF Write, Types, RingType
  <2>5. QED
    BY <1>1, <2>1, <2>4 DEF Write, Types, UsbType, WorkType
<1>2. CASE Check(p)
  <2>1. ProdType'
    BY <1>0, <1>2, IdleType DEF Check, Types, ProdType
  <2>2. Entered' \in SUBSET Entered
    BY <1>2 DEF Check, Types, ProdType, Entered, Idle
  <2>3. Cardinality(Entered') <= Cardinality(Entered) /\ Cardinality(Entered') \in Nat
    BY <1>0, <2>2, ThreadsCount
  <2>4. RingType'
    BY <1>0, <1>2, <2>3, HidConstants DEF Check, Types, RingType
  <2>5. QED
    BY <1>2, <2>1, <2>4 DEF Check, Types, UsbType, WorkType
<1>3. CASE Claim(p)
  <2>1. ProdType'
    BY <1>0, <1>3 DEF Claim, Types, ProdType
  <2>2. RingType'
    <3>1. CASE Claimable(p)
      <4>1. Entered' = Entered \ {p} /\ p \in Entered
        BY <1>3, <3>1 DEF Claim, Types, ProdType, Entered
      <4>2. IsFiniteSet(Entered)
        BY <1>0, ThreadsCount
      <4>3. Cardinality(Entered') = Cardinality(Entered) - 1
        BY <4>1, <4>2, FS_RemoveElement
      <4>4. accepted' \in Seq(Report) /\ Len(accepted') = Len(accepted) + 1
        <5>1. accepted' = Append(accepted, prod[p].r) /\ accepted \in Seq(Report)
          BY <1>3, <3>1 DEF Claim, Types, RingType
        <5>2. QED
          BY <1>0, <5>1, Appended
      <4>5. ring' = ring /\ wpos' = wpos + 1 /\ rpos' = rpos /\ wpos = Len(accepted)
        BY <1>3, <3>1 DEF Claim, Claimable, Types, RingType
      <4>6. wpos' + Cardinality(Entered') <= MaxPush + Cardinality(Threads)
        BY <1>0, <4>3, <4>5, HidConstants DEF Types, RingType
      <4>7. wpos' \in Nat /\ rpos' \in 0..wpos' /\ wpos' = Len(accepted')
        BY <1>0, <4>4, <4>5 DEF Types, RingType
      <4>8. QED
        BY <4>4, <4>5, <4>6, <4>7 DEF Types, RingType
    <3>2. CASE ~Claimable(p)
      <4>1. Entered' = Entered
        BY <1>3, <3>2 DEF Claim, Types, ProdType, Entered
      <4>2. QED
        BY <1>0, <1>3, <3>2, <4>1 DEF Claim, Types, RingType
    <3>3. QED
      BY <3>1, <3>2
  <2>3. QED
    BY <1>3, <2>1, <2>2 DEF Claim, Types, UsbType, WorkType
<1>4. CASE Publish(p)
  <2>1. ProdType'
    BY <1>0, <1>4 DEF Publish, Types, ProdType
  <2>2. Entered' = Entered
    BY <1>4 DEF Publish, Types, ProdType, Entered
  <2>3. RingType'
    BY <1>0, <1>4, <2>2, SlotType DEF Publish, Types, RingType
  <2>4. QED
    BY <1>4, <2>1, <2>3 DEF Publish, Types, UsbType, WorkType
<1>5. CASE Schedule(p)
  <2>1. ProdType'
    BY <1>0, <1>5, IdleType DEF Schedule, Types, ProdType
  <2>2. Entered' = Entered
    BY <1>5 DEF Schedule, Types, ProdType, Entered, Idle
  <2>3. RingType'
    BY <1>0, <1>5, <2>2 DEF Schedule, Types, RingType
  <2>4. QED
    BY <1>5, <2>1, <2>3 DEF Schedule, Scheduled, Types, UsbType, WorkType
<1>6. QED
  BY <1>1, <1>2, <1>3, <1>4, <1>5 DEF Producer

\* How many reports hid_fifo_peek_batch finds: they lie next to each other.
LEMMA PeekedType ==
  /\ Peeked \in 0..Batch
  /\ \A n \in 0..Peeked - 1 : ring[Slot(rpos + n)].seq = rpos + n + 1
<1> DEFINE missing == {n \in 0..Batch - 1 : ring[Slot(rpos + n)].seq # rpos + n + 1}
<1>0. Batch \in Nat \ {0}
  BY HidConstants
<1>1. CASE missing = {}
  BY <1>0, <1>1 DEF Peeked
<1>2. CASE missing # {}
  <2>1. missing \in SUBSET Nat
    BY <1>0
  <2>2. Least(missing) \in missing /\ \A y \in missing : Least(missing) <= y
    <3> HIDE DEF missing
    <3> QED BY <1>2, <2>1, LeastExists
  <2>3. Peeked = Least(missing)
    BY <1>2 DEF Peeked
  <2>4. QED
    BY <1>0, <2>2, <2>3
<1>3. QED
  BY <1>1, <1>2

\* The other steps keep the types.
LEMMA OtherTypes ==
  ASSUME Types, Taking,
         \/ \E kind \in IsrKinds : IsrWrite(kind)
         \/ Sender \/ SubmitFails \/ Heartbeat \/ Polled \/ Link \/ InterfaceDown
         \/ UNCHANGED vars
  PROVE  Types'
<1>0. /\ wpos \in Nat /\ rpos \in Nat /\ Entered \in SUBSET Threads
      /\ Cardinality(Threads) \in Nat /\ Cardinality(Entered) \in Nat
      /\ Cardinality(Entered) <= Cardinality(Threads)
  BY ThreadsCount DEF Types, RingType, Entered
<1>1. ASSUME NEW kind \in IsrKinds, IsrWrite(kind)
      PROVE  Types'
  <2>1. Written(Isr, kind) \in Report
    BY WrittenType DEF Types
  <2>2. RingType'
    <3>1. Entered' = Entered
      BY <1>1 DEF IsrWrite, Entered
    <3>2. CASE Full(Written(Isr, kind), wpos, rpos)
      BY <1>1, <3>1, <3>2 DEF IsrWrite, Types, RingType
    <3>3. CASE ~Full(Written(Isr, kind), wpos, rpos)
      <4>1. accepted' \in Seq(Report) /\ Len(accepted') = Len(accepted) + 1
        BY <1>1, <2>1, <3>3, Appended DEF IsrWrite, Types, RingType
      <4>2. /\ ring' = [ring EXCEPT ![Slot(wpos)] = [seq |-> wpos + 1, r |-> Written(Isr, kind)]]
            /\ wpos' = wpos + 1 /\ rpos' = rpos /\ wpos < MaxPush
        BY <1>1, <3>3 DEF IsrWrite
      <4>3. ring' \in [0..Capacity - 1 -> [seq : Nat, r : Report]]
        <5>1. [seq |-> wpos + 1, r |-> Written(Isr, kind)] \in [seq : Nat, r : Report]
          BY <1>0, <2>1
        <5>2. Slot(wpos) \in 0..Capacity - 1 /\ ring \in [0..Capacity - 1 -> [seq : Nat, r : Report]]
          BY <1>0, SlotType DEF Types, RingType
        <5>3. QED
          BY <4>2, <5>1, <5>2
      <4>4. wpos' \in Nat /\ rpos' \in 0..wpos' /\ wpos' = Len(accepted')
        BY <1>0, <4>1, <4>2 DEF Types, RingType
      <4>5. wpos' + Cardinality(Entered') <= MaxPush + Cardinality(Threads)
        BY <1>0, <3>1, <4>2, HidConstants
      <4>6. QED
        BY <4>1, <4>3, <4>4, <4>5 DEF RingType
    <3>4. QED
      BY <3>2, <3>3
  <2>3. WorkType'
    BY <1>1 DEF IsrWrite, Scheduled, Types, WorkType
  <2>4. QED
    BY <1>1, <2>2, <2>3 DEF IsrWrite, Types, ProdType, UsbType
<1>2. CASE Submit
  <2>1. WorkType'
    BY <1>2, PeekedType DEF Submit, Types, WorkType
  <2>2. UsbType'
    BY <1>2 DEF Submit, Types, UsbType
  <2>3. QED
    BY <1>2, <2>1, <2>2 DEF Submit, Types, ProdType, RingType, Entered
<1>3. CASE SendNothing \/ Heartbeat
  <2>1. WorkType'
    BY <1>3 DEF SendNothing, Heartbeat, Scheduled, Types, WorkType
  <2>2. QED
    BY <1>3, <2>1 DEF SendNothing, Heartbeat, Types, ProdType, UsbType, RingType, Entered
<1>4. CASE Consume
  <2>1. WorkType'
    <3>1. work.left - 1 \in 0..Batch
      BY <1>4, HidConstants DEF Consume, Types, WorkType
    <3>2. QED
      BY <1>4, <3>1 DEF Consume, Types, WorkType
  <2>2. RingType'
    <3>1. Slot(rpos) \in 0..Capacity - 1 /\ rpos + Capacity \in Nat
      BY <1>0, SlotType, HidConstants
    <3>2. rpos + 1 \in 0..wpos
      BY <1>0, <1>4 DEF Consume, Taking, Types, WorkType
    <3>3. Entered' = Entered
      BY <1>4 DEF Consume, Entered
    <3>4. QED
      BY <1>0, <1>4, <3>1, <3>2, <3>3 DEF Consume, Types, RingType
  <2>3. QED
    BY <1>4, <2>1, <2>2 DEF Consume, Types, ProdType, UsbType
<1>5. CASE Polled \/ Link \/ InterfaceDown
  <2>1. WorkType'
    BY <1>5 DEF Polled, Link, InterfaceDown, InterfaceUp, Configured, Unconfigured, Scheduled, Types,
                WorkType
  <2>2. UsbType'
    <3>1. CASE Polled \/ InterfaceUp \/ Configured
      BY <3>1 DEF Polled, InterfaceUp, Configured, Types, UsbType
    <3>2. CASE Unconfigured
      <4>1. gen + 1 \in 1..2 * usb.downs + 1
        <5>1. gen <= 2 * usb.downs /\ gen \in 1..2 * usb.downs + 1 /\ usb.downs \in 0..MaxUsb
          BY <3>2 DEF Unconfigured, Types, UsbType
        <5>2. QED
          BY <5>1, HidConstants
      <4>2. usb'.downs = usb.downs /\ ~usb'.configured
        BY <3>2 DEF Unconfigured, Types, UsbType
      <4>3. usb' \in [configured : BOOLEAN, ready : BOOLEAN, busy : BOOLEAN, flying : BOOLEAN,
                      downs : 0..MaxUsb]
        BY <3>2 DEF Unconfigured, Types, UsbType
      <4>4. gen' = gen + 1
        BY <3>2 DEF Unconfigured
      <4>5. QED
        BY <4>1, <4>2, <4>3, <4>4 DEF UsbType
    <3>3. CASE InterfaceDown
      <4>1. /\ gen + 1 \in 1..2 * (usb.downs + 1) + 1 /\ gen + 1 <= 2 * (usb.downs + 1)
            /\ usb.downs + 1 \in 0..MaxUsb
        <5>1. gen \in 1..2 * usb.downs + 1 /\ usb.downs \in 0..MaxUsb /\ usb.downs < MaxUsb
          BY <3>3 DEF InterfaceDown, Types, UsbType
        <5>2. QED
          BY <5>1, HidConstants
      <4>2. usb'.downs = usb.downs + 1
        BY <3>3 DEF InterfaceDown, Types, UsbType
      <4>3. usb' \in [configured : BOOLEAN, ready : BOOLEAN, busy : BOOLEAN, flying : BOOLEAN,
                      downs : 0..MaxUsb]
        BY <3>3, <4>1 DEF InterfaceDown, Types, UsbType
      <4>4. gen' = gen + 1
        BY <3>3 DEF InterfaceDown
      <4>5. QED
        BY <4>1, <4>2, <4>3, <4>4 DEF UsbType
    <3>4. QED
      BY <1>5, <3>1, <3>2, <3>3 DEF Link
  <2>3. QED
    BY <1>5, <2>1, <2>2
    DEF Polled, Link, InterfaceDown, InterfaceUp, Configured, Unconfigured, Types, ProdType, RingType,
        Entered
<1>6. CASE SubmitFails \/ UNCHANGED vars
  BY <1>6 DEF SubmitFails, vars, Types, ProdType, UsbType, RingType, Entered, WorkType
<1>7. QED
  BY <1>1, <1>2, <1>3, <1>4, <1>5, <1>6 DEF Sender
----------------------------------------------------------------------------
(* Slots and tickets *)

\* Two positions less than a ring apart have two slots.
LEMMA SlotApart ==
  ASSUME NEW low \in Nat, NEW t \in low..low + Capacity - 1, NEW u \in low..low + Capacity - 1, t # u
  PROVE  Slot(t) # Slot(u)
<1>1. t \in Nat /\ u \in Nat /\ t < u + Capacity /\ u < t + Capacity
  BY HidConstants
<1>2. QED
  BY <1>1, SlotInjective

\* What the steps need of the types.
LEMMA Numbers ==
  ASSUME Types
  PROVE  /\ wpos \in Nat /\ rpos \in Nat /\ rpos <= wpos /\ Capacity \in Nat /\ Capacity > 0 /\ Batch \in Nat
         /\ work.left \in Nat
         /\ \A p \in Threads : prod[p].pos \in Nat /\ prod[p].r \in Report
         /\ \A t \in Nat : Slot(t) \in 0..Capacity - 1
         /\ \A t \in Nat : ring[Slot(t)].seq \in Nat
<1>1. \A t \in Nat : Slot(t) \in 0..Capacity - 1
  BY SlotType
<1>2. \A t \in Nat : ring[Slot(t)].seq \in Nat
  BY <1>1 DEF Types, RingType
<1>3. \A p \in Threads : prod[p].pos \in Nat /\ prod[p].r \in Report
  BY DEF Types, ProdType
<1>4. wpos \in Nat /\ rpos \in Nat /\ rpos <= wpos
  BY DEF Types, RingType
<1>5. Capacity \in Nat /\ Capacity > 0 /\ Batch \in Nat
  BY HidConstants
<1>6. work.left \in 0..Batch
  BY DEF Types, WorkType
<1>7. work.left \in Nat
  BY <1>6
<1>8. QED
  BY <1>1, <1>2, <1>3, <1>4, <1>5, <1>7

Core == Claiming /\ Publishing /\ Taking /\ Slots

\* A step that leaves the ring and its users alone.
LEMMA CoreFrame ==
  ASSUME Core, UNCHANGED <<ring, wpos, rpos, prod, accepted>>,
         work'.left = work.left, work'.freed = work.freed
  PROVE  Core'
BY DEF Core, Claiming, Publishing, Taking, Slots, Holds

\* A step of one producer that neither takes nor uses a ticket.
LEMMA ProducerFrame ==
  ASSUME Core, NEW p \in Threads, UNCHANGED <<ring, wpos, rpos, accepted>>,
         work'.left = work.left, work'.freed = work.freed,
         \A q \in Threads \ {p} : prod'[q] = prod[q],
         prod[p].pc # "publish", prod'[p].pc # "publish",
         prod'[p].pc = "claim" =>
           /\ prod'[p].pos < rpos + Capacity
           /\ ~prod'[p].r.urgent => prod'[p].pos < rpos + Capacity - Reserve
  PROVE  Core'
<1>1. Claiming'
  BY DEF Core, Claiming
<1>2. Publishing'
  BY DEF Core, Publishing
<1>3. Taking'
  BY DEF Core, Taking
<1>4. ASSUME NEW t, Holds(t)
      PROVE  Holds(t)'
  BY <1>4 DEF Holds
<1>5. Slots'
  BY <1>4 DEF Core, Slots
<1>6. QED
  BY <1>1, <1>2, <1>3, <1>5 DEF Core

\* hid_fifo_try_push, up to the ticket.
LEMMA WriteCore ==
  ASSUME Types, Core, NEW p \in Threads, NEW kind, Write(p, kind)
  PROVE  Core'
<1>1. /\ prod[p].pc = "idle" /\ prod'[p].pc = "check"
      /\ \A q \in Threads \ {p} : prod'[q] = prod[q]
  BY DEF Write, Types, ProdType
<1>2. QED
  BY <1>1, ProducerFrame DEF Write

\* The check of the capacity.
LEMMA CheckCore ==
  ASSUME Types, Core, NEW p \in Threads, Check(p)
  PROVE  Core'
<1>1. /\ prod[p].pc = "check" /\ prod'[p].pc # "publish"
      /\ \A q \in Threads \ {p} : prod'[q] = prod[q]
  BY DEF Check, Idle, Types, ProdType
<1>2. ASSUME prod'[p].pc = "claim"
      PROVE  /\ prod'[p].pos < rpos + Capacity
             /\ ~prod'[p].r.urgent => prod'[p].pos < rpos + Capacity - Reserve
  <2>1. /\ ~Full(prod[p].r, prod[p].pos, rpos) /\ prod'[p].pos = prod[p].pos /\ prod'[p].r = prod[p].r
    BY <1>2 DEF Check, Idle, Types, ProdType
  <2>2. ~(prod[p].pos - rpos >= Capacity)
    BY <2>1 DEF Full
  <2>3. ~prod[p].r.urgent => ~(Capacity - (prod[p].pos - rpos) <= Reserve)
    BY <2>1 DEF Full
  <2>4. prod[p].pos < rpos + Capacity
    BY <2>2, Numbers
  <2>5. ~prod[p].r.urgent => prod[p].pos < rpos + Capacity - Reserve
    BY <2>3, Numbers, HidConstants
  <2>6. QED
    BY <2>1, <2>4, <2>5
<1>3. QED
  BY <1>1, <1>2, ProducerFrame DEF Check

\* A ticket is taken, or it was another's.
LEMMA ClaimCore ==
  ASSUME Types, Core, NEW p \in Threads, Claim(p)
  PROVE  Core'
<1>1. CASE ~Claimable(p)
  <2>1. /\ prod[p].pc = "claim" /\ prod'[p].pc = "check"
        /\ \A q \in Threads \ {p} : prod'[q] = prod[q]
    BY <1>1 DEF Claim, Types, ProdType
  <2>2. QED
    BY <1>1, <2>1, ProducerFrame DEF Claim
<1>2. CASE Claimable(p)
  <2>1. /\ prod[p].pc = "claim" /\ prod[p].pos = wpos
        /\ prod'[p].pc = "publish" /\ prod'[p].pos = wpos /\ prod'[p].r = prod[p].r
        /\ \A q \in Threads \ {p} : prod'[q] = prod[q]
    BY <1>2 DEF Claim, Claimable, Types, ProdType
  <2>2. wpos' = wpos + 1 /\ UNCHANGED <<ring, rpos, work>>
    BY <1>2, <2>1 DEF Claim
  <2>3. accepted'[wpos + 1] = prod[p].r /\ \A i \in 1..wpos : accepted'[i] = accepted[i]
    <3>1. accepted' = Append(accepted, prod[p].r) /\ accepted \in Seq(Report) /\ wpos = Len(accepted)
      BY <1>2 DEF Claim, Types, RingType
    <3>2. QED
      BY <3>1, Numbers, Appended
  <2>4. wpos < rpos + Capacity
    BY <2>1 DEF Core, Claiming
  <2>5. ring[Slot(wpos)].seq = wpos
    BY <2>4, Numbers DEF Core, Slots
  <2>6. Claiming'
    BY <2>1, <2>2 DEF Core, Claiming
  <2>7. Publishing'
    <3>1. ASSUME NEW q \in Threads, prod'[q].pc = "publish", q # p
          PROVE  /\ prod'[q].pos \in rpos..wpos - 1 /\ ring[Slot(prod'[q].pos)].seq = prod'[q].pos
                 /\ prod'[q].r = accepted'[prod'[q].pos + 1]
      <4>1. /\ prod[q].pos \in rpos..wpos - 1 /\ ring[Slot(prod[q].pos)].seq = prod[q].pos
            /\ prod[q].r = accepted[prod[q].pos + 1] /\ prod'[q] = prod[q]
        BY <2>1, <3>1 DEF Core, Publishing
      <4>2. prod[q].pos + 1 \in 1..wpos
        BY <4>1, Numbers
      <4>3. QED
        BY <2>3, <4>1, <4>2
    <3>2. ASSUME NEW q \in Threads, prod'[q].pc = "publish"
          PROVE  /\ prod'[q].pos \in rpos'..wpos' - 1
                 /\ ring'[Slot(prod'[q].pos)].seq = prod'[q].pos
                 /\ prod'[q].r = accepted'[prod'[q].pos + 1]
      <4>1. CASE q = p
        <5>1. wpos \in rpos..wpos + 1 - 1
          BY Numbers
        <5>2. QED
          BY <2>1, <2>2, <2>3, <2>5, <4>1, <5>1
      <4>2. CASE q # p
        <5>1. prod'[q].pos \in rpos..wpos - 1
          BY <3>1, <3>2, <4>2
        <5>2. prod'[q].pos \in rpos'..wpos' - 1
          BY <2>2, <5>1, Numbers
        <5>3. QED
          BY <2>2, <3>1, <3>2, <4>2, <5>2
      <4>3. QED
        BY <4>1, <4>2
    <3>3. ASSUME NEW q \in Threads, NEW u \in Threads, prod'[q].pc = "publish", prod'[u].pc = "publish",
                 prod'[q].pos = prod'[u].pos
          PROVE  q = u
      <4>1. wpos \notin rpos..wpos - 1
        BY Numbers
      <4>2. CASE q = p \/ u = p
        BY <2>1, <3>1, <3>3, <4>1, <4>2
      <4>3. CASE q # p /\ u # p
        BY <2>1, <3>3, <4>3 DEF Core, Publishing
      <4>4. QED
        BY <4>2, <4>3
    <3>4. QED
      BY <3>2, <3>3 DEF Publishing
  <2>8. Taking'
    BY <2>2, Numbers DEF Core, Taking
  <2>9. Slots'
    <3>1. wpos' <= rpos' + Capacity
      BY <2>2, <2>4, Numbers
    <3>2. ASSUME NEW t \in rpos'..wpos' - 1
          PROVE  Holds(t)'
      <4>1. CASE t = wpos
        BY <2>1, <2>2, <2>3, <2>5, <4>1 DEF Holds
      <4>2. CASE t # wpos
        <5>1. t \in rpos..wpos - 1 /\ t + 1 \in 1..wpos
          BY <2>2, <3>2, <4>2, Numbers
        <5>2. Holds(t) /\ accepted'[t + 1] = accepted[t + 1]
          BY <2>3, <5>1 DEF Core, Slots
        <5>3. QED
          BY <2>1, <2>2, <5>2 DEF Holds
      <4>3. QED
        BY <4>1, <4>2
    <3>3. ASSUME NEW t \in wpos'..rpos' + Capacity - 1
          PROVE  ring'[Slot(t)].seq = t
      <4>1. t \in wpos..rpos + Capacity - 1
        BY <2>2, Numbers
      <4>2. QED
        BY <2>2, <4>1 DEF Core, Slots
    <3>4. QED
      BY <3>1, <3>2, <3>3 DEF Slots
  <2>10. QED
    BY <2>6, <2>7, <2>8, <2>9 DEF Core
<1>3. QED
  BY <1>1, <1>2

\* The report goes into the slot of its ticket.
LEMMA PublishCore ==
  ASSUME Types, Core, NEW p \in Threads, Publish(p)
  PROVE  Core'
<1> DEFINE k == prod[p].pos
<1>1. /\ prod[p].pc = "publish" /\ prod'[p].pc = "schedule"
      /\ \A q \in Threads \ {p} : prod'[q] = prod[q]
      /\ UNCHANGED <<wpos, rpos, accepted, work>> /\ work.left = 0
  BY DEF Publish, Free, Types, ProdType
<1>2. k \in rpos..wpos - 1 /\ prod[p].r = accepted[k + 1]
  BY <1>1 DEF Core, Publishing
<1>3. k \in rpos..rpos + Capacity - 1
  BY <1>2, Numbers DEF Core, Slots
<1>4. ring'[Slot(k)].seq = k + 1 /\ ring'[Slot(k)].r = prod[p].r
  <2>1. Slot(k) \in 0..Capacity - 1
    BY <1>1, Numbers
  <2>2. QED
    BY <2>1 DEF Publish, Types, RingType
<1>5. ASSUME NEW t \in rpos..rpos + Capacity - 1, t # k
      PROVE  ring'[Slot(t)] = ring[Slot(t)]
  <2>1. Slot(t) # Slot(k)
    BY <1>3, <1>5, Numbers, SlotApart
  <2>2. Slot(t) \in 0..Capacity - 1
    BY Numbers
  <2>3. QED
    BY <2>1, <2>2 DEF Publish, Types, RingType
<1> HIDE DEF k
<1>6. Claiming'
  BY <1>1 DEF Core, Claiming
<1>7. Publishing'
  <2>1. ASSUME NEW q \in Threads, prod'[q].pc = "publish"
        PROVE  /\ q # p /\ prod'[q] = prod[q] /\ prod[q].pos \in rpos..wpos - 1
               /\ ring'[Slot(prod[q].pos)].seq = prod[q].pos
               /\ prod[q].r = accepted[prod[q].pos + 1]
    <3>1. q # p /\ prod'[q] = prod[q]
      BY <1>1, <2>1
    <3>2. /\ prod[q].pos \in rpos..wpos - 1 /\ ring[Slot(prod[q].pos)].seq = prod[q].pos
          /\ prod[q].r = accepted[prod[q].pos + 1] /\ prod[q].pos # k
      BY <1>1, <2>1, <3>1 DEF Core, Publishing, k
    <3>3. prod[q].pos \in rpos..rpos + Capacity - 1
      BY <3>2, Numbers DEF Core, Slots
    <3>4. QED
      BY <1>5, <3>1, <3>2, <3>3
  <2>2. QED
    BY <1>1, <2>1 DEF Core, Publishing
<1>8. Taking'
  BY <1>1, Numbers DEF Core, Taking
<1>9. Slots'
  <2>1. ASSUME NEW t \in rpos..wpos - 1
        PROVE  Holds(t)'
    <3>1. CASE t = k
      BY <1>1, <1>2, <1>4, <3>1 DEF Holds
    <3>2. CASE t # k
      <4>1. t \in rpos..rpos + Capacity - 1
        BY <2>1, Numbers DEF Core, Slots
      <4>2. Holds(t) /\ ring'[Slot(t)] = ring[Slot(t)]
        BY <1>5, <2>1, <3>2, <4>1 DEF Core, Slots
      <4>3. QED
        BY <1>1, <3>2, <4>2 DEF Holds, k
    <3>3. QED
      BY <3>1, <3>2
  <2>2. ASSUME NEW t \in wpos..rpos + Capacity - 1
        PROVE  ring'[Slot(t)].seq = t
    <3>1. t # k /\ t \in rpos..rpos + Capacity - 1
      BY <1>2, Numbers
    <3>2. QED
      BY <1>5, <2>2, <3>1 DEF Core, Slots
  <2>3. QED
    BY <1>1, <2>1, <2>2 DEF Core, Slots
<1>10. QED
  BY <1>6, <1>7, <1>8, <1>9 DEF Core

\* The work item is scheduled, the thread is done.
LEMMA ScheduleCore ==
  ASSUME Types, Core, NEW p \in Threads, Schedule(p)
  PROVE  Core'
<1>1. /\ prod[p].pc = "schedule" /\ prod'[p].pc = "idle"
      /\ \A q \in Threads \ {p} : prod'[q] = prod[q]
  BY DEF Schedule, Idle, Types, ProdType
<1>2. work'.left = work.left /\ work'.freed = work.freed
  BY DEF Schedule, Scheduled, Types, WorkType
<1>3. QED
  BY <1>1, <1>2, ProducerFrame DEF Schedule

\* The whole of it in the radio interrupt.
LEMMA IsrWriteCore ==
  ASSUME Types, Core, NEW kind, IsrWrite(kind)
  PROVE  Core'
<1> DEFINE r == Written(Isr, kind)
<1>1. CASE Full(r, wpos, rpos)
  BY <1>1, CoreFrame DEF IsrWrite
<1>2. CASE ~Full(r, wpos, rpos)
  <2>1. /\ wpos' = wpos + 1 /\ UNCHANGED <<rpos, prod>>
        /\ ring' = [ring EXCEPT ![Slot(wpos)] = [seq |-> wpos + 1, r |-> r]]
        /\ accepted' = Append(accepted, r)
    BY <1>2 DEF IsrWrite
  <2>2. work'.left = work.left /\ work'.freed = work.freed
    BY <1>2 DEF IsrWrite, Scheduled, Types, WorkType
  <2>3. wpos < rpos + Capacity
    <3>1. ~(wpos - rpos >= Capacity)
      BY <1>2 DEF Full
    <3>2. QED
      BY <3>1, Numbers
  <2>4. accepted'[wpos + 1] = r /\ \A i \in 1..wpos : accepted'[i] = accepted[i]
    <3>1. r \in Report /\ accepted \in Seq(Report) /\ wpos = Len(accepted)
      BY WrittenType DEF Types, RingType
    <3> HIDE DEF r
    <3>2. QED
      BY <2>1, <3>1, Numbers, Appended
  <2>5. ring'[Slot(wpos)].seq = wpos + 1 /\ ring'[Slot(wpos)].r = r
    <3>1. Slot(wpos) \in 0..Capacity - 1
      BY Numbers
    <3>2. QED
      BY <2>1, <3>1 DEF Types, RingType
  <2> HIDE DEF r
  <2>6. ASSUME NEW t \in rpos..rpos + Capacity - 1, t # wpos
        PROVE  ring'[Slot(t)] = ring[Slot(t)]
    <3>1. wpos \in rpos..rpos + Capacity - 1
      BY <2>3, Numbers
    <3>2. Slot(t) # Slot(wpos)
      BY <2>6, <3>1, Numbers, SlotApart
    <3>3. Slot(t) \in 0..Capacity - 1
      BY Numbers
    <3>4. QED
      BY <2>1, <3>2, <3>3 DEF Types, RingType
  <2>7. Claiming'
    BY <2>1 DEF Core, Claiming
  <2>8. ASSUME NEW t \in rpos..wpos - 1
        PROVE  /\ t \in rpos'..wpos' - 1 /\ ring'[Slot(t)] = ring[Slot(t)]
               /\ accepted'[t + 1] = accepted[t + 1]
    <3>1. t # wpos /\ t \in rpos..rpos + Capacity - 1 /\ t + 1 \in 1..wpos /\ t \in rpos..wpos
      BY <2>3, Numbers
    <3>2. t \in rpos'..wpos' - 1
      BY <2>1, <3>1, Numbers
    <3>3. QED
      BY <2>4, <2>6, <3>1, <3>2
  <2>9. Publishing'
    BY <2>1, <2>8 DEF Core, Publishing
  <2>10. Taking'
    <3>1. ASSUME NEW t \in rpos..rpos + work.left - 1
          PROVE  ring'[Slot(t)] = ring[Slot(t)]
      <4>1. t \in rpos..wpos - 1
        BY Numbers DEF Core, Taking
      <4>2. QED
        BY <2>8, <4>1
    <3>2. rpos' + work'.left <= wpos'
      <4>1. rpos + work.left <= wpos /\ rpos' = rpos /\ wpos' = wpos + 1
        BY <2>1 DEF Core, Taking
      <4>2. rpos + work.left <= wpos + 1
        BY <4>1, Numbers
      <4>3. QED
        BY <2>2, <4>1, <4>2
    <3>3. QED
      BY <2>1, <2>2, <3>1, <3>2 DEF Core, Taking
  <2>11. Slots'
    <3>1. wpos' <= rpos' + Capacity
      BY <2>1, <2>3, Numbers
    <3>2. ASSUME NEW t \in rpos'..wpos' - 1
          PROVE  Holds(t)'
      <4>1. CASE t = wpos
        BY <2>4, <2>5, <4>1 DEF Holds
      <4>2. CASE t # wpos
        <5>1. t \in rpos..wpos - 1
          BY <2>1, <3>2, <4>2, Numbers
        <5>2. Holds(t)
          BY <5>1 DEF Core, Slots
        <5>3. QED
          BY <2>1, <2>2, <2>8, <5>1, <5>2 DEF Holds
      <4>3. QED
        BY <4>1, <4>2
    <3>3. ASSUME NEW t \in wpos'..rpos' + Capacity - 1
          PROVE  ring'[Slot(t)].seq = t
      <4>0. t \in wpos + 1..rpos + Capacity - 1
        BY <2>1
      <4>1. t \in wpos..rpos + Capacity - 1 /\ t # wpos /\ t \in rpos..rpos + Capacity - 1
        BY <4>0, Numbers
      <4>2. QED
        BY <2>6, <4>1 DEF Core, Slots
    <3>4. QED
      BY <3>1, <3>2, <3>3 DEF Slots
  <2>12. QED
    BY <2>7, <2>9, <2>10, <2>11 DEF Core
<1>3. QED
  BY <1>1, <1>2

\* What hid_fifo_peek_batch finds was accepted: a slot that holds the report of the
\* last ring is not taken for one of the next.
LEMMA PeekedAccepted ==
  ASSUME Types, Core, Free
  PROVE  rpos + Peeked <= wpos
<1>0. work.left = 0 /\ ~work.freed
  BY Numbers DEF Core, Taking, Free
<1>1. Peeked \in Nat
  BY PeekedType, Numbers
<1>2. ASSUME ~(rpos + Peeked <= wpos)
      PROVE  FALSE
  <2>1. wpos - rpos \in 0..Peeked - 1 /\ rpos + (wpos - rpos) = wpos
    BY <1>1, <1>2, Numbers
  <2>2. ring[Slot(wpos)].seq = wpos + 1
    BY <2>1, PeekedType
  <2>3. CASE wpos < rpos + Capacity
    <3>1. ring[Slot(wpos)].seq = wpos
      BY <2>3, Numbers DEF Core, Slots
    <3>2. QED
      BY <2>2, <3>1, Numbers
  <2>4. CASE wpos = rpos + Capacity
    <3>1. Slot(wpos) = Slot(rpos)
      BY <2>4, Numbers, SlotNext
    <3>2. rpos \in rpos..wpos - 1
      BY <2>4, Numbers
    <3>3. Holds(rpos)
      BY <3>2 DEF Core, Slots
    <3>4. ring[Slot(rpos)].seq = rpos + 1 \/ ring[Slot(rpos)].seq = rpos
      BY <1>0, <3>3 DEF Holds
    <3>5. QED
      BY <2>2, <2>4, <3>1, <3>4, Numbers
  <2>5. wpos <= rpos + Capacity
    BY DEF Core, Slots
  <2>6. QED
    BY <2>3, <2>4, <2>5, Numbers
<1>3. QED
  BY <1>2

\* A batch is handed over.
LEMMA SubmitCore ==
  ASSUME Types, Core, Submit
  PROVE  Core'
<1>0. work.left = 0 /\ ~work.freed
  BY Numbers DEF Core, Taking, Submit, Free
<1>1. UNCHANGED <<ring, wpos, rpos, prod, accepted>> /\ work'.left = Peeked /\ work'.freed = work.freed
  BY DEF Submit, Types, WorkType
<1>2. Peeked \in Nat /\ rpos + Peeked <= wpos
  BY PeekedAccepted, PeekedType, Numbers DEF Submit
<1>3. ASSUME NEW t \in rpos..rpos + Peeked - 1
      PROVE  ring[Slot(t)].seq = t + 1
  <2>1. t - rpos \in 0..Peeked - 1 /\ rpos + (t - rpos) = t
    BY <1>2, Numbers
  <2>2. QED
    BY <2>1, PeekedType
<1> HIDE DEF Peeked
<1>4. Taking'
  BY <1>0, <1>1, <1>2, <1>3 DEF Taking
<1>5. Claiming' /\ Publishing'
  BY <1>1 DEF Core, Claiming, Publishing
<1>6. Slots'
  BY <1>1 DEF Core, Slots, Holds
<1>7. QED
  BY <1>4, <1>5, <1>6 DEF Core
\* hid_fifo_consume: the slot of the read position is marked free, then the position
\* moves past it.
LEMMA ConsumeCore ==
  ASSUME Types, Core, Consume
  PROVE  Core'
<1>1. work.left > 0 /\ UNCHANGED <<wpos, prod, accepted>>
  BY DEF Consume
<1>2. rpos < wpos /\ rpos + work.left <= wpos
  BY <1>1, Numbers DEF Core, Taking
<1>3. rpos \in rpos..rpos + work.left - 1 /\ rpos \in rpos..rpos + Capacity - 1
  BY <1>1, Numbers
<1>4. CASE ~work.freed
  <2>1. /\ ring' = [ring EXCEPT ![Slot(rpos)].seq = rpos + Capacity] /\ rpos' = rpos
        /\ work'.freed /\ work'.left = work.left
    BY <1>4 DEF Consume, Types, WorkType
  <2>2. ring[Slot(rpos)].seq = rpos + 1
    BY <1>3, <1>4 DEF Core, Taking
  <2>3. ring'[Slot(rpos)].seq = rpos + Capacity
    <3>1. Slot(rpos) \in 0..Capacity - 1
      BY Numbers
    <3>2. QED
      BY <2>1, <3>1 DEF Types, RingType
  <2>4. ASSUME NEW t \in rpos..rpos + Capacity - 1, t # rpos
        PROVE  ring'[Slot(t)] = ring[Slot(t)]
    <3>1. Slot(t) # Slot(rpos)
      BY <1>3, <2>4, Numbers, SlotApart
    <3>2. Slot(t) \in 0..Capacity - 1
      BY Numbers
    <3>3. QED
      BY <2>1, <3>1, <3>2 DEF Types, RingType
  <2>5. wpos <= rpos + Capacity
    BY DEF Core, Slots
  <2>6. ASSUME NEW t \in rpos..wpos - 1, t # rpos
        PROVE  ring'[Slot(t)] = ring[Slot(t)]
    <3>1. t \in rpos..rpos + Capacity - 1
      BY <2>5, Numbers
    <3>2. QED
      BY <2>4, <2>6, <3>1
  <2>7. Claiming'
    BY <1>1, <2>1 DEF Core, Claiming
  <2>8. Publishing'
    <3>1. ASSUME NEW q \in Threads, prod[q].pc = "publish"
          PROVE  ring'[Slot(prod[q].pos)] = ring[Slot(prod[q].pos)]
      <4>1. prod[q].pos \in rpos..wpos - 1 /\ ring[Slot(prod[q].pos)].seq = prod[q].pos
        BY <3>1 DEF Core, Publishing
      <4>2. prod[q].pos # rpos
        BY <2>2, <4>1, Numbers
      <4>3. QED
        BY <2>6, <4>1, <4>2
    <3>2. QED
      BY <1>1, <2>1, <3>1 DEF Core, Publishing
  <2>9. Taking'
    <3>1. ASSUME NEW t \in rpos..rpos + work.left - 1
          PROVE  ring'[Slot(t)].seq = IF t = rpos THEN t + Capacity ELSE t + 1
      <4>1. t \in rpos..wpos - 1
        BY <1>2, Numbers
      <4>2. CASE t = rpos
        BY <2>3, <4>2
      <4>3. CASE t # rpos
        BY <1>4, <2>6, <3>1, <4>1, <4>3 DEF Core, Taking
      <4>4. QED
        BY <4>2, <4>3
    <3>2. QED
      BY <1>1, <1>2, <2>1, <3>1 DEF Taking
  <2>10. Slots'
    <3>1. ASSUME NEW t \in rpos..wpos - 1
          PROVE  Holds(t)'
      <4>1. CASE t = rpos
        BY <2>1, <2>3, <4>1 DEF Holds
      <4>2. CASE t # rpos
        <5>1. Holds(t)
          BY <3>1 DEF Core, Slots
        <5>2. QED
          BY <1>1, <1>4, <2>6, <3>1, <4>2, <5>1 DEF Holds
      <4>3. QED
        BY <4>1, <4>2
    <3>2. ASSUME NEW t \in wpos..rpos + Capacity - 1
          PROVE  ring'[Slot(t)].seq = t
      <4>1. t # rpos /\ t \in rpos..rpos + Capacity - 1
        BY <1>2, Numbers
      <4>2. QED
        BY <2>4, <3>2, <4>1 DEF Core, Slots
    <3>3. QED
      BY <1>1, <2>1, <2>5, <3>1, <3>2 DEF Slots
  <2>11. QED
    BY <2>7, <2>8, <2>9, <2>10 DEF Core
<1>5. CASE work.freed
  <2>1. rpos' = rpos + 1 /\ UNCHANGED ring /\ ~work'.freed /\ work'.left = work.left - 1
    BY <1>5 DEF Consume, Types, WorkType
  <2>2. ring[Slot(rpos)].seq = rpos + Capacity
    BY <1>3, <1>5 DEF Core, Taking
  <2>3. Claiming'
    <3>1. ASSUME NEW q \in Threads, prod[q].pc = "claim"
          PROVE  /\ prod[q].pos < rpos + 1 + Capacity
                 /\ ~prod[q].r.urgent => prod[q].pos < rpos + 1 + Capacity - Reserve
      <4>1. prod[q].pos < rpos + Capacity
        BY <3>1 DEF Core, Claiming
      <4>2. ~prod[q].r.urgent => prod[q].pos < rpos + Capacity - Reserve
        BY <3>1 DEF Core, Claiming
      <4>3. prod[q].pos < rpos + 1 + Capacity
        BY <4>1, Numbers
      <4>4. prod[q].pos < rpos + Capacity - Reserve => prod[q].pos < rpos + 1 + Capacity - Reserve
        BY Numbers, HidConstants
      <4>5. QED
        BY <4>2, <4>3, <4>4
    <3>2. QED
      BY <1>1, <2>1, <3>1 DEF Claiming
  <2>4. Publishing'
    <3>1. ASSUME NEW q \in Threads, prod[q].pc = "publish"
          PROVE  prod[q].pos \in rpos + 1..wpos - 1
      <4>1. prod[q].pos \in rpos..wpos - 1 /\ ring[Slot(prod[q].pos)].seq = prod[q].pos
        BY <3>1 DEF Core, Publishing
      <4>2. prod[q].pos # rpos
        <5>1. rpos + Capacity # rpos
          BY Numbers
        <5>2. QED
          BY <2>2, <4>1, <5>1
      <4>3. rpos \in Nat /\ wpos \in Nat
        BY Numbers
      <4>4. QED
        BY <4>1, <4>2, <4>3
    <3>2. QED
      BY <1>1, <2>1, <3>1 DEF Core, Publishing
  <2>5. Taking'
    <3>1. ASSUME NEW t \in rpos + 1..(rpos + 1) + (work.left - 1) - 1
          PROVE  ring[Slot(t)].seq = t + 1
      <4>1. t \in rpos..rpos + work.left - 1 /\ t # rpos
        BY <1>1, Numbers
      <4>2. QED
        BY <4>1 DEF Core, Taking
    <3>2. (rpos + 1) + (work.left - 1) <= wpos
      BY <1>2, Numbers
    <3>3. QED
      BY <1>1, <2>1, <3>1, <3>2 DEF Taking
  <2>6. Slots'
    <3>1. wpos <= rpos + 1 + Capacity
      BY Numbers DEF Core, Slots
    <3>2. ASSUME NEW t \in rpos + 1..wpos - 1
          PROVE  Holds(t)'
      <4>1. t \in rpos..wpos - 1 /\ t # rpos
        BY Numbers
      <4>2. Holds(t)
        BY <4>1 DEF Core, Slots
      <4>3. QED
        BY <1>1, <2>1, <4>1, <4>2 DEF Holds
    <3>3. ASSUME NEW t \in wpos..rpos + 1 + Capacity - 1
          PROVE  ring[Slot(t)].seq = t
      <4>1. CASE t = rpos + Capacity
        <5>1. Slot(t) = Slot(rpos)
          BY <4>1, Numbers, SlotNext
        <5>2. QED
          BY <2>2, <4>1, <5>1
      <4>2. CASE t # rpos + Capacity
        <5>1. t \in wpos..rpos + Capacity - 1
          BY <4>2, Numbers
        <5>2. QED
          BY <5>1 DEF Core, Slots
      <4>3. QED
        BY <4>1, <4>2
    <3>4. QED
      BY <1>1, <2>1, <3>1, <3>2, <3>3 DEF Slots
  <2>7. QED
    BY <2>3, <2>4, <2>5, <2>6 DEF Core
<1>6. QED
  BY <1>4, <1>5

----------------------------------------------------------------------------
(* The theorems *)

\* Init establishes the invariant: every slot waits for its first ticket.
LEMMA InitInvariant == Init => IInv
<1> SUFFICES ASSUME Init PROVE IInv
  OBVIOUS
<1>1. Types
  <2>1. Entered = {}
    BY DEF Init, Entered, Idle
  <2>2. Cardinality(Entered) = 0 /\ Cardinality(Threads) \in Nat
    BY <2>1, FS_EmptySet, HidConstants, FS_CardinalityType
  <2>3. ProdType
    BY IdleType DEF Init, ProdType
  <2>4. NoReport \in Report
    BY HidConstants DEF NoReport, Report
  <2>5. RingType
    <3>1. ring \in [0..Capacity - 1 -> [seq : Nat, r : Report]]
      BY <2>4, HidConstants DEF Init
    <3>2. accepted \in Seq(Report) /\ Len(accepted) = 0
      BY DEF Init
    <3>3. wpos \in Nat /\ rpos \in 0..wpos /\ wpos = 0
      BY DEF Init
    <3>4. 0 + Cardinality(Entered) <= MaxPush + Cardinality(Threads)
      BY <2>2, HidConstants
    <3>5. QED
      BY <3>1, <3>2, <3>3, <3>4 DEF RingType
  <2>6. UsbType
    <3>1. 0 \in 0..MaxUsb /\ 1 \in 1..2 * 0 + 1
      BY HidConstants
    <3>2. QED
      BY <3>1 DEF Init, UsbType
  <2>7. WorkType
    BY HidConstants DEF Init, WorkType
  <2>8. QED
    BY <2>3, <2>5, <2>6, <2>7 DEF Types
<1>2. Claiming /\ Publishing
  BY DEF Init, Idle, Claiming, Publishing
<1>3. Taking
  BY DEF Init, Taking
<1>4. Slots
  <2>1. ASSUME NEW t \in 0..Capacity - 1
        PROVE  Slot(t) = t
    <3>1. t = Capacity * 0 + t
      BY HidConstants
    <3>2. QED
      BY <3>1, RemainderUnique, HidConstants DEF Slot
  <2>2. QED
    BY <2>1, HidConstants DEF Init, Slots
<1>5. Flying
  BY DEF Init, Flying
<1>6. QED
  BY <1>1, <1>2, <1>3, <1>4, <1>5 DEF IInv

\* A transfer under way keeps the buffer.
LEMMA FlyingStep ==
  ASSUME UsbType, Flying, [Next]_vars
  PROVE  Flying'
<1>1. CASE Unconfigured
  BY <1>1 DEF Unconfigured, UsbType, Flying
<1>2. CASE Submit
  BY <1>2 DEF Submit, Up, UsbType, Flying
<1>3. CASE InterfaceDown
  BY <1>3 DEF InterfaceDown, UsbType, Flying
<1>4. CASE Polled \/ InterfaceUp \/ Configured
  BY <1>4 DEF Polled, InterfaceUp, Configured, UsbType, Flying
<1>5. CASE UNCHANGED usb
  BY <1>5 DEF Flying
<1>6. QED
  BY <1>1, <1>2, <1>3, <1>4, <1>5
  DEF Next, vars, Producer, Write, Check, Claim, Publish, Schedule, IsrWrite, Sender, SendNothing, Consume,
      SubmitFails, Heartbeat, Link

\* Every step keeps it.
LEMMA StepInvariant == IInv /\ [Next]_vars => IInv'
<1> SUFFICES ASSUME IInv, [Next]_vars PROVE IInv'
  OBVIOUS
<1>0. Types /\ Core /\ Taking
  BY DEF IInv, Core
<1>1. Flying'
  BY FlyingStep DEF IInv, Types
<1>2. Types'
  <2>1. CASE \E p \in Threads : Producer(p) \/ \E kind \in Kinds : Write(p, kind)
    BY <1>0, <2>1, ProducerTypes
  <2>2. QED
    BY <1>0, <2>1, OtherTypes DEF Next
<1>3. Core'
  <2>1. ASSUME NEW p \in Threads, Producer(p) \/ \E kind \in Kinds : Write(p, kind)
        PROVE  Core'
    BY <1>0, <2>1, WriteCore, CheckCore, ClaimCore, PublishCore, ScheduleCore DEF Producer
  <2>2. CASE \E kind \in IsrKinds : IsrWrite(kind)
    BY <1>0, <2>2, IsrWriteCore
  <2>3. CASE Submit \/ Consume
    BY <1>0, <2>3, SubmitCore, ConsumeCore
  <2>4. CASE SendNothing \/ SubmitFails \/ Heartbeat \/ Polled \/ Link \/ InterfaceDown \/ UNCHANGED vars
    <3>1. work'.left = work.left /\ work'.freed = work.freed
      BY <1>0, <2>4
      DEF SendNothing, SubmitFails, Heartbeat, Polled, Link, InterfaceUp, Configured, Unconfigured,
          InterfaceDown, vars, Scheduled, Types, WorkType
    <3>2. UNCHANGED <<ring, wpos, rpos, prod, accepted>>
      BY <2>4
      DEF SendNothing, SubmitFails, Heartbeat, Polled, Link, InterfaceUp, Configured, Unconfigured,
          InterfaceDown, vars
    <3>3. QED
      BY <1>0, <3>1, <3>2, CoreFrame
  <2>5. QED
    BY <2>1, <2>2, <2>3, <2>4 DEF Next, Sender
<1>4. QED
  BY <1>1, <1>2, <1>3 DEF IInv, Core

\* The invariant holds in every behaviour.
LEMMA Invariant == Spec => []IInv
BY InitInvariant, StepInvariant, PTL DEF Spec

\* The invariant gives RingSound.
LEMMA InvariantImplies == IInv => RingSound
<1> SUFFICES ASSUME IInv PROVE RingSound
  OBVIOUS
<1>0. Types /\ Slots /\ (usb.flying => usb.busy)
  BY DEF IInv, Flying
<1>1. TypeOK
  <2>1. Entered \in SUBSET Threads
    BY DEF Entered
  <2>2. Cardinality(Entered) \in Nat /\ Cardinality(Threads) \in Nat
    BY <2>1, ThreadsCount
  <2>3. wpos \in 0..MaxPush + Cardinality(Threads)
    BY <1>0, <2>2, HidConstants DEF Types, RingType
  <2>4. \A p \in Threads : prod[p].pc \in {"idle", "check", "claim", "publish", "schedule"}
    BY <1>0 DEF Types, ProdType
  <2>5. QED
    BY <1>0, <2>3, <2>4 DEF TypeOK, Types, RingType, WorkType
<1>2. QED
  BY <1>0, <1>1 DEF RingSound, Slots

\* The capacity check of hid_fifo_try_push is enough to own a slot, for every number
\* of threads and every size of the ring: between the two positions every slot holds,
\* or waits for, the report of its ticket, all others are free, and the buffer of a
\* transfer under way is not written.
THEOREM RingIsSound == Spec => []RingSound
BY Invariant, InvariantImplies, PTL
----------------------------------------------------------------------------
(* The refinement *)

\* The reports of s after the first h: how many there are, and which.
LEMMA Rest ==
  ASSUME NEW s \in Seq(Report), NEW h \in 0..Len(s)
  PROVE  /\ SubSeq(s, h + 1, Len(s)) \in Seq(Report)
         /\ Len(SubSeq(s, h + 1, Len(s))) = Len(s) - h
         /\ \A i \in 1..Len(s) - h : SubSeq(s, h + 1, Len(s))[i] = s[h + i]
<1>1. \A i \in h + 1..Len(s) : s[i] \in Report
  OBVIOUS
<1>2. SubSeq(s, h + 1, Len(s)) \in Seq(Report)
  BY <1>1
<1>3. Len(SubSeq(s, h + 1, Len(s))) = Len(s) - h
  OBVIOUS
<1>4. QED
  BY <1>2, <1>3

\* Accepting a report after taking h is taking h after accepting it.
LEMMA RestAppend ==
  ASSUME NEW s \in Seq(Report), NEW h \in 0..Len(s), NEW r \in Report
  PROVE  SubSeq(Append(s, r), h + 1, Len(s) + 1) = Append(SubSeq(s, h + 1, Len(s)), r)
<1> DEFINE a == Append(s, r)
           b == SubSeq(s, h + 1, Len(s))
<1>1. a \in Seq(Report) /\ Len(a) = Len(s) + 1 /\ h \in 0..Len(a) /\ Len(s) \in Nat
  BY Appended
<1>2. SubSeq(a, h + 1, Len(a)) \in Seq(Report) /\ Len(SubSeq(a, h + 1, Len(a))) = Len(a) - h
  <2> HIDE DEF a
  <2> QED BY <1>1, Rest
<1>3. b \in Seq(Report) /\ Len(b) = Len(s) - h
  BY Rest
<1>4. Append(b, r) \in Seq(Report) /\ Len(Append(b, r)) = Len(s) - h + 1
  <2> HIDE DEF b
  <2> QED BY <1>3, Appended
<1>5. ASSUME NEW i \in 1..Len(s) - h + 1
      PROVE  SubSeq(a, h + 1, Len(a))[i] = Append(b, r)[i]
  <2>1. SubSeq(a, h + 1, Len(a))[i] = a[h + i]
    <3>1. i \in 1..Len(a) - h
      BY <1>1
    <3> HIDE DEF a
    <3>2. QED
      BY <1>1, <3>1, Rest
  <2>2. CASE i = Len(s) - h + 1
    <3>1. Append(b, r)[i] = r
      <4> HIDE DEF b
      <4> QED BY <1>3, <2>2, Appended
    <3>2. a[h + i] = r
      <4>1. h + i = Len(s) + 1
        BY <1>1, <2>2
      <4>2. QED
        BY <4>1, Appended
    <3>3. QED
      BY <2>1, <3>1, <3>2
  <2>3. CASE i # Len(s) - h + 1
    <3>1. i \in 1..Len(s) - h /\ h + i \in 1..Len(s)
      BY <1>1, <2>3
    <3>2. Append(b, r)[i] = b[i]
      <4> HIDE DEF b
      <4> QED BY <1>3, <3>1, Appended
    <3>3. a[h + i] = s[h + i]
      BY <3>1, Appended
    <3>4. b[i] = s[h + i]
      BY <3>1, Rest
    <3>5. QED
      BY <2>1, <3>2, <3>3, <3>4
  <2>4. QED
    BY <2>2, <2>3
<1>6. Len(SubSeq(a, h + 1, Len(a))) = Len(Append(b, r)) /\ Len(Append(b, r)) = Len(s) - h + 1
  BY <1>1, <1>2, <1>4
<1> HIDE DEF b
<1>7. SubSeq(a, h + 1, Len(a)) = Append(b, r)
  <2> HIDE DEF a
  <2> QED BY <1>2, <1>4, <1>5, <1>6, SeqEqual
<1>8. QED
  BY <1>1, <1>7 DEF b

\* Taking n after h is taking h + n.
LEMMA RestRest ==
  ASSUME NEW s \in Seq(Report), NEW h \in 0..Len(s), NEW n \in 0..Len(s) - h
  PROVE  /\ SubSeq(SubSeq(s, h + 1, Len(s)), n + 1, Len(SubSeq(s, h + 1, Len(s))))
              = SubSeq(s, h + n + 1, Len(s))
         /\ SubSeq(SubSeq(s, h + 1, Len(s)), 1, n) = [i \in 1..n |-> s[h + i]]
<1> DEFINE b == SubSeq(s, h + 1, Len(s))
<1>0. Len(s) \in Nat
  OBVIOUS
<1>1. b \in Seq(Report) /\ Len(b) = Len(s) - h /\ \A i \in 1..Len(s) - h : b[i] = s[h + i]
  BY Rest
<1> HIDE DEF b
<1>2. n \in 0..Len(b) /\ h + n \in 0..Len(s)
  BY <1>0, <1>1
<1>3. /\ SubSeq(b, n + 1, Len(b)) \in Seq(Report) /\ Len(SubSeq(b, n + 1, Len(b))) = Len(b) - n
      /\ \A i \in 1..Len(b) - n : SubSeq(b, n + 1, Len(b))[i] = b[n + i]
  BY <1>1, <1>2, Rest
<1>4. /\ SubSeq(s, h + n + 1, Len(s)) \in Seq(Report)
      /\ Len(SubSeq(s, h + n + 1, Len(s))) = Len(s) - (h + n)
      /\ \A i \in 1..Len(s) - (h + n) : SubSeq(s, h + n + 1, Len(s))[i] = s[(h + n) + i]
  BY <1>2, Rest
<1>5. Len(b) - n = Len(s) - (h + n)
  BY <1>0, <1>1
<1>6. ASSUME NEW i \in 1..Len(s) - (h + n)
      PROVE  SubSeq(b, n + 1, Len(b))[i] = SubSeq(s, h + n + 1, Len(s))[i]
  <2>1. n + i \in 1..Len(s) - h /\ h + (n + i) = (h + n) + i
    BY <1>0
  <2>2. QED
    BY <1>1, <1>3, <1>4, <1>5, <2>1
<1>7. SubSeq(b, n + 1, Len(b)) = SubSeq(s, h + n + 1, Len(s))
  BY <1>3, <1>4, <1>5, <1>6, SeqEqual
<1>8. SubSeq(b, 1, n) = [i \in 1..n |-> s[h + i]]
  <2>1. /\ n \in Nat /\ \A i \in 1..n : b[i] = s[h + i]
    BY <1>0, <1>1
  <2>2. SubSeq(b, 1, n) = [i \in 1..n |-> b[i]]
    BY <1>1, <1>2
  <2>3. QED
    BY <2>1, <2>2
<1>9. QED
  BY <1>7, <1>8 DEF b

\* The two filters are one.
LEMMA SameFilter ==
  ASSUME NEW s, NEW t, s = t
  PROVE  SelectSeq(s, Valid) = SelectSeq(t, Queue!Current)
BY DEF Valid, Queue!Current

\* What is handed over lies between the positions.
LEMMA HandedType ==
  ASSUME IInv
  PROVE  /\ Types /\ Core /\ accepted \in Seq(Report) /\ wpos = Len(accepted) /\ wpos \in Nat
         /\ Handed \in 0..Len(accepted) /\ Handed >= rpos /\ rpos \in Nat
<1>1. Types /\ Core
  BY DEF IInv, Core
<1>2. rpos + work.left <= wpos
  BY <1>1 DEF Core, Taking
<1>3. accepted \in Seq(Report) /\ wpos = Len(accepted)
  BY <1>1 DEF Types, RingType
<1>4. wpos \in Nat /\ rpos \in Nat /\ work.left \in Nat
  BY <1>1, Numbers
<1>5. Handed \in 0..wpos /\ Handed >= rpos
  BY <1>2, <1>4 DEF Handed
<1>6. QED
  BY <1>1, <1>3, <1>4, <1>5

\* A step that accepts, hands over and renews nothing is a stuttering step of the queue.
LEMMA QueueFrame ==
  ASSUME Handed' = Handed, UNCHANGED <<accepted, sent, gen>>
  PROVE  UNCHANGED Queue!vars
BY DEF Queue!vars

\* A ticket is an acceptance.
LEMMA AcceptStep ==
  ASSUME IInv, NEW r \in Report, accepted' = Append(accepted, r), Handed' = Handed, UNCHANGED <<sent, gen>>,
         wpos < rpos + Capacity, ~r.urgent => wpos < rpos + Capacity - Reserve
  PROVE  Queue!Accept(r)
<1>1. /\ accepted \in Seq(Report) /\ wpos = Len(accepted) /\ wpos \in Nat
      /\ Handed \in 0..Len(accepted) /\ Handed >= rpos /\ rpos \in Nat
  BY HandedType
<1>2. Capacity \in Nat /\ Reserve \in Nat
  BY HidConstants
<1> HIDE DEF Handed
<1>3. Len(SubSeq(accepted, Handed + 1, Len(accepted))) = Len(accepted) - Handed
  BY <1>1, Rest
<1>5. Len(SubSeq(accepted, Handed + 1, Len(accepted))) < Capacity - (IF r.urgent THEN 0 ELSE Reserve)
  <2>1. CASE ~r.urgent
    <3>1. Len(accepted) - Handed < Capacity - Reserve
      BY <1>1, <1>2, <2>1
    <3>2. QED
      BY <1>3, <2>1, <3>1
  <2>2. CASE r.urgent
    <3>1. Len(accepted) - Handed < Capacity - 0
      BY <1>1, <1>2
    <3>2. QED
      BY <1>3, <2>2, <3>1
  <2>3. QED
    BY <2>1, <2>2
<1>6. Len(accepted') = Len(accepted) + 1
  BY <1>1, Appended
<1>7. SubSeq(accepted', Handed' + 1, Len(accepted')) = Append(SubSeq(accepted, Handed + 1, Len(accepted)), r)
  BY <1>1, <1>6, RestAppend
<1>8. QED
  BY <1>5, <1>7 DEF Queue!Accept

\* A batch is the first reports of the queue, those of ended subscriptions left out.
LEMMA SubmitStep ==
  ASSUME IInv, Submit
  PROVE  \E n \in 0..Queue!Smaller(Batch, Len(SubSeq(accepted, Handed + 1, Len(accepted)))) : Queue!Send(n)
<1>1. /\ Types /\ Core /\ accepted \in Seq(Report) /\ wpos = Len(accepted) /\ wpos \in Nat
      /\ Handed \in 0..Len(accepted) /\ rpos \in Nat
  BY HandedType
<1>2. Free /\ work.left = 0 /\ work.left \in Nat
  BY <1>1, Numbers DEF Submit, Free
<1>3. Handed = rpos
  BY <1>1, <1>2 DEF Handed
<1>4. Peeked \in 0..Batch /\ rpos + Peeked <= wpos
  BY <1>1, <1>2, PeekedType, PeekedAccepted
<1>5. ~work.freed
  BY <1>1, <1>2 DEF Core, Taking
<1>6. ASSUME NEW i \in 1..Peeked
      PROVE  ring[Slot(rpos + i - 1)].r = accepted[rpos + i]
  <2>1. i - 1 \in 0..Peeked - 1 /\ rpos + (i - 1) = rpos + i - 1 /\ rpos + (i - 1) + 1 = rpos + i
    BY <1>1, <1>4
  <2>2. ring[Slot(rpos + i - 1)].seq = rpos + i
    BY <2>1, PeekedType
  <2>3. rpos + i - 1 \in rpos..wpos - 1 /\ rpos + i - 1 + 1 = rpos + i /\ rpos + i # rpos + i - 1
    BY <1>1, <1>4
  <2>4. Holds(rpos + i - 1)
    BY <1>1, <2>3 DEF Core, Slots
  <2>5. QED
    BY <1>5, <2>2, <2>3, <2>4 DEF Holds
<1>7. work'.left = Peeked /\ rpos' = rpos /\ UNCHANGED <<accepted, gen>> /\ sent' = sent \o Batched(Peeked)
  BY <1>1 DEF Submit, Types, WorkType
<1> HIDE DEF Peeked
<1>8. Handed' = rpos + Peeked
  BY <1>7 DEF Handed
<1> HIDE DEF Handed
<1>9. Batch \in Nat /\ Peeked \in 0..Len(accepted) - rpos /\ rpos \in 0..Len(accepted)
  BY <1>1, <1>3, <1>4, HidConstants
<1> DEFINE q == SubSeq(accepted, rpos + 1, Len(accepted))
<1>10. Len(q) = Len(accepted) - rpos
  BY <1>1, <1>9, Rest
<1>11. /\ SubSeq(q, Peeked + 1, Len(q)) = SubSeq(accepted, rpos + Peeked + 1, Len(accepted))
       /\ SubSeq(q, 1, Peeked) = [i \in 1..Peeked |-> accepted[rpos + i]]
  BY <1>1, <1>9, RestRest
<1>12. Batched(Peeked) = SelectSeq(SubSeq(q, 1, Peeked), Queue!Current)
  <2>1. [i \in 1..Peeked |-> ring[Slot(rpos + i - 1)].r] = SubSeq(q, 1, Peeked)
    BY <1>6, <1>11
  <2> HIDE DEF q
  <2>2. QED
    BY <2>1, SameFilter DEF Batched
<1>13. Peeked \in 0..Queue!Smaller(Batch, Len(q))
  <2> HIDE DEF q
  <2> QED BY <1>4, <1>9, <1>10, <1>1 DEF Queue!Smaller
<1>14. Queue!Send(Peeked)
  BY <1>3, <1>7, <1>8, <1>11, <1>12 DEF Queue!Send
<1>15. QED
  BY <1>3, <1>13, <1>14

\* Every step of the ring is a step of the queue, or none.
LEMMA QueueStep == IInv /\ [Next]_vars => [Queue!Next]_Queue!vars
<1> SUFFICES ASSUME IInv, [Next]_vars PROVE [Queue!Next]_Queue!vars
  OBVIOUS
<1>0. Types /\ Core
  BY HandedType
<1>1. ASSUME NEW p \in Threads, Claim(p), Claimable(p)
      PROVE  Queue!Next
  <2>1. prod[p].r \in Report /\ prod[p].pos = wpos /\ prod[p].pc = "claim"
    BY <1>0, <1>1, Numbers DEF Claim, Claimable
  <2>2. wpos < rpos + Capacity /\ (~prod[p].r.urgent => wpos < rpos + Capacity - Reserve)
    BY <1>0, <2>1 DEF Core, Claiming
  <2>3. accepted' = Append(accepted, prod[p].r) /\ Handed' = Handed /\ UNCHANGED <<sent, gen>>
    BY <1>1 DEF Claim, Handed
  <2>4. Queue!Accept(prod[p].r)
    BY <2>1, <2>2, <2>3, AcceptStep
  <2>5. QED
    BY <2>1, <2>4 DEF Queue!Next
<1>2. ASSUME NEW kind, IsrWrite(kind), ~Full(Written(Isr, kind), wpos, rpos)
      PROVE  Queue!Next
  <2> DEFINE r == Written(Isr, kind)
  <2>1. r \in Report
    BY <1>0, WrittenType DEF Types
  <2>2. accepted' = Append(accepted, r) /\ Handed' = Handed /\ UNCHANGED <<sent, gen>>
    <3>1. work'.left = work.left
      BY <1>0, <1>2 DEF IsrWrite, Scheduled, Types, WorkType
    <3>2. QED
      BY <1>2, <3>1 DEF IsrWrite, Handed
  <2>3. ~(wpos - rpos >= Capacity) /\ (~r.urgent => ~(Capacity - (wpos - rpos) <= Reserve))
    BY <1>2 DEF Full
  <2> HIDE DEF r
  <2>4. wpos < rpos + Capacity
    BY <1>0, <2>3, Numbers
  <2>5. ~(Capacity - (wpos - rpos) <= Reserve) => wpos < rpos + Capacity - Reserve
    BY <1>0, Numbers, HidConstants
  <2>6. Queue!Accept(r)
    BY <2>1, <2>2, <2>3, <2>4, <2>5, AcceptStep
  <2>7. QED
    BY <2>1, <2>6 DEF Queue!Next
<1>3. CASE Submit
  BY <1>3, SubmitStep DEF Queue!Next
<1>4. CASE InterfaceDown \/ Unconfigured
  <2>1. gen' = gen + 1 /\ UNCHANGED <<accepted, sent>> /\ Handed' = Handed
    BY <1>4 DEF InterfaceDown, Unconfigured, Handed
  <2>2. Queue!Renew
    BY <2>1 DEF Queue!Renew
  <2>3. QED
    BY <2>2 DEF Queue!Next
<1>5. CASE Consume
  <2>1. Handed' = Handed
    <3>1. CASE ~work.freed
      <4>1. rpos' = rpos /\ work'.left = work.left
        BY <1>0, <1>5, <3>1 DEF Consume, Types, WorkType
      <4>2. QED
        BY <4>1 DEF Handed
    <3>2. CASE work.freed
      <4>1. rpos' = rpos + 1 /\ work'.left = work.left - 1
        BY <1>0, <1>5, <3>2 DEF Consume, Types, WorkType
      <4>2. rpos + 1 + (work.left - 1) = rpos + work.left
        <5>1. rpos \in Nat /\ work.left \in Nat
          BY <1>0, Numbers
        <5>2. QED
          BY <5>1
      <4>3. QED
        BY <4>1, <4>2 DEF Handed
    <3>3. QED
      BY <3>1, <3>2
  <2>2. QED
    BY <1>5, <2>1, QueueFrame DEF Consume
<1>6. ASSUME NEW p \in Threads, NEW kind, Write(p, kind)
      PROVE  UNCHANGED Queue!vars
  <2>1. Handed' = Handed
    BY <1>6 DEF Write, Handed
  <2>2. QED
    BY <1>6, <2>1, QueueFrame DEF Write
<1>7. ASSUME NEW p \in Threads, Check(p) \/ Publish(p) \/ Schedule(p) \/ (Claim(p) /\ ~Claimable(p))
      PROVE  UNCHANGED Queue!vars
  <2>1. rpos' = rpos /\ work'.left = work.left /\ UNCHANGED <<accepted, sent, gen>>
    BY <1>0, <1>7 DEF Check, Publish, Schedule, Claim, Scheduled, Types, WorkType
  <2>2. QED
    BY <2>1, QueueFrame DEF Handed
<1>8. ASSUME NEW kind, IsrWrite(kind), Full(Written(Isr, kind), wpos, rpos)
      PROVE  UNCHANGED Queue!vars
  BY <1>8, QueueFrame DEF IsrWrite, Handed
<1>9. CASE \/ SendNothing \/ SubmitFails \/ Heartbeat \/ Polled \/ InterfaceUp \/ Configured
           \/ UNCHANGED vars
  <2>1. rpos' = rpos /\ work'.left = work.left /\ UNCHANGED <<accepted, sent, gen>>
    BY <1>0, <1>9
    DEF SendNothing, SubmitFails, Heartbeat, Polled, InterfaceUp, Configured, vars, Scheduled, Types,
        WorkType
  <2>2. QED
    BY <2>1, QueueFrame DEF Handed
<1>10. ASSUME NEW p \in Threads, Producer(p) \/ \E kind \in Kinds : Write(p, kind)
       PROVE  Queue!Next \/ UNCHANGED Queue!vars
  BY <1>1, <1>6, <1>7, <1>10, Zenon DEF Producer
<1>11. ASSUME NEW kind \in IsrKinds, IsrWrite(kind)
       PROVE  Queue!Next \/ UNCHANGED Queue!vars
  BY <1>2, <1>8, <1>11, Zenon
<1>12. QED
  BY <1>3, <1>4, <1>5, <1>9, <1>10, <1>11, Zenon DEF Next, Sender, Link

\* The queue is empty at first.
LEMMA QueueInit == Init => Queue!Init
<1> SUFFICES ASSUME Init PROVE Queue!Init
  OBVIOUS
<1>1. accepted = <<>> /\ Len(accepted) = 0 /\ sent = <<>> /\ gen = 1 /\ Handed = 0
  BY DEF Init, Handed
<1>2. SubSeq(accepted, Handed + 1, Len(accepted)) = <<>>
  BY <1>1, SubSeqEmpty
<1>3. QED
  BY <1>1, <1>2 DEF Queue!Init

\* hid.c implements the queue that hid.h promises, for every number of threads and
\* every size of the ring, of its reserve and of a batch: each accepted report is
\* handed to the endpoint once and in the order of the tickets, and the places kept
\* for urgent reports are kept.
THEOREM RingImplementsQueue == Spec => ImplementsQueue
<1>1. Init => Queue!Init
  BY QueueInit
<1>2. IInv /\ [Next]_vars => [Queue!Next]_Queue!vars
  BY QueueStep
<1>3. QED
  BY <1>1, <1>2, Invariant, PTL DEF Spec, ImplementsQueue, Queue!Spec
=============================================================================
