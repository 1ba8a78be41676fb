--------------------------- MODULE ReceiverOtaProofs ---------------------------
(***************************************************************************)
(* Proofs about ReceiverOta for every set of images, every size of a page, *)
(* of a report and of the partition: every page buffer has one owner, a    *)
(* transfer without errors arrives whole, and only a verified image is     *)
(* installed.                                                              *)
(***************************************************************************)
EXTENDS ReceiverOta, FiniteSetTheorems, TLAPS

----------------------------------------------------------------------------
(* The inductive invariant *)

Live == {"ready", "receiving", "verifying", "activate_pending", "activating"}
Filling == rcv_ota.state \in {"ready", "receiving"}
InQ(c) == \E i \in 1..Len(queue) : queue[i] = c
Pending(c) == InQ(c) \/ pcW = c

\* A session is at work only with a writer, or while BEGIN replaces it; the USB
\* thread waits only for a writer that was told to stop, and copies only for one
\* that was not.  Nothing is in place before the copier starts.
Life ==
  /\ ~created => pcW = "exit" /\ ~stop
  /\ created \/ pcH = "begin" => boot # "acl"
  /\ created /\ pcH \in {"begin", "abort"} => stop
  /\ rcv_ota.state \in Live => created \/ pcH = "begin"
  /\ pcH = "copy" => created /\ ~stop /\ rcv_ota.state = "receiving"
  /\ pcW \notin {"copy", "off"} => copied = 0
  /\ pcW # "off" => settings = "old"
  /\ pcW = "copy" => boot # "mcuboot"

\* What the writer has still to do says how far the session is.
Stage ==
  created =>
    /\ Filling => rcv_ota.err = "none"
    /\ Pending(Verify) => rcv_ota.state = "verifying" /\ rcv_ota.err = "none"
    /\ Pending(Activate) => rcv_ota.state = "activate_pending" /\ rcv_ota.err = "verify_ok"
    /\ pcW \in {"activating", "copy"} => rcv_ota.state = "activating" /\ rcv_ota.err = "verify_ok"
    /\ InQ(Shutdown) => stop

\* No page and no command is pending twice.
Once ==
  /\ \A i, j \in 1..Len(queue) : queue[i] = queue[j] /\ queue[i] # Shutdown => i = j
  /\ ~InQ(pcW)

\* SlotOwnership without counting.
Owned ==
  \A s \in Slot :
    /\ sems[s] => ~Pending(s) /\ ~ProducerOwns(s)
    /\ Pending(s) => ~ProducerOwns(s)
    /\ WriterAlive /\ ~stop => sems[s] \/ Pending(s) \/ ProducerOwns(s)

\* No page is written after the image was checked.
Last ==
  /\ \A i, j \in 1..Len(queue) : i < j /\ queue[i] = Verify => queue[j] \notin Slot
  /\ pcW = Verify \/ rcv_ota.err = "verify_ok" => \A i \in 1..Len(queue) : queue[i] \notin Slot
  /\ rcv_ota.err = "verify_ok" => pcW \notin Slot

\* Staging lies in the partition, above the running firmware and above the place
\* where the copier puts the image.
Placed ==
  /\ boot = "mcuboot" => appLen <= SlotPages * PageLen
  /\ created =>
       /\ rcv_ota.img \in Images /\ rcv_ota.size = ImageLen[rcv_ota.img] /\ rcv_ota.size > 0
       /\ rcv_ota.staging + PagesFor(rcv_ota.size) <= FlashEnd
       /\ RunBase * PageLen + appLen <= rcv_ota.staging * PageLen
       /\ boot # "mcuboot" => rcv_ota.target + PagesFor(rcv_ota.size) <= rcv_ota.staging

\* Units of the image that were handed to the writer, and those before the next.
Handed == (rcv_ota.page - rcv_ota.staging) * PageLen
Filled == Handed + rcv_ota.off

\* Pages, units and reports are counted alike.
Counted ==
  created =>
    /\ rcv_ota.staging <= rcv_ota.page
    /\ Filling => rcv_ota.off < PageLen
    /\ Filling /\ pcH # "copy" =>
         Filled = rcv_ota.bytes /\ rcv_ota.bytes = Smaller(rcv_ota.next * ChunkLen, rcv_ota.size)
    /\ pcH = "copy" =>
         /\ rest # <<>> /\ rcv_ota.bytes = rcv_ota.next * ChunkLen /\ rcv_ota.bytes < rcv_ota.size
         /\ Filled + Len(rest) = Smaller(rcv_ota.bytes + ChunkLen, rcv_ota.size)
    /\ Pending(Verify) => Handed >= rcv_ota.size

\* Pages go to staging.
Aimed == created => \A s \in Slot : Pending(s) => slots[s].addr >= rcv_ota.staging

\* Unit k of the page p of staging, if it belongs to the image.
Part(p, k) == <<rcv_ota.img, (p - rcv_ota.staging) * PageLen + k>>
Inside(p) == {k \in 0..(PageLen - 1) : (p - rcv_ota.staging) * PageLen + k < rcv_ota.size}
Written(p) == \A k \in Inside(p) : flash[p][k] = Part(p, k)
GoodSlot(s) == \A k \in Inside(slots[s].addr) : k < slots[s].len /\ slots[s].data[k] = Part(slots[s].addr, k)

\* The transfer goes well: no flash error, no stop, no unit of another image.
Sending ==
  created /\ ~werr /\ ~stop /\ ~rcv_ota.mixed /\ rcv_ota.state \in {"ready", "receiving", "verifying"}

\* No page is lost: the units of the report, of the page that is filled, of the
\* pages that wait for the writer and of those in flash are the image.
Kept ==
  /\ \A s \in Slot : Pending(s) => GoodSlot(s)
  /\ \A p \in rcv_ota.staging..(rcv_ota.page - 1) : Written(p) \/ \E s \in Slot : Pending(s) /\ slots[s].addr = p
  /\ Filling => \A k \in 0..(rcv_ota.off - 1) : slots[rcv_ota.slot].data[k] = Part(rcv_ota.page, k)
  /\ pcH = "copy" => \A n \in 1..Len(rest) : rest[n] = <<rcv_ota.img, Filled + n - 1>>
Whole == Sending => Kept

\* The running firmware is untouched until the copier starts.
RunSafe == pcW \notin {"copy", "off"} => \A n \in 0..(appLen - 1) : At(flash, RunBase, n) = Run

\* What was verified stays in staging.
Verified == rcv_ota.err = "verify_ok" => Holds(flash, rcv_ota.staging, rcv_ota.size, rcv_ota.img)

\* The copier has put the first pages of the image in place.
Installing ==
  pcW = "copy" =>
    /\ copied <= PagesFor(rcv_ota.size)
    /\ \A n \in 0..(rcv_ota.size - 1) : n \div PageLen < copied => At(flash, rcv_ota.target, n) = <<rcv_ota.img, n>>

\* The boot loader is told of an image that is there.
Settled ==
  settings # "old" =>
    Holds(flash, IF boot = "mcuboot" THEN rcv_ota.staging ELSE rcv_ota.target, rcv_ota.size, settings)

Control == TypeOK /\ Life /\ Stage /\ Once /\ Owned /\ Last /\ Placed /\ Counted
Installs == Aimed /\ RunSafe /\ Verified /\ Installing /\ Settled

----------------------------------------------------------------------------
(* Arithmetic of pages *)

\* The lengths are numbers, and two slots fit into the partition.
LEMMA Lengths ==
  /\ PageLen \in Nat /\ PageLen > 0 /\ ChunkLen \in Nat /\ ChunkLen > 0
  /\ RunBase \in Nat /\ FlashEnd \in Nat /\ FlashEnd > 0 /\ SlotPages \in Nat
  /\ RunBase + SlotPages <= FlashEnd - SlotPages
<1>1. FlashEnd - RunBase \in Nat
  BY OtaConstants
<1>2. (FlashEnd - RunBase) \div 2 \in Nat /\ 2 * ((FlashEnd - RunBase) \div 2) <= FlashEnd - RunBase
  BY <1>1
<1>3. QED
  BY <1>2, OtaConstants DEF SlotPages

\* Multiples of a page are ordered as the pages are.
LEMMA PageOrder ==
  ASSUME NEW a \in Int, NEW b \in Int
  PROVE  (a * PageLen < b * PageLen) <=> (a < b)
<1>1. CASE a < b
  <2>1. PICK d \in Nat : b = a + d + 1
    <3>1. b - a - 1 \in Nat /\ b = a + (b - a - 1) + 1
      BY <1>1
    <3>2. QED
      BY <3>1
  <2>2. b * PageLen = a * PageLen + d * PageLen + PageLen /\ d * PageLen >= 0
    BY <2>1, Lengths
  <2>3. QED
    BY <1>1, <2>2, Lengths
<1>2. CASE ~(a < b)
  <2>1. PICK d \in Nat : a = b + d
    BY <1>2
  <2>2. a * PageLen = b * PageLen + d * PageLen /\ d * PageLen >= 0
    BY <2>1, Lengths
  <2>3. QED
    BY <1>2, <2>2, Lengths
<1>3. QED
  BY <1>1, <1>2

\* Every unit has a page and a place in it.
LEMMA Places ==
  ASSUME NEW n \in Nat
  PROVE  \E i \in Nat, k \in 0..(PageLen - 1) :
           n = i * PageLen + k /\ i = n \div PageLen /\ k = n % PageLen
<1>0. PageLen \in Nat /\ PageLen > 0
  BY Lengths
<1>1. PICK i \in Nat : \E k \in 0..(PageLen - 1) : n = PageLen * i + k /\ k = n % PageLen /\ i = n \div PageLen
  BY <1>0
<1>2. PageLen * i = i * PageLen
  BY <1>0
<1>3. QED
  BY <1>1, <1>2

\* The pages of an image hold its units and no page more.
LEMMA PagesOf ==
  ASSUME NEW len \in Nat
  PROVE  /\ PagesFor(len) \in Nat /\ len <= PagesFor(len) * PageLen
         /\ \A i \in Int : (i < PagesFor(len)) <=> (i * PageLen < len)
<1> DEFINE n == len + PageLen - 1
           q == n \div PageLen
<1>1. n \in Nat /\ PagesFor(len) = q /\ n = len + PageLen - 1
  BY Lengths DEF PagesFor
<1> HIDE DEF n
<1>2. q \in Nat /\ \E k \in 0..(PageLen - 1) : n = q * PageLen + k
  BY <1>1, Places
<1> HIDE DEF q
<1>3. len <= q * PageLen /\ q * PageLen < len + PageLen
  BY <1>1, <1>2, Lengths
<1>4. ASSUME NEW i \in Int
      PROVE  (i < q) <=> (i * PageLen < len)
  <2>1. (i < q) <=> (i * PageLen < q * PageLen)
    BY <1>2, PageOrder
  <2>2. (i + 1) * PageLen = i * PageLen + PageLen
    BY Lengths
  <2>3. (q < i + 1) <=> (q * PageLen < (i + 1) * PageLen)
    BY <1>2, PageOrder
  <2>4. i * PageLen \in Int /\ q * PageLen \in Int
    BY <1>2, Lengths
  <2>5. QED
    BY <1>2, <1>3, <2>1, <2>2, <2>3, <2>4, Lengths
<1>5. QED
  BY <1>1, <1>2, <1>3, <1>4

----------------------------------------------------------------------------
(* The message queue *)

Commands == Slot \cup {Shutdown, Verify, Activate}

\* k_msgq_put, at the end ...
LEMMA QueueGrows ==
  ASSUME queue \in Seq(Commands), NEW c \in Commands, queue' = Append(queue, c)
  PROVE  /\ queue' \in Seq(Commands) /\ Len(queue') = Len(queue) + 1
         /\ \A i \in 1..Len(queue) : queue'[i] = queue[i]
         /\ queue'[Len(queue) + 1] = c
         /\ \A d : InQ(d)' <=> (InQ(d) \/ d = c)
<1>1. /\ queue' \in Seq(Commands) /\ Len(queue') = Len(queue) + 1 /\ Len(queue) \in Nat
      /\ \A i \in 1..Len(queue) : queue'[i] = queue[i]
      /\ queue'[Len(queue) + 1] = c
  OBVIOUS
<1>2. QED
  BY <1>1 DEF InQ

\* ... and k_msgq_get, at the front.
LEMMA QueueShrinks ==
  ASSUME queue \in Seq(Commands), queue # <<>>, queue' = Tail(queue)
  PROVE  /\ queue' \in Seq(Commands) /\ Len(queue') = Len(queue) - 1 /\ Len(queue) > 0
         /\ \A i \in 1..Len(queue') : queue'[i] = queue[i + 1]
         /\ Head(queue) = queue[1] /\ Head(queue) \in Commands
         /\ \A d : InQ(d) <=> (InQ(d)' \/ d = Head(queue))
<1>1. /\ queue' \in Seq(Commands) /\ Len(queue') = Len(queue) - 1 /\ Len(queue) \in Nat /\ Len(queue) > 0
      /\ \A i \in 1..Len(queue') : queue'[i] = queue[i + 1]
      /\ Head(queue) = queue[1] /\ Head(queue) \in Commands
  OBVIOUS
<1>2. ASSUME NEW i \in 1..Len(queue), i # 1
      PROVE  i - 1 \in 1..Len(queue') /\ queue'[i - 1] = queue[i]
  <2>1. i - 1 \in 1..Len(queue') /\ (i - 1) + 1 = i
    BY <1>1, <1>2
  <2>2. QED
    BY <1>1, <2>1
<1>3. ASSUME NEW i \in 1..Len(queue')
      PROVE  i + 1 \in 1..Len(queue) /\ queue[i + 1] = queue'[i]
  BY <1>1
<1>4. 1 \in 1..Len(queue)
  BY <1>1
<1>5. QED
  BY <1>1, <1>2, <1>3, <1>4 DEF InQ

\* What may be in the queue.
LEMMA QueueHolds ==
  ASSUME TypeOK
  PROVE  /\ queue \in Seq(Commands) /\ Len(queue) \in Nat
         /\ \A i \in 1..Len(queue) : queue[i] \in Commands
         /\ \A c : InQ(c) => c \in Commands
<1>1. queue \in Seq(Commands)
  BY DEF TypeOK, Commands
<1>2. Len(queue) \in Nat /\ \A i \in 1..Len(queue) : queue[i] \in Commands
  BY <1>1
<1>3. QED
  BY <1>1, <1>2 DEF InQ

\* The writer is at work on something else than a command, or on none.
LEMMA NotACommand ==
  Commands \cap {"loop", "wait", "exit", "activating", "copy", "off"} = {}
BY DEF Commands, Slot, Shutdown, Verify, Activate

\* Nothing but Shutdown was put into the queue.
Extended ==
  /\ queue' \in Seq(Commands) /\ Len(queue') \in Nat /\ Len(queue) <= Len(queue') /\ Len(queue') <= QueueLen
  /\ \A i \in 1..Len(queue) : queue'[i] = queue[i]
  /\ \A i \in 1..Len(queue') : i > Len(queue) => queue'[i] = Shutdown
  /\ \A d : d # Shutdown => (InQ(d)' <=> InQ(d))

\* rcv_ota_stop_writer, when there is a writer.
LEMMA StopAsked ==
  ASSUME TypeOK, IF created THEN RequestStop ELSE UNCHANGED <<stop, queue>>
  PROVE  Extended /\ (stop' <=> created \/ stop)
<1>0. queue \in Seq(Commands) /\ Len(queue) \in Nat /\ Len(queue) <= QueueLen /\ QueueLen = 4 /\ stop \in BOOLEAN
  BY QueueHolds DEF TypeOK, QueueLen
<1>1. CASE created /\ Len(queue) < QueueLen
  <2>1. queue' = Append(queue, Shutdown) /\ Shutdown \in Commands
    BY <1>1 DEF RequestStop, Put, Commands
  <2>2. Extended
    BY <1>0, <1>1, <2>1, QueueGrows DEF Extended
  <2>3. QED
    BY <1>1, <2>2 DEF RequestStop
<1>2. CASE ~(created /\ Len(queue) < QueueLen)
  <2>1. queue' = queue
    BY <1>2 DEF RequestStop, Put
  <2>2. Extended
    BY <1>0, <2>1 DEF Extended, InQ
  <2>3. QED
    BY <1>2, <2>2 DEF RequestStop
<1>3. QED
  BY <1>1, <1>2

----------------------------------------------------------------------------
(* Types of the session and of a page *)

\* memset of rcv_ota.
LEMMA IdleType == Idle \in Session
BY Lengths DEF Idle, Session, Slot

\* An error keeps the session and the page in hand.
LEMMA FailedType ==
  ASSUME rcv_ota \in Session, NEW e \in {"error", "size", "board", "flash", "seq", "verify"}
  PROVE  /\ Failed(e) \in Session /\ Failed(e).state = "error" /\ Failed(e).err = e
         /\ Failed(e).off = rcv_ota.off /\ Failed(e).slot = rcv_ota.slot
BY DEF Failed, Session

\* An erased page.
LEMMA BlankType == Blank \in PageData
BY DEF Blank, Unit, PageData

\* The validation of BEGIN leaves room: staging lies above what runs and above what
\* the copier will write.
LEMMA Staged ==
  ASSUME appLen \in AppLens, boot = "mcuboot" => appLen <= SlotPages * PageLen,
         NEW len \in Nat, NEW base \in 0..FlashEnd, Valid(len, base),
         NEW target \in Nat, boot # "mcuboot" => target <= RunBase
  PROVE  /\ len > 0 /\ StagingBase(len) \in 0..FlashEnd
         /\ StagingBase(len) + PagesFor(len) <= FlashEnd
         /\ RunBase * PageLen + appLen <= StagingBase(len) * PageLen
         /\ boot # "mcuboot" => target + PagesFor(len) <= StagingBase(len)
<1> DEFINE pages == PagesFor(len)
           at == StagingBase(len)
<1>0. /\ pages \in Nat /\ \A i \in Int : (i < pages) <=> (i * PageLen < len)
      /\ appLen \in Nat /\ len > 0
  BY PagesOf, OtaConstants, Lengths DEF Valid
<1>1. CASE boot = "mcuboot"
  <2>1. at = FlashEnd - SlotPages /\ len <= SlotPages * PageLen
    BY <1>1 DEF StagingBase, Valid
  <2>2. pages <= SlotPages
    BY <1>0, <2>1, Lengths
  <2>3. (RunBase + SlotPages) * PageLen = RunBase * PageLen + SlotPages * PageLen
    BY Lengths
  <2>4. ~(at * PageLen < (RunBase + SlotPages) * PageLen)
    BY <2>1, Lengths, PageOrder
  <2>5. QED
    BY <1>0, <1>1, <2>1, <2>2, <2>3, <2>4, Lengths
<1>2. CASE boot # "mcuboot"
  <2>1. at = FlashEnd - pages /\ ~(at * PageLen < RunBase * PageLen + Larger(len, appLen))
    BY <1>2 DEF StagingBase, Valid, Overlaps
  <2>2. /\ at \in Int /\ at * PageLen \in Int /\ RunBase * PageLen \in Nat
        /\ at * PageLen >= RunBase * PageLen + len /\ at * PageLen >= RunBase * PageLen + appLen
    BY <1>0, <2>1, Lengths DEF Larger
  <2>3. ~(RunBase * PageLen < target * PageLen)
    BY <1>2, Lengths, PageOrder
  <2>4. (at - target) * PageLen = at * PageLen - target * PageLen /\ at - target \in Int
    BY <2>2, Lengths
  <2>5. ~(at - target < pages)
    BY <1>0, <2>2, <2>3, <2>4, Lengths
  <2>6. QED
    BY <1>0, <1>2, <2>1, <2>2, <2>5, Lengths
<1>3. QED
  BY <1>1, <1>2

----------------------------------------------------------------------------
(* Flushing a page *)

\* While a page is filled only pages are pending, each once: the queue has room.
LEMMA Room ==
  ASSUME Control, created, ~stop, Filling
  PROVE  /\ \A i \in 1..Len(queue) : queue[i] \in Slot
         /\ ~Pending(Verify) /\ ~Pending(Activate) /\ Len(queue) \in Nat /\ Len(queue) <= 2
         /\ \A s \in Slot : ~InQ(s) => Len(queue) <= 1
<1>1. ~Pending(Verify) /\ ~Pending(Activate) /\ ~InQ(Shutdown)
  BY DEF Control, Stage, Filling
<1>2. /\ Len(queue) \in Nat /\ \A i \in 1..Len(queue) : queue[i] \in Slot
  BY <1>1, QueueHolds DEF Control, Pending, InQ, Commands
<1>3. \A i, j \in 1..Len(queue) : queue[i] = queue[j] => i = j
  BY <1>2 DEF Control, Once, Slot, Shutdown
<1>4. Len(queue) <= 2
  <2>1. SUFFICES ASSUME Len(queue) > 2
                 PROVE  FALSE
    BY <1>2
  <2>2. 1 \in 1..Len(queue) /\ 2 \in 1..Len(queue) /\ 3 \in 1..Len(queue)
    BY <1>2, <2>1
  <2>3. queue[1] # queue[2] /\ queue[2] # queue[3] /\ queue[1] # queue[3]
    BY <1>3, <2>2
  <2>4. QED
    BY <1>2, <2>2, <2>3 DEF Slot
<1>5. ASSUME NEW s \in Slot, ~InQ(s), Len(queue) > 1
      PROVE  FALSE
  <2>1. 1 \in 1..Len(queue) /\ 2 \in 1..Len(queue)
    BY <1>2, <1>5
  <2>2. queue[1] # queue[2]
    BY <1>3, <2>1
  <2>3. QED
    BY <1>2, <1>5, <2>1, <2>2 DEF Slot, InQ
<1>6. QED
  BY <1>1, <1>2, <1>4, <1>5

\* A page that still has units of the image is a page of the partition.
LEMMA PageFits ==
  ASSUME Control, created, Handed < rcv_ota.size
  PROVE  /\ rcv_ota.page \in Page /\ rcv_ota.page + 1 \in 0..FlashEnd
         /\ Handed \in Nat /\ (rcv_ota.page + 1 - rcv_ota.staging) * PageLen = Handed + PageLen
<1>1. /\ rcv_ota.page \in Nat /\ rcv_ota.staging \in Nat /\ rcv_ota.size \in Nat /\ rcv_ota.staging <= rcv_ota.page
      /\ rcv_ota.staging + PagesFor(rcv_ota.size) <= FlashEnd
  BY Lengths DEF Control, TypeOK, Session, Counted, Placed
<1>2. rcv_ota.page - rcv_ota.staging < PagesFor(rcv_ota.size) /\ PagesFor(rcv_ota.size) \in Nat
  BY <1>1, PagesOf DEF Handed
<1>3. Handed \in Nat /\ (rcv_ota.page + 1 - rcv_ota.staging) * PageLen = Handed + PageLen
  BY <1>1, Lengths DEF Handed
<1>4. QED
  BY <1>1, <1>2, <1>3, Lengths DEF Page

\* What a flush leaves in the buffers.
LEMMA PagedOutType ==
  ASSUME NEW b \in [Slot -> [data : PageData, addr : Page, len : 0..PageLen]],
         NEW s, s.slot \in Slot, s.page \in Page, s.off \in 0..PageLen
  PROVE  /\ PagedOut(b, s) \in [Slot -> [data : PageData, addr : Page, len : 0..PageLen]]
         /\ PagedOut(b, s)[s.slot].addr = s.page /\ PagedOut(b, s)[s.slot].len = s.off
         /\ \A k \in 0..(PageLen - 1) : k < s.off => PagedOut(b, s)[s.slot].data[k] = b[s.slot].data[k]
         /\ \A t \in Slot : t # s.slot => PagedOut(b, s)[t] = b[t]
<1> DEFINE d == [k \in 0..(PageLen - 1) |-> IF k < s.off THEN b[s.slot].data[k] ELSE Erased]
           r == [data |-> d, addr |-> s.page, len |-> s.off]
<1>1. PagedOut(b, s) = [b EXCEPT ![s.slot] = r]
  BY DEF PagedOut
<1>2. d \in PageData /\ \A k \in 0..(PageLen - 1) : k < s.off => d[k] = b[s.slot].data[k]
  BY DEF PageData, Unit
<1> HIDE DEF d
<1>3. r \in [data : PageData, addr : Page, len : 0..PageLen] /\ r.data = d /\ r.addr = s.page /\ r.len = s.off
  BY <1>2
<1> HIDE DEF r
<1>4. QED
  BY <1>1, <1>2, <1>3

\* VERIFY: an error, or the last page, if it is not yet written, and the command.
LEMMA VerifyEffect ==
  ASSUME Control, HandleVerify
  PROVE  /\ created /\ ~stop /\ pcH = "idle" /\ Filling /\ pcW \notin {"copy", "off"}
         /\ \/ \E e \in {"seq", "flash"} : rcv_ota' = Failed(e) /\ UNCHANGED <<slots, queue>>
            \/ /\ rcv_ota.bytes = rcv_ota.size /\ rcv_ota.off = 0 /\ UNCHANGED slots
               /\ queue' = Append(queue, Verify)
               /\ rcv_ota' = [rcv_ota EXCEPT !.state = "verifying"]
            \/ /\ rcv_ota.bytes = rcv_ota.size /\ rcv_ota.off > 0 /\ slots' = PagedOut(slots, rcv_ota)
               /\ queue' = Append(Append(queue, rcv_ota.slot), Verify)
               /\ rcv_ota' = [rcv_ota EXCEPT !.state = "verifying", !.slot = Other(@), !.page = @ + 1, !.off = 0]
<1> DEFINE s == [rcv_ota EXCEPT !.state = "verifying"]
<1>1. created /\ ~stop /\ pcH = "idle" /\ Filling /\ pcW \notin {"copy", "off"}
  BY DEF Control, Life, Live, Filling, HandleVerify, Admitted, Running
<1>2. Len(queue) <= 2 /\ Len(queue) \in Nat /\ queue \in Seq(Commands) /\ rcv_ota.slot \in Slot
  BY <1>1, Room, QueueHolds DEF Control, TypeOK, Session
<1>3. s.off = rcv_ota.off /\ s.slot = rcv_ota.slot /\ s.page = rcv_ota.page
  BY DEF Control, TypeOK, Session
<1>4. /\ PagedOut(slots, s) = PagedOut(slots, rcv_ota)
      /\ Flushed(s) = [rcv_ota EXCEPT !.state = "verifying", !.slot = Other(@), !.page = @ + 1, !.off = 0]
  <2>1. PagedOut(slots, s) = PagedOut(slots, rcv_ota)
    BY <1>3 DEF PagedOut
  <2>2. QED
    BY <2>1 DEF Flushed, Control, TypeOK, Session
<1>5. CASE rcv_ota.bytes # rcv_ota.size \/ (s.off > 0 /\ FlushFails)
  BY <1>1, <1>5 DEF HandleVerify
<1>6. CASE rcv_ota.bytes = rcv_ota.size /\ ~(s.off > 0 /\ FlushFails)
  <2> DEFINE q == IF s.off > 0 THEN Put(s.slot) ELSE queue
  <2>1. /\ slots' = IF s.off > 0 THEN PagedOut(slots, s) ELSE slots
        /\ IF Len(q) < QueueLen
           THEN queue' = Append(q, Verify) /\ rcv_ota' = IF s.off > 0 THEN Flushed(s) ELSE s
           ELSE queue' = q /\ rcv_ota' = Failed("error")
    BY <1>6 DEF HandleVerify
  <2>2. Put(s.slot) = Append(queue, rcv_ota.slot)
    BY <1>2, <1>3 DEF Put, QueueLen
  <2>3. Len(q) <= 3 /\ Len(q) \in Nat
    BY <1>2, <2>2 DEF Commands
  <2>4. Len(q) < QueueLen
    BY <2>3 DEF QueueLen
  <2>5. rcv_ota.off \in Nat
    BY Lengths DEF Control, TypeOK, Session
  <2>6. CASE rcv_ota.off > 0
    BY <1>1, <1>3, <1>4, <1>6, <2>1, <2>2, <2>4, <2>6
  <2>7. CASE rcv_ota.off = 0
    BY <1>1, <1>3, <1>6, <2>1, <2>4, <2>7
  <2>8. QED
    BY <2>5, <2>6, <2>7
<1>7. QED
  BY <1>5, <1>6

----------------------------------------------------------------------------
(* A round of the copying loop *)

Round == Smaller(PageLen - rcv_ota.off, Len(rest))
Buffers ==
  [slots EXCEPT ![rcv_ota.slot].data =
     [k \in 0..(PageLen - 1) |->
        IF k >= rcv_ota.off /\ k < rcv_ota.off + Round THEN rest[k - rcv_ota.off + 1] ELSE @[k]]]
Total == Smaller(ChunkLen, rcv_ota.size - rcv_ota.next * ChunkLen)
Full == [rcv_ota EXCEPT !.off = PageLen]

\* The four ways in which a round ends.
WaitFails ==
  /\ rcv_ota' = Failed("flash") /\ pcH' = "idle" /\ rest' = <<>>
  /\ UNCHANGED <<slots, sems, queue>>
Fills ==
  /\ rcv_ota.off + Round < PageLen /\ Round = Len(rest)
  /\ rcv_ota' = [rcv_ota EXCEPT !.off = rcv_ota.off + Round, !.bytes = rcv_ota.bytes + Total, !.next = rcv_ota.next + 1]
  /\ slots' = Buffers /\ queue' = queue /\ rest' = <<>> /\ pcH' = "idle"
Sticks ==
  /\ rcv_ota.off + Round = PageLen
  /\ rcv_ota' = [rcv_ota EXCEPT !.off = PageLen, !.state = "error", !.err = "flash"]
  /\ slots' = Buffers /\ queue' = queue /\ rest' = <<>> /\ pcH' = "idle"
Flushes ==
  /\ rcv_ota.off + Round = PageLen
  /\ slots' = PagedOut(Buffers, Full) /\ queue' = Append(queue, rcv_ota.slot) /\ Len(queue) < QueueLen
  /\ rest' = SubSeq(rest, Round + 1, Len(rest))
  /\ \/ /\ rest' = <<>> /\ pcH' = "idle"
        /\ rcv_ota' = [rcv_ota EXCEPT !.off = 0, !.slot = Other(rcv_ota.slot), !.page = rcv_ota.page + 1,
                                      !.bytes = rcv_ota.bytes + Total, !.next = rcv_ota.next + 1]
     \/ /\ rest' # <<>> /\ pcH' = "copy"
        /\ rcv_ota' = [rcv_ota EXCEPT !.off = 0, !.slot = Other(rcv_ota.slot), !.page = rcv_ota.page + 1]

\* Every round ends in one of these ways; flash and the writer are left alone.
LEMMA CopyEffect ==
  ASSUME Control, Copy
  PROVE  /\ Round \in 1..Len(rest) /\ Round <= PageLen - rcv_ota.off /\ rcv_ota.off < PageLen
         /\ created /\ ~stop /\ rcv_ota.state = "receiving" /\ pcH = "copy" /\ pcW \notin {"copy", "off"}
         /\ UNCHANGED <<boot, appLen, copied, werr, stop, created, pcW, flash, settings>>
         /\ \/ WaitFails
            \/ /\ rcv_ota.off = 0 => sems[rcv_ota.slot]
               /\ sems' = [sems EXCEPT ![rcv_ota.slot] = FALSE]
               /\ Fills \/ Sticks \/ Flushes
<1>1. /\ pcH = "copy" /\ created /\ ~stop /\ rcv_ota.state = "receiving" /\ pcW \notin {"copy", "off"}
      /\ UNCHANGED <<boot, appLen, copied, werr, stop, created, pcW, flash, settings>>
  BY DEF Control, Life, Copy, Running
<1>2. /\ rcv_ota.off < PageLen /\ rest # <<>> /\ rest \in Seq(Unit) /\ rcv_ota.off \in Nat
  BY <1>1, Lengths DEF Control, TypeOK, Session, Counted, Filling
<1>3. Len(rest) \in Nat /\ Len(rest) > 0
  BY <1>2
<1>4. Round \in 1..Len(rest) /\ Round <= PageLen - rcv_ota.off /\ (rcv_ota.off + Round < PageLen => Round = Len(rest))
  BY <1>2, <1>3, Lengths DEF Round, Smaller
<1> DEFINE s == rcv_ota
           n == Round
           more == SubSeq(rest, n + 1, Len(rest))
           after == [s EXCEPT !.off = s.off + n]
           Received(t) == IF more = <<>> THEN [t EXCEPT !.bytes = @ + Total, !.next = @ + 1] ELSE t
<1>5. rcv_ota \in Session
  BY DEF Control, TypeOK
<1>6. CASE Busy(s)
  <2>1. WaitFails
    BY <1>6 DEF Copy, WaitFails
  <2>2. QED
    BY <1>1, <1>2, <1>4, <2>1
<1>7. CASE ~Busy(s)
  <2>1. /\ sems' = [sems EXCEPT ![s.slot] = FALSE]
        /\ IF after.off < PageLen
           THEN rcv_ota' = Received(after) /\ slots' = Buffers /\ UNCHANGED queue
           ELSE IF FlushFails
           THEN rcv_ota' = [after EXCEPT !.state = "error", !.err = "flash"] /\ slots' = Buffers /\ UNCHANGED queue
           ELSE rcv_ota' = Received(Flushed(after)) /\ slots' = PagedOut(Buffers, after) /\ queue' = Put(s.slot)
        /\ rest' = IF rcv_ota'.state = "error" THEN <<>> ELSE more
        /\ pcH' = IF rest' = <<>> THEN "idle" ELSE "copy"
    BY <1>7 DEF Copy, Round, Buffers, Total
  <2>2. s.off = 0 => sems[s.slot]
    BY <1>7 DEF Busy
  <2>3. after.off = s.off + n /\ after.state = "receiving"
    BY <1>1, <1>5 DEF Session
  <2>4. CASE s.off + n < PageLen
    <3>1. more = <<>>
      <4>1. n = Len(rest)
        BY <1>4, <2>4
      <4>2. QED
        BY <1>2, <1>3, <4>1
    <3>2. rcv_ota' = Received(after) /\ slots' = Buffers /\ queue' = queue
      BY <2>1, <2>3, <2>4
    <3>3. rcv_ota' = [rcv_ota EXCEPT !.off = s.off + n, !.bytes = s.bytes + Total, !.next = s.next + 1]
      BY <1>5, <3>1, <3>2 DEF Session
    <3>4. rest' = <<>> /\ pcH' = "idle"
      BY <2>1, <3>1
    <3>5. Fills
      BY <1>4, <2>4, <3>2, <3>3, <3>4 DEF Fills
    <3>6. QED
      BY <1>1, <1>2, <1>4, <2>1, <2>2, <3>5
  <2>5. CASE ~(s.off + n < PageLen)
    <3>1. s.off + n = PageLen
      BY <1>2, <1>4, <2>5, Lengths
    <3>2. after = Full
      BY <3>1 DEF Full
    <3>3. CASE FlushFails
      <4>1. rcv_ota' = [after EXCEPT !.state = "error", !.err = "flash"] /\ slots' = Buffers /\ queue' = queue
        BY <2>1, <2>3, <2>5, <3>3
      <4>2. rcv_ota' = [rcv_ota EXCEPT !.off = PageLen, !.state = "error", !.err = "flash"]
        BY <1>5, <3>2, <4>1 DEF Full, Session
      <4>3. rcv_ota'.state = "error"
        BY <1>5, <4>2 DEF Session
      <4>4. rest' = <<>> /\ pcH' = "idle"
        BY <2>1, <4>3
      <4>5. Sticks
        BY <3>1, <4>1, <4>2, <4>4 DEF Sticks
      <4>6. QED
        BY <1>1, <1>2, <1>4, <2>1, <2>2, <4>5
    <3>4. CASE ~FlushFails
      <4>1. rcv_ota' = Received(Flushed(Full)) /\ slots' = PagedOut(Buffers, Full) /\ queue' = Put(s.slot)
        BY <2>1, <2>3, <2>5, <3>2, <3>4
      <4>2. Flushed(Full) = [rcv_ota EXCEPT !.off = 0, !.slot = Other(s.slot), !.page = s.page + 1]
        BY <1>5 DEF Flushed, Full, Session
      <4>3. rcv_ota'.state = "receiving"
        BY <1>1, <1>5, <4>1, <4>2 DEF Session
      <4>4. rest' = more
        BY <2>1, <4>3
      <4>5. Len(queue) < QueueLen /\ queue' = Append(queue, s.slot)
        BY <3>4, <4>1, QueueHolds DEF FlushFails, Put, Control, QueueLen
      <4>6. CASE more = <<>>
        <5>1. rcv_ota' = [rcv_ota EXCEPT !.off = 0, !.slot = Other(s.slot), !.page = s.page + 1,
                                          !.bytes = s.bytes + Total, !.next = s.next + 1]
          BY <1>5, <4>1, <4>2, <4>6 DEF Session
        <5>2. Flushes
          BY <2>1, <3>1, <4>1, <4>4, <4>5, <4>6, <5>1 DEF Flushes
        <5>3. QED
          BY <1>1, <1>2, <1>4, <2>1, <2>2, <5>2
      <4>7. CASE more # <<>>
        <5>1. rcv_ota' = [rcv_ota EXCEPT !.off = 0, !.slot = Other(s.slot), !.page = s.page + 1]
          BY <4>1, <4>2, <4>7
        <5>2. Flushes
          BY <2>1, <3>1, <4>1, <4>4, <4>5, <4>7, <5>1 DEF Flushes
        <5>3. QED
          BY <1>1, <1>2, <1>4, <2>1, <2>2, <5>2
      <4>8. QED
        BY <4>6, <4>7
    <3>5. QED
      BY <3>3, <3>4
  <2>6. QED
    BY <2>4, <2>5
<1>8. QED
  BY <1>6, <1>7

\* The units of the report lie in the buffer, and nothing else has changed.
LEMMA BuffersType ==
  ASSUME Control
  PROVE  /\ Buffers \in [Slot -> [data : PageData, addr : Page, len : 0..PageLen]]
         /\ \A t \in Slot : t # rcv_ota.slot => Buffers[t] = slots[t]
         /\ \A k \in 0..(PageLen - 1) :
              Buffers[rcv_ota.slot].data[k] =
                IF k >= rcv_ota.off /\ k < rcv_ota.off + Round THEN rest[k - rcv_ota.off + 1] ELSE slots[rcv_ota.slot].data[k]
<1> DEFINE s == rcv_ota.slot
           d == [k \in 0..(PageLen - 1) |->
                   IF k >= rcv_ota.off /\ k < rcv_ota.off + Round THEN rest[k - rcv_ota.off + 1] ELSE slots[s].data[k]]
           r == [slots[s] EXCEPT !.data = d]
<1>1. /\ slots \in [Slot -> [data : PageData, addr : Page, len : 0..PageLen]] /\ s \in Slot
      /\ rcv_ota.off \in Nat /\ rest \in Seq(Unit) /\ Len(rest) \in Nat
  BY Lengths DEF Control, TypeOK, Session
<1>2. Buffers = [slots EXCEPT ![s] = r]
  BY <1>1 DEF Buffers
<1>3. Round \in Int /\ Round <= Len(rest)
  BY <1>1, Lengths DEF Round, Smaller
<1>4. d \in PageData
  <2>1. ASSUME NEW k \in 0..(PageLen - 1), k >= rcv_ota.off, k < rcv_ota.off + Round
        PROVE  rest[k - rcv_ota.off + 1] \in Unit
    <3>1. k - rcv_ota.off + 1 \in 1..Len(rest)
      BY <1>1, <1>3, <2>1, Lengths
    <3>2. QED
      BY <1>1, <3>1
  <2>2. slots[s].data \in [0..(PageLen - 1) -> Unit]
    BY <1>1 DEF PageData
  <2>3. QED
    BY <2>1, <2>2 DEF PageData
<1>5. r \in [data : PageData, addr : Page, len : 0..PageLen] /\ r.data = d
  <2> HIDE DEF d
  <2>1. QED
    BY <1>1, <1>4
<1>6. \A k \in 0..(PageLen - 1) :
        d[k] = IF k >= rcv_ota.off /\ k < rcv_ota.off + Round THEN rest[k - rcv_ota.off + 1] ELSE slots[s].data[k]
  OBVIOUS
<1> HIDE DEF r, d
<1>7. QED
  BY <1>1, <1>2, <1>5, <1>6

\* BEGIN, up to the join: only Shutdown is put into the queue.
LEMMA HandleBeginKeeps ==
  ASSUME Control, HandleBegin
  PROVE  Control'
<1>a. Extended /\ (stop' <=> created \/ stop) /\ created' = created /\ pcW' = pcW /\ pcH = "idle" /\ pcW \notin {"copy", "off"}
  <2>1. CASE boot = "acl"
    <3>1. ~created /\ UNCHANGED <<stop, queue>>
      BY <2>1 DEF Control, Life, HandleBegin
    <3>2. QED
      BY <3>1, StopAsked DEF Control, HandleBegin, Admitted, Running
  <2>2. CASE boot # "acl"
    BY <2>2, StopAsked DEF Control, HandleBegin, Admitted, Running
  <2>3. QED
    BY <2>1, <2>2
<1>b. rcv_ota' = rcv_ota \/ (boot = "acl" /\ ~created /\ pcH' = "idle" /\ rcv_ota' = Failed("error"))
  BY DEF Control, Life, HandleBegin, Admitted
<1>c. /\ rcv_ota' \in Session /\ rcv_ota'.off = rcv_ota.off /\ rcv_ota'.slot = rcv_ota.slot
      /\ rcv_ota'.err \in {rcv_ota.err, "error"} /\ rcv_ota'.state \in {rcv_ota.state, "error"}
  BY <1>b, FailedType DEF Control, TypeOK
<1>1. TypeOK'
  BY <1>a, <1>b, <1>c DEF Control, TypeOK, Commands, Extended, HandleBegin
<1>2. Life'
  BY <1>a, <1>b, <1>c DEF Control, TypeOK, Life, Live, HandleBegin
<1>3. Stage'
  BY <1>a, <1>b, <1>c DEF Control, Life, Stage, Live, Filling, Pending, Extended, Shutdown, Verify,
     Activate, HandleBegin
<1>4. Once'
  <2>1. \A i \in 1..Len(queue') : queue'[i] # Shutdown => i \in 1..Len(queue) /\ queue'[i] = queue[i]
    BY <1>a, QueueHolds DEF Control, Extended
  <2>2. QED
    BY <1>a, <1>b, <1>c, <2>1 DEF Control, TypeOK, Once, Extended, Shutdown, Slot, Verify, Activate,
       HandleBegin
<1>5. Owned'
  BY <1>a, <1>b, <1>c DEF Control, TypeOK, Life, Owned, Pending, ProducerOwns, WriterAlive, Extended,
     Slot, Shutdown, HandleBegin
<1>6. Last'
  <2>1. \A i \in 1..Len(queue') : queue'[i] # Shutdown => i \in 1..Len(queue) /\ queue'[i] = queue[i]
    BY <1>a, QueueHolds DEF Control, Extended
  <2>2. QED
    BY <1>a, <1>b, <1>c, <2>1 DEF Control, TypeOK, Last, Slot, Shutdown, Verify, HandleBegin
<1>7. Placed'
  BY <1>a, <1>b, <1>c DEF Control, Life, Placed, HandleBegin
<1>8. Counted'
  BY <1>a, <1>b, <1>c DEF Control, Life, Counted, Filling, Pending, Handed, Filled, Extended, Shutdown,
     Verify, HandleBegin
<1>9. QED
  BY <1>1, <1>2, <1>3, <1>4, <1>5, <1>6, <1>7, <1>8 DEF Control

\* ABORT, up to the join.
LEMMA HandleAbortKeeps ==
  ASSUME Control, HandleAbort
  PROVE  Control'
<1>a. Extended /\ (stop' <=> created \/ stop) /\ pcW \notin {"copy", "off"} /\ pcH = "idle"
  BY StopAsked DEF Control, HandleAbort, Admitted, Running
<1>1. TypeOK'
  BY <1>a DEF Control, TypeOK, Commands, Extended, HandleAbort
<1>2. Life'
  BY <1>a DEF Control, TypeOK, Life, Live, HandleAbort
<1>3. Stage'
  BY <1>a DEF Control, Life, Stage, Live, Filling, Pending, Extended, Shutdown, Verify, Activate,
     HandleAbort
<1>4. Once'
  <2>1. \A i \in 1..Len(queue') : queue'[i] # Shutdown => i \in 1..Len(queue) /\ queue'[i] = queue[i]
    BY <1>a, QueueHolds DEF Control, Extended
  <2>2. QED
    BY <1>a, <2>1 DEF Control, TypeOK, Once, Extended, Shutdown, Slot, Verify, Activate, HandleAbort
<1>5. Owned'
  BY <1>a DEF Control, TypeOK, Life, Owned, Pending, ProducerOwns, WriterAlive, Extended, Slot,
     Shutdown, HandleAbort
<1>6. Last'
  <2>1. \A i \in 1..Len(queue') : queue'[i] # Shutdown => i \in 1..Len(queue) /\ queue'[i] = queue[i]
    BY <1>a, QueueHolds DEF Control, Extended
  <2>2. QED
    BY <1>a, <2>1 DEF Control, TypeOK, Last, Slot, Shutdown, Verify, HandleAbort
<1>7. Placed'
  BY <1>a DEF Control, Life, Placed, HandleAbort
<1>8. Counted'
  BY <1>a DEF Control, Life, Counted, Filling, Pending, Handed, Filled, Extended, Shutdown, Verify,
     HandleAbort
<1>9. QED
  BY <1>1, <1>2, <1>3, <1>4, <1>5, <1>6, <1>7, <1>8 DEF Control

\* VERIFY: the last page goes before the command.
LEMMA HandleVerifyKeeps ==
  ASSUME Control, HandleVerify
  PROVE  Control'
<1> DEFINE s == rcv_ota.slot
<1>a. created /\ ~stop /\ pcH = "idle" /\ Filling /\ pcW \notin {"copy", "off"}
  BY VerifyEffect
<1>b. UNCHANGED <<boot, appLen, copied, sems, werr, stop, created, pcW, pcH, rest, flash, settings>>
  BY DEF HandleVerify
<1>c. /\ rcv_ota \in Session /\ s \in Slot /\ rcv_ota.off \in Nat /\ rcv_ota.off \in 0..PageLen /\ rcv_ota.page \in Nat /\ rcv_ota.staging \in Nat
      /\ rcv_ota.staging <= rcv_ota.page /\ rcv_ota.size \in Nat /\ rcv_ota.err = "none"
      /\ rcv_ota.bytes = Handed + rcv_ota.off /\ Handed \in Int
  BY <1>a, Lengths DEF Control, TypeOK, Session, Counted, Stage, Handed, Filled
<1>d. /\ ~Pending(Verify) /\ ~Pending(Activate) /\ Len(queue) \in Nat /\ Len(queue) <= 2 /\ queue \in Seq(Commands)
      /\ ~InQ(Shutdown) /\ (rcv_ota.off > 0 => ~Pending(s) /\ ~sems[s])
  BY <1>a, <1>c, Room, QueueHolds DEF Control, Stage, Owned, ProducerOwns
<1>e. CASE \E e \in {"seq", "flash"} : rcv_ota' = Failed(e) /\ UNCHANGED <<slots, queue>>
  <2>1. /\ rcv_ota' \in Session /\ rcv_ota'.state = "error" /\ rcv_ota'.err \in {"seq", "flash"}
        /\ rcv_ota'.off = rcv_ota.off /\ rcv_ota'.slot = s /\ rcv_ota'.page = rcv_ota.page /\ rcv_ota'.img = rcv_ota.img
        /\ rcv_ota'.size = rcv_ota.size /\ rcv_ota'.staging = rcv_ota.staging /\ rcv_ota'.target = rcv_ota.target
    BY <1>c, <1>e DEF Session, Failed
  <2>2. UNCHANGED <<slots, queue>>
    BY <1>e
  <2>3. TypeOK' /\ Once'
    BY <1>b, <2>1, <2>2 DEF Control, TypeOK, Once, InQ
  <2>4. Life' /\ Placed'
    BY <1>a, <1>b, <2>1 DEF Control, TypeOK, Life, Live, Placed
  <2>5. Stage' /\ Last' /\ Counted'
    BY <1>a, <1>b, <1>d, <2>1, <2>2 DEF Control, Stage, Last, Counted, Filling, Pending, InQ, Verify,
       Activate
  <2>6. Owned'
    BY <1>b, <2>1, <2>2 DEF Control, Owned, Pending, InQ, ProducerOwns, WriterAlive
  <2>7. QED
    BY <2>3, <2>4, <2>5, <2>6 DEF Control
<1>f. CASE ~\E e \in {"seq", "flash"} : rcv_ota' = Failed(e) /\ UNCHANGED <<slots, queue>>
  <2>1. /\ rcv_ota.bytes = rcv_ota.size
        /\ \/ /\ rcv_ota.off = 0 /\ UNCHANGED slots /\ queue' = Append(queue, Verify)
              /\ rcv_ota' = [rcv_ota EXCEPT !.state = "verifying"]
           \/ /\ rcv_ota.off > 0 /\ slots' = PagedOut(slots, rcv_ota) /\ queue' = Append(Append(queue, s), Verify)
              /\ rcv_ota' = [rcv_ota EXCEPT !.state = "verifying", !.slot = Other(@), !.page = @ + 1, !.off = 0]
    BY <1>f, VerifyEffect
  <2>2. rcv_ota.off > 0 => /\ rcv_ota.page \in Page /\ rcv_ota.page + 1 \in 0..FlashEnd
                           /\ (rcv_ota.page + 1 - rcv_ota.staging) * PageLen = Handed + PageLen
    <3>1. rcv_ota.off > 0 => Handed < Handed + rcv_ota.off
      BY <1>c
    <3>2. QED
      BY <1>a, <1>c, <2>1, <3>1, PageFits
  <2>3. /\ rcv_ota' \in Session /\ rcv_ota'.state = "verifying" /\ rcv_ota'.err = "none" /\ rcv_ota'.off = 0
        /\ rcv_ota'.img = rcv_ota.img /\ rcv_ota'.size = rcv_ota.size /\ rcv_ota'.staging = rcv_ota.staging
        /\ rcv_ota'.target = rcv_ota.target
        /\ rcv_ota'.page = IF rcv_ota.off > 0 THEN rcv_ota.page + 1 ELSE rcv_ota.page
    <3>1. CASE rcv_ota.off = 0
      BY <1>c, <2>1, <3>1 DEF Session
    <3>2. CASE rcv_ota.off > 0
      <4>1. Other(s) \in Slot /\ 0 \in 0..PageLen
        BY Lengths DEF Other, Slot
      <4>2. rcv_ota' = [rcv_ota EXCEPT !.state = "verifying", !.slot = Other(s), !.page = rcv_ota.page + 1, !.off = 0]
        BY <1>c, <2>1, <3>2
      <4>3. rcv_ota.page + 1 \in 0..FlashEnd
        BY <2>2, <3>2
      <4>4. QED
        BY <1>c, <3>2, <4>1, <4>2, <4>3 DEF Session
    <3>3. QED
      BY <1>c, <3>1, <3>2
  <2>4. /\ queue' \in Seq(Commands) /\ Len(queue') \in Nat /\ Len(queue') <= QueueLen
        /\ \A i \in 1..Len(queue') : \/ i \in 1..Len(queue) /\ queue'[i] = queue[i]
                                     \/ rcv_ota.off > 0 /\ i = Len(queue) + 1 /\ i < Len(queue') /\ queue'[i] = s
                                     \/ i = Len(queue') /\ i > Len(queue) /\ queue'[i] = Verify
        /\ \A d : InQ(d)' <=> (InQ(d) \/ d = Verify \/ (rcv_ota.off > 0 /\ d = s))
    <3>1. CASE rcv_ota.off = 0
      <4>1. Verify \in Commands /\ queue' = Append(queue, Verify) /\ QueueLen = 4
        BY <2>1, <3>1 DEF Commands, QueueLen
      <4>2. QED
        BY <1>d, <3>1, <4>1, QueueGrows
    <3>2. CASE rcv_ota.off > 0
      <4> DEFINE q == Append(queue, s)
      <4>1. Verify \in Commands /\ s \in Commands /\ queue' = Append(q, Verify) /\ QueueLen = 4
        BY <1>c, <2>1, <3>2 DEF Commands, QueueLen
      <4>2. /\ q \in Seq(Commands) /\ Len(q) = Len(queue) + 1 /\ q[Len(queue) + 1] = s
            /\ \A i \in 1..Len(queue) : q[i] = queue[i]
        BY <1>d, <4>1
      <4> HIDE DEF q
      <4>3. /\ queue' \in Seq(Commands) /\ Len(queue') = Len(queue) + 2 /\ queue'[Len(queue) + 1] = s
            /\ queue'[Len(queue) + 2] = Verify /\ \A i \in 1..Len(queue) : queue'[i] = queue[i]
        BY <1>d, <4>1, <4>2
      <4>4. \A d : InQ(d)' <=> (InQ(d) \/ d = Verify \/ d = s)
        BY <1>d, <4>3 DEF InQ
      <4>5. QED
        BY <1>d, <3>2, <4>1, <4>3, <4>4
    <3>3. QED
      BY <1>c, <3>1, <3>2
  <2>5. TypeOK'
    <3>1. slots' \in [Slot -> [data : PageData, addr : Page, len : 0..PageLen]]
      <4>1. CASE rcv_ota.off = 0
        BY <2>1, <4>1 DEF Control, TypeOK
      <4>2. CASE rcv_ota.off > 0
        <5>1. slots' = PagedOut(slots, rcv_ota) /\ rcv_ota.page \in Page
          BY <2>1, <2>2, <4>2
        <5>2. slots \in [Slot -> [data : PageData, addr : Page, len : 0..PageLen]]
          BY DEF Control, TypeOK
        <5>3. QED
          BY <1>c, <5>1, <5>2, PagedOutType
      <4>3. QED
        BY <1>c, <4>1, <4>2
    <3>2. QED
      BY <1>b, <2>3, <2>4, <3>1 DEF Control, TypeOK, Commands
  <2>6. Life' /\ Placed'
    BY <1>a, <1>b, <2>3 DEF Control, Life, Live, Placed
  <2>7. Stage'
    BY <1>a, <1>b, <1>c, <1>d, <2>3, <2>4 DEF Control, Stage, Filling, Pending, Slot, Shutdown, Verify,
       Activate
  <2>8. Once'
    <3>1. \A i \in 1..Len(queue') : queue'[i] # pcW
      BY <1>c, <1>d, <2>4 DEF Control, Once, Pending, InQ
    <3>2. ASSUME NEW i \in 1..Len(queue'), NEW j \in 1..Len(queue'), queue'[i] = queue'[j], queue'[i] # Shutdown
          PROVE  i = j
      <4>1. ~InQ(Verify) /\ (rcv_ota.off > 0 => ~InQ(s)) /\ s # Verify
        BY <1>c, <1>d DEF Pending, Slot, Verify
      <4>2. QED
        BY <1>d, <2>4, <3>2, <4>1 DEF Control, Once, InQ
    <3>3. QED
      BY <1>b, <3>1, <3>2 DEF Once, InQ
  <2>9. Owned'
    BY <1>a, <1>b, <1>c, <1>d, <2>3, <2>4 DEF Control, Owned, Pending, ProducerOwns, WriterAlive, Slot,
       Verify
  <2>10. Last'
    <3>1. \A i \in 1..Len(queue) : queue[i] # Verify
      BY <1>d DEF Pending, InQ
    <3>2. pcW' # Verify /\ rcv_ota'.err # "verify_ok" /\ s # Verify
      BY <1>b, <1>c, <1>d, <2>3 DEF Pending, Slot, Verify
    <3>3. QED
      BY <2>4, <3>1, <3>2, <1>d DEF Last
  <2>11. Counted'
    <3>1. rcv_ota'.staging <= rcv_ota'.page /\ Handed' >= rcv_ota'.size
      <4>0. Handed' = (rcv_ota'.page - rcv_ota.staging) * PageLen
        BY <2>3 DEF Handed
      <4>1. CASE rcv_ota.off = 0
        <5>1. Handed' = Handed /\ rcv_ota'.page = rcv_ota.page
          BY <2>3, <4>0, <4>1 DEF Handed
        <5>2. rcv_ota.size = Handed
          BY <1>c, <2>1, <4>1
        <5>3. QED
          BY <1>c, <2>3, <5>1, <5>2
      <4>2. CASE rcv_ota.off > 0
        <5>1. Handed' = Handed + PageLen /\ rcv_ota'.page = rcv_ota.page + 1
          <6>1. rcv_ota'.page = rcv_ota.page + 1
            BY <2>3, <4>2
          <6>2. Handed' = (rcv_ota.page + 1 - rcv_ota.staging) * PageLen
            BY <1>c, <4>0, <6>1, Lengths
          <6>3. QED
            BY <2>2, <4>2, <6>1, <6>2
        <5>2. rcv_ota.size <= Handed + PageLen
          BY <1>c, <2>1, Lengths
        <5>3. QED
          BY <1>c, <2>3, <5>1, <5>2
      <4>3. QED
        BY <1>c, <4>1, <4>2
    <3>2. QED
      BY <1>a, <1>b, <2>3, <3>1 DEF Counted, Filling
  <2>12. QED
    BY <2>5, <2>6, <2>7, <2>8, <2>9, <2>10, <2>11 DEF Control
<1>g. QED
  BY <1>e, <1>f

\* ACTIVATE: all commands before it are done.
LEMMA HandleActivateKeeps ==
  ASSUME Control, HandleActivate
  PROVE  Control'
<1>a. /\ created /\ ~stop /\ pcH = "idle" /\ pcW \notin {"copy", "off"}
      /\ rcv_ota.state = "verifying" /\ rcv_ota.err = "verify_ok" /\ ~Pending(Verify) /\ ~Pending(Activate)
  BY DEF Control, Life, Live, Stage, HandleActivate, Admitted, Running, MayActivate
<1>b. \/ queue' = Append(queue, Activate) /\ Len(queue) < QueueLen /\ rcv_ota' = [rcv_ota EXCEPT !.state = "activate_pending"]
      \/ queue' = queue /\ rcv_ota' = Failed("error")
  BY DEF HandleActivate, Put
<1>c. /\ rcv_ota' \in Session /\ rcv_ota'.off = rcv_ota.off /\ rcv_ota'.slot = rcv_ota.slot
      /\ rcv_ota'.img = rcv_ota.img /\ rcv_ota'.size = rcv_ota.size /\ rcv_ota'.page = rcv_ota.page
      /\ rcv_ota'.staging = rcv_ota.staging /\ rcv_ota'.target = rcv_ota.target
      /\ \/ rcv_ota'.state = "error" /\ rcv_ota'.err = "error" /\ queue' = queue
         \/ rcv_ota'.state = "activate_pending" /\ rcv_ota'.err = "verify_ok"
  BY <1>a, <1>b DEF Control, TypeOK, Session, Failed
<1>d. /\ queue' \in Seq(Commands) /\ Len(queue') <= QueueLen /\ Len(queue') \in Nat
      /\ \A i \in 1..Len(queue') : (i \in 1..Len(queue) /\ queue'[i] = queue[i]) \/ (i = Len(queue) + 1 /\ queue'[i] = Activate)
      /\ \A d : d # Activate => (InQ(d)' <=> InQ(d))
  <2>1. CASE queue' = queue
    BY <2>1, QueueHolds DEF Control, TypeOK, InQ
  <2>2. CASE queue' = Append(queue, Activate) /\ Len(queue) < QueueLen
    <3>1. Activate \in Commands /\ queue \in Seq(Commands) /\ Len(queue) \in Nat /\ QueueLen = 4
      BY QueueHolds DEF Control, Commands, QueueLen
    <3>2. QED
      BY <2>2, <3>1, QueueGrows
  <2>3. QED
    BY <1>b, <2>1, <2>2
<1>1. TypeOK'
  BY <1>a, <1>c, <1>d DEF Control, TypeOK, Commands, HandleActivate
<1>2. Life'
  BY <1>a, <1>c, <1>d DEF Control, TypeOK, Life, Live, HandleActivate
<1>3. Stage'
  <2>1. rcv_ota'.state = "error" => ~InQ(Activate)'
    BY <1>a, <1>c DEF Pending, InQ
  <2>2. UNCHANGED <<created, stop, pcW>>
    BY DEF HandleActivate
  <2>3. QED
    BY <1>a, <1>c, <1>d, <2>1, <2>2 DEF Control, Stage, Filling, Pending, Shutdown, Verify, Activate
<1>4. Once'
  <2>1. ~InQ(Activate) /\ pcW # Activate
    BY <1>a DEF Pending
  <2>2. QED
    BY <1>d, <2>1, QueueHolds DEF Control, Once, InQ, HandleActivate
<1>5. Owned'
  BY <1>a, <1>c, <1>d DEF Control, TypeOK, Owned, Pending, ProducerOwns, WriterAlive, Slot, Activate,
     HandleActivate
<1>6. Last'
  BY <1>a, <1>c, <1>d, QueueHolds DEF Control, Last, Pending, Slot, Activate, Verify, InQ, HandleActivate
<1>7. Placed'
  BY <1>a, <1>c, <1>d DEF Control, Placed, HandleActivate
<1>8. Counted'
  BY <1>a, <1>c, <1>d DEF Control, Counted, Filling, Pending, Handed, Verify, Activate, HandleActivate
<1>9. QED
  BY <1>1, <1>2, <1>3, <1>4, <1>5, <1>6, <1>7, <1>8 DEF Control

\* DATA, up to the copying loop.
LEMMA HandleDataKeeps ==
  ASSUME Control, NEW img \in Images, NEW seq \in 0..rcv_ota.size, HandleData(img, seq)
  PROVE  Control'
<1> DEFINE received == [rcv_ota EXCEPT !.state = "receiving", !.mixed = @ \/ img # rcv_ota.img]
           left == rcv_ota.size - seq * ChunkLen
           unit(n) == LET k == seq * ChunkLen + n - 1 IN IF k < ImageLen[img] THEN <<img, k>> ELSE Free
<1>a. /\ created /\ ~stop /\ pcH = "idle" /\ Filling /\ rcv_ota \in Session
      /\ UNCHANGED <<boot, appLen, copied, slots, sems, queue, werr, stop, created, pcW, flash, settings>>
  BY DEF Control, TypeOK, Life, Live, Filling, HandleData, Admitted, threadVars
<1>b. /\ rcv_ota' \in Session /\ rcv_ota'.off = rcv_ota.off /\ rcv_ota'.slot = rcv_ota.slot
      /\ rcv_ota'.img = rcv_ota.img /\ rcv_ota'.size = rcv_ota.size /\ rcv_ota'.page = rcv_ota.page
      /\ rcv_ota'.staging = rcv_ota.staging /\ rcv_ota'.target = rcv_ota.target
      /\ rcv_ota'.bytes = rcv_ota.bytes /\ rcv_ota'.next = rcv_ota.next
      /\ \/ /\ rcv_ota'.state = "error" /\ rcv_ota'.err \in {"flash", "seq", "verify"}
            /\ UNCHANGED <<pcH, rest>>
         \/ /\ rcv_ota'.state = "receiving" /\ rcv_ota'.err = rcv_ota.err /\ seq = rcv_ota.next
            /\ seq * ChunkLen < rcv_ota.size /\ pcH' = "copy"
            /\ rest' = [n \in 1..Smaller(ChunkLen, left) |-> unit(n)]
  <2>1. /\ \A e \in {"flash", "seq", "verify"} : Failed(e) \in Session /\ received \in Session
        /\ \A r \in {Failed("flash"), Failed("seq"), Failed("verify"), received} :
             /\ r.off = rcv_ota.off /\ r.slot = rcv_ota.slot /\ r.img = rcv_ota.img /\ r.size = rcv_ota.size
             /\ r.page = rcv_ota.page /\ r.staging = rcv_ota.staging /\ r.target = rcv_ota.target
             /\ r.bytes = rcv_ota.bytes /\ r.next = rcv_ota.next
        /\ received.state = "receiving" /\ received.err = rcv_ota.err
        /\ \A e \in {"flash", "seq", "verify"} : Failed(e).state = "error" /\ Failed(e).err = e
    BY <1>a DEF Session, Failed
  <2>2. \/ \E e \in {"flash", "seq", "verify"} : rcv_ota' = Failed(e) /\ UNCHANGED <<pcH, rest>>
        \/ /\ rcv_ota' = received /\ seq = rcv_ota.next /\ seq * ChunkLen < rcv_ota.size /\ pcH' = "copy"
           /\ rest' = [n \in 1..Smaller(ChunkLen, left) |-> unit(n)]
    BY DEF HandleData
  <2> HIDE DEF received
  <2>3. QED
    BY <2>1, <2>2
<1>c. /\ seq \in Nat /\ seq * ChunkLen \in Nat /\ left \in Int /\ rcv_ota.size \in Nat
  BY <1>a, Lengths DEF Session
<1>d. pcH' = "copy" => /\ Smaller(ChunkLen, left) \in 1..ChunkLen /\ rest' \in Seq(Unit)
                       /\ Len(rest') = Smaller(ChunkLen, left)
  <2> DEFINE m == Smaller(ChunkLen, left)
  <2>1. SUFFICES ASSUME pcH' = "copy"
                 PROVE  m \in 1..ChunkLen /\ rest' \in Seq(Unit) /\ Len(rest') = m
    OBVIOUS
  <2>2. seq * ChunkLen < rcv_ota.size /\ rest' = [n \in 1..m |-> unit(n)]
    BY <1>a, <1>b, <2>1
  <2>3. m \in 1..ChunkLen
    BY <1>c, <2>2, Lengths DEF Smaller
  <2>4. \A n \in 1..m : unit(n) \in Unit
    BY <1>c, <2>3, OtaConstants, Lengths DEF Unit, ImageUnits
  <2> HIDE DEF m, unit
  <2>5. QED
    BY <2>2, <2>3, <2>4, Lengths
<1> HIDE DEF left, unit
<1>1. TypeOK'
  <2>1. rest' \in Seq(Unit) /\ Len(rest') <= ChunkLen
    BY <1>a, <1>b, <1>d, Lengths DEF Control, TypeOK
  <2>2. QED
    BY <1>a, <1>b, <2>1 DEF Control, TypeOK
<1>2. Life'
  BY <1>a, <1>b DEF Control, TypeOK, Life, Live
<1>3. Stage'
  BY <1>a, <1>b DEF Control, TypeOK, Stage, Filling, Pending, InQ, Verify, Activate
<1>4. Once'
  BY <1>a DEF Control, Once, InQ
<1>5. Owned'
  BY <1>a, <1>b DEF Control, Owned, Pending, InQ, ProducerOwns, WriterAlive
<1>6. Last'
  BY <1>a, <1>b DEF Control, Last, Stage, Filling
<1>7. Placed'
  BY <1>a, <1>b DEF Control, Placed
<1>8. Counted'
  <2>1. pcH' = "copy" => /\ rcv_ota.bytes = rcv_ota.next * ChunkLen /\ rcv_ota.bytes < rcv_ota.size
                         /\ Filled + Len(rest') = Smaller(rcv_ota.bytes + ChunkLen, rcv_ota.size) /\ rest' # <<>>
    <3>1. SUFFICES ASSUME pcH' = "copy"
                   PROVE  /\ rcv_ota.bytes = rcv_ota.next * ChunkLen /\ rcv_ota.bytes < rcv_ota.size
                          /\ Filled + Len(rest') = Smaller(rcv_ota.bytes + ChunkLen, rcv_ota.size) /\ rest' # <<>>
      OBVIOUS
    <3>2. /\ seq = rcv_ota.next /\ seq * ChunkLen < rcv_ota.size
          /\ Filled = rcv_ota.bytes /\ rcv_ota.bytes = Smaller(rcv_ota.next * ChunkLen, rcv_ota.size)
      BY <1>a, <1>b, <3>1 DEF Control, Counted
    <3>3. rcv_ota.bytes = seq * ChunkLen
      BY <1>c, <3>2 DEF Smaller
    <3>4. Len(rest') > 0
      BY <1>d, <3>1, Lengths
    <3>5. rest' # <<>>
      BY <3>4
    <3>6. Len(rest') = Smaller(ChunkLen, rcv_ota.size - rcv_ota.bytes) /\ rcv_ota.bytes \in Nat
      BY <1>c, <1>d, <3>1, <3>3 DEF left
    <3>7. Filled + Len(rest') = Smaller(rcv_ota.bytes + ChunkLen, rcv_ota.size)
      BY <1>c, <3>2, <3>6, Lengths DEF Smaller
    <3>8. QED
      BY <3>2, <3>3, <3>5, <3>7
  <2>2. Filled' = Filled /\ Handed' = Handed
    BY <1>b DEF Filled, Handed
  <2>3. QED
    BY <1>a, <1>b, <2>1, <2>2 DEF Control, Counted, Stage, Filling, Pending, InQ, Verify
<1>9. QED
  BY <1>1, <1>2, <1>3, <1>4, <1>5, <1>6, <1>7, <1>8 DEF Control

\* k_thread_join has returned: nobody owns the buffers any more.
LEMMA RetireKeeps ==
  ASSUME Control, Retire
  PROVE  Control'
<1>1. TypeOK'
  <2>0. 0 \in 0..PageLen
    BY Lengths
  <2>1. [rcv_ota EXCEPT !.off = 0] \in Session
    BY <2>0 DEF Control, TypeOK, Session
  <2>2. rcv_ota' \in Session
    BY <2>1, IdleType DEF Control, TypeOK, Retire
  <2>3. sems' \in [Slot -> BOOLEAN]
    BY DEF Control, TypeOK, Retire, Joined
  <2>4. QED
    BY <2>2, <2>3 DEF Control, TypeOK, Retire, Joined
<1>2. Life'
  BY DEF Control, TypeOK, Session, Life, Live, Stage, Filling, Pending, Retire, Joined, Idle
<1>3. Stage'
  BY DEF Control, TypeOK, Session, Life, Stage, Once, Live, Filling, Pending, InQ, Shutdown, Verify,
     Activate, Retire, Joined, Idle
<1>4. Once'
  BY QueueHolds, NotACommand DEF Control, Once, InQ, Retire, Joined, Idle
<1>5. Owned'
  BY DEF Control, TypeOK, Session, Life, Owned, Pending, InQ, ProducerOwns, WriterAlive, Slot, Verify,
     Activate, Retire, Joined, Idle
<1>6. Last'
  BY DEF Control, TypeOK, Session, Stage, Last, Slot, Verify, Pending, InQ, Life, Retire, Joined, Idle
<1>7. Placed'
  BY DEF Control, TypeOK, Session, Placed, Retire, Joined, Idle
<1>8. Counted'
  BY DEF Control, TypeOK, Session, Stage, Life, Counted, Filling, Pending, Handed, Filled, Verify, InQ,
     Retire, Joined, Idle
<1>9. QED
  BY <1>1, <1>2, <1>3, <1>4, <1>5, <1>6, <1>7, <1>8 DEF Control

\* ABORT without a writer.
LEMMA AbortIdleKeeps ==
  ASSUME Control, AbortIdle
  PROVE  Control'
<1>1. TypeOK'
  BY IdleType DEF Control, TypeOK, AbortIdle, threadVars
<1>2. Life'
  BY DEF Control, TypeOK, Session, Life, Live, Stage, Filling, Pending, AbortIdle, Idle, threadVars
<1>3. Stage'
  BY DEF Control, TypeOK, Session, Life, Stage, Once, Live, Filling, Pending, InQ, Shutdown, Verify,
     Activate, AbortIdle, Idle, threadVars
<1>4. Once'
  BY QueueHolds, NotACommand DEF Control, Once, InQ, AbortIdle, Idle, threadVars
<1>5. Owned'
  BY DEF Control, TypeOK, Session, Life, Owned, Pending, InQ, ProducerOwns, WriterAlive, Slot, Verify,
     Activate, AbortIdle, Idle, threadVars
<1>6. Last'
  BY DEF Control, TypeOK, Session, Stage, Last, Slot, Verify, Pending, InQ, Life, AbortIdle, Idle,
     threadVars
<1>7. Placed'
  BY DEF Control, TypeOK, Session, Placed, AbortIdle, Idle, threadVars
<1>8. Counted'
  BY DEF Control, TypeOK, Session, Stage, Life, Counted, Filling, Pending, Handed, Filled, Verify, InQ,
     AbortIdle, Idle, threadVars
<1>9. QED
  BY <1>1, <1>2, <1>3, <1>4, <1>5, <1>6, <1>7, <1>8 DEF Control

\* BEGIN is refused.
LEMMA BeginFailsKeeps ==
  ASSUME Control, BeginFails
  PROVE  Control'
<1>1. TypeOK'
  <2>1. [Idle EXCEPT !.state = "error", !.err = "flash"] \in Session
    BY IdleType DEF Session
  <2>2. rcv_ota' \in Session
    BY <2>1, FailedType DEF Control, TypeOK, BeginFails
  <2>3. QED
    BY <2>2 DEF Control, TypeOK, BeginFails, threadVars
<1>2. Life'
  BY DEF Control, TypeOK, Session, Life, Live, Stage, Filling, Pending, BeginFails, Failed, Idle, threadVars
<1>3. Stage'
  BY DEF Control, TypeOK, Session, Life, Stage, Once, Live, Filling, Pending, InQ, Shutdown, Verify,
     Activate, BeginFails, Failed, Idle, threadVars
<1>4. Once'
  BY QueueHolds, NotACommand DEF Control, Once, InQ, BeginFails, Failed, Idle, threadVars
<1>5. Owned'
  <2>1. (rcv_ota'.off = rcv_ota.off /\ rcv_ota'.slot = rcv_ota.slot) \/ rcv_ota'.off = 0
    BY DEF Control, TypeOK, Session, BeginFails, Failed, Idle
  <2>2. QED
    BY <2>1 DEF Control, TypeOK, Session, Life, Owned, Pending, InQ, ProducerOwns, WriterAlive,
       BeginFails, threadVars
<1>6. Last'
  BY DEF Control, TypeOK, Session, Stage, Last, Slot, Verify, Pending, InQ, Life, BeginFails, Failed,
     Idle, threadVars
<1>7. Placed'
  BY DEF Control, TypeOK, Session, Placed, BeginFails, Failed, Idle, threadVars
<1>8. Counted'
  BY DEF Control, TypeOK, Session, Stage, Life, Counted, Filling, Pending, Handed, Filled, Verify, InQ,
     BeginFails, Failed, Idle, threadVars
<1>9. QED
  BY <1>1, <1>2, <1>3, <1>4, <1>5, <1>6, <1>7, <1>8 DEF Control

\* BEGIN is accepted: a fresh writer with fresh semaphores, and room for the image.
LEMMA BeginCommitsKeeps ==
  ASSUME Control, BeginCommits
  PROVE  Control'
<1>a. PICK img \in Images, base \in 0..FlashEnd :
        /\ Valid(ImageLen[img], base)
        /\ rcv_ota' = [Idle EXCEPT !.state = "ready", !.img = img, !.size = ImageLen[img],
                         !.staging = StagingBase(ImageLen[img]), !.page = StagingBase(ImageLen[img]),
                         !.target = CASE boot = "mcuboot" -> 0 [] base = 0 -> RunBase [] OTHER -> base]
  BY DEF BeginCommits
<1> DEFINE len == ImageLen[img]
           at == StagingBase(len)
           target == CASE boot = "mcuboot" -> 0 [] base = 0 -> RunBase [] OTHER -> base
<1>b. /\ len \in Nat /\ len > 0 /\ at \in 0..FlashEnd /\ target \in Nat /\ at + PagesFor(len) <= FlashEnd
      /\ RunBase * PageLen + appLen <= at * PageLen
      /\ boot # "mcuboot" => target + PagesFor(len) <= at
  <2>1. target \in Nat /\ (boot # "mcuboot" => target <= RunBase)
    BY <1>a, Lengths DEF Valid
  <2>2. len \in Nat
    BY OtaConstants
  <2> HIDE DEF target
  <2>3. QED
    BY <1>a, <2>1, <2>2, Staged DEF Control, TypeOK, Placed
<1> HIDE DEF len, at, target
<1>c. /\ rcv_ota' \in Session /\ rcv_ota'.state = "ready" /\ rcv_ota'.err = "none" /\ rcv_ota'.img = img /\ rcv_ota'.size = len
      /\ rcv_ota'.staging = at /\ rcv_ota'.page = at /\ rcv_ota'.target = target /\ rcv_ota'.off = 0
      /\ rcv_ota'.next = 0 /\ rcv_ota'.bytes = 0
  <2>1. rcv_ota' = [Idle EXCEPT !.state = "ready", !.img = img, !.size = len, !.staging = at, !.page = at, !.target = target]
    BY <1>a DEF len, at, target
  <2>2. rcv_ota' = [state |-> "ready", err |-> "none", img |-> img, size |-> len, next |-> 0, bytes |-> 0,
                   staging |-> at, target |-> target, off |-> 0, page |-> at, slot |-> "slot0", mixed |-> FALSE]
    BY <2>1 DEF Idle
  <2>3. 0 \in 0..PageLen
    BY Lengths
  <2>4. rcv_ota' \in Session
    BY <1>b, <2>2, <2>3 DEF Session, Slot
  <2>5. QED
    BY <2>2, <2>4
<1>d. /\ created' /\ ~stop' /\ ~werr' /\ queue' = <<>> /\ sems' = [s \in Slot |-> TRUE] /\ pcW' = "loop" /\ pcH' = "idle"
      /\ created' \in BOOLEAN /\ stop' \in BOOLEAN /\ werr' \in BOOLEAN /\ pcH = "begin" /\ ~created
      /\ UNCHANGED <<boot, appLen, copied, slots, rest, settings>>
  BY DEF BeginCommits, StartWriter
<1>e. \A c : ~InQ(c)'
  BY <1>d DEF InQ
<1>1. TypeOK'
  <2>1. flash' \in [Page -> PageData]
    BY BlankType DEF Control, TypeOK, BeginCommits
  <2>2. queue' \in Seq(Slot \cup {Shutdown, Verify, Activate}) /\ Len(queue') <= QueueLen
    BY <1>d DEF QueueLen
  <2>3. QED
    BY <1>c, <1>d, <2>1, <2>2 DEF Control, TypeOK
<1>2. Life'
  BY <1>c, <1>d DEF Control, Life, Live
<1>3. Stage'
  BY <1>c, <1>d, <1>e DEF Stage, Pending, Verify, Activate
<1>4. Once'
  BY <1>d DEF Once, InQ
<1>5. Owned'
  BY <1>c, <1>d, <1>e DEF Owned, Pending, ProducerOwns, Slot
<1>6. Last'
  BY <1>c, <1>d DEF Last, Verify
<1>7. Placed'
  BY <1>b, <1>c, <1>d DEF Control, Placed, len
<1>8. Counted'
  BY <1>b, <1>c, <1>d, <1>e, Lengths DEF Counted, Filling, Pending, Handed, Filled, Verify, Smaller
<1>9. QED
  BY <1>1, <1>2, <1>3, <1>4, <1>5, <1>6, <1>7, <1>8 DEF Control

\* A round of the copying loop.
LEMMA CopyKeeps ==
  ASSUME Control, Copy
  PROVE  Control'
<1> DEFINE s == rcv_ota.slot
<1>a. /\ Round \in 1..Len(rest) /\ Round <= PageLen - rcv_ota.off /\ rcv_ota.off < PageLen
      /\ created /\ ~stop /\ rcv_ota.state = "receiving" /\ pcH = "copy" /\ pcW \notin {"copy", "off"}
      /\ UNCHANGED <<boot, appLen, copied, werr, stop, created, pcW, flash, settings>>
  BY CopyEffect
<1>t. /\ rcv_ota \in Session /\ s \in Slot /\ Other(s) \in Slot /\ rcv_ota.err = "none" /\ rest \in Seq(Unit) /\ 0 \in 0..PageLen
  BY <1>a, Lengths DEF Control, TypeOK, Session, Stage, Filling, Other, Slot
<1>b. /\ rcv_ota.off \in Nat /\ rcv_ota.page \in Nat /\ rcv_ota.staging \in Nat /\ rcv_ota.staging <= rcv_ota.page
      /\ rcv_ota.size \in Nat /\ rcv_ota.bytes \in Nat /\ rcv_ota.next \in Nat /\ Handed \in Int
      /\ Len(rest) \in Nat /\ Len(rest) <= ChunkLen /\ Round \in Nat
  <2>1. Len(rest) <= ChunkLen /\ rcv_ota.staging <= rcv_ota.page
    BY <1>a DEF Control, TypeOK, Counted
  <2>2. Len(rest) \in Nat
    BY <1>t
  <2>3. /\ rcv_ota.off \in Nat /\ rcv_ota.page \in Nat /\ rcv_ota.staging \in Nat /\ rcv_ota.size \in Nat
        /\ rcv_ota.bytes \in Nat /\ rcv_ota.next \in Nat
    BY <1>t, Lengths DEF Session
  <2>4. Handed \in Int /\ Round \in Nat
    BY <1>a, <2>2, <2>3, Lengths DEF Handed
  <2>5. QED
    BY <2>1, <2>2, <2>3, <2>4
<1>c. /\ rcv_ota.bytes < rcv_ota.size /\ rcv_ota.bytes = rcv_ota.next * ChunkLen
      /\ Handed + rcv_ota.off + Len(rest) = Smaller(rcv_ota.bytes + ChunkLen, rcv_ota.size)
  BY <1>a, <1>b DEF Control, Counted, Filled
<1>d. /\ Total \in Nat /\ rcv_ota.bytes + Total = Smaller(rcv_ota.bytes + ChunkLen, rcv_ota.size)
      /\ (rcv_ota.next + 1) * ChunkLen = rcv_ota.bytes + ChunkLen
  <2>1. (rcv_ota.next + 1) * ChunkLen = rcv_ota.next * ChunkLen + ChunkLen
    BY <1>b, Lengths
  <2>2. Total = Smaller(ChunkLen, rcv_ota.size - rcv_ota.bytes) /\ rcv_ota.size - rcv_ota.bytes \in Nat
    BY <1>b, <1>c DEF Total
  <2>3. Total \in Nat
    BY <2>2, Lengths DEF Smaller
  <2>4. rcv_ota.bytes + Total = Smaller(rcv_ota.bytes + ChunkLen, rcv_ota.size)
    BY <1>b, <2>2, Lengths DEF Smaller
  <2>5. QED
    BY <1>c, <2>1, <2>3, <2>4
<1>e. /\ rcv_ota.page \in Page /\ rcv_ota.page + 1 \in 0..FlashEnd
      /\ (rcv_ota.page + 1 - rcv_ota.staging) * PageLen = Handed + PageLen
  <2>1. Handed < rcv_ota.size
    <3>1. Smaller(rcv_ota.bytes + ChunkLen, rcv_ota.size) <= rcv_ota.size
      BY <1>b, Lengths DEF Smaller
    <3>2. Handed + rcv_ota.off + Len(rest) <= rcv_ota.size /\ Len(rest) > 0
      BY <1>a, <1>b, <1>c, <3>1
    <3>3. QED
      BY <1>b, <3>2
  <2>2. QED
    BY <1>a, <2>1, PageFits
<1>f. /\ ~Pending(Verify) /\ ~Pending(Activate) /\ ~InQ(Shutdown) /\ queue \in Seq(Commands) /\ Len(queue) \in Nat
      /\ Len(queue) <= 2
  BY <1>a, Room, QueueHolds DEF Control, Stage, Filling
<1>g. CASE WaitFails
  <2>1. /\ rcv_ota' \in Session /\ rcv_ota'.state = "error" /\ rcv_ota'.err = "flash"
        /\ rcv_ota'.off = rcv_ota.off /\ rcv_ota'.slot = s /\ rcv_ota'.page = rcv_ota.page /\ rcv_ota'.img = rcv_ota.img
        /\ rcv_ota'.size = rcv_ota.size /\ rcv_ota'.staging = rcv_ota.staging /\ rcv_ota'.target = rcv_ota.target
    BY <1>b, <1>t, <1>g DEF WaitFails, Session, Failed
  <2>2. UNCHANGED <<slots, sems, queue>> /\ pcH' = "idle" /\ rest' = <<>>
    BY <1>g DEF WaitFails
  <2>3. TypeOK' /\ Once'
    BY <1>a, <1>b, <1>t, <2>1, <2>2, Lengths DEF Control, TypeOK, Once, InQ
  <2>4. Life' /\ Placed'
    BY <1>a, <2>1, <2>2 DEF Control, TypeOK, Life, Live, Placed
  <2>5. Stage' /\ Last' /\ Counted'
    BY <1>a, <1>f, <2>1, <2>2 DEF Control, Stage, Last, Counted, Filling, Pending, InQ, Verify, Activate
  <2>6. Owned'
    BY <1>a, <2>1, <2>2 DEF Control, Owned, Pending, InQ, ProducerOwns, WriterAlive
  <2>7. QED
    BY <2>3, <2>4, <2>5, <2>6 DEF Control
<1>h. CASE ~WaitFails
  <2>1. /\ rcv_ota.off = 0 => sems[s]
        /\ sems' = [sems EXCEPT ![s] = FALSE]
        /\ Fills \/ Sticks \/ Flushes
    BY <1>h, CopyEffect
  <2>2. /\ ~Pending(s) /\ sems' \in [Slot -> BOOLEAN] /\ ~sems'[s] /\ \A t \in Slot : t # s => sems'[t] = sems[t]
    BY <1>b, <1>t, <2>1 DEF Control, TypeOK, Owned, ProducerOwns
  <2>3. Buffers \in [Slot -> [data : PageData, addr : Page, len : 0..PageLen]]
    BY BuffersType DEF Control
  <2>4. CASE Fills
    <3>1. /\ rcv_ota' \in Session /\ rcv_ota'.state = "receiving" /\ rcv_ota'.err = "none" /\ rcv_ota'.off = rcv_ota.off + Round
          /\ rcv_ota'.slot = s /\ rcv_ota'.page = rcv_ota.page /\ rcv_ota'.img = rcv_ota.img /\ rcv_ota'.size = rcv_ota.size
          /\ rcv_ota'.staging = rcv_ota.staging /\ rcv_ota'.target = rcv_ota.target
          /\ rcv_ota'.bytes = rcv_ota.bytes + Total /\ rcv_ota'.next = rcv_ota.next + 1
      <4>1. rcv_ota.off + Round \in 0..PageLen
        <5>1. rcv_ota.off + Round < PageLen
          BY <2>4 DEF Fills
        <5>2. QED
          BY <1>b, <5>1, Lengths
      <4>2. rcv_ota.bytes + Total \in Nat /\ rcv_ota.next + 1 \in Nat
        BY <1>b, <1>d
      <4>3. QED
        BY <1>a, <1>b, <1>t, <2>4, <4>1, <4>2 DEF Fills, Session
    <3>2. slots' = Buffers /\ queue' = queue /\ rest' = <<>> /\ pcH' = "idle" /\ Round = Len(rest) /\ rcv_ota.off + Round < PageLen
      BY <2>4 DEF Fills
    <3>3. TypeOK'
      BY <1>a, <2>2, <2>3, <3>1, <3>2, Lengths DEF Control, TypeOK
    <3>4. Life' /\ Placed'
      BY <1>a, <3>1, <3>2 DEF Control, TypeOK, Life, Live, Placed
    <3>5. Stage' /\ Once' /\ Last'
      BY <1>a, <1>f, <3>1, <3>2 DEF Control, Stage, Once, Last, Filling, Pending, InQ, Verify, Activate
    <3>6. Owned'
      <4>1. rcv_ota'.off > 0
        BY <1>a, <1>b, <3>1
      <4>2. QED
        BY <1>a, <1>b, <1>t, <2>2, <3>1, <3>2, <4>1 DEF Control, Owned, Pending, InQ, ProducerOwns,
           WriterAlive
    <3>7. Counted'
      <4>1. Filled' = Handed + rcv_ota.off + Round
        BY <1>b, <3>1 DEF Filled, Handed
      <4>2. Filled' = rcv_ota'.bytes
        BY <1>b, <1>c, <1>d, <3>1, <3>2, <4>1
      <4>3. rcv_ota'.bytes = Smaller(rcv_ota'.next * ChunkLen, rcv_ota'.size)
        BY <1>d, <3>1
      <4>4. QED
        BY <1>a, <1>b, <1>f, <3>1, <3>2, <4>2, <4>3 DEF Counted, Pending, InQ
    <3>8. QED
      BY <3>3, <3>4, <3>5, <3>6, <3>7 DEF Control
  <2>5. CASE Sticks
    <3>1. /\ rcv_ota' \in Session /\ rcv_ota'.state = "error" /\ rcv_ota'.err = "flash" /\ rcv_ota'.off = PageLen
          /\ rcv_ota'.slot = s /\ rcv_ota'.page = rcv_ota.page /\ rcv_ota'.img = rcv_ota.img /\ rcv_ota'.size = rcv_ota.size
          /\ rcv_ota'.staging = rcv_ota.staging /\ rcv_ota'.target = rcv_ota.target
      <4>1. PageLen \in 0..PageLen
        BY Lengths
      <4>2. QED
        BY <1>b, <1>t, <2>5, <4>1 DEF Sticks, Session
    <3>2. slots' = Buffers /\ queue' = queue /\ rest' = <<>> /\ pcH' = "idle"
      BY <2>5 DEF Sticks
    <3>3. TypeOK'
      BY <1>a, <2>2, <2>3, <3>1, <3>2, Lengths DEF Control, TypeOK
    <3>4. Life' /\ Placed'
      BY <1>a, <3>1, <3>2 DEF Control, TypeOK, Life, Live, Placed
    <3>5. Stage' /\ Once' /\ Last' /\ Counted'
      BY <1>a, <1>f, <3>1, <3>2 DEF Control, Stage, Once, Last, Counted, Filling, Pending, InQ, Verify,
         Activate
    <3>6. Owned'
      BY <1>a, <1>b, <1>t, <2>2, <3>1, <3>2, Lengths DEF Control, Owned, Pending, InQ, ProducerOwns,
         WriterAlive
    <3>7. QED
      BY <3>3, <3>4, <3>5, <3>6 DEF Control
  <2>6. CASE Flushes
    <3>1. /\ rcv_ota' \in Session /\ rcv_ota'.state = "receiving" /\ rcv_ota'.err = "none" /\ rcv_ota'.off = 0
          /\ rcv_ota'.page = rcv_ota.page + 1 /\ rcv_ota'.img = rcv_ota.img /\ rcv_ota'.size = rcv_ota.size
          /\ rcv_ota'.staging = rcv_ota.staging /\ rcv_ota'.target = rcv_ota.target
          /\ \/ /\ rest' = <<>> /\ pcH' = "idle"
                /\ rcv_ota'.bytes = rcv_ota.bytes + Total /\ rcv_ota'.next = rcv_ota.next + 1
             \/ rest' # <<>> /\ pcH' = "copy" /\ rcv_ota'.bytes = rcv_ota.bytes /\ rcv_ota'.next = rcv_ota.next
      <4>1. rcv_ota.bytes + Total \in Nat /\ rcv_ota.next + 1 \in Nat
        BY <1>b, <1>d
      <4>2. CASE rest' = <<>>
        BY <1>a, <1>b, <1>t, <1>e, <2>6, <4>1, <4>2 DEF Flushes, Session
      <4>3. CASE rest' # <<>>
        BY <1>a, <1>b, <1>t, <1>e, <2>6, <4>3 DEF Flushes, Session
      <4>4. QED
        BY <4>2, <4>3
    <3>2. /\ slots' = PagedOut(Buffers, Full) /\ queue' = Append(queue, s) /\ rcv_ota.off + Round = PageLen
          /\ rest' = SubSeq(rest, Round + 1, Len(rest))
      BY <2>6 DEF Flushes
    <3>3. rest' \in Seq(Unit) /\ Len(rest') = Len(rest) - Round
      BY <1>a, <1>b, <1>t, <3>2
    <3>4. /\ queue' \in Seq(Commands) /\ Len(queue') = Len(queue) + 1 /\ Len(queue') <= QueueLen
          /\ \A i \in 1..Len(queue) : queue'[i] = queue[i]
          /\ queue'[Len(queue) + 1] = s
          /\ \A d : InQ(d)' <=> (InQ(d) \/ d = s)
      <4>1. s \in Commands /\ QueueLen = 4
        BY <1>b, <1>t DEF Commands, QueueLen
      <4>2. QED
        BY <1>f, <3>2, <4>1, QueueGrows
    <3>5. TypeOK'
      <4>1. Full.slot = s /\ Full.page \in Page /\ Full.off \in 0..PageLen
        BY <1>b, <1>t, <1>e, Lengths DEF Full, Session
      <4>2. slots' \in [Slot -> [data : PageData, addr : Page, len : 0..PageLen]]
        BY <1>b, <1>t, <2>3, <3>2, <4>1, PagedOutType
      <4>3. Len(rest') <= ChunkLen
        BY <1>a, <1>b, <3>3, Lengths
      <4>4. QED
        BY <1>a, <2>2, <3>1, <3>3, <3>4, <4>2, <4>3 DEF Control, TypeOK, Commands
    <3>6. Life' /\ Placed'
      BY <1>a, <3>1 DEF Control, TypeOK, Life, Live, Placed
    <3>7. Stage'
      BY <1>a, <1>b, <1>t, <1>f, <3>1, <3>4 DEF Control, Stage, Filling, Pending, Slot, Shutdown,
         Verify, Activate
    <3>8. Once'
      <4>1. \A i \in 1..Len(queue') : (i \in 1..Len(queue) /\ queue'[i] = queue[i]) \/ (i = Len(queue) + 1 /\ queue'[i] = s)
        BY <1>f, <3>4
      <4>2. QED
        BY <1>a, <1>f, <2>2, <4>1 DEF Control, Once, Pending, InQ
    <3>9. Owned'
      <4>1. /\ \A t \in Slot : ~ProducerOwns(t)' /\ (Pending(t)' <=> Pending(t) \/ t = s)
            /\ (WriterAlive /\ ~stop)' => WriterAlive /\ ~stop
        BY <1>a, <3>1, <3>4 DEF Pending, ProducerOwns, WriterAlive
      <4>2. \A t \in Slot : t # s => ~ProducerOwns(t)
        BY DEF ProducerOwns
      <4>3. QED
        BY <1>b, <1>t, <2>2, <4>1, <4>2 DEF Control, Owned
    <3>10. Last'
      <4>1. \A i \in 1..Len(queue') : queue'[i] # Verify
        BY <1>b, <1>t, <1>f, <3>4 DEF Pending, InQ, Slot, Verify
      <4>2. pcW' # Verify /\ rcv_ota'.err # "verify_ok"
        BY <1>a, <1>f, <3>1 DEF Pending
      <4>3. QED
        BY <4>1, <4>2 DEF Last
    <3>11. Counted'
      <4>1. Handed' = Handed + PageLen /\ Filled' = Handed'
        <5>1. Handed' = (rcv_ota.page + 1 - rcv_ota.staging) * PageLen
          <6>1. Handed' = (rcv_ota'.page - rcv_ota'.staging) * PageLen
            BY DEF Handed
          <6>2. rcv_ota'.page - rcv_ota'.staging = rcv_ota.page + 1 - rcv_ota.staging
            BY <1>b, <3>1
          <6>3. QED
            BY <6>1, <6>2
        <5>2. QED
          BY <1>b, <1>e, <3>1, <5>1, Lengths DEF Filled
      <4>2. Filled' + Len(rest') = Smaller(rcv_ota.bytes + ChunkLen, rcv_ota.size)
        <5>1. Handed + PageLen + (Len(rest) - Round) = Handed + rcv_ota.off + Len(rest)
          <6>1. rcv_ota.off + Round = PageLen
            BY <3>2
          <6>2. \A h, f, m, r \in Int : h + (f + r) + (m - r) = h + f + m
            OBVIOUS
          <6>3. QED
            BY <1>b, <6>1, <6>2
        <5>2. QED
          BY <1>c, <3>3, <4>1, <5>1
      <4>3. rest' = <<>> => Len(rest') = 0
        OBVIOUS
      <4>4. pcH' # "copy" => /\ Filled' = rcv_ota'.bytes
                             /\ rcv_ota'.bytes = Smaller(rcv_ota'.next * ChunkLen, rcv_ota'.size)
        <5>1. SUFFICES ASSUME pcH' # "copy"
                       PROVE  /\ Filled' = rcv_ota'.bytes
                              /\ rcv_ota'.bytes = Smaller(rcv_ota'.next * ChunkLen, rcv_ota'.size)
          OBVIOUS
        <5>2. Len(rest') = 0 /\ rcv_ota'.bytes = rcv_ota.bytes + Total /\ rcv_ota'.next = rcv_ota.next + 1
          BY <3>1, <4>3, <5>1
        <5>3. Filled' \in Int
          BY <1>b, <4>1, Lengths
        <5>4. Filled' = Smaller(rcv_ota.bytes + ChunkLen, rcv_ota.size)
          BY <4>2, <5>2, <5>3
        <5>5. QED
          BY <1>d, <3>1, <5>2, <5>4
      <4>5. pcH' = "copy" => /\ rest' # <<>> /\ rcv_ota'.bytes = rcv_ota'.next * ChunkLen /\ rcv_ota'.bytes < rcv_ota'.size
                             /\ Filled' + Len(rest') = Smaller(rcv_ota'.bytes + ChunkLen, rcv_ota'.size)
        BY <1>c, <3>1, <4>2
      <4>6. ~Pending(Verify)' /\ rcv_ota'.staging <= rcv_ota'.page /\ rcv_ota'.off < PageLen
        BY <1>a, <1>b, <1>t, <1>f, <3>1, <3>4, Lengths DEF Pending, Slot, Verify
      <4>7. QED
        BY <4>4, <4>5, <4>6 DEF Counted
    <3>12. QED
      BY <3>5, <3>6, <3>7, <3>8, <3>9, <3>10, <3>11 DEF Control
  <2>7. QED
    BY <2>1, <2>4, <2>5, <2>6
<1>z. QED
  BY <1>g, <1>h

\* k_thread_join times out.
LEMMA JoinTimeoutKeeps ==
  ASSUME Control, JoinTimeout
  PROVE  Control'
<1>1. TypeOK'
  BY DEF Control, TypeOK, JoinTimeout, threadVars, WriterAlive
<1>2. Life'
  BY DEF Control, TypeOK, Session, Life, Live, Stage, Filling, Pending, JoinTimeout, threadVars, WriterAlive
<1>3. Stage'
  BY DEF Control, TypeOK, Session, Life, Stage, Once, Live, Filling, Pending, InQ, Shutdown, Verify,
     Activate, JoinTimeout, threadVars, WriterAlive
<1>4. Once'
  BY QueueHolds, NotACommand DEF Control, Once, InQ, JoinTimeout, threadVars, WriterAlive
<1>5. Owned'
  BY DEF Control, TypeOK, Session, Life, Owned, Pending, InQ, ProducerOwns, WriterAlive, Slot, Verify,
     Activate, JoinTimeout, threadVars
<1>6. Last'
  BY DEF Control, TypeOK, Session, Stage, Last, Slot, Verify, Pending, InQ, Life, JoinTimeout,
     threadVars, WriterAlive
<1>7. Placed'
  BY DEF Control, TypeOK, Session, Placed, JoinTimeout, threadVars, WriterAlive
<1>8. Counted'
  BY DEF Control, TypeOK, Session, Stage, Life, Counted, Filling, Pending, Handed, Filled, Verify, InQ,
     JoinTimeout, threadVars, WriterAlive
<1>9. QED
  BY <1>1, <1>2, <1>3, <1>4, <1>5, <1>6, <1>7, <1>8 DEF Control

\* The head of the writer's loop.
LEMMA WriterLoopsKeeps ==
  ASSUME Control, WriterLoops
  PROVE  Control'
<1>1. TypeOK'
  BY DEF Control, TypeOK, WriterLoops, threadVars
<1>2. Life'
  BY DEF Control, TypeOK, Session, Life, Live, Stage, Filling, Pending, WriterLoops, threadVars
<1>3. Stage'
  BY DEF Control, TypeOK, Session, Life, Stage, Once, Live, Filling, Pending, InQ, Shutdown, Verify,
     Activate, WriterLoops, threadVars
<1>4. Once'
  BY QueueHolds, NotACommand DEF Control, Once, InQ, WriterLoops, threadVars
<1>5. Owned'
  BY DEF Control, TypeOK, Session, Life, Owned, Pending, InQ, ProducerOwns, WriterAlive, Slot, Verify,
     Activate, WriterLoops, threadVars
<1>6. Last'
  BY DEF Control, TypeOK, Session, Stage, Last, Slot, Verify, Pending, InQ, Life, WriterLoops, threadVars
<1>7. Placed'
  BY DEF Control, TypeOK, Session, Placed, WriterLoops, threadVars
<1>8. Counted'
  BY DEF Control, TypeOK, Session, Stage, Life, Counted, Filling, Pending, Handed, Filled, Verify, InQ,
     WriterLoops, threadVars
<1>9. QED
  BY <1>1, <1>2, <1>3, <1>4, <1>5, <1>6, <1>7, <1>8 DEF Control

\* The writer takes a command: it leaves the queue and is at work.
LEMMA WriterTakesKeeps ==
  ASSUME Control, WriterTakes
  PROVE  Control'
<1> DEFINE c == Head(queue)
<1>a. /\ pcW = "wait" /\ created /\ queue # <<>> /\ queue' = Tail(queue) /\ UNCHANGED <<created, stop>>
      /\ pcW' = IF stop \/ c = Shutdown THEN "exit" ELSE c
  BY DEF Control, Life, WriterTakes
<1>b. /\ queue' \in Seq(Commands) /\ Len(queue') = Len(queue) - 1 /\ Len(queue) > 0 /\ Len(queue) \in Nat
      /\ \A i \in 1..Len(queue') : i + 1 \in 1..Len(queue) /\ queue'[i] = queue[i + 1]
      /\ 1 \in 1..Len(queue) /\ c = queue[1] /\ c \in Commands
      /\ \A d : InQ(d) <=> (InQ(d)' \/ d = c)
  <2>1. queue \in Seq(Commands) /\ Len(queue) \in Nat
    BY QueueHolds DEF Control
  <2>2. QED
    BY <1>a, <2>1, QueueShrinks
<1> HIDE DEF c
<1>c. (stop /\ pcW' = "exit") \/ (~stop /\ pcW' = c /\ c # Shutdown)
  <2>1. c = Shutdown => stop
    BY <1>a, <1>b DEF Control, Stage
  <2>2. stop \in BOOLEAN
    BY DEF Control, TypeOK
  <2>3. QED
    BY <1>a, <2>1, <2>2
<1>d. ASSUME c # Shutdown, NEW i \in 1..Len(queue'), queue'[i] = c
      PROVE  FALSE
  <2>1. i + 1 = 1
    BY <1>b, <1>d DEF Control, Once
  <2>2. QED
    BY <2>1
<1>e. ASSUME NEW d, d = c, c # Shutdown
      PROVE  ~InQ(d)'
  BY <1>d, <1>e DEF InQ
<1>1. TypeOK'
  <2>1. pcW' \in Slot \cup {"exit", Verify, Activate}
    BY <1>b, <1>c DEF Commands
  <2>2. Len(queue') <= QueueLen
    BY <1>b DEF Control, TypeOK, QueueLen
  <2>3. QED
    BY <1>b, <2>1, <2>2 DEF Control, TypeOK, Commands, WriterTakes
<1>2. Life'
  BY <1>a, <1>b, <1>c DEF Control, TypeOK, Life, Live, Commands, Shutdown, Verify, Activate, Slot,
     WriterTakes
<1>3. Stage'
  BY <1>a, <1>b, <1>c DEF Control, TypeOK, Stage, Filling, Pending, Commands, Shutdown, Verify,
     Activate, Slot, WriterTakes
<1>4. Once'
  <2>1. ASSUME NEW i \in 1..Len(queue'), queue'[i] = pcW'
        PROVE  FALSE
    <3>1. pcW' \in Commands
      <4>1. i + 1 \in 1..Len(queue) /\ queue'[i] = queue[i + 1]
        BY <1>b
      <4>2. QED
        BY <2>1, <4>1, QueueHolds DEF Control
    <3>2. pcW' = c /\ c # Shutdown
      BY <1>c, <3>1, NotACommand
    <3>3. QED
      BY <1>d, <2>1, <3>2
  <2>2. ASSUME NEW i \in 1..Len(queue'), NEW j \in 1..Len(queue'), queue'[i] = queue'[j], queue'[i] # Shutdown
        PROVE  i = j
    <3>1. i + 1 = j + 1
      BY <1>b, <2>2 DEF Control, Once
    <3>2. QED
      BY <3>1
  <2>3. QED
    BY <2>1, <2>2 DEF Once, InQ
<1>5. Owned'
  BY <1>a, <1>b, <1>c, <1>e DEF Control, Life, Owned, Pending, ProducerOwns, WriterAlive, Commands,
     Shutdown, Slot, WriterTakes
<1>6. Last'
  <2>1. ASSUME NEW i \in 1..Len(queue'), c = Verify
        PROVE  queue'[i] \notin Slot
    <3>1. 1 < i + 1 /\ i + 1 \in 1..Len(queue) /\ queue'[i] = queue[i + 1]
      BY <1>b
    <3>2. QED
      BY <1>b, <2>1, <3>1 DEF Control, Last
  <2>2. pcW' = Verify => c = Verify
    BY <1>c DEF Verify
  <2>3. rcv_ota.err = "verify_ok" => pcW' \notin Slot
    BY <1>b, <1>c DEF Control, Last, Slot
  <2>4. ASSUME NEW i \in 1..Len(queue'), NEW j \in 1..Len(queue'), i < j, queue'[i] = Verify
        PROVE  queue'[j] \notin Slot
    <3>1. i + 1 < j + 1
      BY <2>4
    <3>2. QED
      BY <1>b, <2>4, <3>1 DEF Control, Last
  <2>5. rcv_ota.err = "verify_ok" => \A i \in 1..Len(queue') : queue'[i] \notin Slot
    BY <1>b DEF Control, Last
  <2>6. rcv_ota' = rcv_ota
    BY DEF WriterTakes
  <2>7. QED
    BY <2>1, <2>2, <2>3, <2>4, <2>5, <2>6 DEF Last
<1>7. Placed'
  BY DEF Control, Placed, WriterTakes
<1>8. Counted'
  BY <1>a, <1>b, <1>c DEF Control, Counted, Filling, Pending, Handed, Filled, Verify, WriterTakes
<1>9. QED
  BY <1>1, <1>2, <1>3, <1>4, <1>5, <1>6, <1>7, <1>8 DEF Control

\* The writer gives a page buffer back.
LEMMA WriterPageKeeps ==
  ASSUME Control, NEW s \in Slot, WriterPage(s)
  PROVE  Control'
<1>1. TypeOK'
  <2>1. flash' \in [Page -> PageData]
    <3> DEFINE req == slots[s]
               erased == IF boot = "mcuboot" THEN flash[req.addr] ELSE Blank
               With(k) == [n \in 0..(PageLen - 1) |-> IF n < k THEN req.data[n] ELSE erased[n]]
    <3>1. req.addr \in Page /\ req.data \in PageData /\ erased \in PageData
      BY BlankType DEF Control, TypeOK
    <3>2. \A k : With(k) \in PageData
      BY <3>1 DEF PageData
    <3>3. flash' = flash \/ \E k : flash' = [flash EXCEPT ![req.addr] = With(k)]
      BY DEF WriterPage
    <3> HIDE DEF With, req
    <3>4. QED
      BY <3>1, <3>2, <3>3 DEF Control, TypeOK
  <2>2. QED
    BY <2>1 DEF Control, TypeOK, Slot, WriterPage
<1>2. Life'
  BY DEF Control, TypeOK, Life, Slot, WriterPage
<1>3. Stage'
  BY DEF Control, TypeOK, Session, Life, Stage, Once, Live, Filling, Pending, InQ, Shutdown, Verify,
     Activate, WriterPage, threadVars
<1>4. Once'
  BY QueueHolds, NotACommand DEF Control, Once, InQ, WriterPage
<1>5. Owned'
  <2>1. ~Pending(s)' /\ ~ProducerOwns(s)' /\ sems' = [sems EXCEPT ![s] = TRUE]
    BY DEF Control, Once, Owned, Pending, InQ, ProducerOwns, Slot, WriterPage
  <2>2. ASSUME NEW t \in Slot, t # s
        PROVE  sems'[t] = sems[t] /\ (Pending(t)' <=> Pending(t)) /\ (ProducerOwns(t)' <=> ProducerOwns(t))
    BY <2>1, <2>2 DEF Control, TypeOK, Pending, InQ, ProducerOwns, Slot, WriterPage
  <2>3. sems'[s]
    BY <2>1 DEF Control, TypeOK
  <2>4. (WriterAlive /\ ~stop)' => WriterAlive /\ ~stop
    BY DEF WriterAlive, Slot, WriterPage
  <2>5. QED
    BY <2>1, <2>2, <2>3, <2>4 DEF Control, Owned
<1>6. Last'
  BY DEF Control, TypeOK, Session, Stage, Last, Slot, Verify, Pending, InQ, Life, WriterPage, threadVars
<1>7. Placed'
  BY DEF Control, TypeOK, Session, Placed, WriterPage, threadVars
<1>8. Counted'
  BY DEF Control, TypeOK, Session, Stage, Life, Counted, Filling, Pending, Handed, Filled, Verify, InQ,
     WriterPage, threadVars
<1>9. QED
  BY <1>1, <1>2, <1>3, <1>4, <1>5, <1>6, <1>7, <1>8 DEF Control

\* The verdict on the image.
LEMMA WriterVerifiesKeeps ==
  ASSUME Control, WriterVerifies
  PROVE  Control'
<1>1. TypeOK'
  <2>1. [rcv_ota EXCEPT !.err = "verify_ok"] \in Session
    BY DEF Control, TypeOK, Session
  <2>2. rcv_ota' \in Session
    BY <2>1, FailedType DEF Control, TypeOK, WriterVerifies
  <2>3. QED
    BY <2>2 DEF Control, TypeOK, WriterVerifies, threadVars
<1>2. Life'
  BY DEF Control, TypeOK, Session, Life, Live, Stage, Filling, Pending, WriterVerifies, Failed,
     threadVars, Verify
<1>3. Stage'
  BY DEF Control, TypeOK, Session, Life, Stage, Once, Live, Filling, Pending, InQ, Shutdown, Verify,
     Activate, WriterVerifies, Failed, threadVars
<1>4. Once'
  BY QueueHolds, NotACommand DEF Control, Once, InQ, WriterVerifies, Failed, threadVars, Verify
<1>5. Owned'
  BY DEF Control, TypeOK, Session, Life, Owned, Pending, InQ, ProducerOwns, WriterAlive, Slot, Verify,
     Activate, WriterVerifies, Failed, threadVars
<1>6. Last'
  BY DEF Control, TypeOK, Session, Stage, Last, Slot, Verify, Pending, InQ, Life, WriterVerifies,
     Failed, threadVars
<1>7. Placed'
  BY DEF Control, TypeOK, Session, Placed, WriterVerifies, Failed, threadVars, Verify
<1>8. Counted'
  BY DEF Control, TypeOK, Session, Stage, Life, Counted, Filling, Pending, Handed, Filled, Verify, InQ,
     WriterVerifies, Failed, threadVars
<1>9. QED
  BY <1>1, <1>2, <1>3, <1>4, <1>5, <1>6, <1>7, <1>8 DEF Control

\* Staging cannot be read.
LEMMA ReadFailsKeeps ==
  ASSUME Control, ReadFails
  PROVE  Control'
<1>1. TypeOK'
  BY FailedType DEF Control, TypeOK, ReadFails, threadVars, Verify
<1>2. Life'
  BY DEF Control, TypeOK, Session, Life, Live, Stage, Filling, Pending, ReadFails, Failed, threadVars,
     Verify
<1>3. Stage'
  BY DEF Control, TypeOK, Session, Life, Stage, Once, Live, Filling, Pending, InQ, Shutdown, Verify,
     Activate, ReadFails, Failed, threadVars
<1>4. Once'
  BY QueueHolds, NotACommand DEF Control, Once, InQ, ReadFails, Failed, threadVars, Verify
<1>5. Owned'
  BY DEF Control, TypeOK, Session, Life, Owned, Pending, InQ, ProducerOwns, WriterAlive, Slot, Verify,
     Activate, ReadFails, Failed, threadVars
<1>6. Last'
  BY DEF Control, TypeOK, Session, Stage, Last, Slot, Verify, Pending, InQ, Life, ReadFails, Failed,
     threadVars
<1>7. Placed'
  BY DEF Control, TypeOK, Session, Placed, ReadFails, Failed, threadVars, Verify
<1>8. Counted'
  BY DEF Control, TypeOK, Session, Stage, Life, Counted, Filling, Pending, Handed, Filled, Verify, InQ,
     ReadFails, Failed, threadVars
<1>9. QED
  BY <1>1, <1>2, <1>3, <1>4, <1>5, <1>6, <1>7, <1>8 DEF Control

\* The writer starts to install.
LEMMA WriterActivatesKeeps ==
  ASSUME Control, WriterActivates
  PROVE  Control'
<1>1. TypeOK'
  BY DEF Control, TypeOK, Session, WriterActivates, threadVars
<1>2. Life'
  BY DEF Control, TypeOK, Session, Life, Live, Stage, Filling, Pending, WriterActivates, threadVars,
     Activate
<1>3. Stage'
  BY DEF Control, TypeOK, Session, Life, Stage, Once, Live, Filling, Pending, InQ, Shutdown, Verify,
     Activate, WriterActivates, threadVars
<1>4. Once'
  BY QueueHolds, NotACommand DEF Control, Once, InQ, WriterActivates, threadVars, Activate
<1>5. Owned'
  BY DEF Control, TypeOK, Session, Life, Owned, Pending, InQ, ProducerOwns, WriterAlive, Slot, Verify,
     Activate, WriterActivates, threadVars
<1>6. Last'
  BY DEF Control, TypeOK, Session, Stage, Last, Slot, Verify, Pending, InQ, Life, WriterActivates,
     threadVars, Activate
<1>7. Placed'
  BY DEF Control, TypeOK, Session, Placed, WriterActivates, threadVars, Activate
<1>8. Counted'
  BY DEF Control, TypeOK, Session, Stage, Life, Counted, Filling, Pending, Handed, Filled, Verify, InQ,
     WriterActivates, threadVars, Activate
<1>9. QED
  BY <1>1, <1>2, <1>3, <1>4, <1>5, <1>6, <1>7, <1>8 DEF Control

\* MCUboot is asked for the upgrade.
LEMMA RequestUpgradeKeeps ==
  ASSUME Control, RequestUpgrade
  PROVE  Control'
<1>1. TypeOK'
  <2>1. [rcv_ota EXCEPT !.state = "complete"] \in Session
    BY DEF Control, TypeOK, Session
  <2>2. rcv_ota' \in Session
    BY <2>1, FailedType DEF Control, TypeOK, RequestUpgrade
  <2>3. rcv_ota.img \in Images
    BY DEF Control, Life, Placed, RequestUpgrade
  <2>4. QED
    BY <2>2, <2>3 DEF Control, TypeOK, RequestUpgrade, threadVars
<1>2. Life'
  BY DEF Control, TypeOK, Session, Life, Live, Stage, Filling, Pending, RequestUpgrade, Failed, threadVars
<1>3. Stage'
  BY DEF Control, TypeOK, Session, Life, Stage, Once, Live, Filling, Pending, InQ, Shutdown, Verify,
     Activate, RequestUpgrade, Failed, threadVars
<1>4. Once'
  BY QueueHolds, NotACommand DEF Control, Once, InQ, RequestUpgrade, Failed, threadVars
<1>5. Owned'
  BY DEF Control, TypeOK, Session, Life, Owned, Pending, InQ, ProducerOwns, WriterAlive, Slot, Verify,
     Activate, RequestUpgrade, Failed, threadVars
<1>6. Last'
  BY DEF Control, TypeOK, Session, Stage, Last, Slot, Verify, Pending, InQ, Life, RequestUpgrade,
     Failed, threadVars
<1>7. Placed'
  BY DEF Control, TypeOK, Session, Placed, RequestUpgrade, Failed, threadVars
<1>8. Counted'
  BY DEF Control, TypeOK, Session, Stage, Life, Counted, Filling, Pending, Handed, Filled, Verify, InQ,
     RequestUpgrade, Failed, threadVars
<1>9. QED
  BY <1>1, <1>2, <1>3, <1>4, <1>5, <1>6, <1>7, <1>8 DEF Control

\* The copier starts.
LEMMA StartCopierKeeps ==
  ASSUME Control, StartCopier
  PROVE  Control'
<1>1. TypeOK'
  BY DEF Control, TypeOK, StartCopier, threadVars
<1>2. Life'
  BY DEF Control, TypeOK, Session, Life, Live, Stage, Filling, Pending, StartCopier, threadVars
<1>3. Stage'
  BY DEF Control, TypeOK, Session, Life, Stage, Once, Live, Filling, Pending, InQ, Shutdown, Verify,
     Activate, StartCopier, threadVars
<1>4. Once'
  BY QueueHolds, NotACommand DEF Control, Once, InQ, StartCopier, threadVars
<1>5. Owned'
  BY DEF Control, TypeOK, Session, Life, Owned, Pending, InQ, ProducerOwns, WriterAlive, Slot, Verify,
     Activate, StartCopier, threadVars
<1>6. Last'
  BY DEF Control, TypeOK, Session, Stage, Last, Slot, Verify, Pending, InQ, Life, StartCopier, threadVars
<1>7. Placed'
  BY DEF Control, TypeOK, Session, Placed, StartCopier, threadVars
<1>8. Counted'
  BY DEF Control, TypeOK, Session, Stage, Life, Counted, Filling, Pending, Handed, Filled, Verify, InQ,
     StartCopier, threadVars
<1>9. QED
  BY <1>1, <1>2, <1>3, <1>4, <1>5, <1>6, <1>7, <1>8 DEF Control

\* The copier puts a page in place, below staging.
LEMMA CopyPageKeeps ==
  ASSUME Control, CopyPage
  PROVE  Control'
<1>a. /\ created /\ boot # "mcuboot" /\ rcv_ota \in Session /\ copied \in Nat /\ rcv_ota.size \in Nat
      /\ rcv_ota.target \in Nat /\ rcv_ota.staging \in Nat
      /\ copied < PagesFor(rcv_ota.size) /\ rcv_ota.staging + PagesFor(rcv_ota.size) <= FlashEnd
      /\ rcv_ota.target + PagesFor(rcv_ota.size) <= rcv_ota.staging
  BY DEF Control, TypeOK, Session, Life, Placed, CopyPage
<1>b. PagesFor(rcv_ota.size) \in Nat
  BY <1>a, PagesOf
<1>1. TypeOK'
  <2>1. rcv_ota.staging + copied \in Page /\ rcv_ota.target + copied \in Page /\ copied + 1 \in 0..FlashEnd
    BY <1>a, <1>b, Lengths DEF Page
  <2>2. flash' \in [Page -> PageData]
    <3> DEFINE src == flash[rcv_ota.staging + copied]
               put(words) == [k \in 0..(PageLen - 1) |-> IF k < words THEN src[k] ELSE Erased]
    <3>1. src \in PageData /\ flash[rcv_ota.target + copied] \in PageData /\ Erased \in Unit
      BY <2>1 DEF Control, TypeOK, Unit
    <3>2. \A words : put(words) \in PageData
      BY <3>1 DEF PageData
    <3>3. PICK page : flash' = [flash EXCEPT ![rcv_ota.target + copied] = page]
                        /\ (page = flash[rcv_ota.target + copied] \/ \E words : page = put(words))
      BY DEF CopyPage
    <3> HIDE DEF put
    <3>4. page \in PageData
      BY <3>1, <3>2, <3>3
    <3>5. QED
      BY <2>1, <3>3, <3>4 DEF Control, TypeOK
  <2>3. QED
    BY <2>1, <2>2 DEF Control, TypeOK, CopyPage, threadVars
<1>2. Life'
  BY DEF Control, TypeOK, Session, Life, Live, Stage, Filling, Pending, CopyPage, threadVars
<1>3. Stage'
  BY DEF Control, TypeOK, Session, Life, Stage, Once, Live, Filling, Pending, InQ, Shutdown, Verify,
     Activate, CopyPage, threadVars
<1>4. Once'
  BY QueueHolds, NotACommand DEF Control, Once, InQ, CopyPage, threadVars
<1>5. Owned'
  BY DEF Control, TypeOK, Session, Life, Owned, Pending, InQ, ProducerOwns, WriterAlive, Slot, Verify,
     Activate, CopyPage, threadVars
<1>6. Last'
  BY DEF Control, TypeOK, Session, Stage, Last, Slot, Verify, Pending, InQ, Life, CopyPage, threadVars
<1>7. Placed'
  BY DEF Control, TypeOK, Session, Placed, CopyPage, threadVars
<1>8. Counted'
  BY DEF Control, TypeOK, Session, Stage, Life, Counted, Filling, Pending, Handed, Filled, Verify, InQ,
     CopyPage, threadVars
<1>9. QED
  BY <1>1, <1>2, <1>3, <1>4, <1>5, <1>6, <1>7, <1>8 DEF Control

\* The settings of the boot loader.
LEMMA WriteSettingsKeeps ==
  ASSUME Control, WriteSettings
  PROVE  Control'
<1>1. TypeOK'
  BY DEF Control, TypeOK, Life, Placed, WriteSettings, threadVars
<1>2. Life'
  BY DEF Control, TypeOK, Session, Life, Live, Stage, Filling, Pending, WriteSettings, threadVars
<1>3. Stage'
  BY DEF Control, TypeOK, Session, Life, Stage, Once, Live, Filling, Pending, InQ, Shutdown, Verify,
     Activate, WriteSettings, threadVars
<1>4. Once'
  BY QueueHolds, NotACommand DEF Control, Once, InQ, WriteSettings, threadVars
<1>5. Owned'
  BY DEF Control, TypeOK, Session, Life, Owned, Pending, InQ, ProducerOwns, WriterAlive, Slot, Verify,
     Activate, WriteSettings, threadVars
<1>6. Last'
  BY DEF Control, TypeOK, Session, Stage, Last, Slot, Verify, Pending, InQ, Life, WriteSettings, threadVars
<1>7. Placed'
  BY DEF Control, TypeOK, Session, Placed, WriteSettings, threadVars
<1>8. Counted'
  BY DEF Control, TypeOK, Session, Stage, Life, Counted, Filling, Pending, Handed, Filled, Verify, InQ,
     WriteSettings, threadVars
<1>9. QED
  BY <1>1, <1>2, <1>3, <1>4, <1>5, <1>6, <1>7, <1>8 DEF Control

\* Power fails during the copy.
LEMMA PowerFailsKeeps ==
  ASSUME Control, PowerFails
  PROVE  Control'
<1>1. TypeOK'
  BY BlankType DEF Control, TypeOK, PowerFails, threadVars
<1>2. Life'
  BY DEF Control, TypeOK, Session, Life, Live, Stage, Filling, Pending, PowerFails, threadVars
<1>3. Stage'
  BY DEF Control, TypeOK, Session, Life, Stage, Once, Live, Filling, Pending, InQ, Shutdown, Verify,
     Activate, PowerFails, threadVars
<1>4. Once'
  BY QueueHolds, NotACommand DEF Control, Once, InQ, PowerFails, threadVars
<1>5. Owned'
  BY DEF Control, TypeOK, Session, Life, Owned, Pending, InQ, ProducerOwns, WriterAlive, Slot, Verify,
     Activate, PowerFails, threadVars
<1>6. Last'
  BY DEF Control, TypeOK, Session, Stage, Last, Slot, Verify, Pending, InQ, Life, PowerFails, threadVars
<1>7. Placed'
  BY DEF Control, TypeOK, Session, Placed, PowerFails, threadVars
<1>8. Counted'
  BY DEF Control, TypeOK, Session, Stage, Life, Counted, Filling, Pending, Handed, Filled, Verify, InQ,
     PowerFails, threadVars
<1>9. QED
  BY <1>1, <1>2, <1>3, <1>4, <1>5, <1>6, <1>7, <1>8 DEF Control

----------------------------------------------------------------------------
(* Page buffers *)

\* Power-on.
LEMMA ControlInit ==
  ASSUME Init
  PROVE  Control
<1>0. queue = <<>> /\ Len(queue) = 0 /\ \A c : ~InQ(c)
  BY DEF Init, InQ
<1>1. TypeOK
  <2>1. flash \in [Page -> PageData]
    BY DEF Init, PageData, Unit
  <2>2. slots \in [Slot -> [data : PageData, addr : Page, len : 0..PageLen]]
    BY BlankType, Lengths DEF Init, Page
  <2>3. rcv_ota \in Session
    BY IdleType DEF Init
  <2>4. queue \in Seq(Slot \cup {Shutdown, Verify, Activate}) /\ Len(queue) <= QueueLen
    BY <1>0 DEF QueueLen
  <2>5. rest \in Seq(Unit) /\ Len(rest) <= ChunkLen /\ copied \in 0..FlashEnd
    BY Lengths DEF Init
  <2>6. QED
    BY <2>1, <2>2, <2>3, <2>4, <2>5 DEF Init, TypeOK
<1>2. Life /\ Stage /\ Placed /\ Counted
  BY DEF Init, Life, Stage, Placed, Counted, Idle, Live
<1>3. Once /\ Last
  BY <1>0 DEF Init, Once, Last, Idle, Verify
<1>4. Owned
  BY <1>0 DEF Init, Owned, Pending, ProducerOwns, WriterAlive, Idle, Slot
<1>5. QED
  BY <1>1, <1>2, <1>3, <1>4 DEF Control

\* Every step keeps the control part of the invariant.
LEMMA ControlNext ==
  ASSUME Control, [Next]_vars
  PROVE  Control'
<1>1. CASE Report
  BY <1>1, HandleBeginKeeps, HandleAbortKeeps, HandleVerifyKeeps, HandleActivateKeeps, HandleDataKeeps
     DEF Report
<1>2. CASE Continue
  BY <1>2, RetireKeeps, AbortIdleKeeps, BeginFailsKeeps, BeginCommitsKeeps, CopyKeeps DEF Continue
<1>3. CASE JoinTimeout
  BY <1>3, JoinTimeoutKeeps
<1>4. CASE Writer
  BY <1>4, WriterLoopsKeeps, WriterTakesKeeps, WriterPageKeeps, WriterVerifiesKeeps, ReadFailsKeeps,
     WriterActivatesKeeps, RequestUpgradeKeeps, StartCopierKeeps, CopyPageKeeps, WriteSettingsKeeps DEF Writer
<1>5. CASE PowerFails
  BY <1>5, PowerFailsKeeps
<1>6. CASE UNCHANGED vars
  BY <1>6 DEF vars, Control, TypeOK, Life, Stage, Once, Owned, Last, Placed, Counted, Filling, Pending, InQ,
     ProducerOwns, WriterAlive, Handed, Filled
<1>7. QED
  BY <1>1, <1>2, <1>3, <1>4, <1>5, <1>6 DEF Next

\* Ownership with counting.
LEMMA ControlSound ==
  ASSUME Control
  PROVE  SlotsSound
<1>1. \A c : Queued(c) # {} <=> InQ(c)
  BY QueueHolds DEF Control, Queued, InQ
<1>2. \A s \in Slot : WriterOwns(s) <=> Pending(s)
  BY <1>1 DEF WriterOwns, Pending
<1>3. ASSUME NEW s \in Slot
      PROVE  Cardinality(Queued(s)) + (IF pcW = s THEN 1 ELSE 0) <= 1
  <2>1. CASE InQ(s)
    <3>1. PICK i \in 1..Len(queue) : queue[i] = s
      BY <2>1 DEF InQ
    <3>2. Queued(s) = {i} /\ pcW # s
      BY <3>1, QueueHolds DEF Control, Once, Queued, InQ, Slot, Shutdown
    <3>3. Cardinality(Queued(s)) = 1
      BY <3>2, FS_Singleton
    <3>4. QED
      BY <3>2, <3>3
  <2>2. CASE ~InQ(s)
    <3>1. Cardinality(Queued(s)) = 0
      BY <1>1, <2>2, FS_EmptySet
    <3>2. QED
      BY <3>1
  <2>3. QED
    BY <2>1, <2>2
<1>4. SlotOwnership
  BY <1>2, <1>3 DEF Control, Owned, SlotOwnership
<1>5. QED
  BY <1>4 DEF Control, SlotsSound

\* Every page buffer of receiver_ota.c has one owner at most, its semaphore, the USB
\* thread that fills it or the writer, through errors, timeouts of the join and
\* restarts of the writer, and none is lost while the writer serves the queue.
THEOREM SlotsAreSound == Spec => []SlotsSound
<1>1. Init => Control
  BY ControlInit
<1>2. Control /\ [Next]_vars => Control'
  BY ControlNext
<1>3. Control => SlotsSound
  BY ControlSound
<1>4. QED
  BY <1>1, <1>2, <1>3, PTL DEF Spec

\* BEGIN and ABORT replace a session only when its writer has ended.
THEOREM WriterEndsFirst == Spec => NoResetUnderWriter
<1>1. ASSUME Control, Next, rcv_ota'.state \in {"idle", "ready"}, rcv_ota' # rcv_ota
      PROVE  ~WriterAlive
  <2>1. rcv_ota \in Session
    BY <1>1 DEF Control, TypeOK
  <2>2. \A e : Failed(e).state = "error"
    BY <2>1 DEF Failed, Session
  <2>3. ASSUME WriterAlive
        PROVE  FALSE
    <3>1. ~HandleBegin /\ ~HandleAbort /\ ~AbortIdle /\ ~BeginFails /\ ~BeginCommits /\ ~Retire
      BY <1>1, <2>2, <2>3 DEF WriterAlive, HandleBegin, HandleAbort, AbortIdle, BeginFails,
         BeginCommits, Retire, Joined
    <3>2. ~HandleActivate /\ \A img \in Images, seq \in 0..rcv_ota.size : ~HandleData(img, seq)
      BY <1>1, <2>1, <2>2 DEF HandleActivate, HandleData, Session
    <3>3. ~HandleVerify
      BY <1>1, <2>1, <2>2, VerifyEffect DEF Session
    <3>4. ~Copy
      <4>1. SUFFICES ASSUME Copy
                     PROVE  FALSE
        OBVIOUS
      <4>2. rcv_ota.state = "receiving" /\ (WaitFails \/ Fills \/ Sticks \/ Flushes)
        BY <1>1, <4>1, CopyEffect
      <4>3. rcv_ota'.state \in {"receiving", "error"}
        BY <2>1, <2>2, <4>2 DEF WaitFails, Fills, Sticks, Flushes, Session
      <4>4. QED
        BY <1>1, <4>3
    <3>5. ~WriterVerifies
      BY <1>1, <2>1, <2>2, <2>3 DEF WriterVerifies, Control, Stage, Pending, WriterAlive, Session
    <3>6. ~ReadFails /\ ~WriterActivates /\ ~RequestUpgrade
      BY <1>1, <2>1, <2>2 DEF ReadFails, WriterActivates, RequestUpgrade, Session
    <3>7. ~JoinTimeout /\ ~WriterLoops /\ ~WriterTakes /\ ~\E s \in Slot : WriterPage(s)
      BY <1>1 DEF JoinTimeout, WriterLoops, WriterTakes, WriterPage
    <3>8. ~StartCopier /\ ~CopyPage /\ ~WriteSettings /\ ~PowerFails
      BY <1>1 DEF StartCopier, CopyPage, WriteSettings, PowerFails
    <3>9. QED
      BY <1>1, <3>1, <3>2, <3>3, <3>4, <3>5, <3>6, <3>7, <3>8 DEF Next, Report, Continue, Writer
  <2>4. QED
    BY <2>3
<1>2. Control /\ [Next]_vars => [rcv_ota'.state \in {"idle", "ready"} /\ rcv_ota' # rcv_ota => ~WriterAlive]_vars
  BY <1>1
<1>3. Init => Control
  BY ControlInit
<1>4. Control /\ [Next]_vars => Control'
  BY ControlNext
<1>5. QED
  BY <1>2, <1>3, <1>4, PTL DEF Spec, NoResetUnderWriter

----------------------------------------------------------------------------
(* What the pages hold *)

\* A step that leaves the session, the buffers and the pending pages alone.
LEMMA KeptSame ==
  ASSUME Whole, Sending' => Sending, slots' = slots, flash' = flash, pcH' = pcH, rest' = rest,
         \A s \in Slot : Pending(s)' <=> Pending(s), Filling' => Filling,
         rcv_ota'.img = rcv_ota.img, rcv_ota'.size = rcv_ota.size, rcv_ota'.staging = rcv_ota.staging,
         rcv_ota'.page = rcv_ota.page, rcv_ota'.off = rcv_ota.off, rcv_ota'.slot = rcv_ota.slot
  PROVE  Whole'
<1>1. SUFFICES ASSUME Kept
               PROVE  Kept'
  BY DEF Whole
<1>2. /\ \A s \in Slot : GoodSlot(s)' <=> GoodSlot(s)
      /\ \A p : Written(p)' <=> Written(p)
      /\ Filled' = Filled
  BY DEF GoodSlot, Written, Inside, Part, Filled, Handed
<1>3. \A s \in Slot : Pending(s)' => GoodSlot(s)'
  BY <1>1, <1>2 DEF Kept
<1>4. \A p \in rcv_ota'.staging..(rcv_ota'.page - 1) : Written(p)' \/ \E s \in Slot : Pending(s)' /\ slots'[s].addr = p
  BY <1>1, <1>2 DEF Kept
<1>5. Filling' => \A k \in 0..(rcv_ota'.off - 1) : slots'[rcv_ota'.slot].data[k] = Part(rcv_ota.page, k)'
  BY <1>1 DEF Kept, Part
<1>6. pcH' = "copy" => \A n \in 1..Len(rest') : rest'[n] = <<rcv_ota'.img, Filled' + n - 1>>
  BY <1>1, <1>2 DEF Kept
<1>7. QED
  BY <1>3, <1>4, <1>5, <1>6 DEF Kept

\* Steps after which no transfer goes on.
LEMMA NothingSent ==
  ASSUME Control,
         \/ HandleBegin \/ HandleAbort \/ HandleActivate \/ Retire \/ AbortIdle \/ BeginFails \/ JoinTimeout
         \/ ReadFails \/ WriterActivates \/ RequestUpgrade \/ StartCopier \/ CopyPage \/ WriteSettings \/ PowerFails
  PROVE  ~Sending'
<1>0. rcv_ota \in Session /\ \A e : Failed(e).state = "error"
  BY DEF Control, TypeOK, Failed, Session
<1>1. CASE HandleBegin \/ HandleAbort
  BY <1>1 DEF Control, Life, HandleBegin, HandleAbort, RequestStop, Sending
<1>2. CASE Retire \/ AbortIdle \/ BeginFails
  BY <1>2 DEF Retire, Joined, AbortIdle, BeginFails, threadVars, Sending
<1>3. CASE JoinTimeout
  BY <1>3 DEF Control, Life, JoinTimeout, WriterAlive, threadVars, Sending
<1>4. CASE HandleActivate \/ ReadFails \/ WriterActivates \/ RequestUpgrade
  BY <1>0, <1>4 DEF HandleActivate, ReadFails, WriterActivates, RequestUpgrade, Sending, Session
<1>5. CASE StartCopier \/ CopyPage \/ WriteSettings \/ PowerFails
  <2>1. created => rcv_ota.state = "activating"
    BY <1>5 DEF Control, Stage, StartCopier, CopyPage, WriteSettings, PowerFails
  <2>2. rcv_ota' = rcv_ota /\ created' = created
    BY <1>5 DEF StartCopier, CopyPage, WriteSettings, PowerFails, threadVars
  <2>3. QED
    BY <2>1, <2>2 DEF Sending
<1>6. QED
  BY <1>1, <1>2, <1>3, <1>4, <1>5

\* The units that a round adds to the buffer continue the image.
LEMMA RoundFills ==
  ASSUME Control, Whole, Sending, Copy
  PROVE  \A k \in 0..(PageLen - 1) :
           k < rcv_ota.off + Round => Buffers[rcv_ota.slot].data[k] = Part(rcv_ota.page, k)
<1>1. /\ Round \in 1..Len(rest) /\ rcv_ota.state = "receiving" /\ pcH = "copy" /\ created
  BY CopyEffect
<1>2. Kept /\ Filling
  BY <1>1 DEF Whole, Filling
<1>3. rcv_ota.off \in Nat /\ rest \in Seq(Unit) /\ Len(rest) \in Nat /\ Handed \in Int
  BY Lengths DEF Control, TypeOK, Session, Handed
<1>4. SUFFICES ASSUME NEW k \in 0..(PageLen - 1), k < rcv_ota.off + Round
               PROVE  Buffers[rcv_ota.slot].data[k] = Part(rcv_ota.page, k)
  OBVIOUS
<1>5. k \in Nat
  BY Lengths
<1>6. CASE k >= rcv_ota.off
  <2>1. k - rcv_ota.off + 1 \in 1..Len(rest)
    BY <1>1, <1>3, <1>4, <1>5, <1>6
  <2>2. rest[k - rcv_ota.off + 1] = <<rcv_ota.img, Filled + (k - rcv_ota.off + 1) - 1>>
    BY <1>1, <1>2, <2>1 DEF Kept
  <2>3. Filled + (k - rcv_ota.off + 1) - 1 = Handed + k
    BY <1>3, <1>5 DEF Filled
  <2>4. Part(rcv_ota.page, k) = <<rcv_ota.img, Handed + k>>
    BY DEF Part, Handed
  <2>5. Buffers[rcv_ota.slot].data[k] = rest[k - rcv_ota.off + 1]
    BY <1>4, <1>6, BuffersType
  <2>6. QED
    BY <2>2, <2>3, <2>4, <2>5
<1>7. CASE ~(k >= rcv_ota.off)
  <2>1. k \in 0..(rcv_ota.off - 1)
    BY <1>3, <1>5, <1>7
  <2>2. slots[rcv_ota.slot].data[k] = Part(rcv_ota.page, k)
    BY <1>2, <2>1 DEF Kept
  <2>3. Buffers[rcv_ota.slot].data[k] = slots[rcv_ota.slot].data[k]
    BY <1>7, BuffersType
  <2>4. QED
    BY <2>2, <2>3
<1>8. QED
  BY <1>6, <1>7

\* A round of rcv_ota_handle_data: the page that is flushed holds its part of the image.
LEMMA WholeCopy ==
  ASSUME Control, Whole, Copy
  PROVE  Whole'
<1> DEFINE s == rcv_ota.slot
<1>0. SUFFICES ASSUME Sending'
               PROVE  Kept'
  BY DEF Whole
<1>1. /\ Round \in 1..Len(rest) /\ Round <= PageLen - rcv_ota.off /\ rcv_ota.off < PageLen
      /\ created /\ ~stop /\ rcv_ota.state = "receiving" /\ pcH = "copy"
      /\ UNCHANGED <<werr, stop, created, pcW, flash>>
  BY CopyEffect
<1>2. rcv_ota \in Session /\ s \in Slot /\ Other(s) \in Slot /\ rest \in Seq(Unit)
  BY DEF Control, TypeOK, Session, Other, Slot
<1>3. /\ rcv_ota.off \in Nat /\ rcv_ota.page \in Nat /\ rcv_ota.staging \in Nat /\ rcv_ota.size \in Nat
      /\ rcv_ota.bytes \in Nat /\ Handed \in Int /\ rcv_ota.staging <= rcv_ota.page
  BY <1>1, <1>2, Lengths DEF Control, Counted, Session, Handed
<1>4. Len(rest) \in Nat
  BY <1>2
<1>5. rcv_ota'.state # "error"
  BY <1>0 DEF Sending
<1>6. ~WaitFails /\ ~Sticks
  BY <1>2, <1>5 DEF WaitFails, Sticks, Failed, Session
<1>7. /\ rcv_ota.off = 0 => sems[s]
      /\ Fills \/ Flushes
  BY <1>6, CopyEffect
<1>8. ~Pending(s)
  BY <1>2, <1>3, <1>7 DEF Control, Owned, ProducerOwns
<1>9. /\ rcv_ota'.mixed = rcv_ota.mixed /\ rcv_ota'.img = rcv_ota.img /\ rcv_ota'.size = rcv_ota.size
      /\ rcv_ota'.staging = rcv_ota.staging
  BY <1>2, <1>7 DEF Fills, Flushes, Session
<1>10. Sending /\ Kept
  BY <1>0, <1>1, <1>9 DEF Sending, Whole
<1>11. \A k \in 0..(PageLen - 1) : k < rcv_ota.off + Round => Buffers[s].data[k] = Part(rcv_ota.page, k)
  BY <1>10, RoundFills
<1>12. \A p, k : Part(p, k)' = Part(p, k) /\ (Inside(p)' = Inside(p)) /\ (Written(p)' <=> Written(p))
  BY <1>1, <1>9 DEF Part, Inside, Written
<1>13. CASE Fills
  <2>1. slots' = Buffers /\ queue' = queue /\ pcH' = "idle" /\ rcv_ota.off + Round < PageLen
    BY <1>13 DEF Fills
  <2>2. rcv_ota'.page = rcv_ota.page /\ rcv_ota'.off = rcv_ota.off + Round /\ rcv_ota'.slot = s
    BY <1>2, <1>13 DEF Fills, Session
  <2>3. \A t \in Slot : Pending(t)' <=> Pending(t)
    BY <1>1, <2>1 DEF Pending, InQ
  <2>4. \A t \in Slot : Pending(t) => slots'[t] = slots[t]
    BY <1>8, <2>1, BuffersType
  <2>5. \A t \in Slot : Pending(t)' => GoodSlot(t)'
    BY <1>10, <1>12, <2>3, <2>4 DEF Kept, GoodSlot
  <2>6. \A p \in rcv_ota'.staging..(rcv_ota'.page - 1) : Written(p)' \/ \E t \in Slot : Pending(t)' /\ slots'[t].addr = p
    BY <1>9, <1>10, <1>12, <2>2, <2>3, <2>4 DEF Kept
  <2>7. \A k \in 0..(rcv_ota'.off - 1) : slots'[rcv_ota'.slot].data[k] = Part(rcv_ota.page, k)'
    <3>1. SUFFICES ASSUME NEW k \in 0..(rcv_ota'.off - 1)
                   PROVE  Buffers[s].data[k] = <<rcv_ota.img, (rcv_ota.page - rcv_ota.staging) * PageLen + k>>
      BY <1>9, <2>1, <2>2 DEF Part
    <3>2. k \in 0..(PageLen - 1) /\ k < rcv_ota.off + Round
      BY <1>1, <1>3, <1>4, <2>1, <2>2, Lengths
    <3>3. QED
      BY <1>11, <3>2 DEF Part
  <2>8. QED
    BY <2>1, <2>5, <2>6, <2>7 DEF Kept
<1>14. CASE Flushes
  <2>1. /\ slots' = PagedOut(Buffers, Full) /\ queue' = Append(queue, s) /\ rcv_ota.off + Round = PageLen
        /\ rest' = SubSeq(rest, Round + 1, Len(rest))
    BY <1>14 DEF Flushes
  <2>2. rcv_ota'.page = rcv_ota.page + 1 /\ rcv_ota'.off = 0
    BY <1>2, <1>14 DEF Flushes, Session
  <2>3. \A t \in Slot : Pending(t)' <=> (Pending(t) \/ t = s)
    <3>1. s \in Commands /\ queue \in Seq(Commands)
      BY <1>2, QueueHolds DEF Control, Commands
    <3>2. QED
      BY <1>1, <2>1, <3>1, QueueGrows DEF Pending
  <2>4. Handed < rcv_ota.size
    <3>1. Filled + Len(rest) = Smaller(rcv_ota.bytes + ChunkLen, rcv_ota.size)
      BY <1>1 DEF Control, Counted
    <3>2. Filled + Len(rest) <= rcv_ota.size
      BY <1>3, <3>1, Lengths DEF Smaller
    <3>3. QED
      BY <1>1, <1>3, <1>4, <3>2 DEF Filled
  <2>5. /\ slots'[s].addr = rcv_ota.page /\ slots'[s].len = PageLen
        /\ \A k \in 0..(PageLen - 1) : slots'[s].data[k] = Buffers[s].data[k]
        /\ \A t \in Slot : t # s => slots'[t] = slots[t]
    <3>1. Full.slot = s /\ Full.page = rcv_ota.page /\ Full.off = PageLen
      BY <1>2 DEF Full, Session
    <3>2. PageLen \in 0..PageLen /\ \A k \in 0..(PageLen - 1) : k < PageLen
      BY Lengths
    <3>3. rcv_ota.page \in Page
      BY <1>1, <2>4, PageFits
    <3>4. Buffers \in [Slot -> [data : PageData, addr : Page, len : 0..PageLen]]
      BY BuffersType
    <3>5. Full.slot \in Slot /\ Full.page \in Page /\ Full.off \in 0..PageLen
      BY <1>2, <3>1, <3>2, <3>3
    <3>6. /\ slots'[Full.slot].addr = Full.page /\ slots'[Full.slot].len = Full.off
          /\ \A k \in 0..(PageLen - 1) : k < Full.off => slots'[Full.slot].data[k] = Buffers[Full.slot].data[k]
          /\ \A t \in Slot : t # Full.slot => slots'[t] = Buffers[t]
      BY <2>1, <3>4, <3>5, PagedOutType
    <3>7. \A t \in Slot : t # s => Buffers[t] = slots[t]
      BY BuffersType
    <3>8. QED
      BY <3>1, <3>2, <3>6, <3>7
  <2>6. \A k \in 0..(PageLen - 1) : slots'[s].data[k] = Part(rcv_ota.page, k) /\ k < PageLen
    BY <1>11, <2>1, <2>5, Lengths
  <2>7. \A t \in Slot : Pending(t)' => GoodSlot(t)'
    <3>1. ASSUME NEW t \in Slot, Pending(t), t # s
          PROVE  GoodSlot(t)'
      BY <1>10, <1>12, <2>5, <3>1 DEF Kept, GoodSlot
    <3>2. ASSUME NEW t \in Slot, t = s
          PROVE  GoodSlot(t)'
      BY <1>12, <2>5, <2>6, <3>2 DEF GoodSlot, Inside
    <3>3. QED
      BY <2>3, <3>1, <3>2
  <2>8. ASSUME NEW p \in rcv_ota'.staging..(rcv_ota'.page - 1)
        PROVE  Written(p)' \/ \E t \in Slot : Pending(t)' /\ slots'[t].addr = p
    <3>1. p \in rcv_ota.staging..(rcv_ota.page - 1) \/ p = rcv_ota.page
      BY <1>3, <1>9, <2>2
    <3>2. CASE p = rcv_ota.page
      BY <1>2, <2>3, <2>5, <3>2
    <3>3. CASE p \in rcv_ota.staging..(rcv_ota.page - 1)
      BY <1>8, <1>10, <1>12, <2>3, <2>5, <3>3 DEF Kept
    <3>4. QED
      BY <3>1, <3>2, <3>3
  <2>9. ASSUME NEW n \in 1..Len(rest')
        PROVE  rest'[n] = <<rcv_ota'.img, Filled' + n - 1>>
    <3>1. n + Round \in 1..Len(rest) /\ rest'[n] = rest[n + Round] /\ n \in Nat /\ Round \in Nat
      BY <1>1, <1>2, <1>4, <2>1, <2>9
    <3>2. rest[n + Round] = <<rcv_ota.img, Filled + (n + Round) - 1>>
      BY <1>1, <1>10, <3>1 DEF Kept
    <3>3. Filled' = Handed + PageLen
      <4>1. Filled' = (rcv_ota'.page - rcv_ota'.staging) * PageLen + rcv_ota'.off
        BY DEF Filled, Handed
      <4>2. (rcv_ota.page + 1 - rcv_ota.staging) * PageLen = Handed + PageLen
        BY <1>1, <2>4, PageFits
      <4>3. rcv_ota'.page - rcv_ota'.staging = rcv_ota.page + 1 - rcv_ota.staging
        BY <1>3, <1>9, <2>2
      <4>4. Filled' = Handed + PageLen + 0
        BY <2>2, <4>1, <4>2, <4>3
      <4>5. QED
        BY <1>3, <4>4, Lengths
    <3>4. Filled + (n + Round) - 1 = Handed + PageLen + n - 1
      <4>1. \A h, f, m, r \in Int : (h + f) + (m + r) - 1 = h + (f + r) + m - 1
        OBVIOUS
      <4>2. Filled = Handed + rcv_ota.off /\ rcv_ota.off + Round = PageLen
        BY <2>1 DEF Filled
      <4>3. QED
        BY <1>3, <3>1, <4>1, <4>2
    <3>5. QED
      BY <1>9, <3>1, <3>2, <3>3, <3>4
  <2>10. \A k \in 0..(rcv_ota'.off - 1) : FALSE
    BY <2>2
  <2>11. QED
    BY <2>7, <2>8, <2>9, <2>10 DEF Kept
<1>15. QED
  BY <1>7, <1>13, <1>14

\* VERIFY: the last page goes to the writer with all that is left of the image.
LEMMA WholeVerify ==
  ASSUME Control, Whole, HandleVerify
  PROVE  Whole'
<1> DEFINE s == rcv_ota.slot
<1>0. SUFFICES ASSUME Sending'
               PROVE  Kept'
  BY DEF Whole
<1>1. created /\ ~stop /\ pcH = "idle" /\ Filling /\ UNCHANGED <<werr, stop, created, pcW, pcH, rest, flash>>
  BY VerifyEffect DEF HandleVerify
<1>2. rcv_ota \in Session /\ s \in Slot /\ slots \in [Slot -> [data : PageData, addr : Page, len : 0..PageLen]]
  BY DEF Control, TypeOK, Session
<1>3. /\ rcv_ota.off \in Nat /\ rcv_ota.page \in Nat /\ rcv_ota.staging \in Nat /\ rcv_ota.size \in Nat
      /\ Handed \in Int /\ rcv_ota.staging <= rcv_ota.page
  BY <1>1, <1>2, Lengths DEF Control, Counted, Session, Handed
<1>4. \A e : Failed(e).state = "error"
  BY <1>2 DEF Failed, Session
<1>5. queue \in Seq(Commands) /\ Verify \in Commands /\ s \in Commands /\ Verify \notin Slot
  BY <1>2, QueueHolds DEF Control, Commands, Slot, Verify
<1>6. \/ /\ rcv_ota.bytes = rcv_ota.size /\ rcv_ota.off = 0 /\ UNCHANGED slots
         /\ queue' = Append(queue, Verify)
         /\ rcv_ota' = [rcv_ota EXCEPT !.state = "verifying"]
      \/ /\ rcv_ota.bytes = rcv_ota.size /\ rcv_ota.off > 0 /\ slots' = PagedOut(slots, rcv_ota)
         /\ queue' = Append(Append(queue, s), Verify)
         /\ rcv_ota' = [rcv_ota EXCEPT !.state = "verifying", !.slot = Other(@), !.page = @ + 1, !.off = 0]
  BY <1>0, <1>4, VerifyEffect DEF Sending
<1>7. /\ rcv_ota'.mixed = rcv_ota.mixed /\ rcv_ota'.img = rcv_ota.img /\ rcv_ota'.size = rcv_ota.size
      /\ rcv_ota'.staging = rcv_ota.staging /\ rcv_ota'.state = "verifying"
  BY <1>2, <1>6 DEF Session
<1>8. Sending /\ Kept
  BY <1>0, <1>1, <1>7 DEF Sending, Whole, Filling
<1>9. CASE rcv_ota.off = 0
  <2>1. slots' = slots /\ queue' = Append(queue, Verify) /\ rcv_ota' = [rcv_ota EXCEPT !.state = "verifying"]
    BY <1>6, <1>9
  <2>2. \A t \in Slot : Pending(t)' <=> Pending(t)
    BY <1>1, <1>5, <2>1, QueueGrows DEF Pending
  <2>3. rcv_ota'.page = rcv_ota.page /\ rcv_ota'.off = rcv_ota.off /\ rcv_ota'.slot = s /\ ~Filling'
    BY <1>2, <1>7, <2>1 DEF Session, Filling
  <2>4. Whole'
    BY <1>1, <1>7, <1>8, <2>1, <2>2, <2>3, KeptSame
  <2>5. QED
    BY <1>0, <2>4 DEF Whole
<1>10. CASE rcv_ota.off > 0
  <2>1. /\ slots' = PagedOut(slots, rcv_ota) /\ queue' = Append(Append(queue, s), Verify)
        /\ rcv_ota.bytes = rcv_ota.size /\ rcv_ota'.page = rcv_ota.page + 1 /\ ~Filling'
    <3>1. /\ slots' = PagedOut(slots, rcv_ota) /\ queue' = Append(Append(queue, s), Verify)
          /\ rcv_ota.bytes = rcv_ota.size
          /\ rcv_ota' = [rcv_ota EXCEPT !.state = "verifying", !.slot = Other(@), !.page = @ + 1, !.off = 0]
      BY <1>3, <1>6, <1>10
    <3>2. rcv_ota'.page = rcv_ota.page + 1
      BY <1>2, <3>1 DEF Session
    <3>3. ~Filling'
      BY <1>7 DEF Filling
    <3>4. QED
      BY <3>1, <3>2, <3>3
  <2>2. \A t \in Slot : Pending(t)' <=> (Pending(t) \/ t = s)
    <3>1. ASSUME NEW t \in Slot
          PROVE  InQ(t)' <=> (InQ(t) \/ t = s)
      <4>1. Append(queue, s) \in Seq(Commands) /\ Len(Append(queue, s)) = Len(queue) + 1 /\ Len(queue) \in Nat
        BY <1>5
      <4>2. Len(queue') = Len(queue) + 2
        BY <1>5, <2>1, <4>1
      <4>3. \A i \in 1..Len(queue) : queue'[i] = queue[i]
        BY <1>5, <2>1, <4>1
      <4>4. queue'[Len(queue) + 1] = s /\ queue'[Len(queue) + 2] = Verify
        BY <1>5, <2>1, <4>1
      <4>5. \A i \in 1..Len(queue') : i \in 1..Len(queue) \/ i = Len(queue) + 1 \/ i = Len(queue) + 2
        BY <4>1, <4>2
      <4>6. Len(queue) + 1 \in 1..Len(queue') /\ \A i \in 1..Len(queue) : i \in 1..Len(queue')
        BY <4>1, <4>2
      <4>7. t # Verify
        BY <1>5
      <4>8. QED
        BY <4>3, <4>4, <4>5, <4>6, <4>7 DEF InQ
    <3>2. QED
      BY <1>1, <3>1 DEF Pending
  <2>3. ~Pending(s)
    BY <1>2, <1>10 DEF Control, Owned, ProducerOwns
  <2>4. Handed + rcv_ota.off = rcv_ota.size
    BY <1>1, <2>1 DEF Control, Counted, Filled
  <2>5. rcv_ota.page \in Page /\ rcv_ota.off \in 0..PageLen
    <3>1. Handed < rcv_ota.size
      BY <1>3, <1>10, <2>4
    <3>2. QED
      BY <1>1, <1>2, <3>1, PageFits DEF Session
  <2>6. /\ slots'[s].addr = rcv_ota.page /\ slots'[s].len = rcv_ota.off
        /\ \A k \in 0..(PageLen - 1) : k < rcv_ota.off => slots'[s].data[k] = slots[s].data[k]
        /\ \A t \in Slot : t # s => slots'[t] = slots[t]
    BY <1>2, <2>1, <2>5, PagedOutType
  <2>7. \A p, k : Part(p, k)' = Part(p, k) /\ (Inside(p)' = Inside(p)) /\ (Written(p)' <=> Written(p))
    BY <1>1, <1>7 DEF Part, Inside, Written
  <2>8. ASSUME NEW t \in Slot, Pending(t)'
        PROVE  GoodSlot(t)'
    <3>1. CASE t # s
      BY <1>8, <2>2, <2>6, <2>7, <2>8, <3>1 DEF Kept, GoodSlot
    <3>2. CASE t = s
      <4>1. ASSUME NEW k \in Inside(rcv_ota.page)
            PROVE  k < rcv_ota.off /\ slots'[s].data[k] = Part(rcv_ota.page, k)
        <5>1. k \in 0..(PageLen - 1) /\ Handed + k < rcv_ota.size
          BY <4>1 DEF Inside, Handed
        <5>2. k < rcv_ota.off /\ k \in 0..(rcv_ota.off - 1)
          BY <1>3, <2>4, <5>1, Lengths
        <5>3. slots[s].data[k] = Part(rcv_ota.page, k)
          BY <1>1, <1>8, <5>2 DEF Kept
        <5>4. QED
          BY <2>6, <5>1, <5>2, <5>3
      <4>2. QED
        BY <2>6, <2>7, <3>2, <4>1 DEF GoodSlot
    <3>3. QED
      BY <3>1, <3>2
  <2>9. ASSUME NEW p \in rcv_ota'.staging..(rcv_ota'.page - 1)
        PROVE  Written(p)' \/ \E t \in Slot : Pending(t)' /\ slots'[t].addr = p
    <3>1. p \in rcv_ota.staging..(rcv_ota.page - 1) \/ p = rcv_ota.page
      BY <1>3, <1>7, <2>1
    <3>2. CASE p = rcv_ota.page
      BY <1>2, <2>2, <2>6, <3>2
    <3>3. CASE p \in rcv_ota.staging..(rcv_ota.page - 1)
      BY <1>8, <2>2, <2>3, <2>6, <2>7, <3>3 DEF Kept
    <3>4. QED
      BY <3>1, <3>2, <3>3
  <2>10. QED
    BY <1>1, <2>1, <2>8, <2>9 DEF Kept
<1>11. QED
  BY <1>3, <1>9, <1>10

\* DATA: the report continues the image.
LEMMA WholeData ==
  ASSUME Control, Whole, NEW img \in Images, NEW seq \in 0..rcv_ota.size, HandleData(img, seq)
  PROVE  Whole'
<1>0. SUFFICES ASSUME Sending'
               PROVE  Kept'
  BY DEF Whole
<1>1. rcv_ota \in Session /\ \A e : Failed(e).state = "error"
  BY DEF Control, TypeOK, Failed, Session
<1> DEFINE n0 == Smaller(ChunkLen, rcv_ota.size - seq * ChunkLen)
<1>2. /\ ~werr /\ seq = rcv_ota.next /\ pcH' = "copy" /\ Filling /\ seq * ChunkLen < rcv_ota.size
      /\ rcv_ota' = [rcv_ota EXCEPT !.state = "receiving", !.mixed = @ \/ img # rcv_ota.img]
      /\ rest' = [n \in 1..n0 |-> LET k == seq * ChunkLen + n - 1
                                 IN  IF k < ImageLen[img] THEN <<img, k>> ELSE Free]
      /\ UNCHANGED <<slots, threadVars, pcW, flash>> /\ pcH = "idle" /\ ~stop
  BY <1>0, <1>1 DEF HandleData, Sending, Admitted, Filling
<1>3. created
  BY <1>2 DEF Control, Life, Live, Filling
<1>4. /\ rcv_ota'.img = rcv_ota.img /\ rcv_ota'.size = rcv_ota.size /\ rcv_ota'.staging = rcv_ota.staging
      /\ rcv_ota'.page = rcv_ota.page /\ rcv_ota'.off = rcv_ota.off /\ rcv_ota'.slot = rcv_ota.slot
      /\ img = rcv_ota.img /\ ~rcv_ota.mixed
  BY <1>0, <1>1, <1>2 DEF Session, Sending
<1>5. Kept
  BY <1>2, <1>3, <1>4 DEF Whole, Sending, Filling
<1>6. /\ rcv_ota.size \in Nat /\ seq \in Nat /\ seq * ChunkLen \in Nat /\ rcv_ota.size = ImageLen[rcv_ota.img]
  BY <1>1, <1>3, Lengths DEF Control, Placed, Session
<1>7. Filled = seq * ChunkLen
  BY <1>2, <1>3, <1>6 DEF Control, Counted, Smaller
<1>8. \A t \in Slot : (Pending(t)' <=> Pending(t)) /\ (GoodSlot(t)' <=> GoodSlot(t))
  BY <1>2, <1>4 DEF Pending, InQ, GoodSlot, Inside, Part, threadVars
<1>9. Filled' = Filled /\ \A p : Written(p)' <=> Written(p)
  BY <1>2, <1>4 DEF Written, Inside, Part, Filled, Handed
<1>10. \A p \in rcv_ota'.staging..(rcv_ota'.page - 1) : Written(p)' \/ \E s \in Slot : Pending(s)' /\ slots'[s].addr = p
  BY <1>2, <1>4, <1>5, <1>8, <1>9 DEF Kept
<1>11. \A k \in 0..(rcv_ota'.off - 1) : slots'[rcv_ota'.slot].data[k] = Part(rcv_ota.page, k)'
  BY <1>2, <1>4, <1>5 DEF Kept, Part
<1>12. n0 \in Nat /\ n0 <= rcv_ota.size - seq * ChunkLen
  BY <1>2, <1>6, Lengths DEF Smaller
<1> HIDE DEF n0
<1>13. Len(rest') = n0
  BY <1>2, <1>12
<1>14. ASSUME NEW n \in 1..Len(rest')
       PROVE  rest'[n] = <<rcv_ota'.img, Filled' + n - 1>>
  <2>1. n \in 1..n0 /\ seq * ChunkLen + n - 1 < rcv_ota.size
    BY <1>6, <1>12, <1>13
  <2>2. rest'[n] = <<img, seq * ChunkLen + n - 1>>
    BY <1>2, <1>4, <1>6, <2>1
  <2>3. QED
    BY <1>4, <1>7, <1>9, <2>2
<1>15. QED
  BY <1>5, <1>8, <1>10, <1>11, <1>14 DEF Kept

\* The writer puts a page where it belongs.
LEMMA WholePage ==
  ASSUME Control, Whole, NEW s \in Slot, WriterPage(s)
  PROVE  Whole'
<1> DEFINE a == slots[s].addr
           len == slots[s].len
           erased == IF boot = "mcuboot" THEN flash[a] ELSE Blank
           d == [n \in 0..(PageLen - 1) |-> IF n < len THEN slots[s].data[n] ELSE erased[n]]
<1>0. SUFFICES ASSUME Sending'
               PROVE  Kept'
  BY DEF Whole
<1>1. /\ pcW = s /\ pcW' = "loop" /\ ~werr /\ flash' = [flash EXCEPT ![a] = d]
      /\ UNCHANGED <<rcv_ota, slots, queue, stop, created, pcH, rest>>
  BY <1>0 DEF WriterPage, Sending
<1> HIDE DEF d
<1>2. Sending /\ Kept
  BY <1>0, <1>1 DEF Sending, Whole
<1>3. \A t \in Slot : Pending(t)' <=> (Pending(t) /\ t # s)
  <2>1. ~InQ(s) /\ "loop" \notin Slot
    BY <1>1 DEF Control, Once, Slot
  <2>2. QED
    BY <1>1, <2>1 DEF Pending, InQ
<1>4. /\ flash \in [Page -> PageData] /\ rcv_ota.page \in 0..FlashEnd /\ rcv_ota.staging \in Nat
  BY DEF Control, TypeOK, Session
<1>5. \A p, k : Part(p, k)' = Part(p, k) /\ (Inside(p)' = Inside(p))
  BY <1>1 DEF Part, Inside
<1>6. \A t \in Slot : GoodSlot(t)' <=> GoodSlot(t)
  BY <1>1, <1>5 DEF GoodSlot
<1>7. GoodSlot(s)
  BY <1>1, <1>2 DEF Kept, Pending
<1>8. ASSUME NEW p \in rcv_ota'.staging..(rcv_ota'.page - 1)
      PROVE  Written(p)' \/ \E t \in Slot : Pending(t)' /\ slots'[t].addr = p
  <2>1. p \in Page /\ p \in rcv_ota.staging..(rcv_ota.page - 1)
    BY <1>1, <1>4, Lengths DEF Page
  <2>2. CASE p = a
    <3>1. ASSUME NEW k \in Inside(a)
          PROVE  flash'[a][k] = Part(a, k)
      <4>1. k \in 0..(PageLen - 1) /\ k < len /\ slots[s].data[k] = Part(a, k)
        BY <1>7, <3>1 DEF GoodSlot, Inside
      <4>2. flash'[a] = d
        BY <1>1, <1>4, <2>1, <2>2
      <4>3. d[k] = slots[s].data[k]
        BY <4>1 DEF d
      <4>4. QED
        BY <4>1, <4>2, <4>3
    <3>2. QED
      BY <1>5, <2>2, <3>1 DEF Written
  <2>3. CASE p # a
    <3>1. flash'[p] = flash[p]
      BY <1>1, <1>4, <2>1, <2>3
    <3>2. Written(p) \/ \E t \in Slot : Pending(t) /\ slots[t].addr = p
      BY <1>2, <2>1 DEF Kept
    <3>3. QED
      BY <1>1, <1>3, <1>5, <2>3, <3>1, <3>2 DEF Written
  <2>4. QED
    BY <2>2, <2>3
<1>9. \A t \in Slot : Pending(t)' => GoodSlot(t)'
  BY <1>2, <1>3, <1>6 DEF Kept
<1>10. Filling' => \A k \in 0..(rcv_ota'.off - 1) : slots'[rcv_ota'.slot].data[k] = Part(rcv_ota.page, k)'
  BY <1>1, <1>2 DEF Kept, Filling, Part
<1>11. pcH' = "copy" => \A n \in 1..Len(rest') : rest'[n] = <<rcv_ota'.img, Filled' + n - 1>>
  BY <1>1, <1>2 DEF Kept, Filled, Handed
<1>12. QED
  BY <1>8, <1>9, <1>10, <1>11 DEF Kept

\* BEGIN: nothing is sent yet.
LEMMA WholeBegin ==
  ASSUME Control, BeginCommits
  PROVE  Whole'
<1>1. PICK len \in Nat : rcv_ota'.staging = StagingBase(len) /\ rcv_ota'.page = StagingBase(len) /\ rcv_ota'.off = 0
  BY OtaConstants DEF BeginCommits, Idle
<1>2. \A t \in Slot : ~Pending(t)'
  BY DEF BeginCommits, StartWriter, Pending, InQ, Slot
<1>3. pcH' = "idle" /\ \A k \in 0..(rcv_ota'.off - 1) : FALSE
  BY <1>1 DEF BeginCommits
<1>4. rcv_ota'.staging \in Int
  <2>1. PagesFor(len) \in Nat
    BY PagesOf
  <2>2. QED
    BY <1>1, <2>1, Lengths DEF StagingBase
<1>5. \A p \in rcv_ota'.staging..(rcv_ota'.page - 1) : FALSE
  BY <1>1, <1>4
<1>6. QED
  BY <1>2, <1>3, <1>5 DEF Whole, Kept

\* The writer's other steps leave pages as they are.
LEMMA WholeWriter ==
  ASSUME Control, Whole, WriterLoops \/ WriterTakes \/ WriterVerifies
  PROVE  Whole'
<1>0. SUFFICES ASSUME Sending'
               PROVE  Whole'
  BY DEF Whole
<1>1. rcv_ota \in Session /\ \A e : Failed(e).state = "error"
  BY DEF Control, TypeOK, Failed, Session
<1>2. /\ rcv_ota'.img = rcv_ota.img /\ rcv_ota'.size = rcv_ota.size /\ rcv_ota'.staging = rcv_ota.staging
      /\ rcv_ota'.page = rcv_ota.page /\ rcv_ota'.off = rcv_ota.off /\ rcv_ota'.slot = rcv_ota.slot
      /\ rcv_ota'.state = rcv_ota.state /\ rcv_ota'.mixed = rcv_ota.mixed
  BY <1>0, <1>1 DEF WriterLoops, WriterTakes, WriterVerifies, Sending, Session
<1>3. UNCHANGED <<created, werr, stop, slots, flash, pcH, rest>>
  BY DEF WriterLoops, WriterTakes, WriterVerifies, threadVars
<1>4. Sending /\ (Filling' => Filling)
  BY <1>0, <1>2, <1>3 DEF Sending, Filling
<1>5. \A t \in Slot : Pending(t)' <=> Pending(t)
  <2>1. CASE WriterLoops \/ WriterVerifies
    BY <2>1 DEF WriterLoops, WriterVerifies, threadVars, Pending, InQ, Slot, Verify
  <2>2. CASE WriterTakes
    <3>1. /\ queue \in Seq(Commands) /\ queue # <<>> /\ queue' = Tail(queue) /\ pcW = "wait"
          /\ pcW' = IF stop \/ Head(queue) = Shutdown THEN "exit" ELSE Head(queue)
      BY <2>2, QueueHolds DEF WriterTakes, Control
    <3>2. \A d : InQ(d) <=> (InQ(d)' \/ d = Head(queue))
      BY <3>1, QueueShrinks
    <3>3. ~stop /\ Shutdown \notin Slot /\ "exit" \notin Slot /\ "wait" \notin Slot
      BY <1>0, <1>3 DEF Sending, Slot, Shutdown
    <3>4. QED
      BY <3>1, <3>2, <3>3 DEF Pending
  <2>3. QED
    BY <2>1, <2>2
<1>6. QED
  BY <1>2, <1>3, <1>4, <1>5, KeptSame

\* No step loses a unit of a transfer that goes well.
LEMMA WholeNext ==
  ASSUME Control, Whole, [Next]_vars
  PROVE  Whole'
<1>1. CASE ~Sending'
  BY <1>1 DEF Whole
<1>2. CASE UNCHANGED vars
  BY <1>2 DEF vars, Whole, Sending, Kept, GoodSlot, Written, Inside, Part, Filling, Pending, InQ,
     Filled, Handed
<1>3. CASE Next /\ Sending'
  BY <1>3, NothingSent, WholeBegin, WholeCopy, WholeVerify, WholeData, WholePage, WholeWriter
     DEF Next, Report, Continue, Writer
<1>4. QED
  BY <1>1, <1>2, <1>3

\* The writer checks the image when all its pages are written.
LEMMA WholeVerifies ==
  ASSUME Control, Whole
  PROVE  CompleteVerifies
<1>1. SUFFICES ASSUME pcW = Verify, ~werr, ~rcv_ota.mixed, ~stop
               PROVE  Holds(flash, rcv_ota.staging, rcv_ota.size, rcv_ota.img)
  BY DEF CompleteVerifies
<1>2. created /\ Pending(Verify) /\ rcv_ota.state = "verifying"
  BY <1>1 DEF Control, Life, Stage, Pending, Verify
<1>3. Kept
  BY <1>1, <1>2 DEF Whole, Sending
<1>4. \A s \in Slot : ~Pending(s)
  BY <1>1 DEF Control, Last, Pending, InQ, Slot, Verify
<1>5. \A p \in rcv_ota.staging..(rcv_ota.page - 1) : Written(p)
  BY <1>3, <1>4 DEF Kept
<1>6. /\ rcv_ota.size \in Nat /\ rcv_ota.page \in Nat /\ rcv_ota.staging \in Nat
      /\ rcv_ota.img \in Images /\ rcv_ota.size = ImageLen[rcv_ota.img]
      /\ Handed >= rcv_ota.size
  BY <1>2, Lengths DEF Control, TypeOK, Session, Placed, Counted
<1>7. ASSUME NEW n \in 0..(rcv_ota.size - 1)
      PROVE  At(flash, rcv_ota.staging, n) = <<rcv_ota.img, n>>
  <2>1. n \in Nat /\ n < rcv_ota.size
    BY <1>6
  <2>2. PICK i \in Nat, k \in 0..(PageLen - 1) : n = i * PageLen + k /\ i = n \div PageLen /\ k = n % PageLen
    BY <2>1, Places
  <2>3. i * PageLen < (rcv_ota.page - rcv_ota.staging) * PageLen
    <3>1. i * PageLen \in Int /\ k \in Nat /\ Handed \in Int
      BY <1>6, <2>2, Lengths DEF Handed
    <3>2. QED
      BY <1>6, <2>1, <2>2, <3>1 DEF Handed
  <2>4. i < rcv_ota.page - rcv_ota.staging
    BY <1>6, <2>3, PageOrder
  <2>5. rcv_ota.staging + i \in rcv_ota.staging..(rcv_ota.page - 1) /\ (rcv_ota.staging + i) - rcv_ota.staging = i
    BY <1>6, <2>4
  <2>6. k \in Inside(rcv_ota.staging + i) /\ Part(rcv_ota.staging + i, k) = <<rcv_ota.img, n>>
    BY <2>1, <2>2, <2>5 DEF Inside, Part
  <2>7. flash[rcv_ota.staging + i][k] = <<rcv_ota.img, n>>
    BY <1>5, <2>5, <2>6 DEF Written
  <2>8. QED
    BY <2>2, <2>7 DEF At
<1>8. QED
  BY <1>6, <1>7 DEF Holds

\* A transfer without a flash error whose units all came from the announced image is
\* whole in staging when rcv_ota_do_verify reads it, whatever the sizes of pages,
\* reports and image and however the two threads interleave.
THEOREM CompleteIsVerified == Spec => []CompleteVerifies
<1>1. Init => Control /\ Whole
  <2>1. Init => ~created
    BY DEF Init
  <2>2. QED
    BY <2>1, ControlInit DEF Whole, Sending
<1>2. Control /\ Whole /\ [Next]_vars => (Control /\ Whole)'
  BY ControlNext, WholeNext
<1>3. Control /\ Whole => CompleteVerifies
  BY WholeVerifies
<1>4. QED
  BY <1>1, <1>2, <1>3, PTL DEF Spec

----------------------------------------------------------------------------
(* What is installed *)

\* Pages that are queued or written lie in staging.
LEMMA AimedNext ==
  ASSUME Control, Aimed, [Next]_vars
  PROVE  Aimed'
<1>0. SUFFICES ASSUME created'
               PROVE  \A t \in Slot : Pending(t)' => slots'[t].addr >= rcv_ota'.staging
  BY DEF Aimed
<1>1. /\ rcv_ota \in Session /\ queue \in Seq(Commands)
      /\ \A e : Failed(e).staging = rcv_ota.staging
  BY QueueHolds DEF Control, TypeOK, Failed, Session
<1>2. ASSUME created, slots' = slots, rcv_ota'.staging = rcv_ota.staging,
             \A t \in Slot : Pending(t)' => Pending(t)
      PROVE  \A t \in Slot : Pending(t)' => slots'[t].addr >= rcv_ota'.staging
  BY <1>2 DEF Aimed
<1>3. CASE HandleBegin \/ HandleAbort
  <2>1. created /\ UNCHANGED <<slots, pcW>>
    BY <1>0, <1>3 DEF HandleBegin, HandleAbort
  <2>2. rcv_ota'.staging = rcv_ota.staging
    BY <1>1, <1>3 DEF HandleBegin, HandleAbort
  <2>3. IF created THEN RequestStop ELSE UNCHANGED <<stop, queue>>
    BY <1>3, <2>1 DEF HandleBegin, HandleAbort, Control, Life
  <2>4. Extended
    BY <2>3, StopAsked DEF Control
  <2>5. \A t \in Slot : Pending(t)' => Pending(t)
    BY <2>1, <2>4 DEF Pending, Extended, Slot, Shutdown
  <2>6. QED
    BY <1>2, <2>1, <2>2, <2>5
<1>4. CASE HandleActivate
  <2>1. created /\ UNCHANGED <<slots, pcW>> /\ rcv_ota'.staging = rcv_ota.staging
    BY <1>0, <1>1, <1>4 DEF HandleActivate, Session
  <2>2. queue' = queue \/ queue' = Append(queue, Activate)
    BY <1>4 DEF HandleActivate, Put
  <2>3. Activate \in Commands /\ Activate \notin Slot
    BY DEF Commands, Activate, Slot
  <2>4. CASE queue' = queue
    BY <1>2, <2>1, <2>4 DEF Pending, InQ
  <2>5. CASE queue' = Append(queue, Activate)
    <3>1. \A d : InQ(d)' <=> (InQ(d) \/ d = Activate)
      BY <1>1, <2>3, <2>5, QueueGrows
    <3>2. QED
      BY <1>2, <2>1, <2>3, <3>1 DEF Pending
  <2>6. QED
    BY <2>2, <2>4, <2>5
<1>5. CASE \E img \in Images, seq \in 0..rcv_ota.size : HandleData(img, seq)
  <2>1. created /\ UNCHANGED <<slots, pcW, queue>> /\ rcv_ota'.staging = rcv_ota.staging
    <3>1. PICK img \in Images, seq \in 0..rcv_ota.size : HandleData(img, seq)
      BY <1>5
    <3>2. created /\ UNCHANGED <<slots, pcW, queue>>
      BY <1>0, <3>1 DEF HandleData, threadVars
    <3>3. \/ \E e : rcv_ota' = Failed(e)
          \/ rcv_ota' = [rcv_ota EXCEPT !.state = "receiving", !.mixed = @ \/ img # rcv_ota.img]
      BY <3>1 DEF HandleData
    <3>4. rcv_ota'.staging = rcv_ota.staging
      BY <1>1, <3>3 DEF Session
    <3>5. QED
      BY <3>2, <3>4
  <2>2. QED
    BY <1>2, <2>1 DEF Pending, InQ
<1>6. CASE HandleVerify
  <2> DEFINE s == rcv_ota.slot
  <2>1. created /\ Filling /\ pcW' = pcW
    BY <1>6, VerifyEffect DEF HandleVerify
  <2>2. /\ rcv_ota.staging \in Nat /\ rcv_ota.page \in Nat /\ rcv_ota.staging <= rcv_ota.page /\ s \in Slot
        /\ rcv_ota.off \in Nat /\ Handed \in Int /\ rcv_ota.off \in 0..PageLen
        /\ slots \in [Slot -> [data : PageData, addr : Page, len : 0..PageLen]]
    BY <1>1, <2>1, Lengths DEF Control, TypeOK, Session, Counted, Handed
  <2>3. Verify \in Commands /\ Verify \notin Slot /\ s \in Commands
    BY <2>2 DEF Commands, Verify, Slot
  <2>4. CASE queue' = queue /\ slots' = slots /\ rcv_ota'.staging = rcv_ota.staging
    BY <1>2, <2>1, <2>4 DEF Pending, InQ
  <2>5. CASE queue' = Append(queue, Verify) /\ slots' = slots /\ rcv_ota'.staging = rcv_ota.staging
    <3>1. \A d : InQ(d)' <=> (InQ(d) \/ d = Verify)
      BY <1>1, <2>3, <2>5, QueueGrows
    <3>2. QED
      BY <1>2, <2>1, <2>3, <2>5, <3>1 DEF Pending
  <2>6. CASE /\ queue' = Append(Append(queue, s), Verify) /\ slots' = PagedOut(slots, rcv_ota)
             /\ rcv_ota'.staging = rcv_ota.staging /\ rcv_ota.bytes = rcv_ota.size /\ rcv_ota.off > 0
    <3>1. rcv_ota.page \in Page
      <4>1. Handed < rcv_ota.size
        <5>1. Filled = rcv_ota.size
          BY <1>6, <2>1, <2>6, VerifyEffect DEF Control, Counted
        <5>2. QED
          BY <2>2, <2>6, <5>1 DEF Filled
      <4>2. QED
        BY <2>1, <4>1, PageFits
    <3>2. slots'[s].addr = rcv_ota.page /\ \A t \in Slot : t # s => slots'[t] = slots[t]
      BY <2>2, <2>6, <3>1, PagedOutType
    <3>3. \A t \in Slot : Pending(t)' => Pending(t) \/ t = s
      <4>1. Append(queue, s) \in Seq(Commands) /\ Len(Append(queue, s)) = Len(queue) + 1 /\ Len(queue) \in Nat
        BY <1>1, <2>3
      <4>2. Len(queue') = Len(queue) + 2
        BY <2>3, <2>6, <4>1
      <4>3. \A i \in 1..Len(queue) : queue'[i] = queue[i]
        BY <1>1, <2>3, <2>6, <4>1
      <4>4. queue'[Len(queue) + 1] = s /\ queue'[Len(queue) + 2] = Verify
        BY <1>1, <2>3, <2>6, <4>1
      <4>5. \A i \in 1..Len(queue') : i \in 1..Len(queue) \/ i = Len(queue) + 1 \/ i = Len(queue) + 2
        BY <4>1, <4>2
      <4>6. QED
        BY <2>1, <2>3, <4>3, <4>4, <4>5 DEF Pending, InQ
    <3>4. QED
      BY <2>1, <2>2, <2>6, <3>2, <3>3 DEF Aimed
  <2>7. /\ [rcv_ota EXCEPT !.state = "verifying"].staging = rcv_ota.staging
        /\ [rcv_ota EXCEPT !.state = "verifying", !.slot = Other(@), !.page = @ + 1, !.off = 0].staging = rcv_ota.staging
    BY <1>1 DEF Session
  <2>8. QED
    BY <1>1, <1>6, <2>4, <2>5, <2>6, <2>7, VerifyEffect
<1>7. CASE Retire \/ AbortIdle \/ BeginFails
  BY <1>0, <1>7 DEF Retire, Joined, AbortIdle, BeginFails, threadVars
<1>8. CASE BeginCommits
  BY <1>8 DEF BeginCommits, StartWriter, Pending, InQ, Slot
<1>9. CASE Copy
  <2> DEFINE s == rcv_ota.slot
  <2>1. created /\ pcW' = pcW /\ pcH = "copy" /\ rcv_ota.off < PageLen /\ Round \in 1..Len(rest)
    BY <1>9, CopyEffect
  <2>2. /\ rcv_ota.staging \in Nat /\ rcv_ota.page \in Nat /\ rcv_ota.staging <= rcv_ota.page /\ s \in Slot
        /\ rcv_ota.off \in Nat /\ rest \in Seq(Unit)
    BY <1>1, <2>1, Lengths DEF Control, TypeOK, Session, Counted
  <2>3. CASE WaitFails
    BY <1>1, <1>2, <2>1, <2>3 DEF WaitFails, Pending, InQ
  <2>4. CASE ~WaitFails
    <3>1. (rcv_ota.off = 0 => sems[s]) /\ (Fills \/ Sticks \/ Flushes)
      BY <1>9, <2>4, CopyEffect
    <3>2. ~Pending(s)
      BY <2>2, <3>1 DEF Control, Owned, ProducerOwns
    <3>3. rcv_ota'.staging = rcv_ota.staging
      BY <1>1, <3>1 DEF Fills, Sticks, Flushes, Session
    <3>4. \A t \in Slot : t # s => Buffers[t] = slots[t]
      BY BuffersType
    <3>5. CASE Fills \/ Sticks
      <4>1. slots' = Buffers /\ queue' = queue
        BY <3>5 DEF Fills, Sticks
      <4>2. QED
        BY <2>1, <3>2, <3>3, <3>4, <4>1 DEF Aimed, Pending, InQ
    <3>6. CASE Flushes
      <4>1. slots' = PagedOut(Buffers, Full) /\ queue' = Append(queue, s)
        BY <3>6 DEF Flushes
      <4>2. \A t \in Slot : Pending(t)' <=> (Pending(t) \/ t = s)
        <5>1. s \in Commands
          BY <2>2 DEF Commands
        <5>2. QED
          BY <1>1, <2>1, <4>1, <5>1, QueueGrows DEF Pending
      <4>3. slots'[s].addr = rcv_ota.page /\ \A t \in Slot : t # s => slots'[t] = Buffers[t]
        <5>1. Full.slot = s /\ Full.page = rcv_ota.page /\ Full.off \in 0..PageLen
          BY <1>1, Lengths DEF Full, Session
        <5>2. rcv_ota.page \in Page
          <6>1. Filled + Len(rest) = Smaller(rcv_ota.bytes + ChunkLen, rcv_ota.size) /\ Len(rest) \in Nat /\ Len(rest) > 0
            BY <2>1, <2>2 DEF Control, Counted
          <6>2. Handed \in Int /\ rcv_ota.size \in Nat /\ rcv_ota.bytes \in Nat
            BY <1>1, <2>2, Lengths DEF Session, Handed
          <6>3. Filled + Len(rest) <= rcv_ota.size
            BY <6>1, <6>2, Lengths DEF Smaller
          <6>4. Handed < rcv_ota.size
            BY <2>2, <6>1, <6>2, <6>3 DEF Filled
          <6>5. QED
            BY <2>1, <6>4, PageFits
        <5>3. Buffers \in [Slot -> [data : PageData, addr : Page, len : 0..PageLen]]
          BY BuffersType
        <5>4. Full.slot \in Slot /\ Full.page \in Page
          BY <2>2, <5>1, <5>2
        <5>5. QED
          BY <4>1, <5>1, <5>3, <5>4, PagedOutType
      <4>4. QED
        BY <2>1, <2>2, <3>3, <3>4, <4>2, <4>3 DEF Aimed
    <3>7. QED
      BY <3>1, <3>5, <3>6
  <2>5. QED
    BY <2>3, <2>4
<1>10. CASE WriterTakes
  <2>1. /\ created /\ slots' = slots /\ rcv_ota' = rcv_ota /\ queue # <<>> /\ queue' = Tail(queue)
        /\ pcW' \in {"exit", Head(queue)}
    BY <1>0, <1>10 DEF WriterTakes
  <2>2. \A d : InQ(d) <=> (InQ(d)' \/ d = Head(queue))
    BY <1>1, <2>1, QueueShrinks
  <2>3. QED
    BY <1>2, <2>1, <2>2 DEF Pending, Slot
<1>11. CASE JoinTimeout \/ WriterLoops \/ (\E s \in Slot : WriterPage(s)) \/ WriterVerifies \/ ReadFails
  <2>1. created /\ slots' = slots /\ queue' = queue /\ (pcW' = pcW \/ pcW' \notin Slot)
    BY <1>0, <1>11 DEF JoinTimeout, WriterLoops, WriterPage, WriterVerifies, ReadFails, threadVars, Slot
  <2>2. rcv_ota'.staging = rcv_ota.staging
    <3>1. CASE WriterVerifies
      BY <1>1, <3>1 DEF WriterVerifies, Session
    <3>2. CASE ReadFails
      BY <1>1, <3>2 DEF ReadFails
    <3>3. CASE JoinTimeout \/ WriterLoops \/ (\E s \in Slot : WriterPage(s))
      BY <3>3 DEF JoinTimeout, WriterLoops, WriterPage
    <3>4. QED
      BY <1>11, <3>1, <3>2, <3>3
  <2>3. QED
    BY <1>2, <2>1, <2>2 DEF Pending, InQ
<1>12. CASE WriterActivates \/ RequestUpgrade \/ StartCopier \/ CopyPage \/ WriteSettings \/ PowerFails \/ UNCHANGED vars
  <2>1. created /\ slots' = slots /\ queue' = queue /\ (pcW' = pcW \/ pcW' \notin Slot)
    BY <1>0, <1>12 DEF WriterActivates, RequestUpgrade, StartCopier, CopyPage, WriteSettings,
       PowerFails, threadVars, vars, Slot
  <2>2. rcv_ota'.staging = rcv_ota.staging
    <3>1. CASE WriterActivates \/ RequestUpgrade
      BY <1>1, <3>1 DEF WriterActivates, RequestUpgrade, Session
    <3>2. CASE StartCopier \/ CopyPage \/ WriteSettings \/ PowerFails \/ UNCHANGED vars
      BY <3>2 DEF StartCopier, CopyPage, WriteSettings, PowerFails, vars
    <3>3. QED
      BY <1>12, <3>1, <3>2
  <2>3. QED
    BY <1>2, <2>1, <2>2 DEF Pending, InQ
<1>13. QED
  BY <1>3, <1>4, <1>5, <1>6, <1>7, <1>8, <1>9, <1>10, <1>11, <1>12 DEF Next, Report, Continue, Writer

\* Page n \div PageLen of what runs lies below staging.
LEMMA BelowStaging ==
  ASSUME Control, created, NEW n \in 0..(appLen - 1)
  PROVE  RunBase + n \div PageLen < rcv_ota.staging /\ RunBase + n \div PageLen \in Nat
<1>1. appLen \in Nat /\ rcv_ota.staging \in Nat /\ RunBase * PageLen + appLen <= rcv_ota.staging * PageLen
  BY OtaConstants, Lengths DEF Control, TypeOK, Session, Placed
<1>2. n \in Nat /\ n < appLen
  BY <1>1
<1>3. PICK i \in Nat, k \in 0..(PageLen - 1) : n = i * PageLen + k /\ i = n \div PageLen
  BY <1>2, Places
<1>4. (RunBase + i) * PageLen = RunBase * PageLen + i * PageLen /\ i * PageLen \in Nat /\ RunBase * PageLen \in Nat
  BY <1>3, Lengths
<1>5. k \in Nat /\ rcv_ota.staging * PageLen \in Nat
  BY <1>1, Lengths
<1>6. (RunBase + i) * PageLen < rcv_ota.staging * PageLen
  BY <1>1, <1>2, <1>3, <1>4, <1>5
<1>7. RunBase + i \in Nat
  BY Lengths
<1>8. QED
  BY <1>1, <1>3, <1>6, <1>7, PageOrder

\* The running firmware at the start ...
LEMMA RunSafeInit ==
  ASSUME Init
  PROVE  RunSafe
<1>1. SUFFICES ASSUME NEW n \in 0..(appLen - 1)
               PROVE  At(flash, RunBase, n) = Run
  BY DEF RunSafe
<1>2. appLen \in Nat /\ appLen <= (FlashEnd - RunBase) * PageLen /\ n \in Nat /\ n < appLen /\ FlashEnd - RunBase \in Nat
  BY OtaConstants DEF Init
<1>3. PICK i \in Nat, k \in 0..(PageLen - 1) : n = i * PageLen + k /\ i = n \div PageLen /\ k = n % PageLen
  BY <1>2, Places
<1>4. i * PageLen < (FlashEnd - RunBase) * PageLen
  <2>1. i * PageLen \in Nat /\ k \in Nat /\ (FlashEnd - RunBase) * PageLen \in Nat
    BY <1>2, <1>3, Lengths
  <2>2. QED
    BY <1>2, <1>3, <2>1
<1>5. i < FlashEnd - RunBase
  BY <1>2, <1>4, PageOrder
<1>6. RunBase + i \in Page /\ RunBase + i >= RunBase /\ (RunBase + i) - RunBase = i
  BY <1>5, Lengths DEF Page
<1>7. flash[RunBase + i][k] = IF RunBase + i >= RunBase /\ ((RunBase + i) - RunBase) * PageLen + k < appLen THEN Run ELSE Free
  BY <1>6 DEF Init
<1>8. flash[RunBase + i][k] = Run
  BY <1>2, <1>3, <1>6, <1>7
<1>9. QED
  BY <1>3, <1>8 DEF At

\* ... and until the copier starts.
LEMMA RunSafeNext ==
  ASSUME Control, Aimed, RunSafe, [Next]_vars
  PROVE  RunSafe'
<1>1. SUFFICES ASSUME pcW' \notin {"copy", "off"}, NEW n \in 0..(appLen' - 1)
               PROVE  At(flash, RunBase, n)' = Run
  BY DEF RunSafe
<1>2. appLen' = appLen
  BY DEF Next, Report, Continue, Writer, vars, HandleBegin, HandleAbort, HandleVerify, HandleActivate,
     HandleData,
     Retire, AbortIdle, BeginFails, BeginCommits, Copy, JoinTimeout, WriterLoops, WriterTakes, WriterPage,
     WriterVerifies, ReadFails, WriterActivates, RequestUpgrade, StartCopier, CopyPage, WriteSettings, PowerFails
<1> DEFINE i == n \div PageLen
           k == n % PageLen
<1>3. CASE BeginCommits
  <2>1. boot = "mcuboot" => appLen <= SlotPages * PageLen
    BY DEF Control, Placed
  <2>2. pcW = "exit"
    BY <1>3 DEF Control, Life, BeginCommits
  <2>3. flash[RunBase + i][k] = Run
    BY <1>2, <2>2 DEF RunSafe, At
  <2>4. CASE boot # "mcuboot"
    BY <1>3, <2>3, <2>4 DEF BeginCommits, At
  <2>5. CASE boot = "mcuboot"
    <3>1. appLen \in Nat /\ n \in Nat /\ n < SlotPages * PageLen
      <4>1. appLen \in Nat /\ SlotPages * PageLen \in Nat
        BY OtaConstants, Lengths DEF Control, TypeOK
      <4>2. QED
        BY <1>2, <2>1, <2>5, <4>1
    <3>2. PICK j \in Nat, m \in 0..(PageLen - 1) : n = j * PageLen + m /\ j = i /\ m = k
      BY <3>1, Places
    <3>3. j * PageLen < SlotPages * PageLen
      <4>1. j * PageLen \in Nat /\ m \in Nat /\ SlotPages * PageLen \in Nat
        BY <3>2, Lengths
      <4>2. QED
        BY <3>1, <3>2, <4>1
    <3>4. j < SlotPages
      BY <3>3, Lengths, PageOrder
    <3>5. RunBase + j \in Page /\ ~(RunBase + j >= FlashEnd - SlotPages)
      BY <3>4, Lengths DEF Page
    <3>6. flash'[RunBase + j] = flash[RunBase + j]
      BY <1>3, <2>5, <3>5 DEF BeginCommits
    <3>7. QED
      BY <2>3, <3>2, <3>6 DEF At
  <2>6. QED
    BY <2>4, <2>5
<1>4. CASE \E s \in Slot : WriterPage(s)
  <2>1. PICK s \in Slot : WriterPage(s)
    BY <1>4
  <2>2. created /\ pcW = s /\ s \notin {"copy", "off"} /\ Pending(s)
    BY <2>1 DEF Control, Life, WriterPage, Slot, Pending
  <2>3. flash[RunBase + i][k] = Run
    BY <1>2, <2>2 DEF RunSafe, At
  <2>4. n \in 0..(appLen - 1)
    BY <1>2
  <2>5. /\ RunBase + i < rcv_ota.staging /\ RunBase + i \in Nat /\ rcv_ota.staging \in Nat
        /\ rcv_ota.staging <= slots[s].addr /\ slots[s].addr \in Page
    BY <2>2, <2>4, BelowStaging DEF Control, TypeOK, Session, Aimed
  <2>6. RunBase + i \in Page /\ RunBase + i # slots[s].addr
    BY <2>5, Lengths DEF Page
  <2>7. flash \in [Page -> PageData]
    BY DEF Control, TypeOK
  <2>8. flash' = flash \/ \E x : flash' = [flash EXCEPT ![slots[s].addr] = x]
    BY <2>1 DEF WriterPage
  <2>9. flash'[RunBase + i] = flash[RunBase + i]
    BY <2>6, <2>7, <2>8
  <2>10. QED
    BY <2>3, <2>9 DEF At
<1>5. CASE flash' = flash /\ pcW \notin {"copy", "off"}
  BY <1>2, <1>5 DEF RunSafe, At
<1>6. CASE UNCHANGED vars
  BY <1>1, <1>5, <1>6 DEF vars
<1>7. CASE Report
  <2>1. flash' = flash /\ pcW' = pcW
    BY <1>7 DEF Report, HandleBegin, HandleAbort, HandleVerify, HandleActivate, HandleData
  <2>2. QED
    BY <1>1, <1>5, <2>1
<1>8. CASE Retire \/ AbortIdle \/ BeginFails \/ Copy \/ JoinTimeout
  <2>1. flash' = flash /\ pcW' = pcW
    BY <1>8 DEF Retire, AbortIdle, BeginFails, Copy, JoinTimeout
  <2>2. QED
    BY <1>1, <1>5, <2>1
<1>9. CASE WriterLoops \/ WriterTakes \/ WriterVerifies \/ ReadFails \/ WriterActivates \/ RequestUpgrade
  <2>1. flash' = flash /\ pcW \notin {"copy", "off"}
    BY <1>9 DEF WriterLoops, WriterTakes, WriterVerifies, ReadFails, WriterActivates, RequestUpgrade,
       Verify, Activate
  <2>2. QED
    BY <1>5, <2>1
<1>10. CASE StartCopier \/ CopyPage \/ WriteSettings \/ PowerFails
  BY <1>1, <1>10 DEF StartCopier, CopyPage, WriteSettings, PowerFails
<1>11. QED
  BY <1>3, <1>4, <1>6, <1>7, <1>8, <1>9, <1>10 DEF Next, Continue, Writer

\* The image in staging stays where it is while it is copied: page n \div PageLen of
\* staging is not a page that the copier writes.
LEMMA AboveTarget ==
  ASSUME Control, pcW = "copy", copied < PagesFor(rcv_ota.size), NEW n \in 0..(rcv_ota.size - 1)
  PROVE  /\ rcv_ota.staging + n \div PageLen \in Page /\ rcv_ota.target + n \div PageLen \in Page
         /\ rcv_ota.staging + n \div PageLen # rcv_ota.target + copied
         /\ n = (n \div PageLen) * PageLen + (n % PageLen) /\ n \div PageLen \in Nat /\ n % PageLen \in 0..(PageLen - 1)
         /\ n \div PageLen < PagesFor(rcv_ota.size)
<1>1. /\ created /\ boot # "mcuboot"
  BY DEF Control, Life
<1>2. /\ rcv_ota.size \in Nat /\ rcv_ota.staging \in Nat /\ rcv_ota.target \in Nat /\ copied \in Nat
      /\ rcv_ota.staging + PagesFor(rcv_ota.size) <= FlashEnd
      /\ rcv_ota.target + PagesFor(rcv_ota.size) <= rcv_ota.staging
  BY <1>1, Lengths DEF Control, TypeOK, Session, Placed
<1>3. n \in Nat /\ n < rcv_ota.size
  BY <1>2
<1>4. PICK i \in Nat, k \in 0..(PageLen - 1) : n = i * PageLen + k /\ i = n \div PageLen /\ k = n % PageLen
  BY <1>3, Places
<1>5. PagesFor(rcv_ota.size) \in Nat /\ ((i < PagesFor(rcv_ota.size)) <=> (i * PageLen < rcv_ota.size))
  BY <1>2, PagesOf
<1>6. i < PagesFor(rcv_ota.size)
  <2>1. i * PageLen \in Nat /\ k \in Nat
    BY <1>4, Lengths
  <2>2. QED
    BY <1>2, <1>3, <1>4, <1>5, <2>1
<1>7. rcv_ota.staging + i \in Page /\ rcv_ota.target + i \in Page /\ rcv_ota.staging + i # rcv_ota.target + copied
  BY <1>2, <1>5, <1>6, Lengths DEF Page
<1>8. QED
  BY <1>4, <1>6, <1>7

\* What the copier does to flash.
LEMMA CopierWrites ==
  ASSUME Control, Verified, CopyPage \/ PowerFails
  PROVE  /\ rcv_ota' = rcv_ota /\ pcW = "copy" /\ created
         /\ Holds(flash, rcv_ota.staging, rcv_ota.size, rcv_ota.img)
         /\ \A n \in 0..(rcv_ota.size - 1) : At(flash, rcv_ota.staging, n)' = At(flash, rcv_ota.staging, n)
         /\ \A n \in 0..(rcv_ota.size - 1) :
              n \div PageLen < copied => At(flash, rcv_ota.target, n)' = At(flash, rcv_ota.target, n)
<1>1. /\ pcW = "copy" /\ copied < PagesFor(rcv_ota.size) /\ rcv_ota' = rcv_ota
      /\ flash' = flash \/ \E x : flash' = [flash EXCEPT ![rcv_ota.target + copied] = x]
  <2>1. CASE CopyPage
    BY <2>1 DEF CopyPage
  <2>2. CASE PowerFails
    BY <2>2 DEF PowerFails
  <2>3. QED
    BY <2>1, <2>2
<1>2. created
  BY <1>1 DEF Control, Life
<1>3. Holds(flash, rcv_ota.staging, rcv_ota.size, rcv_ota.img)
  BY <1>1, <1>2 DEF Control, Stage, Verified
<1>4. flash \in [Page -> PageData] /\ copied \in Nat /\ rcv_ota.target \in Nat
  BY Lengths DEF Control, TypeOK, Session
<1>5. \A p \in Page : p # rcv_ota.target + copied => flash'[p] = flash[p]
  BY <1>1, <1>4
<1>6. ASSUME NEW n \in 0..(rcv_ota.size - 1)
      PROVE  At(flash, rcv_ota.staging, n)' = At(flash, rcv_ota.staging, n)
  BY <1>1, <1>5, AboveTarget DEF At
<1>7. ASSUME NEW n \in 0..(rcv_ota.size - 1), n \div PageLen < copied
      PROVE  At(flash, rcv_ota.target, n)' = At(flash, rcv_ota.target, n)
  <2>1. rcv_ota.target + n \div PageLen \in Page /\ n \div PageLen \in Nat
    BY <1>1, AboveTarget
  <2>2. rcv_ota.target + n \div PageLen # rcv_ota.target + copied
    BY <1>4, <1>7, <2>1
  <2>3. QED
    BY <1>1, <1>5, <2>1, <2>2 DEF At
<1>8. QED
  BY <1>1, <1>2, <1>3, <1>6, <1>7

\* What was verified stays in staging: nothing is written there any more.
LEMMA VerifiedNext ==
  ASSUME Control, Verified, [Next]_vars
  PROVE  Verified'
<1>0. SUFFICES ASSUME rcv_ota'.err = "verify_ok"
               PROVE  Holds(flash', rcv_ota'.staging, rcv_ota'.size, rcv_ota'.img)
  BY DEF Verified
<1>1. /\ rcv_ota \in Session
      /\ \A e \in {"error", "size", "board", "flash", "seq", "verify"} : Failed(e).err # "verify_ok"
  BY DEF Control, TypeOK, Failed, Session
<1>2. CASE CopyPage \/ PowerFails
  <2>1. /\ rcv_ota' = rcv_ota /\ Holds(flash, rcv_ota.staging, rcv_ota.size, rcv_ota.img)
        /\ \A n \in 0..(rcv_ota.size - 1) : At(flash, rcv_ota.staging, n)' = At(flash, rcv_ota.staging, n)
    BY <1>2, CopierWrites
  <2>2. QED
    BY <2>1 DEF Holds, At
<1>3. CASE WriterVerifies
  <2>1. CASE werr \/ ~Holds(flash, rcv_ota.staging, rcv_ota.size, rcv_ota.img)
    BY <1>0, <1>1, <1>3, <2>1 DEF WriterVerifies
  <2>2. CASE ~werr /\ Holds(flash, rcv_ota.staging, rcv_ota.size, rcv_ota.img)
    <3>1. rcv_ota' = [rcv_ota EXCEPT !.err = "verify_ok"] /\ flash' = flash
      BY <1>3, <2>2 DEF WriterVerifies
    <3>2. QED
      BY <1>1, <2>2, <3>1 DEF Session
  <2>3. QED
    BY <2>1, <2>2
<1>4. CASE \E s \in Slot : WriterPage(s)
  <2>1. rcv_ota' = rcv_ota /\ pcW \in Slot
    BY <1>4 DEF WriterPage
  <2>2. QED
    BY <1>0, <2>1 DEF Control, Last
<1>5. ASSUME flash' = flash, rcv_ota.err = "verify_ok", rcv_ota'.img = rcv_ota.img, rcv_ota'.size = rcv_ota.size,
             rcv_ota'.staging = rcv_ota.staging
      PROVE  Holds(flash', rcv_ota'.staging, rcv_ota'.size, rcv_ota'.img)
  BY <1>5 DEF Verified
<1>6. CASE HandleBegin \/ HandleAbort
  BY <1>0, <1>1, <1>5, <1>6 DEF HandleBegin, HandleAbort
<1>7. CASE HandleVerify
  <2>1. flash' = flash
    BY <1>7 DEF HandleVerify
  <2>2. \/ \E e \in {"seq", "flash"} : rcv_ota' = Failed(e)
        \/ rcv_ota' = [rcv_ota EXCEPT !.state = "verifying"]
        \/ rcv_ota' = [rcv_ota EXCEPT !.state = "verifying", !.slot = Other(@), !.page = @ + 1, !.off = 0]
    BY <1>7, VerifyEffect
  <2>3. QED
    BY <1>0, <1>1, <1>5, <2>1, <2>2 DEF Session
<1>8. CASE HandleActivate
  BY <1>0, <1>1, <1>5, <1>8 DEF HandleActivate, Session
<1>9. CASE \E img \in Images, seq \in 0..rcv_ota.size : HandleData(img, seq)
  <2>1. PICK img \in Images, seq \in 0..rcv_ota.size : HandleData(img, seq)
    BY <1>9
  <2>2. \/ \E e \in {"flash", "seq", "verify"} : rcv_ota' = Failed(e)
        \/ rcv_ota' = [rcv_ota EXCEPT !.state = "receiving", !.mixed = @ \/ img # rcv_ota.img]
    BY <2>1 DEF HandleData
  <2>3. flash' = flash
    BY <2>1 DEF HandleData
  <2>4. QED
    BY <1>0, <1>1, <1>5, <2>2, <2>3 DEF Session
<1>10. CASE Retire \/ AbortIdle
  BY <1>0, <1>1, <1>5, <1>10 DEF Retire, AbortIdle, Idle, Session
<1>11. CASE BeginFails \/ BeginCommits
  BY <1>0, <1>1, <1>11 DEF BeginFails, BeginCommits, Idle
<1>12. CASE Copy
  <2>1. flash' = flash /\ (WaitFails \/ Fills \/ Sticks \/ Flushes)
    BY <1>12, CopyEffect
  <2>2. CASE Fills \/ Flushes
    <3>1. /\ rcv_ota'.img = rcv_ota.img /\ rcv_ota'.size = rcv_ota.size
          /\ rcv_ota'.staging = rcv_ota.staging /\ rcv_ota'.err = rcv_ota.err
      BY <1>1, <2>2 DEF Fills, Flushes, Session
    <3>2. QED
      BY <1>0, <1>5, <2>1, <3>1
  <2>3. CASE WaitFails \/ Sticks
    BY <1>0, <1>1, <2>3 DEF WaitFails, Sticks, Session
  <2>4. QED
    BY <2>1, <2>2, <2>3
<1>13. CASE JoinTimeout \/ WriterLoops \/ WriterTakes \/ StartCopier \/ WriteSettings \/ UNCHANGED vars
  <2>1. flash' = flash /\ rcv_ota' = rcv_ota
    BY <1>13 DEF JoinTimeout, WriterLoops, WriterTakes, StartCopier, WriteSettings, vars
  <2>2. QED
    BY <1>0, <1>5, <2>1
<1>14. CASE ReadFails \/ WriterActivates \/ RequestUpgrade
  <2>1. flash' = flash
    BY <1>14 DEF ReadFails, WriterActivates, RequestUpgrade
  <2>2. \/ rcv_ota' = Failed("flash") \/ rcv_ota' = [rcv_ota EXCEPT !.state = "activating"]
        \/ rcv_ota' = [rcv_ota EXCEPT !.state = "complete"]
    BY <1>14 DEF ReadFails, WriterActivates, RequestUpgrade
  <2>3. QED
    BY <1>0, <1>1, <1>5, <2>1, <2>2 DEF Session
<1>15. QED
  BY <1>2, <1>3, <1>4, <1>6, <1>7, <1>8, <1>9, <1>10, <1>11, <1>12, <1>13, <1>14 DEF Next, Report,
     Continue, Writer

\* rcv_ota_flash_copy_from_ram puts page after page in place.
LEMMA InstallingNext ==
  ASSUME Control, Verified, Installing, [Next]_vars
  PROVE  Installing'
<1>0. SUFFICES ASSUME pcW' = "copy"
               PROVE  /\ copied' <= PagesFor(rcv_ota'.size)
                      /\ \A n \in 0..(rcv_ota'.size - 1) :
                           n \div PageLen < copied' => At(flash', rcv_ota'.target, n) = <<rcv_ota'.img, n>>
  BY DEF Installing
<1>1. CASE UNCHANGED vars
  BY <1>0, <1>1 DEF vars, Installing
<1>2. CASE StartCopier
  <2>1. copied' = 0 /\ rcv_ota' = rcv_ota
    BY <1>2 DEF StartCopier, Control, Life
  <2>2. rcv_ota.size \in Nat /\ PagesFor(rcv_ota.size) \in Nat
    BY PagesOf DEF Control, TypeOK, Session
  <2>3. ASSUME NEW n \in 0..(rcv_ota.size - 1)
        PROVE  ~(n \div PageLen < 0)
    <3>1. n \in Nat
      BY <2>2
    <3>2. n \div PageLen \in Nat
      BY <3>1, Places
    <3>3. QED
      BY <3>2
  <2>4. QED
    BY <2>1, <2>2, <2>3
<1>3. CASE CopyPage
  <2> DEFINE words == Smaller(PageLen, rcv_ota.size - copied * PageLen)
             src == flash[rcv_ota.staging + copied]
             dst == flash[rcv_ota.target + copied]
             same == \A k \in 0..(words - 1) : src[k] = dst[k]
             page == IF same THEN dst ELSE [k \in 0..(PageLen - 1) |-> IF k < words THEN src[k] ELSE Erased]
  <2>1. /\ copied < PagesFor(rcv_ota.size) /\ copied' = copied + 1 /\ rcv_ota' = rcv_ota /\ pcW = "copy"
        /\ flash' = [flash EXCEPT ![rcv_ota.target + copied] = page]
    BY <1>3 DEF CopyPage
  <2>2. /\ rcv_ota.size \in Nat /\ copied \in Nat /\ PagesFor(rcv_ota.size) \in Nat /\ copied * PageLen \in Nat
        /\ flash \in [Page -> PageData] /\ rcv_ota.target \in Nat
    <3>1. rcv_ota.size \in Nat /\ copied \in Nat /\ flash \in [Page -> PageData] /\ rcv_ota.target \in Nat
      BY Lengths DEF Control, TypeOK, Session
    <3>2. PagesFor(rcv_ota.size) \in Nat /\ copied * PageLen \in Nat
      BY <3>1, PagesOf, Lengths
    <3>3. QED
      BY <3>1, <3>2
  <2>3. /\ Holds(flash, rcv_ota.staging, rcv_ota.size, rcv_ota.img)
        /\ \A n \in 0..(rcv_ota.size - 1) :
             n \div PageLen < copied => At(flash, rcv_ota.target, n)' = At(flash, rcv_ota.target, n)
    BY <1>3, CopierWrites
  <2>4. ASSUME NEW n \in 0..(rcv_ota.size - 1), n \div PageLen < copied + 1
        PROVE  At(flash', rcv_ota.target, n) = <<rcv_ota.img, n>>
    <3>1. /\ n \div PageLen \in Nat /\ n % PageLen \in 0..(PageLen - 1) /\ rcv_ota.target + n \div PageLen \in Page
          /\ n = (n \div PageLen) * PageLen + (n % PageLen)
      BY <2>1, AboveTarget
    <3>2. CASE n \div PageLen < copied
      BY <2>1, <2>3, <3>2 DEF Installing, At
    <3>3. CASE n \div PageLen = copied
      <4> DEFINE k == n % PageLen
      <4>1. k \in 0..(words - 1)
        <5>1. n = copied * PageLen + k /\ n < rcv_ota.size /\ k \in Nat /\ k < PageLen /\ n \in Nat
          BY <2>2, <3>1, <3>3, Lengths
        <5>2. QED
          BY <2>2, <5>1, Lengths DEF Smaller
      <4>2. flash'[rcv_ota.target + copied] = page
        BY <2>1, <2>2, <3>1, <3>3
      <4>3. src[k] = <<rcv_ota.img, n>>
        BY <2>3, <3>3 DEF Holds, At
      <4>4. page[k] = src[k]
        <5>1. CASE same
          BY <4>1, <5>1
        <5>2. CASE ~same
          <6>1. k < words /\ k \in 0..(PageLen - 1)
            BY <2>2, <3>1, <4>1, Lengths DEF Smaller
          <6>2. QED
            BY <5>2, <6>1
        <5>3. QED
          BY <5>1, <5>2
      <4>5. QED
        BY <3>3, <4>2, <4>3, <4>4 DEF At
    <3>4. QED
      BY <2>2, <2>4, <3>1, <3>2, <3>3
  <2>5. copied + 1 <= PagesFor(rcv_ota.size)
    BY <2>1, <2>2
  <2>6. QED
    BY <2>1, <2>4, <2>5
<1>4. CASE Report \/ Retire \/ AbortIdle \/ BeginFails \/ BeginCommits \/ Copy \/ JoinTimeout
  <2>1. pcW' = "loop" \/ (pcW' = pcW /\ (pcW \notin {"copy", "off"} \/ pcW = "exit"))
    <3>1. CASE Report
      BY <3>1 DEF Report, HandleBegin, HandleAbort, HandleVerify, HandleActivate, HandleData, Admitted,
         Running
    <3>2. CASE Retire \/ AbortIdle \/ BeginFails
      BY <3>2 DEF Retire, Joined, AbortIdle, BeginFails, Control, Life
    <3>3. CASE BeginCommits \/ Copy \/ JoinTimeout
      BY <3>3 DEF BeginCommits, StartWriter, Copy, JoinTimeout, Running
    <3>4. QED
      BY <1>4, <3>1, <3>2, <3>3
  <2>2. QED
    BY <1>0, <2>1
<1>5. CASE WriterTakes
  BY <1>0, <1>5, QueueHolds, NotACommand, QueueShrinks DEF WriterTakes, Control
<1>6. CASE WriterLoops \/ (\E s \in Slot : WriterPage(s)) \/ WriterVerifies \/ ReadFails
  BY <1>0, <1>6 DEF WriterLoops, WriterPage, WriterVerifies, ReadFails
<1>7. CASE WriterActivates \/ RequestUpgrade \/ WriteSettings \/ PowerFails
  BY <1>0, <1>7 DEF WriterActivates, RequestUpgrade, WriteSettings, PowerFails, Control, Life
<1>8. QED
  BY <1>1, <1>2, <1>3, <1>4, <1>5, <1>6, <1>7 DEF Next, Continue, Writer

\* The settings are written when the image is in place, and nothing runs after.
LEMMA SettledNext ==
  ASSUME Control, Verified, Installing, Settled, [Next]_vars
  PROVE  Settled'
<1>0. rcv_ota \in Session
  BY DEF Control, TypeOK
<1>1. CASE UNCHANGED vars
  BY <1>1 DEF vars, Settled
<1>2. CASE RequestUpgrade
  <2>1. pcW = "activating" /\ created /\ settings = "old" /\ boot = "mcuboot" /\ boot' = boot /\ flash' = flash
    BY <1>2 DEF RequestUpgrade, Control, Life
  <2>2. Holds(flash, rcv_ota.staging, rcv_ota.size, rcv_ota.img)
    BY <2>1 DEF Control, Stage, Verified
  <2>3. \/ settings' = "old"
        \/ rcv_ota' = [rcv_ota EXCEPT !.state = "complete"] /\ settings' = rcv_ota.img
    BY <1>2, <2>1 DEF RequestUpgrade
  <2>4. QED
    BY <1>0, <2>1, <2>2, <2>3 DEF Settled, Session
<1>3. CASE WriteSettings
  <2>1. /\ pcW = "copy" /\ copied = PagesFor(rcv_ota.size) /\ created /\ boot # "mcuboot"
        /\ settings' = rcv_ota.img /\ UNCHANGED <<boot, flash, rcv_ota>>
    BY <1>3 DEF WriteSettings, Control, Life
  <2>2. rcv_ota.img \in Images /\ rcv_ota.size = ImageLen[rcv_ota.img] /\ rcv_ota.size \in Nat
    BY <1>0, <2>1 DEF Control, Placed, Session
  <2>3. ASSUME NEW n \in 0..(rcv_ota.size - 1)
        PROVE  At(flash, rcv_ota.target, n) = <<rcv_ota.img, n>>
    <3>1. n \in Nat /\ n < rcv_ota.size
      BY <2>2
    <3>2. PICK i \in Nat, k \in 0..(PageLen - 1) : n = i * PageLen + k /\ i = n \div PageLen
      BY <3>1, Places
    <3>3. i * PageLen < rcv_ota.size
      <4>1. i * PageLen \in Nat /\ k \in Nat
        BY <3>2, Lengths
      <4>2. QED
        BY <2>2, <3>1, <3>2, <4>1
    <3>4. i < PagesFor(rcv_ota.size)
      BY <2>2, <3>3, PagesOf
    <3>5. QED
      BY <2>1, <3>2, <3>4 DEF Installing
  <2>4. Holds(flash, rcv_ota.target, rcv_ota.size, rcv_ota.img)
    BY <2>2, <2>3 DEF Holds
  <2>5. QED
    BY <2>1, <2>4 DEF Settled
<1>4. CASE settings = "old" /\ settings' = settings
  BY <1>4 DEF Settled
<1>5. CASE Next /\ ~RequestUpgrade /\ ~WriteSettings
  <2>1. settings' = settings
    BY <1>5 DEF Next, Report, Continue, Writer, HandleBegin, HandleAbort, HandleVerify, HandleActivate,
       HandleData,
     Retire, AbortIdle, BeginFails, BeginCommits, Copy, JoinTimeout, WriterLoops, WriterTakes, WriterPage,
     WriterVerifies, ReadFails, WriterActivates, StartCopier, CopyPage, PowerFails
  <2>2. pcW # "off"
    <3>1. CASE Report
      BY <3>1 DEF Report, HandleBegin, HandleAbort, HandleVerify, HandleActivate, HandleData, Admitted,
         Running
    <3>2. CASE Continue \/ JoinTimeout
      BY <3>2 DEF Continue, Retire, Joined, AbortIdle, BeginFails, BeginCommits, Copy, JoinTimeout,
         Running, Control, Life
    <3>3. CASE Writer \/ PowerFails
      BY <3>3 DEF Writer, WriterLoops, WriterTakes, WriterPage, WriterVerifies, ReadFails, WriterActivates,
         RequestUpgrade, StartCopier, CopyPage, WriteSettings, PowerFails, Slot, Verify, Activate
    <3>4. QED
      BY <1>5, <3>1, <3>2, <3>3 DEF Next
  <2>3. QED
    BY <1>4, <2>1, <2>2 DEF Control, Life
<1>6. QED
  BY <1>1, <1>2, <1>3, <1>5

\* Only a verified image is installed, and only as a whole: what passed the checksum
\* stays in staging, the running firmware is untouched until the copier starts, and
\* the boot loader is told of an image that lies complete where it will look for it,
\* for every image that the validation of BEGIN lets in.
THEOREM InstallIsSafe == Spec => []InstallSafe
<1>1. Init => Control /\ Installs
  <2>1. ASSUME Init
        PROVE  Aimed /\ Verified /\ Installing /\ Settled
    BY <2>1 DEF Init, Aimed, Verified, Installing, Settled, Idle
  <2>2. QED
    BY <2>1, ControlInit, RunSafeInit DEF Installs
<1>2. Control /\ Installs /\ [Next]_vars => (Control /\ Installs)'
  <2>1. SUFFICES ASSUME Control, Installs, [Next]_vars
                 PROVE  Control' /\ Installs'
    OBVIOUS
  <2>2. Aimed' /\ RunSafe' /\ Verified' /\ Installing' /\ Settled'
    BY <2>1, AimedNext, RunSafeNext, VerifiedNext, InstallingNext, SettledNext DEF Installs
  <2>3. QED
    BY <2>1, <2>2, ControlNext DEF Installs
<1>3. Control /\ Installs => InstallSafe
  BY DEF Installs, RunSafe, Verified, Settled, InstallSafe
<1>4. QED
  BY <1>1, <1>2, <1>3, PTL DEF Spec
=============================================================================
