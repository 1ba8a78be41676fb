----------------------------- MODULE ReceiverOta -----------------------------
(***************************************************************************)
(* The receiver updates its own firmware (receiver_ota.c).  Reports of the *)
(* host are handled one at a time by the USB thread (pcH).  It fills two   *)
(* page buffers in turn and hands each full one to the writer thread (pcW) *)
(* through a message queue; the writer erases and writes staging flash,    *)
(* verifies the image there and installs it.  The USB thread is            *)
(* cooperative: the writer runs only while it waits, for a page buffer or  *)
(* for the end of the writer, and these waits may time out.                *)
(*                                                                         *)
(* Flash is a sequence of pages of PageLen units; a DATA report carries    *)
(* ChunkLen units, so a report may straddle two pages.  A unit is          *)
(* <<image, position>>, or says what it is otherwise.  A checksum over the *)
(* staged units is modelled as what it stands for: equality with the       *)
(* image.                                                                  *)
(***************************************************************************)
EXTENDS Integers, Sequences, FiniteSets

CONSTANTS
  Images,      \* firmware images that a host may send
  ImageLen,    \* their lengths in units
  PageLen,     \* RCV_OTA_FLASH_PAGE_SIZE
  ChunkLen,    \* OTA_DATA_MAX_PAYLOAD
  RunBase,     \* RCV_OTA_FLASH_BASE, as a page
  FlashEnd,    \* RCV_OTA_FLASH_END, as a page
  AppLens,     \* lengths that the running firmware may have, in units
  Boots        \* boot loaders: "mcuboot", "uf2", "none" or "acl" (self-update blocked)

ASSUME OtaConstants ==
  /\ PageLen \in Nat \ {0} /\ ChunkLen \in Nat \ {0}
  /\ ImageLen \in [Images -> Nat]
  /\ RunBase \in Nat /\ FlashEnd \in Nat /\ RunBase < FlashEnd
  /\ AppLens \subseteq 1..((FlashEnd - RunBase) * PageLen)
  /\ Boots \subseteq {"mcuboot", "uf2", "none", "acl"}

VARIABLES
  boot,      \* the boot loader of this build
  appLen,    \* _flash_used
  rcv_ota,   \* the session
  slots,     \* page_write_reqs: what the two page buffers hold
  sems,      \* slot_sems: buffers that nobody owns
  queue,     \* page_write_msgq
  werr,      \* writer_error
  stop,      \* writer_stop_requested
  created,   \* writer_created
  pcW,       \* the writer thread
  pcH,       \* the USB thread
  rest,      \* units of the current DATA report that are not yet copied
  copied,    \* pages that the copier has put in place
  flash,     \* the pages of the application partition
  settings   \* what the boot loader is told to run: "old" or an image

vars == <<boot, appLen, rcv_ota, slots, sems, queue, werr, stop, created, pcW, pcH,
          rest, copied, flash, settings>>
threadVars == <<sems, queue, werr, stop, created>>

Slot == {"slot0", "slot1"}
Other(s) == IF s = "slot0" THEN "slot1" ELSE "slot0"
Page == 0..(FlashEnd - 1)
Shutdown == "shutdown"
Verify == "verify"
Activate == "activate"

\* The parts of an image, and units that belong to none.
ImageUnits == UNION {{<<i, k>> : k \in 0..(ImageLen[i] - 1)} : i \in Images}
Run == <<"run", 0>>
Free == <<"free", 0>>
Erased == <<"erased", 0>>
Unit == ImageUnits \cup {Run, Free, Erased}

Blank == [k \in 0..(PageLen - 1) |-> Erased]
PagesFor(len) == (len + PageLen - 1) \div PageLen
Larger(a, b) == IF a > b THEN a ELSE b
Smaller(a, b) == IF a < b THEN a ELSE b

Idle == [state |-> "idle", err |-> "none", img |-> "none", size |-> 0, next |-> 0,
         bytes |-> 0, staging |-> 0, target |-> 0, off |-> 0, page |-> 0, slot |-> "slot0", mixed |-> FALSE]

\* The session also remembers (mixed) whether the host sent units of another image
\* than the one BEGIN announced; no action reads it.

\* Unit n of what lies in flash from page base on.
At(f, base, n) == f[base + n \div PageLen][n % PageLen]

\* What crc32_ieee_update over size units from page base on tells of the image.
Holds(f, base, size, img) ==
  /\ img \in Images /\ size = ImageLen[img]
  /\ \A n \in 0..(size - 1) : At(f, base, n) = <<img, n>>

WriterAlive == created /\ pcW # "exit"
\* rcv_ota_activate_and_reset: interrupts are off and nobody else runs; "off" is
\* the moment after the reset, where this model ends.
Running == pcW \notin {"copy", "off"}

----------------------------------------------------------------------------
(* Starting and stopping the writer.                                       *)

\* rcv_ota_start_writer; BEGIN calls it when no writer exists.
StartWriter ==
  /\ created' = TRUE
  /\ werr' = FALSE
  /\ stop' = FALSE
  /\ queue' = <<>>
  /\ sems' = [s \in Slot |-> TRUE]
  /\ pcW' = "loop"

QueueLen == 4
Put(cmd) == IF Len(queue) < QueueLen THEN Append(queue, cmd) ELSE queue

\* A mistake: trust the flag alone to end the thread.
RequestStop_NoWake ==
  /\ stop' = TRUE
  /\ UNCHANGED queue

\* rcv_ota_stop_writer up to k_thread_join.
RequestStop ==
  /\ stop' = TRUE
  /\ queue' = Put(Shutdown)

\* rcv_ota_stop_writer after a successful join: the producer's page, if any, is
\* given back.
Joined ==
  /\ pcW = "exit"
  /\ sems' = IF rcv_ota.off > 0 THEN [sems EXCEPT ![rcv_ota.slot] = TRUE] ELSE sems
  /\ created' = FALSE
  /\ stop' = FALSE

Failed(err) == [rcv_ota EXCEPT !.state = "error", !.err = err]

----------------------------------------------------------------------------
(* The USB thread: one report after another.                               *)

\* receiver_ota_process_hid: which reports are handled while a stop is pending.
Admitted(report) == pcH = "idle" /\ Running /\ (stop => report \in {"begin", "abort"})

\* BEGIN.  The radio gate may refuse it, and a session in progress keeps going:
\* both only answer with a status.  Otherwise the old writer is stopped first.
HandleBegin ==
  /\ Admitted("begin")
  /\ IF boot = "acl"
     THEN /\ rcv_ota' = Failed("error")
          /\ UNCHANGED <<pcH, stop, queue>>
     ELSE /\ rcv_ota.state \in {"idle", "error", "complete"} \/ stop
          /\ pcH' = "begin"
          /\ IF created THEN RequestStop ELSE UNCHANGED <<stop, queue>>
          /\ UNCHANGED rcv_ota
  /\ UNCHANGED <<boot, appLen, copied, slots, sems, werr, created, pcW, rest, flash, settings>>

\* ABORT.
HandleAbort ==
  /\ Admitted("abort")
  /\ pcH' = "abort"
  /\ IF created THEN RequestStop ELSE UNCHANGED <<stop, queue>>
  /\ UNCHANGED <<boot, appLen, copied, rcv_ota, slots, sems, werr, created, pcW, rest, flash, settings>>

\* The writer is gone, or was never there: the handler goes on.
Retire ==
  /\ pcH \in {"begin", "abort"} /\ created /\ Running
  /\ Joined
  /\ rcv_ota' = IF pcH = "abort" THEN Idle ELSE [rcv_ota EXCEPT !.off = 0]
  /\ pcH' = IF pcH = "abort" THEN "idle" ELSE "begin"
  /\ UNCHANGED <<boot, appLen, copied, slots, queue, werr, pcW, rest, flash, settings>>

AbortIdle ==
  /\ pcH = "abort" /\ ~created
  /\ rcv_ota' = Idle
  /\ pcH' = "idle"
  /\ UNCHANGED <<boot, appLen, copied, slots, threadVars, pcW, rest, flash, settings>>

\* k_thread_join times out: the session is kept and the flag stays set.
JoinTimeout ==
  /\ pcH \in {"begin", "abort"} /\ WriterAlive /\ Running
  /\ pcH' = "idle"
  /\ UNCHANGED <<boot, appLen, copied, rcv_ota, slots, threadVars, pcW, rest, flash, settings>>

\* The staging area of an image: the end of the partition, or the second slot.
SlotPages == (FlashEnd - RunBase) \div 2
StagingBase(len) == IF boot = "mcuboot" THEN FlashEnd - SlotPages ELSE FlashEnd - PagesFor(len)

\* A mistake: look at the new image only.
Overlaps_NewOnly(len) ==
  boot # "mcuboot" /\ StagingBase(len) * PageLen < RunBase * PageLen + len

\* Staging must not reach into the running firmware nor into the new one.
Overlaps(len) ==
  boot # "mcuboot" /\ StagingBase(len) * PageLen < RunBase * PageLen + Larger(len, appLen)

\* The validation of BEGIN: the length, and the flash base of the image, where 0
\* stands for the base of the running firmware.  The protocol version and the
\* board are free choices of BeginFails; MCUboot's capacity is its second slot.
Valid(len, base) ==
  /\ len > 0
  /\ len <= IF boot = "mcuboot" THEN SlotPages * PageLen ELSE ((FlashEnd - RunBase) * PageLen) \div 2
  /\ boot = "mcuboot" => base = 0
  /\ base # 0 => base <= RunBase /\ base * PageLen + len <= FlashEnd * PageLen
  /\ ~Overlaps(len)

\* The validation fails, or the second slot cannot be erased.
BeginFails ==
  /\ pcH = "begin" /\ ~created
  /\ \/ \E err \in {"error", "size", "board"} : rcv_ota' = Failed(err)
     \/ boot = "mcuboot" /\ rcv_ota' = [Idle EXCEPT !.state = "error", !.err = "flash"]
  /\ pcH' = "idle"
  /\ UNCHANGED <<boot, appLen, copied, slots, threadVars, pcW, rest, flash, settings>>

\* BEGIN is accepted: a new session and a new writer.
BeginCommits ==
  /\ pcH = "begin" /\ ~created
  /\ \E img \in Images, base \in 0..FlashEnd :
       LET len == ImageLen[img]
       IN  /\ Valid(len, base)
           /\ rcv_ota' = [Idle EXCEPT !.state = "ready", !.img = img, !.size = len,
                            !.staging = StagingBase(len), !.page = StagingBase(len),
                            !.target = CASE boot = "mcuboot" -> 0 [] base = 0 -> RunBase [] OTHER -> base]
  /\ flash' = IF boot = "mcuboot"
              THEN [p \in Page |-> IF p >= FlashEnd - SlotPages THEN Blank ELSE flash[p]]
              ELSE flash
  /\ StartWriter
  /\ pcH' = "idle"
  /\ UNCHANGED <<boot, appLen, copied, slots, rest, settings>>

\* DATA with number seq and units of img, up to the loop that copies it.  A
\* number from the past or beyond the image is ignored.
HandleData(img, seq) ==
  /\ Admitted("data")
  /\ rcv_ota.state \in {"ready", "receiving"}
  /\ seq * ChunkLen < rcv_ota.size
  /\ IF werr THEN rcv_ota' = Failed("flash") /\ UNCHANGED <<pcH, rest>>
     ELSE IF seq # rcv_ota.next
     THEN seq > rcv_ota.next /\ rcv_ota' = Failed("seq") /\ UNCHANGED <<pcH, rest>>
     ELSE \/ /\ rcv_ota' = [rcv_ota EXCEPT !.state = "receiving", !.mixed = @ \/ img # rcv_ota.img]
             /\ pcH' = "copy"
             /\ rest' = [n \in 1..Smaller(ChunkLen, rcv_ota.size - seq * ChunkLen) |->
                           LET k == seq * ChunkLen + n - 1
                           IN  IF k < ImageLen[img] THEN <<img, k>> ELSE Free]
          \* the header is not one for this boot loader
          \/ rcv_ota.bytes = 0 /\ rcv_ota' = Failed("verify") /\ UNCHANGED <<pcH, rest>>
  /\ UNCHANGED <<boot, appLen, copied, slots, threadVars, pcW, flash, settings>>

\* rcv_ota_flush_page_buf for session s with buffers b: the page goes to the
\* writer, or the error code says why not.
FlushFails == werr \/ Len(queue) >= QueueLen
\* A mistake: the next page goes to the same place.
Flushed_SamePage(s) == [s EXCEPT !.slot = Other(@), !.off = 0]
Flushed(s) == [s EXCEPT !.slot = Other(@), !.page = @ + 1, !.off = 0]

\* A partly filled page is padded.
PagedOut(b, s) ==
  [b EXCEPT ![s.slot] = [data |-> [k \in 0..(PageLen - 1) |->
                                     IF k < s.off THEN @.data[k] ELSE Erased],
                         addr |-> s.page, len |-> s.off]]

\* k_sem_take at the first unit of a page: the writer may still own the buffer.
\* A mistake: take the buffer without waiting.
Busy_Never(s) == FALSE
Busy(s) == s.off = 0 /\ ~sems[s.slot]

\* One round of the copying loop of rcv_ota_handle_data; the last one counts
\* the report as received.
Copy ==
  /\ pcH = "copy" /\ Running
  /\ LET s == rcv_ota
         n == Smaller(PageLen - s.off, Len(rest))
         filled == [slots EXCEPT ![s.slot].data = [k \in 0..(PageLen - 1) |->
                      IF k >= s.off /\ k < s.off + n THEN rest[k - s.off + 1] ELSE @[k]]]
         more == SubSeq(rest, n + 1, Len(rest))
         total == Smaller(ChunkLen, s.size - s.next * ChunkLen)
         Received(t) == IF more = <<>> THEN [t EXCEPT !.bytes = @ + total, !.next = @ + 1] ELSE t
         after == [s EXCEPT !.off = @ + n]
     IN  IF Busy(s)   \* the wait times out
         THEN /\ rcv_ota' = Failed("flash")
              /\ pcH' = "idle" /\ rest' = <<>>
              /\ UNCHANGED <<slots, sems, queue>>
         ELSE /\ sems' = [sems EXCEPT ![s.slot] = FALSE]
              /\ IF after.off < PageLen
                 THEN /\ rcv_ota' = Received(after)
                      /\ slots' = filled
                      /\ UNCHANGED queue
                 ELSE IF FlushFails
                 THEN /\ rcv_ota' = [after EXCEPT !.state = "error", !.err = "flash"]
                      /\ slots' = filled
                      /\ UNCHANGED queue
                 ELSE /\ rcv_ota' = Received(Flushed(after))
                      /\ slots' = PagedOut(filled, after)
                      /\ queue' = Put(s.slot)
              /\ rest' = IF rcv_ota'.state = "error" THEN <<>> ELSE more
              /\ pcH' = IF rest' = <<>> THEN "idle" ELSE "copy"
  /\ UNCHANGED <<boot, appLen, copied, werr, stop, created, pcW, flash, settings>>

\* VERIFY.
HandleVerify ==
  /\ Admitted("verify")
  /\ rcv_ota.state \in {"ready", "receiving"}
  /\ LET s == [rcv_ota EXCEPT !.state = "verifying"]
     IN  IF rcv_ota.bytes # rcv_ota.size
         THEN rcv_ota' = Failed("seq") /\ UNCHANGED <<slots, queue>>
         ELSE IF s.off > 0 /\ FlushFails
         THEN rcv_ota' = Failed("flash") /\ UNCHANGED <<slots, queue>>
         ELSE LET q == IF s.off > 0 THEN Put(s.slot) ELSE queue
              IN  /\ slots' = IF s.off > 0 THEN PagedOut(slots, s) ELSE slots
                  /\ IF Len(q) < QueueLen
                     THEN /\ queue' = Append(q, Verify)
                          /\ rcv_ota' = IF s.off > 0 THEN Flushed(s) ELSE s
                     ELSE queue' = q /\ rcv_ota' = Failed("error")
  /\ UNCHANGED <<boot, appLen, copied, sems, werr, stop, created, pcW, pcH, rest, flash, settings>>

\* What ACTIVATE asks of the session.
MayActivate == rcv_ota.state = "verifying" /\ rcv_ota.err = "verify_ok"

\* ACTIVATE.
HandleActivate ==
  /\ Admitted("activate")
  /\ MayActivate
  /\ IF Len(queue) < QueueLen
     THEN rcv_ota' = [rcv_ota EXCEPT !.state = "activate_pending"]
     ELSE rcv_ota' = Failed("error")
  /\ queue' = Put(Activate)
  /\ UNCHANGED <<boot, appLen, copied, slots, sems, werr, stop, created, pcW, pcH, rest, flash, settings>>

----------------------------------------------------------------------------
(* The writer thread.  Between two reports it runs whenever the USB thread *)
(* waits; with the reports of a host this is between any two of them.      *)

\* rcv_ota_writer_fn: the head of the loop looks at the flag before it waits ...
WriterLoops ==
  /\ pcW = "loop"
  /\ pcW' = IF stop THEN "exit" ELSE "wait"
  /\ UNCHANGED <<boot, appLen, copied, rcv_ota, slots, threadVars, pcH, rest, flash, settings>>

\* ... and again when k_msgq_get, which waits for ever, has returned.
WriterTakes ==
  /\ pcW = "wait" /\ queue # <<>>
  /\ queue' = Tail(queue)
  /\ pcW' = IF stop \/ Head(queue) = Shutdown THEN "exit" ELSE Head(queue)
  /\ UNCHANGED <<boot, appLen, copied, rcv_ota, slots, sems, werr, stop, created, pcH, rest, flash, settings>>

\* A page: erase (not for MCUboot, which erased the slot) and write.  Either may
\* fail, and leaves the page as it was or half written (a page of one unit: erased).
WriterPage(s) ==
  /\ pcW = s
  /\ LET req == slots[s]
         erased == IF boot = "mcuboot" THEN flash[req.addr] ELSE Blank
         With(k) == [n \in 0..(PageLen - 1) |-> IF n < k THEN req.data[n] ELSE erased[n]]
     IN  \/ /\ flash' = [flash EXCEPT ![req.addr] = With(req.len)]
            /\ UNCHANGED werr
         \/ /\ \/ flash' = flash
               \/ flash' = [flash EXCEPT ![req.addr] = With(req.len \div 2)]
            /\ werr' = TRUE
  /\ sems' = [sems EXCEPT ![s] = TRUE]
  /\ pcW' = "loop"
  /\ UNCHANGED <<boot, appLen, copied, rcv_ota, slots, queue, stop, created, pcH, rest, settings>>

\* rcv_ota_do_verify.
WriterVerifies ==
  /\ pcW = Verify
  /\ rcv_ota' = CASE werr -> Failed("flash")
                  [] ~Holds(flash, rcv_ota.staging, rcv_ota.size, rcv_ota.img) -> Failed("verify")
                  [] OTHER -> [rcv_ota EXCEPT !.err = "verify_ok"]
  /\ pcW' = "loop"
  /\ UNCHANGED <<boot, appLen, copied, slots, threadVars, pcH, rest, flash, settings>>

ReadFails ==
  /\ pcW \in {Verify, "activating"} /\ (pcW = "activating" => boot = "uf2")
  /\ rcv_ota' = Failed("flash")
  /\ pcW' = IF pcW = Verify THEN "loop" ELSE "exit"
  /\ UNCHANGED <<boot, appLen, copied, slots, threadVars, pcH, rest, flash, settings>>

\* rcv_ota_do_activate: the status, then MCUboot's request or the copier.
WriterActivates ==
  /\ pcW = Activate
  /\ rcv_ota' = [rcv_ota EXCEPT !.state = "activating"]
  /\ pcW' = "activating"
  /\ UNCHANGED <<boot, appLen, copied, slots, threadVars, pcH, rest, flash, settings>>

RequestUpgrade ==
  /\ pcW = "activating" /\ boot = "mcuboot"
  /\ \/ rcv_ota' = Failed("flash") /\ pcW' = "exit" /\ UNCHANGED settings
     \/ rcv_ota' = [rcv_ota EXCEPT !.state = "complete"] /\ pcW' = "off" /\ settings' = rcv_ota.img
  /\ UNCHANGED <<boot, appLen, copied, slots, threadVars, pcH, rest, flash>>

StartCopier ==
  /\ pcW = "activating" /\ boot # "mcuboot"
  /\ pcW' = "copy"
  /\ UNCHANGED <<boot, appLen, copied, rcv_ota, slots, threadVars, pcH, rest, flash, settings>>

\* rcv_ota_flash_copy_from_ram: the pages in order.  Equal pages are skipped, a page is erased before it is written.
CopyPage ==
  /\ pcW = "copy" /\ copied < PagesFor(rcv_ota.size)
  /\ LET i == copied
         words == Smaller(PageLen, rcv_ota.size - i * PageLen)
         src == flash[rcv_ota.staging + i]
         dst == flash[rcv_ota.target + i]
         same == \A k \in 0..(words - 1) : src[k] = dst[k]
     IN  /\ flash' = [flash EXCEPT ![rcv_ota.target + i] =
                        IF same THEN dst ELSE [k \in 0..(PageLen - 1) |-> IF k < words THEN src[k] ELSE Erased]]
         /\ copied' = copied + 1
  /\ UNCHANGED <<boot, appLen, rcv_ota, slots, threadVars, pcW, pcH, rest, settings>>

\* Then the boot loader's settings, where it has some, and the reset.
WriteSettings ==
  /\ pcW = "copy" /\ copied = PagesFor(rcv_ota.size)
  /\ settings' = rcv_ota.img
  /\ pcW' = "off"
  /\ UNCHANGED <<boot, appLen, copied, rcv_ota, slots, threadVars, pcH, rest, flash>>

\* Power fails during the copy: the page at work may be left erased.
PowerFails ==
  /\ pcW = "copy" /\ copied < PagesFor(rcv_ota.size)
  /\ flash' \in {flash, [flash EXCEPT ![rcv_ota.target + copied] = Blank]}
  /\ pcW' = "off"
  /\ UNCHANGED <<boot, appLen, copied, rcv_ota, slots, threadVars, pcH, rest, settings>>

----------------------------------------------------------------------------

Init ==
  /\ boot \in Boots
  /\ appLen \in AppLens /\ (boot = "mcuboot" => appLen <= SlotPages * PageLen)
  /\ rcv_ota = Idle
  /\ slots = [s \in Slot |-> [data |-> Blank, addr |-> 0, len |-> 0]]
  /\ sems = [s \in Slot |-> TRUE]
  /\ queue = <<>>
  /\ werr = FALSE /\ stop = FALSE /\ created = FALSE
  /\ pcW = "exit" /\ pcH = "idle" /\ rest = <<>> /\ copied = 0
  /\ flash = [p \in Page |-> [k \in 0..(PageLen - 1) |->
                 IF p >= RunBase /\ (p - RunBase) * PageLen + k < appLen THEN Run ELSE Free]]
  /\ settings = "old"

\* One report of the host.
Report ==
  \/ HandleBegin \/ HandleAbort \/ HandleVerify \/ HandleActivate
  \/ \E img \in Images, seq \in 0..rcv_ota.size : HandleData(img, seq)

\* The USB thread goes on with a report.
Continue == Retire \/ AbortIdle \/ BeginFails \/ BeginCommits \/ Copy

Writer ==
  \/ WriterLoops \/ WriterTakes \/ (\E s \in Slot : WriterPage(s)) \/ WriterVerifies \/ ReadFails
  \/ WriterActivates \/ RequestUpgrade \/ StartCopier \/ CopyPage \/ WriteSettings

Next == Report \/ Continue \/ JoinTimeout \/ Writer \/ PowerFails

\* Both threads are scheduled; nobody has to send a report.
Fairness == WF_vars(Writer) /\ WF_vars(Continue)

Spec == Init /\ [][Next]_vars /\ Fairness

----------------------------------------------------------------------------
(* Properties.                                                             *)

Session ==
  [state : {"idle", "ready", "receiving", "verifying", "activate_pending", "activating", "complete", "error"},
   err : {"none", "error", "size", "board", "flash", "seq", "verify", "verify_ok"},
   img : Images \cup {"none"}, size : Nat, next : Nat, bytes : Nat, staging : Nat, target : Nat,
   off : 0..PageLen, page : 0..FlashEnd, slot : Slot, mixed : BOOLEAN]
PageData == [0..(PageLen - 1) -> Unit]

\* Type correctness: counters and page numbers stay within the image and the slots.
TypeOK ==
  /\ boot \in Boots /\ appLen \in AppLens
  /\ rcv_ota \in Session
  /\ slots \in [Slot -> [data : PageData, addr : Page, len : 0..PageLen]]
  /\ sems \in [Slot -> BOOLEAN]
  /\ queue \in Seq(Slot \cup {Shutdown, Verify, Activate}) /\ Len(queue) <= QueueLen
  /\ werr \in BOOLEAN /\ stop \in BOOLEAN /\ created \in BOOLEAN
  /\ pcW \in Slot \cup {"loop", "wait", "exit", Verify, Activate, "activating", "copy", "off"}
  /\ pcH \in {"idle", "begin", "abort", "copy"}
  /\ rest \in Seq(Unit) /\ Len(rest) <= ChunkLen
  /\ copied \in 0..FlashEnd
  /\ flash \in [Page -> PageData]
  /\ settings \in Images \cup {"old"}

Queued(s) == {i \in DOMAIN queue : queue[i] = s}
WriterOwns(s) == Queued(s) # {} \/ pcW = s
ProducerOwns(s) == rcv_ota.off > 0 /\ rcv_ota.slot = s

\* Every page buffer has one owner at most: its semaphore says free, or the USB
\* thread fills it, or it is queued once or being written; also after errors,
\* timeouts of the join and restarts of the writer.  While the writer serves the
\* queue no buffer is lost either; a writer that is stopped may drop a page, and
\* the next one starts with fresh semaphores.
SlotOwnership ==
  \A s \in Slot :
    /\ sems[s] => ~WriterOwns(s) /\ ~ProducerOwns(s)
    /\ WriterAlive /\ ~stop => sems[s] \/ WriterOwns(s) \/ ProducerOwns(s)
    /\ ~(WriterOwns(s) /\ ProducerOwns(s))
    /\ Cardinality(Queued(s)) + (IF pcW = s THEN 1 ELSE 0) <= 1

\* The state is well formed and every page buffer has its one owner.
SlotsSound == TypeOK /\ SlotOwnership

\* A transfer without a flash error whose units all came from the announced image
\* is whole in flash when the writer checks it: no page was lost, swapped, written
\* twice or overwritten in its buffer.
CompleteVerifies ==
  pcW = Verify /\ ~werr /\ ~rcv_ota.mixed /\ ~stop =>
    Holds(flash, rcv_ota.staging, rcv_ota.size, rcv_ota.img)

\* Only a verified image is installed, and only as a whole: from the checksum on,
\* staging holds the image; until the copier starts, the running firmware is
\* untouched; and the boot loader is pointed at the image when it is complete.
InstallSafe ==
  /\ rcv_ota.state # "error" /\ rcv_ota.err = "verify_ok" =>
       Holds(flash, rcv_ota.staging, rcv_ota.size, rcv_ota.img)
  /\ pcW \notin {"copy", "off"} =>
       \A n \in 0..(appLen - 1) : At(flash, RunBase, n) = Run
  /\ settings # "old" =>
       Holds(flash, IF boot = "mcuboot" THEN rcv_ota.staging ELSE rcv_ota.target,
             rcv_ota.size, settings)

\* A writer never outlives its session: BEGIN and ABORT put a new session, or none,
\* in place of the old one only when the old writer has ended, also when an
\* earlier attempt to stop it timed out.
NoResetUnderWriter ==
  [][rcv_ota'.state \in {"idle", "ready"} /\ rcv_ota' # rcv_ota => ~WriterAlive]_vars

\* A writer that is told to stop ends, whether it waits for work, works, or has a
\* full queue, unless it is already replacing the firmware.
StopHeard == stop ~> (~WriterAlive \/ ~Running)

\* A writer that is stopped ends, and no session replaces it before
\* (rcv_ota_writer_fn, rcv_ota_stop_writer).
WriterStops == NoResetUnderWriter /\ StopHeard
=============================================================================
