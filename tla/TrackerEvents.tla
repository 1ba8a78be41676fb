---------------------------- MODULE TrackerEvents ----------------------------
(***************************************************************************)
(* Tracker events (tracker_events.c): what one tracker says of its         *)
(* calibrations, its rest and its power, as the receiver caches it and     *)
(* tells it to the host that holds the subscription.                       *)
(*                                                                         *)
(* Four contexts: the radio interrupt queues packets; the ESB thread       *)
(* processes them, looks for silent entries and writes records to the HID  *)
(* queue; the work queue handles host commands and sends records; USB      *)
(* callbacks and the pairing store end sessions and pairings.  The lock of *)
(* the module makes one step of everything it covers, and of nothing else. *)
(*                                                                         *)
(* An event is known by its boot (the nonce) and its number in the boot;   *)
(* on the air the number is modulo Modulus.  A copy may be lost, repeated  *)
(* and reordered, but not for longer than a tick (three copies, 100 ms     *)
(* apart; a tick is seconds) or Lag newer events; the current rest and the *)
(* last event of a running calibration are repeated for ever.  Ages are    *)
(* counted in ticks, which pass while the ESB thread is idle.              *)
(***************************************************************************)
EXTENDS Integers, Sequences, FiniteSets, SequencesExt

CONSTANTS
  Scenes,      \* scenes: what the boots of the tracker say, in order, as [kind, op, phase];
               \* bounds on the USB sessions and on host commands
  Offset,      \* event_seq of the first event
  Modulus,     \* 2^16: numbers on the air
  Lag,         \* copies of how many events the tracker keeps on the air
  Window,      \* 64: how far back numbers are remembered
  OpCount,     \* OP_COUNT
  RxCount,     \* RX_COUNT
  FifoCap,     \* room for records in the HID queue
  CmdCap,      \* room in hid_cmd_msgq
  Masks,       \* kinds that a host subscribes to
  Ttl, RestStale, CalSilence, Activity, Relevance    \* TRACKER_EVENT_*_MS, POWER_INTENT_*_MS in ticks

ASSUME EventsConstants ==
  /\ \A s \in Scenes : \A b \in DOMAIN s.scripts :
       /\ Len(s.scripts[b]) <= Modulus
       /\ \A i \in DOMAIN s.scripts[b] : s.scripts[b][i].kind \in {"rest", "op", "power", "button"}
  /\ Window < Modulus \div 2 /\ Lag <= Modulus \div 2
  /\ {OpCount, RxCount, FifoCap, CmdCap, Ttl, RestStale, CalSilence, Activity, Relevance} \subseteq Nat \ {0}

VARIABLES
  scene,    \* the scene that is played
  trk,      \* the tracker: boot, events said so far, those of which no copy lives, the same of the last boot
  pgen,     \* pairing_generations of the tracker
  dirty,    \* the pairing store has still to call tracker_events_pairing_cleanup
  rx,       \* event_rx_queue
  cache,    \* the tracker_cache
  esb,      \* the ESB thread in tracker_events_process
  sub,      \* subscribed, lease, mask; who: history, the USB session that asked
  usb,      \* usb_generation
  gen,      \* subscription_generation
  cmds,     \* hid_cmd_msgq
  given,    \* bound: commands so far
  fifo,     \* event records in the HID queue
  told      \* history: the last rest record that the host got in this subscription

vars == <<scene, trk, pgen, dirty, rx, cache, esb, sub, usb, gen, cmds, given, fifo, told>>

Scripts == scene.scripts
Said(e) == Scripts[e.boot][e.n]
Seq16(e) == (e.n - 1 + Offset) % Modulus
Terminal(e) == Said(e).phase \in {"end", "rejected"}
\* An age stops where nothing tells it from a greater one.
Older(age) ==
  IF \E limit \in {Ttl, RestStale, CalSilence, Activity, Relevance} : age <= limit THEN age + 1 ELSE age

NoEvent == [boot |-> 1, n |-> 1, pg |-> 0]
NoEntry == [used |-> FALSE, e |-> NoEvent, age |-> 0, late |-> FALSE, version |-> 0, notified |-> 0,
            order |-> 0, first |-> 0, terminal |-> FALSE, stale |-> FALSE, why |-> "none"]
NoPower == [phase |-> "none", age |-> 0, late |-> FALSE, order |-> 0, mark |-> 0, seq |-> 0, ordered |-> FALSE,
            heard |-> {}]   \* heard: history, the notices of this boot that arrived
NoCache == [pgen |-> 0, nonce |-> 0, retired |-> 0, retiredAge |-> 0, init |-> FALSE, high |-> 0, highAge |-> 0,
            seen |-> {}, order |-> 0, ops |-> [i \in 1..OpCount |-> NoEntry], rest |-> NoEntry, power |-> NoPower]
NoRest == [boot |-> 0, n |-> 0]
Resting == [pc |-> "idle", left |-> 0, before |-> 0, aged |-> 0, at |-> 1, out |-> <<>>, step |-> "check"]

----------------------------------------------------------------------------
(* Subscriptions.                                                          *)

\* matches, with a clock that is not behind the start of the lease.
Matches(kind) == sub.on /\ sub.lease /\ kind \in sub.mask

\* The ESB thread calls matches with a clock reading that may be older than the
\* lease: their difference is then a huge one.
OldClock == IF sub.late THEN BOOLEAN ELSE {FALSE}
MatchGen(e, old) == IF Matches(Said(e).kind) /\ ~old THEN gen ELSE 0

\* tracker_events_hid_valid.
HidValid(r) == r.gen = gen /\ Matches(Said(r.e).kind)

HostCommand(act, mask) ==
  /\ given < scene.cmds /\ Len(cmds) < CmdCap
  /\ cmds' = Append(cmds, [act |-> act, mask |-> mask, usb |-> usb])
  /\ given' = given + 1
  /\ UNCHANGED <<scene, trk, pgen, dirty, rx, cache, esb, sub, usb, gen, fifo, told>>

FromSession(c) == c.usb = usb

\* The lease starts after the ESB thread took its time.
Behind == IF esb.pc = "idle" /\ rx = <<>> THEN {FALSE} ELSE BOOLEAN

\* tracker_events_control, called by hid_cmd_work_handler.
Control ==
  /\ cmds # <<>>
  /\ LET c == Head(cmds)
     IN  \/ /\ FromSession(c) /\ c.act = "subscribe"
            /\ \E late \in Behind :
                 sub' = [on |-> TRUE, lease |-> TRUE, late |-> late, mask |-> c.mask, who |-> c.usb]
            /\ gen' = gen + 1 /\ told' = NoRest
         \/ /\ FromSession(c) /\ c.act = "renew" /\ sub.on /\ sub.lease /\ c.mask = sub.mask
            /\ \E late \in Behind : sub' = [sub EXCEPT !.late = late]
            /\ UNCHANGED <<gen, told>>
         \/ /\ FromSession(c) /\ c.act = "unsubscribe"
            /\ sub' = [sub EXCEPT !.on = FALSE]
            /\ gen' = gen + 1 /\ UNCHANGED told
         \/ /\ ~FromSession(c) \/ (c.act = "renew" /\ ~(sub.on /\ sub.lease /\ c.mask = sub.mask))
            /\ UNCHANGED <<sub, gen, told>>
  /\ cmds' = Tail(cmds)
  /\ UNCHANGED <<scene, trk, pgen, dirty, rx, cache, esb, usb, given, fifo>>

LeaseExpires ==
  /\ sub.on /\ sub.lease
  /\ sub' = [sub EXCEPT !.lease = FALSE]
  /\ UNCHANGED <<scene, trk, pgen, dirty, rx, cache, esb, usb, gen, cmds, given, fifo, told>>

\* tracker_events_usb_reset.
UsbReset ==
  /\ usb < scene.usb
  /\ usb' = usb + 1 /\ gen' = gen + 1
  /\ sub' = [sub EXCEPT !.on = FALSE]
  /\ UNCHANGED <<scene, trk, pgen, dirty, rx, cache, esb, cmds, given, fifo, told>>

\* send_report takes a record and looks once more whether it is wanted.
SendRecord ==
  /\ fifo # <<>>
  /\ fifo' = Tail(fifo)
  /\ told' = IF HidValid(Head(fifo)) /\ Said(Head(fifo).e).kind = "rest"
             THEN [boot |-> Head(fifo).e.boot, n |-> IF Head(fifo).unknown THEN 0 ELSE Head(fifo).e.n] ELSE told
  /\ UNCHANGED <<scene, trk, pgen, dirty, rx, cache, esb, sub, usb, gen, cmds, given>>

----------------------------------------------------------------------------
(* The tracker and the radio.                                              *)

Say ==
  /\ trk.n < Len(Scripts[trk.boot])
  /\ trk' = [trk EXCEPT !.n = @ + 1]
  /\ UNCHANGED <<scene, pgen, dirty, rx, cache, esb, sub, usb, gen, cmds, given, fifo, told>>

Reboot ==
  /\ trk.boot < Len(Scripts)
  /\ trk' = [boot |-> trk.boot + 1, n |-> 0, dead |-> 0, last |-> trk.n, lastDead |-> trk.dead]
  /\ UNCHANGED <<scene, pgen, dirty, rx, cache, esb, sub, usb, gen, cmds, given, fifo, told>>

\* The last thing of a kind that this boot said.
Latest(kind) ==
  LET said == {i \in 1..trk.n : Scripts[trk.boot][i].kind = kind}
  IN  {i \in said : \A j \in said : j <= i}
\* What the tracker repeats: its rest, and a calibration that is under way.
Heartbeats == Latest("rest") \cup {i \in Latest("op") : Scripts[trk.boot][i].phase \in {"begin", "step"}}

\* Events that may arrive now, of this boot or, late, of the last one.
Alive(dead, n) == {i \in dead + 1..n : i > n - Lag}
InTheAir ==
  [boot : {trk.boot}, n : Alive(trk.dead, trk.n) \cup Heartbeats]
    \cup [boot : {trk.boot - 1}, n : Alive(trk.lastDead, trk.last)]

\* tracker_events_receive.
Receive(a) ==
  /\ Len(rx) < RxCount
  /\ rx' = Append(rx, [e |-> [boot |-> a.boot, n |-> a.n, pg |-> pgen],
                       gen |-> IF Matches(Said(a).kind) THEN gen ELSE 0])
  /\ UNCHANGED <<scene, trk, pgen, dirty, cache, esb, sub, usb, gen, cmds, given, fifo, told>>

\* Time passes: copies die, entries age, and so does what is queued, which waits for
\* milliseconds and so sees one tick at most.
Tick ==
  /\ esb.pc = "idle" /\ esb.aged = 0 /\ esb' = [esb EXCEPT !.aged = Len(rx)]
  /\ trk' = [trk EXCEPT !.dead = trk.n, !.lastDead = trk.last]
  /\ cache' = [cache EXCEPT !.retiredAge = Older(@), !.highAge = Older(@), !.rest.age = Older(@),
                            !.ops = [i \in 1..OpCount |-> [@[i] EXCEPT !.age = Older(@)]],
                            !.power.age = Older(@)]
  /\ UNCHANGED <<scene, pgen, dirty, rx, sub, usb, gen, cmds, given, fifo, told>>

----------------------------------------------------------------------------
(* The pairing store.                                                      *)

\* A mistake: leave the queued records of the old pairing to the host.
InvalidGen_Kept == gen
InvalidGen == gen + 1

\* tracker_events_pairing_invalidate: another tracker gets the id.  A packet carries
\* no more than the id, so the tracker that had it is taken to have stopped sending.
Invalidate ==
  /\ trk.boot < Len(Scripts) /\ ~dirty
  /\ pgen' = pgen + 1 /\ gen' = InvalidGen /\ dirty' = TRUE
  /\ trk' = [boot |-> trk.boot + 1, n |-> 0, dead |-> 0, last |-> 0, lastDead |-> 0]
  /\ UNCHANGED <<scene, rx, cache, esb, sub, usb, cmds, given, fifo, told>>

\* reset_pairing_cache.
ResetCache(c) == IF c.pgen = pgen THEN c ELSE [NoCache EXCEPT !.pgen = pgen]

\* tracker_events_pairing_cleanup.
Cleanup ==
  /\ dirty /\ dirty' = FALSE
  /\ cache' = ResetCache(cache)
  /\ UNCHANGED <<scene, trk, pgen, rx, esb, sub, usb, gen, cmds, given, fifo, told>>

----------------------------------------------------------------------------
(* process_rx.  Operators on the cache c of the tracker; e is the event.   *)

Record(e, obs, g, version) ==
  [e |-> e, unknown |-> FALSE, obs |-> obs, gen |-> g, version |-> version, why |-> "none"]

\* observation: the entry is unknown from now on.
Observation(entry, why, old) ==
  [e |-> entry.e, unknown |-> TRUE, obs |-> TRUE, gen |-> MatchGen(entry.e, old), version |-> 0, why |-> why]

\* A late packet of the boot before this one.
Retired(c, r) == c.nonce # r.e.boot /\ r.e.boot = c.retired /\ c.retiredAge - r.age < Ttl

\* A boot that the receiver did not know: what it knew of the last one is unknown.
NewSession(c, r) ==
  IF c.nonce = r.e.boot THEN c
  ELSE [c EXCEPT !.retired = IF c.nonce # 0 THEN c.nonce ELSE @, !.retiredAge = IF c.nonce # 0 THEN r.age ELSE @,
                 !.nonce = r.e.boot, !.init = FALSE,
                 !.ops = [i \in 1..OpCount |-> NoEntry], !.rest = NoEntry, !.power = NoPower]
Farewells(c, e, old) ==
  IF c.nonce \in {0, e.boot} THEN <<>>
  ELSE LET ended(entry, open) == IF open THEN <<Observation(entry, "session", old)>> ELSE <<>>
       IN  FlattenSeq([i \in 1..OpCount |-> ended(c.ops[i], c.ops[i].used /\ ~c.ops[i].terminal)])
             \o ended(c.rest, c.rest.used /\ ~c.rest.stale)

\* newer: the sign of a 16-bit difference.
Signed(d) == ((d + Modulus \div 2) % Modulus) - (Modulus \div 2)
Newer(a, b) == Signed(a - b) > 0

\* unseen: the window of numbers, and a wider order that survives its wrapping.
Anchors(c, r) == ~c.init \/ c.highAge - r.age >= Ttl
BehindHigh(c, e) == (c.high - Seq16(e)) % Modulus
\* A mistake: one number more than the window holds.
Seen_OffByOne(c, r) ==
  /\ ~Anchors(c, r) /\ ~Newer(Seq16(r.e), c.high)
  /\ BehindHigh(c, r.e) > Window \/ BehindHigh(c, r.e) \in c.seen
Seen(c, r) ==
  /\ ~Anchors(c, r) /\ ~Newer(Seq16(r.e), c.high)
  /\ BehindHigh(c, r.e) >= Window \/ BehindHigh(c, r.e) \in c.seen
Noted(c, r) ==
  LET seq == Seq16(r.e)
      shift == (seq - c.high) % Modulus
  IN  CASE Anchors(c, r) ->
             [c EXCEPT !.order = @ + Modulus, !.init = TRUE, !.high = seq, !.seen = {0}, !.highAge = r.age,
                       !.power.mark = IF c.power.ordered THEN c.order + Modulus + Signed(c.power.seq - seq) ELSE @]
        [] ~Anchors(c, r) /\ Newer(seq, c.high) ->
             [c EXCEPT !.order = @ + shift, !.high = seq, !.highAge = r.age,
                       !.seen = {0} \cup {a \in 1..Window - 1 : a - shift \in c.seen}]
        [] OTHER -> [c EXCEPT !.seen = @ \cup {BehindHigh(c, r.e)}]
Order(c, e) == c.order - BehindHigh(c, e)

\* power_notice.
Wills == {"willWom", "willShutdown", "willReboot"}
\* A mistake: take notices in the order in which they arrive.
PowerLate_Never(p, order) == FALSE
PowerLate(p, order) == p.ordered /\ order <= p.mark
PowerPhase(p, r) ==
  LET phase == Said(r.e).phase
      current == IF p.age - r.age >= Relevance THEN "none" ELSE p.phase
  IN  CASE phase \in Wills -> phase
        [] phase = "wakes" -> "none"
        [] phase = "womCancelled" -> IF current = "willWom" THEN "none" ELSE current
PowerNotice(p, r, order) ==
  LET phase == Said(r.e).phase
      heard == [p EXCEPT !.heard = @ \cup {r.e.n}]
      starts == phase \in Wills /\ (p.phase # phase \/ p.age - r.age >= Relevance)
  IN  IF PowerLate(p, order) THEN heard
      ELSE [heard EXCEPT !.ordered = TRUE, !.seq = Seq16(r.e), !.mark = order, !.phase = PowerPhase(p, r),
                         !.age = IF starts THEN r.age ELSE @, !.late = IF starts THEN r.late ELSE @,
                         !.order = IF starts THEN order ELSE @]

\* power_operation_evidence: a tracker that calibrates has not gone to sleep.
Evidence(p, r, order) ==
  IF p.age - r.age >= Relevance \/ p.age - r.age > Activity \/ (order > p.order /\ Said(r.e).phase = "begin")
  THEN [p EXCEPT !.phase = "none"] ELSE p

\* find_operation, allocate_operation.
OpAt(c, e) == {i \in 1..OpCount : c.ops[i].used /\ Said(c.ops[i].e).op = Said(e).op}
Before(a, b) == (a.terminal /\ ~b.terminal) \/ (a.terminal = b.terminal /\ a.age > b.age)
Victim(c) ==
  LET free == {i \in 1..OpCount : ~c.ops[i].used}
      best == {i \in 1..OpCount : \A j \in 1..OpCount : ~Before(c.ops[j], c.ops[i])}
      least(S) == CHOOSE i \in S : \A j \in S : i <= j
  IN  least(IF free # {} THEN free ELSE best)

Same(entry, e) == entry.used /\ entry.e = e

\* The entry that the event is about.
Rest(e) == Said(e).kind = "rest"
Op(e) == Said(e).kind = "op"
EntryOf(c, e) ==
  CASE Rest(e) -> c.rest
    [] Op(e) /\ OpAt(c, e) # {} -> c.ops[CHOOSE i \in OpAt(c, e) : TRUE]
    [] OTHER -> NoEntry
WithEntry(c, e, entry) ==
  IF Rest(e) THEN [c EXCEPT !.rest = entry]
  ELSE [c EXCEPT !.ops[IF OpAt(c, e) # {} THEN CHOOSE i \in OpAt(c, e) : TRUE ELSE Victim(c)] = entry]

\* The same event again: the entry is fresh, and known again if it was unknown.
Again(c, r) ==
  LET e == r.e
      entry == EntryOf(c, e)
      fresh == [entry EXCEPT !.age = r.age, !.late = r.late, !.stale = FALSE,
                             !.notified = IF entry.stale /\ Rest(e) THEN 0 ELSE @]
  IN  [c |-> [WithEntry(c, e, fresh) EXCEPT !.power = IF Op(e) THEN Evidence(@, r, entry.order) ELSE @],
       out |-> IF entry.stale /\ Rest(e) THEN <<Record(e, TRUE, r.gen, entry.version)>> ELSE <<>>]

\* A mistake: let the last word be the last to arrive.
Replaces_Any(entry, e, order) == TRUE
\* An entry is replaced by what is newer, and an end only by another end.
Replaces(entry, e, order) == ~entry.used \/ (order > entry.order /\ (~entry.terminal \/ Terminal(e)))

Kept(e) == Rest(e) \/ (Op(e) /\ Said(e).phase # "storage")
VersionOf(c, e) == (IF ~Rest(e) /\ OpAt(c, e) = {} THEN c.ops[Victim(c)] ELSE EntryOf(c, e)).version + 1

\* An event that was not seen yet, in a cache that has noted its number.
First(c, r) ==
  LET e == r.e
      entry == EntryOf(c, e)
      order == Order(c, e)
      keeps == Kept(e) /\ Replaces(entry, e, order)
      new == [NoEntry EXCEPT !.used = TRUE, !.e = e, !.age = r.age, !.late = r.late,
                             !.version = VersionOf(c, e), !.order = order,
                             !.first = IF entry.used THEN entry.first ELSE order, !.terminal = Terminal(e)]
      told1 == [c EXCEPT !.power = CASE Said(e).kind = "power" -> PowerNotice(@, r, order)
                                     [] Op(e) /\ keeps -> Evidence(@, r, order)
                                     [] OTHER -> @]
  IN  IF Rest(e) /\ entry.used /\ order <= entry.order THEN [c |-> c, out |-> <<>>]
      ELSE [c |-> IF keeps THEN WithEntry(told1, e, new) ELSE told1,
            out |-> <<Record(e, FALSE, r.gen, IF keeps THEN VersionOf(c, e) ELSE 0)>>]

\* Long-lived heartbeats are recognised before the window.
Known(c, e) == Same(EntryOf(c, e), e)

Processed(r, old) ==
  LET e == r.e
      c0 == ResetCache(cache)
      c == NewSession(c0, r)
      then == CASE Known(c, e) -> Again(c, r)
                [] ~Known(c, e) /\ Seen(c, r) -> [c |-> c, out |-> <<>>]
                [] OTHER -> First(Noted(c, r), r)
  IN  CASE e.pg # pgen -> [c |-> cache, out |-> <<>>]
        [] e.pg = pgen /\ Retired(c0, r) -> [c |-> c0, out |-> <<>>]
        [] OTHER -> [c |-> then.c, out |-> Farewells(c0, e, old) \o then.out]

----------------------------------------------------------------------------
(* tracker_events_process, in the ESB thread.                              *)

\* The time that the loop works with is taken: what is queued later is later.
Loop ==
  /\ esb.pc = "idle"
  /\ esb' = [esb EXCEPT !.pc = "rx", !.left = RxCount, !.before = Len(rx)]
  /\ UNCHANGED <<scene, trk, pgen, dirty, rx, cache, sub, usb, gen, cmds, given, fifo, told>>

Pred(n) == IF n > 0 THEN n - 1 ELSE 0
\* deliver logs a record without a subscription, and no more.
Wanted(out) == LET subscribed(r) == r.gen # 0 IN SelectSeq(out, subscribed)

ProcessRx ==
  /\ esb.pc = "rx" /\ esb.out = <<>> /\ rx # <<>> /\ esb.left > 0
  /\ \E old \in OldClock, late \in IF esb.before > 0 THEN {FALSE} ELSE BOOLEAN :
       LET at == IF esb.aged > 0 THEN 1 ELSE 0
           p == Processed([e |-> Head(rx).e, gen |-> Head(rx).gen, age |-> at, late |-> late], old)
       IN  /\ cache' = p.c
           /\ esb' = [esb EXCEPT !.out = Wanted(p.out), !.left = @ - 1, !.before = Pred(@), !.aged = Pred(@)]
  /\ rx' = Tail(rx)
  /\ UNCHANGED <<scene, trk, pgen, dirty, sub, usb, gen, cmds, given, fifo, told>>

\* The queue is empty, or as many packets as it holds were taken: entries are next.
Drained == esb.out = <<>> /\ (esb.pc = "scan" \/ (esb.pc = "rx" /\ (rx = <<>> \/ esb.left = 0)))

\* A record that the host may not want or that finds no room is dropped.
Next1 == [esb EXCEPT !.out = Tail(@), !.step = "check"]

\* deliver: the record is still wanted ...
DeliverCheck ==
  /\ esb.out # <<>> /\ esb.step = "check"
  /\ esb' = IF HidValid(Head(esb.out)) THEN [esb EXCEPT !.step = "push"] ELSE Next1
  /\ UNCHANGED <<scene, trk, pgen, dirty, rx, cache, sub, usb, gen, cmds, given, fifo, told>>

\* A mistake: do not look whether the record was taken.
Pushed_Anyway(r, taken) == IF Rest(r.e) /\ ~r.unknown THEN [esb EXCEPT !.step = "commit"] ELSE Next1
Pushed(r, taken) == IF taken /\ Rest(r.e) /\ ~r.unknown THEN [esb EXCEPT !.step = "commit"] ELSE Next1

\* ... and goes to the HID queue ...
DeliverPush ==
  /\ esb.out # <<>> /\ esb.step = "push"
  /\ LET r == Head(esb.out)
         taken == Len(fifo) < FifoCap
     IN  /\ fifo' = IF taken THEN Append(fifo, r) ELSE fifo
         /\ esb' = Pushed(r, taken)
  /\ UNCHANGED <<scene, trk, pgen, dirty, rx, cache, sub, usb, gen, cmds, given, told>>

Receipt(r) ==
  /\ cache.rest.used /\ ~cache.rest.stale /\ cache.rest.version = r.version
  /\ r.gen = gen /\ Same(cache.rest, r.e)

\* ... and a rest that went there counts as told.
DeliverCommit ==
  /\ esb.out # <<>> /\ esb.step = "commit"
  /\ LET r == Head(esb.out)
     IN  cache' = IF Receipt(r) THEN [cache EXCEPT !.rest.notified = r.gen] ELSE cache
  /\ esb' = Next1
  /\ UNCHANGED <<scene, trk, pgen, dirty, rx, sub, usb, gen, cmds, given, fifo, told>>

\* An age that the loop computes from its older time is a huge one.
Silent(entry, limit) == entry.age >= limit \/ entry.late
SilenceReason(p, entry) ==
  IF p.phase = "none" \/ p.age >= Relevance \/ p.late \/ entry.first > p.order THEN "silence"
  ELSE IF p.phase = "willReboot" THEN "reset" ELSE "powerDown"
Forgets(p) == IF p.age >= Relevance \/ p.late THEN [p EXCEPT !.phase = "none"] ELSE p

OpSilent(i) ==
  LET entry == cache.ops[i]
  IN  cache.pgen = pgen /\ entry.used /\ ~entry.terminal /\ ~entry.stale /\ Silent(entry, CalSilence)
RestSilent == cache.pgen = pgen /\ cache.rest.used /\ ~cache.rest.stale /\ Silent(cache.rest, RestStale)

\* The subscriber has not got the current rest yet.
RestUntold(old) ==
  /\ cache.pgen = pgen /\ cache.rest.used /\ ~cache.rest.stale /\ ~Silent(cache.rest, RestStale)
  /\ MatchGen(cache.rest.e, old) # 0 /\ cache.rest.notified # gen

\* The loop goes on behind entry i, with a record to deliver.
Scanned(i, r) == [esb EXCEPT !.pc = "scan", !.at = i + 1, !.out = Wanted(<<r>>)]

ScanOp(i) ==
  /\ Drained /\ esb.at <= i /\ OpSilent(i) /\ \A j \in esb.at..i - 1 : ~OpSilent(j)
  /\ cache' = [cache EXCEPT !.ops[i].stale = TRUE, !.ops[i].why = SilenceReason(cache.power, cache.ops[i]),
                            !.power = Forgets(@)]
  /\ \E old \in OldClock :
       esb' = Scanned(i, Observation(cache.ops[i], SilenceReason(cache.power, cache.ops[i]), old))
  /\ UNCHANGED <<scene, trk, pgen, dirty, rx, sub, usb, gen, cmds, given, fifo, told>>

AtRest == Drained /\ esb.at <= OpCount + 1 /\ \A j \in esb.at..OpCount : ~OpSilent(j)

ScanRest ==
  /\ AtRest
  /\ \E old \in OldClock :
       \/ /\ RestSilent
          /\ cache' = [cache EXCEPT !.rest.stale = TRUE]
          /\ esb' = Scanned(OpCount + 1, Observation(cache.rest, "silence", old))
       \/ /\ RestUntold(old)
          /\ esb' = Scanned(OpCount + 1, Record(cache.rest.e, TRUE, gen, cache.rest.version))
          /\ UNCHANGED cache
  /\ UNCHANGED <<scene, trk, pgen, dirty, rx, sub, usb, gen, cmds, given, fifo, told>>

\* Nothing is left to tell; the next loop takes a new time, and nothing is later than
\* that.
ScanDone ==
  /\ Drained
  /\ esb.at = OpCount + 2 \/ (AtRest /\ ~RestSilent /\ \E old \in OldClock : ~RestUntold(old))
  /\ esb' = Resting
  /\ cache' = [cache EXCEPT !.rest.late = FALSE, !.ops = [i \in 1..OpCount |-> [@[i] EXCEPT !.late = FALSE]],
                            !.power.late = FALSE]
  /\ sub' = [sub EXCEPT !.late = FALSE]
  /\ UNCHANGED <<scene, trk, pgen, dirty, rx, usb, gen, cmds, given, fifo, told>>

----------------------------------------------------------------------------

Init ==
  /\ scene \in Scenes
  /\ trk = [boot |-> 1, n |-> 0, dead |-> 0, last |-> 0, lastDead |-> 0]
  /\ pgen = 1 /\ dirty = FALSE /\ rx = <<>> /\ cache = [NoCache EXCEPT !.pgen = 1]
  /\ esb = Resting
  /\ sub = [on |-> FALSE, lease |-> FALSE, late |-> FALSE, mask |-> {}, who |-> 1]
  /\ usb = 1 /\ gen = 1 /\ cmds = <<>> /\ given = 0 /\ fifo = <<>> /\ told = NoRest

Scan == (\E i \in 1..OpCount : ScanOp(i)) \/ ScanRest
Esb == Loop \/ ProcessRx \/ DeliverCheck \/ DeliverPush \/ DeliverCommit \/ Scan \/ ScanDone

Next ==
  \/ Esb
  \/ \E act \in {"subscribe", "renew", "unsubscribe"}, mask \in Masks : HostCommand(act, mask)
  \/ Control \/ LeaseExpires \/ UsbReset \/ SendRecord
  \/ Say \/ Reboot \/ Tick \/ Invalidate \/ Cleanup
  \/ \E a \in InTheAir : Receive(a)

Spec == Init /\ [][Next]_vars

----------------------------------------------------------------------------
(* Properties.                                                             *)

Entry ==
  [used : BOOLEAN, e : [boot : Nat, n : Nat, pg : 0..pgen], age : Nat, late : BOOLEAN, version : Nat,
   notified : 0..gen, order : Int, first : Int, terminal : BOOLEAN, stale : BOOLEAN, why : STRING]

\* Type correctness; the window of numbers is not left: a shift of 64 bits in unseen
\* would be undefined.
TypeOK ==
  /\ cache.ops \in [1..OpCount -> Entry] /\ cache.rest \in Entry /\ cache.seen \subseteq 0..Window - 1
  /\ Len(rx) <= RxCount /\ Len(fifo) <= FifoCap /\ Len(cmds) <= CmdCap
  /\ esb.pc \in {"idle", "rx", "scan"} /\ esb.at \in 1..OpCount + 2

\* Whatever would go to the host now is about the tracker that has the id now, and
\* was asked for in this USB session: the records of an earlier pairing, and the
\* subscription of an earlier host, do not outlive it.
NoForeignRecord ==
  \A i \in DOMAIN fifo : HidValid(fifo[i]) => fifo[i].e.pg = pgen /\ sub.who = usb

\* The rest that a record tells.
Tells(r) == [boot |-> r.e.boot, n |-> IF r.unknown THEN 0 ELSE r.e.n]

\* A rest that counts as told (notified_generation) is the last one that the host of
\* this subscription got or will get from the HID queue: a receipt is not committed
\* for a record that was refused, or that is about something else by now.
ToldIsCurrent ==
  LET wanted(r) == HidValid(r) /\ Rest(r.e)
      queued == SelectSeq(fifo, wanted)
      last == IF queued = <<>> THEN told ELSE Tells(queued[Len(queued)])
  IN  cache.pgen = pgen /\ cache.rest.used /\ ~cache.rest.stale /\ cache.rest.notified = gen /\ Matches("rest")
        => last = [boot |-> cache.rest.e.boot, n |-> cache.rest.e.n]

\* Within a boot the cache never goes back: an entry is replaced only by an event
\* that the tracker said later, although numbers wrap and packets are reordered, and
\* an operation that ended has ended.
NeverBack ==
  [][LET later(x, y) == x.used /\ y.used /\ Said(x.e).op = Said(y.e).op
                          => y.e.n >= x.e.n /\ (x.terminal => y.terminal)
     IN  cache.nonce = cache'.nonce /\ cache.pgen = cache'.pgen =>
           /\ later(cache.rest, cache'.rest)
           /\ \A i \in 1..OpCount : later(cache.ops[i], cache'.ops[i])]_vars

\* What an announcement is blamed for, and the notices that take it back: the tracker
\* runs again, or a sleep is cancelled. WOM_CANCELLED leaves a shutdown or a restart
\* announced.
Announced(why) == IF why = "reset" THEN {"willReboot"} ELSE {"willWom", "willShutdown"}
TakesBack(later, announced) ==
  later = "wakes" \/ (later = "womCancelled" /\ announced = "willWom")

\* A calibration that fell silent is blamed on a power transition only if a notice
\* that arrived announces this very transition, the calibration did not begin after
\* it, and no notice that the tracker sent later, and that arrived before or after
\* it, takes it back: reordered notices do not rearm what was cancelled.
CauseIsCurrent ==
  [][\A i \in 1..OpCount :
       ~cache.ops[i].stale /\ cache'.ops[i].stale /\ cache'.ops[i].why \in {"powerDown", "reset"} =>
         LET phase(n) == Scripts[cache.nonce][n].phase
         IN  \E n \in cache.power.heard :
               /\ phase(n) \in Announced(cache'.ops[i].why)
               /\ Said(cache.ops[i].e).phase = "begin" => cache.ops[i].e.n < n
               /\ \A m \in cache.power.heard : m > n => ~TakesBack(phase(m), phase(n))]_vars

\* An entry is declared unknown only after its silence (README: "Silence produces a
\* receiver observation with UNKNOWN").  It does not hold: see EventsUnknown.cfg.
OnlySilenceIsUnknown ==
  [][/\ \A i \in 1..OpCount : ~cache.ops[i].stale /\ cache'.ops[i].stale => cache.ops[i].age >= CalSilence
     /\ ~cache.rest.stale /\ cache'.rest.stale => cache.rest.age >= RestStale]_vars
=============================================================================
