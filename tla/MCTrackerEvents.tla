--------------------------- MODULE MCTrackerEvents ---------------------------
(***************************************************************************)
(* A tracker that changes its rest, calibrates and announces sleep; then   *)
(* another boot of it, or another tracker.                                 *)
(***************************************************************************)
EXTENDS TrackerEvents

Says(kind, op, phase) == [kind |-> kind, op |-> op, phase |-> phase]
Rests == Says("rest", 0, "rest")
Moves == Says("rest", 0, "moves")
Clicks == Says("button", 0, "click")
Scene(scripts, usbs, commands) == [scripts |-> scripts, usb |-> usbs, cmds |-> commands]

\* A calibration and a sleep that is announced and cancelled.
Calibrates ==
  Scene(<< <<Says("op", 1, "begin"), Says("power", 0, "willWom"), Says("power", 0, "womCancelled"),
             Says("op", 1, "end")>> >>, 1, 0)
\* A restart that is announced, under a calibration.
Reboots ==
  Scene(<< <<Says("op", 1, "begin"), Says("power", 0, "willReboot")>>,
           <<Says("power", 0, "wakes"), Says("op", 1, "begin"), Rests>> >>, 1, 0)
\* A restart that is announced, and a sleep that is announced and cancelled after it:
\* whichever of them arrive, the restart is not taken back.
Insists ==
  Scene(<< <<Says("op", 1, "begin"), Says("power", 0, "willReboot"), Says("power", 0, "willWom"),
             Says("power", 0, "womCancelled")>> >>, 1, 0)
\* More calibrations than entries; one is stored, one rejected.
Repeats ==
  Scene(<< <<Says("op", 1, "begin"), Says("op", 1, "storage"), Says("op", 1, "end"), Says("op", 2, "begin"),
             Says("op", 2, "rejected")>> >>, 1, 0)
\* A rest that lasts while numbers wrap.
Wraps == Scene(<< <<Rests, Clicks, Clicks, Clicks, Clicks, Moves>> >>, 1, 0)
\* A tracker that restarts, or is replaced by another.
Restarts == Scene(<< <<Rests>>, <<Rests>> >>, 1, 1)
\* Hosts that come and go.
Hosts == Scene(<< <<Rests>> >>, 2, 2)
\* A rest that changes under a subscriber.
Changes == Scene(<< <<Rests, Moves>> >>, 1, 1)
MCScenes == {Calibrates, Reboots, Insists, Repeats, Wraps, Restarts, Hosts, Changes}
MCChanges == {Changes}

\* States that differ in what nobody reads any more, or only in how far the counters
\* have got, are the same.  (The age of a finished or stale operation would tell
\* victims apart; there is only one.  TypeOK has TLC evaluate functions before it
\* stores them.)
Capped(age, limit) == IF age > limit THEN limit ELSE age
EntryView(x) ==
  IF ~x.used THEN <<>>
  ELSE LET limit == IF Rest(x.e) THEN RestStale ELSE CalSilence
       IN  <<x.e, IF x.terminal \/ x.stale THEN 0 ELSE Capped(x.age, limit + 1), x.late, x.notified = gen,
             x.order - cache.order, x.first - cache.order, x.terminal, x.stale>>
PowerView(x) ==
  <<x.heard, IF x.ordered THEN <<x.mark - cache.order, x.seq>> ELSE <<>>,
    IF x.phase = "none" THEN <<>> ELSE <<x.phase, x.age, x.late, x.order - cache.order>> >>
CacheView ==
  IF cache.pgen # pgen THEN <<>>
  ELSE <<cache.nonce, IF cache.retired = 0 THEN 0 ELSE Capped(cache.retiredAge, Ttl + 1) + 1,
         IF cache.init THEN <<cache.high, Capped(cache.highAge, Ttl + 1), cache.seen>> ELSE <<>>,
         [i \in 1..OpCount |-> EntryView(cache.ops[i])], EntryView(cache.rest),
         PowerView(cache.power)>>
RecordView(r) ==
  IF r.gen # gen THEN <<>> ELSE <<r.e, r.unknown, r.why, cache.pgen = pgen /\ r.version = cache.rest.version>>
LiveView ==
  <<TypeOK, scene, trk, dirty,
    [i \in DOMAIN rx |-> IF rx[i].e.pg # pgen THEN <<>> ELSE <<rx[i].e, rx[i].gen = gen>>],
    CacheView, [esb EXCEPT !.out = <<>>], [i \in DOMAIN esb.out |-> RecordView(esb.out[i])],
    IF sub.on THEN sub ELSE <<>>, usb, cmds, given, [i \in DOMAIN fifo |-> RecordView(fifo[i])],
    IF sub.on THEN told ELSE NoRest>>
=============================================================================
