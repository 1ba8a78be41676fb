------------------------ MODULE RemoteCommandsProofs ------------------------
(***************************************************************************)
(* Proofs about RemoteCommands for every set of trackers and commands,     *)
(* every number of requests and every range of tokens: a WOM command is    *)
(* reported as done only by the tracker that did it, it is told only for a *)
(* pending request, and a request is answered once and truthfully.         *)
(***************************************************************************)
EXTENDS RemoteCommands, TLAPS

----------------------------------------------------------------------------
(* The inductive invariant *)

Kinds == {"one", "roster", "all", "wom", "womall"}
Answers == {"none", "started", "refused", "enoent", "ok"}
WomState ==
  [tok : 0..MaxTok, done : BOOLEAN, err : BOOLEAN, adv : BOOLEAN, first : BOOLEAN, req : 0..MaxReq,
   by : 0..MaxReq]
SlotState == [cmd : Cmds, w : WomState]
TrackerState ==
  [says : Flags \cup {"normal", "outcome"}, tok : 0..MaxTok, req : 0..MaxReq, err : BOOLEAN,
   retry : BOOLEAN]
HidState ==
  [pending : BOOLEAN, seq : 0..MaxReq, flag : Cmds, expected : SUBSET Trackers,
   confirmed : SUBSET Trackers, job : {"none", "all", "wom"}, timer : BOOLEAN]
WinState ==
  [pc : {"none", "begun", "reset", "armed"}, kind : Kinds \cup {"none"}, T : SUBSET Trackers, f : Cmds]
QueueState ==
  [queued : BOOLEAN, pc : {"idle", "all", "wom", "arm", "finish", "tail"}, f : Cmds,
   mask : SUBSET Trackers, status : Answers]
LogState ==
  [n : 0..MaxReq, status : Answers, twice : BOOLEAN, heard : SUBSET Trackers, want : SUBSET Trackers,
   torn : BOOLEAN]

RequestType == hid \in HidState /\ wom \in [token : 0..MaxTok, failed : SUBSET Trackers] /\ win \in WinState
WorkType == wq \in QueueState /\ log \in LogState
SlotType == slot \in [Trackers -> SlotState] /\ tok \in 0..MaxTok
TrkType == trk \in [Trackers -> TrackerState]
Types == RequestType /\ WorkType /\ SlotType /\ TrkType

\* Requests with a token are WOM requests, the others carry a flag.
Fits(kind, f) ==
  \/ kind \in {"one", "roster", "all"} /\ f \in Flags
  \/ kind \in {"wom", "womall"} /\ f = "wom"
Kinded ==
  /\ win.pc # "none" => Fits(win.kind, win.f)
  /\ win.pc = "reset" => win.kind \in {"one", "roster", "wom"}
  /\ win.pc = "armed" => win.kind \in {"one", "roster"}

\* A job for a flag has one.
Flagged == (hid.job = "all" => hid.flag \in Flags) /\ (wq.pc = "all" => wq.f \in Flags)

\* Once a tracker is told a WOM command it has dropped its older outcomes: what it
\* reports from then on is of this command, whatever the tokens are.
Reported ==
  \A t \in Trackers : slot[t].cmd = "wom" /\ slot[t].w.adv =>
    \/ trk[t].says = "normal"
    \/ trk[t].says = "outcome" /\ trk[t].tok = slot[t].w.tok /\ trk[t].req = slot[t].w.req

\* The timer runs only for a request, and not yet for one in its first instructions.
Timed ==
  /\ hid.timer => hid.pending
  /\ win.pc \in {"begun", "reset"} => hid.pending /\ ~hid.timer
  /\ win.pc = "reset" => hid.expected = {}
  /\ win.pc # "none" => ~wq.queued /\ wq.pc = "idle"

\* The job on rssi_wq is that of the pending request, which nothing else can end.
Working ==
  /\ wq.queued =>
       hid.pending /\ ~hid.timer /\ hid.expected = {} /\ wq.pc = "idle" /\ hid.job # "none"
  /\ wq.pc \in {"all", "wom", "arm", "finish"} =>
       /\ hid.pending /\ ~hid.timer /\ hid.expected = {}
       /\ hid.job = IF wq.pc = "wom" THEN "wom" ELSE "all"
  /\ wq.pc = "arm" => log.want = wq.mask
  /\ wq.pc = "finish" => wq.status # "ok"
  /\ wq.pc = "tail" => ~hid.pending /\ hid.seq = log.n /\ log.status = "started" /\ wq.status # "ok"

\* remote_hid_job belongs to the request.
JobOwned ==
  /\ ~hid.pending /\ wq.pc # "tail" => hid.job = "none"
  /\ win.pc \in {"begun", "armed"} => hid.job = "none"
  /\ win.pc = "reset" => hid.job = IF win.kind = "wom" THEN "wom" ELSE "none"
  /\ hid.pending /\ win.pc # "begun" => IF hid.job = "wom" THEN hid.flag = "wom" ELSE hid.flag \in Flags

\* A pending request has no answer yet, and counts only what it has heard.
Counted ==
  /\ hid.pending => log.status = "started"
  /\ hid.pending /\ win.pc # "begun" =>
       /\ hid.seq = log.n
       /\ hid.flag # "wom" =>
            hid.confirmed \subseteq log.heard /\ (hid.expected = {} \/ hid.expected = log.want)

\* HonestCompletion and NoOrphanWom without their exception.
Honest ==
  /\ ~log.twice
  /\ log.status = "ok" /\ hid.flag # "wom" => log.want # {} /\ log.want \subseteq log.heard
WomOwned ==
  \A t \in Trackers : slot[t].cmd = "wom" =>
    hid.pending /\ hid.job = "wom" /\ slot[t].w.tok = wom.token /\ t \in hid.expected

Clean == Timed /\ Working /\ JobOwned /\ Counted /\ Honest /\ WomOwned

\* All this as long as no request was met in its first instructions.
Orderly == log.torn \/ Clean

IInv == Types /\ Kinded /\ Flagged /\ Reported /\ WomTruthful /\ Orderly
----------------------------------------------------------------------------
(* Types *)

\* The values that the records start from.
LEMMA StartTypes ==
  /\ NoWom \in WomState /\ NewSlot \in SlotState /\ NoRequest \in HidState /\ NoWindow \in WinState
  /\ IdleQueue \in QueueState /\ Quiet \in TrackerState /\ NoLog \in LogState
  /\ 0 \in 0..MaxReq /\ 0 \in 0..MaxTok
<1>1. 0 \in 0..MaxReq /\ 0 \in 0..MaxTok
  BY RemoteConstants
<1>2. NoWom \in WomState
  BY <1>1 DEF NoWom, WomState
<1>3. NewSlot \in SlotState
  BY <1>2 DEF NewSlot, SlotState, Cmds
<1>4. NoRequest \in HidState
  BY <1>1 DEF NoRequest, HidState, Cmds
<1>5. NoWindow \in WinState /\ IdleQueue \in QueueState
  BY DEF NoWindow, WinState, IdleQueue, QueueState, Cmds, Kinds, Answers
<1>6. Quiet \in TrackerState
  BY <1>1 DEF Quiet, TrackerState
<1>7. NoLog \in LogState
  BY <1>1 DEF NoLog, LogState, Answers
<1>8. QED
  BY <1>1, <1>2, <1>3, <1>4, <1>5, <1>6, <1>7

\* What an answer does to the log.
LEMMA AnsweredFacts ==
  ASSUME log \in LogState, NEW n, NEW s \in Answers
  PROVE  /\ Answered(n, s) \in LogState
         /\ Answered(n, s).n = log.n /\ Answered(n, s).torn = log.torn
         /\ Answered(n, s).heard = log.heard /\ Answered(n, s).want = log.want
         /\ n = log.n /\ log.status = "started" =>
              Answered(n, s).status = s /\ Answered(n, s).twice = log.twice
BY DEF Answered, LogState

\* The commands that are put into slots.
LEMMA QueuedFacts ==
  ASSUME SlotType, NEW T \in SUBSET Trackers, NEW f \in Cmds
  PROVE  /\ Queued(T, f) \in [Trackers -> SlotState]
         /\ \A t \in Trackers : /\ Queued(T, f)[t].w = slot[t].w
                                /\ Queued(T, f)[t].cmd = IF t \in T THEN f ELSE slot[t].cmd
BY DEF Queued, SlotType, SlotState

\* The next token, across its wrap.
LEMMA NextTokenType ==
  ASSUME tok \in 0..MaxTok
  PROVE  NextToken \in 0..MaxTok
BY RemoteConstants DEF NextToken

\* A WOM command in a slot starts afresh.
LEMMA WomQueuedFacts ==
  ASSUME SlotType, log \in LogState, NEW T \in SUBSET Trackers
  PROVE  /\ WomQueued(T) \in [Trackers -> SlotState]
         /\ \A t \in T : /\ WomQueued(T)[t].cmd = "wom" /\ WomQueued(T)[t].w.tok = NextToken
                         /\ ~WomQueued(T)[t].w.adv /\ ~WomQueued(T)[t].w.done
         /\ \A t \in Trackers \ T : WomQueued(T)[t] = slot[t]
<1> DEFINE w == [NoWom EXCEPT !.tok = NextToken, !.req = log.n]
<1>1. NextToken \in 0..MaxTok /\ log.n \in 0..MaxReq
  BY NextTokenType DEF SlotType, LogState
<1>2. w \in WomState /\ w.tok = NextToken /\ ~w.adv /\ ~w.done
  BY <1>1, StartTypes DEF WomState, NoWom
<1>3. [cmd |-> "wom", w |-> w] \in SlotState
  BY <1>2 DEF SlotState, Cmds
<1> HIDE DEF w
<1>4. WomQueued(T) = [t \in Trackers |-> IF t \in T THEN [cmd |-> "wom", w |-> w] ELSE slot[t]]
  BY DEF WomQueued, w
<1>5. QED
  BY <1>2, <1>3, <1>4 DEF SlotType

\* Cancelling takes the WOM commands of the request out of the slots.
LEMMA CancelledFacts ==
  ASSUME SlotType, NEW T \in SUBSET Trackers
  PROVE  /\ Cancelled(T) \in [Trackers -> SlotState]
         /\ \A t \in Trackers :
              \/ Cancelled(T)[t] = slot[t] /\ ~(t \in T /\ slot[t].w.tok = wom.token)
              \/ Cancelled(T)[t].cmd # "wom" /\ Cancelled(T)[t].w = NoWom
<1> DEFINE c(t) == [cmd |-> IF slot[t].cmd = "wom" THEN "normal" ELSE slot[t].cmd, w |-> NoWom]
<1>1. \A t \in Trackers : c(t) \in SlotState /\ c(t).cmd # "wom" /\ c(t).w = NoWom
  BY StartTypes DEF SlotType, SlotState, Cmds
<1> HIDE DEF c
<1>2. Cancelled(T) =
        [t \in Trackers |-> IF t \in T /\ slot[t].w.tok = wom.token THEN c(t) ELSE slot[t]]
  BY DEF Cancelled, c
<1>3. QED
  BY <1>1, <1>2 DEF SlotType

\* What the tracker makes of an answer; after a WOM command it reports this one.
LEMMA ReactionFacts ==
  ASSUME SlotType, TrkType, NEW t \in Trackers, NEW pong \in Cmds \cup {"other"},
         NEW r \in Reaction(t, pong)
  PROVE  /\ r \in TrackerState
         /\ pong = "wom" => /\ r.says = "outcome" /\ r.tok = slot[t].w.tok
                            /\ r.req = slot[t].w.req \/ (trk[t].says = "outcome" /\ r.req = trk[t].req
                                                          /\ r.tok = trk[t].tok)
         /\ pong = "other" => r.says = trk[t].says /\ r.tok = trk[t].tok /\ r.req = trk[t].req
<1>0. /\ trk[t] \in TrackerState /\ slot[t] \in SlotState /\ slot[t].w \in WomState
      /\ Quiet \in TrackerState /\ Quiet = [says |-> "normal", tok |-> 0, req |-> 0, err |-> FALSE, retry |-> FALSE]
  BY StartTypes DEF SlotType, TrkType, SlotState, Quiet
<1>a. "normal" \notin Flags /\ "wom" \notin Flags /\ "other" \notin Flags /\ "outcome" \notin Flags
  BY RemoteConstants
<1>1. CASE pong = "normal"
  BY <1>0, <1>1, <1>a DEF Reaction
<1>2. CASE pong = "other"
  <2>1. r = [trk[t] EXCEPT !.retry = FALSE]
    BY <1>2, <1>a DEF Reaction
  <2>2. QED
    BY <2>1, <1>0, <1>2 DEF TrackerState
<1>3. CASE pong \in Flags
  <2>1. r = [Quiet EXCEPT !.says = pong] \/ r = Quiet
    BY <1>3, <1>a DEF Reaction
  <2>2. [Quiet EXCEPT !.says = pong] \in TrackerState
    BY <1>0, <1>3 DEF TrackerState
  <2>3. QED
    BY <2>1, <2>2, <1>0, <1>a, <1>3
<1>4. CASE pong = "wom"
  <2>1. Reaction(t, pong) =
           IF trk[t].says = "outcome" /\ trk[t].tok = slot[t].w.tok THEN {[trk[t] EXCEPT !.retry = FALSE]}
           ELSE {[says |-> "outcome", tok |-> slot[t].w.tok, req |-> slot[t].w.req, err |-> e, retry |-> FALSE] :
                   e \in BOOLEAN}
    BY <1>4, <1>a DEF Reaction
  <2>2. CASE trk[t].says = "outcome" /\ trk[t].tok = slot[t].w.tok
    <3>1. r = [trk[t] EXCEPT !.retry = FALSE]
      BY <2>1, <2>2
    <3>2. QED
      BY <3>1, <2>2, <1>0, <1>4 DEF TrackerState
  <2>3. CASE ~(trk[t].says = "outcome" /\ trk[t].tok = slot[t].w.tok)
    <3>1. PICK e \in BOOLEAN :
             r = [says |-> "outcome", tok |-> slot[t].w.tok, req |-> slot[t].w.req, err |-> e, retry |-> FALSE]
      BY <2>1, <2>3
    <3>2. slot[t].w.tok \in 0..MaxTok /\ slot[t].w.req \in 0..MaxReq
      BY <1>0 DEF WomState
    <3>3. QED
      BY <3>1, <3>2, <1>4 DEF TrackerState
  <2>4. QED
    BY <2>2, <2>3
<1>5. QED
  BY <1>1, <1>2, <1>3, <1>4 DEF Cmds

----------------------------------------------------------------------------
(* A PING *)

\* The answer that esb_ack_handler_cb chooses: a WOM command is first told to a
\* tracker that reports nothing.
LEMMA PongFacts ==
  ASSUME SlotType, NEW t \in Trackers, NEW over \in BOOLEAN
  PROVE  /\ Pong(t, over) \in Cmds \cup {"other"}
         /\ Pong(t, over) = "wom" => slot[t].cmd = "wom" /\ (slot[t].w.adv \/ trk[t].says = "normal")
         /\ slot[t].cmd = "wom" /\ slot[t].w.adv => Pong(t, over) \in {"wom", "other"}
<1>1. slot[t].cmd \in Cmds
  BY DEF SlotType, SlotState
<1>2. QED
  BY <1>1 DEF Pong, Cmds

\* The slot after the answer was chosen.
LEMMA AfterAckFacts ==
  ASSUME SlotType, NEW t \in Trackers, NEW pong, NEW new \in BOOLEAN, NEW a, a = AfterAck(t, pong, new)
  PROVE  /\ a \in SlotState /\ a.cmd = slot[t].cmd
         /\ a.w.tok = slot[t].w.tok /\ a.w.req = slot[t].w.req /\ a.w.by = slot[t].w.by
         /\ a.w.done = slot[t].w.done /\ a.w.err = slot[t].w.err
         /\ a.w.adv <=> slot[t].w.adv \/ pong = "wom"
         /\ pong = "wom" /\ ~slot[t].w.adv => a.w.first
<1>0. slot[t] \in SlotState /\ slot[t].w \in WomState
  BY DEF SlotType, SlotState
<1>1. CASE pong = "wom" /\ ~slot[t].w.adv
  <2> DEFINE v == [slot[t].w EXCEPT !.adv = TRUE, !.first = TRUE]
  <2>1. /\ v \in WomState /\ v.adv /\ v.first /\ v.tok = slot[t].w.tok /\ v.req = slot[t].w.req
        /\ v.by = slot[t].w.by /\ v.done = slot[t].w.done /\ v.err = slot[t].w.err
    BY <1>0 DEF WomState
  <2>2. a = [slot[t] EXCEPT !.w.adv = TRUE, !.w.first = TRUE]
    BY <1>1 DEF AfterAck
  <2>3. a.w = v /\ a.cmd = slot[t].cmd /\ a = [slot[t] EXCEPT !.w = v]
    BY <2>2, <1>0 DEF SlotState, WomState
  <2> HIDE DEF v
  <2>4. a \in SlotState
    BY <2>1, <2>3, <1>0 DEF SlotState
  <2>5. QED
    BY <2>1, <2>3, <2>4, <1>1
<1>2. CASE ~(pong = "wom" /\ ~slot[t].w.adv) /\ new
  <2>1. a = [slot[t] EXCEPT !.w.first = FALSE]
    BY <1>2 DEF AfterAck
  <2>2. QED
    BY <2>1, <1>0, <1>2 DEF SlotState, WomState
<1>3. CASE ~(pong = "wom" /\ ~slot[t].w.adv) /\ ~new
  <2>1. a = slot[t]
    BY <1>3 DEF AfterAck
  <2>2. QED
    BY <2>1, <1>0, <1>3
<1>4. QED
  BY <1>1, <1>2, <1>3

\* The slot after the report was handled: an outcome of its token, an echo, or nothing.
LEMMA ReceivedFacts ==
  ASSUME NEW s \in SlotState, NEW r \in TrackerState, NEW new \in BOOLEAN, NEW x, x = Received(s, r, new)
  PROVE  /\ x \in SlotState /\ x.w.adv = s.w.adv /\ x.w.tok = s.w.tok /\ x.w.req = s.w.req
         /\ \/ x = s
            \/ s.cmd \in Flags /\ r.says = s.cmd /\ x = [s EXCEPT !.cmd = "normal"]
            \/ WomTaken(s, r) /\ x.cmd = "normal" /\ x.w.done /\ x.w.by = r.req
<1>0. s.w \in WomState /\ r.err \in BOOLEAN /\ r.req \in 0..MaxReq /\ "normal" \in Cmds /\ "wom" \notin Flags
  BY RemoteConstants DEF SlotState, TrackerState, Cmds
<1>1. CASE new /\ WomTaken(s, r)
  <2>1. s.cmd \notin Flags
    BY <1>0, <1>1 DEF WomTaken
  <2>2. x = [cmd |-> "normal", w |-> [s.w EXCEPT !.done = TRUE, !.err = r.err, !.by = r.req]]
    BY <1>1, <2>1 DEF Received
  <2> DEFINE v == [s.w EXCEPT !.done = TRUE, !.err = r.err, !.by = r.req]
  <2>3. /\ v \in WomState /\ v.done /\ v.by = r.req
        /\ v.adv = s.w.adv /\ v.tok = s.w.tok /\ v.req = s.w.req
    BY <1>0 DEF WomState
  <2>4. x = [cmd |-> "normal", w |-> v]
    BY <2>2
  <2> HIDE DEF v
  <2>5. x \in SlotState
    BY <2>3, <2>4, <1>0 DEF SlotState
  <2>6. QED
    BY <2>3, <2>4, <2>5, <1>1
<1>2. CASE new /\ r.says = s.cmd /\ s.cmd \in Flags
  <2>1. ~WomTaken(s, r)
    BY <1>0, <1>2 DEF WomTaken
  <2>2. x = [s EXCEPT !.cmd = "normal"]
    BY <1>2, <2>1 DEF Received
  <2>3. QED
    BY <2>2, <1>0, <1>2 DEF SlotState
<1>3. CASE ~(new /\ WomTaken(s, r)) /\ ~(new /\ r.says = s.cmd /\ s.cmd \in Flags)
  <2>1. x = s
    BY <1>3 DEF Received
  <2>2. QED
    BY <2>1
<1>4. QED
  BY <1>1, <1>2, <1>3

\* What a PING does to the tracker and to its slot.
LEMMA PingSlot ==
  ASSUME Types, NEW t \in Trackers, NEW new \in BOOLEAN, NEW over \in BOOLEAN, NEW lost \in BOOLEAN,
         Ping(t, new, over, lost)
  PROVE  \E s \in SlotState, r \in TrackerState :
           /\ slot' = [slot EXCEPT ![t] = s] /\ trk' = [trk EXCEPT ![t] = r]
           /\ s.cmd \in {slot[t].cmd, "normal"} /\ s.w.tok = slot[t].w.tok
           /\ \/ s.w.done = slot[t].w.done /\ s.w.err = slot[t].w.err /\ s.w.by = slot[t].w.by
                                           /\ s.w.req = slot[t].w.req
              \/ /\ s.w.done /\ s.w.by = trk[t].req /\ s.w.req = slot[t].w.req
                 /\ slot[t].cmd = "wom" /\ slot[t].w.adv
                 /\ trk[t].says = "outcome" /\ trk[t].tok = slot[t].w.tok
           /\ s.cmd = "wom" /\ s.w.adv =>
                \/ r.says = trk[t].says /\ r.tok = trk[t].tok /\ r.req = trk[t].req
                     /\ (slot[t].w.adv \/ trk[t].says = "normal") /\ s.w.req = slot[t].w.req
                \/ r.says = "outcome" /\ r.tok = s.w.tok /\ r.req = s.w.req
<1> DEFINE pong == Pong(t, over)
           a == AfterAck(t, pong, new)
           s == Received(a, trk[t], new)
<1>0. /\ SlotType /\ TrkType /\ slot[t] \in SlotState /\ trk[t] \in TrackerState
      /\ slot[t].w \in WomState
  BY DEF Types, SlotType, TrkType, SlotState
<1>a. "normal" # "outcome" /\ "wom" \notin Flags /\ "outcome" \notin Flags
  BY RemoteConstants
<1>1. /\ pong \in Cmds \cup {"other"}
      /\ pong = "wom" => slot[t].cmd = "wom" /\ (slot[t].w.adv \/ trk[t].says = "normal")
      /\ slot[t].cmd = "wom" /\ slot[t].w.adv => pong \in {"wom", "other"}
  BY <1>0, PongFacts
<1>2. PICK r \in IF lost THEN {[trk[t] EXCEPT !.retry = TRUE]} ELSE Reaction(t, pong) :
         trk' = [trk EXCEPT ![t] = r]
  BY DEF Ping
<1>3. slot' = [slot EXCEPT ![t] = s]
  BY DEF Ping
<1> HIDE DEF pong
<1>4. /\ a \in SlotState /\ a.cmd = slot[t].cmd
      /\ a.w.tok = slot[t].w.tok /\ a.w.req = slot[t].w.req /\ a.w.by = slot[t].w.by
      /\ a.w.done = slot[t].w.done /\ a.w.err = slot[t].w.err
      /\ a.w.adv <=> slot[t].w.adv \/ pong = "wom"
      /\ pong = "wom" /\ ~slot[t].w.adv => a.w.first
  BY <1>0, AfterAckFacts
<1> HIDE DEF a
<1>5. /\ s \in SlotState /\ s.w.adv = a.w.adv /\ s.w.tok = a.w.tok /\ s.w.req = a.w.req
      /\ \/ s = a
         \/ a.cmd \in Flags /\ trk[t].says = a.cmd /\ s = [a EXCEPT !.cmd = "normal"]
         \/ WomTaken(a, trk[t]) /\ s.cmd = "normal" /\ s.w.done /\ s.w.by = trk[t].req
  BY <1>0, <1>4, ReceivedFacts
<1> HIDE DEF s
<1>6. /\ r \in TrackerState
      /\ lost => r.says = trk[t].says /\ r.tok = trk[t].tok /\ r.req = trk[t].req
      /\ ~lost /\ pong = "wom" => /\ r.says = "outcome" /\ r.tok = slot[t].w.tok
                                  /\ r.req = slot[t].w.req
                                     \/ (trk[t].says = "outcome" /\ r.req = trk[t].req /\ r.tok = trk[t].tok)
      /\ ~lost /\ pong = "other" => r.says = trk[t].says /\ r.tok = trk[t].tok /\ r.req = trk[t].req
  <2>1. CASE lost
    BY <2>1, <1>2, <1>0 DEF TrackerState
  <2>2. CASE ~lost
    BY <2>2, <1>2, <1>1, <1>0, ReactionFacts
  <2>3. QED
    BY <2>1, <2>2
<1>7. s.cmd \in {slot[t].cmd, "normal"} /\ s.w.tok = slot[t].w.tok /\ s.w.req = slot[t].w.req
  BY <1>4, <1>5 DEF SlotState
<1>8. \/ s.w.done = slot[t].w.done /\ s.w.err = slot[t].w.err /\ s.w.by = slot[t].w.by
                                   /\ s.w.req = slot[t].w.req
      \/ /\ s.w.done /\ s.w.by = trk[t].req /\ s.w.req = slot[t].w.req
         /\ slot[t].cmd = "wom" /\ slot[t].w.adv
         /\ trk[t].says = "outcome" /\ trk[t].tok = slot[t].w.tok
  <2>1. CASE WomTaken(a, trk[t]) /\ s.w.done /\ s.w.by = trk[t].req
    BY <2>1, <1>4, <1>5 DEF WomTaken
  <2>2. CASE s = a \/ s = [a EXCEPT !.cmd = "normal"]
    BY <2>2, <1>4, <1>5 DEF SlotState
  <2>3. QED
    BY <2>1, <2>2, <1>5
<1>9. s.cmd = "wom" /\ s.w.adv =>
        \/ r.says = trk[t].says /\ r.tok = trk[t].tok /\ r.req = trk[t].req
             /\ (slot[t].w.adv \/ trk[t].says = "normal") /\ s.w.req = slot[t].w.req
        \/ r.says = "outcome" /\ r.tok = s.w.tok /\ r.req = s.w.req
  <2> SUFFICES ASSUME s.cmd = "wom", s.w.adv
               PROVE  \/ r.says = trk[t].says /\ r.tok = trk[t].tok /\ r.req = trk[t].req
                           /\ (slot[t].w.adv \/ trk[t].says = "normal") /\ s.w.req = slot[t].w.req
                      \/ r.says = "outcome" /\ r.tok = s.w.tok /\ r.req = s.w.req
    OBVIOUS
  <2>1. slot[t].cmd = "wom" /\ (slot[t].w.adv \/ pong = "wom")
    BY <1>4, <1>5, <1>7
  <2>2. pong \in {"wom", "other"} /\ (slot[t].w.adv \/ trk[t].says = "normal")
    BY <2>1, <1>1
  <2>3. CASE lost \/ pong = "other"
    BY <2>2, <2>3, <1>6, <1>7
  <2>4. CASE ~lost /\ pong = "wom"
    BY <2>2, <2>4, <1>6, <1>7, <1>a
  <2>5. QED
    BY <2>2, <2>3, <2>4
<1>10. QED
  BY <1>2, <1>3, <1>5, <1>6, <1>7, <1>8, <1>9

\* What a PING does to the pending request and to the log.
LEMMA PingRequest ==
  ASSUME Types, NEW t \in Trackers, NEW new \in BOOLEAN, NEW over \in BOOLEAN, NEW lost \in BOOLEAN,
         Ping(t, new, over, lost)
  PROVE  \E counts, ends \in BOOLEAN :
           /\ counts => hid.pending /\ t \in hid.expected /\ hid.flag \in Flags
           /\ hid' \in HidState
           /\ hid'.expected = hid.expected /\ hid'.flag = hid.flag /\ hid'.seq = hid.seq
           /\ hid'.confirmed = IF counts THEN hid.confirmed \cup {t} ELSE hid.confirmed
           /\ log' \in LogState /\ log'.n = log.n /\ log'.want = log.want
           /\ log'.torn = (log.torn \/ (ends /\ win.pc = "begun"))
           /\ log.heard \subseteq log'.heard /\ (counts => t \in log'.heard)
           /\ ends => /\ counts /\ hid.expected \subseteq hid'.confirmed
                      /\ ~hid'.pending /\ ~hid'.timer /\ hid'.job = "none"
                      /\ hid.seq = log.n /\ log.status = "started" =>
                           log'.status = "ok" /\ log'.twice = log.twice
           /\ ~ends => /\ hid'.pending = hid.pending /\ hid'.timer = hid.timer /\ hid'.job = hid.job
                       /\ log'.status = log.status /\ log'.twice = log.twice
<1> DEFINE a == AfterAck(t, Pong(t, over), new)
           s == Received(a, trk[t], new)
           echoed == a.cmd \in Flags /\ s.cmd = "normal"
           counts == echoed /\ Counts(t, a.cmd)
           h == IF counts THEN [hid EXCEPT !.confirmed = @ \cup {t}] ELSE hid
           ends == counts /\ AllConfirmed(h)
           l == IF ends THEN FinishLog(h, "ok") ELSE log
<1>1. /\ hid' = IF ends THEN Finished(h) ELSE h
      /\ log' = [l EXCEPT !.heard = IF echoed /\ hid.pending THEN @ \cup {t} ELSE @,
                          !.torn = @ \/ (ends /\ win.pc = "begun")]
  BY DEF Ping
<1> HIDE DEF a, s
<1>2. counts => hid.pending /\ t \in hid.expected /\ hid.flag \in Flags /\ echoed
  BY DEF Counts
<1> HIDE DEF echoed
<1>3. counts \in BOOLEAN /\ ends \in BOOLEAN
  BY DEF Counts, AllConfirmed
<1> HIDE DEF counts
<1>4. hid \in HidState /\ log \in LogState
  BY DEF Types, RequestType, WorkType
<1>5. /\ h \in HidState /\ h.expected = hid.expected /\ h.flag = hid.flag /\ h.seq = hid.seq
      /\ h.confirmed = IF counts THEN hid.confirmed \cup {t} ELSE hid.confirmed
      /\ h.pending = hid.pending /\ h.timer = hid.timer /\ h.job = hid.job
  BY <1>4 DEF HidState
<1>6. ends => counts /\ hid.expected \subseteq h.confirmed
  BY <1>5 DEF AllConfirmed
<1> HIDE DEF h, ends
<1>7. /\ l \in LogState /\ l.n = log.n /\ l.want = log.want /\ l.torn = log.torn /\ l.heard = log.heard
      /\ ends /\ hid.seq = log.n /\ log.status = "started" => l.status = "ok" /\ l.twice = log.twice
      /\ ~ends => l = log
  <2>1. "ok" \in Answers
    BY DEF Answers
  <2>2. CASE ends
    BY <2>1, <2>2, <1>4, <1>5, AnsweredFacts DEF FinishLog
  <2>3. CASE ~ends
    BY <2>3, <1>4
  <2>4. QED
    BY <2>2, <2>3
<1> HIDE DEF l
<1>8. /\ log' \in LogState /\ log'.n = log.n /\ log'.want = log.want /\ log'.status = l.status /\ log'.twice = l.twice
      /\ log'.torn = (log.torn \/ (ends /\ win.pc = "begun"))
      /\ log.heard \subseteq log'.heard /\ (counts => t \in log'.heard)
  BY <1>1, <1>2, <1>3, <1>7 DEF LogState
<1>9. /\ hid' \in HidState /\ hid'.expected = hid.expected /\ hid'.flag = hid.flag /\ hid'.seq = hid.seq
      /\ hid'.confirmed = IF counts THEN hid.confirmed \cup {t} ELSE hid.confirmed
      /\ ends => ~hid'.pending /\ ~hid'.timer /\ hid'.job = "none"
      /\ ~ends => hid'.pending = hid.pending /\ hid'.timer = hid.timer /\ hid'.job = hid.job
  BY <1>1, <1>3, <1>5 DEF Finished, HidState
<1>10. ends => hid.expected \subseteq hid'.confirmed
  BY <1>5, <1>6, <1>9
<1>11. QED
  BY <1>2, <1>3, <1>6, <1>7, <1>8, <1>9, <1>10

----------------------------------------------------------------------------
(* Types are preserved *)

\* remote_hid_finish and remote_hid_abort leave a request that is over.
LEMMA FinishedFacts ==
  ASSUME NEW h \in HidState
  PROVE  /\ Finished(h) \in HidState
         /\ ~Finished(h).pending /\ ~Finished(h).timer /\ Finished(h).job = "none"
         /\ Finished(h).flag = h.flag /\ Finished(h).seq = h.seq
         /\ Finished(h).expected = h.expected /\ Finished(h).confirmed = h.confirmed
BY DEF Finished, HidState

\* remote_hid_arm_expected.
LEMMA ArmedFacts ==
  ASSUME hid \in HidState, NEW T \in SUBSET Trackers
  PROVE  /\ Armed(T) \in HidState
         /\ Armed(T).confirmed = {} /\ Armed(T).expected = T
         /\ Armed(T).timer <=> hid.timer \/ T # {}
         /\ Armed(T).pending = hid.pending /\ Armed(T).job = hid.job /\ Armed(T).flag = hid.flag
         /\ Armed(T).seq = hid.seq
BY DEF Armed, HidState

\* A request is begun, in its types.
LEMMA BeginTypes ==
  ASSUME Types, NEW kind \in Kinds, NEW T \in SUBSET Trackers, NEW f \in Cmds, Begin(kind, T, f),
         Fits(kind, f)
  PROVE  Types' /\ Kinded'
<1>0. hid \in HidState /\ log \in LogState /\ wq \in QueueState /\ win \in WinState
  BY DEF Types, RequestType, WorkType
<1>1. hid' \in HidState
  BY <1>0 DEF Begin, HidState
<1>2. win' \in WinState /\ Kinded'
  BY DEF Begin, WinState, Kinds, Kinded, Fits
<1>3. log.n + 1 \in 0..MaxReq
  BY <1>0, RemoteConstants DEF Begin, LogState
<1>4. log' \in LogState
  BY <1>0, <1>3 DEF Begin, LogState, Answers, QueueState
<1>5. wom' = wom /\ wq' = wq /\ slot' = slot /\ tok' = tok /\ trk' = trk
  BY DEF Begin
<1>6. QED
  BY <1>1, <1>2, <1>4, <1>5 DEF Types, RequestType, WorkType, SlotType, TrkType

\* All requests are of a kind.
LEMMA RequestKinds ==
  ASSUME Request
  PROVE  \E kind \in Kinds, T \in SUBSET Trackers, f \in Cmds :
           Begin(kind, T, f) /\ Fits(kind, f)
<1>1. CASE FlagRequest
  <2>1. PICK f \in Flags : Begin("all", {}, f) \/ \E t \in Trackers : Begin("one", {t}, f)
    BY <1>1 DEF FlagRequest
  <2>2. /\ f \in Cmds /\ "all" \in Kinds /\ "one" \in Kinds /\ {} \in SUBSET Trackers
        /\ Fits("all", f) /\ Fits("one", f)
    BY DEF Cmds, Kinds, Fits
  <2>3. CASE Begin("all", {}, f)
    BY <2>2, <2>3
  <2>4. CASE \E t \in Trackers : Begin("one", {t}, f)
    <3>1. PICK t \in Trackers : Begin("one", {t}, f)
      BY <2>4
    <3>2. {t} \in SUBSET Trackers
      OBVIOUS
    <3>3. QED
      BY <3>1, <3>2, <2>2
  <2>5. QED
    BY <2>1, <2>3, <2>4
<1>2. CASE SensRequest
  <2>1. PICK T \in {{}, Trackers}, f \in Flags : Begin("roster", T, f)
    BY <1>2 DEF SensRequest
  <2>2. f \in Cmds /\ "roster" \in Kinds /\ T \in SUBSET Trackers /\ Fits("roster", f)
    BY DEF Cmds, Kinds, Fits
  <2>3. QED
    BY <2>1, <2>2
<1>3. CASE WomRequest
  <2>1. /\ "wom" \in Cmds /\ "wom" \in Kinds /\ "womall" \in Kinds /\ {} \in SUBSET Trackers
        /\ Fits("wom", "wom") /\ Fits("womall", "wom")
    BY DEF Cmds, Kinds, Fits
  <2>2. CASE Begin("womall", {}, "wom")
    BY <2>1, <2>2
  <2>3. CASE \E t \in Trackers : Begin("wom", {t}, "wom")
    <3>1. PICK t \in Trackers : Begin("wom", {t}, "wom")
      BY <2>3
    <3>2. {t} \in SUBSET Trackers
      OBVIOUS
    <3>3. QED
      BY <3>1, <3>2, <2>1
  <2>4. QED
    BY <1>3, <2>2, <2>3 DEF WomRequest
<1>4. QED
  BY <1>1, <1>2, <1>3 DEF Request

\* The rest of a request on the system work queue.
LEMMA SystemTypes ==
  ASSUME Types, Kinded, System
  PROVE  Types' /\ Kinded'
<1>0. /\ hid \in HidState /\ log \in LogState /\ wq \in QueueState /\ win \in WinState
      /\ wom \in [token : 0..MaxTok, failed : SUBSET Trackers] /\ SlotType /\ TrkType
      /\ win.T \in SUBSET Trackers /\ win.f \in Cmds
      /\ NoWindow \in WinState /\ NoWindow.pc = "none" /\ 0 \in 0..MaxTok
  BY StartTypes DEF Types, RequestType, WorkType, WinState, NoWindow
<1> USE DEF Types, RequestType, WorkType, SlotType, TrkType
<1>1. CASE BeginReset
  <2>1. hid' \in HidState
    BY <1>0, <1>1 DEF BeginReset, HidState, LogState
  <2>2. wq' \in QueueState
    BY <1>0, <1>1 DEF BeginReset, QueueState
  <2>3. win' \in WinState /\ Kinded'
    BY <1>0, <1>1 DEF BeginReset, WinState, Kinded, Fits
  <2>4. wom' \in [token : 0..MaxTok, failed : SUBSET Trackers]
    BY <1>0, <1>1 DEF BeginReset
  <2>5. slot' = slot /\ tok' = tok /\ trk' = trk /\ log' = log
    BY <1>1 DEF BeginReset
  <2>6. QED
    BY <2>1, <2>2, <2>3, <2>4, <2>5, <1>0
<1>2. CASE Arm
  <2> DEFINE h == Armed(win.T)
  <2>1. h \in HidState /\ Finished(h) \in HidState
    BY <1>0, ArmedFacts, FinishedFacts
  <2> HIDE DEF h
  <2>2. hid' \in HidState
    BY <2>1, <1>2 DEF Arm, h
  <2>3. FinishLog(h, "enoent") \in LogState
    BY <1>0, AnsweredFacts DEF FinishLog, Answers
  <2>4. log' \in LogState
    BY <2>3, <1>0, <1>2 DEF Arm, h, LogState
  <2>5. win' \in WinState /\ Kinded'
    BY <1>0, <1>2 DEF Arm, WinState, Kinded
  <2>6. wom' = wom /\ wq' = wq /\ slot' = slot /\ tok' = tok /\ trk' = trk
    BY <1>2 DEF Arm
  <2>7. QED
    BY <2>2, <2>4, <2>5, <2>6, <1>0
<1>3. CASE Send
  <2>1. Queued(win.T, win.f) \in [Trackers -> SlotState]
    BY <1>0, QueuedFacts
  <2>2. Aborted \in HidState /\ AbortLog \in LogState
    BY <1>0, AnsweredFacts DEF Aborted, AbortLog, HidState, Answers
  <2>3. hid' \in HidState /\ log' \in LogState /\ slot' \in [Trackers -> SlotState]
    BY <2>1, <2>2, <1>0, <1>3 DEF Send
  <2>4. win' = NoWindow /\ wom' = wom /\ wq' = wq /\ tok' = tok /\ trk' = trk
    BY <1>3 DEF Send
  <2>5. QED
    BY <2>3, <2>4, <1>0 DEF Kinded
<1>4. CASE SendWom
  <2>1. WomQueued(win.T) \in [Trackers -> SlotState] /\ NextToken \in 0..MaxTok
    BY <1>0, WomQueuedFacts, NextTokenType
  <2>2. Aborted \in HidState /\ AbortLog \in LogState
    BY <1>0, AnsweredFacts DEF Aborted, AbortLog, HidState, Answers
  <2>3. /\ [hid EXCEPT !.expected = win.T, !.timer = TRUE] \in HidState
        /\ [wom EXCEPT !.token = NextToken] \in [token : 0..MaxTok, failed : SUBSET Trackers]
    BY <2>1, <1>0 DEF HidState
  <2>4. /\ hid' \in HidState /\ log' \in LogState /\ slot' \in [Trackers -> SlotState]
        /\ wom' \in [token : 0..MaxTok, failed : SUBSET Trackers] /\ tok' \in 0..MaxTok
    BY <2>1, <2>2, <2>3, <1>0, <1>4 DEF SendWom
  <2>5. win' = NoWindow /\ wq' = wq /\ trk' = trk
    BY <1>4 DEF SendWom
  <2>6. QED
    BY <2>4, <2>5, <1>0 DEF Kinded
<1>5. QED
  BY <1>1, <1>2, <1>3, <1>4 DEF System

\* The job on rssi_wq.
LEMMA JobTypes ==
  ASSUME Types, Kinded, Jobs
  PROVE  Types' /\ Kinded'
<1>0. /\ hid \in HidState /\ log \in LogState /\ wq \in QueueState /\ win \in WinState
      /\ wom \in [token : 0..MaxTok, failed : SUBSET Trackers] /\ SlotType /\ TrkType
      /\ wq.mask \in SUBSET Trackers /\ wq.f \in Cmds /\ wq.status \in Answers
      /\ hid.flag \in Cmds /\ hid.job \in {"none", "all", "wom"} /\ 0 \in 0..MaxTok
  BY StartTypes DEF Types, RequestType, WorkType, QueueState, HidState
<1> USE DEF Types, RequestType, WorkType, SlotType, TrkType, Kinded
<1>1. CASE JobStart
  <2>1. wq' \in QueueState
    BY <1>0, <1>1 DEF JobStart, QueueState, Answers
  <2>2. hid' = hid /\ wom' = wom /\ win' = win /\ slot' = slot /\ tok' = tok /\ trk' = trk /\ log' = log
    BY <1>1 DEF JobStart
  <2>3. QED
    BY <2>1, <2>2, <1>0
<1>2. CASE JobArm
  <2>1. wq' \in QueueState
    BY <1>0, <1>2 DEF JobArm, QueueState, Answers
  <2>2. hid' \in HidState
    BY <1>0, <1>2, ArmedFacts DEF JobArm
  <2>3. wom' = wom /\ win' = win /\ slot' = slot /\ tok' = tok /\ trk' = trk /\ log' = log
    BY <1>2 DEF JobArm
  <2>4. QED
    BY <2>1, <2>2, <2>3, <1>0
<1>3. CASE JobFinish
  <2>1. wq' \in QueueState /\ hid' \in HidState
    BY <1>0, <1>3 DEF JobFinish, QueueState, HidState
  <2>2. wom' = wom /\ win' = win /\ slot' = slot /\ tok' = tok /\ trk' = trk /\ log' = log
    BY <1>3 DEF JobFinish
  <2>3. QED
    BY <2>1, <2>2, <1>0
<1>4. CASE JobTail
  <2>1. wq' \in QueueState /\ hid' \in HidState
    BY <1>0, <1>4 DEF JobTail, QueueState, HidState
  <2>2. log' \in LogState
    BY <1>0, <1>4, AnsweredFacts DEF JobTail, FinishLog
  <2>3. wom' = wom /\ win' = win /\ slot' = slot /\ tok' = tok /\ trk' = trk
    BY <1>4 DEF JobTail
  <2>4. QED
    BY <2>1, <2>2, <2>3, <1>0
<1>5. ASSUME NEW mask \in SUBSET Trackers, JobPublish(mask)
      PROVE  Types' /\ Kinded'
  <2>1. wq' \in QueueState /\ log' \in LogState
    BY <1>0, <1>5 DEF JobPublish, QueueState, LogState
  <2>2. slot' \in [Trackers -> SlotState]
    BY <1>0, <1>5, QueuedFacts DEF JobPublish
  <2>3. hid' = hid /\ wom' = wom /\ win' = win /\ tok' = tok /\ trk' = trk
    BY <1>5 DEF JobPublish
  <2>4. QED
    BY <2>1, <2>2, <2>3, <1>0
<1>6. ASSUME NEW mask \in SUBSET Trackers, JobWom(mask)
      PROVE  Types' /\ Kinded'
  <2>1. WomQueued(mask) \in [Trackers -> SlotState] /\ NextToken \in 0..MaxTok
    BY <1>0, WomQueuedFacts, NextTokenType
  <2>2. wq' \in QueueState /\ hid' \in HidState
    BY <1>0, <1>6 DEF JobWom, QueueState, HidState
  <2>3. /\ slot' \in [Trackers -> SlotState] /\ tok' \in 0..MaxTok
        /\ wom' \in [token : 0..MaxTok, failed : SUBSET Trackers]
    BY <2>1, <1>0, <1>6 DEF JobWom
  <2>4. win' = win /\ trk' = trk /\ log' = log
    BY <1>6 DEF JobWom
  <2>5. QED
    BY <2>2, <2>3, <2>4, <1>0
<1>7. QED
  BY <1>1, <1>2, <1>3, <1>4, <1>5, <1>6 DEF Jobs

\* What remote_wom_poll does: the request ends and its commands are cancelled, or
\* commands that were displaced are marked as failed.
LEMMA WomPollFacts ==
  ASSUME Types, NEW e \in BOOLEAN, WomPoll(e)
  PROVE  \E over \in BOOLEAN :
           /\ hid' \in HidState /\ hid'.flag = hid.flag /\ hid'.seq = hid.seq /\ hid'.expected = hid.expected
           /\ wom' \in [token : 0..MaxTok, failed : SUBSET Trackers] /\ wom'.token = wom.token
           /\ win' = win /\ wq' = wq /\ tok' = tok /\ trk' = trk
           /\ over => /\ ~hid'.pending /\ ~hid'.timer /\ hid'.job = "none"
                      /\ slot' = Cancelled(hid.expected)
                      /\ \E s \in {"enoent", "ok"} : log' = Answered(hid.seq, s)
           /\ ~over => /\ hid'.pending = hid.pending /\ hid'.timer = hid.timer /\ hid'.job = hid.job
                       /\ log' = log
                       /\ slot' \in [Trackers -> SlotState]
                       /\ \A t \in Trackers :
                            \/ slot'[t] = slot[t]
                            \/ /\ slot[t].cmd # "wom" /\ slot'[t].cmd = slot[t].cmd
                               /\ slot'[t].w.done /\ slot'[t].w.err
<1>0. hid \in HidState /\ wom \in [token : 0..MaxTok, failed : SUBSET Trackers] /\ SlotType
  BY DEF Types, RequestType
<1> DEFINE open == hid.expected \ (hid.confirmed \cup wom.failed)
           good == {t \in open : Outcome(t) = "success"}
           bad == {t \in open : Outcome(t) = "error" \/ (e /\ Outcome(t) = "open")}
           confirmed == hid.confirmed \cup good
           failed == wom.failed \cup bad
           over == confirmed \cup failed = hid.expected
           marked == [t \in Trackers |->
                        IF t \in open /\ Displaced(t)
                        THEN [slot[t] EXCEPT !.w.done = TRUE, !.w.err = TRUE] ELSE slot[t]]
<1>1. /\ wom' = [wom EXCEPT !.failed = failed]
      /\ over => /\ hid' = [Finished(hid) EXCEPT !.confirmed = confirmed]
                 /\ slot' = Cancelled(hid.expected)
                 /\ log' = FinishLog(hid, IF failed # {} \/ hid.expected = {} THEN "enoent" ELSE "ok")
      /\ ~over => hid' = [hid EXCEPT !.confirmed = confirmed] /\ slot' = marked /\ log' = log
      /\ win' = win /\ wq' = wq /\ tok' = tok /\ trk' = trk
  BY DEF WomPoll
<1>2. open \in SUBSET Trackers
  BY <1>0 DEF HidState
<1>3. confirmed \in SUBSET Trackers /\ failed \in SUBSET Trackers
  BY <1>0, <1>2 DEF HidState
<1> HIDE DEF confirmed, failed
<1>4. over \in BOOLEAN
  OBVIOUS
<1> HIDE DEF over
<1>5. wom' \in [token : 0..MaxTok, failed : SUBSET Trackers] /\ wom'.token = wom.token
  BY <1>0, <1>1, <1>3
<1>6. /\ hid' \in HidState /\ hid'.flag = hid.flag /\ hid'.seq = hid.seq /\ hid'.expected = hid.expected
      /\ over => ~hid'.pending /\ ~hid'.timer /\ hid'.job = "none"
      /\ ~over => hid'.pending = hid.pending /\ hid'.timer = hid.timer /\ hid'.job = hid.job
  BY <1>0, <1>1, <1>3 DEF Finished, HidState
<1>7. over => \E s \in {"enoent", "ok"} : log' = Answered(hid.seq, s)
  BY <1>1 DEF FinishLog
<1>8. ASSUME NEW t \in Trackers
      PROVE  /\ marked[t] \in SlotState
             /\ \/ marked[t] = slot[t]
                \/ /\ slot[t].cmd # "wom" /\ marked[t].cmd = slot[t].cmd
                   /\ marked[t].w.done /\ marked[t].w.err
  <2>0. slot[t] \in SlotState /\ slot[t].w \in WomState
    BY <1>0 DEF SlotType, SlotState
  <2>1. CASE t \in open /\ Displaced(t)
    <3> DEFINE v == [slot[t].w EXCEPT !.done = TRUE, !.err = TRUE]
    <3>1. v \in WomState /\ v.done /\ v.err
      BY <2>0 DEF WomState
    <3>2. marked[t] = [slot[t] EXCEPT !.w.done = TRUE, !.w.err = TRUE]
      BY <2>1
    <3>3. marked[t] = [slot[t] EXCEPT !.w = v]
      BY <3>2, <2>0 DEF SlotState, WomState
    <3> HIDE DEF v, marked
    <3>4. marked[t] \in SlotState /\ marked[t].w = v /\ marked[t].cmd = slot[t].cmd
      BY <3>1, <3>3, <2>0 DEF SlotState
    <3>5. slot[t].cmd # "wom"
      BY <2>1 DEF Displaced
    <3>6. QED
      BY <3>1, <3>4, <3>5
  <2>2. CASE ~(t \in open /\ Displaced(t))
    BY <2>0, <2>2
  <2>3. QED
    BY <2>1, <2>2
<1>9. marked \in [Trackers -> SlotState]
  BY <1>8
<1> HIDE DEF marked
<1>10. ~over => /\ slot' \in [Trackers -> SlotState]
                /\ \A t \in Trackers :
                     \/ slot'[t] = slot[t]
                     \/ /\ slot[t].cmd # "wom" /\ slot'[t].cmd = slot[t].cmd
                        /\ slot'[t].w.done /\ slot'[t].w.err
  BY <1>1, <1>8, <1>9
<1>11. QED
  BY <1>1, <1>4, <1>5, <1>6, <1>7, <1>10

\* The remaining actions, in their types.
LEMMA OtherTypes ==
  ASSUME Types, Kinded,
         \/ Timeout \/ (\E e \in BOOLEAN : WomPoll(e))
         \/ \E t \in Trackers, new, over, lost \in BOOLEAN : Ping(t, new, over, lost)
         \/ \E T \in ConsoleTargets, f \in Flags : ConsoleSend(T, f)
         \/ \E t \in Trackers : TrackerRestarts(t)
         \/ Reboot
  PROVE  Types' /\ Kinded'
<1>0. /\ hid \in HidState /\ log \in LogState /\ wq \in QueueState /\ win \in WinState
      /\ wom \in [token : 0..MaxTok, failed : SUBSET Trackers] /\ SlotType /\ TrkType
      /\ hid.expected \in SUBSET Trackers /\ 0 \in 0..MaxTok
      /\ NoWindow \in WinState /\ NoWindow.pc = "none" /\ IdleQueue \in QueueState
      /\ NoRequest \in HidState /\ NewSlot \in SlotState /\ Quiet \in TrackerState
  BY StartTypes DEF Types, RequestType, WorkType, HidState, NoWindow
<1> USE DEF Types, RequestType, WorkType, SlotType, TrkType
<1>1. CASE Timeout
  <2>1. Finished(hid) \in HidState /\ FinishLog(hid, "enoent") \in LogState
    BY <1>0, FinishedFacts, AnsweredFacts DEF FinishLog, Answers
  <2>2. hid' \in HidState
    BY <2>1, <1>0, <1>1 DEF Timeout, HidState
  <2>3. log' \in LogState
    BY <2>1, <1>0, <1>1 DEF Timeout
  <2>4. wom' = wom /\ win' = win /\ wq' = wq /\ slot' = slot /\ tok' = tok /\ trk' = trk
    BY <1>1 DEF Timeout
  <2>5. QED
    BY <2>2, <2>3, <2>4, <1>0 DEF Kinded
<1>2. ASSUME NEW e \in BOOLEAN, WomPoll(e)
      PROVE  Types' /\ Kinded'
  <2>1. PICK over \in BOOLEAN :
           /\ hid' \in HidState
           /\ wom' \in [token : 0..MaxTok, failed : SUBSET Trackers]
           /\ win' = win /\ wq' = wq /\ tok' = tok /\ trk' = trk
           /\ over => /\ slot' = Cancelled(hid.expected)
                      /\ \E s \in {"enoent", "ok"} : log' = Answered(hid.seq, s)
           /\ ~over => log' = log /\ slot' \in [Trackers -> SlotState]
    BY <1>2, WomPollFacts
  <2>2. slot' \in [Trackers -> SlotState]
    BY <2>1, <1>0, CancelledFacts
  <2>3. log' \in LogState
    BY <2>1, <1>0, AnsweredFacts DEF Answers
  <2>4. QED
    BY <2>1, <2>2, <2>3, <1>0 DEF Kinded
<1>3. ASSUME NEW t \in Trackers, NEW new \in BOOLEAN, NEW over \in BOOLEAN, NEW lost \in BOOLEAN,
             Ping(t, new, over, lost)
      PROVE  Types' /\ Kinded'
  <2>1. PICK s \in SlotState, r \in TrackerState :
           slot' = [slot EXCEPT ![t] = s] /\ trk' = [trk EXCEPT ![t] = r]
    BY <1>3, PingSlot
  <2>2. hid' \in HidState /\ log' \in LogState
    BY <1>3, PingRequest
  <2>3. wom' = wom /\ win' = win /\ wq' = wq /\ tok' = tok
    BY <1>3 DEF Ping
  <2>4. slot' \in [Trackers -> SlotState] /\ trk' \in [Trackers -> TrackerState]
    BY <2>1, <1>0
  <2>5. QED
    BY <2>2, <2>3, <2>4, <1>0 DEF Kinded
<1>4. ASSUME NEW T \in ConsoleTargets, NEW f \in Flags, ConsoleSend(T, f)
      PROVE  Types' /\ Kinded'
  <2>1. T \in SUBSET Trackers /\ f \in Cmds
    BY DEF ConsoleTargets, Cmds
  <2>2. slot' \in [Trackers -> SlotState]
    BY <2>1, <1>0, <1>4, QueuedFacts DEF ConsoleSend
  <2>3. hid' = hid /\ wom' = wom /\ win' = win /\ wq' = wq /\ tok' = tok /\ trk' = trk /\ log' = log
    BY <1>4 DEF ConsoleSend
  <2>4. QED
    BY <2>2, <2>3, <1>0 DEF Kinded
<1>5. ASSUME NEW t \in Trackers, TrackerRestarts(t)
      PROVE  Types' /\ Kinded'
  <2>1. trk' \in [Trackers -> TrackerState]
    BY <1>0, <1>5 DEF TrackerRestarts
  <2>2. hid' = hid /\ wom' = wom /\ win' = win /\ wq' = wq /\ tok' = tok /\ slot' = slot /\ log' = log
    BY <1>5 DEF TrackerRestarts
  <2>3. QED
    BY <2>1, <2>2, <1>0 DEF Kinded
<1>6. CASE Reboot
  <2>1. log' \in LogState
    BY <1>0, <1>6, StartTypes DEF Reboot, LogState
  <2>2. slot' \in [Trackers -> SlotState] /\ tok' \in 0..MaxTok
    BY <1>0, <1>6 DEF Reboot
  <2>3. /\ hid' = NoRequest /\ wom' = [token |-> 0, failed |-> {}] /\ win' = NoWindow
        /\ wq' = IdleQueue /\ trk' = trk
    BY <1>6 DEF Reboot
  <2>4. wom' \in [token : 0..MaxTok, failed : SUBSET Trackers]
    BY <2>3, <1>0
  <2>5. QED
    BY <2>1, <2>2, <2>3, <2>4, <1>0 DEF Kinded
<1>7. QED
  BY <1>1, <1>2, <1>3, <1>4, <1>5, <1>6

\* Every step keeps the types and the kinds of requests.
LEMMA NextTypes == Types /\ Kinded /\ [Next]_vars => Types' /\ Kinded'
<1> SUFFICES ASSUME Types, Kinded, [Next]_vars
             PROVE  Types' /\ Kinded'
  OBVIOUS
<1>1. CASE Request
  <2>1. PICK kind \in Kinds, T \in SUBSET Trackers, f \in Cmds : Begin(kind, T, f) /\ Fits(kind, f)
    BY <1>1, RequestKinds
  <2>2. QED
    BY <2>1, BeginTypes
<1>2. CASE System
  BY <1>2, SystemTypes
<1>3. CASE Jobs
  BY <1>3, JobTypes
<1>4. CASE UNCHANGED vars
  BY <1>4 DEF vars, Types, RequestType, WorkType, SlotType, TrkType, Kinded
<1>5. QED
  BY <1>1, <1>2, <1>3, <1>4, OtherTypes DEF Next

----------------------------------------------------------------------------
(* Outcomes of WOM commands *)

\* A job for a flag keeps its flag.
LEMMA NextFlagged ==
  ASSUME Types, Kinded, Flagged, [Next]_vars
  PROVE  Flagged'
<1>0. /\ hid \in HidState /\ wq \in QueueState /\ win \in WinState /\ hid.job \in {"none", "all", "wom"}
      /\ log \in LogState
  BY DEF Types, RequestType, WorkType, HidState
<1> USE DEF Flagged
<1>1. ASSUME hid'.job \in {hid.job, "none"}, hid'.flag = hid.flag, wq' = wq
      PROVE  Flagged'
  BY <1>1
<1>2. CASE Request
  <2>1. hid' = [hid EXCEPT !.pending = TRUE] /\ wq' = wq
    BY <1>2 DEF Request, FlagRequest, SensRequest, WomRequest, Begin
  <2>2. QED
    BY <2>1, <1>0 DEF HidState
<1>3. CASE BeginReset
  <2>1. wq'.pc = wq.pc /\ wq'.f = wq.f
    BY <1>0, <1>3 DEF BeginReset, QueueState
  <2>2. CASE win.kind \in {"all", "wom", "womall"}
    <3>1. hid'.flag = win.f /\ hid'.job = IF win.kind = "all" THEN "all" ELSE "wom"
      BY <2>2, <1>0, <1>3 DEF BeginReset, HidState
    <3>2. QED
      BY <3>1, <2>1, <2>2, <1>3 DEF Kinded, Fits, BeginReset
  <2>3. CASE win.kind \notin {"all", "wom", "womall"}
    <3>1. hid'.flag = win.f /\ hid'.job = hid.job
      BY <2>3, <1>0, <1>3 DEF BeginReset, HidState
    <3>2. QED
      BY <3>1, <2>1, <2>3, <1>3 DEF Kinded, Fits, BeginReset
  <2>4. QED
    BY <2>2, <2>3
<1>4. CASE Arm
  <2> DEFINE h == Armed(win.T)
  <2>1. /\ h \in HidState /\ h.job = hid.job /\ h.flag = hid.flag
        /\ Finished(h).job = "none" /\ Finished(h).flag = h.flag
    BY <1>0, ArmedFacts, FinishedFacts DEF WinState
  <2> HIDE DEF h
  <2>2. hid' \in {h, Finished(h)} /\ wq' = wq
    BY <1>4 DEF Arm, h
  <2>3. QED
    BY <2>1, <2>2, <1>1
<1>5. CASE Send
  <2>1. hid' \in {hid, Aborted} /\ wq' = wq
    BY <1>5 DEF Send
  <2>2. QED
    BY <2>1, <1>0 DEF Aborted, HidState
<1>6. CASE SendWom
  <2>1. hid' \in {[hid EXCEPT !.expected = win.T, !.timer = TRUE], Aborted} /\ wq' = wq
    BY <1>6 DEF SendWom
  <2>2. QED
    BY <2>1, <1>0 DEF Aborted, HidState
<1>7. CASE JobStart
  BY <1>0, <1>7 DEF JobStart, QueueState
<1>8. CASE JobArm
  <2>1. hid' = Armed(wq.mask) /\ wq'.pc \in {"finish", "idle"}
    BY <1>0, <1>8 DEF JobArm, QueueState
  <2>2. hid'.job = hid.job /\ hid'.flag = hid.flag
    BY <2>1, <1>0, ArmedFacts DEF QueueState
  <2>3. QED
    BY <2>1, <2>2
<1>9. CASE JobFinish
  BY <1>0, <1>9 DEF JobFinish, QueueState, HidState
<1>10. CASE JobTail
  BY <1>0, <1>10 DEF JobTail, QueueState, HidState
<1>11. ASSUME NEW mask \in SUBSET Trackers, JobPublish(mask)
       PROVE  Flagged'
  BY <1>0, <1>11 DEF JobPublish, QueueState
<1>12. ASSUME NEW mask \in SUBSET Trackers, JobWom(mask)
       PROVE  Flagged'
  BY <1>0, <1>12 DEF JobWom, QueueState, HidState
<1>13. CASE Timeout
  <2>1. hid' \in {Finished(hid), [hid EXCEPT !.timer = FALSE]} /\ wq' = wq
    BY <1>13 DEF Timeout
  <2>2. QED
    BY <2>1, <1>0 DEF Finished, HidState
<1>14. ASSUME NEW e \in BOOLEAN, WomPoll(e)
       PROVE  Flagged'
  <2>1. hid'.job \in {hid.job, "none"} /\ hid'.flag = hid.flag /\ wq' = wq
    BY <1>14, WomPollFacts
  <2>2. QED
    BY <2>1, <1>1
<1>15. ASSUME NEW t \in Trackers, NEW new \in BOOLEAN, NEW over \in BOOLEAN, NEW lost \in BOOLEAN,
              Ping(t, new, over, lost)
       PROVE  Flagged'
  <2>1. hid'.job \in {hid.job, "none"} /\ hid'.flag = hid.flag
    BY <1>15, PingRequest
  <2>2. wq' = wq
    BY <1>15 DEF Ping
  <2>3. QED
    BY <2>1, <2>2, <1>1
<1>16. CASE Reboot
  BY <1>16 DEF Reboot, NoRequest, IdleQueue
<1>17. CASE \/ \E T \in ConsoleTargets, f \in Flags : ConsoleSend(T, f)
            \/ \E t \in Trackers : TrackerRestarts(t)
            \/ UNCHANGED vars
  BY <1>17 DEF ConsoleSend, TrackerRestarts, vars
<1>18. QED
  BY <1>2, <1>3, <1>4, <1>5, <1>6, <1>7, <1>8, <1>9, <1>10, <1>11, <1>12, <1>13, <1>14, <1>15, <1>16, <1>17
     DEF Next, System, Jobs

\* What leaves a slot truthful without a PING: no other WOM command, a fresh one, or
\* one that is over with an error.
Harmless(t) ==
  /\ \/ slot'[t].w = slot[t].w /\ (slot'[t].cmd = "wom" => slot[t].cmd = "wom")
     \/ ~slot'[t].w.adv /\ ~slot'[t].w.done
     \/ slot'[t].cmd # "wom" /\ slot'[t].w.err
  /\ trk'[t] = trk[t] \/ trk'[t].says = "normal"

\* Every step keeps the reports of trackers and the outcomes in slots true.
LEMMA NextTruth ==
  ASSUME Types, Kinded, Flagged, Reported, WomTruthful, [Next]_vars
  PROVE  Reported' /\ WomTruthful'
<1>0. /\ SlotType /\ TrkType /\ log \in LogState /\ win.T \in SUBSET Trackers
      /\ hid.expected \in SUBSET Trackers /\ ~NoWom.adv /\ ~NoWom.done /\ "wom" \notin Flags
  BY RemoteConstants DEF Types, RequestType, WorkType, WinState, HidState, NoWom
<1>1. ASSUME \A t \in Trackers : Harmless(t)
      PROVE  Reported' /\ WomTruthful'
  BY <1>1 DEF Reported, WomTruthful, Harmless
<1>2. ASSUME slot' = slot, trk' = trk
      PROVE  Reported' /\ WomTruthful'
  BY <1>2 DEF Reported, WomTruthful
<1>3. ASSUME NEW T \in SUBSET Trackers, NEW f \in Flags, slot' = Queued(T, f), trk' = trk
      PROVE  Reported' /\ WomTruthful'
  <2>1. f \in Cmds
    BY DEF Cmds
  <2>2. \A t \in Trackers : /\ slot'[t].w = slot[t].w
                            /\ slot'[t].cmd = IF t \in T THEN f ELSE slot[t].cmd
    BY <2>1, <1>0, <1>3, QueuedFacts
  <2>3. QED
    BY <2>2, <1>0, <1>1, <1>3 DEF Harmless
<1>4. ASSUME NEW T \in SUBSET Trackers, slot' = WomQueued(T), trk' = trk
      PROVE  Reported' /\ WomTruthful'
  <2>1. /\ \A t \in T : ~slot'[t].w.adv /\ ~slot'[t].w.done
        /\ \A t \in Trackers \ T : slot'[t] = slot[t]
    BY <1>0, <1>4, WomQueuedFacts
  <2>2. QED
    BY <2>1, <1>1, <1>4 DEF Harmless
<1>5. CASE Request
  BY <1>2, <1>5 DEF Request, FlagRequest, SensRequest, WomRequest, Begin
<1>6. CASE System
  <2>1. CASE BeginReset \/ Arm
    BY <2>1, <1>2 DEF BeginReset, Arm
  <2>2. CASE Send
    <3>1. win.f \in Flags
      BY <2>2 DEF Send, Kinded, Fits
    <3>2. trk' = trk /\ (slot' = slot \/ slot' = Queued(win.T, win.f))
      BY <2>2 DEF Send
    <3>3. QED
      BY <3>1, <3>2, <1>0, <1>2, <1>3
  <2>3. CASE SendWom
    <3>1. trk' = trk /\ (slot' = slot \/ slot' = WomQueued(win.T))
      BY <2>3 DEF SendWom
    <3>2. QED
      BY <3>1, <1>0, <1>2, <1>4
  <2>4. QED
    BY <1>6, <2>1, <2>2, <2>3 DEF System
<1>7. CASE Jobs
  <2>1. CASE JobStart \/ JobArm \/ JobFinish \/ JobTail
    BY <2>1, <1>2 DEF JobStart, JobArm, JobFinish, JobTail
  <2>2. ASSUME NEW mask \in SUBSET Trackers, JobPublish(mask)
        PROVE  Reported' /\ WomTruthful'
    <3>1. wq.f \in Flags /\ slot' = Queued(mask, wq.f) /\ trk' = trk
      BY <2>2 DEF JobPublish, Flagged
    <3>2. QED
      BY <3>1, <1>3
  <2>3. ASSUME NEW mask \in SUBSET Trackers, JobWom(mask)
        PROVE  Reported' /\ WomTruthful'
    <3>1. slot' = WomQueued(mask) /\ trk' = trk
      BY <2>3 DEF JobWom
    <3>2. QED
      BY <3>1, <1>4
  <2>4. QED
    BY <1>7, <2>1, <2>2, <2>3 DEF Jobs
<1>8. CASE Timeout
  BY <1>2, <1>8 DEF Timeout
<1>9. ASSUME NEW e \in BOOLEAN, WomPoll(e)
      PROVE  Reported' /\ WomTruthful'
  <2>1. PICK over \in BOOLEAN :
           /\ trk' = trk
           /\ over => slot' = Cancelled(hid.expected)
           /\ ~over => \A t \in Trackers :
                         \/ slot'[t] = slot[t]
                         \/ /\ slot[t].cmd # "wom" /\ slot'[t].cmd = slot[t].cmd
                            /\ slot'[t].w.done /\ slot'[t].w.err
    BY <1>9, WomPollFacts
  <2>2. CASE over
    <3>1. \A t \in Trackers : slot'[t] = slot[t] \/ slot'[t].w = NoWom
      BY <2>1, <2>2, <1>0, CancelledFacts
    <3>2. QED
      BY <3>1, <2>1, <1>0, <1>1 DEF Harmless
  <2>3. CASE ~over
    BY <2>1, <2>3, <1>1 DEF Harmless
  <2>4. QED
    BY <2>2, <2>3
<1>10. ASSUME NEW t \in Trackers, NEW new \in BOOLEAN, NEW over \in BOOLEAN, NEW lost \in BOOLEAN,
              Ping(t, new, over, lost)
       PROVE  Reported' /\ WomTruthful'
  <2>1. PICK s \in SlotState, r \in TrackerState :
           /\ slot' = [slot EXCEPT ![t] = s] /\ trk' = [trk EXCEPT ![t] = r]
           /\ s.cmd \in {slot[t].cmd, "normal"} /\ s.w.tok = slot[t].w.tok
           /\ \/ s.w.done = slot[t].w.done /\ s.w.err = slot[t].w.err /\ s.w.by = slot[t].w.by
                                           /\ s.w.req = slot[t].w.req
              \/ /\ s.w.done /\ s.w.by = trk[t].req /\ s.w.req = slot[t].w.req
                 /\ slot[t].cmd = "wom" /\ slot[t].w.adv
                 /\ trk[t].says = "outcome" /\ trk[t].tok = slot[t].w.tok
           /\ s.cmd = "wom" /\ s.w.adv =>
                \/ r.says = trk[t].says /\ r.tok = trk[t].tok /\ r.req = trk[t].req
                     /\ (slot[t].w.adv \/ trk[t].says = "normal") /\ s.w.req = slot[t].w.req
                \/ r.says = "outcome" /\ r.tok = s.w.tok /\ r.req = s.w.req
    BY <1>10, PingSlot
  <2>2. s.w.done /\ ~s.w.err => s.w.by = s.w.req
    BY <2>1 DEF WomTruthful, Reported
  <2>3. s.cmd = "wom" /\ s.w.adv =>
          r.says = "normal" \/ (r.says = "outcome" /\ r.tok = s.w.tok /\ r.req = s.w.req)
    BY <2>1 DEF Reported
  <2>4. /\ slot'[t] = s /\ trk'[t] = r
        /\ \A u \in Trackers : u # t => slot'[u] = slot[u] /\ trk'[u] = trk[u]
    BY <2>1, <1>0 DEF SlotType, TrkType
  <2>5. Reported'
    BY <2>3, <2>4 DEF Reported
  <2>6. WomTruthful'
    BY <2>2, <2>4 DEF WomTruthful
  <2>7. QED
    BY <2>5, <2>6
<1>11. ASSUME NEW T \in ConsoleTargets, NEW f \in Flags, ConsoleSend(T, f)
       PROVE  Reported' /\ WomTruthful'
  <2>1. T \in SUBSET Trackers /\ slot' = Queued(T, f) /\ trk' = trk
    BY <1>11 DEF ConsoleSend, ConsoleTargets
  <2>2. QED
    BY <2>1, <1>3
<1>12. ASSUME NEW t \in Trackers, TrackerRestarts(t)
       PROVE  Reported' /\ WomTruthful'
  <2>1. slot' = slot /\ \A u \in Trackers : trk'[u] = trk[u] \/ trk'[u].says = "normal"
    BY <1>0, <1>12 DEF TrackerRestarts, TrkType, Quiet
  <2>2. QED
    BY <2>1, <1>1 DEF Harmless
<1>13. CASE Reboot
  <2>1. trk' = trk /\ \A t \in Trackers : slot'[t] = NewSlot
    BY <1>13 DEF Reboot
  <2>2. ~NewSlot.w.adv /\ ~NewSlot.w.done
    BY <1>0 DEF NewSlot
  <2>3. QED
    BY <2>1, <2>2, <1>1 DEF Harmless
<1>14. CASE UNCHANGED vars
  BY <1>2, <1>14 DEF vars
<1>15. QED
  BY <1>5, <1>6, <1>7, <1>8, <1>9, <1>10, <1>11, <1>12, <1>13, <1>14 DEF Next

----------------------------------------------------------------------------
(* Requests *)

\* A request is begun.
LEMMA BeginClean ==
  ASSUME Types, Clean, NEW kind \in Kinds, NEW T \in SUBSET Trackers, NEW f \in Cmds, Begin(kind, T, f),
         ~log'.torn
  PROVE  Clean'
<1>0. hid \in HidState /\ log \in LogState /\ wq \in QueueState
  BY DEF Types, RequestType, WorkType
<1>1. /\ ~hid.pending /\ win.pc = "none" /\ wq' = wq /\ slot' = slot /\ wom' = wom
      /\ win' = [pc |-> "begun", kind |-> kind, T |-> T, f |-> f]
      /\ hid' = [hid EXCEPT !.pending = TRUE]
      /\ log' = [log EXCEPT !.n = @ + 1, !.status = "started", !.heard = {}, !.want = {},
                            !.torn = @ \/ wq.pc = "tail"]
  BY DEF Begin
<1>2. /\ hid'.pending /\ hid'.timer = hid.timer /\ hid'.expected = hid.expected /\ hid'.job = hid.job
      /\ hid'.flag = hid.flag
  BY <1>0, <1>1 DEF HidState
<1>3. /\ log'.status = "started" /\ log'.twice = log.twice /\ wq.pc # "tail"
  BY <1>0, <1>1 DEF LogState
<1>4. win'.pc = "begun"
  BY <1>1
<1>5. wq.pc = "idle" /\ ~wq.queued /\ ~hid.timer /\ hid.job = "none"
  BY <1>0, <1>1, <1>3 DEF Clean, Timed, Working, JobOwned, QueueState
<1>6. Timed' /\ JobOwned'
  BY <1>1, <1>2, <1>4, <1>5 DEF Timed, JobOwned
<1>7. Working'
  BY <1>1, <1>5 DEF Working
<1>8. Counted' /\ Honest'
  BY <1>2, <1>3, <1>4 DEF Counted, Honest, Clean
<1>9. WomOwned'
  BY <1>1, <1>2 DEF WomOwned, Clean
<1>10. QED
  BY <1>6, <1>7, <1>8, <1>9 DEF Clean

\* The other instructions of remote_hid_begin.
LEMMA BeginResetClean ==
  ASSUME Types, Kinded, Clean, BeginReset
  PROVE  Clean'
<1>0. hid \in HidState /\ log \in LogState /\ wq \in QueueState /\ win \in WinState
  BY DEF Types, RequestType, WorkType
<1>1. /\ win.pc = "begun" /\ slot' = slot /\ log' = log /\ Fits(win.kind, win.f)
      /\ hid.pending /\ ~hid.timer /\ hid.job = "none" /\ ~wq.queued /\ wq.pc = "idle"
      /\ log.status = "started"
  BY DEF BeginReset, Kinded, Clean, Timed, JobOwned, Counted
<1>2. /\ hid'.pending = hid.pending /\ hid'.timer = hid.timer /\ hid'.seq = log.n /\ hid'.flag = win.f
      /\ hid'.expected = {} /\ hid'.confirmed = {}
      /\ hid'.job = IF win.kind \in {"wom", "womall"} THEN "wom" ELSE IF win.kind = "all" THEN "all" ELSE "none"
  BY <1>0, <1>1 DEF BeginReset, HidState
<1>3. /\ wq'.pc = "idle"
      /\ win.kind \in {"all", "womall"} => wq'.queued
      /\ win.kind \notin {"all", "womall"} => ~wq'.queued
  BY <1>0, <1>1 DEF BeginReset, QueueState
<1>4. /\ win.kind \in {"all", "womall"} => win'.pc = "none"
      /\ win.kind \notin {"all", "womall"} => win'.pc = "reset" /\ win'.kind = win.kind
  BY <1>0 DEF BeginReset, WinState, NoWindow
<1>5. Timed'
  BY <1>1, <1>2, <1>3, <1>4 DEF Timed
<1>6. Working'
  BY <1>1, <1>2, <1>3, <1>4 DEF Working
<1>7. "wom" \notin Flags
  BY RemoteConstants
<1>8. JobOwned'
  BY <1>1, <1>2, <1>3, <1>4 DEF JobOwned, Fits
<1>9. Counted'
  BY <1>1, <1>2, <1>4 DEF Counted
<1>10. Honest'
  BY <1>1 DEF Honest, Clean
<1>11. WomOwned'
  BY <1>1 DEF WomOwned, Clean
<1>12. QED
  BY <1>5, <1>6, <1>8, <1>9, <1>10, <1>11 DEF Clean

\* A request that is over leaves everything in order, if nobody works for it.
LEMMA OverClean ==
  ASSUME Types, Clean, NEW s \in Answers,
         hid.pending, win.pc # "begun", ~wq.queued, wq.pc = "idle",
         win'.pc \in {"none", "armed"}, wq' = wq,
         ~hid'.pending, ~hid'.timer, hid'.job = "none", hid'.flag = hid.flag,
         log' = Answered(log.n, s),
         s = "ok" /\ hid.flag # "wom" => log.want # {} /\ log.want \subseteq log.heard,
         \A t \in Trackers : slot'[t].cmd # "wom"
  PROVE  Clean'
<1>1. log \in LogState /\ log.status = "started"
  BY DEF Types, WorkType, Clean, Counted
<1>2. /\ log'.status = s /\ log'.twice = log.twice /\ log'.want = log.want /\ log'.heard = log.heard
  BY <1>1, AnsweredFacts
<1>3. Timed' /\ Working' /\ JobOwned' /\ Counted' /\ WomOwned'
  BY DEF Timed, Working, JobOwned, Counted, WomOwned
<1>4. Honest'
  BY <1>2 DEF Honest, Clean
<1>5. QED
  BY <1>3, <1>4 DEF Clean

\* A request is armed.
LEMMA ArmClean ==
  ASSUME Types, Kinded, Clean, Arm
  PROVE  Clean'
<1>0. hid \in HidState /\ log \in LogState /\ wq \in QueueState /\ win \in WinState /\ win.T \in SUBSET Trackers
  BY DEF Types, RequestType, WorkType, WinState
<1>1. /\ win.pc = "reset" /\ win.kind \in {"one", "roster"} /\ slot' = slot /\ wq' = wq /\ wom' = wom
      /\ hid.pending /\ ~hid.timer /\ hid.job = "none" /\ ~wq.queued /\ wq.pc = "idle"
      /\ hid.expected = {} /\ log.status = "started" /\ hid.seq = log.n /\ hid.flag \in Flags
  BY DEF Arm, Clean, Timed, JobOwned, Counted
<1>a. \A t \in Trackers : slot[t].cmd # "wom"
  BY <1>1 DEF Clean, WomOwned
<1> DEFINE h == Armed(win.T)
<1>2. /\ h \in HidState /\ h.confirmed = {} /\ h.expected = win.T
      /\ h.timer <=> hid.timer \/ win.T # {}
      /\ h.pending = hid.pending /\ h.job = hid.job /\ h.flag = hid.flag /\ h.seq = hid.seq
  BY <1>0, ArmedFacts
<1>3. CASE win.T # {}
  <2>1. hid' = h /\ win' = [win EXCEPT !.pc = "armed"] /\ log' = [log EXCEPT !.want = win.T]
    BY <1>3 DEF Arm
  <2> HIDE DEF h
  <2>2. win'.pc = "armed" /\ log'.want = win.T /\ log'.status = log.status /\ log'.twice = log.twice
        /\ log'.heard = log.heard /\ log'.n = log.n
    BY <2>1, <1>0 DEF WinState, LogState
  <2>3. Timed' /\ Working' /\ JobOwned'
    BY <2>1, <2>2, <1>1, <1>2 DEF Timed, Working, JobOwned
  <2>4. Counted' /\ Honest'
    BY <2>1, <2>2, <1>1, <1>2 DEF Counted, Honest, Clean
  <2>5. WomOwned'
    BY <1>1, <1>a DEF WomOwned
  <2>6. QED
    BY <2>3, <2>4, <2>5 DEF Clean
<1>4. CASE win.T = {}
  <2>1. hid' = Finished(h) /\ log' = FinishLog(h, "enoent") /\ win' = NoWindow
    BY <1>1, <1>2, <1>4 DEF Arm
  <2> HIDE DEF h
  <2>2. log' = Answered(log.n, "enoent") /\ win'.pc = "none" /\ "enoent" \in Answers
    BY <2>1, <1>1, <1>2 DEF FinishLog, NoWindow, Answers
  <2>3. ~hid'.pending /\ ~hid'.timer /\ hid'.job = "none" /\ hid'.flag = hid.flag
    BY <2>1, <1>2, FinishedFacts
  <2>4. QED
    BY <2>2, <2>3, <1>1, <1>a, OverClean
<1>5. QED
  BY <1>3, <1>4

\* The command goes into the slots, or the request is aborted.
LEMMA SendClean ==
  ASSUME Types, Kinded, Clean, Send
  PROVE  Clean'
<1>0. /\ hid \in HidState /\ log \in LogState /\ wq \in QueueState /\ SlotType /\ "wom" \notin Flags
      /\ win.T \in SUBSET Trackers
  BY RemoteConstants DEF Types, RequestType, WorkType, WinState
<1>1. /\ win.pc = "armed" /\ win.f \in Flags /\ win.f \in Cmds /\ wq' = wq /\ wom' = wom /\ win'.pc = "none"
      /\ ~wq.queued /\ wq.pc = "idle"
  BY DEF Send, Kinded, Fits, Cmds, NoWindow, Clean, Timed
<1>2. CASE slot' = Queued(win.T, win.f) /\ hid' = hid /\ log' = log
  <2>1. \A t \in Trackers : /\ slot'[t].w = slot[t].w
                            /\ slot'[t].cmd = IF t \in win.T THEN win.f ELSE slot[t].cmd
    <3>1. SlotType /\ win.T \in SUBSET Trackers /\ win.f \in Cmds
      BY <1>0, <1>1
    <3> DEFINE T == win.T
               f == win.f
    <3>2. T \in SUBSET Trackers /\ f \in Cmds /\ slot' = Queued(T, f)
      BY <3>1, <1>2
    <3> HIDE DEF T, f
    <3>3. \A t \in Trackers : slot'[t].w = slot[t].w /\ slot'[t].cmd = IF t \in T THEN f ELSE slot[t].cmd
      BY <3>1, <3>2, QueuedFacts
    <3>4. QED
      BY <3>3 DEF T, f
  <2>2. Timed' /\ Working' /\ JobOwned' /\ Counted' /\ Honest'
    BY <1>1, <1>2 DEF Clean, Timed, Working, JobOwned, Counted, Honest
  <2>3. WomOwned'
    BY <2>1, <1>0, <1>1, <1>2 DEF WomOwned, Clean
  <2>4. QED
    BY <2>2, <2>3 DEF Clean
<1>3. CASE hid.pending /\ win.kind = "one" /\ hid' = Aborted /\ log' = AbortLog /\ slot' = slot
  <2>1. ~hid'.pending /\ ~hid'.timer /\ hid'.job = "none" /\ hid'.flag = hid.flag
    BY <1>0, <1>3 DEF Aborted, HidState
  <2>2. log' = Answered(log.n, "refused") /\ "refused" \in Answers
    BY <1>3 DEF AbortLog, Answers
  <2>3. hid.job # "wom"
    BY <1>1, <1>3 DEF Clean, JobOwned
  <2>4. \A t \in Trackers : slot[t].cmd # "wom"
    BY <2>3 DEF Clean, WomOwned
  <2>5. QED
    BY <2>1, <2>2, <2>4, <1>1, <1>3, OverClean
<1>4. QED
  BY <1>2, <1>3 DEF Send

\* A WOM command for one tracker goes into its slot, or the request is aborted.
LEMMA SendWomClean ==
  ASSUME Types, Kinded, Clean, SendWom
  PROVE  Clean'
<1>0. /\ hid \in HidState /\ log \in LogState /\ wq \in QueueState /\ SlotType
      /\ wom \in [token : 0..MaxTok, failed : SUBSET Trackers] /\ win.T \in SUBSET Trackers
  BY DEF Types, RequestType, WorkType, WinState
<1>1. /\ win.pc = "reset" /\ win.kind = "wom" /\ wq' = wq /\ win'.pc = "none"
      /\ hid.pending /\ ~hid.timer /\ hid.job = "wom" /\ ~wq.queued /\ wq.pc = "idle" /\ hid.flag = "wom"
      /\ hid.expected = {} /\ log.status = "started" /\ hid.seq = log.n
  BY DEF SendWom, NoWindow, Clean, Timed, JobOwned, Counted
<1>a. \A t \in Trackers : slot[t].cmd # "wom"
  BY <1>1 DEF Clean, WomOwned
<1>2. CASE /\ slot' = WomQueued(win.T) /\ wom' = [wom EXCEPT !.token = NextToken] /\ log' = log
           /\ hid' = [hid EXCEPT !.expected = win.T, !.timer = TRUE]
  <2>1. /\ \A t \in win.T : slot'[t].cmd = "wom" /\ slot'[t].w.tok = NextToken
        /\ \A t \in Trackers \ win.T : slot'[t] = slot[t]
    BY <1>0, <1>2, WomQueuedFacts
  <2>2. /\ hid'.pending = hid.pending /\ hid'.timer /\ hid'.job = hid.job /\ hid'.flag = hid.flag
        /\ hid'.expected = win.T /\ hid'.seq = hid.seq /\ wom'.token = NextToken
    BY <1>0, <1>2 DEF HidState
  <2>3. Timed' /\ Working' /\ JobOwned' /\ Counted'
    BY <2>2, <1>1, <1>2 DEF Timed, Working, JobOwned, Counted
  <2>4. Honest'
    BY <1>2, <1>1 DEF Honest, Clean
  <2>5. WomOwned'
    BY <2>1, <2>2, <1>1, <1>a DEF WomOwned
  <2>6. QED
    BY <2>3, <2>4, <2>5 DEF Clean
<1>3. CASE hid' = Aborted /\ log' = AbortLog /\ slot' = slot
  <2>1. ~hid'.pending /\ ~hid'.timer /\ hid'.job = "none" /\ hid'.flag = hid.flag
    BY <1>0, <1>3 DEF Aborted, HidState
  <2>2. log' = Answered(log.n, "refused") /\ "refused" \in Answers
    BY <1>3 DEF AbortLog, Answers
  <2>3. QED
    BY <2>1, <2>2, <1>1, <1>3, <1>a, OverClean
<1>4. QED
  BY <1>2, <1>3 DEF SendWom

----------------------------------------------------------------------------
(* The job on rssi_wq *)

\* The steps of remote_hid_job_handler keep to the request that queued it.
LEMMA JobsClean ==
  ASSUME Types, Flagged, Clean, Jobs
  PROVE  Clean'
<1>0. /\ hid \in HidState /\ log \in LogState /\ wq \in QueueState /\ SlotType /\ "wom" \notin Flags
      /\ wom \in [token : 0..MaxTok, failed : SUBSET Trackers] /\ wq.mask \in SUBSET Trackers
      /\ hid.job \in {"none", "all", "wom"} /\ wq.status \in Answers
  BY RemoteConstants DEF Types, RequestType, WorkType, QueueState, HidState
<1>1. CASE JobStart
  <2>1. /\ win.pc = "none" /\ wq.queued /\ wq.pc = "idle" /\ hid' = hid /\ win' = win /\ log' = log
        /\ slot' = slot /\ wom' = wom
        /\ wq' = [wq EXCEPT !.queued = FALSE,
                      !.pc = IF ~hid.pending THEN "idle" ELSE IF hid.job = "none" THEN "finish" ELSE hid.job,
                      !.f = hid.flag, !.status = "refused"]
    BY <1>1 DEF JobStart
  <2>2. hid.pending /\ hid.job # "none" /\ ~hid.timer /\ hid.expected = {}
    BY <2>1 DEF Clean, Working
  <2>3. ~wq'.queued /\ wq'.pc = hid.job /\ wq'.pc \in {"all", "wom"}
    BY <2>1, <2>2, <1>0 DEF QueueState
  <2>4. Working'
    BY <2>1, <2>2, <2>3 DEF Working
  <2>5. Timed' /\ JobOwned' /\ Counted' /\ Honest' /\ WomOwned'
    BY <2>1, <2>2, <2>3 DEF Clean, Timed, JobOwned, Counted, Honest, WomOwned
  <2>6. QED
    BY <2>4, <2>5 DEF Clean
<1>2. CASE JobArm
  <2>1. /\ win.pc = "none" /\ wq.pc = "arm" /\ win' = win /\ log' = log
        /\ slot' = slot /\ wom' = wom /\ hid' = Armed(wq.mask)
    BY <1>2 DEF JobArm
  <2>2. /\ hid.pending /\ hid.job = "all" /\ ~hid.timer /\ hid.expected = {} /\ log.want = wq.mask
        /\ ~wq.queued
    BY <2>1 DEF Clean, Working
  <2>3. /\ wq.mask = {} => wq'.pc = "finish" /\ wq'.status = "enoent"
        /\ wq.mask # {} => wq'.pc = "idle"
        /\ wq'.queued = wq.queued
    BY <1>2, <1>0 DEF JobArm, QueueState
  <2>4. /\ hid'.confirmed = {} /\ hid'.expected = wq.mask
        /\ hid'.timer <=> wq.mask # {}
        /\ hid'.pending = hid.pending /\ hid'.job = hid.job /\ hid'.flag = hid.flag /\ hid'.seq = hid.seq
    BY <2>1, <2>2, <1>0, ArmedFacts
  <2>5. Working'
    BY <2>1, <2>2, <2>3, <2>4 DEF Working
  <2>6. Timed' /\ JobOwned'
    BY <2>1, <2>2, <2>3, <2>4 DEF Clean, Timed, JobOwned
  <2>7. Counted' /\ Honest'
    BY <2>1, <2>2, <2>4 DEF Clean, Counted, Honest
  <2>8. WomOwned'
    BY <2>1, <2>2 DEF Clean, WomOwned
  <2>9. QED
    BY <2>5, <2>6, <2>7, <2>8 DEF Clean
<1>3. CASE JobFinish
  <2>1. /\ win.pc = "none" /\ wq.pc = "finish" /\ win' = win /\ log' = log
        /\ slot' = slot /\ wom' = wom /\ hid' = [hid EXCEPT !.pending = FALSE]
        /\ wq' = [wq EXCEPT !.pc = IF hid.pending THEN "tail" ELSE "idle"]
    BY <1>3 DEF JobFinish
  <2>2. /\ hid.pending /\ hid.job = "all" /\ ~hid.timer /\ hid.expected = {} /\ ~wq.queued
        /\ log.status = "started" /\ hid.seq = log.n /\ wq.status # "ok"
    BY <2>1 DEF Clean, Working, Counted
  <2>3. wq'.pc = "tail" /\ ~wq'.queued /\ wq'.status = wq.status
    BY <2>1, <2>2, <1>0 DEF QueueState
  <2>4. ~hid'.pending /\ ~hid'.timer /\ hid'.seq = hid.seq /\ hid'.flag = hid.flag
    BY <2>1, <2>2, <1>0 DEF HidState
  <2>5. Timed' /\ Working' /\ JobOwned' /\ Counted'
    BY <2>1, <2>2, <2>3, <2>4 DEF Timed, Working, JobOwned, Counted
  <2>6. Honest' /\ WomOwned'
    BY <2>1, <2>2, <2>4 DEF Clean, Honest, WomOwned
  <2>7. QED
    BY <2>5, <2>6 DEF Clean
<1>4. CASE JobTail
  <2>1. /\ win.pc = "none" /\ wq.pc = "tail" /\ win' = win /\ log' = Answered(hid.seq, wq.status)
        /\ slot' = slot /\ wom' = wom /\ hid' = [hid EXCEPT !.timer = FALSE, !.job = "none"]
        /\ wq' = [wq EXCEPT !.pc = "idle"]
    BY <1>4 DEF JobTail, FinishLog
  <2>2. /\ ~hid.pending /\ ~wq.queued /\ log.status = "started" /\ hid.seq = log.n /\ wq.status # "ok"
    BY <2>1 DEF Clean, Working
  <2>3. wq'.pc = "idle" /\ ~wq'.queued
    BY <2>1, <2>2, <1>0 DEF QueueState
  <2>4. ~hid'.pending /\ ~hid'.timer /\ hid'.job = "none"
    BY <2>1, <2>2, <1>0 DEF HidState
  <2>5. log'.status = wq.status /\ log'.twice = log.twice
    BY <2>1, <2>2, <1>0, AnsweredFacts
  <2>6. Timed' /\ Working' /\ JobOwned' /\ Counted'
    BY <2>1, <2>2, <2>3, <2>4 DEF Timed, Working, JobOwned, Counted
  <2>7. Honest' /\ WomOwned'
    BY <2>1, <2>2, <2>5 DEF Clean, Honest, WomOwned
  <2>8. QED
    BY <2>6, <2>7 DEF Clean
<1>5. ASSUME NEW mask \in SUBSET Trackers, JobPublish(mask)
      PROVE  Clean'
  <2>1. /\ win.pc = "none" /\ wq.pc = "all" /\ win' = win /\ slot' = Queued(mask, wq.f)
        /\ log' = [log EXCEPT !.want = mask] /\ hid' = hid /\ wom' = wom
        /\ wq' = [wq EXCEPT !.pc = "arm", !.mask = mask] /\ wq.f \in Flags /\ wq.f \in Cmds
    BY <1>5 DEF JobPublish, Flagged, Cmds
  <2>2. /\ hid.pending /\ hid.job = "all" /\ ~hid.timer /\ hid.expected = {} /\ ~wq.queued
        /\ log.status = "started"
    BY <2>1 DEF Clean, Working, Counted
  <2>3. wq'.pc = "arm" /\ ~wq'.queued /\ wq'.mask = mask
    BY <2>1, <2>2, <1>0 DEF QueueState
  <2>4. /\ log'.want = mask /\ log'.status = log.status /\ log'.twice = log.twice
        /\ log'.heard = log.heard /\ log'.n = log.n
    BY <2>1, <1>0 DEF LogState
  <2>5. \A t \in Trackers : slot'[t].cmd = IF t \in mask THEN wq.f ELSE slot[t].cmd
    <3>1. SlotType /\ wq.f \in Cmds
      BY <2>1, <1>0
    <3> DEFINE f == wq.f
    <3>2. f \in Cmds /\ slot' = Queued(mask, f)
      BY <3>1, <2>1
    <3> HIDE DEF f
    <3>3. \A t \in Trackers : slot'[t].cmd = IF t \in mask THEN f ELSE slot[t].cmd
      BY <3>1, <3>2, QueuedFacts
    <3>4. QED
      BY <3>3 DEF f
  <2>6. Timed' /\ Working' /\ JobOwned'
    BY <2>1, <2>2, <2>3, <2>4 DEF Clean, Timed, Working, JobOwned
  <2>7. Counted' /\ Honest'
    BY <2>1, <2>2, <2>4 DEF Clean, Counted, Honest
  <2>8. WomOwned'
    BY <2>1, <2>2, <2>5, <1>0 DEF Clean, WomOwned
  <2>9. QED
    BY <2>6, <2>7, <2>8 DEF Clean
<1>6. ASSUME NEW mask \in SUBSET Trackers, JobWom(mask)
      PROVE  Clean'
  <2>1. /\ win.pc = "none" /\ wq.pc = "wom" /\ win' = win /\ slot' = WomQueued(mask) /\ log' = log
        /\ wom' = [wom EXCEPT !.token = IF mask = {} THEN 0 ELSE NextToken]
        /\ hid' = [hid EXCEPT !.expected = mask, !.timer = TRUE]
        /\ wq' = [wq EXCEPT !.pc = "idle"]
    BY <1>6 DEF JobWom
  <2>2. /\ hid.pending /\ hid.job = "wom" /\ ~hid.timer /\ hid.expected = {} /\ ~wq.queued
        /\ log.status = "started" /\ hid.flag = "wom" /\ hid.seq = log.n
    BY <2>1 DEF Clean, Working, Counted, JobOwned
  <2>3. wq'.pc = "idle" /\ ~wq'.queued
    BY <2>1, <2>2, <1>0 DEF QueueState
  <2>4. /\ hid'.pending /\ hid'.timer /\ hid'.job = "wom" /\ hid'.flag = "wom" /\ hid'.expected = mask
        /\ hid'.seq = hid.seq
    BY <2>1, <2>2, <1>0 DEF HidState
  <2>5. /\ \A t \in mask : slot'[t].cmd = "wom" /\ slot'[t].w.tok = NextToken
        /\ \A t \in Trackers \ mask : slot'[t] = slot[t]
    BY <2>1, <1>0, WomQueuedFacts
  <2>6. mask # {} => wom'.token = NextToken
    BY <2>1, <1>0
  <2>7. Timed' /\ Working' /\ JobOwned'
    BY <2>1, <2>2, <2>3, <2>4 DEF Timed, Working, JobOwned
  <2>8. Counted' /\ Honest'
    BY <2>1, <2>2, <2>4 DEF Clean, Counted, Honest
  <2>9. \A t \in Trackers : slot[t].cmd # "wom"
    BY <2>2 DEF Clean, WomOwned
  <2>10. WomOwned'
    BY <2>4, <2>5, <2>6, <2>9 DEF WomOwned
  <2>11. QED
    BY <2>7, <2>8, <2>10 DEF Clean
<1>7. QED
  BY <1>1, <1>2, <1>3, <1>4, <1>5, <1>6 DEF Jobs

----------------------------------------------------------------------------
(* The timeout, PINGs and the rest *)

\* remote_hid_timeout_handler for a command without a token.
LEMMA TimeoutClean ==
  ASSUME Types, Clean, Timeout
  PROVE  Clean'
<1>0. hid \in HidState /\ log \in LogState /\ wq \in QueueState
  BY DEF Types, RequestType, WorkType
<1>1. hid.timer /\ win.pc = "none" /\ slot' = slot /\ wq' = wq /\ win' = win /\ hid.pending
  BY DEF Timeout, Clean, Timed
<1>2. hid.job # "wom" /\ hid' = Finished(hid) /\ log' = FinishLog(hid, "enoent")
  BY <1>1 DEF Timeout
<1>3. ~wq.queued /\ wq.pc = "idle" /\ hid.seq = log.n
  BY <1>0, <1>1 DEF Clean, Working, Counted, QueueState
<1>4. ~hid'.pending /\ ~hid'.timer /\ hid'.job = "none" /\ hid'.flag = hid.flag
  BY <1>0, <1>2, FinishedFacts
<1>5. log' = Answered(log.n, "enoent") /\ "enoent" \in Answers
  BY <1>2, <1>3 DEF FinishLog, Answers
<1>6. \A t \in Trackers : slot[t].cmd # "wom"
  BY <1>2 DEF Clean, WomOwned
<1>7. QED
  BY <1>1, <1>3, <1>4, <1>5, <1>6, OverClean

\* remote_wom_poll.
LEMMA WomPollClean ==
  ASSUME Types, Clean, NEW e \in BOOLEAN, WomPoll(e)
  PROVE  Clean'
<1>0. hid \in HidState /\ log \in LogState /\ wq \in QueueState /\ SlotType /\ hid.expected \in SUBSET Trackers
  BY DEF Types, RequestType, WorkType, HidState
<1>1. hid.timer /\ win.pc = "none" /\ hid.pending /\ hid.job = "wom"
  BY DEF WomPoll
<1>2. ~wq.queued /\ wq.pc = "idle" /\ hid.seq = log.n /\ hid.flag = "wom" /\ log.status = "started"
  BY <1>0, <1>1 DEF Clean, Working, Counted, JobOwned, QueueState
<1>3. PICK over \in BOOLEAN :
         /\ hid' \in HidState /\ hid'.flag = hid.flag /\ hid'.seq = hid.seq /\ hid'.expected = hid.expected
         /\ wom'.token = wom.token
         /\ win' = win /\ wq' = wq /\ tok' = tok /\ trk' = trk
         /\ over => /\ ~hid'.pending /\ ~hid'.timer /\ hid'.job = "none"
                    /\ slot' = Cancelled(hid.expected)
                    /\ \E s \in {"enoent", "ok"} : log' = Answered(hid.seq, s)
         /\ ~over => /\ hid'.pending = hid.pending /\ hid'.timer = hid.timer /\ hid'.job = hid.job
                     /\ log' = log
                     /\ \A t \in Trackers :
                          \/ slot'[t] = slot[t]
                          \/ /\ slot[t].cmd # "wom" /\ slot'[t].cmd = slot[t].cmd
                             /\ slot'[t].w.done /\ slot'[t].w.err
  BY WomPollFacts
<1>4. CASE over
  <2>1. PICK s \in {"enoent", "ok"} : log' = Answered(log.n, s)
    BY <1>2, <1>3, <1>4
  <2>2. s \in Answers
    BY DEF Answers
  <2>3. \A t \in Trackers :
           \/ slot'[t] = slot[t] /\ ~(t \in hid.expected /\ slot[t].w.tok = wom.token)
           \/ slot'[t].cmd # "wom"
    BY <1>0, <1>3, <1>4, CancelledFacts
  <2>4. \A t \in Trackers : slot'[t].cmd # "wom"
    BY <2>3 DEF Clean, WomOwned
  <2>5. QED
    BY <2>1, <2>2, <2>4, <1>1, <1>2, <1>3, <1>4, OverClean
<1>5. CASE ~over
  <2>1. Timed' /\ Working' /\ JobOwned' /\ Counted'
    BY <1>1, <1>2, <1>3, <1>5 DEF Timed, Working, JobOwned, Counted
  <2>2. Honest'
    BY <1>2, <1>3, <1>5 DEF Clean, Honest
  <2>3. WomOwned'
    BY <1>3, <1>5 DEF Clean, WomOwned
  <2>4. QED
    BY <2>1, <2>2, <2>3 DEF Clean
<1>6. QED
  BY <1>4, <1>5

\* A PING: only an echo that the pending request waits for ends it.
LEMMA PingClean ==
  ASSUME Types, Clean, NEW t \in Trackers, NEW new \in BOOLEAN, NEW over \in BOOLEAN, NEW lost \in BOOLEAN,
         Ping(t, new, over, lost), ~log'.torn
  PROVE  Clean'
<1>0. hid \in HidState /\ log \in LogState /\ wq \in QueueState /\ SlotType /\ "wom" \notin Flags
  BY RemoteConstants DEF Types, RequestType, WorkType
<1>1. wom' = wom /\ win' = win /\ wq' = wq
  BY DEF Ping
<1>2. PICK s \in SlotState, r \in TrackerState :
         /\ slot' = [slot EXCEPT ![t] = s]
         /\ s.cmd \in {slot[t].cmd, "normal"} /\ s.w.tok = slot[t].w.tok
  BY PingSlot
<1>3. \A u \in Trackers : slot'[u].cmd = "wom" => slot[u].cmd = "wom" /\ slot'[u].w.tok = slot[u].w.tok
  BY <1>0, <1>2 DEF SlotType
<1>4. PICK counts, ends \in BOOLEAN :
         /\ counts => hid.pending /\ t \in hid.expected /\ hid.flag \in Flags
         /\ hid'.expected = hid.expected /\ hid'.flag = hid.flag /\ hid'.seq = hid.seq
         /\ hid'.confirmed = IF counts THEN hid.confirmed \cup {t} ELSE hid.confirmed
         /\ log'.n = log.n /\ log'.want = log.want
         /\ log'.torn = (log.torn \/ (ends /\ win.pc = "begun"))
         /\ log.heard \subseteq log'.heard /\ (counts => t \in log'.heard)
         /\ ends => /\ counts /\ hid.expected \subseteq hid'.confirmed
                    /\ ~hid'.pending /\ ~hid'.timer /\ hid'.job = "none"
                    /\ hid.seq = log.n /\ log.status = "started" =>
                         log'.status = "ok" /\ log'.twice = log.twice
         /\ ~ends => /\ hid'.pending = hid.pending /\ hid'.timer = hid.timer /\ hid'.job = hid.job
                     /\ log'.status = log.status /\ log'.twice = log.twice
  BY PingRequest
<1>5. CASE ends
  <2>1. /\ hid.pending /\ t \in hid.expected /\ hid.flag # "wom" /\ win.pc # "begun"
    BY <1>0, <1>4, <1>5
  <2>2. /\ ~wq.queued /\ wq.pc = "idle" /\ hid.seq = log.n /\ log.status = "started" /\ hid.job # "wom"
        /\ win.pc # "reset" /\ hid.confirmed \subseteq log.heard /\ hid.expected = log.want
    BY <2>1, <1>0 DEF Clean, Timed, Working, Counted, JobOwned, QueueState
  <2>3. log'.status = "ok" /\ log'.twice = log.twice
    BY <2>2, <1>4, <1>5
  <2>4. log'.want # {} /\ log'.want \subseteq log'.heard
    BY <2>1, <2>2, <1>4, <1>5
  <2>5. Timed' /\ Working' /\ JobOwned' /\ Counted'
    BY <2>1, <2>2, <1>1, <1>4, <1>5 DEF Clean, Timed, Working, JobOwned, Counted
  <2>6. Honest'
    BY <2>3, <2>4 DEF Clean, Honest
  <2>7. WomOwned'
    BY <2>2, <1>3 DEF Clean, WomOwned
  <2>8. QED
    BY <2>5, <2>6, <2>7 DEF Clean
<1>6. CASE ~ends
  <2>1. /\ hid'.pending = hid.pending /\ hid'.timer = hid.timer /\ hid'.job = hid.job
        /\ log'.status = log.status /\ log'.twice = log.twice
    BY <1>4, <1>6
  <2>2. Timed' /\ Working' /\ JobOwned'
    BY <2>1, <1>1, <1>4 DEF Clean, Timed, Working, JobOwned
  <2>3. Counted'
    BY <2>1, <1>1, <1>4 DEF Clean, Counted
  <2>4. Honest'
    BY <2>1, <1>4 DEF Clean, Honest
  <2>5. WomOwned'
    BY <2>1, <1>1, <1>3, <1>4 DEF Clean, WomOwned
  <2>6. QED
    BY <2>2, <2>3, <2>4, <2>5 DEF Clean
<1>7. QED
  BY <1>5, <1>6

\* The receiver is in order after a restart, and at the start.
LEMMA StartClean ==
  ASSUME hid = NoRequest, win = NoWindow, wq = IdleQueue, slot = [t \in Trackers |-> NewSlot],
         log.status = "none", ~log.twice
  PROVE  Clean
<1>1. /\ ~hid.pending /\ ~hid.timer /\ hid.job = "none" /\ win.pc = "none" /\ ~wq.queued /\ wq.pc = "idle"
  BY DEF NoRequest, NoWindow, IdleQueue
<1>2. \A t \in Trackers : slot[t].cmd # "wom"
  BY DEF NewSlot
<1>3. QED
  BY <1>1, <1>2 DEF Clean, Timed, Working, JobOwned, Counted, Honest, WomOwned

\* Every step keeps requests in order, as long as none is torn.
LEMMA NextOrderly ==
  ASSUME Types, Kinded, Flagged, Orderly, [Next]_vars
  PROVE  Orderly'
<1> SUFFICES ASSUME ~log'.torn
             PROVE  Clean'
  BY DEF Orderly
<1>0. log \in LogState /\ SlotType /\ "wom" \notin Flags
  BY RemoteConstants DEF Types, WorkType
<1>1. CASE Reboot
  <2>1. /\ hid' = NoRequest /\ win' = NoWindow /\ wq' = IdleQueue /\ slot' = [t \in Trackers |-> NewSlot]
        /\ log' = [NoLog EXCEPT !.n = log.n]
    BY <1>1 DEF Reboot
  <2>2. log'.status = "none" /\ ~log'.twice
    BY <2>1 DEF NoLog
  <2>3. /\ ~(hid'.pending) /\ ~hid'.timer /\ hid'.job = "none" /\ win'.pc = "none" /\ ~wq'.queued
        /\ wq'.pc = "idle"
    BY <2>1 DEF NoRequest, NoWindow, IdleQueue
  <2>4. \A t \in Trackers : slot'[t].cmd # "wom"
    BY <2>1 DEF NewSlot
  <2>5. QED
    BY <2>2, <2>3, <2>4 DEF Clean, Timed, Working, JobOwned, Counted, Honest, WomOwned
<1>2. ASSUME ~log.torn
      PROVE  Clean
  BY <1>2 DEF Orderly
<1>3. CASE Request
  <2>1. PICK kind \in Kinds, T \in SUBSET Trackers, f \in Cmds : Begin(kind, T, f)
    BY <1>3, RequestKinds
  <2>2. ~log.torn
    BY <2>1, <1>0 DEF Begin, LogState
  <2>3. QED
    BY <2>1, <2>2, <1>2, BeginClean
<1>4. CASE System
  <2>1. CASE BeginReset
    <3>1. log' = log
      BY <2>1 DEF BeginReset
    <3>2. QED
      BY <3>1, <2>1, <1>2, BeginResetClean
  <2>2. CASE Arm
    <3> DEFINE h == Armed(win.T)
    <3>1. log' \in {log, [log EXCEPT !.want = win.T], Answered(h.seq, "enoent")}
      BY <2>2 DEF Arm, FinishLog
    <3> HIDE DEF h
    <3>2. ~Answered(h.seq, "enoent").torn => ~log.torn
      BY <1>0, AnsweredFacts DEF Answers
    <3>3. ~log.torn
      BY <3>1, <3>2, <1>0 DEF LogState
    <3>4. QED
      BY <3>3, <2>2, <1>2, ArmClean
  <2>3. CASE Send
    <3>1. log' = log \/ log' = Answered(log.n, "refused")
      BY <2>3 DEF Send, AbortLog
    <3>2. ~log.torn
      BY <3>1, <1>0, AnsweredFacts DEF Answers
    <3>3. QED
      BY <3>2, <2>3, <1>2, SendClean
  <2>4. CASE SendWom
    <3>1. log' = log \/ log' = Answered(log.n, "refused")
      BY <2>4 DEF SendWom, AbortLog
    <3>2. ~log.torn
      BY <3>1, <1>0, AnsweredFacts DEF Answers
    <3>3. QED
      BY <3>2, <2>4, <1>2, SendWomClean
  <2>5. QED
    BY <1>4, <2>1, <2>2, <2>3, <2>4 DEF System
<1>5. CASE Jobs
  <2>1. \/ log' = log \/ log' = Answered(hid.seq, wq.status)
        \/ \E mask \in SUBSET Trackers : log' = [log EXCEPT !.want = mask]
    BY <1>5 DEF Jobs, JobStart, JobArm, JobFinish, JobTail, JobPublish, JobWom, FinishLog
  <2>2. wq.status \in Answers
    BY DEF Types, WorkType, QueueState
  <2>3. ~log.torn
    BY <2>1, <2>2, <1>0, AnsweredFacts DEF LogState
  <2>4. QED
    BY <2>3, <1>2, <1>5, JobsClean
<1>6. CASE Timeout
  <2>1. log' = log \/ log' = Answered(hid.seq, "enoent")
    BY <1>6 DEF Timeout, FinishLog
  <2>2. ~log.torn
    BY <2>1, <1>0, AnsweredFacts DEF Answers
  <2>3. QED
    BY <2>2, <1>2, <1>6, TimeoutClean
<1>7. ASSUME NEW e \in BOOLEAN, WomPoll(e)
      PROVE  Clean'
  <2>1. log' = log \/ \E s \in {"enoent", "ok"} : log' = Answered(hid.seq, s)
    BY <1>7, WomPollFacts
  <2>2. ~log.torn
    BY <2>1, <1>0, AnsweredFacts DEF Answers
  <2>3. QED
    BY <2>2, <1>2, <1>7, WomPollClean
<1>8. ASSUME NEW t \in Trackers, NEW new \in BOOLEAN, NEW over \in BOOLEAN, NEW lost \in BOOLEAN,
             Ping(t, new, over, lost)
      PROVE  Clean'
  <2>1. \E ends \in BOOLEAN : log'.torn = (log.torn \/ (ends /\ win.pc = "begun"))
    BY <1>8, PingRequest
  <2>2. ~log.torn
    BY <2>1
  <2>3. QED
    BY <2>2, <1>2, <1>8, PingClean
<1>9. ASSUME NEW T \in ConsoleTargets, NEW f \in Flags, ConsoleSend(T, f)
      PROVE  Clean'
  <2>1. /\ T \in SUBSET Trackers /\ f \in Cmds /\ slot' = Queued(T, f) /\ hid' = hid /\ wom' = wom
        /\ win' = win /\ wq' = wq /\ log' = log
    BY <1>9 DEF ConsoleSend, ConsoleTargets, Cmds
  <2>2. \A t \in Trackers : /\ slot'[t].w = slot[t].w
                            /\ slot'[t].cmd = IF t \in T THEN f ELSE slot[t].cmd
    <3>1. T \in SUBSET Trackers /\ f \in Cmds /\ slot' = Queued(T, f)
      BY <2>1
    <3>2. \A t \in Trackers : /\ Queued(T, f)[t].w = slot[t].w
                              /\ Queued(T, f)[t].cmd = IF t \in T THEN f ELSE slot[t].cmd
      BY <3>1, <1>0, QueuedFacts
    <3>3. QED
      BY <3>1, <3>2
  <2>3. WomOwned'
    BY <2>1, <2>2, <1>0, <1>2 DEF Clean, WomOwned
  <2>4. Timed' /\ Working' /\ JobOwned' /\ Counted' /\ Honest'
    BY <2>1, <1>2 DEF Clean, Timed, Working, JobOwned, Counted, Honest
  <2>5. QED
    BY <2>3, <2>4 DEF Clean
<1>10. CASE (\E t \in Trackers : TrackerRestarts(t)) \/ UNCHANGED vars
  <2>1. hid' = hid /\ wom' = wom /\ win' = win /\ wq' = wq /\ slot' = slot /\ log' = log
    BY <1>10 DEF TrackerRestarts, vars
  <2>2. QED
    BY <2>1, <1>2 DEF Clean, Timed, Working, JobOwned, Counted, Honest, WomOwned
<1>11. QED
  BY <1>1, <1>3, <1>4, <1>5, <1>6, <1>7, <1>8, <1>9, <1>10 DEF Next

----------------------------------------------------------------------------
(* The theorems *)

\* The receiver starts in order.
LEMMA InitInv == Init => IInv
<1> SUFFICES ASSUME Init
             PROVE  IInv
  OBVIOUS
<1>1. Types
  <2>1. slot \in [Trackers -> SlotState] /\ trk \in [Trackers -> TrackerState]
    BY StartTypes DEF Init
  <2>2. wom \in [token : 0..MaxTok, failed : SUBSET Trackers]
    BY StartTypes DEF Init
  <2>3. QED
    BY <2>1, <2>2, StartTypes DEF Init, Types, RequestType, WorkType, SlotType, TrkType
<1>2. Kinded /\ Flagged
  BY DEF Init, Kinded, Flagged, NoWindow, NoRequest, IdleQueue
<1>3. Reported /\ WomTruthful
  BY DEF Init, Reported, WomTruthful, NewSlot, NoWom
<1>4. Clean
  <2>1. log.status = "none" /\ ~log.twice
    BY DEF Init, NoLog
  <2>2. QED
    BY <2>1, StartClean DEF Init
<1>5. QED
  BY <1>1, <1>2, <1>3, <1>4 DEF IInv, Orderly

\* The invariant is inductive.
LEMMA Invariance == Spec => []IInv
<1>1. IInv /\ [Next]_vars => IInv'
  BY NextTypes, NextFlagged, NextTruth, NextOrderly DEF IInv
<1>2. QED
  BY <1>1, InitInv, PTL DEF Spec

\* WOM commands are told to trackers only for a pending request and are reported as
\* executed only when this very command was, across wraps of the token and restarts
\* of the receiver (remote_wom_receive, remote_wom_poll, esb_ack_handler_cb).
THEOREM WomIsSound == Spec => []WomSound
<1>1. IInv => WomSound
  <2> SUFFICES ASSUME IInv
               PROVE  WomSound
    OBVIOUS
  <2>1. TypeOK
    BY DEF IInv, Types, RequestType, WorkType, SlotType, TypeOK, HidState, WinState, QueueState, SlotState,
           WomState
  <2>2. NoOrphanWom
    BY DEF IInv, Orderly, Clean, WomOwned, NoOrphanWom
  <2>3. QED
    BY <2>1, <2>2 DEF IInv, WomSound
<1>2. QED
  BY <1>1, Invariance, PTL

\* A request is answered once, and with OK only when all the trackers it is for have
\* confirmed it since it began (remote_hid_finish, on_remote_confirm).
THEOREM CompletionIsHonest == Spec => []HonestCompletion
<1>1. IInv => HonestCompletion
  BY DEF IInv, Orderly, Clean, Honest, HonestCompletion
<1>2. QED
  BY <1>1, Invariance, PTL

=============================================================================
