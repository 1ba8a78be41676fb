------------------------------- MODULE TestAll -------------------------------
(***************************************************************************)
(* The sticky test mode (esb.c, test_all): "send all test on <rate>" holds *)
(* for the trackers that are active now and for those that come later.     *)
(* A command for all trackers listens for a second and then publishes; a   *)
(* command for one tracker in the meantime supersedes it.  The rate is     *)
(* clamped to the capacity of the TDMA layout; each layout change clamps   *)
(* again.  The statistics thread queues the test command for every active  *)
(* tracker that has not confirmed the policy.                              *)
(*                                                                         *)
(* The critical sections of the code (irq_lock) are the steps.             *)
(***************************************************************************)
EXTENDS Integers, FiniteSets

CONSTANTS
  Trackers,   \* trackers that are followed
  Others,     \* more trackers: only their places in the layout count
  Rates,      \* rates that a user may ask for; 0 is the default
  Caps,       \* capacities of layouts
  Default,    \* the rate that 0 stands for
  MaxCmds,    \* bound: commands of users
  MaxLayouts, \* bound: changes of the layout
  MaxFaults   \* bound: restarts and silences of trackers

ASSUME TestAllConstants ==
  /\ IsFiniteSet(Trackers) /\ IsFiniteSet(Others) /\ Rates \subseteq Nat /\ Caps \subseteq Nat \ {0} /\ Default \in Nat \ {0}
  /\ MaxCmds \in Nat /\ MaxLayouts \in Nat /\ MaxFaults \in Nat

VARIABLES
  pol,      \* test_all_*: valid, enabled, broadcasting, confirmed, requested, effective
  cast,     \* the command for all trackers that is under way
  slot,     \* tracker_remote_command, tracker_test_on_tps and the grace of each tracker
  layout,   \* tdma_active_mask, capacity, and what the publisher has still to do
  trk,      \* the trackers: the mode they are in and what their PINGs echo
  spent,    \* how much of the bounds is used
  targeted  \* history: a command for one tracker came after the last one for all

vars == <<pol, cast, slot, layout, trk, spent, targeted>>

Off == 99
Rate == Rates \cup Caps \cup {0, Default}
Smaller(a, b) == IF a < b THEN a ELSE b
Quiet == [flag |-> "normal", tps |-> 0]

\* test_all_requested_value and test_all_wire_tps: 0 stays 0 on the air.
Requested(p) == IF p.requested = 0 THEN Default ELSE p.requested
Wire(p) == IF p.requested = 0 THEN 0 ELSE p.effective
\* test_all_capacity_tps: an empty layout limits nothing.
Limited(rate) == IF layout.active = {} THEN rate ELSE Smaller(rate, layout.cap)

Idle == [pc |-> "idle", on |-> FALSE, tps |-> 0, stale |-> FALSE]

Spend(what) == spent' = [spent EXCEPT ![what] = @ + 1]

----------------------------------------------------------------------------
(* Commands of users.                                                      *)

\* esb_send_remote_command_test_on_all and _off_all up to the end of the scan.
CastStart(on, tps) ==
  /\ cast.pc = "idle" /\ spent.cmds < MaxCmds
  /\ cast' = [pc |-> "scan", on |-> on, tps |-> tps, stale |-> FALSE]
  /\ pol' = [pol EXCEPT !.broadcasting = TRUE]
  /\ targeted' = FALSE
  /\ Spend("cmds")
  /\ UNCHANGED <<slot, layout, trk>>

\* A mistake: publish whatever came in between.
Superseded_Never == FALSE
Superseded == cast.stale

\* The policy that they publish, for rate tps and without one.
PolicyOn(tps) ==
  LET p == [pol EXCEPT !.valid = TRUE, !.enabled = TRUE, !.confirmed = {}, !.requested = tps, !.broadcasting = FALSE]
  IN  [p EXCEPT !.effective = Limited(Requested(p))]
PolicyOff ==
  [pol EXCEPT !.valid = TRUE, !.enabled = FALSE, !.confirmed = {}, !.effective = 0, !.broadcasting = FALSE]

\* esb_publish_test_flag_mask: slots with a command, or in grace, are left alone.
Flagged(s, command) == IF s.cmd = "normal" /\ ~s.grace THEN [s EXCEPT !.cmd = command] ELSE s

\* The critical section at their end, with the trackers that were heard.
CastEnd(mask) ==
  /\ cast.pc = "scan"
  /\ cast' = Idle
  /\ IF Superseded
     THEN /\ pol' = [pol EXCEPT !.broadcasting = FALSE]
          /\ UNCHANGED slot
     ELSE LET q == IF cast.on THEN PolicyOn(cast.tps) ELSE PolicyOff
          IN  /\ pol' = q
              /\ slot' = [t \in Trackers |->
                   LET s == [slot[t] EXCEPT !.tps = IF cast.on THEN Wire(q) ELSE 0]
                   IN  IF t \in mask THEN Flagged(s, IF cast.on THEN "on" ELSE "off") ELSE s]
  /\ UNCHANGED <<layout, trk, spent, targeted>>

\* esb_send_remote_command_test_on and _off: the policy ends.
Target(t, on, tps) ==
  /\ spent.cmds < MaxCmds
  /\ pol' = [pol EXCEPT !.valid = FALSE, !.confirmed = {}, !.broadcasting = FALSE]
  /\ cast' = [cast EXCEPT !.stale = cast.pc = "scan"]
  /\ slot' = [slot EXCEPT ![t].tps = IF on THEN tps ELSE 0, ![t].cmd = IF on THEN "on" ELSE "off"]
  /\ targeted' = TRUE
  /\ Spend("cmds")
  /\ UNCHANGED <<layout, trk>>

\* Any other command takes the slot.
OtherCommand(t) ==
  /\ spent.cmds < MaxCmds
  /\ slot' = [slot EXCEPT ![t].cmd = "other"]
  /\ Spend("cmds")
  /\ UNCHANGED <<pol, cast, layout, trk, targeted>>

----------------------------------------------------------------------------
(* The statistics thread.                                                  *)

\* tdma_recalculate publishes a layout ...
Publish(active, cap) ==
  /\ layout.pc = "idle" /\ spent.layouts < MaxLayouts
  /\ <<active, cap>> # <<layout.active, layout.cap>>
  /\ layout' = [active |-> active, cap |-> cap, pc |-> IF active = {} THEN "idle" ELSE "note",
                joined |-> active \ layout.active]   \* empty when active is
  /\ Spend("layouts")
  /\ UNCHANGED <<pol, cast, slot, trk, targeted>>

Joined(c) == c \ layout.joined

\* ... test_all_note_layout: trackers that joined must confirm again ...
NoteLayout ==
  /\ layout.pc = "note"
  /\ layout' = [layout EXCEPT !.pc = "clamp"]
  /\ IF pol.valid
     THEN /\ pol' = [pol EXCEPT !.confirmed = Joined(@)]
          /\ slot' = [t \in Trackers |->
                        IF t \in layout.joined
                        THEN [slot[t] EXCEPT !.tps = IF pol.enabled THEN Wire(pol) ELSE @, !.grace = TRUE]
                        ELSE slot[t]]
     ELSE UNCHANGED <<pol, slot>>
  /\ UNCHANGED <<cast, trk, spent, targeted>>

\* A mistake: clamp downwards only.
Clamp_DownOnly == Smaller(pol.effective, layout.cap)
\* ... test_all_update_effective: and so must all of them when the rate changes.
Clamp == Smaller(Requested(pol), layout.cap)

UpdateEffective ==
  /\ layout.pc = "clamp"
  /\ layout' = [layout EXCEPT !.pc = "idle", !.joined = {}]
  /\ IF pol.valid /\ pol.enabled /\ Clamp # pol.effective
     THEN LET q == [pol EXCEPT !.effective = Clamp, !.confirmed = @ \ layout.active]
          IN  /\ pol' = q
              /\ slot' = [t \in Trackers |->
                            IF t \in layout.active THEN [slot[t] EXCEPT !.tps = Wire(q), !.grace = TRUE]
                            ELSE slot[t]]
     ELSE UNCHANGED <<pol, slot>>
  /\ UNCHANGED <<cast, trk, spent, targeted>>

\* Whom test_all_reconcile sends the test command.
Unconverged ==
  {t \in (Trackers \cap layout.active) \ pol.confirmed : ~slot[t].grace /\ slot[t].cmd = "normal"}

Reconcile ==
  /\ layout.pc = "idle" /\ pol.valid /\ ~pol.broadcasting /\ Unconverged # {}
  /\ slot' = [t \in Trackers |->
                IF t \in Unconverged
                THEN [slot[t] EXCEPT !.tps = IF pol.enabled THEN Wire(pol) ELSE @,
                                     !.cmd = IF pol.enabled THEN "on" ELSE "off"]
                ELSE slot[t]]
  /\ UNCHANGED <<pol, cast, layout, trk, spent, targeted>>

\* Time: the grace after a join, a change of the rate or a restart is over.
GraceEnds(t) ==
  /\ slot[t].grace
  /\ slot' = [slot EXCEPT ![t].grace = FALSE]
  /\ UNCHANGED <<pol, cast, layout, trk, spent, targeted>>

----------------------------------------------------------------------------
(* A PING of tracker t, with the answer that it may receive.               *)

\* test_all_invalidate_tracker, for a restart or a silence that the counter or
\* the time of the PING shows.
Recovered(s) == [s EXCEPT !.cmd = IF @ \in {"on", "off"} THEN "normal" ELSE @, !.grace = TRUE]

\* esb_receive_ping: the echo is that of the command in the slot.
Matches(s, e) == s.cmd = e.flag /\ s.cmd # "normal" /\ (e.flag = "on" => e.tps = s.tps)

\* ... and whether it confirms the policy.  A mistake: compare with the number
\* behind the default.
Converged_Effective(e) ==
  \/ e.flag = "off" /\ ~pol.enabled
  \/ e.flag = "on" /\ pol.enabled /\ e.tps = pol.effective
Converged(e) ==
  \/ e.flag = "off" /\ ~pol.enabled
  \/ e.flag = "on" /\ pol.enabled /\ e.tps = Wire(pol)

\* What the answer does to the tracker, unless it is lost.
Obeyed(k, s, lost) ==
  IF lost THEN k
  ELSE [k EXCEPT !.mode = CASE s.cmd = "on" -> s.tps [] s.cmd = "off" -> Off [] OTHER -> @,
                 !.echo = IF s.cmd = "normal" THEN Quiet ELSE [flag |-> s.cmd, tps |-> s.tps]]

\* What is still odd about a tracker after a PING that showed it, or did not.
Noticed(odd, seen) == IF seen THEN "no" ELSE IF odd = "restart" THEN "missed" ELSE odd

\* esb_receive_ping; seen: the restart or the silence shows in the PING.
Ping(t, seen, lost) ==
  /\ seen <=> trk[t].odd = "gap" \/ (seen /\ trk[t].odd \in {"restart", "missed"})
  /\ LET e == trk[t].echo
         back == seen /\ pol.valid
         s == IF back THEN Recovered(slot[t]) ELSE slot[t]
         ok == Matches(s, e)
         conf == IF back THEN pol.confirmed \ {t} ELSE pol.confirmed
     IN  /\ slot' = [slot EXCEPT ![t] = IF ok THEN [s EXCEPT !.cmd = "normal"] ELSE s]
         /\ pol' = [pol EXCEPT !.confirmed = IF ok /\ pol.valid /\ Converged(e) THEN conf \cup {t} ELSE conf]
  /\ trk' = [trk EXCEPT ![t] = [Obeyed(trk[t], slot[t], lost) EXCEPT !.odd = Noticed(@, seen)]]
  /\ UNCHANGED <<cast, layout, spent, targeted>>

\* The same PING again, or a late one: it is answered, and that is all.
RepeatedPing(t) ==
  /\ trk' = [trk EXCEPT ![t] = Obeyed(@, slot[t], FALSE)]
  /\ UNCHANGED <<pol, cast, slot, layout, spent, targeted>>

\* A tracker restarts, in normal mode, or is silent for more than PING_TIMEOUT_MS.
Fault(t, what) ==
  /\ spent.faults < MaxFaults
  /\ trk' = [trk EXCEPT ![t] = IF what = "restart" THEN [mode |-> Off, echo |-> Quiet, odd |-> "restart"]
                               ELSE IF @.odd = "no" THEN [@ EXCEPT !.odd = "gap"] ELSE @]
  /\ Spend("faults")
  /\ UNCHANGED <<pol, cast, slot, layout, targeted>>

----------------------------------------------------------------------------

Init ==
  /\ pol = [valid |-> FALSE, enabled |-> FALSE, broadcasting |-> FALSE, confirmed |-> {},
            requested |-> 0, effective |-> 0]
  /\ cast = Idle
  /\ slot = [t \in Trackers |-> [cmd |-> "normal", tps |-> 0, grace |-> FALSE]]
  /\ \E cap \in Caps, active \in SUBSET (Trackers \cup Others) :
       layout = [active |-> active, cap |-> cap, pc |-> "idle", joined |-> {}]
  /\ trk = [t \in Trackers |-> [mode |-> Off, echo |-> Quiet, odd |-> "no"]]
  /\ spent = [cmds |-> 0, layouts |-> 0, faults |-> 0]
  /\ targeted = FALSE

User ==
  \/ \E tps \in Rates : CastStart(TRUE, tps)
  \/ CastStart(FALSE, 0)
  \/ \E t \in Trackers : Target(t, FALSE, 0) \/ OtherCommand(t) \/ \E tps \in Rates : Target(t, TRUE, tps)

StatsThread ==
  \/ NoteLayout \/ UpdateEffective \/ Reconcile
  \/ \E active \in SUBSET (Trackers \cup Others), cap \in Caps : Publish(active, cap)

Next ==
  \/ User \/ (\E mask \in SUBSET Trackers : CastEnd(mask)) \/ StatsThread
  \/ \E t \in Trackers :
       \/ GraceEnds(t) \/ RepeatedPing(t) \/ (\E seen, lost \in BOOLEAN : Ping(t, seen, lost))
       \/ \E what \in {"restart", "gap"} : Fault(t, what)

\* A tracker's PING is answered again and again, the threads run, time passes.
Fairness ==
  /\ WF_vars(\E mask \in SUBSET Trackers : CastEnd(mask))
  /\ WF_vars(NoteLayout \/ UpdateEffective) /\ WF_vars(Reconcile)
  /\ \A t \in Trackers : WF_vars(GraceEnds(t)) /\ WF_vars(\E seen \in BOOLEAN : Ping(t, seen, FALSE))

Spec == Init /\ [][Next]_vars /\ Fairness

----------------------------------------------------------------------------
(* Properties.                                                             *)

\* Type correctness; an enabled policy always has a rate.
TypeOK ==
  /\ pol.valid /\ pol.enabled => pol.effective > 0
  /\ pol \in [valid : BOOLEAN, enabled : BOOLEAN, broadcasting : BOOLEAN, confirmed : SUBSET Trackers,
              requested : Rates \cup {0}, effective : Rate]
  /\ slot \in [Trackers -> [cmd : {"normal", "on", "off", "other"}, tps : Rate, grace : BOOLEAN]]
  /\ layout.active \subseteq Trackers \cup Others /\ layout.pc \in {"idle", "note", "clamp"}
  /\ \A t \in Trackers : trk[t].mode \in Rate \cup {Off}

\* A command for one tracker ends the policy for all: no policy is in force that
\* was asked for before the last command for one tracker, also when that came while
\* the receiver listened for active trackers.
TargetedWins == pol.valid => ~targeted

\* What the receiver believes is so: an active tracker that counts as converged is
\* in the mode and at the rate of the policy in force, across clamping, leaving and
\* joining, late echoes, restarts that the counter showed, and other commands.
ConvergedIsTrue ==
  \A t \in layout.active \cap pol.confirmed :
    pol.valid /\ layout.pc = "idle" /\ trk[t].odd \notin {"restart", "missed"} =>
      trk[t].mode = IF pol.enabled THEN Wire(pol) ELSE Off

\* Between layout changes, the rate of an enabled policy is the one asked for, cut
\* to what the layout can carry: also raised again when the layout allows it.
RateFits ==
  pol.valid /\ pol.enabled /\ layout.pc = "idle" /\ layout.active # {} =>
    pol.effective = Smaller(Requested(pol), layout.cap)

\* The policy fits the layout, and trackers that count as converged follow it
\* (test_all_update_effective, test_all_confirmed_mask).
PolicySound == TypeOK /\ RateFits /\ ConvergedIsTrue

\* Every active tracker is brought into the mode of the policy, unless the policy
\* ends or the tracker leaves: no command is lost for good to a busy slot, to a
\* grace period, to a lost answer or to an echo of an older rate.
Converges ==
  \A t \in Trackers :
    (pol.valid /\ t \in layout.active) ~> (t \in pol.confirmed \/ ~pol.valid \/ t \notin layout.active)
=============================================================================
