------------------------- MODULE MCTdmaMembership -------------------------
(***************************************************************************)
(* Model-checking instances of TdmaMembership: the constants come from the *)
(* configuration files; time is scaled to a few ticks.                     *)
(***************************************************************************)
EXTENDS TdmaMembership

\* Only differences of clock readings matter, and only while they are in use:
\* two states that agree on this view have the same behaviours up to a shift
\* of the clock.
TimeView ==
  LET ago(t) == SignedDiff(clock, t)
  IN  <<stored, shadow.evidence, shadow.desired, shadow.joining, shadow.armed,
        [i \in shadow.evidence |-> ago(shadow.lastSeen[i])],
        IF shadow.armed THEN ago(shadow.deadline) ELSE 0,
        layoutVars, capLevel, modeVars, sem, pcS,
        IF pcS = "merge" THEN ago(nowS) ELSE 0,
        IF pcS = "sleep" THEN sleep ELSE 0,
        monitorIn, monitoring, late, pcA, seenAge, owed,
        IF dueFor = None THEN <<>> ELSE <<ago(dueFor)>> >>
=============================================================================
