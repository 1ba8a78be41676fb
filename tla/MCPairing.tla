------------------------------ MODULE MCPairing ------------------------------
(***************************************************************************)
(* Instances of Pairing for TLC.                                           *)
(***************************************************************************)
EXTENDS Pairing, TLC

CONSTANTS d1, d2

\* The two devices are interchangeable.
Interchangeable == Permutations({d1, d2})

\* Two states that agree on this view have the same behaviours: what it leaves
\* out is written before it is read again, or read by no action (added; heard, as
\* long as the queue is the end of it, which requests and the drain loop keep).
LiveView ==
  <<timeout, record,
    IF record # Absent THEN Absent ELSE IF Loads THEN legacy ELSE Corrupt,
    roster, ready, rosterErr = "transient",
    pairing, target, IF target = 0 THEN 0 ELSE initial, sessionAge, reachedAge, blocked,
    queue, call, pcE, IF pcE \in {"parse", "add"} THEN evt ELSE NoDev, op,
    doubt, IF EndOf(queue, heard) THEN <<>> ELSE <<heard>>, assigned>>
=============================================================================
