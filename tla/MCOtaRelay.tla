------------------------------ MODULE MCOtaRelay ------------------------------
(* A small instance of OtaRelay for TLC: two trackers, an image of three       *)
(* packets, a ring of two and a window below it (MAX_IN_FLIGHT < RING_SIZE).   *)
EXTENDS OtaRelay
=============================================================================
