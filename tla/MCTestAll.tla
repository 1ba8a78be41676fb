------------------------------ MODULE MCTestAll ------------------------------
(***************************************************************************)
(* One tracker: the code treats each tracker by itself, and what the       *)
(* others change for it is the capacity of the layout.  Rates below and    *)
(* above the smaller capacity, and the default.                            *)
(***************************************************************************)
EXTENDS TestAll

CONSTANTS t1, t2
=============================================================================
