---------------------------- MODULE MCHidReports ----------------------------
(***************************************************************************)
(* Two threads and the interrupt on a small ring.                          *)
(***************************************************************************)
EXTENDS HidReports

CONSTANTS p1, p2, isr

\* States that differ in what nobody reads any more are the same: reports that are
\* handed over, the data of free slots, the number of a subscription that is over.
Masked(r) == [r EXCEPT !.gen = CASE @ = 0 -> 0 [] @ = gen -> 1 [] OTHER -> 2]
LiveView ==
  <<[i \in 0..Capacity - 1 |->
       IF ring[i].seq % Capacity = i THEN [ring[i] EXCEPT !.r = NoReport] ELSE [ring[i] EXCEPT !.r = Masked(@)]],
    wpos, rpos, [p \in Threads |-> [prod[p] EXCEPT !.r = Masked(@)]], work, usb,
    [i \in Handed + 1..Len(accepted) |-> Masked(accepted[i])]>>
=============================================================================
