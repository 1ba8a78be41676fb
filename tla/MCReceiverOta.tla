--------------------------- MODULE MCReceiverOta ---------------------------
(***************************************************************************)
(* A partition of six pages of two units and reports of three units: a     *)
(* report straddles pages, the image `long` takes three pages and so comes *)
(* back to the first buffer, `even` fills one page and `huge` is too long. *)
(* The longer running firmware leaves room to stage one page only.  An     *)
(* image may ask for the page below the partition (a build without a soft  *)
(* device).                                                                *)
(***************************************************************************)
EXTENDS ReceiverOta, TLC

CONSTANTS long, even, huge

MCImageLen == (long :> 5) @@ (even :> 2) @@ (huge :> 7)

\* Pages that are written before they are read again are left out: staging pages
\* that the session has not yet handed to the writer, or that the writer has not
\* yet written, and all of staging when the session has failed or is over.
Matters(p) ==
  \/ pcW \in {"copy", "off"}
  \/ p < RunBase + PagesFor(appLen)
  \/ /\ rcv_ota.state \notin {"idle", "error"}
     /\ p >= rcv_ota.staging /\ p < rcv_ota.page
     /\ ~\E s \in Slot : WriterOwns(s) /\ slots[s].addr = p

\* The same holds of page buffers.
BufferView ==
  <<boot, appLen, rcv_ota, sems, queue, werr, stop, created, pcW, pcH, rest, copied,
    settings,
    [p \in Page |-> IF Matters(p) THEN flash[p] ELSE <<>>],
    [s \in Slot |-> IF WriterOwns(s) THEN slots[s]
                    ELSE IF ProducerOwns(s)
                    THEN [k \in 0..(rcv_ota.off - 1) |-> slots[s].data[k]] ELSE <<>>]>>
=============================================================================
