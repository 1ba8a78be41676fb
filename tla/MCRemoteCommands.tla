-------------------------- MODULE MCRemoteCommands --------------------------
(***************************************************************************)
(* Two trackers, so that a confirmation may come from the wrong one, and   *)
(* one flag; one token, so that every WOM command meets the token of the   *)
(* last one, as after a wrap or a restart.                                 *)
(***************************************************************************)
EXTENDS RemoteCommands, TLC

CONSTANTS t1, t2

\* Left out is what is written before it is read again: the fields of an idle work
\* queue, those of a WOM request when none is pending, and the log of a request
\* that lost its answer.
LiveView ==
  <<hid, IF hid.pending \/ win.pc # "none" THEN wom ELSE <<>>, win,
    <<wq.queued, wq.pc, IF wq.pc = "all" THEN wq.f ELSE "normal",
      IF wq.pc = "arm" THEN wq.mask ELSE {}, IF wq.pc \in {"finish", "tail"} THEN wq.status ELSE "none">>,
    slot, tok, trk, log>>
=============================================================================
