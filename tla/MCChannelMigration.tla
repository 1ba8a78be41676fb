-------------------------- MODULE MCChannelMigration --------------------------
(***************************************************************************)
(* Instances of ChannelMigration for TLC: which thread gives which         *)
(* commands.                                                               *)
(***************************************************************************)
EXTENDS ChannelMigration

AllKinds == [u \in Users |-> IF u = "hid" THEN {"ota", "collect", "all"} ELSE {"all", "scan", "rx"}]
NoKinds == [u \in Users |-> {}]
=============================================================================
