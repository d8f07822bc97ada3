---------------------------- MODULE MCTaskOutcomes ----------------------------
(***************************************************************************)
(* Small instances of TaskOutcomes for TLC.                                *)
(***************************************************************************)
EXTENDS MCTaskBroker, TaskOutcomes
=============================================================================
