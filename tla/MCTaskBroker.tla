----------------------------- MODULE MCTaskBroker -----------------------------
(***************************************************************************)
(* Small instances of TaskBroker for TLC.                                  *)
(***************************************************************************)
EXTENDS TaskBroker

CONSTANTS r1, r2

MCRequestType == [q \in Request |-> "javascript"]

MCRunnerType == [r \in Runner |-> "javascript"]
=============================================================================
