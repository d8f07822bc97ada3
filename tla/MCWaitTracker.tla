---------------------------- MODULE MCWaitTracker ----------------------------
(***************************************************************************)
(* Small instances of WaitTracker for TLC.                                  *)
(***************************************************************************)
EXTENDS WaitTracker, TLC

\* Mains are interchangeable; used for safety only.
MCSymmetry == Permutations(Main)
=============================================================================
