------------------------- MODULE MCActiveExecutions -------------------------
(***************************************************************************)
(* Small instances of ActiveExecutions for TLC.                            *)
(***************************************************************************)
EXTENDS ActiveExecutions, TLC

CONSTANTS e1, e2, e3

MCUnlimited == -1

MCProduction == [e \in Exec |-> "webhook"]

MCMixed == [e \in Exec |-> IF e = e1 THEN "evaluation" ELSE "trigger"]

\* Calls are interchangeable, and so are executions that share their mode
\* (ModeOf <- MCProduction); used for safety only.
MCSymmetry == Permutations(Run) \cup Permutations(Exec)
=============================================================================
