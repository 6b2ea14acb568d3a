---------------------------- MODULE MCLogRecovery ---------------------------
(***************************************************************************)
(* LogRecovery for TLC: the workers are interchangeable.                   *)
(***************************************************************************)
EXTENDS LogRecovery

Symmetry == Permutations(Worker)
=============================================================================
