----------------------------- MODULE MCPersister -----------------------------
(* Small instances of Persister for TLC.                                   *)
EXTENDS PersisterLog, TLC

Symmetry == Permutations(Worker) \cup Permutations(Object)
=============================================================================
