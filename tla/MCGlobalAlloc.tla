--------------------------- MODULE MCGlobalAlloc ----------------------------
(* Small instances of GlobalAlloc for TLC.                                 *)
EXTENDS GlobalAlloc, TLC

Symmetry == Permutations(Thread)
=============================================================================
