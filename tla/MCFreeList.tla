----------------------------- MODULE MCFreeList -----------------------------
(* Small instances of FreeList for TLC: buckets for chunks of one, two and *)
(* four lines and above.                                                   *)
EXTENDS FreeList

Caps == <<1, 2, 4>>
=============================================================================
