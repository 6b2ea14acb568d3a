----------------------------- MODULE MCProgram ------------------------------
(* Program on a machine of two cores whose siblings are neighbours: the    *)
(* processors 0 and 1 are on one core, 2 and 3 on the other.               *)
EXTENDS Program

Neighbours == [p \in 0 .. 3 |-> p \div 2]
=============================================================================
