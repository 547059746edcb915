------------------------------- MODULE MCSmp -------------------------------
(* The secondary harts are interchangeable in Smp: none is named. *)
EXTENDS Smp, TLC
Symmetry == Permutations(Secondary)
=============================================================================
