------------------------------- MODULE MCSched -------------------------------
(***************************************************************************)
(* Instances of Sched for TLC.                                             *)
(***************************************************************************)
EXTENDS Sched, TLC

\* Address spaces are interchangeable, and so are the secondary harts.
SpaceSymmetry == Permutations(Space)
Symmetry == SpaceSymmetry \cup Permutations(Hart \ {BootHart})
==============================================================================
