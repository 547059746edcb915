----------------------------- MODULE MCPackages -----------------------------
(***************************************************************************)
(* Packages for TLC.                                                       *)
(***************************************************************************)
EXTENDS Packages

\* Two versions of one package, the second with a capability more.
MCPackage ==
  {[name |-> "a", version |-> 1, caps |-> {}],
   [name |-> "a", version |-> 2, caps |-> {1}]}
=============================================================================
