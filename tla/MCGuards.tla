------------------------------ MODULE MCGuards ------------------------------
(***************************************************************************)
(* Guards with three objects, the local variable of operator=, and two     *)
(* files.                                                                  *)
(***************************************************************************)
EXTENDS Guards, TLC

Symmetry == Permutations(File) \cup Permutations(Obj \ {Temp})
=============================================================================
