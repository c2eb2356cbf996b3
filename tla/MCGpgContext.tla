---------------------------- MODULE MCGpgContext ----------------------------
(***************************************************************************)
(* GpgContext with a few key objects, which are all alike.                 *)
(***************************************************************************)
EXTENDS GpgContext, TLC

Symmetry == Permutations(KeyObj)
=============================================================================
