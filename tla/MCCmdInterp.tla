---------------------------- MODULE MCCmdInterp ----------------------------
(***************************************************************************)
(* CmdInterp as it is; the bounds are in the configurations.               *)
(***************************************************************************)
EXTENDS CmdInterp
=============================================================================
