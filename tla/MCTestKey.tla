------------------------------ MODULE MCTestKey -----------------------------
(***************************************************************************)
(* TestKey with three programs: two of them can be inside the lock, and    *)
(* then a third, which comes last, finds what they have made.              *)
(***************************************************************************)
EXTENDS TestKey
=============================================================================
