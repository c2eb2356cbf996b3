----------------------------- MODULE MCLockFile -----------------------------
(***************************************************************************)
(* LockFile with three invocations: two can contend while the third reads, *)
(* or comes after them.  Of four inodes two have the names of the database *)
(* and of the temporary file, and one is an older image in a reader's      *)
(* hand, or an image that a killed process has left behind.                *)
(***************************************************************************)
EXTENDS LockFile
=============================================================================
