--------------------------- MODULE MCSubcommands ----------------------------
(***************************************************************************)
(* Subcommands on a small instance.  In the default home directory the     *)
(* user has the key k1, for u1; k2 is a public key there that can only     *)
(* encrypt, for somebody else.  In the other home directory there is k3,   *)
(* which signs, but for neither.  The empty uid stands for all: k1 signs   *)
(* what k2 reads, too.  A session that is given the other home directory   *)
(* and no uid saves with k3, and its records, once k1 has expired, can be  *)
(* opened with k2 alone: by nobody here.  (k2 does not expire: then it     *)
(* would be as if it were not there.)  An import file, if the user has     *)
(* one, has one record in the clear, and either home directory opens it.   *)
(***************************************************************************)
EXTENDS Subcommands, TLC

CONSTANTS
    h1, h2,         \* home directories
    k1, k2, k3,     \* keys
    u1,             \* a user id
    s1,             \* a Store with something in it
    n1              \* a record name

MCUidOf == (k1 :> {u1}) @@ (k2 :> {}) @@ (k3 :> {})
MCKeyring == (h1 :> {k1, k2}) @@ (h2 :> {k3})
MCSecret == (h1 :> {k1}) @@ (h2 :> {k3})

ClearFile ==
    [fmt |-> "json",
     to  |-> {k1, k3},
     db  |-> [uid  |-> u1,
              rcds |-> [n \in Name |-> IF n # n1 THEN NoRcd
                                       ELSE InClear(NewRcd, s1)]]]

MCGiven == {ClearFile}

Symmetry == Permutations(Proc)
=============================================================================
