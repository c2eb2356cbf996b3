----------------------------- MODULE MCSession ------------------------------
(***************************************************************************)
(* Session on small instances: two keyrings for the sessions that end      *)
(* well, and one key for what becomes of the index.                        *)
(***************************************************************************)
EXTENDS Session, TLC

CONSTANTS
    h1, h2,         \* home directories
    g1, g2, g3,     \* GnuPG keys: g1 and g2 are in h1, g3 is in h2
    u1, u2          \* user ids: u1 has g1 and g3, u2 has g2

MCKeyring == (h1 :> {g1, g2}) @@ (h2 :> {g3})
MCUidOf == (g1 :> u1) @@ (g2 :> u2) @@ (g3 :> u1)
OneKey == (h1 :> {g1})
OneUid == (g1 :> u1)

Symmetry == Permutations(Name) \cup Permutations(Tag)
=============================================================================
