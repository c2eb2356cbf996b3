---------------------------- MODULE MCClOptions -----------------------------
(***************************************************************************)
(* ClOptions with a few words: some sub-commands and a word that is none.  *)
(***************************************************************************)
EXTENDS ClOptions

MCWords == {"open", "recrypt", "import", "me"}
MCOptions == {"uid", "file", "infile", "nothing"}
=============================================================================
