------------------------------- MODULE Vault --------------------------------
(***************************************************************************)
(* What an interactive session of pwdb promises its user: a book of        *)
(* entries that is edited on a copy.  A session that ends well has kept    *)
(* everything that was edited, one that fails has kept nothing of it, and  *)
(* no entry changes but by an edit of that entry.                          *)
(***************************************************************************)
CONSTANTS
    Name,           \* what the entries are called
    Entry,          \* what an entry can be
    NoEntry         \* the entry of a name that the book does not have

VARIABLES
    saved,          \* the book that is kept
    book,           \* the book that the user sees
    mode            \* "well" or "badly" (how it ended), or "editing"

vars == <<saved, book, mode>>

Init ==
    /\ saved = [n \in Name |-> NoEntry]
    /\ book = saved
    /\ mode = "well"

\* The session starts from the book that is kept.
Begin ==
    /\ mode # "editing"
    /\ mode' = "editing"
    /\ UNCHANGED <<saved, book>>

\* It does not even start.
Refuse ==
    /\ mode # "editing"
    /\ mode' = "badly"
    /\ UNCHANGED <<saved, book>>

\* The user adds, removes or changes one entry.
Edit ==
    /\ mode = "editing"
    /\ \E n \in Name, e \in Entry \cup {NoEntry} :
        book' = [book EXCEPT ![n] = e]
    /\ UNCHANGED <<saved, mode>>

\* The session ends well: what the user saw last is kept.
Keep ==
    /\ mode = "editing"
    /\ mode' = "well"
    /\ saved' = book
    /\ UNCHANGED book

\* The session fails: everything is as it was before it.
Drop ==
    /\ mode = "editing"
    /\ mode' = "badly"
    /\ book' = saved
    /\ UNCHANGED saved

Next == Begin \/ Refuse \/ Edit \/ Keep \/ Drop

Spec == Init /\ [][Next]_vars
=============================================================================
