------------------------------ MODULE Archive -------------------------------
(***************************************************************************)
(* What the sub-commands of pwdb promise about the books that lie in files *)
(* (a book: the entries of a database, decrypted).  An invocation takes a  *)
(* book in its hand from one place and puts it down at the one place that  *)
(* it has set out for: an editor, which alone may write in the book, where *)
(* it took it; a carrier (recrypt, import) and a copier (export) anywhere. *)
(* Editors and carriers put the whole book down at once.  A copier first   *)
(* spoils the place that it has set out for, and may leave it so.          *)
(***************************************************************************)
CONSTANTS
    Proc,           \* invocations
    Place,          \* where a book can lie
    Book,           \* what a book can be
    EmptyBook,      \* the one with no entries
    Nothing,        \* at an empty place, in an empty hand
    Spoiled         \* at a place that somebody began to write and did not end

VARIABLES
    shelf,          \* what lies at each place
    hand,           \* the book that each invocation holds
    role,           \* "none", "editor", "carrier" or "copier"
    goal            \* the place that it has set out for

vars == <<shelf, hand, role, goal>>

Init ==
    /\ shelf \in [Place -> Book \cup {Nothing}]
    /\ hand = [p \in Proc |-> Nothing]
    /\ role = [p \in Proc |-> "none"]
    /\ goal = [p \in Proc |-> Nothing]

Become(p, r) ==
    /\ role[p] = "none"
    /\ role' = [role EXCEPT ![p] = r]

Grasp(p, b, x) ==
    /\ hand' = [hand EXCEPT ![p] = b]
    /\ goal' = [goal EXCEPT ![p] = x]
    /\ UNCHANGED shelf

\* A book is taken to be edited where it lies, or begun where nothing lies.
TakeUp(p) ==
    /\ Become(p, "editor")
    /\ \E x \in Place : \/ shelf[x] \in Book /\ Grasp(p, shelf[x], x)
                        \/ shelf[x] = Nothing /\ Grasp(p, EmptyBook, x)

\* A book is taken to be carried off.
TakeAway(p) ==
    /\ \E r \in {"carrier", "copier"} : Become(p, r)
    /\ \E x, y \in Place : shelf[x] \in Book /\ Grasp(p, shelf[x], y)

Write(p) ==
    /\ role[p] = "editor"
    /\ \E b \in Book : hand' = [hand EXCEPT ![p] = b]
    /\ UNCHANGED <<shelf, role, goal>>

\* The book is let go: it is put in the place of what lay there, or dropped,
\* and then every place is as it was.
Let(p) ==
    /\ role[p] # "none"
    /\ role' = [role EXCEPT ![p] = "none"]
    /\ hand' = [hand EXCEPT ![p] = Nothing]
    /\ goal' = [goal EXCEPT ![p] = Nothing]
    /\ \/ shelf' = [shelf EXCEPT ![goal[p]] = hand[p]]
       \/ UNCHANGED shelf

\* A copier writes at its goal, and has not ended.
Spoil(p) ==
    /\ role[p] = "copier"
    /\ shelf' = [shelf EXCEPT ![goal[p]] = Spoiled]
    /\ UNCHANGED <<hand, role, goal>>

Next ==
    \E p \in Proc : TakeUp(p) \/ TakeAway(p) \/ Write(p) \/ Let(p) \/ Spoil(p)

Spec == Init /\ [][Next]_vars
=============================================================================
