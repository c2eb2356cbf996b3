----------------------------- MODULE FileStore -----------------------------
(***************************************************************************)
(* What the database file of pwdb promises to the program invocations that *)
(* share it, with no file system in sight: one invocation at a time may    *)
(* own the store, an owner replaces the whole store in one step or leaves  *)
(* it alone, and anyone may look at the store at any time.                 *)
(*                                                                         *)
(* The store is the set of the invocations whose update it carries.        *)
(***************************************************************************)
CONSTANT Proc       \* invocations of the program

VARIABLES
    updates,        \* the invocations whose update the store carries
    locked,         \* the store is closed to new owners
    phase,          \* how far each invocation is
    view            \* what each invocation saw when it last looked

vars == <<updates, locked, phase, view>>

Init ==
    /\ updates = {}
    /\ locked = FALSE
    /\ phase = [p \in Proc |-> "idle"]
    /\ view = [p \in Proc |-> {}]

Move(p, from, to) ==
    /\ phase[p] \in from
    /\ phase' = [phase EXCEPT ![p] = to]

\* An invocation becomes the owner; nobody else may until the lock is lifted.
Own(p) ==
    /\ ~locked
    /\ locked' = TRUE
    /\ Move(p, {"idle"}, "owner")
    /\ UNCHANGED <<updates, view>>

\* An owner looks at the store, all of it as of one instant.
Look(p) ==
    /\ phase[p] = "owner"
    /\ view' = [view EXCEPT ![p] = updates]
    /\ UNCHANGED <<updates, locked, phase>>

\* An invocation that wants no more than to look needs no ownership.
Peek(p) ==
    /\ Move(p, {"idle"}, "viewer")
    /\ view' = [view EXCEPT ![p] = updates]
    /\ UNCHANGED <<updates, locked>>

\* The owner's update joins the ones that are there and the lock is lifted.
Commit(p) ==
    /\ Move(p, {"owner"}, "committed")
    /\ updates' = updates \cup {p}
    /\ locked' = FALSE
    /\ UNCHANGED view

\* The owner gives up: the store is as it was and the lock is lifted.
Abort(p) ==
    /\ Move(p, {"owner"}, "ended")
    /\ locked' = FALSE
    /\ UNCHANGED <<updates, view>>

\* An invocation ends and lifts nothing. An owner that ends so leaves the
\* store locked with nobody to unlock it.
End(p) ==
    /\ Move(p, {"idle", "owner", "viewer", "committed"}, "ended")
    /\ UNCHANGED <<updates, locked, view>>

\* A lock that no owner holds is lifted by hand.
Unlock ==
    /\ locked
    /\ \A p \in Proc : phase[p] # "owner"
    /\ locked' = FALSE
    /\ UNCHANGED <<updates, phase, view>>

Next ==
    \/ \E p \in Proc : \/ Own(p)
                       \/ Look(p)
                       \/ Peek(p)
                       \/ Commit(p)
                       \/ Abort(p)
                       \/ End(p)
    \/ Unlock

Spec == Init /\ [][Next]_vars
=============================================================================
