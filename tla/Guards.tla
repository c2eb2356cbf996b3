------------------------------- MODULE Guards -------------------------------
(***************************************************************************)
(* The objects of class lock_overwrite_file (src/util.cc) in one process:  *)
(* constructed, moved, assigned, used and destroyed in any order, while    *)
(* other processes lock the same files.  LockFile has the protocol of the  *)
(* file with one such object for each process; here is who owns the        *)
(* temporary file when there are several, and what is in it when saving    *)
(* fails and the same object is told to save again.  (The program does     *)
(* neither: it constructs one object, and an exception ends it.  This is   *)
(* what the class promises to a program that would.)                       *)
(*                                                                         *)
(* The temporary file of a file is known by that file's name: no file is   *)
(* the temporary file of another (that is, nobody names a database         *)
(* "x.tmp" beside a database "x").                                         *)
(***************************************************************************)
CONSTANTS
    Obj,            \* where an object may live
    Temp,           \* the local variable "tmp" of operator=
    File,           \* the files that are guarded
    NoPath,         \* an empty path
    NoObj           \* no object lives there

ASSUME TempAssumption == Temp \in Obj
ASSUME PathAssumption == NoPath \notin File

Guard == [file : File \cup {NoPath}, tmp : File \cup {NoPath}]
Default == [file |-> NoPath, tmp |-> NoPath]

ASSUME NoObjAssumption == NoObj \notin Guard \cup Obj

VARIABLES
    guard,          \* each object's two paths
    entry,          \* each temporary file: whose it is, if it is there
    temp,           \* what was written to it
    image,          \* what is in the file
    moved,          \* objects that were moved from, and not assigned since
    saver,          \* the object whose overwrite is running, or NoObj
    step            \* how far that is

disk == <<entry, temp, image>>
saving == <<saver, step>>
vars == <<guard, disk, moved, saving>>

\* A save writes a first part and then the rest.  "torn" is anything else than
\* what it has written so far, from the beginning.
Content == {"empty", "part", "whole", "torn"}
Step == {"idle", "open", "half", "full", "renamed"}

Live(o) == guard[o] # NoObj

\* operator= is running; it calls nothing that could throw.
Assigning == Live(Temp)

\* The process runs no member of an object.
Idle == ~Assigning /\ step = "idle"

Swap(g, a, b) == [g EXCEPT ![a] = g[b], ![b] = g[a]]

Init ==
    /\ guard = [o \in Obj |-> NoObj]
    /\ entry = [f \in File |-> "none"]
    /\ temp = [f \in File |-> "empty"]
    /\ image \in [File -> {"none", "whole"}]
    /\ moved = {}
    /\ saver = NoObj
    /\ step = "idle"

-----------------------------------------------------------------------------
(***************************************************************************)
(* Wrong forms, each with one plausible mistake.                           *)
(***************************************************************************)

\* The paths are copied: moving a short string may well leave it as it was.
MoveCopies(o, x) ==
    /\ Idle /\ o # Temp
    /\ ~Live(o) /\ Live(x)
    /\ guard' = [guard EXCEPT ![o] = guard[x]]
    /\ moved' = (moved \cup {x}) \ {o}
    /\ UNCHANGED <<disk, saving>>

\* The two objects are swapped and there is no local variable.
AssignSwaps(o, x) ==
    /\ Idle /\ Temp \notin {o, x}
    /\ Live(o) /\ Live(x)
    /\ guard' = Swap(guard, o, x)
    /\ moved' = IF o = x THEN moved ELSE (moved \cup {x}) \ {o}
    /\ UNCHANGED <<disk, saving>>

\* The stream is opened for appending.
OpenOutAppends(o) ==
    /\ Idle /\ Live(o) /\ guard[o].tmp # NoPath
    /\ saver' = o
    /\ step' = "open"
    /\ UNCHANGED <<guard, disk, moved>>

\* tmp_file_ is not cleared: the destructor removes a file of that name.
ClearNothing ==
    /\ step = "renamed"
    /\ saver' = NoObj
    /\ step' = "idle"
    /\ UNCHANGED <<guard, disk, moved>>

-----------------------------------------------------------------------------
\* lock_overwrite_file(file): creates the temporary file, or throws and then
\* there is no object.
Construct(o, f) ==
    /\ Idle /\ o # Temp
    /\ ~Live(o)
    /\ entry[f] = "none"
    /\ guard' = [guard EXCEPT ![o] = [file |-> f, tmp |-> f]]
    /\ entry' = [entry EXCEPT ![f] = "ours"]
    /\ temp' = [temp EXCEPT ![f] = "empty"]
    /\ moved' = moved \ {o}
    /\ UNCHANGED <<image, saving>>

ConstructDefault(o) ==
    /\ Idle /\ o # Temp
    /\ ~Live(o)
    /\ guard' = [guard EXCEPT ![o] = Default]
    /\ moved' = moved \ {o}
    /\ UNCHANGED <<disk, saving>>

\* The move constructor: empty paths, swapped with the other object's.
Move(o, x) ==
    /\ Idle /\ o # Temp
    /\ ~Live(o) /\ Live(x)
    /\ guard' = Swap([guard EXCEPT ![o] = Default], o, x)
    /\ moved' = (moved \cup {x}) \ {o}
    /\ UNCHANGED <<disk, saving>>

\* operator=, first half: tmp is moved from the other and swapped with *this.
\* The two may be one object.
Assign(o, x) ==
    /\ Idle /\ Temp \notin {o, x}
    /\ Live(o) /\ Live(x)
    /\ guard' = Swap(Swap([guard EXCEPT ![Temp] = Default], Temp, x), o, Temp)
    /\ moved' = IF o = x THEN moved ELSE (moved \cup {x}) \ {o}
    /\ UNCHANGED <<disk, saving>>

\* The destructor; of tmp, too, at the end of operator=.  An error of remove
\* is not looked at.
Destroy(o) ==
    /\ Live(o) /\ step = "idle"
    /\ Assigning => o = Temp
    /\ guard' = [guard EXCEPT ![o] = NoObj]
    /\ IF guard[o].tmp = NoPath THEN UNCHANGED entry
       ELSE \E e \in {"none", "left"} :
                entry' = [entry EXCEPT ![guard[o].tmp] = e]
    /\ UNCHANGED <<temp, image, moved, saving>>

\* overwrite() begins: the stream is opened and the file truncated.  With no
\* temporary file it throws at once: there is no file with an empty name.
OpenOut(o) ==
    /\ Idle /\ Live(o) /\ guard[o].tmp # NoPath
    /\ saver' = o
    /\ step' = "open"
    /\ temp' = [temp EXCEPT ![guard[o].tmp] = "empty"]
    /\ UNCHANGED <<guard, entry, image, moved>>

\* The writer, or close, adds to what there is.
Write ==
    /\ step \in {"open", "half"}
    /\ step' = IF step = "open" THEN "half" ELSE "full"
    /\ temp' = [temp EXCEPT ![guard[saver].tmp] =
                   IF step = "open" /\ @ = "empty" THEN "part"
                   ELSE IF step = "half" /\ @ = "part" THEN "whole"
                   ELSE "torn"]
    /\ UNCHANGED <<guard, entry, image, moved, saver>>

\* The stream is closed, and the file takes the other one's place.
Rename ==
    /\ step = "full"
    /\ step' = "renamed"
    /\ LET f == guard[saver].tmp IN
        /\ image' = [image EXCEPT ![guard[saver].file] = temp[f]]
        /\ entry' = [entry EXCEPT ![f] = "none"]
    /\ UNCHANGED <<guard, temp, moved, saver>>

\* tmp_file_.clear(): another process may have locked the file meanwhile.
Clear ==
    /\ step = "renamed"
    /\ guard' = [guard EXCEPT ![saver].tmp = NoPath]
    /\ saver' = NoObj
    /\ step' = "idle"
    /\ UNCHANGED <<disk, moved>>

\* The writer, close or rename throws: the object is as it was, and what has
\* been written is in its file.
OverwriteThrows ==
    /\ step \in {"open", "half", "full"}
    /\ saver' = NoObj
    /\ step' = "idle"
    /\ UNCHANGED <<guard, disk, moved>>

-----------------------------------------------------------------------------
(***************************************************************************)
(* Other processes, and the user who deletes what was left.                *)
(***************************************************************************)
TheyLock(f) ==
    /\ entry[f] = "none"
    /\ entry' = [entry EXCEPT ![f] = "theirs"]
    /\ UNCHANGED <<guard, temp, image, moved, saving>>

\* Whether they have saved or not.
TheyUnlock(f) ==
    /\ entry[f] = "theirs"
    /\ entry' = [entry EXCEPT ![f] = "none"]
    /\ image' \in {image, [image EXCEPT ![f] = "whole"]}
    /\ UNCHANGED <<guard, temp, moved, saving>>

DeleteLeft(f) ==
    /\ entry[f] = "left"
    /\ entry' = [entry EXCEPT ![f] = "none"]
    /\ UNCHANGED <<guard, temp, image, moved, saving>>

Next ==
    \/ \E o \in Obj :
        \/ \E f \in File : Construct(o, f)
        \/ ConstructDefault(o)
        \/ \E x \in Obj : Move(o, x) \/ Assign(o, x)
        \/ Destroy(o) \/ OpenOut(o)
    \/ Write \/ Rename \/ Clear \/ OverwriteThrows
    \/ \E f \in File : TheyLock(f) \/ TheyUnlock(f) \/ DeleteLeft(f)

Spec == Init /\ [][Next]_vars

-----------------------------------------------------------------------------
(***************************************************************************)
(* Properties.                                                             *)
(***************************************************************************)

\* The shape of the state.
TypeOK ==
    /\ guard \in [Obj -> Guard \cup {NoObj}]
    /\ entry \in [File -> {"none", "ours", "theirs", "left"}]
    /\ temp \in [File -> Content]
    /\ image \in [File -> Content \cup {"none"}]
    /\ moved \subseteq Obj \ {Temp}
    /\ saver \in Obj \cup {NoObj}
    /\ step \in Step

\* Between the rename and the clear, there is a name and no file to it.
Owns(o, f) ==
    /\ Live(o) /\ guard[o].tmp = f
    /\ ~(step = "renamed" /\ saver = o)

\* However the objects are moved about, each of the process's temporary files
\* has exactly one object that will remove it, and none will remove another's
\* (the destructor and rename go by the name alone).
OneOwner ==
    /\ \A f \in File : entry[f] = "ours" <=> \E o \in Obj : Owns(o, f)
    /\ \A o, x \in Obj, f \in File : Owns(o, f) /\ Owns(x, f) => o = x

\* What is saved goes where the lock is.
TmpIsOfFile ==
    \A o \in Obj : Live(o) => guard[o].tmp \in {guard[o].file, NoPath}

\* An object that was moved from holds nothing: what the target of an
\* assignment had locked is given back at its end, not when the source dies.
MovedHoldsNothing ==
    \A o \in moved : Live(o) => guard[o].tmp = NoPath

\* No step of this process takes away the temporary file of another, or
\* writes to it.
TheirsKept ==
    [][\A f \in File : entry[f] = "theirs" =>
            /\ temp'[f] = temp[f]
            /\ entry'[f] # "theirs" => UNCHANGED <<guard, moved, saving>>]_vars

\* A save that fails may be tried again on the same object: nothing that the
\* former attempt wrote gets into the file.
RetryIsWhole == \A f \in File : image[f] \in {"none", "whole"}

\* What a save has written so far is what it was to write, from the beginning,
\* and nobody else has the name that it writes to.
SavedSoFar ==
    /\ step = "idle" <=> saver = NoObj
    /\ saver # NoObj =>
        /\ Live(saver) /\ guard[saver].tmp # NoPath
        /\ step = "open" => temp[guard[saver].tmp] = "empty"
        /\ step = "half" => temp[guard[saver].tmp] = "part"
        /\ step = "full" => temp[guard[saver].tmp] = "whole"
        /\ \A o \in Obj :
               Live(o) /\ guard[o].tmp = guard[saver].tmp => o = saver

IInv ==
    /\ TypeOK
    /\ OneOwner
    /\ TmpIsOfFile
    /\ MovedHoldsNothing
    /\ RetryIsWhole
    /\ SavedSoFar
=============================================================================
