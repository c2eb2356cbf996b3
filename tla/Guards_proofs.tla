--------------------------- MODULE Guards_proofs ----------------------------
(***************************************************************************)
(* Proofs about Guards, for any number of objects and files.               *)
(***************************************************************************)
EXTENDS Guards, TLAPS

USE TempAssumption, PathAssumption, NoObjAssumption
    DEF vars, disk, saving, Live, Idle

LEMMA DefaultType ==
  Default \in Guard /\ Default # NoObj /\ Default.tmp = NoPath
  BY DEF Default, Guard

\* Which object owns what may change hands, but not who they are.
LEMMA SwapOwners ==
  ASSUME NEW g \in [Obj -> Guard \cup {NoObj}], NEW a \in Obj, NEW b \in Obj
  PROVE  /\ Swap(g, a, b) \in [Obj -> Guard \cup {NoObj}]
         /\ Swap(g, a, b)[a] = g[b]
         /\ Swap(g, a, b)[b] = g[a]
         /\ \A o \in Obj \ {a, b} : Swap(g, a, b)[o] = g[o]
  BY DEF Swap

\* While no save runs, what is said of one holds whatever the objects are.
LEMMA Quiet ==
  ASSUME IInv, step = "idle", UNCHANGED saving
  PROVE  saver = NoObj /\ step' = "idle" /\ SavedSoFar'
  BY DEF IInv, SavedSoFar

LEMMA MoveIInv ==
  ASSUME IInv, NEW o \in Obj, NEW x \in Obj, Move(o, x) PROVE IInv'
<1> DEFINE g == [guard EXCEPT ![o] = Default]
<1>1. g \in [Obj -> Guard \cup {NoObj}] /\ o # x
  BY DefaultType DEF Move, IInv, TypeOK
<1>2. guard' = Swap(g, o, x) /\ g[o] = Default /\ g[x] = guard[x]
      /\ \A q \in Obj \ {o, x} : g[q] = guard[q]
  BY <1>1 DEF Move, IInv, TypeOK
<1> HIDE DEF g
<1>2a. /\ guard' \in [Obj -> Guard \cup {NoObj}]
       /\ guard'[o] = guard[x] /\ guard'[x] = Default
       /\ \A q \in Obj \ {o, x} : guard'[q] = guard[q]
  BY <1>1, <1>2, SwapOwners
<1>3. /\ guard[o] = NoObj /\ guard[x] # NoObj /\ Temp \notin {o, x}
      /\ UNCHANGED <<entry, temp, image, saver>>
      /\ moved' = (moved \cup {x}) \ {o}
      /\ step = "idle" /\ step' = "idle" /\ SavedSoFar'
  BY Quiet DEF Move, Assigning
<1>4. TypeOK' /\ RetryIsWhole'
  BY <1>1, <1>2a, <1>3 DEF IInv, TypeOK, RetryIsWhole
<1>5. OneOwner'
  BY <1>1, <1>2a, <1>3, DefaultType DEF IInv, OneOwner, Owns
<1>6. TmpIsOfFile' /\ MovedHoldsNothing'
  BY <1>1, <1>2a, <1>3, DefaultType 
     DEF IInv, TypeOK, TmpIsOfFile, MovedHoldsNothing, Default
<1> QED
  BY <1>3, <1>4, <1>5, <1>6 DEF IInv

LEMMA AssignIInv ==
  ASSUME IInv, NEW o \in Obj, NEW x \in Obj, Assign(o, x) PROVE IInv'
<1> DEFINE g == [guard EXCEPT ![Temp] = Default]
           h == Swap(g, Temp, x)
<1>1. /\ g \in [Obj -> Guard \cup {NoObj}] /\ o # Temp /\ x # Temp
      /\ g[Temp] = Default /\ \A q \in Obj \ {Temp} : g[q] = guard[q]
  BY DefaultType DEF Assign, IInv, TypeOK
<1> HIDE DEF g
<1>2. /\ h \in [Obj -> Guard \cup {NoObj}]
      /\ h[Temp] = guard[x] /\ h[x] = Default
      /\ \A q \in Obj \ {Temp, x} : h[q] = guard[q]
  BY <1>1, SwapOwners
<1> HIDE DEF h
<1>3. guard' = Swap(h, o, Temp)
  BY DEF Assign, h, g
<1>4. /\ guard' \in [Obj -> Guard \cup {NoObj}]
      /\ guard'[o] = guard[x]
      /\ o # x => guard'[x] = Default /\ guard'[Temp] = guard[o]
      /\ o = x => guard'[Temp] = Default
      /\ \A q \in Obj \ {o, x, Temp} : guard'[q] = guard[q]
  BY <1>1, <1>2, <1>3, SwapOwners
<1>5. /\ guard[o] # NoObj /\ guard[x] # NoObj /\ guard[Temp] = NoObj
      /\ UNCHANGED <<entry, temp, image, saver>>
      /\ moved' = IF o = x THEN moved ELSE (moved \cup {x}) \ {o}
      /\ step = "idle" /\ step' = "idle" /\ SavedSoFar'
  BY Quiet DEF Assign, Assigning
<1>6. TypeOK' /\ RetryIsWhole'
  BY <1>4, <1>5 DEF IInv, TypeOK, RetryIsWhole
<1>7. OneOwner'
  <2>1. CASE o = x
    <3>1. \A q \in Obj, f \in File : Owns(q, f)' <=> Owns(q, f)
      BY <1>1, <1>4, <1>5, <2>1, DefaultType DEF Owns
    <3> QED
      BY <1>5, <3>1 DEF IInv, OneOwner
  <2>2. CASE o # x
    <3> DEFINE from(q) == IF q = o THEN x
                          ELSE IF q = x THEN Temp
                          ELSE IF q = Temp THEN o ELSE q
    <3>1. \A q \in Obj, f \in File :
            /\ from(q) \in Obj
            /\ Owns(q, f)' <=> Owns(from(q), f)
      BY <1>1, <1>4, <1>5, <2>2, DefaultType DEF Owns
    <3>2. \A q, r \in Obj : from(q) = from(r) => q = r
      BY <1>1, <2>2
    <3>3. \A q \in Obj : \E r \in Obj : from(r) = q
      <4> SUFFICES ASSUME NEW q \in Obj PROVE \E r \in Obj : from(r) = q
        OBVIOUS
      <4>1. from(x) = Temp /\ from(o) = x /\ from(Temp) = o
        BY <1>1, <2>2
      <4>2. q \notin {x, o, Temp} => from(q) = q
        OBVIOUS
      <4> QED
        BY <4>1, <4>2
    <3> HIDE DEF from
    <3> QED
      BY <1>5, <3>1, <3>2, <3>3 DEF IInv, OneOwner
  <2> QED
    BY <2>1, <2>2
<1>8. TmpIsOfFile'
  BY <1>4, <1>5, DefaultType DEF IInv, TmpIsOfFile, Default
<1>9. MovedHoldsNothing'
  BY <1>1, <1>4, <1>5, DefaultType DEF IInv, TypeOK, MovedHoldsNothing
<1> QED
  BY <1>5, <1>6, <1>7, <1>8, <1>9 DEF IInv

LEMMA ConstructIInv ==
  ASSUME IInv, NEW o \in Obj,
         ConstructDefault(o) \/ \E f \in File : Construct(o, f)
  PROVE  IInv'
<1>1. CASE ConstructDefault(o)
  <2>1. /\ guard' = [guard EXCEPT ![o] = Default] /\ guard[o] = NoObj
        /\ moved' = moved \ {o} /\ UNCHANGED <<entry, temp, image, saver>>
        /\ step = "idle" /\ step' = "idle" /\ SavedSoFar'
    BY <1>1, Quiet DEF ConstructDefault
  <2>2. TypeOK' /\ RetryIsWhole'
    BY <2>1, DefaultType DEF IInv, TypeOK, RetryIsWhole
  <2>3. OneOwner'
    BY <2>1, DefaultType DEF IInv, TypeOK, OneOwner, Owns
  <2>4. TmpIsOfFile' /\ MovedHoldsNothing'
    BY <2>1, DefaultType DEF IInv, TypeOK, TmpIsOfFile, MovedHoldsNothing
  <2> QED
    BY <2>1, <2>2, <2>3, <2>4 DEF IInv
<1>2. ASSUME NEW f \in File, Construct(o, f) PROVE IInv'
  <2> DEFINE g == [file |-> f, tmp |-> f]
  <2>1. g \in Guard /\ g # NoObj /\ g.tmp = f /\ g.file = f
    BY DEF Guard
  <2>2. /\ guard' = [guard EXCEPT ![o] = g] /\ guard[o] = NoObj
        /\ entry[f] = "none" /\ entry' = [entry EXCEPT ![f] = "ours"]
        /\ temp' = [temp EXCEPT ![f] = "empty"]
        /\ moved' = moved \ {o} /\ UNCHANGED <<image, saver>>
        /\ step = "idle" /\ step' = "idle" /\ SavedSoFar'
    BY <1>2, Quiet DEF Construct
  <2> HIDE DEF g
  <2>3. TypeOK' /\ RetryIsWhole'
    BY <2>1, <2>2 DEF IInv, TypeOK, RetryIsWhole, Content
  <2>4. OneOwner'
    BY <2>1, <2>2 DEF IInv, TypeOK, OneOwner, Owns
  <2>5. TmpIsOfFile' /\ MovedHoldsNothing'
    BY <2>1, <2>2 DEF IInv, TypeOK, TmpIsOfFile, MovedHoldsNothing
  <2> QED
    BY <2>2, <2>3, <2>4, <2>5 DEF IInv
<1> QED
  BY <1>1, <1>2

LEMMA DestroyIInv == ASSUME IInv, NEW o \in Obj, Destroy(o) PROVE IInv'
<1>1. /\ guard' = [guard EXCEPT ![o] = NoObj] /\ guard[o] # NoObj
      /\ UNCHANGED <<temp, image, moved, saver>>
      /\ guard[o] \in Guard
      /\ step = "idle" /\ step' = "idle" /\ SavedSoFar'
  BY Quiet DEF Destroy, IInv, TypeOK
<1>2. \/ guard[o].tmp = NoPath /\ UNCHANGED entry
      \/ /\ guard[o].tmp \in File
         /\ \E e \in {"none", "left"} :
                entry' = [entry EXCEPT ![guard[o].tmp] = e]
  BY <1>1 DEF Destroy, Guard
<1>3. TypeOK' /\ RetryIsWhole'
  BY <1>1, <1>2 DEF IInv, TypeOK, RetryIsWhole
<1>4. OneOwner'
  BY <1>1, <1>2 DEF IInv, TypeOK, OneOwner, Owns
<1>5. TmpIsOfFile' /\ MovedHoldsNothing'
  BY <1>1 DEF IInv, TypeOK, TmpIsOfFile, MovedHoldsNothing
<1> QED
  BY <1>1, <1>3, <1>4, <1>5 DEF IInv

\* The file that a running save writes to is the process's own, until it is
\* renamed.
LEMMA SaverOwns ==
  ASSUME IInv, step # "idle"
  PROVE  /\ saver \in Obj /\ guard[saver] \in Guard
         /\ guard[saver] # NoObj
         /\ guard[saver].tmp \in File
         /\ guard[saver].file = guard[saver].tmp
         /\ step # "renamed" => entry[guard[saver].tmp] = "ours"
<1>1. saver \in Obj /\ guard[saver] # NoObj /\ guard[saver].tmp # NoPath
  BY DEF IInv, TypeOK, SavedSoFar
<1>2. guard[saver] \in Guard
  BY <1>1 DEF IInv, TypeOK
<1>3. guard[saver].tmp \in File /\ guard[saver].file = guard[saver].tmp
  BY <1>1, <1>2 DEF Guard, IInv, TmpIsOfFile
<1> QED
  BY <1>1, <1>2, <1>3 DEF IInv, OneOwner, Owns

LEMMA OpenOutIInv == ASSUME IInv, NEW o \in Obj, OpenOut(o) PROVE IInv'
<1>1. /\ guard[o] # NoObj /\ guard[o].tmp \in File
      /\ step = "idle" /\ step' = "open" /\ saver' = o
      /\ temp' = [temp EXCEPT ![guard[o].tmp] = "empty"]
      /\ UNCHANGED <<guard, entry, image, moved>>
  BY DEF OpenOut, IInv, TypeOK, Guard
<1>2. /\ TypeOK' /\ RetryIsWhole' /\ TmpIsOfFile' /\ MovedHoldsNothing'
      /\ OneOwner'
  BY <1>1 DEF IInv, TypeOK, RetryIsWhole, TmpIsOfFile, MovedHoldsNothing,
     OneOwner, Owns, Content, Step
<1>3. SavedSoFar'
  <2>1. \A x \in Obj : Live(x) /\ guard[x].tmp = guard[o].tmp => x = o
    BY <1>1 DEF IInv, OneOwner, Owns
  <2>2. temp'[guard[o].tmp] = "empty" /\ o # NoObj
    BY <1>1 DEF IInv, TypeOK
  <2> QED
    BY <1>1, <2>1, <2>2 DEF SavedSoFar
<1> QED
  BY <1>2, <1>3 DEF IInv

LEMMA WriteIInv == ASSUME IInv, Write PROVE IInv'
<1> DEFINE f == guard[saver].tmp
<1>1. /\ f \in File /\ saver \in Obj
      /\ UNCHANGED <<guard, entry, image, moved, saver>>
      /\ \/ step = "open" /\ temp[f] = "empty" /\ step' = "half"
            /\ temp' = [temp EXCEPT ![f] = "part"]
         \/ step = "half" /\ temp[f] = "part" /\ step' = "full"
            /\ temp' = [temp EXCEPT ![f] = "whole"]
  BY SaverOwns DEF Write, IInv, TypeOK, SavedSoFar
<1> HIDE DEF f
<1>2. /\ TypeOK' /\ RetryIsWhole' /\ TmpIsOfFile' /\ MovedHoldsNothing'
      /\ OneOwner'
  BY <1>1 DEF IInv, TypeOK, RetryIsWhole, TmpIsOfFile, MovedHoldsNothing,
     OneOwner, Owns, Content, Step
<1>3. SavedSoFar'
  BY <1>1 DEF f, IInv, TypeOK, SavedSoFar
<1> QED
  BY <1>2, <1>3 DEF IInv

LEMMA RenameIInv == ASSUME IInv, Rename PROVE IInv'
<1> DEFINE f == guard[saver].tmp
<1>1. /\ f \in File /\ saver \in Obj /\ guard[saver].file = f
      /\ guard[saver] # NoObj
      /\ step = "full" /\ step' = "renamed" /\ temp[f] = "whole"
      /\ image' = [image EXCEPT ![f] = "whole"]
      /\ entry' = [entry EXCEPT ![f] = "none"]
      /\ UNCHANGED <<guard, temp, moved, saver>>
      /\ \A o \in Obj : Live(o) /\ guard[o].tmp = f => o = saver
  BY SaverOwns DEF Rename, IInv, TypeOK, SavedSoFar
<1>2. TypeOK' /\ RetryIsWhole' /\ TmpIsOfFile' /\ MovedHoldsNothing'
  BY <1>1 DEF f, IInv, TypeOK, RetryIsWhole, TmpIsOfFile, MovedHoldsNothing,
     Content, Step
<1>3. \A o \in Obj, x \in File :
        Owns(o, x)' <=> Owns(o, x) /\ x # f
  BY <1>1 DEF f, Owns
<1>4. OneOwner'
  BY <1>1, <1>3 DEF IInv, TypeOK, OneOwner
<1>5. SavedSoFar'
  BY <1>1 DEF IInv, SavedSoFar
<1> QED
  BY <1>2, <1>4, <1>5 DEF IInv

LEMMA ClearIInv == ASSUME IInv, Clear PROVE IInv'
<1> DEFINE f == guard[saver].tmp
           g == [guard[saver] EXCEPT !.tmp = NoPath]
<1>1. /\ saver \in Obj /\ guard[saver] # NoObj /\ f \in File
      /\ g \in Guard /\ g # NoObj /\ g.tmp = NoPath
      /\ guard' = [guard EXCEPT ![saver] = g]
      /\ step = "renamed" /\ step' = "idle" /\ saver' = NoObj
      /\ UNCHANGED <<entry, temp, image, moved>>
  BY SaverOwns DEF Clear, IInv, TypeOK, Guard
<1> HIDE DEF f, g
<1>2. TypeOK' /\ RetryIsWhole' /\ TmpIsOfFile' /\ MovedHoldsNothing'
  BY <1>1 DEF IInv, TypeOK, RetryIsWhole, TmpIsOfFile, MovedHoldsNothing,
     Step
<1>3. \A o \in Obj, x \in File : Owns(o, x)' <=> Owns(o, x)
  BY <1>1 DEF IInv, TypeOK, Owns
<1>4. OneOwner' /\ SavedSoFar'
  BY <1>1, <1>3 DEF IInv, OneOwner, SavedSoFar
<1> QED
  BY <1>2, <1>4 DEF IInv

LEMMA ThrowsIInv == ASSUME IInv, OverwriteThrows PROVE IInv'
<1>1. /\ step # "renamed" /\ step' = "idle" /\ saver' = NoObj
      /\ UNCHANGED <<guard, entry, temp, image, moved>>
  BY DEF OverwriteThrows
<1> QED
  BY <1>1 DEF IInv, TypeOK, RetryIsWhole, OneOwner, Owns, TmpIsOfFile,
     MovedHoldsNothing, SavedSoFar, Step

LEMMA TheyIInv ==
  ASSUME IInv, \/ \E f \in File : TheyLock(f) \/ TheyUnlock(f) \/ DeleteLeft(f)
               \/ UNCHANGED vars
  PROVE  IInv'
<1>1. UNCHANGED <<guard, temp, moved, saver, step>>
  BY DEF TheyLock, TheyUnlock, DeleteLeft
<1>2. /\ entry' \in [File -> {"none", "ours", "theirs", "left"}]
      /\ \A f \in File : entry'[f] = "ours" <=> entry[f] = "ours"
  BY DEF TheyLock, TheyUnlock, DeleteLeft, IInv, TypeOK
<1>3. image' \in [File -> Content \cup {"none"}] /\ RetryIsWhole'
  BY DEF TheyLock, TheyUnlock, DeleteLeft, IInv, TypeOK, RetryIsWhole, Content
<1>4. SavedSoFar'
  BY <1>1 DEF IInv, SavedSoFar
<1> QED
  BY <1>1, <1>2, <1>3, <1>4 DEF IInv, TypeOK, OneOwner, Owns, TmpIsOfFile,
     MovedHoldsNothing

LEMMA NextIInv == ASSUME IInv, [Next]_vars PROVE IInv'
  BY ConstructIInv, MoveIInv, AssignIInv, DestroyIInv, OpenOutIInv,
     WriteIInv, RenameIInv, ClearIInv, ThrowsIInv, TheyIInv DEF Next

\* The invariant that everything below follows from.
THEOREM Invariance == Spec => []IInv
<1>1. Init => IInv
  BY DEF Init, IInv, TypeOK, OneOwner, Owns, TmpIsOfFile, MovedHoldsNothing,
     RetryIsWhole, SavedSoFar, Content, Step
<1> QED
  BY <1>1, NextIInv, PTL DEF Spec

\* However many objects there are and however they are moved, assigned and
\* destroyed, each temporary file of the process has one owner (class
\* lock_overwrite_file).
THEOREM Ownership == Spec => []OneOwner
<1>1. IInv => OneOwner
  BY DEF IInv
<1> QED
  BY <1>1, Invariance, PTL

\* No object that was moved from holds a lock (operator= and swap).
THEOREM TheMovedHoldNothing == Spec => []MovedHoldsNothing
<1>1. IInv => MovedHoldsNothing
  BY DEF IInv
<1> QED
  BY <1>1, Invariance, PTL

\* What a save puts in the file's place is whole, though a former attempt of
\* the same object may have left a part of it in the temporary file: the
\* stream is opened with trunc, and nobody else writes there (overwrite).
THEOREM RetriesAreWhole == Spec => []RetryIsWhole
<1>1. IInv => RetryIsWhole
  BY DEF IInv
<1> QED
  BY <1>1, Invariance, PTL

\* No step of the process removes, renames or writes to the temporary file of
\* another: what its destructors and saves go by is a name, and the name is
\* cleared before it could be another's (overwrite, the destructor).
THEOREM TheirFilesAreKept == Spec => TheirsKept
<1> DEFINE Kept(f) ==
      entry[f] = "theirs" =>
        /\ temp'[f] = temp[f]
        /\ entry'[f] # "theirs" => UNCHANGED <<guard, moved, saving>>
<1>1. ASSUME IInv, [Next]_vars, NEW f \in File PROVE Kept(f)
  <2> SUFFICES ASSUME entry[f] = "theirs" PROVE Kept(f)
    OBVIOUS
  <2>1. ASSUME NEW o \in Obj, guard[o] # NoObj, step = "idle"
        PROVE  guard[o].tmp # f
    BY <1>1, <2>1 DEF IInv, TypeOK, OneOwner, Owns
  <2>2. ASSUME NEW o \in Obj, NEW g \in File, Construct(o, g) PROVE Kept(f)
    BY <1>1, <2>2 DEF Construct, IInv, TypeOK
  <2>3. ASSUME NEW o \in Obj, Destroy(o) PROVE Kept(f)
    <3>1. /\ UNCHANGED temp
          /\ entry' = entry
             \/ \E e \in {"none", "left"} :
                    entry' = [entry EXCEPT ![guard[o].tmp] = e]
      BY <2>3 DEF Destroy
    <3>2. entry'[f] = entry[f]
      BY <1>1, <2>1, <2>3, <3>1 DEF Destroy, IInv, TypeOK
    <3> QED
      BY <3>1, <3>2
  <2>4. ASSUME NEW o \in Obj, OpenOut(o) PROVE Kept(f)
    BY <1>1, <2>1, <2>4 DEF OpenOut, IInv, TypeOK
  <2>5. CASE Write \/ Rename
    <3>1. guard[saver].tmp # f
      BY <1>1, <2>5, SaverOwns DEF Write, Rename
    <3>2. CASE Write
      BY <1>1, <3>1, <3>2 DEF Write, IInv, TypeOK
    <3>3. CASE Rename
      BY <1>1, <3>1, <3>3 DEF Rename, IInv, TypeOK
    <3> QED
      BY <2>5, <3>2, <3>3
  <2>6. CASE Clear \/ OverwriteThrows
    BY <2>6 DEF Clear, OverwriteThrows
  <2>7. ASSUME NEW o \in Obj,
               ConstructDefault(o) \/ \E x \in Obj : Move(o, x) \/ Assign(o, x)
        PROVE  Kept(f)
    BY <2>7 DEF ConstructDefault, Move, Assign
  <2>8. ASSUME NEW g \in File, TheyLock(g) \/ TheyUnlock(g) \/ DeleteLeft(g)
        PROVE  Kept(f)
    BY <2>8 DEF TheyLock, TheyUnlock, DeleteLeft
  <2>9. CASE UNCHANGED vars
    BY <2>9
  <2> HIDE DEF Kept
  <2> QED
    BY <1>1, <2>2, <2>3, <2>4, <2>5, <2>6, <2>7, <2>8, <2>9 DEF Next
<1>2. IInv /\ [Next]_vars => \A f \in File : Kept(f)
  BY <1>1
<1> QED
  BY <1>2, Invariance, PTL DEF Spec, TheirsKept
=============================================================================
