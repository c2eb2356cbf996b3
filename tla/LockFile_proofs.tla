-------------------------- MODULE LockFile_proofs --------------------------
(***************************************************************************)
(* Proofs about LockFile, for any set of processes and any set of inodes:  *)
(* IInv is inductive, and from it the mutual exclusion, the absence of     *)
(* torn reads and lost updates, and the implementation of FileStore.       *)
(***************************************************************************)
EXTENDS LockFile, TLAPS

\* The vocabulary of every step: the invariant taken apart, the state sets.
USE NoInodeAssumption DEF IInv, TypeOK, State, Armed, Ended, Move, dirs,
    Exclusive

LEMMA InitIInv == Init => IInv
  BY DEF Init, NamesApart, Streams, UpToDate, AllOrNothing, DbVals, Content,
     Empty

(***************************************************************************)
(* What the steps that touch the database do to it.                        *)
(***************************************************************************)

\* A database that is there is one complete image.
LEMMA DbImage ==
  ASSUME IInv, dbPath # NoInode
  PROVE  content[dbPath] = [vals |-> DbVals, whole |-> TRUE]
  BY DEF NamesApart, Content, DbVals

\* rename() adds the update of the process that renames, and nothing else.
LEMMA RenameCommits ==
  ASSUME NEW p \in Proc, IInv, Rename(p)
  PROVE  /\ DbVals' = DbVals \cup {p}
         /\ dbPath' = tmpPath
         /\ content[tmpPath].whole
<1>1. content[tmpPath] = [vals |-> DbVals \cup {p}, whole |-> TRUE]
  BY DEF Rename, UpToDate
<1> QED
  BY <1>1 DEF Rename, DbVals

(***************************************************************************)
(* Each action keeps the invariant.                                        *)
(***************************************************************************)
LEMMA LockIInv == ASSUME NEW p \in Proc, IInv, Lock(p) PROVE IInv'
  BY DEF Lock, Free, Content, Empty, NamesApart, Streams, ReadIntact,
     UpToDate, AllOrNothing, DbVals

LEMMA LockBusyIInv == ASSUME NEW p \in Proc, IInv, LockBusy(p) PROVE IInv'
  BY DEF LockBusy, NamesApart, Streams, ReadIntact, UpToDate, AllOrNothing,
     DbVals

LEMMA LockErrorIInv == ASSUME NEW p \in Proc, IInv, LockError(p) PROVE IInv'
  BY DEF LockError, NamesApart, Streams, ReadIntact, UpToDate, AllOrNothing,
     DbVals

LEMMA OpenDbIInv == ASSUME NEW p \in Proc, IInv, OpenDb(p) PROVE IInv'
<1> USE DEF OpenDb
<1>1. TypeOK'
  BY DEF Content, DbVals
<1>2. Exclusive'
  OBVIOUS
<1>3. NamesApart'
  BY DEF NamesApart
<1>4. Streams'
  BY DbImage DEF Streams, ReadIntact, NamesApart
<1>5. UpToDate'
  BY DEF UpToDate, DbVals
<1>6. AllOrNothing'
  BY DEF AllOrNothing, DbVals
<1> QED
  BY <1>1, <1>2, <1>3, <1>4, <1>5, <1>6

LEMMA NoDbIInv == ASSUME NEW p \in Proc, IInv, NoDb(p) PROVE IInv'
<1> USE DEF NoDb
<1>1. TypeOK'
  BY DEF Content, DbVals
<1>2. Exclusive'
  OBVIOUS
<1>3. NamesApart'
  BY DEF NamesApart
<1>4. Streams'
  BY DEF Streams, ReadIntact, NamesApart, DbVals
<1>5. UpToDate'
  BY DEF UpToDate, DbVals
<1>6. AllOrNothing'
  BY DEF AllOrNothing, DbVals
<1> QED
  BY <1>1, <1>2, <1>3, <1>4, <1>5, <1>6

LEMMA FinishLoadIInv == ASSUME NEW p \in Proc, IInv, FinishLoad(p) PROVE IInv'
  BY DEF FinishLoad, NamesApart, Streams, ReadIntact, UpToDate,
     AllOrNothing, DbVals

LEMMA OpenOutIInv == ASSUME NEW p \in Proc, IInv, OpenOut(p) PROVE IInv'
  BY DEF OpenOut, Free, Content, Empty, NamesApart, Streams, ReadIntact,
     UpToDate, AllOrNothing, DbVals

LEMMA CloseIInv == ASSUME NEW p \in Proc, IInv, Close(p) PROVE IInv'
<1> USE DEF Close
<1>1. TypeOK'
  BY DEF Content, Streams, ReadIntact
<1>2. Exclusive'
  OBVIOUS
<1>3. NamesApart'
  BY DEF NamesApart, Streams, ReadIntact
<1>4. Streams'
  BY DEF Streams, ReadIntact
<1>5. UpToDate'
  BY DEF UpToDate, DbVals, Streams, ReadIntact, NamesApart
<1>6. AllOrNothing'
  BY DEF AllOrNothing, DbVals, Streams, ReadIntact, NamesApart
<1> QED
  BY <1>1, <1>2, <1>3, <1>4, <1>5, <1>6

LEMMA RenameIInv == ASSUME NEW p \in Proc, IInv, Rename(p) PROVE IInv'
<1> USE DEF Rename
<1>1. TypeOK'
  OBVIOUS
<1>2. Exclusive'
  OBVIOUS
<1>3. NamesApart'
  BY RenameCommits DEF NamesApart
<1>4. Streams'
  BY DEF Streams, ReadIntact
<1>5. UpToDate'
  BY DEF UpToDate
<1>6. AllOrNothing'
  BY RenameCommits DEF AllOrNothing
<1> QED
  BY <1>1, <1>2, <1>3, <1>4, <1>5, <1>6

LEMMA ClearIInv == ASSUME NEW p \in Proc, IInv, Clear(p) PROVE IInv'
  BY DEF Clear, NamesApart, Streams, ReadIntact, UpToDate, AllOrNothing, DbVals

LEMMA ThrowIInv == ASSUME NEW p \in Proc, IInv, Throw(p) PROVE IInv'
  BY DEF Throw, Throwing, NamesApart, Streams, ReadIntact, UpToDate,
     AllOrNothing, DbVals

LEMMA QuitIInv == ASSUME NEW p \in Proc, IInv, Quit(p) PROVE IInv'
  BY DEF Quit, NamesApart, Streams, ReadIntact, UpToDate, AllOrNothing, DbVals

LEMMA DestroyIInv == ASSUME NEW p \in Proc, IInv, Destroy(p) PROVE IInv'
  BY DEF Destroy, NamesApart, Streams, ReadIntact, UpToDate, AllOrNothing,
     DbVals

LEMMA DestroyIgnoresErrorIInv ==
  ASSUME NEW p \in Proc, IInv, DestroyIgnoresError(p) PROVE IInv'
  BY DEF DestroyIgnoresError, NamesApart, Streams, ReadIntact, UpToDate,
     AllOrNothing, DbVals

LEMMA CrashIInv == ASSUME NEW p \in Proc, IInv, Crash(p) PROVE IInv'
  BY DEF Crash, NamesApart, Streams, ReadIntact, UpToDate, AllOrNothing, DbVals

LEMMA OpenExportIInv == ASSUME NEW p \in Proc, IInv, OpenExport(p) PROVE IInv'
<1> USE DEF OpenExport
<1>1. TypeOK'
  BY DEF Content, DbVals
<1>2. Exclusive'
  OBVIOUS
<1>3. NamesApart'
  BY DEF NamesApart
<1>4. Streams'
  BY DbImage DEF Streams, ReadIntact, NamesApart
<1>5. UpToDate'
  BY DEF UpToDate, DbVals
<1>6. AllOrNothing'
  BY DEF AllOrNothing, DbVals
<1> QED
  BY <1>1, <1>2, <1>3, <1>4, <1>5, <1>6

LEMMA ExportNoDbIInv == ASSUME NEW p \in Proc, IInv, ExportNoDb(p) PROVE IInv'
  BY DEF ExportNoDb, NamesApart, Streams, ReadIntact, UpToDate,
     AllOrNothing, DbVals

LEMMA FinishExportIInv ==
  ASSUME NEW p \in Proc, IInv, FinishExport(p) PROVE IInv'
  BY DEF FinishExport, NamesApart, Streams, ReadIntact, UpToDate,
     AllOrNothing, DbVals

LEMMA ExportThrowIInv == ASSUME NEW p \in Proc, IInv, ExportThrow(p) PROVE IInv'
  BY DEF ExportThrow, NamesApart, Streams, ReadIntact, UpToDate,
     AllOrNothing, DbVals

LEMMA DeleteStaleIInv == ASSUME IInv, DeleteStale PROVE IInv'
  BY DEF DeleteStale, NamesApart, Streams, ReadIntact, UpToDate,
     AllOrNothing, DbVals

LEMMA NextIInv == IInv /\ [Next]_vars => IInv'
<1> SUFFICES ASSUME IInv, [Next]_vars PROVE IInv'
  OBVIOUS
<1>1. CASE Next
  BY <1>1, LockIInv, LockBusyIInv, LockErrorIInv, OpenDbIInv, NoDbIInv,
     FinishLoadIInv, OpenOutIInv, CloseIInv, QuitIInv, ThrowIInv,
     CrashIInv, OpenExportIInv, ExportNoDbIInv, FinishExportIInv,
     ExportThrowIInv, RenameIInv, ClearIInv, DestroyIInv,
     DestroyIgnoresErrorIInv, DeleteStaleIInv
     DEF Next, Leave
<1>2. CASE UNCHANGED vars
  BY <1>2 DEF vars, NamesApart, Streams, ReadIntact, UpToDate, AllOrNothing,
     DbVals
<1> QED
  BY <1>1, <1>2

\* The inductive invariant holds in every reachable state.
THEOREM Invariance == Spec => []IInv
<1>1. Init => IInv
  BY InitIInv
<1>2. IInv /\ [Next]_vars => IInv'
  BY NextIInv
<1> QED
  BY <1>1, <1>2, PTL DEF Spec

(***************************************************************************)
(* What follows from it.                                                   *)
(***************************************************************************)

\* The temporary file is a lock: at most one running process owns it.
THEOREM MutualExclusion == Spec => []Exclusive
<1>1. IInv => Exclusive
  OBVIOUS
<1> QED
  BY <1>1, Invariance, PTL

\* No process, with or without the lock, reads half of one image and half of
\* another, or an image that was never finished.
THEOREM ReadersSeeOneImage == Spec => []NoTornRead
<1>1. IInv => NoTornRead
  BY DEF Streams, NoTornRead
<1> QED
  BY <1>1, Invariance, PTL

\* The database is never a half-written or still open file.
THEOREM DatabaseIsWhole == Spec => []DbIsWhole
<1>1. IInv => DbIsWhole
  BY DEF Streams, NamesApart, DbIsWhole
<1> QED
  BY <1>1, Invariance, PTL

\* The exit of a process tells whether its update is in the database.
THEOREM Atomicity == Spec => []AllOrNothing
<1>1. IInv => AllOrNothing
  OBVIOUS
<1> QED
  BY <1>1, Invariance, PTL

\* Only rename() changes what the database carries, and it only adds to it.
LEMMA StepKeepsUpdates == IInv /\ [Next]_vars => DbVals \subseteq DbVals'
<1> SUFFICES ASSUME IInv, [Next]_vars PROVE DbVals \subseteq DbVals'
  OBVIOUS
<1>1. ASSUME NEW p \in Proc, Rename(p) PROVE DbVals \subseteq DbVals'
  BY RenameCommits, <1>1
<1>2. ASSUME dbPath' = dbPath, NEW i \in Inode \cup {NoInode}, i # dbPath,
             \A j \in Inode : j # i => content'[j] = content[j]
      PROVE  DbVals \subseteq DbVals'
  BY <1>2 DEF DbVals
<1>3. ASSUME NEW p \in Proc, Lock(p) PROVE DbVals \subseteq DbVals'
  BY <1>2, <1>3 DEF Lock, Free
<1>4. ASSUME NEW p \in Proc, OpenOut(p) PROVE DbVals \subseteq DbVals'
  BY <1>2, <1>4 DEF OpenOut, Free, NamesApart
<1>5. ASSUME NEW p \in Proc, Close(p) PROVE DbVals \subseteq DbVals'
  BY <1>2, <1>5 DEF Close, Streams, NamesApart
<1>6. ASSUME UNCHANGED <<content, dbPath>> PROVE DbVals \subseteq DbVals'
  BY <1>6 DEF DbVals
<1> QED
  BY <1>1, <1>3, <1>4, <1>5, <1>6
     DEF Next, Leave, vars, LockBusy, LockError, OpenDb, NoDb, FinishLoad,
         Quit, Throw, Crash, OpenExport, ExportNoDb, FinishExport,
         ExportThrow, Clear, Destroy, DestroyIgnoresError, DeleteStale

\* An update that is in the database stays in it.
THEOREM UpdatesAreKept == Spec => NoLostUpdate
<1>1. IInv /\ [Next]_vars => [DbVals \subseteq DbVals']_vars
  BY StepKeepsUpdates
<1> QED
  BY <1>1, Invariance, PTL DEF Spec, NoLostUpdate

(***************************************************************************)
(* Where an ownerless temporary file comes from.                           *)
(***************************************************************************)

\* A process that ended stays where it is, and one that stops owning the
\* temporary file was killed, failed to remove it, or leaves none behind.
Departure(p) ==
    /\ st[p] \notin Ended
    /\ \A r \in Proc \ {p} : st'[r] = st[r]
    /\ st[p] \in Armed
           => st'[p] \in Armed \cup {"dead", "leaked"} \/ tmpPath' = NoInode

LEMMA StepIsDeparture ==
  ASSUME IInv, NEW p \in Proc,
         \/ Lock(p) \/ LockBusy(p) \/ LockError(p)
         \/ OpenDb(p) \/ NoDb(p) \/ FinishLoad(p)
         \/ OpenOut(p) \/ Close(p)
         \/ Quit(p) \/ Throw(p) \/ Crash(p)
         \/ OpenExport(p) \/ ExportNoDb(p) \/ FinishExport(p) \/ ExportThrow(p)
         \/ Leave(p)
  PROVE  Departure(p)
  BY DEF Departure, Leave, Lock, LockBusy, LockError, OpenDb, NoDb,
     FinishLoad, OpenOut,
     Close, Rename, Quit, Throw, Throwing, Crash, OpenExport,
     ExportNoDb, FinishExport, ExportThrow, Clear, Destroy,
     DestroyIgnoresError

LEMMA StepKeepsBlame ==
  ASSUME IInv, StaleOnlyAfterCrash, [Next]_vars
  PROVE  StaleOnlyAfterCrash'
<1> USE DEF StaleOnlyAfterCrash
<1>1. ASSUME NEW p \in Proc, Departure(p), tmpPath' = tmpPath
      PROVE  StaleOnlyAfterCrash'
  <2>1. ASSUME NEW r \in Proc, st[r] \in {"dead", "leaked"}
        PROVE  st'[r] \in {"dead", "leaked"}
    BY <1>1, <2>1 DEF Departure
  <2>2. ASSUME NEW r \in Proc, st[r] \in Armed, tmpPath # NoInode
        PROVE  st'[r] \in Armed \cup {"dead", "leaked"}
    BY <1>1, <2>2 DEF Departure
  <2> QED
    BY <1>1, <2>1, <2>2
<1>2. ASSUME Next, tmpPath' # tmpPath, tmpPath' # NoInode
      PROVE  \E p \in Proc : st'[p] \in Armed
  BY <1>2 DEF Next, Leave, DeleteStale, Lock, LockBusy, LockError, OpenDb,
     NoDb, FinishLoad, OpenOut,
     Close, Rename, Quit, Throw, Throwing, Crash, OpenExport,
     ExportNoDb, FinishExport, ExportThrow, Clear, Destroy,
     DestroyIgnoresError
<1>3. CASE Next
  <2>1. CASE \E p \in Proc : Departure(p)
    BY <1>1, <1>2, <1>3, <2>1
  <2>2. CASE DeleteStale
    BY <2>2 DEF DeleteStale
  <2> QED
    BY <1>3, <2>1, <2>2, StepIsDeparture DEF Next
<1>4. CASE UNCHANGED vars
  BY <1>4 DEF vars
<1> QED
  BY <1>3, <1>4

\* No step but a kill or an ignored error of remove() orphans the file.
THEOREM StaleFileHasACulprit == Spec => []StaleOnlyAfterCrash
<1>1. Init => StaleOnlyAfterCrash
  BY DEF Init, StaleOnlyAfterCrash
<1>2. IInv /\ StaleOnlyAfterCrash /\ [Next]_vars => StaleOnlyAfterCrash'
  BY StepKeepsBlame
<1> QED
  BY <1>1, <1>2, Invariance, PTL DEF Spec

(***************************************************************************)
(* The file protocol implements the abstract store.                        *)
(***************************************************************************)

\* A step of one process is a step of its phase.
LEMMA PhaseStep ==
  ASSUME NEW p \in Proc, NEW s, TypeOK, st' = [st EXCEPT ![p] = s]
  PROVE  Phases' = [Phases EXCEPT ![p] = PhaseOf(s)]
  BY DEF Phases

\* A step of a process that leaves its phase alone, and the store with it.
LEMMA SamePhase ==
  ASSUME NEW p \in Proc, NEW s, TypeOK, st' = [st EXCEPT ![p] = s],
         PhaseOf(s) = PhaseOf(st[p])
  PROVE  Phases' = Phases
  BY DEF Phases

LEMMA InitStore == Init => Store!Init
  BY DEF Init, Store!Init, Phases, PhaseOf, DbVals

\* The constructor makes an owner.
LEMMA LockIsOwn ==
  ASSUME NEW p \in Proc, IInv, Lock(p) PROVE Store!Own(p)
<1>1. Phases' = [Phases EXCEPT ![p] = "owner"] /\ Phases[p] = "idle"
  BY PhaseStep DEF Lock, PhaseOf, Phases
<1>2. DbVals' = DbVals
  BY DEF Lock, Free, DbVals
<1>3. tmpPath = NoInode /\ tmpPath' # NoInode /\ seen' = seen
  BY DEF Lock
<1> QED
  BY <1>1, <1>2, <1>3 DEF Store!Own, Store!Move

\* Opening the database under the lock is the look, whether it is there or not.
LEMMA OpenIsLook ==
  ASSUME NEW p \in Proc, IInv, OpenDb(p) \/ NoDb(p) PROVE Store!Look(p)
<1>1. Phases' = Phases /\ Phases[p] = "owner"
  BY SamePhase DEF OpenDb, NoDb, PhaseOf, Phases
<1>2. DbVals' = DbVals /\ tmpPath' = tmpPath
  BY DEF OpenDb, NoDb, DbVals
<1>3. seen' = [seen EXCEPT ![p] = DbVals]
  BY DEF OpenDb, NoDb, DbVals
<1> QED
  BY <1>1, <1>2, <1>3 DEF Store!Look

\* An export looks without the lock.
LEMMA ExportIsPeek ==
  ASSUME NEW p \in Proc, IInv, OpenExport(p) PROVE Store!Peek(p)
<1>1. Phases' = [Phases EXCEPT ![p] = "viewer"] /\ Phases[p] = "idle"
  BY PhaseStep DEF OpenExport, PhaseOf, Phases
<1>2. DbVals' = DbVals /\ tmpPath' = tmpPath
  BY DEF OpenExport, DbVals
<1>3. seen' = [seen EXCEPT ![p] = DbVals]
  BY DEF OpenExport
<1> QED
  BY <1>1, <1>2, <1>3 DEF Store!Peek, Store!Move

\* rename() is the commit point.
LEMMA RenameIsCommit ==
  ASSUME NEW p \in Proc, IInv, Rename(p) PROVE Store!Commit(p)
<1>1. Phases' = [Phases EXCEPT ![p] = "committed"] /\ Phases[p] = "owner"
  BY PhaseStep DEF Rename, PhaseOf, Phases
<1>2. tmpPath' = NoInode /\ seen' = seen
  BY DEF Rename
<1> QED
  BY <1>1, <1>2, RenameCommits DEF Store!Commit, Store!Move

\* The destructor gives the lock back.
LEMMA DestroyIsAbort ==
  ASSUME NEW p \in Proc, IInv, Destroy(p) PROVE Store!Abort(p)
<1>1. Phases' = [Phases EXCEPT ![p] = "ended"] /\ Phases[p] = "owner"
  BY PhaseStep DEF Destroy, PhaseOf, Phases
<1>2. DbVals' = DbVals /\ tmpPath' = NoInode /\ seen' = seen
  BY DEF Destroy, DbVals
<1> QED
  BY <1>1, <1>2 DEF Store!Abort, Store!Move

\* A process that ends and touches no file.
LEMMA EndIsEnd ==
  ASSUME NEW p \in Proc, IInv,
         \/ LockBusy(p) \/ LockError(p) \/ Crash(p) \/ DestroyIgnoresError(p)
         \/ ExportNoDb(p) \/ FinishExport(p) \/ ExportThrow(p)
  PROVE  Store!End(p)
<1>1. /\ Phases' = [Phases EXCEPT ![p] = "ended"]
      /\ Phases[p] \in {"idle", "owner", "viewer", "committed"}
  BY PhaseStep DEF LockBusy, LockError, Crash, DestroyIgnoresError, ExportNoDb,
     FinishExport, ExportThrow, PhaseOf, Phases
<1>2. DbVals' = DbVals /\ tmpPath' = tmpPath /\ seen' = seen
  BY DEF LockBusy, LockError, Crash, DestroyIgnoresError, ExportNoDb,
     FinishExport, ExportThrow, DbVals
<1> QED
  BY <1>1, <1>2 DEF Store!End, Store!Move

\* Reading to the end, writing, and the way out change nothing to be seen.
LEMMA InnerIsStutter ==
  ASSUME NEW p \in Proc, IInv,
         \/ FinishLoad(p) \/ OpenOut(p) \/ Close(p)
         \/ Quit(p) \/ Throw(p) \/ Clear(p)
  PROVE  UNCHANGED Store!vars
<1>1. Phases' = Phases
  BY SamePhase DEF FinishLoad, OpenOut, Close, Quit, Throw, Throwing, Clear,
     PhaseOf
<1>2. DbVals' = DbVals
  BY DEF FinishLoad, OpenOut, Close, Quit, Throw, Clear, DbVals, Free, Streams,
     NamesApart
<1>3. (tmpPath' # NoInode) = (tmpPath # NoInode) /\ seen' = seen
  BY DEF FinishLoad, OpenOut, Close, Quit, Throw, Clear
<1> QED
  BY <1>1, <1>2, <1>3 DEF Store!vars

\* The user's rm is the unlock.
LEMMA DeleteIsUnlock == ASSUME IInv, DeleteStale PROVE Store!Unlock
<1>1. Phases' = Phases /\ \A p \in Proc : Phases[p] # "owner"
  BY DEF DeleteStale, PhaseOf, Phases
<1>2. /\ DbVals' = DbVals /\ seen' = seen
      /\ tmpPath # NoInode /\ tmpPath' = NoInode
  BY DEF DeleteStale, DbVals
<1> QED
  BY <1>1, <1>2 DEF Store!Unlock

LEMMA StepIsStoreStep == IInv /\ [Next]_vars => [Store!Next]_(Store!vars)
<1> SUFFICES ASSUME IInv, [Next]_vars PROVE [Store!Next]_(Store!vars)
  OBVIOUS
<1>1. CASE Next
  BY <1>1, LockIsOwn, OpenIsLook, ExportIsPeek, RenameIsCommit, DestroyIsAbort,
     EndIsEnd, InnerIsStutter, DeleteIsUnlock
     DEF Next, Leave, Store!Next
<1>2. CASE UNCHANGED vars
  BY <1>2 DEF vars, Store!vars, Phases, DbVals
<1> QED
  BY <1>1, <1>2

\* Every behaviour of the file protocol, with any number of processes and
\* crashes, is a behaviour of the abstract store.
THEOREM ImplementsStore == Spec => StoreSpec
<1>1. Init => Store!Init
  BY InitStore
<1>2. IInv /\ [Next]_vars => [Store!Next]_(Store!vars)
  BY StepIsStoreStep
<1> QED
  BY <1>1, <1>2, Invariance, PTL DEF Spec, StoreSpec, Store!Spec

=============================================================================
