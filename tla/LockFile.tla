------------------------------ MODULE LockFile ------------------------------
(***************************************************************************)
(* lock_overwrite_file (src/util.cc, include/pwdb/util.h): how invocations *)
(* of the program share one database file.                                 *)
(*                                                                         *)
(* A writer creates <file>.tmp with O_CREAT|O_EXCL -- the file it creates  *)
(* IS the lock -- reads the database, changes it in memory, rewrites the   *)
(* temporary file and renames it over the database, or drops it.  "export" *)
(* reads the database with no lock at all.                                 *)
(*                                                                         *)
(* The directory has the two entries, each naming an inode or nothing; a   *)
(* stream holds an inode, not a name.  A database image is abstracted to   *)
(* the set of invocations whose update it carries and to whether it was    *)
(* written to the end: an empty or half-written file is not whole.         *)
(***************************************************************************)
CONSTANTS
    Proc,           \* invocations of the program (a process runs once)
    Inode,          \* inodes of the file system
    NoInode         \* a directory entry or a stream that names nothing

ASSUME NoInodeAssumption == NoInode \notin Inode

VARIABLES
    content,        \* what each inode holds
    dbPath,         \* the inode at file_
    tmpPath,        \* the inode at tmp_file_
    st,             \* where each process is
    out,            \* the inode of the stream that overwrite() writes
    in,             \* the inode of the stream that read_from_pwdb reads
    seen            \* the updates in the image each process read

dirs == <<dbPath, tmpPath>>
vars == <<content, dbPath, tmpPath, st, out, in, seen>>

Content == [vals : SUBSET Proc, whole : BOOLEAN]
Empty == [vals |-> {}, whole |-> FALSE]

(***************************************************************************)
(* A process in an Armed state has a live guard object whose tmp_file_ is  *)
(* not empty: its destructor will remove the temporary file.               *)
(***************************************************************************)
Armed == {"locked", "loading", "loaded", "writing", "closed",
          "aborting", "closing"}
Throwing == {"locked", "loading", "loaded", "writing", "closed"}
Ended == {"saved", "done", "failed", "leaked", "exported", "dead"}
State == {"start", "renamed", "exporting"} \cup Armed \cup Ended

\* The updates in the database that a process opening it now would read.
DbVals == IF dbPath = NoInode THEN {} ELSE content[dbPath].vals

\* An inode the file system may hand out: no entry and no stream names it.
Free(i) ==
    /\ i \notin {dbPath, tmpPath}
    /\ \A p \in Proc : i \notin {out[p], in[p]}

Move(p, from, to) ==
    /\ st[p] \in from
    /\ st' = [st EXCEPT ![p] = to]

Init ==
    /\ content = [i \in Inode |-> Empty]
    /\ dbPath = NoInode
    /\ tmpPath = NoInode
    /\ st = [p \in Proc |-> "start"]
    /\ out = [p \in Proc |-> NoInode]
    /\ in = [p \in Proc |-> NoInode]
    /\ seen = [p \in Proc |-> {}]

-----------------------------------------------------------------------------
(***************************************************************************)
(* Wrong forms of the operations below.  None is part of the specification:*)
(* each puts one plausible mistake in the place of an operation, to see the*)
(* property that guards against it fail.                                   *)
(***************************************************************************)

\* O_EXCL is forgotten: an existing temporary file is opened, not refused.
LockNotExclusive(p) ==
    /\ Move(p, {"start"}, "locked")
    /\ \E i \in Inode :
        /\ IF tmpPath = NoInode THEN Free(i) ELSE i = tmpPath
        /\ tmpPath' = i
    /\ UNCHANGED <<content, dbPath, out, in, seen>>

\* EEXIST is taken for a stale file and the file for one's own.
LockBusyTakesOver(p) ==
    /\ Move(p, {"start"}, "locked")
    /\ tmpPath # NoInode
    /\ UNCHANGED <<content, dirs, out, in, seen>>

\* The constructor cleans up after itself when it finds the file in use.
LockBusyRemoves(p) ==
    /\ Move(p, {"start"}, "failed")
    /\ tmpPath # NoInode
    /\ tmpPath' = NoInode
    /\ UNCHANGED <<content, dbPath, out, in, seen>>

\* The database itself is opened for writing, and truncated.
OpenOutInPlace(p) ==
    /\ Move(p, {"loaded"}, "writing")
    /\ \E i \in Inode :
        /\ IF dbPath = NoInode THEN Free(i) ELSE i = dbPath
        /\ dbPath' = i
        /\ out' = [out EXCEPT ![p] = i]
        /\ content' = [content EXCEPT ![i] = Empty]
    /\ UNCHANGED <<tmpPath, in, seen>>

\* The writer holds a copy of the database from before it was modified.
CloseStaleCopy(p) ==
    /\ Move(p, {"writing"}, "closed")
    /\ content' = [content EXCEPT ![out[p]] =
                      [vals |-> seen[p], whole |-> TRUE]]
    /\ out' = [out EXCEPT ![p] = NoInode]
    /\ UNCHANGED <<dirs, in, seen>>

\* The file is renamed before its stream is closed.
RenameUnclosed(p) ==
    /\ Move(p, {"writing", "closed"}, "renamed")
    /\ tmpPath # NoInode
    /\ dbPath' = tmpPath
    /\ tmpPath' = NoInode
    /\ UNCHANGED <<content, out, in, seen>>

\* rename() fails and the error code is not looked at.
RenameUnchecked(p) ==
    /\ Move(p, {"closed"}, "renamed")
    /\ UNCHANGED <<content, dirs, out, in, seen>>

\* The destructor forgets the file when an exception unwinds the guard.
DestroyOnReturnOnly(p) ==
    \/ /\ Move(p, {"aborting"}, "failed")
       /\ UNCHANGED <<content, dirs, out, in, seen>>
    \/ /\ Move(p, {"closing"}, "done")
       /\ tmpPath' = NoInode
       /\ UNCHANGED <<content, dbPath, out, in, seen>>

-----------------------------------------------------------------------------
(***************************************************************************)
(* The constructor.                                                        *)
(***************************************************************************)

\* open(O_CREAT | O_EXCL) creates the temporary file: the process has the lock.
Lock(p) ==
    /\ Move(p, {"start"}, "locked")
    /\ tmpPath = NoInode
    /\ \E i \in Inode :
        /\ Free(i)
        /\ tmpPath' = i
        /\ content' = [content EXCEPT ![i] = Empty]
    /\ UNCHANGED <<dbPath, out, in, seen>>

\* EEXIST: "File in use". The constructor throws, so no destructor will run.
LockBusy(p) ==
    /\ Move(p, {"start"}, "failed")
    /\ tmpPath # NoInode
    /\ UNCHANGED <<content, dirs, out, in, seen>>

\* Resolving the path, creating the directories or open() failed otherwise.
LockError(p) ==
    /\ Move(p, {"start"}, "failed")
    /\ UNCHANGED <<content, dirs, out, in, seen>>

-----------------------------------------------------------------------------
(***************************************************************************)
(* Reading under the lock, as subcmd_open, _recrypt and _import do.        *)
(***************************************************************************)

\* fs::exists(db_file) is true and the stream is opened on the inode there.
OpenDb(p) ==
    /\ Move(p, {"locked"}, "loading")
    /\ dbPath # NoInode
    /\ in' = [in EXCEPT ![p] = dbPath]
    /\ seen' = [seen EXCEPT ![p] = DbVals]
    /\ UNCHANGED <<content, dirs, out>>

\* fs::exists(db_file) is false: the process starts from an empty database.
NoDb(p) ==
    /\ Move(p, {"locked"}, "loaded")
    /\ dbPath = NoInode
    /\ seen' = [seen EXCEPT ![p] = {}]
    /\ UNCHANGED <<content, dirs, out, in>>

\* What p began to read is what it reads to the end, and it is complete.
ReadIntact(p) == content[in[p]] = [vals |-> seen[p], whole |-> TRUE]

\* decode_data succeeds on an intact image and throws on any other.
FinishLoad(p) ==
    /\ Move(p, {"loading"}, IF ReadIntact(p) THEN "loaded" ELSE "aborting")
    /\ in' = [in EXCEPT ![p] = NoInode]
    /\ UNCHANGED <<content, dirs, out, seen>>

-----------------------------------------------------------------------------
(***************************************************************************)
(* overwrite().                                                            *)
(***************************************************************************)

\* The stream is opened by name, created if absent and truncated.
OpenOut(p) ==
    /\ Move(p, {"loaded"}, "writing")
    /\ \E i \in Inode :
        /\ IF tmpPath = NoInode THEN Free(i) ELSE i = tmpPath
        /\ tmpPath' = i
        /\ out' = [out EXCEPT ![p] = i]
        /\ content' = [content EXCEPT ![i] = Empty]
    /\ UNCHANGED <<dbPath, in, seen>>

\* writer(out) has written everything and out.close() has flushed it.
Close(p) ==
    /\ Move(p, {"writing"}, "closed")
    /\ content' = [content EXCEPT ![out[p]] =
                      [vals |-> seen[p] \cup {p}, whole |-> TRUE]]
    /\ out' = [out EXCEPT ![p] = NoInode]
    /\ UNCHANGED <<dirs, in, seen>>

\* fs::rename by names: whatever tmp_file_ names becomes the database.
Rename(p) ==
    /\ Move(p, {"closed"}, "renamed")
    /\ tmpPath # NoInode
    /\ dbPath' = tmpPath
    /\ tmpPath' = NoInode
    /\ UNCHANGED <<content, out, in, seen>>

\* tmp_file_.clear(): the destructor has nothing left to remove.
Clear(p) ==
    /\ Move(p, {"renamed"}, "saved")
    /\ UNCHANGED <<content, dirs, out, in, seen>>

-----------------------------------------------------------------------------
(***************************************************************************)
(* Leaving the scope of the guard.                                         *)
(***************************************************************************)

\* Any call under the lock may throw: gpg, the parser, the stream, rename.
Throw(p) ==
    /\ Move(p, Throwing, "aborting")
    /\ out' = [out EXCEPT ![p] = NoInode]
    /\ in' = [in EXCEPT ![p] = NoInode]
    /\ UNCHANGED <<content, dirs, seen>>

\* Nothing was modified: the scope ends with no call to overwrite().
Quit(p) ==
    /\ Move(p, {"loaded"}, "closing")
    /\ UNCHANGED <<content, dirs, out, in, seen>>

\* The destructor removes whatever the name tmp_file_ stands for.
Destroy(p) ==
    /\ \/ Move(p, {"aborting"}, "failed")
       \/ Move(p, {"closing"}, "done")
    /\ tmpPath' = NoInode
    /\ UNCHANGED <<content, dbPath, out, in, seen>>

\* fs::remove(tmp_file_, ec) fails and the error code is not looked at.
DestroyIgnoresError(p) ==
    /\ Move(p, {"aborting", "closing"}, "leaked")
    /\ UNCHANGED <<content, dirs, out, in, seen>>

\* The process is killed: no destructor runs, the kernel closes its streams.
Crash(p) ==
    /\ Move(p, Armed \cup {"renamed", "exporting"}, "dead")
    /\ out' = [out EXCEPT ![p] = NoInode]
    /\ in' = [in EXCEPT ![p] = NoInode]
    /\ UNCHANGED <<content, dirs, seen>>

\* The user deletes a temporary file that no running program owns.
DeleteStale ==
    /\ tmpPath # NoInode
    /\ \A p \in Proc : st[p] \notin Armed
    /\ tmpPath' = NoInode
    /\ UNCHANGED <<content, dbPath, st, out, in, seen>>

-----------------------------------------------------------------------------
(***************************************************************************)
(* subcmd_export reads with no lock.                                       *)
(***************************************************************************)

OpenExport(p) ==
    /\ Move(p, {"start"}, "exporting")
    /\ dbPath # NoInode
    /\ in' = [in EXCEPT ![p] = dbPath]
    /\ seen' = [seen EXCEPT ![p] = DbVals]
    /\ UNCHANGED <<content, dirs, out>>

\* "File does not exist": the export throws before it reads anything.
ExportNoDb(p) ==
    /\ Move(p, {"start"}, "failed")
    /\ dbPath = NoInode
    /\ UNCHANGED <<content, dirs, out, in, seen>>

FinishExport(p) ==
    /\ Move(p, {"exporting"}, IF ReadIntact(p) THEN "exported" ELSE "failed")
    /\ in' = [in EXCEPT ![p] = NoInode]
    /\ UNCHANGED <<content, dirs, out, seen>>

\* A failure of the export itself, after the database was opened.
ExportThrow(p) ==
    /\ Move(p, {"exporting"}, "failed")
    /\ in' = [in EXCEPT ![p] = NoInode]
    /\ UNCHANGED <<content, dirs, out, seen>>

-----------------------------------------------------------------------------
\* The steps that wait for nobody: no user at a prompt, no passphrase.
Leave(p) == Rename(p) \/ Clear(p) \/ Destroy(p) \/ DestroyIgnoresError(p)

Next ==
    \/ \E p \in Proc :
        \/ Lock(p) \/ LockBusy(p) \/ LockError(p)
        \/ OpenDb(p) \/ NoDb(p) \/ FinishLoad(p)
        \/ OpenOut(p) \/ Close(p)
        \/ Quit(p) \/ Throw(p) \/ Crash(p)
        \/ OpenExport(p) \/ ExportNoDb(p) \/ FinishExport(p) \/ ExportThrow(p)
        \/ Leave(p)
    \/ DeleteStale

Spec == Init /\ [][Next]_vars

FairSpec == Spec /\ \A p \in Proc : WF_vars(Leave(p))

-----------------------------------------------------------------------------
(***************************************************************************)
(* Properties.                                                             *)
(***************************************************************************)

\* The shape of the state (util.h:46-47 and the two directory entries).
TypeOK ==
    /\ content \in [Inode -> Content]
    /\ dbPath \in Inode \cup {NoInode}
    /\ tmpPath \in Inode \cup {NoInode}
    /\ st \in [Proc -> State]
    /\ out \in [Proc -> Inode \cup {NoInode}]
    /\ in \in [Proc -> Inode \cup {NoInode}]
    /\ seen \in [Proc -> SUBSET Proc]

\* "The successfully opened temp file is the lock" (util.h:38): at no time do
\* two running processes both hold a guard that will remove or rename the
\* temporary file, and while one does, the file is there.
Exclusive ==
    \A p \in Proc : st[p] \in Armed =>
        /\ tmpPath # NoInode
        /\ \A q \in Proc : st[q] \in Armed => q = p

\* "Readers shouldn't need to lock" (pwdb-main.cc:199): a process that has
\* the database open, under the lock or not, reads one complete image to the
\* end, whatever the writers rename over it meanwhile.
NoTornRead ==
    \A p \in Proc : st[p] \in {"loading", "exporting"} => ReadIntact(p)

\* The name of the database never stands for a half-written file, and never
\* for a file that a writer still has open (overwrite() closes, then renames).
DbIsWhole ==
    dbPath # NoInode => /\ content[dbPath].whole
                        /\ \A p \in Proc : out[p] # dbPath

\* overwrite() is all or nothing and the exit of a process tells which: the
\* update of one that returned from it is in the database for good, the
\* update of one that failed or quit never gets there.
AllOrNothing ==
    \A p \in Proc :
        /\ st[p] \in {"renamed", "saved"} => p \in DbVals
        /\ p \in DbVals => st[p] \in {"renamed", "saved", "dead"}

\* No step of any process makes an update vanish that the database carries:
\* every replacement is built from the image it replaces.
NoLostUpdate == [][DbVals \subseteq DbVals']_vars

\* A temporary file with no owner is the trace of a killed process, or of a
\* destructor whose fs::remove failed; nothing else leaves one behind.  (One
\* that std::terminate ends, as "help" on an unknown word does, unwinds
\* nothing: it is as one that is killed.)
StaleOnlyAfterCrash ==
    (tmpPath # NoInode /\ \A p \in Proc : st[p] \notin Armed)
        => \E p \in Proc : st[p] \in {"dead", "leaked"}

\* A process that has closed its stream, or is on its way out, lifts the
\* lock, unless it is killed first or cannot remove the file.
LockLifted ==
    \A p \in Proc :
        st[p] \in {"closed", "aborting", "closing"}
            ~> (tmpPath = NoInode \/ st[p] \in {"dead", "leaked"})

(***************************************************************************)
(* The inductive invariant: what Exclusive, NoTornRead, AllOrNothing and   *)
(* NoLostUpdate rest on.                                                   *)
(***************************************************************************)

\* The stream of overwrite() is on the temporary file; a stream of a reader
\* is on a complete image that is not the temporary file.
Streams ==
    \A p \in Proc :
        /\ out[p] = IF st[p] = "writing" THEN tmpPath ELSE NoInode
        /\ IF st[p] \in {"loading", "exporting"}
           THEN in[p] \in Inode \ {tmpPath} /\ ReadIntact(p)
           ELSE in[p] = NoInode

\* The lock holder's image is the database's until it renames its own over it.
UpToDate ==
    \A p \in Proc :
        /\ st[p] \in {"loading", "loaded", "writing", "closed"}
               => seen[p] = DbVals
        /\ st[p] = "closed"
               => content[tmpPath] = [vals |-> seen[p] \cup {p}, whole |-> TRUE]

NamesApart == dbPath # NoInode => dbPath # tmpPath /\ content[dbPath].whole

\* All of it: no step of the protocol leaves the states that satisfy it.
IInv ==
    /\ TypeOK
    /\ Exclusive
    /\ NamesApart
    /\ Streams
    /\ UpToDate
    /\ AllOrNothing

(***************************************************************************)
(* The file protocol implements the abstract store: rename() is the commit,*)
(* opening the input stream is the look.                                   *)
(***************************************************************************)
PhaseOf(s) ==
    IF s = "start"                      THEN "idle"
    ELSE IF s \in Armed                 THEN "owner"
    ELSE IF s \in {"renamed", "saved"}  THEN "committed"
    ELSE IF s = "exporting"             THEN "viewer"
    ELSE                                     "ended"

Phases == [p \in Proc |-> PhaseOf(st[p])]

Store == INSTANCE FileStore WITH
    updates <- DbVals,
    locked  <- tmpPath # NoInode,
    phase   <- Phases,
    view    <- seen

\* Every behaviour of the file protocol is one of the abstract store.
StoreSpec == Store!Spec
=============================================================================
