------------------------------ MODULE Session ------------------------------
(***************************************************************************)
(* An interactive session, `pwdb open`: subcmd_open (src/pwdb-main.cc),    *)
(* the two command interpreters (src/pwdb_cmd_interp.cc) on the loop of    *)
(* cmd_interp::interp, and the guards that the exceptions unwind.          *)
(*                                                                         *)
(* The database is decoded into memory, edited there by the commands of    *)
(* the "pwdb> " prompt, and written back at the end if a flag says that    *)
(* something was modified.  "open" runs a second interpreter on a copy of  *)
(* one record's Store, with a flag of its own.  A runtime_error anywhere   *)
(* unwinds to main(); any other exception ends the process on the spot.    *)
(*                                                                         *)
(* Commands that only print are not actions: they leave every variable     *)
(* here alone.  So do the commands that are refused ("No such record").    *)
(***************************************************************************)
EXTENDS Db

CONSTANTS
    NoName,         \* no record is open
    NoFile,         \* there is no database file
    Home,           \* GnuPG home directories
    DefaultHome,    \* the one GnuPG takes if it is told nothing
    Homedir,        \* the one this session's options name
    Keyring,        \* the keys in each of them
    UidOf,          \* the user id of each key
    MaxTagged       \* bound: how often one list holds one name

ASSUME SessionAssumption ==
    /\ NoName \notin Name
    /\ NoFile \notin DB
    /\ {DefaultHome, Homedir} \subseteq Home
    /\ Keyring \in [Home -> SUBSET GpgKey]
    /\ UidOf \in [GpgKey -> Uid]
    /\ MaxTagged \in Nat

VARIABLES
    disk,           \* the database file, decoded
    lock,           \* its lock: "free", "held", or "stale" (nobody holds it)
    ph,             \* where the process is
    db,             \* cdb, the database in memory
    cdbModified,    \* the local of subcmd_open: the uid was changed
    modified,       \* pwdb_cmd_interp::modified_
    cur,            \* the record that is open
    store,          \* rcd_cmd_interp::store_, the copy that is edited
    rcdModified,    \* rcd_cmd_interp::modified_
    screen          \* the terminal's buffer: "normal" or "alt"

memory == <<db, cdbModified, modified>>
rcd == <<cur, store, rcdModified>>
file == <<disk, lock>>
vars == <<file, ph, memory, rcd, screen>>

Over == {"none", "closed", "failed", "terminated"}
Phase == Over \cup {"prompt", "record", "saving"}

\* What a session that starts now reads.
Loaded == IF disk = NoFile THEN EmptyDb ELSE disk

\* An empty uid is an empty search pattern, which every key matches.
Recipients(h, u) == {k \in Keyring[h] : u \in {NoUid, UidOf[k]}}

\* GnuPG can encrypt if somebody is to read it, and sign if it is clear who.
CanEncrypt(h, u) == Recipients(h, u) # {}
CanSign(h, u) == \E k \in Keyring[h] : Recipients(h, u) = {k}

CanOpen(h, r) == r.data # NoData => r.data.to \cap Keyring[h] # {}

\* The objects of a process are gone with it.
MemoryGone ==
    /\ db' = EmptyDb
    /\ cdbModified' = FALSE
    /\ modified' = FALSE

RcdGone ==
    /\ cur' = NoName
    /\ store' = EmptyStore
    /\ rcdModified' = FALSE

Init ==
    /\ disk = NoFile
    /\ lock = "free"
    /\ ph = "none"
    /\ db = EmptyDb
    /\ cdbModified = FALSE
    /\ modified = FALSE
    /\ cur = NoName
    /\ store = EmptyStore
    /\ rcdModified = FALSE
    /\ screen = "normal"

-----------------------------------------------------------------------------
(***************************************************************************)
(* Wrong forms of the commands below: each edits and does not say so.      *)
(***************************************************************************)
DetagCmdSilent(n, t) ==
    /\ ph = "prompt"
    /\ db.count[t][n] > 0
    /\ db' = Detag(db, n, t)
    /\ UNCHANGED <<file, ph, cdbModified, modified, rcd, screen>>

UnsetCmdSilent(k) ==
    /\ ph = "record"
    /\ store[k] # Unset
    /\ store' = [store EXCEPT ![k] = Unset]
    /\ UNCHANGED <<file, ph, memory, cur, rcdModified, screen>>

\* The record's flag is not handed on to the database's.
CloseRecordSilent ==
    /\ ph = "record"
    /\ ph' = "prompt"
    /\ screen' = "normal"
    /\ IF rcdModified
       THEN /\ CanEncrypt(DefaultHome, db.uid)
            /\ db' = SetData(db, cur, [to   |-> Recipients(DefaultHome, db.uid),
                                       vals |-> store])
       ELSE UNCHANGED db
    /\ RcdGone
    /\ UNCHANGED <<file, cdbModified, modified>>

-----------------------------------------------------------------------------
(***************************************************************************)
(* subcmd_open up to the prompt.                                           *)
(***************************************************************************)

\* The lock is taken, the file decoded and the uid of the options (NoUid if
\* they give none) put in the place of the database's.
Start(u) ==
    /\ ph \in Over
    /\ lock = "free"
    /\ lock' = "held"
    /\ ph' = "prompt"
    /\ LET change == u # NoUid /\ u # Loaded.uid
       IN /\ db' = IF change THEN SetUid(Loaded, u) ELSE Loaded
          /\ cdbModified' = change
    /\ modified' = FALSE
    /\ UNCHANGED <<disk, rcd, screen>>

\* "File in use", no key for the file, a pinentry cancelled: it throws.
StartThrows ==
    /\ ph \in Over
    /\ ph' = "failed"
    /\ UNCHANGED <<file, memory, rcd, screen>>

\* The user deletes the temporary file that a terminated process left.
DeleteStale ==
    /\ lock = "stale"
    /\ lock' = "free"
    /\ UNCHANGED <<disk, ph, memory, rcd, screen>>

-----------------------------------------------------------------------------
(***************************************************************************)
(* The commands of the "pwdb> " prompt.                                    *)
(***************************************************************************)

\* A command that reports success edits the database and raises the flag.
Edit(d) ==
    /\ ph = "prompt"
    /\ db' = d
    /\ modified' = TRUE
    /\ UNCHANGED <<file, ph, cdbModified, rcd, screen>>

AddCmd(n, c) == ~Has(db, n) /\ Edit(Add(db, n, c))

RemoveCmd(n) == Has(db, n) /\ Edit(Remove(db, n))

CommentCmd(n, c) == Has(db, n) /\ Edit(SetComment(db, n, c))

TagCmd(n, t) ==
    /\ Has(db, n)
    /\ db.count[t][n] < MaxTagged
    /\ Edit(Entag(db, n, t))

\* It asks the index for the name, and never whether there is the record.
DetagCmd(n, t) == db.count[t][n] > 0 /\ Edit(Detag(db, n, t))

\* "open": the Store is decrypted with the default keyring, whatever the
\* options say, and the terminal switched to the alternate buffer.
OpenCmd(n) ==
    /\ ph = "prompt"
    /\ Has(db, n)
    /\ CanOpen(DefaultHome, db.rcds[n])
    /\ ph' = "record"
    /\ cur' = n
    /\ store' = StoreOf(db.rcds[n])
    /\ rcdModified' = FALSE
    /\ screen' = "alt"
    /\ UNCHANGED <<file, memory>>

\* "exit" or the end of the input.
Exit ==
    /\ ph = "prompt"
    /\ ph' = "saving"
    /\ UNCHANGED <<file, memory, rcd, screen>>

-----------------------------------------------------------------------------
(***************************************************************************)
(* The commands of a record's prompt.                                      *)
(***************************************************************************)

EditStore(k, v) ==
    /\ ph = "record"
    /\ store' = [store EXCEPT ![k] = v]
    /\ rcdModified' = TRUE
    /\ UNCHANGED <<file, ph, memory, cur, screen>>

SetCmd(k, v) == EditStore(k, v)

UnsetCmd(k) == store[k] # Unset /\ EditStore(k, Unset)

\* "exit" or the end of the input: the terminal is switched back, and a
\* modified Store is encrypted to the uid and put into its record.
CloseRecord ==
    /\ ph = "record"
    /\ ph' = "prompt"
    /\ screen' = "normal"
    /\ IF rcdModified
       THEN /\ CanEncrypt(DefaultHome, db.uid)
            /\ db' = SetData(db, cur, [to   |-> Recipients(DefaultHome, db.uid),
                                       vals |-> store])
            /\ modified' = TRUE
       ELSE UNCHANGED <<db, modified>>
    /\ RcdGone
    /\ UNCHANGED <<file, cdbModified>>

-----------------------------------------------------------------------------
(***************************************************************************)
(* The end of the session.                                                 *)
(***************************************************************************)

\* "Database modified, saving": lock_overwrite_file::overwrite replaces the
\* file in one step and the lock is gone with the temporary file.
Save ==
    /\ ph = "saving"
    /\ cdbModified \/ modified
    /\ CanSign(Homedir, db.uid)
    /\ disk' = db
    /\ lock' = "free"
    /\ ph' = "closed"
    /\ MemoryGone
    /\ UNCHANGED <<rcd, screen>>

\* Nothing to save: the guard's destructor removes the temporary file.
CloseUnmodified ==
    /\ ph = "saving"
    /\ ~(cdbModified \/ modified)
    /\ lock' = "free"
    /\ ph' = "closed"
    /\ MemoryGone
    /\ UNCHANGED <<disk, rcd, screen>>

\* A runtime_error unwinds to main(): the terminal is switched back, the
\* temporary file removed, and what was in memory is gone.
Unwind ==
    /\ ph' = "failed"
    /\ screen' = IF ph = "record" THEN "normal" ELSE screen
    /\ lock' = "free"
    /\ MemoryGone
    /\ RcdGone
    /\ UNCHANGED disk

\* split_unix does not like the quoting or the escapes of the line.
BadLine == ph \in {"prompt", "record"} /\ Unwind

\* No key, no passphrase, a payload that does not parse, no such terminal.
OpenThrows(n) == ph = "prompt" /\ Has(db, n) /\ Unwind

\* Encrypting the record's Store fails, with all the rest of the session.
CloseRecordThrows == ph = "record" /\ rcdModified /\ Unwind

\* No unique signing key, no recipient, a disk that is full.
SaveThrows == ph = "saving" /\ (cdbModified \/ modified) /\ Unwind

\* "help" on a word that is no command: std::map::at throws out_of_range,
\* which is no runtime_error.  Nobody catches it, so nothing is unwound.
HelpUnknown ==
    /\ ph \in {"prompt", "record"}
    /\ ph' = "terminated"
    /\ lock' = "stale"
    /\ MemoryGone
    /\ RcdGone
    /\ UNCHANGED <<disk, screen>>

-----------------------------------------------------------------------------
Command ==
    \/ \E n \in Name :
        \/ RemoveCmd(n)
        \/ OpenCmd(n)
        \/ OpenThrows(n)
        \/ \E c \in Comment : AddCmd(n, c) \/ CommentCmd(n, c)
        \/ \E t \in Tag : TagCmd(n, t) \/ DetagCmd(n, t)
    \/ Exit

RecordCommand ==
    \/ \E k \in Key : UnsetCmd(k) \/ \E v \in Val : SetCmd(k, v)
    \/ CloseRecord
    \/ CloseRecordThrows

Next ==
    \/ \E u \in Uid \cup {NoUid} : Start(u)
    \/ StartThrows
    \/ DeleteStale
    \/ Command
    \/ RecordCommand
    \/ BadLine
    \/ HelpUnknown
    \/ Save
    \/ CloseUnmodified
    \/ SaveThrows

Spec == Init /\ [][Next]_vars

-----------------------------------------------------------------------------
(***************************************************************************)
(* Properties.                                                             *)
(***************************************************************************)

\* The shape of the state.
TypeOK ==
    /\ disk \in DB \cup {NoFile}
    /\ lock \in {"free", "held", "stale"}
    /\ ph \in Phase
    /\ db \in DB
    /\ cdbModified \in BOOLEAN
    /\ modified \in BOOLEAN
    /\ cur \in Name \cup {NoName}
    /\ store \in Store
    /\ rcdModified \in BOOLEAN
    /\ screen \in {"normal", "alt"}

\* A tag is in the map if and only if some list entry carries it: "tags"
\* prints no tag of which "list" says "No such tag", and forgets none.
NoEmptyTag == TagsAreCarried(db)

\* The index comes to name a record that is not there only by the removal of
\* a record that had the same tag twice; nothing else dangles.
DanglingOnlyFromRetag ==
    [][\A n \in Name, t \in Tag :
            Dangling(db', n, t) =>
                \/ Dangling(db, n, t)
                \/ Has(db, n) /\ db.count[t][n] > 1
                \/ ph \in Over /\ Dangling(Loaded, n, t)]_vars

\* What list calls "Index corruption" does not exist: the index names only
\* records that are there (db_test.cc:119-125).
IndexSound == \A n \in Name, t \in Tag : ~Dangling(db, n, t)

\* "Use alternate terminal buffer when record is open"
\* (pwdb_cmd_interp.cc:135), and only then.
AltOnlyWhileOpen == screen = "alt" => ph = "record"

\* Every record is encrypted to keys of the home directory that the options
\* name, "GnuPG home directory" (cl_options.cc:119).
RecordsInHomedir ==
    \A n \in Name : Has(db, n) /\ db.rcds[n].data # NoData
        => db.rcds[n].data.to \subseteq Keyring[Homedir]

(***************************************************************************)
(* The inductive invariant: the flags tell the truth.                      *)
(***************************************************************************)

\* A process that has not raised a flag has in memory what is in the file.
FlagsTell ==
    ph \notin Over => cdbModified \/ modified \/ db = Loaded

\* The copy of a record whose flag is not raised is still the record's Store,
\* and the record cannot go away under it.
RcdFlagTells ==
    /\ ph = "record" => /\ cur \in Name
                        /\ Has(db, cur)
                        /\ rcdModified \/ store = StoreOf(db.rcds[cur])
    /\ ph # "record" => cur = NoName

HeldWhileRunning == ph \notin Over <=> lock = "held"

IInv ==
    /\ TypeOK
    /\ FlagsTell
    /\ RcdFlagTells
    /\ HeldWhileRunning

(***************************************************************************)
(* The session implements the Vault: the book the user sees is the         *)
(* database, with the open record's Store in the place of the encrypted    *)
(* one.  Encryption, flags, the two interpreters and the file are hidden.  *)
(***************************************************************************)
Entry == [comment : Comment, vals : Store]

Decoded(d) ==
    [n \in Name |-> IF Has(d, n)
                    THEN [comment |-> d.rcds[n].comment,
                          vals    |-> StoreOf(d.rcds[n])]
                    ELSE NoRcd]

Book ==
    IF ph \in Over THEN Decoded(Loaded)
    ELSE [n \in Name |-> IF ph = "record" /\ n = cur
                         THEN [comment |-> db.rcds[n].comment, vals |-> store]
                         ELSE Decoded(db)[n]]

Mode ==
    IF ph \notin Over THEN "editing"
    ELSE IF ph \in {"none", "closed"} THEN "well"
    ELSE "badly"

V == INSTANCE Vault WITH
    NoEntry <- NoRcd,
    saved   <- Decoded(Loaded),
    book    <- Book,
    mode    <- Mode

\* Every session that says "Closed" has saved what the user saw last, and one
\* that fails has changed nothing.
VaultSpec == V!Spec
=============================================================================
