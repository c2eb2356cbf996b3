---------------------------- MODULE Subcommands -----------------------------
(***************************************************************************)
(* The sub-commands of pwdb (src/pwdb-main.cc) side by side: "open",       *)
(* "recrypt", "import" and "export" on databases and exchange files, with  *)
(* the keys that each step encrypts to, signs with and decrypts with.      *)
(* A key is looked for in the home directory of GnuPG that the options     *)
(* give, except that a session opens and seals its records in the default  *)
(* one, whatever the options say.                                          *)
(*                                                                         *)
(* A file is an image: a database in one of two formats, sealed by GnuPG   *)
(* to a set of keys.  Each record of it has a payload of its own: none,    *)
(* a Store sealed to a set of keys, or a Store in the clear.  Comments and *)
(* tags go wherever their record goes and are left out.                    *)
(*                                                                         *)
(* The database file is locked and replaced in single steps: LockFile is   *)
(* shown to implement that.  The output file of an export is neither       *)
(* locked nor replaced: it is truncated first and written last.            *)
(***************************************************************************)
EXTENDS FiniteSets

CONSTANTS
    Proc,           \* invocations of the program
    Path,           \* paths of files
    DbPath,         \* the ones that are used as a database
    ExPath,         \* the ones that are imported from and exported to
    Name,           \* record names
    Store,          \* what a Store can be
    EmptyStore,     \* the Store with no values
    Uid,            \* GnuPG user ids
    NoUid,          \* the empty one
    Home,           \* home directories of GnuPG
    DefaultHome,    \* the one that it uses when it is given none
    GpgKey,         \* keys
    UidOf,          \* the user ids that stand for each of them
    Signing,        \* those that can sign (all of them can encrypt)
    Keyring,        \* the keys in each home directory
    Secret,         \* of these, the ones whose secret part is there, too
    MayExpire,      \* bound: the keys that may expire or be revoked
    NoRcd,          \* the record of a name that is not in the database
    NoFile,         \* a path at which there is no file
    Torn,           \* a file that was begun and not ended
    NoJob,          \* what an invocation does that is not running
    Given           \* what the user may have at the exchange paths at first

Kind == {"none", "sealed", "clear"}

\* extra: the additional recipients of the record.
\* astray: no field of the program's, but history that OwnerCanRead is about:
\* a session with another home directory than the default one has sealed it.
Rcd == [extra : SUBSET Uid, kind : Kind, to : SUBSET GpgKey, vals : Store,
        astray : BOOLEAN]
DB == [uid : Uid \cup {NoUid}, rcds : [Name -> Rcd \cup {NoRcd}]]
Image == [fmt : {"pb", "json"}, to : SUBSET GpgKey, db : DB]
Job == [cmd   : {"open", "recrypt", "import", "export"},
        file  : Path,
        other : Path,
        uid   : Uid \cup {NoUid},
        home  : Home]

\* Some secret key decrypts what was sealed to these keys.
AtHand(to) == \E h \in Home : to \cap Secret[h] # {}

ASSUME PathAssumption == DbPath \subseteq Path /\ ExPath \subseteq Path
ASSUME StoreAssumption == EmptyStore \in Store
ASSUME KeyAssumption ==
    /\ NoUid \notin Uid
    /\ UidOf \in [GpgKey -> SUBSET Uid]
    /\ Signing \subseteq GpgKey
    /\ DefaultHome \in Home
    /\ Keyring \in [Home -> SUBSET GpgKey]
    /\ Secret \in [Home -> SUBSET GpgKey]
    /\ \A h \in Home : Secret[h] \subseteq Keyring[h]
ASSUME NothingAssumption ==
    /\ NoRcd \notin Rcd
    /\ {NoFile, Torn} \cap Image = {}
    /\ NoFile # Torn
    /\ NoJob \notin Job
ASSUME GivenAssumption ==
    \A i \in Given : i \in Image /\ i.fmt = "json" /\ AtHand(i.to)

VARIABLES
    files,          \* what is at each path
    lock,           \* of each path: "free", "held" or "stale"
    fresh,          \* of each home: the keys neither revoked nor expired
    job,            \* the options of each invocation
    st,             \* how far it is
    mem,            \* cdb, the database it has in memory
    todo,           \* the records that its loop has not come to
    sink            \* its output stream: "none", "own", "mixed" or "gone"

disk == <<files, lock>>
vars == <<disk, fresh, job, st, mem, todo, sink>>

State == {"idle", "started", "loaded", "edited", "truncated", "working"}

EmptyDb == [uid |-> NoUid, rcds |-> [n \in Name |-> NoRcd]]
NewRcd == [extra |-> {}, kind |-> "none", to |-> {}, vals |-> EmptyStore,
           astray |-> FALSE]
Names(d) == {n \in Name : d.rcds[n] # NoRcd}

-----------------------------------------------------------------------------
(***************************************************************************)
(* Wrong forms of the helpers below.  None is part of the specification:   *)
(* each puts one plausible mistake in the place of a definition, to see    *)
(* the property that guards against it fail.                               *)
(***************************************************************************)

\* A Store that is in the clear is not looked for.
StoreOfData(r) == IF r.kind = "sealed" THEN r.vals ELSE EmptyStore

\* With no key for the uid, GnuPG's default key signs.
CanSignByDefault(h, u) == fresh[h] \cap Secret[h] \cap Signing # {}

-----------------------------------------------------------------------------
(***************************************************************************)
(* Which keys a uid stands for in a home directory, here and there in the  *)
(* code.                                                                   *)
(***************************************************************************)

\* An empty uid is an empty search pattern, which every key matches.
Fits(h, u) == {k \in Keyring[h] : u = NoUid \/ u \in UidOf[k]}

\* add_signer: secret, may be revoked or expired, and there must be just one.
Signers(h, u) == Fits(h, u) \cap Secret[h] \cap Signing

\* encode_data of a record: the key need not be able to sign.
RcdReaders(h, u) == Fits(h, u) \cap fresh[h]

\* encode_data of a file, and the same filter again in subcmd_export.
FileReaders(h, u) == Fits(h, u) \cap fresh[h] \cap Signing

\* GnuPG signs with no key that is revoked or expired.
CanSign(h, u) == \E k \in fresh[h] : Signers(h, u) = {k}

\* check_uid: "Changes will NOT be saved!"
Warned(h, u) == Fits(h, u) \cap Signing = {}

\* Decrypting succeeds.
CanOpen(h, r) == r.kind = "sealed" => r.to \cap Secret[h] # {}

\* db_open_rcd_store: the payload that there is, or an empty Store.
StoreOf(r) == IF r.kind = "none" THEN EmptyStore ELSE r.vals

\* db_save_rcd_store and set_store: either payload takes the other's place.
Sealed(r, to, s, a) == [extra |-> r.extra, kind |-> "sealed", to |-> to,
                        vals |-> s, astray |-> a]
InClear(r, s) == [extra |-> r.extra, kind |-> "clear", to |-> {},
                  vals |-> s, astray |-> FALSE]

PutRcd(d, n, r) == [uid |-> d.uid, rcds |-> [d.rcds EXCEPT ![n] = r]]

\* The uid of the options, if they give one, goes before the database's.
Override(d, u) == [uid |-> IF u = NoUid THEN d.uid ELSE u, rcds |-> d.rcds]

\* p can decrypt the file, and parse it in this format.
Readable(p, f, fmt) ==
    /\ files[f] \notin {NoFile, Torn}
    /\ files[f].fmt = fmt
    /\ files[f].to \cap Secret[job[p].home] # {}

Init ==
    /\ files \in [Path -> {NoFile} \cup Given]
    /\ \A f \in Path \ ExPath : files[f] = NoFile
    /\ lock = [f \in Path |-> "free"]
    /\ fresh = Keyring
    /\ job = [p \in Proc |-> NoJob]
    /\ st = [p \in Proc |-> "idle"]
    /\ mem = [p \in Proc |-> EmptyDb]
    /\ todo = [p \in Proc |-> {}]
    /\ sink = [p \in Proc |-> "none"]

Does(p, s, cs) == st[p] = s /\ job[p].cmd \in cs

\* What the uid of p's database stands for, in the home directory of p.
JobReaders(p) == RcdReaders(job[p].home, mem[p].uid)
JobCanSign(p) == CanSign(job[p].home, mem[p].uid)

Move(p, to) == st' = [st EXCEPT ![p] = to]

\* The process is over and what it had in memory is gone.
Over(p) ==
    /\ Move(p, "idle")
    /\ job' = [job EXCEPT ![p] = NoJob]
    /\ mem' = [mem EXCEPT ![p] = EmptyDb]
    /\ todo' = [todo EXCEPT ![p] = {}]

\* The guard of the temporary file leaves its scope; an export has none.
LockBecomes(p, l) ==
    lock' = IF job[p].cmd = "export" THEN lock
            ELSE [lock EXCEPT ![job[p].file] = l]

-----------------------------------------------------------------------------
(***************************************************************************)
(* Wrong forms of what follows.                                            *)
(***************************************************************************)

\* Only what somebody had encrypted is encrypted again.
ReEncodeSealed(p, n) ==
    /\ Does(p, "working", {"recrypt", "import"})
    /\ n \in todo[p]
    /\ LET r == mem[p].rcds[n] IN
        /\ CanOpen(job[p].home, r)
        /\ JobReaders(p) # {}
        /\ mem' = [mem EXCEPT ![p] = IF r.kind # "sealed" THEN mem[p] ELSE
               PutRcd(mem[p], n, Sealed(r, JobReaders(p), StoreOf(r), FALSE))]
    /\ todo' = [todo EXCEPT ![p] = todo[p] \ {n}]
    /\ UNCHANGED <<disk, fresh, job, st, sink>>

\* A record that the uid's keys can open already is left as it is.
ReEncodeIfNeeded(p, n) ==
    /\ Does(p, "working", {"recrypt", "import"})
    /\ n \in todo[p]
    /\ LET r == mem[p].rcds[n] IN
        /\ CanOpen(job[p].home, r)
        /\ JobReaders(p) # {}
        /\ mem' = [mem EXCEPT ![p] =
               IF r.to \cap JobReaders(p) # {} THEN mem[p] ELSE
               PutRcd(mem[p], n, Sealed(r, JobReaders(p), StoreOf(r), FALSE))]
    /\ todo' = [todo EXCEPT ![p] = todo[p] \ {n}]
    /\ UNCHANGED <<disk, fresh, job, st, sink>>

\* The import does not look for a database that is there already.
LoadImportOver(p) ==
    /\ Does(p, "started", {"import"})
    /\ Readable(p, job[p].other, "json")
    /\ LET d == Override(files[job[p].other].db, job[p].uid) IN
        /\ mem' = [mem EXCEPT ![p] = d]
        /\ todo' = [todo EXCEPT ![p] = Names(d)]
    /\ Move(p, "working")
    /\ UNCHANGED <<disk, fresh, job, sink>>

-----------------------------------------------------------------------------
(***************************************************************************)
(* The start of an invocation.                                             *)
(***************************************************************************)

Run(p, c, f, x, u, h) ==
    /\ st[p] = "idle"
    /\ Move(p, "started")
    /\ job' = [job EXCEPT ![p] =
            [cmd |-> c, file |-> f, other |-> x, uid |-> u, home |-> h]]
    /\ UNCHANGED <<files, fresh, mem, todo, sink>>

\* lock_overwrite_file is constructed: the file is not in use, and now it is.
RunLocked(p, c, f, x, u, h) ==
    /\ Run(p, c, f, x, u, h)
    /\ lock[f] = "free"
    /\ lock' = [lock EXCEPT ![f] = "held"]

RunExport(p, f, x, u, h) == Run(p, "export", f, x, u, h) /\ UNCHANGED lock

\* read_from_pwdb: decrypted, parsed, and the uid overridden.
LoadDb(p) ==
    /\ Does(p, "started", {"open", "recrypt", "export"})
    /\ Readable(p, job[p].file, "pb")
    /\ LET was == files[job[p].file].db
           d == Override(was, job[p].uid)
       IN /\ mem' = [mem EXCEPT ![p] = d]
          /\ IF job[p].cmd = "recrypt"
             THEN Move(p, "working") /\ todo' = [todo EXCEPT ![p] = Names(d)]
             ELSE /\ Move(p, IF job[p].cmd = "open" /\ d # was
                             THEN "edited" ELSE "loaded")
                  /\ UNCHANGED todo
    /\ UNCHANGED <<disk, fresh, job, sink>>

\* "Creating": open finds no file.
LoadNew(p) ==
    /\ Does(p, "started", {"open"})
    /\ files[job[p].file] = NoFile
    /\ mem' = [mem EXCEPT ![p] = Override(EmptyDb, job[p].uid)]
    /\ Move(p, IF job[p].uid = NoUid THEN "loaded" ELSE "edited")
    /\ UNCHANGED <<disk, fresh, job, todo, sink>>

\* import finds no database, and reads the exchange file with no lock on it.
LoadImport(p) ==
    /\ Does(p, "started", {"import"})
    /\ files[job[p].file] = NoFile
    /\ Readable(p, job[p].other, "json")
    /\ LET d == Override(files[job[p].other].db, job[p].uid) IN
        /\ mem' = [mem EXCEPT ![p] = d]
        /\ todo' = [todo EXCEPT ![p] = Names(d)]
    /\ Move(p, "working")
    /\ UNCHANGED <<disk, fresh, job, sink>>

-----------------------------------------------------------------------------
(***************************************************************************)
(* What each of them does in memory.                                       *)
(***************************************************************************)

\* The session of "open" (see Session) comes down to changes of records.
Edit(p, n, r) ==
    /\ st[p] \in {"loaded", "edited"} /\ job[p].cmd = "open"
    /\ mem' = [mem EXCEPT ![p] = PutRcd(mem[p], n, r)]
    /\ Move(p, "edited")
    /\ UNCHANGED <<disk, fresh, job, todo, sink>>

AddRcd(p, n) == mem[p].rcds[n] = NoRcd /\ Edit(p, n, NewRcd)

RemoveRcd(p, n) == mem[p].rcds[n] # NoRcd /\ Edit(p, n, NoRcd)

\* A record is opened, its Store changed, and the record closed.  The context
\* is "ctx{}": the keys are those of the default home directory.
WriteRcd(p, n, s) ==
    LET r  == mem[p].rcds[n]
        to == RcdReaders(DefaultHome, mem[p].uid)
    IN /\ r # NoRcd
       /\ CanOpen(DefaultHome, r)
       /\ to # {}
       /\ Edit(p, n, Sealed(r, to, s, job[p].home # DefaultHome))

\* One round of the loop of db_recrypt_rcd_stores.
ReEncode(p, n) ==
    /\ Does(p, "working", {"recrypt", "import"})
    /\ n \in todo[p]
    /\ LET r == mem[p].rcds[n] IN
        /\ CanOpen(job[p].home, r)
        /\ JobReaders(p) # {}
        /\ mem' = [mem EXCEPT ![p] =
               PutRcd(mem[p], n, Sealed(r, JobReaders(p), StoreOf(r), FALSE))]
    /\ todo' = [todo EXCEPT ![p] = todo[p] \ {n}]
    /\ UNCHANGED <<disk, fresh, job, st, sink>>

\* One round of the loop of db_decrypt_all_rcd_stores.
Decrypt(p, n) ==
    /\ Does(p, "working", {"export"})
    /\ n \in todo[p]
    /\ LET r == mem[p].rcds[n] IN
        /\ CanOpen(job[p].home, r)
        /\ mem' = [mem EXCEPT ![p] = PutRcd(mem[p], n, InClear(r, StoreOf(r)))]
    /\ todo' = [todo EXCEPT ![p] = todo[p] \ {n}]
    /\ UNCHANGED <<disk, fresh, job, st, sink>>

-----------------------------------------------------------------------------
(***************************************************************************)
(* The database is replaced: add_signer, encode_data, rename.              *)
(***************************************************************************)

Written(p, fmt) ==
    [fmt |-> fmt,
     to  |-> FileReaders(job[p].home, mem[p].uid),
     db  |-> mem[p]]

Save(p) ==
    /\ \/ Does(p, "edited", {"open"})
       \/ Does(p, "working", {"recrypt", "import"}) /\ todo[p] = {}
    /\ JobCanSign(p)
    /\ files' = [files EXCEPT ![job[p].file] = Written(p, "pb")]
    /\ LockBecomes(p, "free")
    /\ sink' = [q \in Proc |->
                   IF sink[q] # "none" /\ job[q].other = job[p].file
                   THEN "gone" ELSE sink[q]]
    /\ Over(p)
    /\ UNCHANGED fresh

\* "open" has nothing to save.
Close(p) ==
    /\ Does(p, "loaded", {"open"})
    /\ LockBecomes(p, "free")
    /\ Over(p)
    /\ UNCHANGED <<files, fresh, sink>>

-----------------------------------------------------------------------------
(***************************************************************************)
(* The output of an export.                                                *)
(***************************************************************************)

\* Who else has a stream on the file that p is about to open.
Sharers(p) ==
    {q \in Proc \ {p} : /\ sink[q] \in {"own", "mixed"}
                        /\ job[q].other = job[p].other}

\* The stream is opened and the file truncated.
Truncate(p) ==
    /\ Does(p, "loaded", {"export"})
    /\ files' = [files EXCEPT ![job[p].other] = Torn]
    /\ Move(p, "truncated")
    /\ sink' = [q \in Proc |->
                   IF q \in Sharers(p) THEN "mixed"
                   ELSE IF q # p THEN sink[q]
                   ELSE IF Sharers(p) = {} THEN "own" ELSE "mixed"]
    /\ UNCHANGED <<lock, fresh, job, mem, todo>>

\* Only now is the signing key looked for.
AddSigner(p) ==
    /\ st[p] = "truncated"
    /\ \E k \in GpgKey : Signers(job[p].home, mem[p].uid) = {k}
    /\ Move(p, "working")
    /\ todo' = [todo EXCEPT ![p] = Names(mem[p])]
    /\ UNCHANGED <<disk, fresh, job, mem, sink>>

EndExport(p) ==
    /\ Does(p, "working", {"export"})
    /\ todo[p] = {}
    /\ JobCanSign(p)
    /\ sink' = [sink EXCEPT ![p] = "none"]
    /\ Over(p)
    /\ UNCHANGED <<lock, fresh>>

\* All is written; if the file has been replaced meanwhile, nobody sees it.
Finish(p) ==
    /\ EndExport(p)
    /\ files' = IF sink[p] = "gone" THEN files
                ELSE [files EXCEPT ![job[p].other] = Written(p, "json")]

\* The destructor of the stream cannot flush it, and says nothing.
FinishUnflushed(p) == EndExport(p) /\ UNCHANGED files

\* Two exports write to one file at their own pace.
Tear(p) ==
    /\ sink[p] = "mixed"
    /\ files' = [files EXCEPT ![job[p].other] = Torn]
    /\ UNCHANGED <<lock, fresh, job, st, mem, todo, sink>>

-----------------------------------------------------------------------------
(***************************************************************************)
(* Failure, and the world outside.                                         *)
(***************************************************************************)

\* Any call may throw: gpg, a parser, a stream, a check of the code itself.
Fail(p) ==
    /\ st[p] # "idle"
    /\ LockBecomes(p, "free")
    /\ sink' = [sink EXCEPT ![p] = "none"]
    /\ Over(p)
    /\ UNCHANGED <<files, fresh>>

Kill(p) ==
    /\ st[p] # "idle"
    /\ LockBecomes(p, "stale")
    /\ sink' = [sink EXCEPT ![p] = "none"]
    /\ Over(p)
    /\ UNCHANGED <<files, fresh>>

DeleteStale(f) ==
    /\ lock[f] = "stale"
    /\ lock' = [lock EXCEPT ![f] = "free"]
    /\ UNCHANGED <<files, fresh, job, st, mem, todo, sink>>

\* A key expires, or is revoked in a home directory.
Expire(h, k) ==
    /\ k \in fresh[h]
    /\ fresh' = [fresh EXCEPT ![h] = fresh[h] \ {k}]
    /\ UNCHANGED <<disk, job, st, mem, todo, sink>>

-----------------------------------------------------------------------------
Start(p) ==
    \E f \in DbPath, u \in Uid \cup {NoUid}, h \in Home :
        \/ \E c \in {"open", "recrypt"} : RunLocked(p, c, f, f, u, h)
        \/ \E x \in ExPath : \/ RunLocked(p, "import", f, x, u, h)
                             \/ RunExport(p, f, x, u, h)

Next ==
    \/ \E p \in Proc :
        \/ Start(p)
        \/ LoadDb(p) \/ LoadNew(p) \/ LoadImport(p)
        \/ \E n \in Name :
            \/ AddRcd(p, n) \/ RemoveRcd(p, n)
            \/ \E s \in Store : WriteRcd(p, n, s)
            \/ ReEncode(p, n) \/ Decrypt(p, n)
        \/ Save(p) \/ Close(p)
        \/ Truncate(p) \/ AddSigner(p)
        \/ Finish(p) \/ FinishUnflushed(p) \/ Tear(p)
        \/ Fail(p) \/ Kill(p)
    \/ \E f \in Path : DeleteStale(f)
    \/ \E h \in Home, k \in MayExpire : Expire(h, k)

Spec == Init /\ [][Next]_vars

-----------------------------------------------------------------------------
(***************************************************************************)
(* Properties.                                                             *)
(***************************************************************************)

\* The shape of the state.
TypeOK ==
    /\ files \in [Path -> Image \cup {NoFile, Torn}]
    /\ lock \in [Path -> {"free", "held", "stale"}]
    /\ fresh \in [Home -> SUBSET GpgKey]
    /\ job \in [Proc -> Job \cup {NoJob}]
    /\ st \in [Proc -> State]
    /\ mem \in [Proc -> DB]
    /\ todo \in [Proc -> SUBSET Name]
    /\ sink \in [Proc -> {"none", "own", "mixed", "gone"}]

IsImage(f) == files[f] \notin {NoFile, Torn}

Retrievable(r) == r.kind = "sealed" => r.astray \/ AtHand(r.to)

\* No database ever holds a Store in the clear: what an export flattens stays
\* in the export, and an import encrypts every record before it saves.
NoClearStore ==
    \A f \in Path : IsImage(f) /\ files[f].fmt = "pb" =>
        \A n \in Names(files[f].db) : files[f].db.rcds[n].kind # "clear"

\* Whoever saves can read: four filters, in three files, choose the signer,
\* the readers of the file and those of a record; together they never write a
\* file that no secret key at hand opens again, nor a record of a database,
\* unless the record was sealed in a session with a home directory of its own:
\* its keys came from the default one, where the uid may be another's.
OwnerCanRead ==
    \A f \in Path : IsImage(f) =>
        /\ AtHand(files[f].to)
        /\ files[f].fmt = "pb" =>
               \A n \in Names(files[f].db) : Retrievable(files[f].db.rcds[n])

\* After a recrypt or an import, every record is readable by all who can read
\* the file, and by nobody but keys of its uid, whoever could read it before.
RecryptReaders ==
    [][\A p \in Proc :
            Does(p, "working", {"recrypt", "import"}) /\ files' # files
                /\ st'[p] = "idle" =>
            LET i == files'[job[p].file]
            IN \A n \in Names(i.db) :
                   /\ i.db.rcds[n].kind = "sealed"
                   /\ i.to \subseteq i.db.rcds[n].to
                   /\ i.db.rcds[n].to
                          \subseteq Fits(job[p].home, i.db.uid)]_vars

\* "Changes will NOT be saved!" (pwdb-main.cc:45): an invocation that was told
\* so writes no image anywhere, although the check and the two places that
\* write ask for three different kinds of key.
WarnedNeverSaves ==
    [][\A f \in Path :
            files'[f] \in {files[f], NoFile, Torn} \/
                \E p \in Proc : /\ st[p] # "idle" /\ st'[p] = "idle"
                                /\ f \in {job[p].file, job[p].other}
                                /\ ~Warned(job[p].home, mem[p].uid)]_vars

\* "File exists" (pwdb-main.cc:169): an import puts its database where no file
\* was, at the time that it saves and not only at the time that it looks.
ImportOntoNothing ==
    [][\A p \in Proc :
            Does(p, "working", {"import"}) /\ st'[p] = "idle" =>
                files'[job[p].file] = files[job[p].file]
                    \/ files[job[p].file] = NoFile]_vars

(***************************************************************************)
(* The inductive invariant.                                                *)
(***************************************************************************)

\* What "open" may save: nothing in the clear, and each record can either be
\* opened or went astray, or it was sealed to every fresh key of the uid in the
\* home directory of the session -- the one that will sign, if any will, is one
\* of them.
SessionCanSave ==
    \A p \in Proc : st[p] \in {"loaded", "edited"} /\ job[p].cmd = "open" =>
        \A n \in Names(mem[p]) :
            LET r == mem[p].rcds[n]
            IN /\ r.kind # "clear"
               /\ Retrievable(r) \/ JobReaders(p) \subseteq r.to

\* What the loop of a recrypt or an import has done.
LoopHasDone ==
    \A p \in Proc : Does(p, "working", {"recrypt", "import"}) =>
        \A n \in Names(mem[p]) \ todo[p] :
            LET r == mem[p].rcds[n]
            IN /\ r.kind = "sealed"
               /\ JobReaders(p) \subseteq r.to
               /\ r.to \subseteq Fits(job[p].home, mem[p].uid)

JobWhileRunning ==
    \A p \in Proc : /\ st[p] # "idle" => job[p] \in Job
                    /\ st[p] \in {"loaded", "edited"}
                           => job[p].cmd \in {"open", "export"}
                    /\ st[p] = "edited" => job[p].cmd = "open"
                    /\ st[p] = "truncated" => job[p].cmd = "export"
                    /\ st[p] = "working" =>
                           job[p].cmd \in {"recrypt", "import", "export"}
                    /\ sink[p] # "none" => st[p] \in {"truncated", "working"}
                                            /\ job[p].cmd = "export"
                    /\ todo[p] # {} => st[p] = "working"
                    /\ todo[p] \subseteq Names(mem[p])

IInv ==
    /\ TypeOK
    /\ JobWhileRunning
    /\ NoClearStore
    /\ OwnerCanRead
    /\ SessionCanSave
    /\ LoopHasDone

(***************************************************************************)
(* The sub-commands implement the Archive: decrypted, every file is a book *)
(* that somebody took from some place and edited in an "open", or not, and *)
(* put down at the one place that its command line gave it.                *)
(***************************************************************************)
Book == [Name -> Store \cup {NoRcd}]

Decoded(d) ==
    [n \in Name |-> IF d.rcds[n] = NoRcd THEN NoRcd ELSE StoreOf(d.rcds[n])]

Shelf == [f \in Path |-> IF IsImage(f) THEN Decoded(files[f].db) ELSE files[f]]

\* What p has loaded counts, until it is over.
AtWork(p) == st[p] \notin {"idle", "started"}

Hand == [p \in Proc |-> IF AtWork(p) THEN Decoded(mem[p]) ELSE NoFile]

RoleOf == [open   |-> "editor",  recrypt |-> "carrier",
           import |-> "carrier", export  |-> "copier"]

Role == [p \in Proc |-> IF AtWork(p) THEN RoleOf[job[p].cmd] ELSE "none"]

Goal == [p \in Proc |-> IF ~AtWork(p) THEN NoFile
                        ELSE IF job[p].cmd = "export" THEN job[p].other
                        ELSE job[p].file]

A == INSTANCE Archive WITH
    Place     <- Path,
    EmptyBook <- Decoded(EmptyDb),
    Nothing   <- NoFile,
    Spoiled   <- Torn,
    shelf     <- Shelf,
    hand      <- Hand,
    role      <- Role,
    goal      <- Goal

\* recrypt, import and export change no entry of any book: not the order of
\* decryption and encryption, a change of uid, or a failure halfway through.
\* Each invocation replaces or spoils only the file that its command line
\* gives it to write, and only an export ever spoils one.
ArchiveSpec == A!Spec
=============================================================================
