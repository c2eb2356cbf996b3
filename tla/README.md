# pwdb: specifications, model checks and proofs

pwdb is a console password manager. One program, four sub-commands (`open`,
`recrypt`, `import`, `export`), one database file: a protobuf message, signed
and encrypted by GnuPG, whose records each carry a second encrypted message,
the Store. No daemon and no threads; what makes it hard is what happens
*between* processes (several invocations on one file, kills, half-done writes)
and *between* a user's edits and the file (copies in memory, flags that say
whether to save, exceptions that unwind a session).

Paths below are relative to the repository's root.

## 1. Inventory

| Component | Source | State | Operations | Talks to |
|---|---|---|---|---|
| `lock_overwrite_file` | `src/util.cc`, `include/pwdb/util.h` | two paths per object; on disk the database and `<file>.tmp` | constructor (create exclusively), `overwrite` (write, close, rename, clear), destructor (remove), moves and `swap` (unused) | the file system, and through it other invocations |
| sub-commands | `src/pwdb-main.cc` | locals: `cdb`, `cdb_modified` | `subcmd_open`, `_recrypt`, `_import`, `_export`, `read_from_pwdb`, `check_uid`, `main`'s handler | everything below |
| `db` | `src/db.cc`, `include/pwdb/db.h`, `pwdb.proto` | records by name, uid, index of names by tag | `add remove entag detag comment uid set_data set_store`, queries | called by the interpreters and `db_utils` |
| `db_utils` | `src/db_utils.cc` | none | open, save, recrypt, decrypt Stores | `db`, `gpgh::context` |
| `pwdb_cmd_interp`, `rcd_cmd_interp` | `src/pwdb_cmd_interp.cc` | `modified_` each; a copy of one Store | the commands of the two prompts | `db`, `db_utils`, `term_mode` |
| `cmd_interp` | `lib/cmd_interp/` | command table, input callbacks | `run`, `handle`, `help` | callbacks of the interpreters |
| `term_mode` | `src/util.cc` | the terminal's buffer | enter, leave the alternate buffer | the terminal |
| `gpgh::context` | `lib/gpgh/gpg_helper.*`, `include/pwdb/pb_gpg.h` | a gpgme context: home directory, signers, last result | `get_keys add_signer encrypt decrypt op_verify_result` | gpgme, stream callbacks |
| `gen_test_key` | `lib/gpgh/gen_test_key.cc` | a named semaphore, the keyring | find or create the key of the tests | other test programs |
| `cl_options` | `src/cl_options.cc` | none | parse argv in two passes | `main` |
| `pb_json` | `include/pwdb/pb_json.h` | none | JSON to message and back | import, export |

What is hard, and what makes each component correct:

* **Lock file.** The lock is a *name*: it is created, reopened, renamed and
  removed by name, by processes that can be killed or can fail between any two
  of these. Correct: one owner at a time; a reader, locked or not, sees one
  whole image; a save is all or nothing and loses no earlier one; only a killed
  process (or a failing `fs::remove`) leaves a stale file.
* **Session.** Three flags (`cdb_modified`, two `modified_`) and two copies (the
  database, one Store) stand between an edit and the file; any `runtime_error`
  unwinds everything, any other exception unwinds nothing. Correct: a session
  that says `Closed` has saved what the user saw last; one that fails has
  changed nothing; no edit goes unflagged.
* **Tag index.** It is kept beside the records, as lists that may hold a name
  more than once, with two separate clean-ups. Correct: no empty tag, no tag
  forgotten, no name in it without a record.
* **Test key.** Programs that the build runs in parallel meet in a semaphore
  whose name is unlinked by every one that leaves. Correct: one key, and nobody
  waits for ever.
* **Sub-commands.** Five pieces of code (`check_uid`, `add_signer`, two filters
  of `encode_data`, one of `subcmd_export`) choose keys by four different
  criteria, while keys expire and other invocations write; and a session looks
  for the keys of its records in another home directory than for those of its
  file, when it is given one. Correct: what is written can be read again, but
  for such records; nothing is written in the clear where it must not be;
  nothing but a session changes an entry, and no invocation changes any file
  but the one that it was given to write.
* **GnuPG context.** Results depend on the operation before; keys are counted
  references, handed from a listing to lists, signers and copies. Correct: no
  result read before there is one or after it is gone, one signer, no reference
  lost or given back twice, whatever throws.
* **Command loop.** One loop runs inside a handler of the other, on the same
  input, typed ahead of both. Correct: no line lost between them, an end ends one
  of them, a stream that has ended stops both.
* **Options.** The first parse does not know which words are values of options.
  Correct: exactly what the usage message allows is accepted, and with that
  meaning.

The full list of hazards, each at its line with the properties that would catch
it, is in `PROJECT.json`.

## 2. Modules

```
FileStore  <--refines--  LockFile     <--EXTENDS--  LockFile_proofs, MCLockFile
Vault      <--refines--  Session      <--EXTENDS--  MCSession
                            |  EXTENDS              Session_proofs (and its lemmas on Db)
                            Db
Archive    <--refines--  Subcommands  <--EXTENDS--  Subcommands_proofs, MCSubcommands
                         Guards       <--EXTENDS--  Guards_proofs, MCGuards
                         GpgContext   <--EXTENDS--  GpgContext_proofs, MCGpgContext
                         TestKey      <--EXTENDS--  TestKey_proofs, MCTestKey
                         CmdInterp    <--EXTENDS--  CmdInterp_proofs, MCCmdInterp
                         ClOptions    <--EXTENDS--  ClOptions_proofs, MCClOptions
```

The detailed modules look at one program from several sides, and each takes as
one step what another shows to be one. `LockFile` shows that a file is locked,
read and replaced in single steps (FileStore): that is how `Session` and
`Subcommands` treat it. `Session` shows that a session edits a book and keeps or
drops it as a whole (Vault): in `Subcommands` it is a few changes of records and
a `Save`. `Guards` shows that several lock objects of one process stand for one
owner of each temporary file; `LockFile` has one object for each process.
`CmdInterp` shows which loop gets which line; `Session` starts from the commands.
`GpgContext` shows that keys and results live as long as they are used;
`Session` and `Subcommands` have which keys they are.

Each component's module ends with its properties and, before its operations,
has sections of *wrong forms*: operations with one plausible mistake, not part
of any specification, that show which property notices which mistake.

### LockFile (and the abstract FileStore)

State: the inodes and their contents, what the two directory entries name, and
for each process where it is, which inode each of its streams holds, and which
updates were in the image it read. An image is abstracted to the set of
processes whose update it carries and whether it was written to the end; that
is all the properties can tell apart.

| Code | Actions |
|---|---|
| constructor | `Lock`, `LockBusy` (`EEXIST`), `LockError` |
| `fs::exists`, `read_from_pwdb` | `OpenDb`, `NoDb`, `FinishLoad` |
| `overwrite` | `OpenOut`, `Close`, `Rename`, `Clear`, in this order |
| scope left, exception | `Quit`, `Throw`, then the destructor: `Destroy`, `DestroyIgnoresError` |
| `subcmd_export` | `OpenExport`, `ExportNoDb`, `FinishExport`, `ExportThrow` |
| outside | `Crash` (at any step), `DeleteStale` |

`DeleteStale` is the manual clean-up that the comment in `util.h` asks for. It
waits until no running process owns the file: with a user who deletes the file
of a running session no lock of this kind can be exclusive. `FileStore` says the
same without a file system: own, look, commit or abort, in single steps.

A process runs once; a user who starts pwdb again is another process.

### Db, Session (and the abstract Vault)

`Db` is the class as operators on a database value. A list of names is
abstracted to how often each name is in it: the code searches, erases the first
occurrence and appends, and no result depends on the order. `Session` is
`subcmd_open` with both interpreters; a step is a command. Commands that only
print, and those refused with a message, change nothing and are no actions.

| Code | Actions |
|---|---|
| `subcmd_open` to the prompt | `Start`, `StartThrows` |
| commands | `AddCmd RemoveCmd CommentCmd TagCmd DetagCmd OpenCmd Exit` |
| commands of a record | `SetCmd UnsetCmd CloseRecord` (end of the inner `run`, then the save of the Store) |
| end | `Save`, `CloseUnmodified` |
| `runtime_error` | `BadLine`, `OpenThrows`, `CloseRecordThrows`, `SaveThrows`: all through `Unwind` |
| any other exception | `HelpUnknown`: `std::terminate`, nothing unwound |

GnuPG is abstracted to which keys a uid selects in which home directory (the
empty uid selects all of them), and when encrypting (at least one recipient),
signing (exactly one candidate) and decrypting (a key in the keyring) can
succeed. Besides, each of them may throw at any time, and `Start` gives no
guarantee that the uid has a key: `check_uid` only prints. Other invocations
and kills are the subject of LockFile and Subcommands: by `AllOrNothing` and
`NoLostUpdate` a session may treat the save as one step on a file that nobody
else changes, which is what `Save` does.

`Vault` is the user's view: a book of entries, edited on a copy, kept or
dropped as a whole. The refinement puts the open record's Store in the place of
the encrypted one, so opening and closing a record are stutters. That is the
point of it: whatever was edited in the inner prompt must survive the copy, two
flags and two encryptions.

### Subcommands (and the abstract Archive)

All four sub-commands as processes on databases and exchange files. A file is an
image: a format, the keys it is encrypted to, and a database whose records each
have no payload, a Store sealed to some keys, or a Store in the clear. The five
ways in which the code turns a uid into keys are five operators (`Signers`,
`RcdReaders`, `FileReaders`, `CanSign`, `Warned`), each of a home directory and a
uid. An invocation has the home directory of its options (`job[p].home`), with
one exception, which is the code's (`pwdb_cmd_interp.cc:131`): a session opens
and seals records with a context that was given none, so `WriteRcd` has
`DefaultHome`. In the default keyring the uid may be somebody else's, or a public
key alone, and then the session saves a record that nobody here can open. A
record that was sealed so is marked `astray`, which is history, and no field of
the program's: `OwnerCanRead` promises nothing of these records, and does of all
others.

| Code | Actions |
|---|---|
| start, guard constructed | `Start`: `RunLocked` for `open`, `recrypt`, `import`, `RunExport` without the lock |
| `read_from_pwdb`, "Creating", the file of an import | `LoadDb`, `LoadNew`, `LoadImport` |
| a session | `AddRcd RemoveRcd WriteRcd` |
| loops of `db_recrypt_rcd_stores`, `db_decrypt_all_rcd_stores` | `ReEncode`, `Decrypt`, a record at a time |
| `add_signer`, `encode_data`, rename | `Save`, or `Close` when nothing is to be saved |
| output of an export | `Truncate`, `AddSigner`, `Finish`, `FinishUnflushed` (the destructor's flush fails), `Tear` (two exports write one file) |
| any exception, a kill, the user | `Fail`, `Kill`, `DeleteStale` |
| outside | `Expire`: a key expires or is revoked |

An export opens its file for truncation before it looks for a signer, and
nothing locks that file; `sink` says whether its stream still is on the file of
that name, alone or with another one.

`Archive` forgets keys, formats and locks: books lie at places, an invocation
takes one and sets out for one place to put it down: an *editor* (`open`), which
alone writes in it, for the place that it lay at, a *carrier* (`recrypt`,
`import`) or a *copier* (`export`) for any. Nobody touches another place than its
goal, and only a copier ever spoils it, before it puts its book there. The
refinement decrypts every image and every database in memory, so the loops
of `recrypt`, `import` and `export` are stutters.

### Guards

Objects of class `lock_overwrite_file` in one process, each two paths, beside
other processes that lock the same files: `Construct`, `ConstructDefault`,
`Move`, `Assign` (move-construct the local `tmp`, swap; the two may be one
object), `Destroy` (also of `tmp`, which ends an assignment), and `overwrite` in
its steps, between which the other processes go on: `OpenOut` (truncates), `Write`
(twice: a first part and the rest), `Rename`, `Clear`, or `OverwriteThrows`
anywhere before the rename, which leaves the object as it was and what was written
in its file. A temporary file is known by the file it belongs to: the model
has no database that is called `x.tmp` beside one that is called `x`.

The program itself makes one object in each invocation, moves none, and lets an
exception of `overwrite` end it: nobody tries a second time. The module is about
what the class, with its moves and its public `overwrite`, promises to a caller
that does.

### GpgContext

One process, one context at a time, and GPGME's reference count of every key
object. The functions of the program that make a context each make the same few
calls on it; `ThenRead`, `ThenRecrypt`, `ThenEncode`, `ThenExport` and
`ThenRecord` say which call follows which.

| Code | Actions |
|---|---|
| `gpg_init`, constructors | `NewContext`, `InitThrows` |
| `get_keys` | `GetKeys`, then `NextKey` or `NextKeyRefused` (by the filter), then `EndListing`: `Checked`, `Listed`, `Sign` or `LookedUp` by what the caller does with the list |
| `encrypt`, `decrypt` | `Encrypt`, `Decrypt` |
| `op_verify_result` | `Verify`, `CopySig`, `EndCopy`, then for each copy `LookUp` (a listing) or `LookUpNot`, `EndVerify` |
| end of scope, exception, next process | `Finish`, `Throw`, `NextProcess` |

What GPGME does (external) is what its calls promise: a new object with one
reference for each key listed, the former result destroyed by the next operation,
signers with a reference of their own.

### TestKey

`gen_test_key` with the semaphore as the kernel has it: a name that stands for a
semaphore or nothing, and semaphores that live on while somebody has them open.
The three calls of the deleter (post, unlink, close) are three steps.

### CmdInterp

The loop of `interp::run`, and a second one inside the handler of `open`, on one
input. `source` is a terminal, where lines are typed ahead at any time and `^D` is
an end for one `get`, or a stream, whose end lasts. A step is a `get` with the
`handle` of its line up to the point where a handler gets lines itself: `Open`
and `FinishOpen` are the two halves of one `handle`. `log` records which loop got
what; `hist` is readline's history as indices into it. What a command does is left
out, except whether its line is recalled: of those that are understood, only a
`set` with a key is not (`result_none`); `unset` is, and stands for `print` and
for a `set` without a key, too.

### ClOptions

`cl_handle` on a command line of tokens (a word, `-h` or `-v`, an option before
its value, an option joined to it): `FirstPass`, `SecondPass` and `Notify`, then
`Main`. `Others` are the tokens that the first pass has not recognised, and
`Parsed` is the second parse, a token after the other; both are recursive
functions, so that they can be reasoned about. Below the model, and read from the
usage message rather than from the parser, is the grammar `InUsage` with the
meaning `Value` of each option. boost::program_options is external.

## 3. What is checked

| Run | Instance | Properties | Shows |
|---|---|---|---|
| `lock` | 3 processes, 4 inodes, fair | `Exclusive NoTornRead DbIsWhole AllOrNothing StaleOnlyAfterCrash IInv NoLostUpdate LockLifted StoreSpec` | the lock and the readers under kills and failures at every step; who leaves lifts the lock; refinement of FileStore |
| `session` | 2 names, 1 tag (each name at most twice in its list), 1 Store key, 2 uids, 3 keys in 2 home directories | `NoEmptyTag FlagsTell IInv DanglingOnlyFromRetag VaultSpec` | the index and the flags over any number of sessions; refinement of Vault |
| `testkey` | 3 programs, fair | `ExclusiveForTwo KeyOnce IInv EveryoneProceeds` | the lock works for two; one key, although the lock fails for three; no lost wake-up |
| `subcmd` | 2 invocations, a database and an exchange file, 1 record, 1 uid, 3 keys in 2 home directories, 2 of which may expire | `NoClearStore OwnerCanRead IInv RecryptReaders WarnedNeverSaves ImportOntoNothing ArchiveSpec` | who can read what is written, and what a session with a home directory of its own takes from that; refinement of Archive |
| `guards` | 3 objects and the local one, 2 files | `OneOwner MovedHoldsNothing RetryIsWhole TheirsKept` | one owner however objects are moved; a save that failed at any step can be tried again |
| `gpg_context` | 5 key objects, 2 keys a listing, 2 signatures | `OnlyRefusedLeak ResultReadInTime OneSigner IInv` | every reference given back once, wherever a call throws |
| `interp` | 5 lines, 2 runs, fair | `NoLineLost EachEndEndsOne HistoryTells EveryRunEnds` | two loops on one input |
| `options` | up to 4 tokens out of 26 | `UsageAccepted OnlyUsageAccepted` | the parser accepts the usage and nothing else |

Runs that end in a violation, each a disagreement between the code and what the
repository says of it:

| Run | Property | Finding |
|---|---|---|
| `dangling` | `IndexSound` | `tag n t` twice, `remove n`: the index still names `n`; `list t` then prints `ERROR: Index corruption`, and a later `add n` has a tag nobody gave it |
| `help` | `AltOnlyWhileOpen` | `help xyz` throws `std::out_of_range`, which `main` does not catch: the terminal stays in the alternate buffer, the lock file stays, the edits are gone |
| `homedir` | `RecordsInHomedir` | `--gpg-homedir` governs the database but not its records, which use the default keyring |
| `testkey_three` | `MutualExclusion` | post, then unlink: a waiting program and a new one hold two different semaphores |

What a reader of the code should also know, and the properties that hold say by
their exceptions:

* `OnlyRefusedLeak`: a key that a filter of `get_keys` refuses is never released
  (`gpg_helper.cc:252`); nothing else leaks.
* `OnlyUsageAccepted`: `pwdb import -h` is not accepted, since `po::notify` wants
  the file before anybody looks at `-h`.
* `RecryptReaders`: no key but those of the uid can read a record after a recrypt
  or an import, so the `extra` recipients of a record (`pwdb.proto`) never can.
* `OwnerCanRead`: a session that is given `--gpg-homedir` may save a record that no
  secret key of the user's opens (`astray`), by the same line as the run `homedir`.
* `HistoryTells`: `unset` and a `set` that lacks its key are recalled; only a line
  that sets a value is not.
* `NoLineLost`: a stream's last line is dropped if it has no newline.
* `ArchiveSpec`: an export that fails has destroyed what its file held before.

### Bounds

* `lock`: one owner, one reader with no lock, one that is refused, was killed or
  comes after; an inode for each of the two names, and two for readers of older
  images and for what is left behind.
* `session`: *two names in the list of a tag* are what an index mistake needs;
  `MaxTagged = 2`, a guard of `TagCmd`, is the least that has a name in a list
  twice. *One Store key with one value*: a Store is empty or not; an edit that is
  lost is seen. *Two uids, three keys*: a uid that selects one key, the empty one
  that selects two, and a keyring in which the other home directory's key is
  missing.
* `testkey`: three programs are enough for the lock to fail, which is the case
  that `KeyOnce` is about.
* `subcmd`: in the default home directory one key of the uid that signs and
  decrypts, and a public one of nobody's that only encrypts; in the other, one
  that signs and decrypts and is not of the uid. So every one of the five
  criteria tells two keys of a keyring apart, or one from none, and the empty uid
  fits them all. A session with the other home directory and no uid, in which
  the uid's key has expired, seals a record to the public key alone and signs
  the file: the case that `astray` is for is reached (without that exception
  `OwnerCanRead` fails). `MayExpire`, a bound, leaves that public key out: without it
  the run would not show more, and would take more than twice as long. 735 354
  states, some 80 seconds. Databases and exchange files have paths of their own
  here; an export onto a database that is in use is covered by the theorems, which
  leave `DbPath` and `ExPath` open.
* `guards`: a target, a source and a third object that could own the same file; a
  save writes a first part and the rest, so that a save that was broken off
  leaves neither nothing nor all.
* `gpg_context`: `MaxListed = 2` keys in one listing and `MaxSigs = 2`
  signatures on one message, both guards: a key to keep and one to drop. Five
  objects are never all in use.
* `interp`: `MaxLines = 5` lines or `^D` and `MaxRuns = 2` calls of `run`: open a
  record, do something, end it, do something, end.
* `options`: `MaxArgs = 4`, which has a sub-command, an option with its value and
  a file; lines of any length are covered by the theorems.

Processes, names, tags, key objects, files and guards are interchangeable, so
symmetry is used where no liveness is checked. Deadlock checking is off for
LockFile and TestKey, where every process ends, and for CmdInterp, where the
process ends, or the bounds do; elsewhere there is always a next session,
invocation, process or command line, and the runs check it.

### Fairness

LockFile: only `Leave` (rename, clear, destroy) is weakly fair for each process.
Every other step may wait for a user or a passphrase, so nothing is assumed of
it. Even `Leave` leaves `Close` out: the claim begins at a closed stream.
`LockLifted` excuses a killed process and a failing `fs::remove`, because nothing
in the code retries. TestKey: the steps of a process that has the semaphore open
are weakly fair (the key has no passphrase, so nothing in them waits for anyone);
arriving and being killed are not. CmdInterp: `Loop` is weakly fair, as the one
thread runs on while it can; a terminal may keep it waiting for ever, so
`EveryRunEnds` is about streams.

## 4. What is proved

TLAPS checks all of the following for any values of the constants that satisfy
the named assumptions (distinctness of the "nothing" values, and the types of the
parameters).
Each module's inductive invariant is `IInv`, with the type invariant as its
first conjunct. The runs check it as well, but for `Guards`, `CmdInterp` and
`ClOptions`, whose runs check the invariants that it is there for.

* **LockFile_proofs**: `Exclusive`, `NoTornRead`, `DbIsWhole`, `AllOrNothing`,
  `NoLostUpdate`, `StaleOnlyAfterCrash`, and `ImplementsStore`. Exclusion is not
  inductive alone: the destructor and the rename act on the name, so it must be
  known that a stream of `overwrite` is on the inode that the name stands for
  (`Streams`), that no reader is on it (`NamesApart`), and that the owner's image
  is the database's until it renames (`UpToDate`). Their conjunction with the
  types is `IInv`; each action has a step. The refinement maps the rename to
  `Commit` and the opening of an input stream to `Look` or `Peek`.
* **TestKey_proofs**: `KeyOnce`. The lock is *not* exclusive, so the argument is
  not mutual exclusion. Until there is a key, nobody has left the critical
  section, so nobody has unlinked the name, so all wait for one semaphore
  (`OneSemaphore`); once there is one, nobody is creating and nobody will
  (`NobodyCreates`). `ExclusiveForTwo` has an invariant of its own about any two
  programs while no other has started (`Pair`): until one has unlinked the name,
  both have the same semaphore.
* **Session_proofs**: `FlagsTell`, from `IInv` with the open record's own flag
  (`RcdFlagTells`: an unflagged copy equals the record's Store, and its record is
  there); `NoEmptyTag`, strengthened to the file's index as well as memory's;
  `DanglingOnlyFromRetag`; and `ImplementsVault`: every step of a session is a
  step of Vault or a stutter. They rest on lemmas about the operators of `Db`:
  types, what each operation does to the records, the map of tags and the lists.
* **Subcommands_proofs**: `NoClearStore`, `OwnerCanRead`, `RecryptReaders`,
  `WarnedNeverSaves`, `ImportOntoNothing` and `ImplementsArchive`. That the owner
  can read is not inductive: a session may have sealed a record to a key that has
  expired since, or to public keys alone. What is (`SessionCanSave`): each record
  opens here, or went astray, or was sealed to every key of the uid that is fresh in
  the home directory of the session -- and if the save goes through, its signer is
  one of these and has its secret part here. The last case is that of a session
  with the default home directory, where the two are one. `LoopHasDone`
  says the same of the records that a recrypt has come to. `ImportOntoNothing`
  assumes that exchange files have paths of their own, and rests on the lock
  being held from the look to the save.
* **Guards_proofs**: `OneOwner`, `MovedHoldsNothing`, `RetryIsWhole`, `TheirsKept`,
  from `IInv` with the facts that a guard's temporary file is its own file's
  (`TmpIsOfFile`), and that a running save has written what it was to write, from
  the beginning, to a file that no other object names (`SavedSoFar`).
* **GpgContext_proofs**: `OnlyRefusedLeak`, `ResultReadInTime`, `OneSigner`.
  Counts agree with owners only if no key has two owners of one
  kind and none is handed over twice: `OwnersApart` says which owners there are at
  which point, and `InCall` that the copies are the first of the signatures, with
  no key twice. `Signed` and `Result` carry what the order of the calls gives.
* **CmdInterp_proofs**: `NoLineLost`, `EachEndEndsOne`, `HistoryTells`, for any
  number of lines and of calls of `run`. A `get` moves the first unread line to
  `log`, so that what was written is what was got and what is unread until a
  stream ends (`Whole`). Who got a line, and which line a handler is at work on,
  is in the stack of calls: `StackShape` says that the inner loop runs in the
  handler of the last `open` that has not returned, `OpensEnded` that every
  other one has ended, and with which line. The ends and the loops are then
  counted as cardinalities of sets of places in the log, each step adding one
  place. That the history is in order needs that the end of a line, once there,
  never changes, and that a new one is later than all before it.
* **ClOptions_proofs**: `UsageAccepted` and `OnlyUsageAccepted`, for command lines
  of any length; the words need no assumption but that none is empty. So no line
  makes `main` run a sub-command that it does not know, or without its file.
  This is an induction over the tokens. The library's induction theorems take an
  operator as a parameter and cannot be used, so it goes by the least element
  of a set of naturals, and existence of a recursive function by uniqueness on
  every prefix (`RecursionExists`). `Shows` is what is proved of every
  prefix: after `n` tokens the parse has stored what the usage says of them,
  keeps the words that are no option's value, waits for a value exactly if the
  last token wants one, and has failed exactly if an option is unknown or was
  given twice. `FirstPassDone` gives the places: those of the deferred tokens
  are those of the line, shifted by one if a sub-command was taken off.

Only model-checked: liveness, which is out of the prover's reach (`LockLifted`,
`EveryoneProceeds`, `EveryRunEnds`). Every safety property of a passing run, and
every refinement, is also proved.

## 5. What is not modelled

* Wording, columns, line editing; how a line is split into words (that it may
  throw is modelled).
* Of `gpgh::context`: the stream callbacks, which hand bytes on, and
  `clear_signers`, which nothing calls. What verification results say: they are
  printed and never acted on.
* Of the command line: `--`, abbreviated options and the options that the usage
  does not show. The environment (`XDG_DATA_HOME`, `HOME`): the default file is
  one value.
* Symbolic links, a database named like another one's temporary file, and a user
  who deletes the temporary file of a running process.
* JSON and protobuf conversions: a file is read in the format it was written in,
  or the read throws. Comments and tags in Subcommands: they go where their record
  goes.
* The uids of a key are the same in every home directory that has it: a home
  directory has a set of keys (`Keyring`), of which some have their secret part
  there (`Secret`), and each may expire or be revoked in one and not in another.
* Moves of an interpreter, whose handlers keep the old address: nothing moves one.
* The test programs, but for `gen_test_key`.

## 6. Plan

1. **Composition**: several Sessions on LockFile's file, so that the "one step" of
   `Save` is itself a refinement.
2. Terminal buffer and readline's configuration across nested records and kills.
