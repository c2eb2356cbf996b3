------------------------ MODULE Subcommands_proofs -------------------------
(***************************************************************************)
(* Proofs about Subcommands, for any invocations, paths, keys, user ids    *)
(* and records: nothing in the clear gets into a database, whoever saves   *)
(* can read, and the sub-commands implement the Archive.                   *)
(***************************************************************************)
EXTENDS Subcommands, TLAPS

USE PathAssumption, StoreAssumption, KeyAssumption, NothingAssumption
    DEF vars, disk

(***************************************************************************)
(* The helpers.                                                            *)
(***************************************************************************)
LEMMA NewRcdType == NewRcd \in Rcd /\ NewRcd # NoRcd /\ NewRcd.kind = "none"
<1> DEFINE a == FALSE
<1>1. a \in BOOLEAN
  OBVIOUS
<1>2. NewRcd = [extra |-> {}, kind |-> "none", to |-> {}, vals |-> EmptyStore,
                astray |-> a]
  BY DEF NewRcd
<1> HIDE DEF a
<1> QED
  BY <1>1, <1>2 DEF Rcd, Kind

LEMMA EmptyDbType == EmptyDb \in DB /\ Names(EmptyDb) = {}
  BY DEF EmptyDb, DB, Names

LEMMA RcdIn ==
  ASSUME NEW d \in DB, NEW n \in Names(d)
  PROVE  n \in Name /\ d.rcds[n] \in Rcd /\ d.rcds[n] # NoRcd
  BY DEF DB, Names

LEMMA SealedType ==
  ASSUME NEW r \in Rcd, NEW to \in SUBSET GpgKey, NEW s \in Store,
         NEW a \in BOOLEAN
  PROVE  /\ Sealed(r, to, s, a) \in Rcd /\ Sealed(r, to, s, a) # NoRcd
         /\ Sealed(r, to, s, a).kind = "sealed"
         /\ Sealed(r, to, s, a).to = to
         /\ Sealed(r, to, s, a).astray = a
         /\ StoreOf(Sealed(r, to, s, a)) = s
  BY DEF Sealed, Rcd, Kind, StoreOf

LEMMA InClearType ==
  ASSUME NEW r \in Rcd, NEW s \in Store
  PROVE  /\ InClear(r, s) \in Rcd /\ InClear(r, s) # NoRcd
         /\ StoreOf(InClear(r, s)) = s
<1> DEFINE a == FALSE
<1>1. a \in BOOLEAN
  OBVIOUS
<1>2. InClear(r, s) = [extra |-> r.extra, kind |-> "clear", to |-> {},
                       vals |-> s, astray |-> a]
  BY DEF InClear
<1> HIDE DEF a
<1> QED
  BY <1>1, <1>2 DEF Rcd, Kind, StoreOf

LEMMA StoreOfType == ASSUME NEW r \in Rcd PROVE StoreOf(r) \in Store
  BY DEF Rcd, StoreOf

LEMMA PutRcdType ==
  ASSUME NEW d \in DB, NEW n \in Name, NEW r \in Rcd \cup {NoRcd}
  PROVE  /\ PutRcd(d, n, r) \in DB
         /\ PutRcd(d, n, r).uid = d.uid
         /\ PutRcd(d, n, r).rcds[n] = r
         /\ \A m \in Name \ {n} : PutRcd(d, n, r).rcds[m] = d.rcds[m]
  BY DEF PutRcd, DB

LEMMA OverrideType ==
  ASSUME NEW d \in DB, NEW u \in Uid \cup {NoUid}
  PROVE  /\ Override(d, u) \in DB
         /\ Override(d, u).rcds = d.rcds
         /\ Names(Override(d, u)) = Names(d)
  BY DEF Override, DB, Names

LEMMA ReadersType ==
  ASSUME NEW h \in Home, NEW u
  PROVE  /\ RcdReaders(h, u) \in SUBSET GpgKey
         /\ FileReaders(h, u) \in SUBSET GpgKey
         /\ FileReaders(h, u) \subseteq RcdReaders(h, u)
         /\ RcdReaders(h, u) \subseteq Fits(h, u)
  BY DEF RcdReaders, FileReaders, Fits

LEMMA JobReadersType ==
  ASSUME NEW p \in Proc, job[p] \in Job
  PROVE  /\ job[p].home \in Home
         /\ JobReaders(p) \in SUBSET GpgKey
         /\ JobReaders(p) \subseteq Fits(job[p].home, mem[p].uid)
  BY ReadersType DEF JobReaders, Job

\* The key that signs is among the readers, of a file and of each record.
LEMMA SignerReads ==
  ASSUME NEW p \in Proc, job[p] \in Job, JobCanSign(p)
  PROVE  /\ AtHand(FileReaders(job[p].home, mem[p].uid))
         /\ \A to : JobReaders(p) \subseteq to => AtHand(to)
         /\ ~Warned(job[p].home, mem[p].uid)
<1> DEFINE h == job[p].home
           u == mem[p].uid
<1>1. h \in Home
  BY JobReadersType
<1>2. PICK k \in fresh[h] : Signers(h, u) = {k}
  BY DEF JobCanSign, CanSign
<1>3. k \in Fits(h, u) /\ k \in Secret[h] /\ k \in Signing
  BY <1>2 DEF Signers
<1> QED
  BY <1>1, <1>2, <1>3 DEF AtHand, FileReaders, JobReaders, RcdReaders, Warned

LEMMA WrittenType ==
  ASSUME NEW p \in Proc, mem[p] \in DB, job[p] \in Job,
         NEW fmt \in {"pb", "json"}
  PROVE  /\ Written(p, fmt) \in Image
         /\ Written(p, fmt).fmt = fmt
         /\ Written(p, fmt).to = FileReaders(job[p].home, mem[p].uid)
         /\ Written(p, fmt).db = mem[p]
         /\ Written(p, fmt) \notin {NoFile, Torn}
  BY ReadersType, JobReadersType DEF Written, Image

LEMMA ReadableImage ==
  ASSUME TypeOK, NEW p, NEW f \in Path, NEW fmt, Readable(p, f, fmt)
  PROVE  IsImage(f) /\ files[f] \in Image /\ files[f].db \in DB
         /\ files[f].fmt = fmt
  BY DEF TypeOK, Readable, IsImage, Image

LEMMA InitIInv == Init => IInv
<1> SUFFICES ASSUME Init PROVE IInv
  OBVIOUS
<1>1. \A f \in Path : files[f] \in {NoFile} \cup Given
  BY DEF Init
<1>2. \A i \in Given : i \in Image /\ i.fmt = "json" /\ AtHand(i.to)
  BY GivenAssumption
<1>3. TypeOK
  BY <1>1, <1>2, EmptyDbType DEF Init, TypeOK, State
<1>4. JobWhileRunning /\ SessionCanSave /\ LoopHasDone
  BY DEF Init, JobWhileRunning, SessionCanSave, LoopHasDone, Does
<1>5. NoClearStore /\ OwnerCanRead
  BY <1>1, <1>2 DEF NoClearStore, OwnerCanRead, IsImage
<1> QED
  BY <1>3, <1>4, <1>5 DEF IInv

(***************************************************************************)
(* Each action keeps the invariant.                                        *)
(***************************************************************************)

LEMMA RunIInv ==
  ASSUME IInv, NEW p \in Proc,
         NEW c \in {"open", "recrypt", "import", "export"},
         NEW f \in Path, NEW x \in Path, NEW u \in Uid \cup {NoUid},
         NEW h \in Home, Run(p, c, f, x, u, h),
         lock' \in [Path -> {"free", "held", "stale"}]
  PROVE  IInv'
<1> USE DEF Run, Move
<1>1. [cmd |-> c, file |-> f, other |-> x, uid |-> u, home |-> h] \in Job
  BY DEF Job
<1>2. TypeOK'
  BY <1>1 DEF IInv, TypeOK, State
<1>3. JobWhileRunning'
  BY <1>1 DEF IInv, TypeOK, JobWhileRunning
<1>4. SessionCanSave' /\ LoopHasDone'
  BY DEF IInv, TypeOK, SessionCanSave, LoopHasDone, Does,
     Retrievable, JobReaders, RcdReaders
<1>5. NoClearStore' /\ OwnerCanRead'
  BY DEF IInv, NoClearStore, OwnerCanRead, IsImage
<1> QED
  BY <1>2, <1>3, <1>4, <1>5 DEF IInv

LEMMA StartIInv == ASSUME IInv, NEW p \in Proc, Start(p) PROVE IInv'
<1>1. PICK f \in DbPath, u \in Uid \cup {NoUid}, h \in Home :
        \/ \E c \in {"open", "recrypt"} : RunLocked(p, c, f, f, u, h)
        \/ \E x \in ExPath : \/ RunLocked(p, "import", f, x, u, h)
                             \/ RunExport(p, f, x, u, h)
  BY DEF Start
<1>2. \E c \in {"open", "recrypt", "import", "export"}, x \in Path :
        Run(p, c, f, x, u, h)
  BY <1>1 DEF RunLocked, RunExport
<1>3. lock' \in [Path -> {"free", "held", "stale"}]
  BY <1>1 DEF RunLocked, RunExport, IInv, TypeOK
<1> QED
  BY <1>2, <1>3, RunIInv

LEMMA LoadDbIInv == ASSUME IInv, NEW p \in Proc, LoadDb(p) PROVE IInv'
<1> USE DEF LoadDb, Move
<1> DEFINE was == files[job[p].file].db
           d   == Override(was, job[p].uid)
<1>1. /\ job[p] \in Job /\ job[p].file \in Path
      /\ job[p].uid \in Uid \cup {NoUid}
      /\ job[p].cmd \in {"open", "recrypt", "export"} /\ st[p] = "started"
      /\ todo[p] = {} /\ sink[p] = "none"
  BY DEF IInv, TypeOK, JobWhileRunning, Does, Job
<1>2. /\ IsImage(job[p].file) /\ files[job[p].file].fmt = "pb"
      /\ was \in DB
  BY <1>1, ReadableImage DEF IInv
<1>3. d \in DB /\ Names(d) = Names(was) /\ d.rcds = was.rcds
  BY <1>1, <1>2, OverrideType
<1>4. \A n \in Names(d) : d.rcds[n].kind # "clear" /\ Retrievable(d.rcds[n])
  BY <1>1, <1>2, <1>3 DEF IInv, NoClearStore, OwnerCanRead
<1>5. /\ mem' = [mem EXCEPT ![p] = d]
      /\ UNCHANGED <<files, lock, fresh, job, sink>>
      /\ \/ /\ job[p].cmd = "recrypt"
            /\ st' = [st EXCEPT ![p] = "working"]
            /\ todo' = [todo EXCEPT ![p] = Names(d)]
         \/ /\ job[p].cmd \in {"open", "export"} /\ UNCHANGED todo
            /\ \/ job[p].cmd = "open" /\ st' = [st EXCEPT ![p] = "edited"]
               \/ st' = [st EXCEPT ![p] = "loaded"]
  BY <1>1
<1> HIDE DEF d, was, LoadDb
<1>6. TypeOK'
  BY <1>3, <1>5 DEF IInv, TypeOK, State, Names
<1>7. JobWhileRunning'
  BY <1>1, <1>5 DEF IInv, TypeOK, JobWhileRunning, Names
<1>8. SessionCanSave'
  BY <1>1, <1>4, <1>5 DEF IInv, TypeOK, SessionCanSave, Retrievable, JobReaders,
     RcdReaders
<1>9. LoopHasDone'
  BY <1>1, <1>5 DEF IInv, TypeOK, LoopHasDone, Does, JobReaders, RcdReaders
<1>10. NoClearStore' /\ OwnerCanRead'
  BY <1>5 DEF IInv, NoClearStore, OwnerCanRead, IsImage
<1> QED
  BY <1>6, <1>7, <1>8, <1>9, <1>10 DEF IInv

LEMMA LoadNewIInv == ASSUME IInv, NEW p \in Proc, LoadNew(p) PROVE IInv'
<1> USE DEF LoadNew, Move
<1> DEFINE d == Override(EmptyDb, job[p].uid)
<1>1. /\ job[p] \in Job /\ job[p].uid \in Uid \cup {NoUid}
      /\ job[p].cmd = "open" /\ st[p] = "started" /\ sink[p] = "none"
      /\ todo[p] = {}
  BY DEF IInv, TypeOK, JobWhileRunning, Does, Job
<1>2. d \in DB /\ Names(d) = {}
  BY <1>1, EmptyDbType, OverrideType
<1>3. /\ mem' = [mem EXCEPT ![p] = d]
      /\ UNCHANGED <<files, lock, fresh, job, todo, sink>>
      /\ \/ st' = [st EXCEPT ![p] = "edited"]
         \/ st' = [st EXCEPT ![p] = "loaded"]
  OBVIOUS
<1> HIDE DEF d, LoadNew
<1>4. TypeOK' /\ JobWhileRunning'
  BY <1>1, <1>2, <1>3 DEF IInv, TypeOK, State, JobWhileRunning
<1>5. SessionCanSave'
  BY <1>1, <1>2, <1>3 DEF IInv, TypeOK, SessionCanSave, Retrievable, JobReaders,
     RcdReaders
<1>6. LoopHasDone' /\ NoClearStore' /\ OwnerCanRead'
  BY <1>1, <1>3 DEF IInv, TypeOK, LoopHasDone, Does, JobReaders, RcdReaders,
     NoClearStore, OwnerCanRead, IsImage
<1> QED
  BY <1>4, <1>5, <1>6 DEF IInv

LEMMA LoadImportIInv == ASSUME IInv, NEW p \in Proc, LoadImport(p) PROVE IInv'
<1> USE DEF LoadImport, Move
<1> DEFINE d == Override(files[job[p].other].db, job[p].uid)
<1>1. /\ job[p] \in Job /\ job[p].uid \in Uid \cup {NoUid}
      /\ job[p].other \in Path /\ job[p].cmd = "import" /\ sink[p] = "none"
  BY DEF IInv, TypeOK, JobWhileRunning, Does, Job
<1>2. d \in DB
  BY <1>1, ReadableImage, OverrideType DEF IInv
<1>3. /\ mem' = [mem EXCEPT ![p] = d]
      /\ todo' = [todo EXCEPT ![p] = Names(d)]
      /\ st' = [st EXCEPT ![p] = "working"]
      /\ UNCHANGED <<files, lock, fresh, job, sink>>
  OBVIOUS
<1> HIDE DEF d, LoadImport
<1>4. TypeOK' /\ JobWhileRunning'
  BY <1>1, <1>2, <1>3 DEF IInv, TypeOK, State, JobWhileRunning, Names
<1>5. SessionCanSave' /\ LoopHasDone'
  BY <1>1, <1>3 DEF IInv, TypeOK, SessionCanSave, LoopHasDone, Does,
     Retrievable, JobReaders, RcdReaders
<1>6. NoClearStore' /\ OwnerCanRead'
  BY <1>3 DEF IInv, NoClearStore, OwnerCanRead, IsImage
<1> QED
  BY <1>4, <1>5, <1>6 DEF IInv

\* A record of the database in memory is replaced, in a session or a loop.
LEMMA PutRcdIInv ==
  ASSUME IInv, NEW p \in Proc, NEW n \in Name, NEW r \in Rcd \cup {NoRcd},
         mem' = [mem EXCEPT ![p] = PutRcd(mem[p], n, r)],
         UNCHANGED <<files, lock, fresh, job, sink>>,
         \/ /\ st[p] \in {"loaded", "edited"} /\ job[p].cmd = "open"
            /\ st' = [st EXCEPT ![p] = "edited"] /\ UNCHANGED todo
            /\ r # NoRcd =>
                  /\ r.kind # "clear"
                  /\ Retrievable(r) \/ JobReaders(p) \subseteq r.to
         \/ /\ st[p] = "working" /\ UNCHANGED st
            /\ todo' = [todo EXCEPT ![p] = todo[p] \ {n}]
            /\ r # NoRcd
            /\ \/ job[p].cmd = "export"
               \/ r.kind = "sealed" /\ r.to = JobReaders(p)
  PROVE  IInv'
<1> DEFINE d == PutRcd(mem[p], n, r)
<1>1. mem[p] \in DB
  BY DEF IInv, TypeOK
<1>2. /\ d \in DB /\ d.uid = mem[p].uid /\ d.rcds[n] = r
      /\ \A m \in Name \ {n} : d.rcds[m] = mem[p].rcds[m]
  BY <1>1, PutRcdType
<1>3. mem' = [mem EXCEPT ![p] = d]
  OBVIOUS
<1> HIDE DEF d
<1>4. TypeOK'
  BY <1>2, <1>3 DEF IInv, TypeOK, State
<1>5. JobWhileRunning'
  BY <1>2, <1>3 DEF IInv, TypeOK, JobWhileRunning, Names
<1>6. SessionCanSave'
  BY <1>2, <1>3 DEF IInv, TypeOK, SessionCanSave, Retrievable, JobReaders,
     RcdReaders, Names
<1>7. LoopHasDone'
  <2>1. job[p] \in Job
    BY DEF IInv, JobWhileRunning
  <2>2. JobReaders(p) \subseteq Fits(job[p].home, mem[p].uid)
    BY <2>1, JobReadersType
  <2> QED
    BY <1>2, <1>3, <2>2 DEF IInv, TypeOK, LoopHasDone, Does, JobReaders,
       RcdReaders, Names, Fits
<1>8. NoClearStore' /\ OwnerCanRead'
  BY DEF IInv, NoClearStore, OwnerCanRead, IsImage
<1> QED
  BY <1>4, <1>5, <1>6, <1>7, <1>8 DEF IInv

LEMMA EditIInv ==
  ASSUME IInv, NEW p \in Proc, NEW n \in Name,
         \/ AddRcd(p, n) \/ RemoveRcd(p, n)
         \/ \E s \in Store : WriteRcd(p, n, s)
  PROVE  IInv'
<1>1. CASE AddRcd(p, n)
  <2>1. Edit(p, n, NewRcd)
    BY <1>1 DEF AddRcd
  <2>2. NewRcd \in Rcd /\ NewRcd.kind # "clear" /\ Retrievable(NewRcd)
    BY NewRcdType DEF Retrievable
  <2> QED
    BY <2>1, <2>2, PutRcdIInv DEF Edit, Move
<1>2. CASE RemoveRcd(p, n)
  BY <1>2, PutRcdIInv DEF RemoveRcd, Edit, Move
<1>3. ASSUME NEW s \in Store, WriteRcd(p, n, s) PROVE IInv'
  <2> DEFINE to == RcdReaders(DefaultHome, mem[p].uid)
             a  == job[p].home # DefaultHome
             r  == Sealed(mem[p].rcds[n], to, s, a)
  <2>1. Edit(p, n, r) /\ mem[p].rcds[n] \in Rcd
    BY <1>3 DEF WriteRcd, IInv, TypeOK, DB
  <2>2. r \in Rcd /\ r.kind = "sealed" /\ r.to = to /\ r.astray = a
    <3>1. to \in SUBSET GpgKey /\ a \in BOOLEAN
      BY ReadersType
    <3> HIDE DEF to, a
    <3> QED
      BY <2>1, <3>1, SealedType
  <2>3. ~a => to = JobReaders(p)
    BY DEF JobReaders
  <2> HIDE DEF r, to, a
  <2>4. Retrievable(r) \/ JobReaders(p) \subseteq r.to
    BY <2>2, <2>3 DEF Retrievable
  <2> QED
    BY <2>1, <2>2, <2>4, PutRcdIInv DEF Edit, Move
<1> QED
  BY <1>1, <1>2, <1>3

LEMMA ReEncodeIInv ==
  ASSUME IInv, NEW p \in Proc, NEW n \in Name, ReEncode(p, n) PROVE IInv'
<1> DEFINE was == mem[p].rcds[n]
           a   == FALSE
           r   == Sealed(was, JobReaders(p), StoreOf(was), a)
<1>1. was \in Rcd /\ StoreOf(was) \in Store
  BY RcdIn, StoreOfType DEF ReEncode, IInv, TypeOK, JobWhileRunning
<1>2. /\ r \in Rcd /\ r # NoRcd
      /\ r.kind = "sealed" /\ r.to = JobReaders(p)
  <2>1. job[p] \in Job
    BY DEF ReEncode, Does, IInv, JobWhileRunning
  <2>2. JobReaders(p) \in SUBSET GpgKey /\ a \in BOOLEAN
    BY <2>1, JobReadersType
  <2> HIDE DEF a
  <2> QED
    BY <1>1, <2>2, SealedType
<1>3. mem' = [mem EXCEPT ![p] = PutRcd(mem[p], n, r)]
  BY DEF ReEncode
<1> HIDE DEF r
<1> QED
  BY <1>2, <1>3, PutRcdIInv DEF ReEncode, Does

LEMMA DecryptIInv ==
  ASSUME IInv, NEW p \in Proc, NEW n \in Name, Decrypt(p, n) PROVE IInv'
<1> DEFINE was == mem[p].rcds[n]
           r   == InClear(was, StoreOf(was))
<1>1. was \in Rcd /\ StoreOf(was) \in Store
  BY RcdIn, StoreOfType DEF Decrypt, IInv, TypeOK, JobWhileRunning
<1>2. r \in Rcd /\ r # NoRcd
  BY <1>1, InClearType
<1>3. mem' = [mem EXCEPT ![p] = PutRcd(mem[p], n, r)]
  BY DEF Decrypt
<1> HIDE DEF r
<1> QED
  BY <1>2, <1>3, PutRcdIInv DEF Decrypt, Does

\* The streams of the others are no more and no fewer than before.
SinksKept(p) ==
    /\ sink' \in [Proc -> {"none", "own", "mixed", "gone"}]
    /\ \A q \in Proc \ {p} : sink'[q] # "none" => sink[q] # "none"

\* The end of a process, whatever it has written.
LEMMA OverIInv ==
  ASSUME IInv, NEW p \in Proc, Over(p), SinksKept(p), sink'[p] = "none",
         UNCHANGED fresh, lock' \in [Path -> {"free", "held", "stale"}],
         files' \in [Path -> Image \cup {NoFile, Torn}],
         NoClearStore', OwnerCanRead'
  PROVE  IInv'
<1> USE DEF Over, Move, SinksKept
<1>1. TypeOK'
  BY EmptyDbType DEF IInv, TypeOK, State
<1>2. JobWhileRunning'
  BY DEF IInv, TypeOK, JobWhileRunning
<1>3. SessionCanSave' /\ LoopHasDone'
  BY DEF IInv, TypeOK, SessionCanSave, LoopHasDone, Does,
     Retrievable, JobReaders, RcdReaders
<1> QED
  BY <1>1, <1>2, <1>3 DEF IInv

\* One file is replaced by an image that its owner can read.
LEMMA WriteFile ==
  ASSUME IInv, NEW f \in Path, NEW i \in Image \cup {Torn},
         files' = [files EXCEPT ![f] = i],
         i # Torn =>
           /\ AtHand(i.to)
           /\ i.fmt = "pb" => \A n \in Names(i.db) :
                i.db.rcds[n].kind # "clear" /\ Retrievable(i.db.rcds[n])
  PROVE  /\ files' \in [Path -> Image \cup {NoFile, Torn}]
         /\ NoClearStore' /\ OwnerCanRead'
<1>1. files \in [Path -> Image \cup {NoFile, Torn}]
  BY DEF IInv, TypeOK
<1>2. files' \in [Path -> Image \cup {NoFile, Torn}]
  BY <1>1
<1>3. NoClearStore'
  BY <1>1 DEF IInv, NoClearStore, IsImage
<1>4. OwnerCanRead'
  BY <1>1 DEF IInv, OwnerCanRead, IsImage, Retrievable
<1> QED
  BY <1>2, <1>3, <1>4

LEMMA LockBecomesType ==
  ASSUME IInv, NEW p \in Proc, NEW l \in {"free", "held", "stale"},
         LockBecomes(p, l)
  PROVE  lock' \in [Path -> {"free", "held", "stale"}]
  BY DEF LockBecomes, IInv, TypeOK

\* What Save is about to write.
LEMMA SaveWrites ==
  ASSUME IInv, NEW p \in Proc, Save(p)
  PROVE  /\ job[p] \in Job /\ job[p].file \in Path
         /\ job[p].cmd \in {"open", "recrypt", "import"}
         /\ st[p] \in {"edited", "working"} /\ sink[p] = "none"
         /\ mem[p] \in DB /\ JobCanSign(p)
         /\ files' = [files EXCEPT ![job[p].file] = Written(p, "pb")]
         /\ AtHand(Written(p, "pb").to)
         /\ \A n \in Names(mem[p]) :
              /\ mem[p].rcds[n].kind # "clear" /\ Retrievable(mem[p].rcds[n])
              /\ job[p].cmd # "open" =>
                   /\ mem[p].rcds[n].kind = "sealed"
                   /\ JobReaders(p) \subseteq mem[p].rcds[n].to
                   /\ mem[p].rcds[n].to \subseteq Fits(job[p].home, mem[p].uid)
<1>1. \/ job[p].cmd = "open" /\ st[p] = "edited"
      \/ /\ job[p].cmd \in {"recrypt", "import"}
         /\ st[p] = "working" /\ todo[p] = {}
  BY DEF Save, Does
<1>2. job[p] \in Job /\ job[p].file \in Path /\ sink[p] = "none"
  BY <1>1 DEF IInv, JobWhileRunning, Job
<1>3. mem[p] \in DB /\ JobCanSign(p)
  BY DEF Save, IInv, TypeOK
<1>4. /\ AtHand(FileReaders(job[p].home, mem[p].uid))
      /\ \A to : JobReaders(p) \subseteq to => AtHand(to)
  BY <1>2, <1>3, SignerReads
<1>5. AtHand(Written(p, "pb").to)
  BY <1>2, <1>3, <1>4, WrittenType
<1>6. ASSUME NEW n \in Names(mem[p])
      PROVE  LET r == mem[p].rcds[n] IN
               /\ r.kind # "clear" /\ Retrievable(r)
               /\ job[p].cmd # "open" =>
                    /\ r.kind = "sealed"
                    /\ JobReaders(p) \subseteq r.to
                    /\ r.to \subseteq Fits(job[p].home, mem[p].uid)
  <2>1. CASE job[p].cmd = "open" /\ st[p] = "edited"
    BY <1>4, <2>1 DEF IInv, SessionCanSave, Retrievable
  <2>2. CASE /\ job[p].cmd \in {"recrypt", "import"}
             /\ st[p] = "working" /\ todo[p] = {}
    BY <1>4, <2>2 DEF IInv, LoopHasDone, Does, Retrievable
  <2> QED
    BY <1>1, <2>1, <2>2
<1> QED
  BY <1>1, <1>2, <1>3, <1>5, <1>6 DEF Save

LEMMA SaveIInv == ASSUME IInv, NEW p \in Proc, Save(p) PROVE IInv'
<1>1. /\ Written(p, "pb") \in Image \cup {Torn}
      /\ Written(p, "pb").db = mem[p]
  BY SaveWrites, WrittenType
<1>2. /\ files' \in [Path -> Image \cup {NoFile, Torn}]
      /\ NoClearStore' /\ OwnerCanRead'
  BY <1>1, SaveWrites, WriteFile
<1>3. SinksKept(p) /\ sink'[p] = "none"
  BY SaveWrites DEF Save, SinksKept, IInv, TypeOK
<1>4. Over(p) /\ UNCHANGED fresh /\ LockBecomes(p, "free")
  BY DEF Save
<1> QED
  BY <1>2, <1>3, <1>4, OverIInv, LockBecomesType

LEMMA FinishIInv == ASSUME IInv, NEW p \in Proc, Finish(p) PROVE IInv'
<1>1. /\ EndExport(p) /\ job[p].other \in Path /\ mem[p] \in DB
      /\ JobCanSign(p) /\ job[p] \in Job
  BY DEF Finish, EndExport, IInv, TypeOK, JobWhileRunning, Does, Job
<1>2. /\ Written(p, "json") \in Image /\ Written(p, "json").fmt = "json"
      /\ AtHand(Written(p, "json").to)
  BY <1>1, WrittenType, SignerReads
<1>3. /\ files' \in [Path -> Image \cup {NoFile, Torn}]
      /\ NoClearStore' /\ OwnerCanRead'
  <2>1. CASE files' = files
    BY <2>1 DEF IInv, TypeOK, NoClearStore, OwnerCanRead, IsImage, Retrievable
  <2>2. CASE files' = [files EXCEPT ![job[p].other] = Written(p, "json")]
    BY <1>1, <1>2, <2>2, WriteFile
  <2> QED
    BY <2>1, <2>2 DEF Finish
<1>4. SinksKept(p) /\ sink'[p] = "none" /\ Over(p) /\ UNCHANGED <<lock, fresh>>
  BY <1>1 DEF EndExport, SinksKept, IInv, TypeOK
<1>5. lock' \in [Path -> {"free", "held", "stale"}]
  BY <1>4 DEF IInv, TypeOK
<1> QED
  BY <1>3, <1>4, <1>5, OverIInv

LEMMA LeaveIInv ==
  ASSUME IInv, NEW p \in Proc,
         Close(p) \/ FinishUnflushed(p) \/ Fail(p) \/ Kill(p)
  PROVE  IInv'
<1>1. Over(p) /\ UNCHANGED <<files, fresh>>
  BY DEF Close, FinishUnflushed, EndExport, Fail, Kill
<1>2. SinksKept(p) /\ sink'[p] = "none"
  <2>1. CASE Close(p)
    BY <2>1 DEF Close, SinksKept, IInv, TypeOK, JobWhileRunning, Does
  <2>2. CASE FinishUnflushed(p) \/ Fail(p) \/ Kill(p)
    BY <2>2 DEF FinishUnflushed, EndExport, Fail, Kill, SinksKept, IInv, TypeOK
  <2> QED
    BY <2>1, <2>2
<1>3. lock' \in [Path -> {"free", "held", "stale"}]
  <2>1. \/ \E l \in {"free", "stale"} : LockBecomes(p, l)
        \/ UNCHANGED lock
    BY DEF Close, FinishUnflushed, EndExport, Fail, Kill
  <2> QED
    BY <2>1, LockBecomesType DEF IInv, TypeOK
<1>4. /\ files' \in [Path -> Image \cup {NoFile, Torn}]
      /\ NoClearStore' /\ OwnerCanRead'
  BY <1>1 DEF IInv, TypeOK, NoClearStore, OwnerCanRead, IsImage, Retrievable
<1> QED
  BY <1>1, <1>2, <1>3, <1>4, OverIInv

LEMMA SpoilIInv ==
  ASSUME IInv, NEW p \in Proc, Truncate(p) \/ Tear(p) PROVE IInv'
<1>1. /\ job[p] \in Job /\ job[p].other \in Path
      /\ job[p].cmd = "export" /\ st[p] \in {"loaded", "truncated", "working"}
  BY DEF Truncate, Tear, Does, IInv, TypeOK, JobWhileRunning, Job
<1>2. files' = [files EXCEPT ![job[p].other] = Torn]
  BY DEF Truncate, Tear
<1>3. /\ files' \in [Path -> Image \cup {NoFile, Torn}]
      /\ NoClearStore' /\ OwnerCanRead'
  BY <1>1, <1>2, WriteFile
<1>4. TypeOK' /\ JobWhileRunning'
  <2>1. CASE Truncate(p)
    <3>1. /\ sink' \in [Proc -> {"none", "own", "mixed", "gone"}]
          /\ \A q \in Proc \ {p} : sink'[q] # "none" => sink[q] # "none"
      BY <2>1 DEF Truncate, Sharers, IInv, TypeOK
    <3>2. /\ st' = [st EXCEPT ![p] = "truncated"] /\ st[p] = "loaded"
          /\ UNCHANGED <<lock, fresh, job, mem, todo>>
      BY <2>1 DEF Truncate, Move, Does
    <3>3. TypeOK'
      BY <1>3, <3>1, <3>2 DEF IInv, TypeOK, State
    <3> QED
      BY <1>1, <3>1, <3>2, <3>3 DEF IInv, TypeOK, JobWhileRunning
  <2>2. CASE Tear(p)
    BY <1>3, <2>2 DEF Tear, IInv, TypeOK, JobWhileRunning
  <2> QED
    BY <2>1, <2>2
<1>5. SessionCanSave' /\ LoopHasDone'
  BY <1>1 DEF Truncate, Tear, Move, IInv, TypeOK, SessionCanSave, LoopHasDone,
     Does,
     Retrievable, JobReaders, RcdReaders
<1> QED
  BY <1>3, <1>4, <1>5 DEF IInv

LEMMA AddSignerIInv == ASSUME IInv, NEW p \in Proc, AddSigner(p) PROVE IInv'
<1> USE DEF AddSigner, Move
<1>1. job[p].cmd = "export"
  BY DEF IInv, JobWhileRunning
<1>2. TypeOK' /\ JobWhileRunning'
  BY <1>1 DEF IInv, TypeOK, State, JobWhileRunning, Names
<1>3. SessionCanSave' /\ LoopHasDone'
  BY <1>1 DEF IInv, TypeOK, SessionCanSave, LoopHasDone, Does,
     Retrievable, JobReaders, RcdReaders
<1>4. NoClearStore' /\ OwnerCanRead'
  BY DEF IInv, NoClearStore, OwnerCanRead, IsImage, Retrievable
<1> QED
  BY <1>2, <1>3, <1>4 DEF IInv

LEMMA WorldIInv ==
  ASSUME IInv, \/ \E f \in Path : DeleteStale(f)
               \/ \E h \in Home, k \in MayExpire : Expire(h, k)
               \/ UNCHANGED vars
  PROVE  IInv'
<1>1. /\ UNCHANGED <<files, job, st, mem, todo, sink>>
      /\ fresh' \in [Home -> SUBSET GpgKey]
      /\ \A h \in Home : fresh'[h] \subseteq fresh[h]
      /\ lock' \in [Path -> {"free", "held", "stale"}]
  BY DEF DeleteStale, Expire, IInv, TypeOK
<1>2. TypeOK' /\ JobWhileRunning' /\ NoClearStore' /\ OwnerCanRead'
  BY <1>1 DEF IInv, TypeOK, JobWhileRunning, NoClearStore, OwnerCanRead,
     IsImage, Retrievable
<1>3. \A p \in Proc : st[p] # "idle" => JobReaders(p)' \subseteq JobReaders(p)
  BY <1>1 DEF IInv, JobWhileRunning, Job, JobReaders, RcdReaders
<1>4. SessionCanSave' /\ LoopHasDone'
  BY <1>1, <1>3 DEF IInv, SessionCanSave, LoopHasDone, Does, Retrievable
<1> QED
  BY <1>2, <1>4 DEF IInv

LEMMA NextIInv == ASSUME IInv, [Next]_vars PROVE IInv'
  BY StartIInv, LoadDbIInv, LoadNewIInv, LoadImportIInv, EditIInv,
     ReEncodeIInv, DecryptIInv, SaveIInv, FinishIInv, LeaveIInv, SpoilIInv,
     AddSignerIInv, WorldIInv DEF Next

\* The invariant that everything below follows from.
THEOREM Invariance == Spec => []IInv
  BY InitIInv, NextIInv, PTL DEF Spec

\* No database ever holds a Store in the clear (subcmd_import re-encrypts what
\* subcmd_export flattened before it saves).
THEOREM NothingInTheClear == Spec => []NoClearStore
<1>1. IInv => NoClearStore
  BY DEF IInv
<1> QED
  BY <1>1, Invariance, PTL

\* Every file that was written can be opened with some secret key at hand, and
\* so can every record of a database, unless a session that was given a home
\* directory of its own sealed it -- whatever keys and home directories there
\* are, whichever each invocation uses, and whenever keys expire (add_signer,
\* the filters of encode_data, and the default context of a session's records).
THEOREM WhoeverSavesCanRead == Spec => []OwnerCanRead
<1>1. IInv => OwnerCanRead
  BY DEF IInv
<1> QED
  BY <1>1, Invariance, PTL

(***************************************************************************)
(* What a step may never do.                                               *)
(***************************************************************************)

\* The actions that write nothing.
LEMMA LeavesFiles ==
  ASSUME NEW p \in Proc,
         \/ Start(p) \/ LoadDb(p) \/ LoadNew(p) \/ LoadImport(p)
         \/ \E n \in Name : \/ AddRcd(p, n) \/ RemoveRcd(p, n)
                            \/ \E s \in Store : WriteRcd(p, n, s)
                            \/ ReEncode(p, n) \/ Decrypt(p, n)
         \/ Close(p) \/ AddSigner(p) \/ FinishUnflushed(p)
         \/ Fail(p) \/ Kill(p)
  PROVE  UNCHANGED files
<1>1. CASE Start(p)
  BY <1>1 DEF Start, RunLocked, RunExport, Run
<1>2. CASE LoadDb(p) \/ LoadNew(p) \/ LoadImport(p)
  BY <1>2 DEF LoadDb, LoadNew, LoadImport
<1>3. ASSUME NEW n \in Name,
             \/ AddRcd(p, n) \/ RemoveRcd(p, n)
             \/ \E s \in Store : WriteRcd(p, n, s)
      PROVE  UNCHANGED files
  BY <1>3 DEF AddRcd, RemoveRcd, WriteRcd, Edit
<1>4. ASSUME NEW n \in Name, ReEncode(p, n) \/ Decrypt(p, n)
      PROVE  UNCHANGED files
  BY <1>4 DEF ReEncode, Decrypt
<1>5. CASE \/ Close(p) \/ AddSigner(p) \/ FinishUnflushed(p)
           \/ Fail(p) \/ Kill(p)
  BY <1>5 DEF Close, AddSigner, FinishUnflushed, Fail, Kill
<1> QED
  BY <1>1, <1>2, <1>3, <1>4, <1>5

\* Only two actions put an image anywhere.
LEMMA WhoWrites ==
  ASSUME IInv, [Next]_vars
  PROVE  \/ UNCHANGED files
         \/ \E p \in Proc : Save(p) \/ Finish(p)
         \/ \E f \in Path : files' = [files EXCEPT ![f] = Torn]
<1>1. ASSUME NEW p \in Proc, Truncate(p) \/ Tear(p)
      PROVE  job[p].other \in Path
  BY <1>1 DEF IInv, TypeOK, JobWhileRunning, Truncate, Tear, Does, Job
<1>2. CASE \E p \in Proc : Truncate(p) \/ Tear(p)
  BY <1>1, <1>2 DEF Truncate, Tear
<1>3. CASE \/ \E f \in Path : DeleteStale(f)
           \/ \E h \in Home, k \in MayExpire : Expire(h, k)
           \/ UNCHANGED vars
  BY <1>3 DEF DeleteStale, Expire
<1> QED
  BY <1>2, <1>3, LeavesFiles DEF Next

\* A process that has ended its loop and is over has saved, if anything has
\* been written at all.
LEMMA LoopEnds ==
  ASSUME IInv, [Next]_vars, NEW p \in Proc,
         Does(p, "working", {"recrypt", "import"}), st'[p] = "idle",
         files' # files
  PROVE  Save(p)
<1>1. \A q \in Proc \ {p} : Over(q) => st'[p] = st[p]
  BY DEF Over, Move, IInv, TypeOK
<1>2. st[p] = "working" /\ job[p].cmd \in {"recrypt", "import"}
  BY DEF Does
<1>3. CASE \E q \in Proc : Save(q) \/ Finish(q)
  BY <1>1, <1>2, <1>3 DEF Save, Finish, EndExport, Does
<1>4. CASE \E q \in Proc : Truncate(q) \/ Tear(q)
  BY <1>2, <1>4 DEF Truncate, Tear, Move, IInv, TypeOK
<1>5. CASE \/ \E f \in Path : DeleteStale(f)
           \/ \E h \in Home, k \in MayExpire : Expire(h, k)
           \/ UNCHANGED vars
  BY <1>5 DEF DeleteStale, Expire
<1> QED
  BY <1>3, <1>4, <1>5, LeavesFiles DEF Next

\* After a recrypt or an import, all who can read the file can read each of
\* its records, and nobody but keys of its uid can (db_recrypt_rcd_stores and
\* encode_data, with their different filters, together).
THEOREM ReadersAfterRecrypt == Spec => RecryptReaders
<1>1. ASSUME IInv, [Next]_vars, NEW p \in Proc,
             Does(p, "working", {"recrypt", "import"}), files' # files,
             st'[p] = "idle",
             NEW n \in Names(files'[job[p].file].db)
      PROVE  LET i == files'[job[p].file]
             IN /\ i.db.rcds[n].kind = "sealed"
                /\ i.to \subseteq i.db.rcds[n].to
                /\ i.db.rcds[n].to \subseteq Fits(job[p].home, i.db.uid)
  <2>1. Save(p)
    BY <1>1, LoopEnds
  <2>2. files'[job[p].file] = Written(p, "pb")
    BY <1>1, <2>1, SaveWrites DEF IInv, TypeOK
  <2>3. /\ Written(p, "pb").db = mem[p]
        /\ Written(p, "pb").to \subseteq JobReaders(p)
    BY <1>1, <2>1, SaveWrites, WrittenType, ReadersType DEF JobReaders, Job
  <2> QED
    BY <1>1, <2>1, <2>2, <2>3, SaveWrites DEF Does
<1>2. IInv /\ [Next]_vars =>
        \A p \in Proc :
            Does(p, "working", {"recrypt", "import"}) /\ files' # files
                /\ st'[p] = "idle" =>
            LET i == files'[job[p].file]
            IN \A n \in Names(i.db) :
                   /\ i.db.rcds[n].kind = "sealed"
                   /\ i.to \subseteq i.db.rcds[n].to
                   /\ i.db.rcds[n].to \subseteq Fits(job[p].home, i.db.uid)
  BY <1>1
<1> QED
  BY <1>2, Invariance, PTL DEF Spec, RecryptReaders

\* An invocation that was told that its changes will not be saved writes no
\* image (check_uid against add_signer).
THEOREM TheWarnedDoNotSave == Spec => WarnedNeverSaves
<1>1. ASSUME IInv, [Next]_vars, NEW f \in Path,
             files'[f] \notin {files[f], NoFile, Torn}
      PROVE  \E p \in Proc : /\ st[p] # "idle" /\ st'[p] = "idle"
                             /\ f \in {job[p].file, job[p].other}
                             /\ ~Warned(job[p].home, mem[p].uid)
  <2>1. PICK p \in Proc : Save(p) \/ Finish(p)
    BY <1>1, WhoWrites DEF IInv, TypeOK
  <2>2. /\ st[p] # "idle" /\ Over(p) /\ JobCanSign(p)
        /\ \E x \in {job[p].file, job[p].other} : \E i :
             files' = [files EXCEPT ![x] = i] \/ files' = files
    BY <2>1 DEF Save, Finish, EndExport, Does
  <2>3. st'[p] = "idle" /\ ~Warned(job[p].home, mem[p].uid)
    BY <1>1, <2>2, SignerReads DEF Over, Move, IInv, TypeOK, JobWhileRunning
  <2>4. f \in {job[p].file, job[p].other}
    BY <1>1, <2>2 DEF IInv, TypeOK
  <2> QED
    BY <2>2, <2>3, <2>4
<1>2. IInv /\ [Next]_vars =>
        \A f \in Path :
            files'[f] \in {files[f], NoFile, Torn} \/
                \E p \in Proc : /\ st[p] # "idle" /\ st'[p] = "idle"
                                /\ f \in {job[p].file, job[p].other}
                                /\ ~Warned(job[p].home, mem[p].uid)
  BY <1>1
<1> QED
  BY <1>2, Invariance, PTL DEF Spec, WarnedNeverSaves

(***************************************************************************)
(* An import finds its place empty, and it stays empty: nobody else has    *)
(* the lock of a path, and no export writes there.                         *)
(***************************************************************************)
Holds(p) == st[p] # "idle" /\ job[p].cmd # "export"

PathsApart ==
    \A p \in Proc : /\ Holds(p) => job[p].file \in DbPath
                    /\ st[p] # "idle" /\ ~Holds(p) => job[p].other \in ExPath

LockHeld ==
    /\ \A p \in Proc : Holds(p) => lock[job[p].file] = "held"
    /\ \A p, q \in Proc :
         Holds(p) /\ Holds(q) /\ job[p].file = job[q].file => p = q

PlaceEmpty ==
    \A p \in Proc : Does(p, "working", {"import"}) =>
        files[job[p].file] = NoFile

PInv == PathsApart /\ LockHeld /\ PlaceEmpty

\* The processes that run do not change their options, and any that is new
\* has found its lock free.
LEMMA StartPInv ==
  ASSUME IInv, PInv, NEW p \in Proc, Start(p) PROVE PInv'
<1>1. PICK f \in DbPath, u \in Uid \cup {NoUid}, h \in Home :
        \/ \E c \in {"open", "recrypt"} : RunLocked(p, c, f, f, u, h)
        \/ \E x \in ExPath : \/ RunLocked(p, "import", f, x, u, h)
                             \/ RunExport(p, f, x, u, h)
  BY DEF Start
<1>2. /\ st[p] = "idle" /\ st' = [st EXCEPT ![p] = "started"]
      /\ UNCHANGED files
      /\ \/ /\ job'[p].cmd # "export" /\ job'[p].file = f /\ lock[f] = "free"
            /\ lock' = [lock EXCEPT ![f] = "held"]
         \/ job'[p].cmd = "export" /\ job'[p].other \in ExPath /\ lock' = lock
      /\ \A q \in Proc \ {p} : job'[q] = job[q]
  BY <1>1 DEF RunLocked, RunExport, Run, Move, IInv, TypeOK
<1>3. PathsApart'
  BY <1>2 DEF IInv, TypeOK, PInv, PathsApart, Holds
<1>4. LockHeld'
  BY <1>2 DEF IInv, TypeOK, PInv, LockHeld, PathsApart, Holds
<1>5. PlaceEmpty'
  BY <1>2 DEF IInv, TypeOK, PInv, PlaceEmpty, Does
<1> QED
  BY <1>3, <1>4, <1>5 DEF PInv

\* A process goes on: it does not come to work at an import without looking.
LEMMA GoOnPInv ==
  ASSUME IInv, PInv, NEW p \in Proc, NEW s \in State,
         st[p] # "idle", st' = [st EXCEPT ![p] = s], s # "idle",
         UNCHANGED <<files, lock, job>>,
         s = "working" /\ job[p].cmd = "import" =>
             files[job[p].file] = NoFile
  PROVE  PInv'
  BY DEF IInv, TypeOK, PInv, PathsApart, LockHeld, PlaceEmpty, Holds, Does

LEMMA LoadPInv ==
  ASSUME IInv, PInv, NEW p \in Proc,
         \/ LoadDb(p) \/ LoadNew(p) \/ LoadImport(p) \/ AddSigner(p)
         \/ \E n \in Name :
              \/ AddRcd(p, n) \/ RemoveRcd(p, n)
              \/ \E s \in Store : WriteRcd(p, n, s)
  PROVE  PInv'
<1>1. st[p] = "truncated" => job[p].cmd = "export"
  BY DEF IInv, JobWhileRunning
<1>2. \E s \in State :
        /\ s # "idle" /\ st' = [st EXCEPT ![p] = s]
        /\ s = "working" /\ job[p].cmd = "import" =>
               files[job[p].file] = NoFile
  BY <1>1 DEF LoadDb, LoadNew, LoadImport, AddSigner, AddRcd, RemoveRcd,
     WriteRcd, Edit, Does, Move, State
<1>3. st[p] # "idle" /\ UNCHANGED <<files, lock, job>>
  BY DEF LoadDb, LoadNew, LoadImport, AddSigner, AddRcd, RemoveRcd, WriteRcd,
     Edit, Does
<1> QED
  BY <1>2, <1>3, GoOnPInv

LEMMA StayPInv ==
  ASSUME IInv, PInv,
         \/ \E p \in Proc, n \in Name : ReEncode(p, n) \/ Decrypt(p, n)
         \/ \E f \in Path : DeleteStale(f)
         \/ \E h \in Home, k \in MayExpire : Expire(h, k)
         \/ UNCHANGED vars
  PROVE  PInv'
<1>1. UNCHANGED <<files, st, job>>
  BY DEF ReEncode, Decrypt, DeleteStale, Expire
<1>2. \A f \in Path : lock[f] = "held" => lock'[f] = "held"
  BY DEF ReEncode, Decrypt, DeleteStale, Expire, IInv, TypeOK
<1>3. \A p \in Proc : Holds(p) => job[p].file \in Path
  BY DEF PInv, PathsApart
<1> QED
  BY <1>1, <1>2, <1>3 DEF PInv, PathsApart, LockHeld, PlaceEmpty, Holds, Does

\* An export clears a place that is no database's.
LEMMA SpoilPInv ==
  ASSUME DbPath \cap ExPath = {}, IInv, PInv, NEW p \in Proc,
         Truncate(p) \/ Tear(p)
  PROVE  PInv'
<1>1. st[p] # "idle" /\ job[p].cmd = "export"
  BY DEF Truncate, Tear, Does, IInv, JobWhileRunning
<1>2. /\ UNCHANGED <<lock, job>> /\ st'[p] # "idle"
      /\ \A q \in Proc \ {p} : st'[q] = st[q]
      /\ files' = [files EXCEPT ![job[p].other] = Torn]
  BY <1>1 DEF Truncate, Tear, Move, IInv, TypeOK
<1>3. \A q \in Proc : Holds(q) => files'[job[q].file] = files[job[q].file]
  BY <1>1, <1>2 DEF PInv, PathsApart, Holds, IInv, TypeOK
<1> QED
  BY <1>1, <1>2, <1>3 DEF PInv, PathsApart, LockHeld, PlaceEmpty, Holds, Does

\* A process that is over has written at its own places, and gives back the
\* lock if it has one.
LEMMA OverPInv ==
  ASSUME DbPath \cap ExPath = {}, IInv, PInv, NEW p \in Proc,
         Save(p) \/ Close(p) \/ Finish(p) \/ FinishUnflushed(p)
             \/ Fail(p) \/ Kill(p)
  PROVE  PInv'
<1>1. st[p] # "idle" /\ Over(p)
  BY DEF Save, Close, Finish, FinishUnflushed, EndExport, Fail, Kill, Does
<1>2. st' = [st EXCEPT ![p] = "idle"] /\ \A q \in Proc \ {p} : job'[q] = job[q]
  BY <1>1 DEF Over, Move, IInv, TypeOK
<1>3. \A q \in Proc \ {p} : Holds(q) =>
        /\ job[q].file \in DbPath /\ job[q].file \in Path
        /\ Holds(p) => job[q].file # job[p].file
        /\ ~Holds(p) => job[q].file # job[p].other
  BY <1>1 DEF PInv, PathsApart, LockHeld, Holds
<1>4. \A q \in Proc \ {p} : Holds(q) => lock'[job[q].file] = lock[job[q].file]
  BY <1>1, <1>3 DEF Save, Close, Finish, FinishUnflushed, EndExport, Fail, Kill,
     LockBecomes, Holds, IInv, TypeOK
<1>5. \A q \in Proc \ {p} : Holds(q) =>
        files'[job[q].file] = files[job[q].file]
  BY <1>1, <1>3 DEF Save, Close, Finish, FinishUnflushed, EndExport, Fail, Kill,
     Does, Holds, IInv, TypeOK
<1>6. PathsApart' /\ LockHeld'
  BY <1>2, <1>4 DEF PInv, PathsApart, LockHeld, Holds, IInv, TypeOK
<1>7. PlaceEmpty'
  BY <1>2, <1>5 DEF PInv, PlaceEmpty, Does, Holds, IInv, TypeOK
<1> QED
  BY <1>6, <1>7 DEF PInv

LEMMA NextPInv ==
  ASSUME DbPath \cap ExPath = {}, IInv, PInv, [Next]_vars PROVE PInv'
  BY StartPInv, LoadPInv, StayPInv, SpoilPInv, OverPInv DEF Next

\* Where exchange files have paths of their own, an import never replaces a
\* database that has come to be since it looked (subcmd_import).
THEOREM ImportReplacesNothing ==
  ASSUME DbPath \cap ExPath = {} PROVE Spec => ImportOntoNothing
<1>1. Init => PInv
  BY DEF Init, PInv, PathsApart, LockHeld, PlaceEmpty, Holds, Does
<1>2. IInv /\ PInv /\ [Next]_vars => PInv'
  BY NextPInv
<1>3. ASSUME PInv
      PROVE  \A p \in Proc :
                Does(p, "working", {"import"}) /\ st'[p] = "idle" =>
                files'[job[p].file] = files[job[p].file]
                    \/ files[job[p].file] = NoFile
  BY <1>3 DEF PInv, PlaceEmpty
<1> QED
  BY <1>1, <1>2, <1>3, Invariance, PTL DEF Spec, ImportOntoNothing

(***************************************************************************)
(* The sub-commands implement the Archive.                                 *)
(***************************************************************************)
LEMMA DecodedType == ASSUME NEW d \in DB PROVE Decoded(d) \in Book
<1>1. \A n \in Name : d.rcds[n] # NoRcd => StoreOf(d.rcds[n]) \in Store
  BY StoreOfType DEF DB
<1> QED
  BY <1>1 DEF Decoded, Book

\* A record that is sealed anew, or flattened, tells the same.
LEMMA DecodedKept ==
  ASSUME NEW d \in DB, NEW n \in Name, d.rcds[n] # NoRcd, NEW r \in Rcd,
         StoreOf(r) = StoreOf(d.rcds[n])
  PROVE  Decoded(PutRcd(d, n, r)) = Decoded(d)
<1>1. /\ PutRcd(d, n, r).rcds[n] = r
      /\ \A m \in Name \ {n} : PutRcd(d, n, r).rcds[m] = d.rcds[m]
  BY PutRcdType
<1> QED
  BY <1>1 DEF Decoded

LEMMA HandIs ==
  ASSUME IInv, NEW p \in Proc
  PROVE  /\ ~AtWork(p) =>
                Hand[p] = NoFile /\ Role[p] = "none" /\ Goal[p] = NoFile
         /\ AtWork(p) =>
                /\ Hand[p] = Decoded(mem[p])
                /\ job[p] \in Job
                /\ Role[p] = RoleOf[job[p].cmd] /\ Role[p] # "none"
                /\ Goal[p] \in Path
                /\ Goal[p] = IF job[p].cmd = "export" THEN job[p].other
                             ELSE job[p].file
<1>1. AtWork(p) => job[p] \in Job
  BY DEF AtWork, IInv, TypeOK, State, JobWhileRunning
<1>2. \A c \in {"open", "recrypt", "import", "export"} :
        RoleOf[c] \in {"editor", "carrier", "copier"}
  BY DEF RoleOf
<1> QED
  BY <1>1, <1>2 DEF Hand, Role, Goal, Job

\* The mapped variables are functions.
LEMMA Mapped ==
  /\ Hand = [q \in Proc |-> Hand[q]] /\ Hand' = [q \in Proc |-> Hand'[q]]
  /\ Role = [q \in Proc |-> Role[q]] /\ Role' = [q \in Proc |-> Role'[q]]
  /\ Goal = [q \in Proc |-> Goal[q]] /\ Goal' = [q \in Proc |-> Goal'[q]]
  /\ Shelf = [f \in Path |-> Shelf[f]] /\ Shelf' = [f \in Path |-> Shelf'[f]]
  BY DEF Hand, Role, Goal, Shelf

\* What a step of p leaves alone.
LEMMA OthersHands ==
  ASSUME IInv, NEW p \in Proc,
         \A q \in Proc \ {p} :
            st'[q] = st[q] /\ job'[q] = job[q] /\ mem'[q] = mem[q]
  PROVE  /\ Hand' = [Hand EXCEPT ![p] = Hand'[p]]
         /\ Role' = [Role EXCEPT ![p] = Role'[p]]
         /\ Goal' = [Goal EXCEPT ![p] = Goal'[p]]
<1>1. \A q \in Proc \ {p} :
        Hand'[q] = Hand[q] /\ Role'[q] = Role[q] /\ Goal'[q] = Goal[q]
  BY DEF Hand, Role, Goal, AtWork
<1> QED
  BY <1>1, Mapped

LEMMA LoadTakes ==
  ASSUME IInv, NEW p \in Proc, LoadDb(p) \/ LoadNew(p) \/ LoadImport(p)
  PROVE  A!Next
<1>1. /\ st[p] = "started" /\ ~AtWork(p) /\ job[p] \in Job
      /\ job[p].file \in Path /\ job[p].other \in Path
      /\ job[p].uid \in Uid \cup {NoUid}
  BY DEF LoadDb, LoadNew, LoadImport, Does, IInv, JobWhileRunning, Job, AtWork
<1>2. /\ UNCHANGED <<files, job>>
      /\ st'[p] \notin {"idle", "started"}
      /\ \A q \in Proc \ {p} : st'[q] = st[q] /\ mem'[q] = mem[q]
  BY DEF LoadDb, LoadNew, LoadImport, Move, IInv, TypeOK
<1>3. IInv'
  BY LoadDbIInv, LoadNewIInv, LoadImportIInv
<1>4. /\ Hand'[p] = Decoded(mem'[p])
      /\ Role'[p] = RoleOf[job[p].cmd]
      /\ Goal'[p] = IF job[p].cmd = "export" THEN job[p].other ELSE job[p].file
  BY <1>2 DEF Hand, Role, Goal, AtWork
<1>5. /\ Hand' = [Hand EXCEPT ![p] = Decoded(mem'[p])]
      /\ Role' = [Role EXCEPT ![p] = RoleOf[job[p].cmd]] /\ Role[p] = "none"
      /\ Goal' = [Goal EXCEPT ![p] = IF job[p].cmd = "export"
                                     THEN job[p].other ELSE job[p].file]
      /\ Shelf' = Shelf
  BY <1>1, <1>2, <1>4, OthersHands, HandIs DEF Shelf, IsImage
<1>6. CASE LoadNew(p)
  <2>1. mem'[p] = Override(EmptyDb, job[p].uid)
    BY <1>6 DEF LoadNew, IInv, TypeOK
  <2>2. Decoded(mem'[p]) = Decoded(EmptyDb)
    BY <2>1, <1>1, EmptyDbType, OverrideType DEF Decoded
  <2>3. job[p].cmd = "open" /\ Shelf[job[p].file] = NoFile
    BY <1>1, <1>6 DEF LoadNew, Does, Shelf, IsImage
  <2>4. A!Become(p, "editor") /\ A!Grasp(p, Decoded(EmptyDb), job[p].file)
    BY <1>5, <2>2, <2>3 DEF A!Become, A!Grasp, RoleOf
  <2> QED
    BY <1>1, <2>3, <2>4 DEF A!Next, A!TakeUp
<1>7. ASSUME NEW f \in Path, NEW fmt, Readable(p, f, fmt),
             mem'[p] = Override(files[f].db, job[p].uid),
             job[p].cmd = "open" => f = job[p].file
      PROVE  A!Next
  <2>1. IsImage(f) /\ files[f].db \in DB
    BY <1>7, ReadableImage DEF IInv
  <2>2. Decoded(mem'[p]) = Decoded(files[f].db)
    BY <2>1, <1>7, <1>1, OverrideType DEF Decoded
  <2>3. Shelf[f] = Decoded(files[f].db) /\ Shelf[f] \in Book
    BY <2>1, DecodedType DEF Shelf
  <2>4. CASE job[p].cmd = "open"
    <3>0. RoleOf[job[p].cmd] = "editor" /\ job[p].file = f
      BY <1>7, <2>4 DEF RoleOf
    <3>1. A!Become(p, "editor") /\ A!Grasp(p, Shelf[f], f)
      BY <1>5, <2>2, <2>3, <2>4, <3>0 DEF A!Become, A!Grasp
    <3> QED
      BY <2>3, <3>1 DEF A!Next, A!TakeUp
  <2>5. CASE job[p].cmd # "open"
    <3> DEFINE y == IF job[p].cmd = "export" THEN job[p].other ELSE job[p].file
    <3>1. RoleOf[job[p].cmd] \in {"carrier", "copier"} /\ y \in Path
      BY <1>1, <2>5 DEF RoleOf, Job
    <3>2. A!Become(p, RoleOf[job[p].cmd]) /\ A!Grasp(p, Shelf[f], y)
      BY <1>5, <2>2, <2>3 DEF A!Become, A!Grasp
    <3> HIDE DEF y
    <3> QED
      BY <2>3, <3>1, <3>2 DEF A!Next, A!TakeAway
  <2> QED
    BY <2>4, <2>5
<1>8. CASE LoadDb(p)
  BY <1>1, <1>7, <1>8 DEF LoadDb, IInv, TypeOK
<1>9. CASE LoadImport(p)
  BY <1>1, <1>7, <1>9 DEF LoadImport, Does, IInv, TypeOK
<1> QED
  BY <1>6, <1>8, <1>9

LEMMA EditWrites ==
  ASSUME IInv, NEW p \in Proc, NEW n \in Name,
         \/ AddRcd(p, n) \/ RemoveRcd(p, n)
         \/ \E s \in Store : WriteRcd(p, n, s)
  PROVE  A!Next
<1>1. /\ st[p] \in {"loaded", "edited"} /\ job[p].cmd = "open"
      /\ st' = [st EXCEPT ![p] = "edited"] /\ UNCHANGED <<files, job>>
      /\ \A q \in Proc \ {p} : mem'[q] = mem[q]
  BY DEF AddRcd, RemoveRcd, WriteRcd, Edit, Move, IInv, TypeOK
<1>2. IInv'
  BY EditIInv
<1>3. Decoded(mem'[p]) \in Book
  BY <1>2, DecodedType DEF IInv, TypeOK
<1>4. st'[p] = "edited" /\ \A q \in Proc \ {p} : st'[q] = st[q]
  BY <1>1 DEF IInv, TypeOK
<1>5. /\ Hand'[p] = Decoded(mem'[p]) /\ Role'[p] = Role[p]
      /\ Goal'[p] = Goal[p] /\ Shelf' = Shelf /\ Role[p] = "editor"
  BY <1>1, <1>4 DEF Hand, Role, Goal, AtWork, RoleOf, Shelf, IsImage
<1>6. /\ Hand' = [Hand EXCEPT ![p] = Decoded(mem'[p])]
      /\ Role' = Role /\ Goal' = Goal
  BY <1>1, <1>4, <1>5, OthersHands, Mapped
<1> QED
  BY <1>3, <1>5, <1>6 DEF A!Next, A!Write

\* The loops of recrypt, import and export change no entry.
LEMMA LoopStutters ==
  ASSUME IInv, NEW p \in Proc, NEW n \in Name, ReEncode(p, n) \/ Decrypt(p, n)
  PROVE  UNCHANGED A!vars
<1>1. st[p] = "working" /\ n \in Names(mem[p]) /\ mem[p] \in DB
  BY DEF ReEncode, Decrypt, Does, IInv, TypeOK, JobWhileRunning
<1>2. mem[p].rcds[n] \in Rcd /\ mem[p].rcds[n] # NoRcd
      /\ StoreOf(mem[p].rcds[n]) \in Store
  BY <1>1, RcdIn, StoreOfType
<1>3. \E r \in Rcd : /\ StoreOf(r) = StoreOf(mem[p].rcds[n])
                     /\ mem' = [mem EXCEPT ![p] = PutRcd(mem[p], n, r)]
  <2>1. CASE ReEncode(p, n)
    <3> DEFINE a == FALSE
               r == Sealed(mem[p].rcds[n], JobReaders(p),
                           StoreOf(mem[p].rcds[n]), a)
    <3>1. JobReaders(p) \in SUBSET GpgKey /\ a \in BOOLEAN
      BY <1>1, JobReadersType DEF IInv, JobWhileRunning
    <3>2. mem' = [mem EXCEPT ![p] = PutRcd(mem[p], n, r)]
      BY <2>1 DEF ReEncode
    <3> HIDE DEF a
    <3>3. r \in Rcd /\ StoreOf(r) = StoreOf(mem[p].rcds[n])
      BY <1>2, <3>1, SealedType
    <3> HIDE DEF r
    <3> QED
      BY <3>2, <3>3
  <2>2. CASE Decrypt(p, n)
    BY <1>2, <2>2, InClearType DEF Decrypt
  <2> QED
    BY <2>1, <2>2
<1>4. Decoded(mem'[p]) = Decoded(mem[p])
  BY <1>1, <1>2, <1>3, DecodedKept DEF IInv, TypeOK
<1>5. UNCHANGED <<files, st, job>> /\ \A q \in Proc \ {p} : mem'[q] = mem[q]
  BY <1>3 DEF ReEncode, Decrypt, IInv, TypeOK
<1> QED
  BY <1>4, <1>5 DEF A!vars, Hand, Role, Goal, AtWork, Shelf, IsImage

LEMMA OverLets ==
  ASSUME IInv, NEW p \in Proc, Over(p)
  PROVE  /\ Hand' = [Hand EXCEPT ![p] = NoFile]
         /\ Role' = [Role EXCEPT ![p] = "none"]
         /\ Goal' = [Goal EXCEPT ![p] = NoFile]
<1>1. /\ st'[p] = "idle"
      /\ \A q \in Proc \ {p} :
            st'[q] = st[q] /\ job'[q] = job[q] /\ mem'[q] = mem[q]
  BY DEF Over, Move, IInv, TypeOK
<1>2. Hand'[p] = NoFile /\ Role'[p] = "none" /\ Goal'[p] = NoFile
  BY <1>1 DEF Hand, Role, Goal, AtWork
<1> QED
  BY <1>1, <1>2, OthersHands

\* What is written is what was in hand.
LEMMA WritePuts ==
  ASSUME IInv, NEW p \in Proc, Save(p) \/ Finish(p), files' # files
  PROVE  A!Next
<1>1. /\ st[p] \in {"edited", "working"} /\ Over(p) /\ job[p] \in Job
      /\ mem[p] \in DB
  BY DEF Save, Finish, EndExport, Does, IInv, TypeOK, JobWhileRunning
<1>2. AtWork(p)
  BY <1>1 DEF AtWork
<1>3. PICK fmt \in {"pb", "json"} :
        files' = [files EXCEPT ![Goal[p]] = Written(p, fmt)]
  BY <1>1, <1>2, HandIs DEF Save, Finish, EndExport, Does
<1>4. Written(p, fmt).db = mem[p] /\ Written(p, fmt) \notin {NoFile, Torn}
  BY <1>1, WrittenType
<1>5. Hand[p] = Decoded(mem[p]) /\ Goal[p] \in Path /\ Role[p] # "none"
  BY <1>2, HandIs
<1>6. /\ Shelf'[Goal[p]] = Decoded(mem[p])
      /\ \A g \in Path \ {Goal[p]} : Shelf'[g] = Shelf[g]
  BY <1>3, <1>4, <1>5 DEF Shelf, IsImage, IInv, TypeOK
<1>7. Shelf' = [Shelf EXCEPT ![Goal[p]] = Hand[p]]
  BY <1>5, <1>6, Mapped
<1> QED
  BY <1>1, <1>5, <1>7, OverLets DEF A!Next, A!Let

LEMMA LeaveDrops ==
  ASSUME IInv, NEW p \in Proc,
         \/ Close(p) \/ FinishUnflushed(p) \/ Fail(p) \/ Kill(p)
         \/ Save(p) /\ files' = files
         \/ Finish(p) /\ files' = files
  PROVE  A!Next \/ UNCHANGED A!vars
<1>1. Over(p) /\ UNCHANGED files /\ st[p] # "idle"
  BY DEF Close, FinishUnflushed, EndExport, Fail, Kill, Save, Finish, Does
<1>2. Shelf' = Shelf
  BY <1>1 DEF Shelf, IsImage
<1>3. CASE st[p] = "started"
  <2>1. Hand[p] = NoFile /\ Role[p] = "none" /\ Goal[p] = NoFile
    BY <1>3, HandIs DEF AtWork
  <2> QED
    BY <1>1, <1>2, <2>1, OverLets, Mapped DEF A!vars
<1>4. CASE st[p] # "started"
  <2>1. Role[p] # "none"
    BY <1>1, <1>4, HandIs DEF AtWork
  <2> QED
    BY <1>1, <1>2, <2>1, OverLets DEF A!Next, A!Let
<1> QED
  BY <1>3, <1>4

LEMMA TruncateSpoils ==
  ASSUME IInv, NEW p \in Proc, Truncate(p) \/ Tear(p) PROVE A!Next
<1>1. /\ job[p] \in Job /\ job[p].other \in Path /\ job[p].cmd = "export"
      /\ st[p] \in {"loaded", "truncated", "working"}
      /\ st'[p] \in {"truncated", "working"}
      /\ UNCHANGED <<job, mem>> /\ \A q \in Proc \ {p} : st'[q] = st[q]
      /\ files' = [files EXCEPT ![job[p].other] = Torn]
  BY DEF Truncate, Tear, Does, Move, IInv, TypeOK, JobWhileRunning, Job
<1>2. /\ Shelf'[job[p].other] = Torn
      /\ \A g \in Path \ {job[p].other} : Shelf'[g] = Shelf[g]
  BY <1>1 DEF Shelf, IsImage, IInv, TypeOK
<1>3. Shelf' = [Shelf EXCEPT ![job[p].other] = Torn]
  BY <1>1, <1>2, Mapped
<1>4. Hand' = Hand /\ Role' = Role /\ Goal' = Goal
  BY <1>1 DEF Hand, Role, Goal, AtWork
<1>5. Role[p] = "copier" /\ Goal[p] = job[p].other
  BY <1>1 DEF Role, RoleOf, Goal, AtWork
<1> QED
  BY <1>3, <1>4, <1>5 DEF A!Next, A!Spoil

LEMMA OtherStutters ==
  ASSUME IInv,
         \/ \E p \in Proc : Start(p) \/ AddSigner(p)
         \/ \E f \in Path : DeleteStale(f)
         \/ \E h \in Home, k \in MayExpire : Expire(h, k)
         \/ UNCHANGED vars
  PROVE  UNCHANGED A!vars
<1>1. CASE \E p \in Proc : Start(p)
  <2>1. PICK p \in Proc : /\ st[p] = "idle" /\ UNCHANGED <<files, mem>>
                          /\ st'[p] = "started"
                          /\ \A q \in Proc \ {p} :
                                st'[q] = st[q] /\ job'[q] = job[q]
    BY <1>1 DEF Start, RunLocked, RunExport, Run, Move, IInv, TypeOK
  <2>2. /\ \A q \in Proc :
            Hand'[q] = Hand[q] /\ Role'[q] = Role[q] /\ Goal'[q] = Goal[q]
        /\ Shelf' = Shelf
    BY <2>1 DEF Hand, Role, Goal, AtWork, Shelf, IsImage
  <2> QED
    BY <2>2, Mapped DEF A!vars
<1>2. CASE \E p \in Proc : AddSigner(p)
  <2>1. PICK p \in Proc : /\ st[p] = "truncated" /\ st'[p] = "working"
                          /\ UNCHANGED <<files, mem, job>>
                          /\ \A q \in Proc \ {p} : st'[q] = st[q]
    BY <1>2 DEF AddSigner, Move, IInv, TypeOK
  <2>2. /\ \A q \in Proc :
            Hand'[q] = Hand[q] /\ Role'[q] = Role[q] /\ Goal'[q] = Goal[q]
        /\ Shelf' = Shelf
    BY <2>1 DEF Hand, Role, Goal, AtWork, Shelf, IsImage
  <2> QED
    BY <2>2, Mapped DEF A!vars
<1>3. CASE UNCHANGED <<files, st, mem, job>>
  BY <1>3 DEF A!vars, Hand, Role, Goal, AtWork, Shelf, IsImage
<1> QED
  BY <1>1, <1>2, <1>3 DEF DeleteStale, Expire

LEMMA InitArchive == Init => A!Init
<1> SUFFICES ASSUME Init PROVE A!Init
  OBVIOUS
<1>1. IInv
  BY InitIInv
<1>2. /\ Hand = [p \in Proc |-> NoFile] /\ Role = [p \in Proc |-> "none"]
      /\ Goal = [p \in Proc |-> NoFile]
  BY DEF Init, Hand, Role, Goal, AtWork
<1>3. ASSUME NEW f \in Path PROVE Shelf[f] \in Book \cup {NoFile}
  <2>1. files[f] = NoFile \/ files[f] \in Given
    BY DEF Init
  <2>2. CASE files[f] = NoFile
    BY <2>2 DEF Shelf, IsImage
  <2>3. CASE files[f] \in Given
    <3>1. files[f].db \in DB /\ IsImage(f)
      BY <2>3, GivenAssumption DEF Image, IsImage
    <3> QED
      BY <3>1, DecodedType DEF Shelf
  <2> QED
    BY <2>1, <2>2, <2>3
<1>4. Shelf \in [Path -> Book \cup {NoFile}]
  <2>1. Shelf = [f \in Path |-> Shelf[f]]
    BY DEF Shelf
  <2> QED
    BY <1>3, <2>1
<1> QED
  BY <1>2, <1>4 DEF A!Init

\* recrypt, import and export change no entry of any book, in whatever order
\* they decrypt and encrypt and wherever they fail; only a session does, and
\* only an export in progress leaves a file that is no book.
THEOREM ImplementsArchive == Spec => ArchiveSpec
<1>1. IInv /\ [Next]_vars => [A!Next]_(A!vars)
  <2> SUFFICES ASSUME IInv, [Next]_vars PROVE A!Next \/ UNCHANGED A!vars
    OBVIOUS
  <2> QED
    BY LoadTakes, EditWrites, LoopStutters, WritePuts, LeaveDrops,
       TruncateSpoils, OtherStutters DEF Next
<1> QED
  BY <1>1, InitArchive, Invariance, PTL DEF Spec, ArchiveSpec, A!Spec
=============================================================================
