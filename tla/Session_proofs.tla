--------------------------- MODULE Session_proofs ---------------------------
(***************************************************************************)
(* Proofs about Session, for any names, tags, keys, keyrings and bound:    *)
(* the flags tell the truth, and so the session implements the Vault; and  *)
(* no command leaves an empty tag behind.                                  *)
(***************************************************************************)
EXTENDS Session, TLAPS

(***************************************************************************)
(* Lemmas about the operations of pwdb::db, for any names, tags and keys.  *)
(***************************************************************************)

LEMMA EmptyDbType == EmptyDb \in DB
  BY DEF EmptyDb, DB

\* Every operation makes a database of a database.
LEMMA AddType ==
  ASSUME NEW d \in DB, NEW n \in Name, NEW c \in Comment
  PROVE  Add(d, n, c) \in DB
  BY DEF Add, DB, Rcd

LEMMA WithoutType ==
  ASSUME NEW list \in [Name -> Nat], NEW n \in Name
  PROVE  /\ Without(list, n) \in [Name -> Nat]
         /\ \A m \in Name : m # n => Without(list, n)[m] = list[m]
         /\ Without(list, n)[n] = IF list[n] = 0 THEN 0 ELSE list[n] - 1
  BY DEF Without

LEMMA RemoveType ==
  ASSUME NEW d \in DB, NEW n \in Name
  PROVE  Remove(d, n) \in DB
<1> DEFINE left == [t \in Tag |-> Without(d.count[t], n)]
<1>1. left \in [Tag -> [Name -> Nat]]
  BY WithoutType DEF DB
<1>2. {t \in d.tags : \E m \in Name : left[t][m] > 0} \in SUBSET Tag
  BY DEF DB
<1> HIDE DEF left
<1>3. [d EXCEPT !.rcds[n] = NoRcd,
                !.count = left,
                !.tags = {t \in d.tags : \E m \in Name : left[t][m] > 0}] \in DB
  BY <1>1, <1>2 DEF DB
<1> QED
  BY <1>3 DEF Remove, left

LEMMA EntagType ==
  ASSUME NEW d \in DB, NEW n \in Name, NEW t \in Tag
  PROVE  Entag(d, n, t) \in DB
<1>1. [d.count[t] EXCEPT ![n] = d.count[t][n] + 1] \in [Name -> Nat]
  BY DEF DB
<1> QED
  BY <1>1 DEF Entag, DB

LEMMA DetagType ==
  ASSUME NEW d \in DB, NEW n \in Name, NEW t \in Tag
  PROVE  Detag(d, n, t) \in DB
<1>1. Without(d.count[t], n) \in [Name -> Nat]
  BY WithoutType DEF DB
<1> QED
  BY <1>1 DEF Detag, DB

LEMMA SetCommentType ==
  ASSUME NEW d \in DB, NEW n \in Name, NEW c \in Comment, Has(d, n)
  PROVE  SetComment(d, n, c) \in DB
  BY DEF SetComment, DB, Has, Rcd

LEMMA SetDataType ==
  ASSUME NEW d \in DB, NEW n \in Name, NEW p \in Data, Has(d, n)
  PROVE  SetData(d, n, p) \in DB
  BY DEF SetData, DB, Has, Rcd

LEMMA SetUidType ==
  ASSUME NEW d \in DB, NEW u \in Uid \cup {NoUid}
  PROVE  SetUid(d, u) \in DB
  BY DEF SetUid, DB

LEMMA StoreOfType ==
  ASSUME NEW r \in Rcd
  PROVE  StoreOf(r) \in Store
  BY DEF StoreOf, Rcd, Data, Store, EmptyStore

(***************************************************************************)
(* The tag index.                                                          *)
(***************************************************************************)

LEMMA EmptyDbCarried == TagsAreCarried(EmptyDb)
  BY DEF TagsAreCarried, AtTag, EmptyDb

\* What does not touch the index leaves it as it is.
LEMMA SameIndexCarried ==
  ASSUME NEW d, NEW e, TagsAreCarried(d), e.tags = d.tags, e.count = d.count
  PROVE  TagsAreCarried(e)
  BY DEF TagsAreCarried, AtTag

LEMMA EntagCarried ==
  ASSUME NEW d \in DB, NEW n \in Name, NEW t \in Tag, TagsAreCarried(d)
  PROVE  TagsAreCarried(Entag(d, n, t))
<1> DEFINE e == Entag(d, n, t)
<1>1. /\ e.tags = d.tags \cup {t}
      /\ \A s \in Tag : s # t => e.count[s] = d.count[s]
      /\ e.count[t][n] > 0
  BY DEF Entag, DB
<1>2. \A s \in Tag : AtTag(e, s) # {} <=> s = t \/ AtTag(d, s) # {}
  BY <1>1 DEF AtTag
<1> QED
  BY <1>1, <1>2 DEF TagsAreCarried

LEMMA DetagCarried ==
  ASSUME NEW d \in DB, NEW n \in Name, NEW t \in Tag, TagsAreCarried(d),
         d.count[t][n] > 0
  PROVE  TagsAreCarried(Detag(d, n, t))
<1> DEFINE left == Without(d.count[t], n)
           e == Detag(d, n, t)
<1>1. /\ e.count[t] = left
      /\ \A s \in Tag : s # t => e.count[s] = d.count[s]
      /\ e.tags = IF \E m \in Name : left[m] > 0 THEN d.tags ELSE d.tags \ {t}
  BY DEF Detag, DB
<1>2. t \in d.tags
  BY DEF TagsAreCarried, AtTag
<1>3. \A s \in Tag : s # t => AtTag(e, s) = AtTag(d, s)
  BY <1>1 DEF AtTag
<1>4. AtTag(e, t) = {m \in Name : left[m] > 0}
  BY <1>1 DEF AtTag
<1> QED
  BY <1>1, <1>2, <1>3, <1>4 DEF TagsAreCarried

LEMMA RemoveIndex ==
  ASSUME NEW d \in DB, NEW n \in Name
  PROVE  /\ Remove(d, n).rcds[n] = NoRcd
         /\ \A m \in Name : m # n => Remove(d, n).rcds[m] = d.rcds[m]
         /\ \A t \in Tag : Remove(d, n).count[t] = Without(d.count[t], n)
         /\ \A t \in Tag : t \in Remove(d, n).tags <=>
                  /\ t \in d.tags
                  /\ \E m \in Name : Without(d.count[t], n)[m] > 0
<1> DEFINE left == [t \in Tag |-> Without(d.count[t], n)]
           e == [d EXCEPT !.rcds[n] = NoRcd,
                          !.count = left,
                          !.tags = {t \in d.tags :
                                        \E m \in Name : left[t][m] > 0}]
<1>1. Remove(d, n) = e
  BY DEF Remove
<1>2. \A t \in d.tags : left[t] = Without(d.count[t], n)
  BY DEF DB
<1> HIDE DEF left
<1>3. /\ e.rcds = [d.rcds EXCEPT ![n] = NoRcd]
      /\ e.count = left
      /\ e.tags = {t \in d.tags : \E m \in Name : left[t][m] > 0}
  BY DEF DB
<1>4. /\ e.rcds[n] = NoRcd
      /\ \A m \in Name : m # n => e.rcds[m] = d.rcds[m]
  BY <1>3 DEF DB
<1>5. \A t \in Tag : e.count[t] = Without(d.count[t], n)
  BY <1>3 DEF left
<1>6. \A t \in Tag : t \in e.tags <=>
         t \in d.tags /\ \E m \in Name : Without(d.count[t], n)[m] > 0
  BY <1>2, <1>3
<1> HIDE DEF e
<1> QED
  BY <1>1, <1>4, <1>5, <1>6

\* No list gains a name, and the record's own loses one occurrence.
LEMMA RemoveCounts ==
  ASSUME NEW d \in DB, NEW n \in Name, NEW t \in Tag, NEW m \in Name,
         Remove(d, n).count[t][m] > 0
  PROVE  d.count[t][m] > IF m = n THEN 1 ELSE 0
<1>1. d.count[t] \in [Name -> Nat]
  BY DEF DB
<1>2. Remove(d, n).count[t] = Without(d.count[t], n)
  BY RemoveIndex
<1>3. /\ m # n => Without(d.count[t], n)[m] = d.count[t][m]
      /\ Without(d.count[t], n)[n] = IF d.count[t][n] = 0 THEN 0
                                     ELSE d.count[t][n] - 1
  BY <1>1, WithoutType
<1>4. d.count[t][n] \in Nat /\ d.count[t][m] \in Nat
  BY <1>1
<1>5. CASE m = n
  BY <1>2, <1>3, <1>4, <1>5
<1>6. CASE m # n
  BY <1>2, <1>3, <1>6
<1> QED
  BY <1>5, <1>6

LEMMA RemoveCarried ==
  ASSUME NEW d \in DB, NEW n \in Name, TagsAreCarried(d)
  PROVE  TagsAreCarried(Remove(d, n))
<1> DEFINE e == Remove(d, n)
<1>1. ASSUME NEW t \in Tag, AtTag(e, t) # {} PROVE AtTag(d, t) # {}
  <2>1. PICK m \in Name : e.count[t][m] > 0
    BY <1>1 DEF AtTag
  <2>2. d.count[t][m] \in Nat
    BY DEF DB
  <2>3. d.count[t][m] > IF m = n THEN 1 ELSE 0
    BY <2>1, RemoveCounts
  <2>4. d.count[t][m] > 0
    BY <2>2, <2>3
  <2> QED
    BY <2>4 DEF AtTag
<1>2. ASSUME NEW t \in Tag
      PROVE  t \in e.tags <=> t \in d.tags /\ AtTag(e, t) # {}
  <2>1. e.count[t] = Without(d.count[t], n)
    BY RemoveIndex
  <2>2. AtTag(e, t) = {m \in Name : Without(d.count[t], n)[m] > 0}
    BY <2>1 DEF AtTag
  <2> QED
    BY <2>2, RemoveIndex
<1> QED
  BY <1>1, <1>2 DEF TagsAreCarried

\* A record that carries a tag once at most is gone from it once removed.
LEMMA RemoveDangling ==
  ASSUME NEW d \in DB, NEW n \in Name, NEW m \in Name, NEW t \in Tag,
         Has(d, n), Dangling(Remove(d, n), m, t)
  PROVE  Dangling(d, m, t) \/ (Has(d, m) /\ d.count[t][m] > 1)
<1>1. d.count[t][m] > IF m = n THEN 1 ELSE 0
  BY RemoveCounts DEF Dangling
<1>2. m # n => (Has(Remove(d, n), m) <=> Has(d, m))
  BY RemoveIndex DEF Has, DB
<1> QED
  BY <1>1, <1>2 DEF Dangling

(***************************************************************************)
(* What the operations do to the records.                                  *)
(***************************************************************************)
LEMMA RecordsKept ==
  ASSUME NEW d \in DB, NEW n \in Name, NEW t \in Tag, NEW u
  PROVE  /\ Entag(d, n, t).rcds = d.rcds
         /\ Detag(d, n, t).rcds = d.rcds
         /\ SetUid(d, u).rcds = d.rcds
<1> DEFINE f == [d.count[t] EXCEPT ![n] = d.count[t][n] + 1]
           g == Without(d.count[t], n)
           T == IF \E m \in Name : g[m] > 0 THEN d.tags ELSE d.tags \ {t}
<1>1. Entag(d, n, t) = [d EXCEPT !.tags = d.tags \cup {t}, !.count[t] = f]
  BY DEF Entag
<1>2. Detag(d, n, t) = [d EXCEPT !.count[t] = g, !.tags = T]
  BY DEF Detag
<1> HIDE DEF f, g, T
<1> QED
  BY <1>1, <1>2 DEF DB, SetUid

LEMMA IndexKept ==
  ASSUME NEW d \in DB, NEW n \in Name, NEW c, NEW p, NEW u
  PROVE  /\ Add(d, n, c).tags = d.tags
         /\ Add(d, n, c).count = d.count
         /\ SetComment(d, n, c).tags = d.tags
         /\ SetComment(d, n, c).count = d.count
         /\ SetData(d, n, p).tags = d.tags
         /\ SetData(d, n, p).count = d.count
         /\ SetUid(d, u).tags = d.tags
         /\ SetUid(d, u).count = d.count
  BY DEF DB, Add, SetComment, SetData, SetUid

-----------------------------------------------------------------------------
(***************************************************************************)
(* The session.                                                            *)
(***************************************************************************)

\* What most steps do not change.
USE SessionAssumption DEF file, memory, rcd, vars, Over, Phase

LEMMA LoadedType ==
  ASSUME disk \in DB \cup {NoFile} PROVE Loaded \in DB
  BY EmptyDbType DEF Loaded

LEMMA EmptyStoreType == EmptyStore \in Store
  BY DEF EmptyStore, Store

LEMMA RecipientsType ==
  ASSUME NEW u PROVE Recipients(DefaultHome, u) \subseteq GpgKey
  BY DEF Recipients

LEMMA InitIInv == Init => IInv
  BY EmptyDbType, EmptyStoreType
     DEF Init, IInv, TypeOK, FlagsTell, RcdFlagTells, HeldWhileRunning

(***************************************************************************)
(* Each action keeps the invariant.                                        *)
(***************************************************************************)

\* What the commands that edit the database have in common.
LEMMA EditIInv ==
  ASSUME IInv, NEW d \in DB, Edit(d) PROVE IInv'
  BY DEF Edit, IInv, TypeOK, FlagsTell, RcdFlagTells, HeldWhileRunning, Loaded

LEMMA StartIInv ==
  ASSUME IInv, NEW u \in Uid \cup {NoUid}, Start(u) PROVE IInv'
<1> USE DEF Start
<1> DEFINE change == u # NoUid /\ u # Loaded.uid
<1>1. db' \in DB
  BY LoadedType, SetUidType DEF IInv, TypeOK
<1>2. cdbModified' \/ db' = Loaded'
  BY DEF Loaded
<1>3. cdbModified' \in BOOLEAN
  <2>1. cdbModified' = change
    OBVIOUS
  <2>2. change \in BOOLEAN
    OBVIOUS
  <2> HIDE DEF change
  <2> QED
    BY <2>1, <2>2, Zenon
<1>4. TypeOK'
  BY <1>1, <1>3 DEF IInv, TypeOK
<1>5. FlagsTell' /\ RcdFlagTells' /\ HeldWhileRunning'
  BY <1>2 DEF IInv, FlagsTell, RcdFlagTells, HeldWhileRunning
<1> QED
  BY <1>4, <1>5 DEF IInv

LEMMA CommandsAreEdits ==
  ASSUME IInv, NEW n \in Name,
         \/ RemoveCmd(n)
         \/ \E c \in Comment : AddCmd(n, c) \/ CommentCmd(n, c)
         \/ \E t \in Tag : TagCmd(n, t) \/ DetagCmd(n, t)
  PROVE  \E d \in DB : Edit(d)
<1> USE DEF IInv, TypeOK
<1>1. CASE RemoveCmd(n)
  BY <1>1, RemoveType DEF RemoveCmd
<1>2. ASSUME NEW c \in Comment, AddCmd(n, c) PROVE \E d \in DB : Edit(d)
  BY <1>2, AddType DEF AddCmd
<1>3. ASSUME NEW c \in Comment, CommentCmd(n, c) PROVE \E d \in DB : Edit(d)
  BY <1>3, SetCommentType DEF CommentCmd
<1>4. ASSUME NEW t \in Tag, TagCmd(n, t) PROVE \E d \in DB : Edit(d)
  BY <1>4, EntagType DEF TagCmd
<1>5. ASSUME NEW t \in Tag, DetagCmd(n, t) PROVE \E d \in DB : Edit(d)
  BY <1>5, DetagType DEF DetagCmd
<1> QED
  BY <1>1, <1>2, <1>3, <1>4, <1>5

LEMMA OpenCmdIInv ==
  ASSUME IInv, NEW n \in Name, OpenCmd(n) PROVE IInv'
<1>1. db.rcds[n] \in Rcd
  BY DEF OpenCmd, IInv, TypeOK, DB, Has
<1>2. store' \in Store
  BY <1>1, StoreOfType DEF OpenCmd
<1> QED
  BY <1>2 DEF OpenCmd, IInv, TypeOK, FlagsTell, RcdFlagTells,
     HeldWhileRunning, Loaded

LEMMA EditStoreIInv ==
  ASSUME IInv, NEW k \in Key, NEW v \in Val \cup {Unset}, EditStore(k, v)
  PROVE  IInv'
<1>1. store' \in Store
  BY DEF EditStore, IInv, TypeOK, Store
<1> QED
  BY <1>1 DEF EditStore, IInv, TypeOK, FlagsTell, RcdFlagTells,
     HeldWhileRunning, Loaded

LEMMA CloseRecordIInv == ASSUME IInv, CloseRecord PROVE IInv'
<1>1. db' \in DB
  <2>1. CASE rcdModified
    <3>1. [to |-> Recipients(DefaultHome, db.uid), vals |-> store] \in Data
      BY RecipientsType DEF Data, IInv, TypeOK
    <3> QED
      BY <2>1, <3>1, SetDataType DEF CloseRecord, IInv, TypeOK, RcdFlagTells
  <2>2. CASE ~rcdModified
    BY <2>2 DEF CloseRecord, IInv, TypeOK
  <2> QED
    BY <2>1, <2>2
<1>2. modified' \in BOOLEAN /\ (modified' \/ UNCHANGED <<db, modified>>)
  BY DEF CloseRecord, IInv, TypeOK
<1>3. TypeOK'
  BY <1>1, <1>2, EmptyStoreType DEF CloseRecord, RcdGone, IInv, TypeOK
<1>4. FlagsTell'
  BY <1>2 DEF CloseRecord, IInv, FlagsTell, Loaded
<1>5. RcdFlagTells' /\ HeldWhileRunning'
  BY DEF CloseRecord, RcdGone, IInv, RcdFlagTells, HeldWhileRunning
<1> QED
  BY <1>3, <1>4, <1>5 DEF IInv

LEMMA ExitIInv == ASSUME IInv, Exit PROVE IInv'
  BY DEF Exit, IInv, TypeOK, FlagsTell, RcdFlagTells, HeldWhileRunning, Loaded

LEMMA SaveIInv == ASSUME IInv, Save \/ CloseUnmodified PROVE IInv'
  BY EmptyDbType
     DEF Save, CloseUnmodified, MemoryGone, IInv, TypeOK, FlagsTell,
         RcdFlagTells, HeldWhileRunning

\* The ways a session ends badly.
Fails ==
    \/ BadLine
    \/ \E n \in Name : OpenThrows(n)
    \/ CloseRecordThrows
    \/ SaveThrows
    \/ HelpUnknown

LEMMA FailsIInv == ASSUME IInv, Fails PROVE IInv'
  BY EmptyDbType, EmptyStoreType
     DEF Fails, BadLine, OpenThrows, CloseRecordThrows, SaveThrows,
         HelpUnknown, Unwind, MemoryGone, RcdGone, IInv, TypeOK, FlagsTell,
         RcdFlagTells, HeldWhileRunning

LEMMA OutsideIInv == ASSUME IInv, StartThrows \/ DeleteStale PROVE IInv'
  BY DEF StartThrows, DeleteStale, IInv, TypeOK, FlagsTell, RcdFlagTells,
     HeldWhileRunning, Loaded

\* The steps, sorted by what they do to the book.
LEMMA StepKinds ==
  ASSUME IInv, Next
  PROVE  \/ \E u \in Uid \cup {NoUid} : Start(u)
         \/ StartThrows \/ DeleteStale
         \/ \E n \in Name :
             \/ RemoveCmd(n)
             \/ \E c \in Comment : AddCmd(n, c) \/ CommentCmd(n, c)
             \/ \E t \in Tag : TagCmd(n, t) \/ DetagCmd(n, t)
         \/ \E n \in Name : OpenCmd(n)
         \/ Exit
         \/ \E k \in Key, v \in Val \cup {Unset} : EditStore(k, v)
         \/ CloseRecord
         \/ Save \/ CloseUnmodified
         \/ Fails
  BY DEF Next, Command, RecordCommand, SetCmd, UnsetCmd, Fails

LEMMA NextIInv == IInv /\ [Next]_vars => IInv'
<1> SUFFICES ASSUME IInv, [Next]_vars PROVE IInv'
  OBVIOUS
<1>1. CASE Next
  BY <1>1, StepKinds, StartIInv, OutsideIInv, CommandsAreEdits, EditIInv,
     OpenCmdIInv, ExitIInv, EditStoreIInv, CloseRecordIInv, SaveIInv, FailsIInv
<1>2. CASE UNCHANGED vars
  BY <1>2 DEF IInv, TypeOK, FlagsTell, RcdFlagTells, HeldWhileRunning, Loaded
<1> QED
  BY <1>1, <1>2

\* The inductive invariant holds for any records, tags and user ids.
THEOREM Invariance == Spec => []IInv
<1>1. Init => IInv
  BY InitIInv
<1>2. IInv /\ [Next]_vars => IInv'
  BY NextIInv
<1> QED
  BY <1>1, <1>2, PTL DEF Spec

\* A session that would end without saving has nothing to save.
THEOREM NothingUnflagged == Spec => []FlagsTell
<1>1. IInv => FlagsTell
  BY DEF IInv
<1> QED
  BY <1>1, Invariance, PTL

(***************************************************************************)
(* The tag index.                                                          *)
(***************************************************************************)

\* The index in memory and the one in the file, which a session starts from.
Carried == TagsAreCarried(db) /\ TagsAreCarried(Loaded)

LEMMA SetUidIndex ==
  ASSUME NEW d \in DB, NEW u
  PROVE  /\ SetUid(d, u).tags = d.tags
         /\ SetUid(d, u).count = d.count
         /\ SetUid(d, u).rcds = d.rcds
  BY DEF SetUid, DB

LEMMA StartIndex ==
  ASSUME IInv, NEW u \in Uid \cup {NoUid}, Start(u)
  PROVE  /\ db'.tags = Loaded.tags
         /\ db'.count = Loaded.count
         /\ db'.rcds = Loaded.rcds
         /\ Loaded' = Loaded
<1>1. Loaded \in DB
  BY LoadedType DEF IInv, TypeOK
<1>2. db' = Loaded \/ db' = SetUid(Loaded, u)
  BY DEF Start
<1>3. Loaded' = Loaded
  BY DEF Start, Loaded
<1> QED
  BY <1>1, <1>2, <1>3, SetUidIndex

\* What a command does to the database, and when.
LEMMA CommandEffect ==
  ASSUME IInv, NEW n \in Name,
         \/ RemoveCmd(n)
         \/ \E c \in Comment : AddCmd(n, c) \/ CommentCmd(n, c)
         \/ \E t \in Tag : TagCmd(n, t) \/ DetagCmd(n, t)
  PROVE  /\ db \in DB
         /\ ph = "prompt" /\ UNCHANGED <<ph, cur, disk>>
         /\ \/ Has(db, n) /\ db' = Remove(db, n)
            \/ \E c \in Comment : ~Has(db, n) /\ db' = Add(db, n, c)
            \/ \E c \in Comment : Has(db, n) /\ db' = SetComment(db, n, c)
            \/ \E t \in Tag : Has(db, n) /\ db' = Entag(db, n, t)
            \/ \E t \in Tag : db.count[t][n] > 0 /\ db' = Detag(db, n, t)
  BY DEF IInv, TypeOK, Edit, RemoveCmd, AddCmd, CommentCmd, TagCmd, DetagCmd

LEMMA CommandCarried ==
  ASSUME IInv, Carried, NEW n \in Name,
         \/ RemoveCmd(n)
         \/ \E c \in Comment : AddCmd(n, c) \/ CommentCmd(n, c)
         \/ \E t \in Tag : TagCmd(n, t) \/ DetagCmd(n, t)
  PROVE  Carried'
<1>1. db \in DB /\ Loaded' = Loaded
  BY CommandEffect DEF Loaded
<1>2. CASE Has(db, n) /\ db' = Remove(db, n)
  BY <1>1, <1>2, RemoveCarried DEF Carried
<1>3. ASSUME NEW c \in Comment, db' = Add(db, n, c) PROVE Carried'
  BY <1>1, <1>3, IndexKept, SameIndexCarried DEF Carried
<1>4. ASSUME NEW c \in Comment, db' = SetComment(db, n, c) PROVE Carried'
  BY <1>1, <1>4, IndexKept, SameIndexCarried DEF Carried
<1>5. ASSUME NEW t \in Tag, db' = Entag(db, n, t) PROVE Carried'
  BY <1>1, <1>5, EntagCarried DEF Carried
<1>6. ASSUME NEW t \in Tag, db.count[t][n] > 0, db' = Detag(db, n, t)
      PROVE Carried'
  BY <1>1, <1>6, DetagCarried DEF Carried
<1> QED
  BY <1>2, <1>3, <1>4, <1>5, <1>6, CommandEffect

LEMMA CloseRecordIndex ==
  ASSUME IInv, CloseRecord
  PROVE  /\ db'.tags = db.tags
         /\ db'.count = db.count
         /\ Loaded' = Loaded
<1>1. CASE rcdModified
  BY <1>1, IndexKept DEF CloseRecord, Loaded, IInv, TypeOK, RcdFlagTells
<1>2. CASE ~rcdModified
  BY <1>2 DEF CloseRecord, Loaded
<1> QED
  BY <1>1, <1>2

\* What the steps that are neither edits nor starts do to the index.
LEMMA OtherSteps ==
  ASSUME IInv,
         \/ StartThrows \/ DeleteStale
         \/ \E n \in Name : OpenCmd(n)
         \/ Exit
         \/ \E k \in Key, v \in Val \cup {Unset} : EditStore(k, v)
         \/ Save \/ CloseUnmodified
         \/ Fails
  PROVE  /\ db' \in {db, EmptyDb}
         /\ Loaded' \in {db, Loaded}
<1> USE DEF Loaded
<1>1. CASE Save
  BY <1>1 DEF Save, MemoryGone, IInv, TypeOK
<1>2. CASE Fails
  BY <1>2 DEF Fails, BadLine, OpenThrows, CloseRecordThrows, SaveThrows,
     HelpUnknown, Unwind, MemoryGone
<1> QED
  BY <1>1, <1>2 DEF StartThrows, DeleteStale, OpenCmd, Exit, EditStore,
     CloseUnmodified, MemoryGone

LEMMA NextCarried == IInv /\ Carried /\ [Next]_vars => Carried'
<1> SUFFICES ASSUME IInv, Carried, [Next]_vars PROVE Carried'
  OBVIOUS
<1>1. ASSUME NEW u \in Uid \cup {NoUid}, Start(u) PROVE Carried'
  BY <1>1, StartIndex, SameIndexCarried DEF Carried
<1>2. ASSUME NEW n \in Name,
             \/ RemoveCmd(n)
             \/ \E c \in Comment : AddCmd(n, c) \/ CommentCmd(n, c)
             \/ \E t \in Tag : TagCmd(n, t) \/ DetagCmd(n, t)
      PROVE Carried'
  BY <1>2, CommandCarried
<1>3. CASE CloseRecord
  BY <1>3, CloseRecordIndex, SameIndexCarried DEF Carried
<1>4. CASE \/ StartThrows \/ DeleteStale
           \/ \E n \in Name : OpenCmd(n)
           \/ Exit
           \/ \E k \in Key, v \in Val \cup {Unset} : EditStore(k, v)
           \/ Save \/ CloseUnmodified
           \/ Fails
  BY <1>4, OtherSteps, EmptyDbCarried DEF Carried
<1>5. CASE UNCHANGED vars
  BY <1>5 DEF Carried, Loaded
<1> QED
  BY <1>1, <1>2, <1>3, <1>4, <1>5, StepKinds

\* No tag is listed that nobody carries, and none is forgotten: "tags" and
\* "list" agree (src/db.cc, the clean-up of remove and of detag).
THEOREM NoTagIsEmpty == Spec => []NoEmptyTag
<1>1. Init => Carried
  BY EmptyDbCarried DEF Init, Carried, Loaded
<1>2. IInv /\ Carried /\ [Next]_vars => Carried'
  BY NextCarried
<1>3. Carried => NoEmptyTag
  BY DEF Carried, NoEmptyTag
<1> QED
  BY <1>1, <1>2, <1>3, Invariance, PTL DEF Spec

(***************************************************************************)
(* What the index names that is not there.                                 *)
(***************************************************************************)

\* The one excuse that a dangling name has.
Excused(d, n, t) == Dangling(d, n, t) \/ (Has(d, n) /\ d.count[t][n] > 1)

\* An operation that keeps the index and loses no record lets nothing dangle.
LEMMA KeptDangling ==
  ASSUME NEW d, NEW e, e.count = d.count,
         \A m \in Name : Has(d, m) => Has(e, m)
  PROVE  \A m \in Name, t \in Tag : Dangling(e, m, t) => Dangling(d, m, t)
  BY DEF Dangling

LEMMA AddDangling ==
  ASSUME NEW d \in DB, NEW n \in Name, NEW c \in Comment
  PROVE  \A m \in Name, t \in Tag :
            Dangling(Add(d, n, c), m, t) => Dangling(d, m, t)
<1>1. [comment |-> c, data |-> NoData] \in Rcd
  BY DEF Rcd
<1>2. \A m \in Name : Has(d, m) => Has(Add(d, n, c), m)
  BY <1>1, NoRcdAssumption DEF Add, Has, DB
<1> QED
  BY <1>2, IndexKept, KeptDangling

LEMMA SetCommentDangling ==
  ASSUME NEW d \in DB, NEW n \in Name, NEW c \in Comment, Has(d, n)
  PROVE  \A m \in Name, t \in Tag :
            Dangling(SetComment(d, n, c), m, t) => Dangling(d, m, t)
<1>1. [comment |-> c, data |-> d.rcds[n].data] \in Rcd
  BY DEF Rcd, Has, DB
<1>2. \A m \in Name : Has(d, m) => Has(SetComment(d, n, c), m)
  BY <1>1, NoRcdAssumption DEF SetComment, Has, DB
<1> QED
  BY <1>2, IndexKept, KeptDangling

LEMMA SetDataDangling ==
  ASSUME NEW d \in DB, NEW n \in Name, NEW p \in Data, Has(d, n)
  PROVE  \A m \in Name, t \in Tag :
            Dangling(SetData(d, n, p), m, t) => Dangling(d, m, t)
<1>1. [comment |-> d.rcds[n].comment, data |-> p] \in Rcd
  BY DEF Rcd, Has, DB
<1>2. \A m \in Name : Has(d, m) => Has(SetData(d, n, p), m)
  BY <1>1, NoRcdAssumption DEF SetData, Has, DB
<1> QED
  BY <1>2, IndexKept, KeptDangling

\* A list that gains a name gains one that has a record.
LEMMA EntagDangling ==
  ASSUME NEW d \in DB, NEW n \in Name, NEW s \in Tag, Has(d, n)
  PROVE  \A m \in Name, t \in Tag :
            Dangling(Entag(d, n, s), m, t) => Dangling(d, m, t)
<1> DEFINE e == Entag(d, n, s)
<1>1. \A m \in Name : Has(e, m) <=> Has(d, m)
  BY RecordsKept DEF Has
<1>2. \A m \in Name, t \in Tag : m # n => e.count[t][m] = d.count[t][m]
  BY DEF Entag, DB
<1> QED
  BY <1>1, <1>2 DEF Dangling

LEMMA DetagDangling ==
  ASSUME NEW d \in DB, NEW n \in Name, NEW s \in Tag
  PROVE  \A m \in Name, t \in Tag :
            Dangling(Detag(d, n, s), m, t) => Dangling(d, m, t)
<1> DEFINE left == Without(d.count[s], n)
           e == Detag(d, n, s)
<1>1. \A m \in Name : Has(e, m) <=> Has(d, m)
  BY RecordsKept DEF Has
<1>2. d.count[s] \in [Name -> Nat]
  BY DEF DB
<1>3. \A m \in Name : left[m] > 0 => d.count[s][m] > 0
  BY <1>2 DEF Without
<1> HIDE DEF left
<1>4. \A t \in Tag : e.count[t] = IF t = s THEN left ELSE d.count[t]
  BY DEF Detag, DB, left
<1> QED
  BY <1>1, <1>3, <1>4 DEF Dangling

LEMMA CommandDangling ==
  ASSUME IInv, NEW n \in Name,
         \/ RemoveCmd(n)
         \/ \E c \in Comment : AddCmd(n, c) \/ CommentCmd(n, c)
         \/ \E t \in Tag : TagCmd(n, t) \/ DetagCmd(n, t)
  PROVE  \A m \in Name, t \in Tag : Dangling(db', m, t) => Excused(db, m, t)
<1>1. db \in DB
  BY CommandEffect
<1>2. CASE Has(db, n) /\ db' = Remove(db, n)
  BY <1>1, <1>2, RemoveDangling DEF Excused
<1>3. ASSUME NEW d,
             \A m \in Name, t \in Tag : Dangling(d, m, t) => Dangling(db, m, t)
      PROVE  \A m \in Name, t \in Tag : Dangling(d, m, t) => Excused(db, m, t)
  BY <1>3 DEF Excused
<1>4. CASE \E c \in Comment : ~Has(db, n) /\ db' = Add(db, n, c)
  BY <1>1, <1>3, <1>4, AddDangling
<1>5. CASE \E c \in Comment : Has(db, n) /\ db' = SetComment(db, n, c)
  BY <1>1, <1>3, <1>5, SetCommentDangling
<1>6. CASE \E t \in Tag : Has(db, n) /\ db' = Entag(db, n, t)
  BY <1>1, <1>3, <1>6, EntagDangling
<1>7. CASE \E t \in Tag : db.count[t][n] > 0 /\ db' = Detag(db, n, t)
  BY <1>1, <1>3, <1>7, DetagDangling
<1> QED
  BY <1>2, <1>4, <1>5, <1>6, <1>7, CommandEffect

LEMMA CloseRecordDangling ==
  ASSUME IInv, CloseRecord
  PROVE  \A m \in Name, t \in Tag : Dangling(db', m, t) => Dangling(db, m, t)
<1>1. CASE rcdModified
  <2> DEFINE p == [to |-> Recipients(DefaultHome, db.uid), vals |-> store]
  <2>1. p \in Data
    BY RecipientsType DEF Data, IInv, TypeOK
  <2>2. db \in DB /\ cur \in Name /\ Has(db, cur) /\ db' = SetData(db, cur, p)
    BY <1>1 DEF CloseRecord, IInv, TypeOK, RcdFlagTells
  <2> HIDE DEF p
  <2> QED
    BY <2>1, <2>2, SetDataDangling
<1>2. CASE ~rcdModified
  BY <1>2 DEF CloseRecord
<1> QED
  BY <1>1, <1>2

\* Nothing but the removal of a record that carried a tag twice leaves a name
\* dangling in the index (src/db.cc, remove erases one occurrence per list).
THEOREM OnlyRetagDangles == Spec => DanglingOnlyFromRetag
<1> DEFINE Step == \A n \in Name, t \in Tag :
             Dangling(db', n, t) =>
                 \/ Dangling(db, n, t)
                 \/ Has(db, n) /\ db.count[t][n] > 1
                 \/ ph \in Over /\ Dangling(Loaded, n, t)
<1>1. IInv /\ [Next]_vars => [Step]_vars
  <2> SUFFICES ASSUME IInv, Next PROVE Step
    OBVIOUS
  <2>1. ASSUME NEW u \in Uid \cup {NoUid}, Start(u) PROVE Step
    <3>1. \A n \in Name, t \in Tag :
             Dangling(db', n, t) <=> Dangling(Loaded, n, t)
      BY <2>1, StartIndex DEF Dangling, Has
    <3>2. ph \in Over
      BY <2>1 DEF Start
    <3> QED
      BY <3>1, <3>2
  <2>2. ASSUME NEW n \in Name,
               \/ RemoveCmd(n)
               \/ \E c \in Comment : AddCmd(n, c) \/ CommentCmd(n, c)
               \/ \E t \in Tag : TagCmd(n, t) \/ DetagCmd(n, t)
        PROVE  Step
    BY <2>2, CommandDangling DEF Excused
  <2>3. CASE CloseRecord
    BY <2>3, CloseRecordDangling
  <2>4. CASE \/ StartThrows \/ DeleteStale
             \/ \E n \in Name : OpenCmd(n)
             \/ Exit
             \/ \E k \in Key, v \in Val \cup {Unset} : EditStore(k, v)
             \/ Save \/ CloseUnmodified
             \/ Fails
    <3>1. db' \in {db, EmptyDb}
      BY <2>4, OtherSteps
    <3>2. \A n \in Name, t \in Tag : ~Dangling(EmptyDb, n, t)
      BY DEF Dangling, EmptyDb
    <3> QED
      BY <3>1, <3>2
  <2> QED
    BY <2>1, <2>2, <2>3, <2>4, StepKinds
<1> QED
  BY <1>1, Invariance, PTL DEF Spec, DanglingOnlyFromRetag

(***************************************************************************)
(* The session implements the Vault.                                       *)
(***************************************************************************)

LEMMA DecodedType ==
  ASSUME NEW d \in DB, NEW n \in Name
  PROVE  Decoded(d)[n] \in Entry \cup {NoRcd}
  BY StoreOfType DEF Decoded, Entry, Has, DB, Rcd

\* The book depends on the records only.
LEMMA DecodedSame ==
  ASSUME NEW d, NEW e, e.rcds = d.rcds
  PROVE  Decoded(e) = Decoded(d)
  BY DEF Decoded, Has

\* What changes one record changes one entry.
LEMMA DecodedOne ==
  ASSUME NEW d, NEW e, NEW n \in Name,
         \A m \in Name : m # n => e.rcds[m] = d.rcds[m]
  PROVE  Decoded(e) = [Decoded(d) EXCEPT ![n] = Decoded(e)[n]]
  BY DEF Decoded, Has

LEMMA BookIs ==
  /\ ph \in Over => Book = Decoded(Loaded)
  /\ ph \in {"prompt", "saving"} => Book = Decoded(db)
  /\ ph = "record" =>
        Book = [Decoded(db) EXCEPT ![cur] =
                    [comment |-> db.rcds[cur].comment, vals |-> store]]
<1>1. Decoded(db) = [n \in Name |-> Decoded(db)[n]]
  BY DEF Decoded
<1> QED
  BY <1>1 DEF Book

LEMMA BookWillBe ==
  /\ ph' \in Over => Book' = Decoded(Loaded')
  /\ ph' \in {"prompt", "saving"} => Book' = Decoded(db')
  /\ ph' = "record" =>
        Book' = [Decoded(db') EXCEPT ![cur'] =
                    [comment |-> db'.rcds[cur'].comment, vals |-> store']]
<1>1. Decoded(db') = [n \in Name |-> Decoded(db')[n]]
  BY DEF Decoded
<1>2. Book' = IF ph' \in Over THEN Decoded(Loaded')
              ELSE [n \in Name |->
                       IF ph' = "record" /\ n = cur'
                       THEN [comment |-> db'.rcds[n].comment, vals |-> store']
                       ELSE Decoded(db')[n]]
  BY DEF Book, Loaded, Decoded, Has, StoreOf
<1> QED
  BY <1>1, <1>2

LEMMA StartBegins ==
  ASSUME IInv, NEW u \in Uid \cup {NoUid}, Start(u) PROVE V!Begin
<1>1. ph \in Over /\ ph' = "prompt" /\ Loaded' = Loaded
  BY StartIndex DEF Start
<1>2. Decoded(db') = Decoded(Loaded)
  BY StartIndex, DecodedSame
<1>3. Book = Decoded(Loaded) /\ Book' = Decoded(db')
  BY <1>1, BookIs, BookWillBe
<1>4. Mode # "editing" /\ Mode' = "editing"
  BY <1>1 DEF Mode
<1> QED
  BY <1>1, <1>2, <1>3, <1>4 DEF V!Begin

LEMMA CommandEdits ==
  ASSUME IInv, NEW n \in Name,
         \/ RemoveCmd(n)
         \/ \E c \in Comment : AddCmd(n, c) \/ CommentCmd(n, c)
         \/ \E t \in Tag : TagCmd(n, t) \/ DetagCmd(n, t)
  PROVE  V!Edit \/ UNCHANGED V!vars
<1>1. /\ db \in DB /\ db' \in DB
      /\ ph = "prompt" /\ ph' = "prompt" /\ Loaded' = Loaded
  BY CommandEffect, CommandsAreEdits, EditIInv DEF Loaded, IInv, TypeOK
<1>2. Mode = "editing" /\ Mode' = "editing"
  BY <1>1 DEF Mode
<1>3. Book = Decoded(db) /\ Book' = Decoded(db')
  BY <1>1, BookIs, BookWillBe
<1>4. \A m \in Name : m # n => db'.rcds[m] = db.rcds[m]
  <2>1. CASE db' = Remove(db, n)
    BY <1>1, <2>1, RemoveIndex
  <2>2. CASE \E c \in Comment : db' = Add(db, n, c)
    BY <1>1, <2>2 DEF Add, DB
  <2>3. CASE \E c \in Comment : db' = SetComment(db, n, c)
    BY <1>1, <2>3 DEF SetComment, DB
  <2>4. CASE \E t \in Tag : db' \in {Entag(db, n, t), Detag(db, n, t)}
    BY <1>1, <2>4, RecordsKept
  <2> QED
    BY <2>1, <2>2, <2>3, <2>4, CommandEffect
<1>5. Book' = [Book EXCEPT ![n] = Decoded(db')[n]]
  BY <1>3, <1>4, DecodedOne
<1>6. Decoded(db')[n] \in Entry \cup {NoRcd}
  BY <1>1, DecodedType
<1> QED
  BY <1>1, <1>2, <1>5, <1>6 DEF V!Edit

LEMMA OpenCmdStutters ==
  ASSUME IInv, NEW n \in Name, OpenCmd(n) PROVE UNCHANGED V!vars
<1>1. /\ ph = "prompt" /\ ph' = "record" /\ Loaded' = Loaded
      /\ db' = db /\ cur' = n /\ store' = StoreOf(db.rcds[n]) /\ Has(db, n)
  BY DEF OpenCmd, Loaded
<1>2. Mode' = Mode
  BY <1>1 DEF Mode
<1>3. Book' = [Decoded(db) EXCEPT ![n] =
                   [comment |-> db.rcds[n].comment,
                    vals    |-> StoreOf(db.rcds[n])]]
  BY <1>1, BookWillBe
<1>4. Decoded(db) = [m \in Name |-> Decoded(db)[m]]
  BY DEF Decoded
<1>5. Decoded(db)[n] = [comment |-> db.rcds[n].comment,
                        vals    |-> StoreOf(db.rcds[n])]
  BY <1>1 DEF Decoded
<1>6. Book' = Book
  BY <1>1, <1>3, <1>4, <1>5, BookIs
<1> QED
  BY <1>1, <1>2, <1>6 DEF V!vars

LEMMA EditStoreEdits ==
  ASSUME IInv, NEW k \in Key, NEW v \in Val \cup {Unset}, EditStore(k, v)
  PROVE  V!Edit
<1>1. /\ ph = "record" /\ ph' = "record" /\ Loaded' = Loaded
      /\ db' = db /\ cur' = cur
  BY DEF EditStore, Loaded
<1>2. Mode = "editing" /\ Mode' = "editing"
  BY <1>1 DEF Mode
<1> DEFINE e(s) == [comment |-> db.rcds[cur].comment, vals |-> s]
<1>3. cur \in Name /\ e(store') \in Entry
  BY EditStoreIInv DEF IInv, TypeOK, RcdFlagTells, Entry, Has, DB, Rcd,
     EditStore
<1>4. Book = [Decoded(db) EXCEPT ![cur] = e(store)]
  BY <1>1, BookIs
<1>5. Book' = [Decoded(db) EXCEPT ![cur] = e(store')]
  BY <1>1, BookWillBe
<1>6. Book' = [Book EXCEPT ![cur] = e(store')]
  BY <1>4, <1>5 DEF Decoded
<1> QED
  BY <1>1, <1>2, <1>3, <1>6 DEF V!Edit

LEMMA CloseRecordStutters == ASSUME IInv, CloseRecord PROVE UNCHANGED V!vars
<1>1. /\ ph = "record" /\ ph' = "prompt" /\ Loaded' = Loaded
      /\ cur \in Name /\ db \in DB /\ Has(db, cur) /\ store \in Store
  BY DEF CloseRecord, Loaded, IInv, TypeOK, RcdFlagTells
<1>2. Mode' = Mode
  BY <1>1 DEF Mode
<1> DEFINE e == [comment |-> db.rcds[cur].comment, vals |-> store]
<1>3. /\ Book = [Decoded(db) EXCEPT ![cur] = e]
      /\ Book' = Decoded(db')
  BY <1>1, BookIs, BookWillBe
<1>4. Decoded(db') = [Decoded(db) EXCEPT ![cur] = e]
  <2>1. CASE rcdModified
    <3> DEFINE p == [to |-> Recipients(DefaultHome, db.uid), vals |-> store]
               r == [comment |-> db.rcds[cur].comment, data |-> p]
    <3>1. p \in Data /\ p # NoData /\ p.vals = store
      BY <1>1, RecipientsType, DbAssumption DEF Data, Store
    <3>2. db' = SetData(db, cur, p)
      BY <2>1 DEF CloseRecord
    <3> HIDE DEF p
    <3>3. r \in Rcd
      BY <1>1, <3>1 DEF Rcd, Has, DB
    <3>4. r # NoRcd /\ StoreOf(r) = store /\ r.comment = db.rcds[cur].comment
      BY <3>1, <3>3, NoRcdAssumption DEF StoreOf
    <3>5. /\ db'.rcds[cur] = r
          /\ \A m \in Name : m # cur => db'.rcds[m] = db.rcds[m]
      BY <1>1, <3>2 DEF SetData, DB
    <3> HIDE DEF r
    <3>6. Decoded(db')[cur] = e
      BY <1>1, <3>4, <3>5 DEF Decoded, Has
    <3> QED
      BY <1>1, <3>5, <3>6, DecodedOne
  <2>2. CASE ~rcdModified
    <3>1. db' = db /\ store = StoreOf(db.rcds[cur])
      BY <1>1, <2>2 DEF CloseRecord, IInv, RcdFlagTells
    <3>2. Decoded(db)[cur] = e
      BY <1>1, <3>1 DEF Decoded
    <3>3. Decoded(db) = [m \in Name |-> Decoded(db)[m]]
      BY DEF Decoded
    <3> HIDE DEF e
    <3> QED
      BY <3>1, <3>2, <3>3
  <2> QED
    BY <2>1, <2>2
<1> QED
  BY <1>1, <1>2, <1>3, <1>4 DEF V!vars

LEMMA SaveKeeps == ASSUME IInv, Save \/ CloseUnmodified PROVE V!Keep
<1>1. ph = "saving" /\ ph' = "closed" /\ Loaded' = db
  BY DEF Save, CloseUnmodified, Loaded, IInv, TypeOK, FlagsTell
<1>2. Book = Decoded(db) /\ Book' = Decoded(Loaded')
  BY <1>1, BookIs, BookWillBe
<1>3. Mode = "editing" /\ Mode' = "well"
  BY <1>1 DEF Mode
<1> QED
  BY <1>1, <1>2, <1>3 DEF V!Keep

LEMMA FailsDrops == ASSUME IInv, Fails PROVE V!Drop
<1>1. /\ ph \in {"prompt", "record", "saving"}
      /\ ph' \in {"failed", "terminated"}
      /\ Loaded' = Loaded
  BY DEF Fails, BadLine, OpenThrows, CloseRecordThrows, SaveThrows,
     HelpUnknown, Unwind, Loaded
<1>2. Book' = Decoded(Loaded)
  BY <1>1, BookWillBe
<1>3. Mode = "editing" /\ Mode' = "badly"
  BY <1>1 DEF Mode
<1> QED
  BY <1>1, <1>2, <1>3 DEF V!Drop

LEMMA StartThrowsRefuses == ASSUME IInv, StartThrows PROVE V!Refuse
<1>1. ph \in Over /\ ph' = "failed" /\ Loaded' = Loaded
  BY DEF StartThrows, Loaded
<1>2. Book = Decoded(Loaded) /\ Book' = Decoded(Loaded')
  BY <1>1, BookIs, BookWillBe
<1>3. Mode # "editing" /\ Mode' = "badly"
  BY <1>1 DEF Mode
<1> QED
  BY <1>1, <1>2, <1>3 DEF V!Refuse

LEMMA OtherStutters ==
  ASSUME IInv, DeleteStale \/ Exit \/ UNCHANGED vars PROVE UNCHANGED V!vars
<1>1. CASE DeleteStale \/ UNCHANGED vars
  BY <1>1 DEF DeleteStale, V!vars, Book, Mode, Loaded
<1>2. CASE Exit
  <2>1. /\ ph = "prompt" /\ ph' = "saving" /\ db' = db /\ Loaded' = Loaded
    BY <1>2 DEF Exit, Loaded
  <2>2. Book = Decoded(db) /\ Book' = Decoded(db') /\ Mode' = Mode
    BY <2>1, BookIs, BookWillBe DEF Mode
  <2> QED
    BY <2>1, <2>2 DEF V!vars
<1> QED
  BY <1>1, <1>2

\* Whatever the user edits in a session that says "Closed" is in the file
\* afterwards, and whatever was edited in one that fails is not: for any
\* names, tags, keys, values and keyrings (subcmd_open and its interpreters).
THEOREM ImplementsVault == Spec => VaultSpec
<1>1. Init => V!Init
  <2> SUFFICES ASSUME Init PROVE V!Init
    OBVIOUS
  <2>1. Loaded = EmptyDb /\ ph \in Over /\ Mode = "well"
    BY DEF Init, Loaded, Mode
  <2>2. Decoded(EmptyDb) = [n \in Name |-> NoRcd]
    BY DEF Decoded, EmptyDb, Has
  <2> QED
    BY <2>1, <2>2, BookIs DEF V!Init
<1>2. IInv /\ [Next]_vars => [V!Next]_(V!vars)
  <2> SUFFICES ASSUME IInv, [Next]_vars PROVE V!Next \/ UNCHANGED V!vars
    OBVIOUS
  <2>1. CASE UNCHANGED vars
    BY <2>1, OtherStutters
  <2>2. CASE Next
    BY <2>2, StepKinds, StartBegins, StartThrowsRefuses, OtherStutters,
       CommandEdits, OpenCmdStutters, EditStoreEdits, CloseRecordStutters,
       SaveKeeps, FailsDrops DEF V!Next
  <2> QED
    BY <2>1, <2>2
<1> QED
  BY <1>1, <1>2, Invariance, PTL DEF Spec, VaultSpec, V!Spec
=============================================================================
