-------------------------------- MODULE Db ---------------------------------
(***************************************************************************)
(* class pwdb::db (src/db.cc, include/pwdb/db.h) over the messages of      *)
(* pwdb.proto: the records by name, and the index of record names by tag,  *)
(* a map of lists that the class keeps beside the records.                 *)
(*                                                                         *)
(* A list of names is abstracted to how often it holds each name: the      *)
(* class searches for a name, erases its first occurrence and appends, and *)
(* nothing depends on the order.                                           *)
(***************************************************************************)
EXTENDS Naturals, FiniteSets

CONSTANTS
    Name,           \* record names
    Tag,            \* tags
    Comment,        \* comments
    Key, Val,       \* what a Store maps to what
    Uid,            \* GnuPG user ids
    GpgKey,         \* keys that data can be encrypted to
    NoRcd,          \* the record of a name that is not in the database
    NoData,         \* the payload of a record that was never opened and saved
    Unset,          \* the value of a key that is not in a Store
    NoUid           \* the empty uid

ASSUME DbAssumption ==
    /\ Unset \notin Val
    /\ NoUid \notin Uid
    /\ NoData \notin [to : SUBSET GpgKey, vals : [Key -> Val \cup {Unset}]]

Store == [Key -> Val \cup {Unset}]
EmptyStore == [k \in Key |-> Unset]

\* An encrypted Store and the keys that open it.
Data == [to : SUBSET GpgKey, vals : Store]

Rcd == [comment : Comment, data : Data \cup {NoData}]

ASSUME NoRcdAssumption == NoRcd \notin Rcd

\* tags is the set of the keys of the map; count, the lists behind them.
DB == [uid   : Uid \cup {NoUid},
       rcds  : [Name -> Rcd \cup {NoRcd}],
       tags  : SUBSET Tag,
       count : [Tag -> [Name -> Nat]]]

EmptyDb == [uid   |-> NoUid,
            rcds  |-> [n \in Name |-> NoRcd],
            tags  |-> {},
            count |-> [t \in Tag |-> [n \in Name |-> 0]]]

Has(d, n) == d.rcds[n] # NoRcd

AtTag(d, t) == {n \in Name : d.count[t][n] > 0}
TagsOf(d, n) == {t \in Tag : d.count[t][n] > 0}

\* Erase the first occurrence of a name in a list, if there is one.
Without(list, n) == [list EXCEPT ![n] = IF @ = 0 THEN 0 ELSE @ - 1]

-----------------------------------------------------------------------------
(***************************************************************************)
(* Wrong forms of the operations below, each with one plausible mistake.   *)
(***************************************************************************)

\* The record is erased and the index is forgotten.
RemoveForgetsIndex(d, n) == [d EXCEPT !.rcds[n] = NoRcd]

\* The lists are searched, but the tags left empty stay in the map.
RemoveKeepsEmpty(d, n) ==
    [d EXCEPT !.rcds[n] = NoRcd,
              !.count = [t \in Tag |-> Without(d.count[t], n)]]

-----------------------------------------------------------------------------
(***************************************************************************)
(* The operations, for the arguments on which they change something.       *)
(***************************************************************************)

\* records()[name] = rcd
Add(d, n, c) == [d EXCEPT !.rcds[n] = [comment |-> c, data |-> NoData]]

\* One occurrence of the name goes from every list, then the record, then
\* the tags whose list is empty.
Remove(d, n) ==
    LET left == [t \in Tag |-> Without(d.count[t], n)]
    IN [d EXCEPT !.rcds[n] = NoRcd,
                 !.count = left,
                 !.tags = {t \in d.tags : \E m \in Name : left[t][m] > 0}]

\* The name is appended, whether or not the list holds it already.
Entag(d, n, t) ==
    [d EXCEPT !.tags = @ \cup {t},
              !.count[t] = [d.count[t] EXCEPT ![n] = @ + 1]]

\* One occurrence of the name goes, and the tag with the last of its list.
Detag(d, n, t) ==
    LET left == Without(d.count[t], n)
    IN [d EXCEPT !.count[t] = left,
                 !.tags = IF \E m \in Name : left[m] > 0 THEN d.tags
                          ELSE d.tags \ {t}]

SetComment(d, n, c) ==
    [d EXCEPT !.rcds[n] = [comment |-> c, data |-> d.rcds[n].data]]

SetData(d, n, p) ==
    [d EXCEPT !.rcds[n] = [comment |-> d.rcds[n].comment, data |-> p]]

SetUid(d, u) == [d EXCEPT !.uid = u]

\* db_open_rcd_store: a record that has no payload opens as an empty Store.
StoreOf(r) == IF r.data = NoData THEN EmptyStore ELSE r.data.vals

-----------------------------------------------------------------------------
(***************************************************************************)
(* What the index ought to be.                                             *)
(***************************************************************************)

\* A name in the list of a tag that no record has.
Dangling(d, n, t) == d.count[t][n] > 0 /\ ~Has(d, n)

\* The keys of the map are the tags that somebody carries.
TagsAreCarried(d) == \A t \in Tag : t \in d.tags <=> AtTag(d, t) # {}
=============================================================================
