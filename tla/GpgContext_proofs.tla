------------------------ MODULE GpgContext_proofs --------------------------
(***************************************************************************)
(* Proofs about GpgContext, for any number of keys and signatures.         *)
(***************************************************************************)
EXTENDS GpgContext, TLAPS, FiniteSetTheorems

USE NoKeyAssumption DEF vars, owners

Ptr == KeyObj \cup {NoKey}

-----------------------------------------------------------------------------
(***************************************************************************)
(* The keys that a sequence points to.                                     *)
(***************************************************************************)

LEMMA KeysOfSeq ==
  ASSUME NEW s \in Seq(Ptr)
  PROVE  KeysOf(s) = {k \in KeyObj : \E i \in 1..Len(s) : s[i] = k}
  BY DEF KeysOf, Range, Ptr

LEMMA KeysOfEmpty == KeysOf(<<>>) = {}
<1>1. <<>> \in Seq(Ptr) /\ Len(<<>>) = 0
  OBVIOUS
<1>2. KeysOf(<<>>) = {k \in KeyObj : \E i \in 1..Len(<<>>) : <<>>[i] = k}
  BY <1>1, KeysOfSeq
<1>3. \A i \in 1..Len(<<>>) : FALSE
  BY <1>1
<1> QED
  BY <1>2, <1>3, Zenon

LEMMA KeysOfAppend ==
  ASSUME NEW s \in Seq(Ptr), NEW x \in Ptr
  PROVE  /\ Append(s, x) \in Seq(Ptr)
         /\ KeysOf(Append(s, x)) = KeysOf(s) \cup ({x} \ {NoKey})
<1> DEFINE t == Append(s, x)
<1>1. t \in Seq(Ptr) /\ Len(t) = Len(s) + 1
  OBVIOUS
<1>2. \A i \in 1..Len(s) : t[i] = s[i]
  OBVIOUS
<1>3. t[Len(s) + 1] = x /\ Len(s) \in Nat
  OBVIOUS
<1>4. \A i \in 1..(Len(s) + 1) : i \in 1..Len(s) \/ i = Len(s) + 1
  BY <1>3
<1>5. 1..Len(s) \subseteq 1..(Len(s) + 1) /\ Len(s) + 1 \in 1..(Len(s) + 1)
  BY <1>3
<1>6. KeysOf(t) = {k \in KeyObj : \E i \in 1..(Len(s) + 1) : t[i] = k}
  BY <1>1, KeysOfSeq
<1> HIDE DEF t
<1>7. KeysOf(s) = {k \in KeyObj : \E i \in 1..Len(s) : s[i] = k}
  BY KeysOfSeq
<1>8. KeysOf(t) = KeysOf(s) \cup ({x} \ {NoKey})
  <2>1. ASSUME NEW k \in KeyObj
        PROVE  k \in KeysOf(t) <=> k \in KeysOf(s) \/ k = x
    BY <1>2, <1>3, <1>4, <1>5, <1>6, <1>7
  <2>2. KeysOf(t) \subseteq KeyObj /\ KeysOf(s) \subseteq KeyObj
    BY <1>6, <1>7
  <2> QED
    BY <2>1, <2>2 DEF Ptr
<1> QED
  BY <1>1, <1>8 DEF t

\* A null pointer is replaced.
LEMMA KeysOfExcept ==
  ASSUME NEW s \in Seq(Ptr), NEW i \in 1..Len(s), s[i] = NoKey,
         NEW k \in KeyObj
  PROVE  /\ [s EXCEPT ![i] = k] \in Seq(Ptr)
         /\ Len([s EXCEPT ![i] = k]) = Len(s)
         /\ KeysOf([s EXCEPT ![i] = k]) = KeysOf(s) \cup {k}
<1> DEFINE t == [s EXCEPT ![i] = k]
<1>1. t \in Seq(Ptr) /\ Len(t) = Len(s)
  BY DEF Ptr
<1>2. t[i] = k /\ \A j \in 1..Len(s) : j # i => t[j] = s[j]
  OBVIOUS
<1> QED
  BY <1>1, <1>2, KeysOfSeq, Zenon DEF Ptr
-----------------------------------------------------------------------------
(***************************************************************************)
(* Counting owners.                                                        *)
(***************************************************************************)

\* The number of owners of one key, as conditions.
LEMMA HeldType == \A k \in KeyObj : Held(k) \in 0..5
  BY DEF Held

LEMMA InitIInv == Init => IInv
<1> SUFFICES ASSUME Init PROVE IInv
  OBVIOUS
<1>1. KeysOf(sigs) = {} /\ KeysOf(copies) = {} /\ Len(sigs) = 0
  BY KeysOfEmpty DEF Init
<1>2. TypeOK
  <2>1. <<>> \in Seq(KeyObj \cup {NoKey})
    OBVIOUS
  <2> QED
    BY <2>1 DEF Init, TypeOK, User
<1>3. OnlyRefusedLeak
  BY <1>1 DEF Init, OnlyRefusedLeak, Held
<1>4. ResultReadInTime /\ OneSigner /\ Result
  BY DEF Init, ResultReadInTime, OneSigner, Result
<1>5. OwnersApart /\ InCall /\ Signed
  BY <1>1 DEF Init, OwnersApart, InCall, Signed
<1> QED
  BY <1>2, <1>3, <1>4, <1>5 DEF IInv

\* The start of an operation destroys the result there was.
LEMMA StartListingIInv ==
  ASSUME IInv, StartListing,
         \/ \E c \in {"check", "list", "sign"} : Call(c)
         \/ pc = "lookup" /\ at <= Len(copies) /\ copies[at] = NoKey
            /\ UNCHANGED call
  PROVE  IInv'
<1>1. KeysOf(sigs') = {} /\ KeysOf(copies') = KeysOf(copies) /\ Len(sigs') = 0
  BY KeysOfEmpty DEF StartListing
<1>2. TypeOK'
  <2>1. ref' \in [KeyObj -> Nat]
    <3> SUFFICES ASSUME NEW k \in KeyObj PROVE ref'[k] \in Nat
      BY DEF StartListing, Unref
    <3>1. ref[k] = Held(k) + (IF k \in refused THEN 1 ELSE 0)
      BY DEF IInv, OnlyRefusedLeak
    <3> QED
      BY <3>1, HeldType DEF StartListing, Unref, Held
  <2>2. <<>> \in Seq(KeyObj \cup {NoKey})
    OBVIOUS
  <2> QED
    BY <2>1, <2>2 DEF IInv, TypeOK, StartListing
<1>3. OnlyRefusedLeak'
  <2> SUFFICES ASSUME NEW k \in KeyObj
               PROVE ref'[k] = Held(k)' + (IF k \in refused' THEN 1 ELSE 0)
    BY DEF OnlyRefusedLeak
  <2>1. ref[k] = Held(k) + (IF k \in refused THEN 1 ELSE 0)
    BY DEF IInv, OnlyRefusedLeak
  <2> QED
    BY <2>1, <1>1 DEF StartListing, Unref, Held
<1>4. ResultReadInTime' /\ OneSigner' /\ Result'
  BY DEF IInv, StartListing, ResultReadInTime, OneSigner, Result, Call
<1>5. OwnersApart' /\ InCall' /\ Signed'
  <2>1. OwnersApart'
    BY <1>1 DEF IInv, StartListing, OwnersApart, InCall, Call, Then, ThenRead,
       ThenRecrypt, ThenEncode, ThenExport, ThenRecord
  <2>2. InCall'
    BY <1>1 DEF IInv, TypeOK, StartListing, OwnersApart, InCall, Call
  <2>3. Signed'
    BY DEF IInv, TypeOK, StartListing, Signed, InCall, Call, Then, ThenRead,
       ThenRecrypt, ThenEncode, ThenExport, ThenRecord, User
  <2> QED
    BY <2>1, <2>2, <2>3
<1> QED
  BY <1>2, <1>3, <1>4, <1>5 DEF IInv

\* What the order of the calls gives.
LEMMA CallFacts ==
  ASSUME IInv, NEW c, Call(c)
  PROVE  /\ pc = "idle" /\ call' = c /\ c # "start"
         /\ c = "sign" => call = "start" /\ user \in {"encode", "export"}
         /\ c # "sign" /\ user \in {"encode", "export"} => call # "start"
         /\ c = "verify" => call = "decrypt" /\ user = "read"
         /\ call = "list" => c = "encrypt"
  BY DEF IInv, TypeOK, User, Call, Then, ThenRead, ThenRecrypt, ThenEncode,
     ThenExport, ThenRecord

\* A reference count that agrees with the owners is a natural number.
LEMMA RefIsNat ==
  ASSUME OnlyRefusedLeak', ref' = [k \in KeyObj |-> ref'[k]]
  PROVE  ref' \in [KeyObj -> Nat]
<1> SUFFICES ASSUME NEW k \in KeyObj PROVE ref'[k] \in Nat
  OBVIOUS
<1>1. ref'[k] = Held(k)' + (IF k \in refused' THEN 1 ELSE 0)
  BY DEF OnlyRefusedLeak
<1>2. Held(k)' \in Nat
  BY DEF Held
<1> QED
  BY <1>1, <1>2

LEMMA NewContextIInv ==
  ASSUME IInv, NEW u \in User, NewContext(u)
  PROVE  IInv'
<1>1. TypeOK' /\ OnlyRefusedLeak'
  BY DEF IInv, TypeOK, OnlyRefusedLeak, NewContext, Held, KeysOf
<1>2. ResultReadInTime'
  BY DEF NewContext, ResultReadInTime, Then, ThenRead, ThenRecrypt, ThenEncode,
     ThenExport, ThenRecord
<1>3. OneSigner' /\ Result' /\ Signed'
  BY DEF IInv, NewContext, OneSigner, OwnersApart, Result, Signed
<1>4. OwnersApart' /\ InCall'
  BY DEF IInv, NewContext, OwnersApart, InCall, KeysOf
<1> QED
  BY <1>1, <1>2, <1>3, <1>4 DEF IInv

LEMMA InitThrowsIInv ==
  ASSUME IInv, InitThrows
  PROVE  IInv'
<1>1. TypeOK' /\ OnlyRefusedLeak'
  BY DEF IInv, TypeOK, OnlyRefusedLeak, InitThrows, Held, KeysOf
<1>2. ResultReadInTime' /\ OneSigner' /\ Result' /\ Signed'
  BY DEF IInv, InitThrows, ResultReadInTime, OneSigner, OwnersApart, Result,
     Signed
<1>3. OwnersApart' /\ InCall'
  BY DEF IInv, InitThrows, OwnersApart, InCall, KeysOf
<1> QED
  BY <1>1, <1>2, <1>3 DEF IInv

LEMMA NextKeyIInv ==
  ASSUME IInv, NEW k \in KeyObj, NextKey(k)
  PROVE  IInv'
<1>1. OnlyRefusedLeak'
  <2> SUFFICES ASSUME NEW j \in KeyObj
               PROVE ref'[j] = Held(j)' + (IF j \in refused' THEN 1 ELSE 0)
    BY DEF OnlyRefusedLeak
  <2>1. ref[j] = Held(j) + (IF j \in refused THEN 1 ELSE 0)
    BY DEF IInv, OnlyRefusedLeak
  <2>2. ref \in [KeyObj -> Nat]
    BY DEF IInv, TypeOK
  <2> QED
    BY <2>1, <2>2 DEF NextKey, Held, KeysOf
<1>2. TypeOK'
  BY DEF IInv, TypeOK, NextKey
<1>3. k \notin signers /\ k \notin KeysOf(copies)
  BY DEF NextKey, Held
<1>4. OwnersApart'
  BY <1>3 DEF IInv, NextKey, OwnersApart, KeysOf
<1>5. InCall' /\ Signed' /\ ResultReadInTime' /\ OneSigner' /\ Result'
  BY DEF IInv, NextKey, InCall, Signed, ResultReadInTime, OneSigner, Result
<1> QED
  BY <1>1, <1>2, <1>4, <1>5 DEF IInv

LEMMA NextKeyRefusedIInv ==
  ASSUME IInv, NEW k \in KeyObj, NextKeyRefused(k)
  PROVE  IInv'
<1>1. OnlyRefusedLeak'
  <2> SUFFICES ASSUME NEW j \in KeyObj
               PROVE ref'[j] = Held(j)' + (IF j \in refused' THEN 1 ELSE 0)
    BY DEF OnlyRefusedLeak
  <2>1. ref[j] = Held(j) + (IF j \in refused THEN 1 ELSE 0)
    BY DEF IInv, OnlyRefusedLeak
  <2>2. ref \in [KeyObj -> Nat]
    BY DEF IInv, TypeOK
  <2> QED
    BY <2>1, <2>2 DEF NextKeyRefused, Held, KeysOf
<1>2. TypeOK'
  BY DEF IInv, TypeOK, NextKeyRefused
<1>3. OwnersApart' /\ InCall' /\ Signed' /\ ResultReadInTime' /\ OneSigner'
      /\ Result'
  BY DEF IInv, NextKeyRefused, OwnersApart, InCall, Signed, ResultReadInTime,
     OneSigner, Result, KeysOf
<1> QED
  BY <1>1, <1>2, <1>3 DEF IInv

-----------------------------------------------------------------------------
(***************************************************************************)
(* The end of a listing.                                                   *)
(***************************************************************************)

LEMMA CheckedIInv ==
  ASSUME IInv, pc = "listing", call = "check", Checked,
         UNCHANGED <<init, user, call, verified, sigs, refused>>
  PROVE  IInv'
<1>1. OnlyRefusedLeak'
  <2> SUFFICES ASSUME NEW j \in KeyObj
               PROVE ref'[j] = Held(j)' + (IF j \in refused' THEN 1 ELSE 0)
    BY DEF OnlyRefusedLeak
  <2>1. ref[j] = Held(j) + (IF j \in refused THEN 1 ELSE 0)
    BY DEF IInv, OnlyRefusedLeak
  <2> QED
    BY <2>1 DEF Checked, Unref, Held, KeysOf
<1>2. ref' \in [KeyObj -> Nat]
  BY <1>1, RefIsNat DEF Checked, Unref
<1>3. TypeOK'
  BY <1>2 DEF IInv, TypeOK, Checked
<1>4. OwnersApart' /\ InCall' /\ Signed'
  BY DEF IInv, Checked, OwnersApart, InCall, Signed, KeysOf
<1>5. ResultReadInTime' /\ OneSigner' /\ Result'
  BY DEF IInv, Checked, ResultReadInTime, OneSigner, Result,
     Then, ThenRead, ThenRecrypt, ThenEncode, ThenExport, ThenRecord
<1> QED
  BY <1>1, <1>3, <1>4, <1>5 DEF IInv

LEMMA ListedIInv ==
  ASSUME IInv, pc = "listing", call = "list", Listed,
         UNCHANGED <<init, user, call, verified, sigs, refused>>
  PROVE  IInv'
<1>1. list = {} /\ sigs = <<>> /\ copies = <<>>
  BY DEF IInv, OwnersApart
<1>2. OnlyRefusedLeak'
  <2> SUFFICES ASSUME NEW j \in KeyObj
               PROVE ref'[j] = Held(j)' + (IF j \in refused' THEN 1 ELSE 0)
    BY DEF OnlyRefusedLeak
  <2>1. ref[j] = Held(j) + (IF j \in refused THEN 1 ELSE 0)
    BY DEF IInv, OnlyRefusedLeak
  <2> QED
    BY <1>1, <2>1 DEF Listed, Held, KeysOf
<1>3. TypeOK'
  BY DEF IInv, TypeOK, Listed
<1>4. OwnersApart' /\ InCall' /\ Signed'
  BY <1>1 DEF IInv, Listed, OwnersApart, InCall, Signed, KeysOf
<1>5. ResultReadInTime' /\ Result'
  BY DEF IInv, Listed, ResultReadInTime, Result,
     Then, ThenRead, ThenRecrypt, ThenEncode, ThenExport, ThenRecord
<1>6. OneSigner'
  BY DEF IInv, Listed, OneSigner, Signed
<1> QED
  BY <1>2, <1>3, <1>4, <1>5, <1>6 DEF IInv

LEMMA SignIInv ==
  ASSUME IInv, pc = "listing", call = "sign", Sign,
         UNCHANGED <<init, user, call, verified, sigs, refused>>
  PROVE  IInv'
<1>1. signers = {} /\ signers' = keys /\ user \in {"encode", "export"}
  BY DEF IInv, Signed, Sign
<1>2. copies = <<>> /\ list = {} /\ sigs = <<>>
  BY DEF IInv, OwnersApart
<1>3. OnlyRefusedLeak'
  <2> SUFFICES ASSUME NEW j \in KeyObj
               PROVE ref'[j] = Held(j)' + (IF j \in refused' THEN 1 ELSE 0)
    BY DEF OnlyRefusedLeak
  <2>1. ref[j] = Held(j) + (IF j \in refused THEN 1 ELSE 0)
    BY DEF IInv, OnlyRefusedLeak
  <2> QED
    BY <1>1, <2>1 DEF Sign, Held, KeysOf
<1>4. TypeOK'
  BY DEF IInv, TypeOK, Sign
<1>5. OwnersApart' /\ InCall'
  BY <1>2 DEF IInv, Sign, OwnersApart, InCall, KeysOf
<1>6. Signed' /\ OneSigner'
  BY <1>1 DEF Sign, Signed, OneSigner
<1>7. ResultReadInTime' /\ Result'
  BY DEF IInv, Sign, ResultReadInTime, Result,
     Then, ThenRead, ThenRecrypt, ThenEncode, ThenExport, ThenRecord
<1> QED
  BY <1>3, <1>4, <1>5, <1>6, <1>7 DEF IInv

LEMMA LookedUpIInv ==
  ASSUME IInv, pc = "listing", call = "verify", LookedUp,
         UNCHANGED <<init, user, call, verified, sigs, refused>>
  PROVE  IInv'
<1>1. /\ copies \in Seq(Ptr) /\ at \in 1..Len(copies) /\ copies[at] = NoKey
      /\ keys \subseteq KeyObj
  BY DEF IInv, TypeOK, InCall, Ptr
<1>2. /\ list = {} /\ sigs = <<>> /\ user = "read"
      /\ keys \cap KeysOf(copies) = {}
  BY DEF IInv, OwnersApart, InCall
<1>3. OnlyRefusedLeak' /\ copies' \in Seq(Ptr)
      /\ ref' = [k \in KeyObj |-> ref'[k]]
  <2>1. CASE keys = {}
    BY <1>1, <2>1 DEF IInv, TypeOK, OnlyRefusedLeak, LookedUp, Held, KeysOf
  <2>2. CASE keys # {}
    <3> PICK k \in keys : /\ copies' = [copies EXCEPT ![at] = k]
                          /\ ref' = Unref(keys \ {k})
      BY <2>2 DEF LookedUp
    <3>1. KeysOf(copies') = KeysOf(copies) \cup {k} /\ copies' \in Seq(Ptr)
      BY <1>1, KeysOfExcept
    <3>2. ASSUME NEW j \in KeyObj
          PROVE ref'[j] = Held(j)' + (IF j \in refused' THEN 1 ELSE 0)
      <4>1. ref[j] = Held(j) + (IF j \in refused THEN 1 ELSE 0)
        BY DEF IInv, OnlyRefusedLeak
      <4>2. keys' = {} /\ KeysOf(sigs') = KeysOf(sigs)
        BY DEF LookedUp, KeysOf
      <4>3. /\ ref'[j] = IF j \in keys \ {k} THEN ref[j] - 1 ELSE ref[j]
            /\ UNCHANGED <<list, signers, refused>>
            /\ j \in KeysOf(copies') <=> j \in KeysOf(copies) \/ j = k
            /\ k \in keys /\ k \notin KeysOf(copies)
        BY <1>2, <3>1 DEF LookedUp, Unref
      <4>4. CASE j = k
        BY <4>1, <4>2, <4>3, <4>4 DEF Held
      <4>5. CASE j # k
        BY <4>1, <4>2, <4>3, <4>5 DEF Held
      <4> QED
        BY <4>4, <4>5
    <3> QED
      BY <3>1, <3>2 DEF OnlyRefusedLeak, Unref
  <2> QED
    BY <2>1, <2>2
<1>4. ref' \in [KeyObj -> Nat]
  BY <1>3, RefIsNat
<1>5. TypeOK'
  BY <1>1, <1>3, <1>4 DEF IInv, TypeOK, LookedUp, Ptr
<1>6. OwnersApart' /\ InCall' /\ Signed'
  BY <1>1, <1>2 DEF IInv, LookedUp, OwnersApart, InCall, Signed
<1>7. ResultReadInTime' /\ OneSigner' /\ Result'
  BY DEF IInv, LookedUp, ResultReadInTime, OneSigner, Result
<1> QED
  BY <1>3, <1>5, <1>6, <1>7 DEF IInv

LEMMA EndListingIInv ==
  ASSUME IInv, EndListing
  PROVE  IInv'
  BY CheckedIInv, ListedIInv, SignIInv, LookedUpIInv DEF EndListing

-----------------------------------------------------------------------------
(***************************************************************************)
(* Operations on a message.                                                *)
(***************************************************************************)

LEMMA EncryptIInv ==
  ASSUME IInv, Encrypt
  PROVE  IInv'
<1>1. /\ pc = "idle" /\ call' = "encrypt" /\ call = "list" /\ keys = {}
      /\ copies = <<>> /\ (list # {} => sigs = <<>>)
  <2>1. pc = "idle" /\ call' = "encrypt"
    BY DEF Encrypt, Call
  <2>2. call = "list"
    BY DEF Encrypt, Call, Then, ThenRead, ThenRecrypt, ThenEncode,
       ThenExport, ThenRecord
  <2> QED
    BY <2>1, <2>2 DEF IInv, OwnersApart
<1>2. KeysOf(sigs') = {} /\ KeysOf(copies') = KeysOf(copies) /\ Len(sigs') = 0
      /\ (list # {} => KeysOf(sigs) = {})
  BY <1>1, KeysOfEmpty DEF Encrypt
<1>3. OnlyRefusedLeak'
  <2> SUFFICES ASSUME NEW j \in KeyObj
               PROVE ref'[j] = Held(j)' + (IF j \in refused' THEN 1 ELSE 0)
    BY DEF OnlyRefusedLeak
  <2>1. ref[j] = Held(j) + (IF j \in refused THEN 1 ELSE 0)
    BY DEF IInv, OnlyRefusedLeak
  <2>2. j \in list => j \notin KeysOf(sigs)
    BY <1>2
  <2> QED
    BY <1>2, <2>1, <2>2 DEF Encrypt, Unref, Held
<1>4. ref' \in [KeyObj -> Nat]
  BY <1>3, RefIsNat DEF Encrypt, Unref
<1>5. TypeOK'
  <2>1. <<>> \in Seq(KeyObj \cup {NoKey})
    OBVIOUS
  <2> QED
    BY <1>4, <2>1 DEF IInv, TypeOK, Encrypt
<1>6. OwnersApart' /\ InCall' /\ Signed'
  BY <1>1, <1>2 DEF IInv, Encrypt, OwnersApart, InCall, Signed
<1>7. ResultReadInTime' /\ OneSigner' /\ Result'
  BY <1>1 DEF IInv, Encrypt, ResultReadInTime, OneSigner, Result,
     Then, ThenRead, ThenRecrypt, ThenEncode, ThenExport, ThenRecord
<1> QED
  BY <1>3, <1>5, <1>6, <1>7 DEF IInv

LEMMA DecryptIInv ==
  ASSUME IInv, Decrypt
  PROVE  IInv'
<1>1. /\ pc = "idle" /\ call' = "decrypt" /\ keys = {} /\ call # "list"
      /\ copies = <<>> \/ call = "verify"
      /\ list = {}
      /\ user \in {"encode", "export"} => call # "start"
  BY CallFacts DEF IInv, Decrypt, OwnersApart
<1> DEFINE Decrypted(s) ==
        /\ \A i, j \in DOMAIN s : s[i] = s[j] => i = j \/ s[i] = NoKey
        /\ \A k \in KeysOf(s) : ref[k] = 0 /\ Held(k) = 0
        /\ sigs' = s
        /\ ref' = [k \in KeyObj |-> IF k \in KeysOf(s) THEN 1
                                    ELSE Unref(KeysOf(sigs))[k]]
<1>a. PICK n \in 0..MaxSigs : \E s \in [1..n -> Ptr] : Decrypted(s)
  BY DEF Decrypt, Ptr
<1>b. PICK s \in [1..n -> Ptr] : Decrypted(s)
  BY <1>a
<1>2. Decrypted(s)
  BY <1>b
<1>3. s \in Seq(Ptr) /\ DOMAIN s = 1..Len(s)
  OBVIOUS
<1>4. copies = <<>>
  BY <1>1, CallFacts DEF IInv, Decrypt, OwnersApart, Call, Then, ThenRead,
     ThenRecrypt, ThenEncode, ThenExport, ThenRecord
<1>5. OnlyRefusedLeak'
  <2> SUFFICES ASSUME NEW j \in KeyObj
               PROVE ref'[j] = Held(j)' + (IF j \in refused' THEN 1 ELSE 0)
    BY DEF OnlyRefusedLeak
  <2>1. ref[j] = Held(j) + (IF j \in refused THEN 1 ELSE 0)
    BY DEF IInv, OnlyRefusedLeak
  <2>2. /\ UNCHANGED <<keys, list, signers, copies, refused>>
        /\ KeysOf(copies') = KeysOf(copies) /\ KeysOf(sigs') = KeysOf(s)
    BY <1>2 DEF Decrypt
  <2>3. CASE j \in KeysOf(s)
    BY <1>2, <2>1, <2>2, <2>3 DEF Held
  <2>4. CASE j \notin KeysOf(s)
    BY <1>2, <2>1, <2>2, <2>4 DEF Held, Unref
  <2> QED
    BY <2>3, <2>4
<1>6. ref' \in [KeyObj -> Nat]
  BY <1>2, <1>5, RefIsNat
<1>7. TypeOK'
  BY <1>2, <1>3, <1>6 DEF IInv, TypeOK, Decrypt, Ptr
<1>8. OwnersApart'
  BY <1>1, <1>4 DEF IInv, Decrypt, OwnersApart, KeysOf
<1>9. InCall' /\ Signed'
  BY <1>1, <1>2, <1>3 DEF IInv, Decrypt, InCall, Signed
<1>10. ResultReadInTime' /\ OneSigner' /\ Result'
  BY <1>1 DEF IInv, Decrypt, ResultReadInTime, OneSigner, Result
<1> QED
  BY <1>5, <1>7, <1>8, <1>9, <1>10 DEF IInv

LEMMA VerifyIInv ==
  ASSUME IInv, Verify
  PROVE  IInv'
<1>1. pc = "idle" /\ call' = "verify" /\ call = "decrypt" /\ user = "read"
  BY CallFacts DEF Verify
<1>2. copies = <<>> /\ keys = {} /\ list = {} /\ verified /\ Len(copies) = 0
  BY <1>1 DEF IInv, OwnersApart, Result
<1>3. TypeOK' /\ OnlyRefusedLeak'
  BY <1>2 DEF IInv, TypeOK, OnlyRefusedLeak, Verify, Held, KeysOf
<1>4. OwnersApart' /\ Signed'
  BY <1>1, <1>2 DEF IInv, Verify, OwnersApart, Signed, KeysOf
<1>5. InCall'
  <2>1. Len(sigs) \in Nat
    BY DEF IInv, TypeOK
  <2> QED
    BY <1>1, <1>2, <2>1 DEF IInv, Verify, InCall
<1>6. ResultReadInTime' /\ OneSigner' /\ Result'
  BY <1>1, <1>2 DEF IInv, Verify, ResultReadInTime, OneSigner, Result
<1> QED
  BY <1>3, <1>4, <1>5, <1>6 DEF IInv

LEMMA CopySigIInv ==
  ASSUME IInv, CopySig
  PROVE  IInv'
<1>1. /\ pc = "copying" /\ call = "verify" /\ user = "read" /\ keys = {}
      /\ list = {} /\ verified
  BY DEF IInv, CopySig, OwnersApart, InCall, ResultReadInTime
<1>2. /\ sigs \in Seq(Ptr) /\ copies \in Seq(Ptr)
      /\ at \in 1..Len(sigs) /\ Len(copies) = at - 1
      /\ \A i \in 1..(at - 1) : copies[i] = sigs[i]
      /\ sigs[at] \in Ptr
  BY <1>1 DEF IInv, TypeOK, CopySig, InCall, Ptr
<1>3. /\ copies' \in Seq(Ptr)
      /\ KeysOf(copies') = KeysOf(copies) \cup ({sigs[at]} \ {NoKey})
  BY <1>2, KeysOfAppend DEF CopySig
<1>4. sigs[at] # NoKey => sigs[at] \notin KeysOf(copies)
  <2> SUFFICES ASSUME sigs[at] # NoKey, sigs[at] \in KeysOf(copies)
               PROVE FALSE
    OBVIOUS
  <2>1. PICK i \in 1..Len(copies) : copies[i] = sigs[at]
    BY <1>2, KeysOfSeq
  <2>2. i \in 1..(at - 1) /\ i \in 1..Len(sigs) /\ i # at /\ sigs[i] = sigs[at]
    BY <1>2, <2>1
  <2> QED
    BY <1>2, <2>2 DEF IInv, InCall
<1>5. OnlyRefusedLeak'
  <2> SUFFICES ASSUME NEW j \in KeyObj
               PROVE ref'[j] = Held(j)' + (IF j \in refused' THEN 1 ELSE 0)
    BY DEF OnlyRefusedLeak
  <2>1. ref[j] = Held(j) + (IF j \in refused THEN 1 ELSE 0)
    BY DEF IInv, OnlyRefusedLeak
  <2>2. /\ UNCHANGED <<keys, list, signers, sigs, refused>>
        /\ ref'[j] = IF j = sigs[at] THEN ref[j] + 1 ELSE ref[j]
        /\ KeysOf(sigs') = KeysOf(sigs)
    BY DEF CopySig
  <2>3. CASE j = sigs[at]
    BY <1>3, <1>4, <2>1, <2>2, <2>3 DEF Held
  <2>4. CASE j # sigs[at]
    BY <1>3, <2>1, <2>2, <2>4 DEF Held
  <2> QED
    BY <2>3, <2>4
<1>6. ref' \in [KeyObj -> Nat]
  BY <1>5, RefIsNat DEF CopySig
<1>7. TypeOK'
  BY <1>2, <1>3, <1>6 DEF IInv, TypeOK, CopySig, Ptr
<1>8. OwnersApart' /\ Signed'
  BY <1>1 DEF IInv, CopySig, OwnersApart, Signed
<1>9. InCall'
  <2>1. Len(copies') = at /\ copies'[at] = sigs[at] /\ at' = at + 1
        /\ \A i \in 1..(at - 1) : copies'[i] = copies[i]
    BY <1>2 DEF CopySig
  <2>2. \A i \in 1..(at' - 1) : i = at \/ i \in 1..(at - 1)
    BY <1>2, <2>1
  <2>3. at' \in 1..(Len(sigs) + 1) /\ Len(copies') = at' - 1
    BY <1>2, <2>1
  <2>4. \A i \in 1..(at' - 1) : copies'[i] = sigs[i]
    BY <1>2, <2>1, <2>2
  <2> QED
    BY <1>1, <2>3, <2>4 DEF IInv, InCall, CopySig
<1>10. ResultReadInTime' /\ OneSigner' /\ Result'
  BY <1>1 DEF IInv, CopySig, ResultReadInTime, OneSigner, Result
<1> QED
  BY <1>5, <1>7, <1>8, <1>9, <1>10 DEF IInv

LEMMA EndCopyIInv ==
  ASSUME IInv, EndCopy \/ LookUpNot
  PROVE  IInv'
<1>1. pc \in {"copying", "lookup"} /\ call = "verify" /\ user = "read"
      /\ pc' = "lookup" /\ at \in Nat /\ at' \in Nat /\ at' # 0
  BY DEF IInv, TypeOK, InCall, EndCopy, LookUpNot
<1>2. UNCHANGED <<init, user, call, ref, owners, verified, refused>>
  BY DEF EndCopy, LookUpNot
<1>3. TypeOK' /\ OnlyRefusedLeak'
  BY <1>1, <1>2 DEF IInv, TypeOK, OnlyRefusedLeak, Held, KeysOf
<1>4. OwnersApart' /\ InCall' /\ Signed'
  BY <1>1, <1>2 DEF IInv, OwnersApart, InCall, Signed, KeysOf
<1>5. ResultReadInTime' /\ OneSigner' /\ Result'
  BY <1>1, <1>2 DEF IInv, ResultReadInTime, OneSigner, Result
<1> QED
  BY <1>3, <1>4, <1>5 DEF IInv

LEMMA EndVerifyIInv ==
  ASSUME IInv, EndVerify
  PROVE  IInv'
<1>1. pc = "lookup" /\ call = "verify" /\ user = "read" /\ keys = {}
      /\ list = {}
  BY DEF IInv, OwnersApart, InCall, EndVerify
<1>2. KeysOf(copies') = {} /\ KeysOf(sigs') = KeysOf(sigs)
  BY KeysOfEmpty DEF EndVerify
<1>3. OnlyRefusedLeak'
  <2> SUFFICES ASSUME NEW j \in KeyObj
               PROVE ref'[j] = Held(j)' + (IF j \in refused' THEN 1 ELSE 0)
    BY DEF OnlyRefusedLeak
  <2>1. ref[j] = Held(j) + (IF j \in refused THEN 1 ELSE 0)
    BY DEF IInv, OnlyRefusedLeak
  <2> QED
    BY <1>2, <2>1 DEF EndVerify, Unref, Held
<1>4. ref' \in [KeyObj -> Nat]
  BY <1>3, RefIsNat DEF EndVerify, Unref
<1>5. TypeOK'
  <2>1. <<>> \in Seq(KeyObj \cup {NoKey})
    OBVIOUS
  <2> QED
    BY <1>4, <2>1 DEF IInv, TypeOK, EndVerify
<1>6. OwnersApart' /\ InCall' /\ Signed'
  BY <1>1, <1>2 DEF IInv, EndVerify, OwnersApart, InCall, Signed
<1>7. ResultReadInTime' /\ OneSigner' /\ Result'
  BY <1>1 DEF IInv, EndVerify, ResultReadInTime, OneSigner, Result, Then,
     ThenRead
<1> QED
  BY <1>3, <1>5, <1>6, <1>7 DEF IInv

-----------------------------------------------------------------------------
(***************************************************************************)
(* The end of a context.                                                   *)
(***************************************************************************)

LEMMA DestroyIInv ==
  ASSUME IInv, Destroy, pc' \in {"none", "ended"}, UNCHANGED user
  PROVE  IInv'
<1>1. KeysOf(sigs') = {} /\ KeysOf(copies') = {} /\ Len(sigs') = 0
  BY KeysOfEmpty DEF Destroy
<1>2. OnlyRefusedLeak'
  <2> SUFFICES ASSUME NEW j \in KeyObj
               PROVE ref'[j] = Held(j)' + (IF j \in refused' THEN 1 ELSE 0)
    BY DEF OnlyRefusedLeak
  <2>1. ref[j] = Held(j) + (IF j \in refused THEN 1 ELSE 0)
    BY DEF IInv, OnlyRefusedLeak
  <2>2. Held(j)' = 0
    BY <1>1 DEF Destroy, Held
  <2>3. ref'[j] = ref[j] - Held(j) /\ refused' = refused
    BY DEF Destroy
  <2> QED
    BY <2>1, <2>2, <2>3, HeldType
<1>3. ref' \in [KeyObj -> Nat]
  BY <1>2, RefIsNat DEF Destroy
<1>4. TypeOK'
  <2>1. <<>> \in Seq(KeyObj \cup {NoKey})
    OBVIOUS
  <2> QED
    BY <1>3, <2>1 DEF IInv, TypeOK, Destroy
<1>5. OwnersApart' /\ InCall' /\ Signed'
  BY <1>1 DEF IInv, Destroy, OwnersApart, InCall, Signed
<1>6. ResultReadInTime' /\ OneSigner' /\ Result'
  BY DEF IInv, Destroy, ResultReadInTime, OneSigner, Result
<1> QED
  BY <1>2, <1>4, <1>5, <1>6 DEF IInv

LEMMA NextProcessIInv ==
  ASSUME IInv, NextProcess
  PROVE  IInv'
<1>1. /\ keys = {} /\ list = {} /\ signers = {}
      /\ sigs = <<>> /\ copies = <<>>
  BY DEF IInv, OwnersApart, NextProcess
<1>2. KeysOf(sigs') = {} /\ KeysOf(copies') = {} /\ Len(sigs') = 0
  BY <1>1, KeysOfEmpty DEF NextProcess
<1>3. TypeOK'
  BY DEF IInv, TypeOK, NextProcess
<1>4. OnlyRefusedLeak'
  BY <1>1, <1>2 DEF NextProcess, OnlyRefusedLeak, Held
<1>5. OwnersApart' /\ InCall' /\ Signed'
  BY <1>1, <1>2 DEF NextProcess, OwnersApart, InCall, Signed
<1>6. ResultReadInTime' /\ OneSigner' /\ Result'
  BY <1>1 DEF NextProcess, ResultReadInTime, OneSigner, Result
<1> QED
  BY <1>3, <1>4, <1>5, <1>6 DEF IInv

LEMMA StutterIInv ==
  ASSUME IInv, UNCHANGED vars
  PROVE  IInv'
<1>1. /\ TypeOK' /\ OnlyRefusedLeak' /\ OneSigner'
      /\ Result' /\ Signed'
  BY DEF IInv, TypeOK, OnlyRefusedLeak, Held, KeysOf, OneSigner, Result,
     Signed
<1>2. ResultReadInTime'
  BY DEF IInv, ResultReadInTime, Then, ThenRead, ThenRecrypt, ThenEncode,
     ThenExport, ThenRecord
<1>3. OwnersApart' /\ InCall'
  BY DEF IInv, OwnersApart, InCall, KeysOf
<1> QED
  BY <1>1, <1>2, <1>3 DEF IInv

LEMMA NextIInv ==
  ASSUME IInv, [Next]_vars
  PROVE  IInv'
<1>1. CASE \E u \in User : NewContext(u)
  BY <1>1, NewContextIInv
<1>2. CASE InitThrows
  BY <1>2, InitThrowsIInv
<1>3. CASE GetKeys \/ LookUp
  BY <1>3, StartListingIInv, Zenon DEF GetKeys, LookUp
<1>4. CASE \E k \in KeyObj : NextKey(k) \/ NextKeyRefused(k)
  BY <1>4, NextKeyIInv, NextKeyRefusedIInv
<1>5. CASE EndListing
  BY <1>5, EndListingIInv
<1>6. CASE Encrypt \/ Decrypt \/ Verify
  BY <1>6, EncryptIInv, DecryptIInv, VerifyIInv, Zenon
<1>7. CASE CopySig \/ EndCopy \/ LookUpNot \/ EndVerify
  BY <1>7, CopySigIInv, EndCopyIInv, EndVerifyIInv, Zenon
<1>8. CASE Finish
  BY <1>8, DestroyIInv DEF Finish
<1>9. CASE Throw
  BY <1>9, DestroyIInv DEF Throw
<1>10. CASE NextProcess
  BY <1>10, NextProcessIInv
<1>11. CASE UNCHANGED vars
  BY <1>11, StutterIInv
<1> QED
  BY <1>1, <1>2, <1>3, <1>4, <1>5, <1>6, <1>7, <1>8, <1>9, <1>10, <1>11, Zenon
     DEF Next

-----------------------------------------------------------------------------
\* Whatever functions make contexts, in whatever order, and wherever they
\* throw, the owners of the keys and their counts agree (with the conjuncts
\* that this rests on).
THEOREM Invariance == Spec => []IInv
<1>1. Init => IInv
  BY InitIInv
<1>2. IInv /\ [Next]_vars => IInv'
  BY NextIInv
<1> QED
  BY <1>1, <1>2, PTL DEF Spec

\* The count of a key is the number of its owners, but for the keys that a
\* filter of get_keys has refused: gpgh::key releases what it took.
THEOREM OnlyRefusedKeysLeak == Spec => []OnlyRefusedLeak
<1>1. IInv => OnlyRefusedLeak
  BY DEF IInv
<1> QED
  BY <1>1, Invariance, PTL

\* op_verify_result comes right after a decryption, and the result lives until
\* it has copied all signatures.
THEOREM ResultIsReadInTime == Spec => []ResultReadInTime
<1>1. IInv => ResultReadInTime
  BY DEF IInv
<1> QED
  BY <1>1, Invariance, PTL

\* The writers sign with one key, the only one that fits the uid.
THEOREM SignedByOne == Spec => []OneSigner
<1>1. IInv => OneSigner
  BY DEF IInv
<1> QED
  BY <1>1, Invariance, PTL
=============================================================================
