---------------------------- MODULE GpgContext -----------------------------
(***************************************************************************)
(* gpgh::context (lib/gpgh/gpg_helper.cc): who owns the keys that GPGME    *)
(* hands out, and for how long a verification result may be read.          *)
(*                                                                         *)
(* GPGME counts the references to a key object; gpgh::key gives one back   *)
(* when it dies.  A context runs one operation after the other, and each   *)
(* destroys the result of the one before.  The functions of the program    *)
(* that make a context each make the same few calls on it: see Then.       *)
(***************************************************************************)
EXTENDS Sequences, FiniteSets, Naturals, SequencesExt

CONSTANTS
    KeyObj,         \* key objects of GPGME
    NoKey,          \* a null pointer to one
    MaxListed,      \* bound: keys that one listing returns and that are kept
    MaxSigs         \* bound: signatures on one message

ASSUME NoKeyAssumption == NoKey \notin KeyObj

VARIABLES
    init,           \* gpg_init: "none", "version" (gpg_version set) or "full"
    pc,             \* "none" (no context), "idle", "listing", "copying",
                    \* "lookup", "ended" (an exception has ended the process)
    user,           \* the function that has made the context
    call,           \* the last call it made
    ref,            \* GPGME's reference count of each key object
    keys,           \* the local variable of get_keys
    list,           \* the list that the user keeps to encrypt
    signers,        \* the signers of the context
    verified,       \* whether there is a verification result
    sigs,           \* the key of each signature in it
    copies,         \* the key of each sig_verify_result
    at,             \* how far op_verify_result is in either
    refused         \* keys that a filter has refused

owners == <<keys, list, signers, sigs, copies>>
vars == <<init, pc, user, call, ref, owners, verified, at, refused>>

User == {"read", "recrypt", "encode", "export", "record"}

KeysOf(s) == Range(s) \ {NoKey}

Held(k) == (IF k \in keys THEN 1 ELSE 0) + (IF k \in list THEN 1 ELSE 0)
           + (IF k \in signers THEN 1 ELSE 0)
           + (IF k \in KeysOf(sigs) THEN 1 ELSE 0)
           + (IF k \in KeysOf(copies) THEN 1 ELSE 0)

Unref(S) == [k \in KeyObj |-> IF k \in S THEN ref[k] - 1 ELSE ref[k]]

Init ==
    /\ init = "none"
    /\ pc = "none"
    /\ user = "read"
    /\ call = "start"
    /\ ref = [k \in KeyObj |-> 0]
    /\ keys = {} /\ list = {} /\ signers = {}
    /\ verified = FALSE
    /\ sigs = <<>> /\ copies = <<>>
    /\ at = 1
    /\ refused = {}

-----------------------------------------------------------------------------
(***************************************************************************)
(* Wrong forms, each with one plausible mistake.                           *)
(***************************************************************************)

\* sig_verify_result takes the key over without gpgme_key_ref.
CopySigUnreferenced ==
    /\ pc = "copying" /\ at <= Len(sigs)
    /\ copies' = Append(copies, sigs[at])
    /\ at' = at + 1
    /\ UNCHANGED <<init, pc, user, call, ref, keys, list, signers, verified,
                   sigs, refused>>

\* The missing key is looked up at once, in the handler of the signature.
EndCopyEach ==
    /\ pc = "copying"
    /\ \/ at > Len(sigs) /\ pc' = "lookup" /\ at' = 1 /\ UNCHANGED verified
       \/ /\ at > 1 /\ copies[at - 1] = NoKey
          /\ verified' = FALSE
          /\ UNCHANGED <<pc, at>>
    /\ UNCHANGED <<init, user, call, ref, owners, refused>>

\* add_signer takes every key that fits the uid.
SignWithAll ==
    /\ keys # {}
    /\ signers' = signers \cup keys
    /\ keys' = {}
    /\ pc' = "idle"
    /\ UNCHANGED <<list, copies, ref, at>>

-----------------------------------------------------------------------------
(***************************************************************************)
(* The calls that follow each call of a function, on its context.          *)
(***************************************************************************)
ThenRead(c) ==              \* read_from_pwdb and subcmd_import
    \/ call = "start" /\ c = "decrypt"
    \/ call = "decrypt" /\ c = "verify"
    \/ call = "verify" /\ c = "end"

ThenRecrypt(c) ==           \* check_uid, and the records after it
    \/ call = "start" /\ c = "check"
    \/ call \in {"check", "encrypt"} /\ c \in {"decrypt", "list", "end"}
    \/ call = "decrypt" /\ c = "list"
    \/ call = "list" /\ c = "encrypt"

ThenEncode(c) ==            \* the writers of the database
    \/ call = "start" /\ c = "sign"
    \/ call = "sign" /\ c = "list"
    \/ call = "list" /\ c = "encrypt"
    \/ call = "encrypt" /\ c = "end"

ThenExport(c) ==
    \/ call = "start" /\ c = "sign"
    \/ call \in {"sign", "decrypt"} /\ c \in {"decrypt", "list"}
    \/ call = "list" /\ c = "encrypt"
    \/ call = "encrypt" /\ c = "end"

ThenRecord(c) ==            \* the command "open"
    \/ call = "start" /\ c \in {"decrypt", "list", "end"}
    \/ call = "decrypt" /\ c \in {"list", "end"}
    \/ call = "list" /\ c = "encrypt"
    \/ call = "encrypt" /\ c = "end"

Then(c) ==
    \/ user = "read" /\ ThenRead(c)
    \/ user = "recrypt" /\ ThenRecrypt(c)
    \/ user = "encode" /\ ThenEncode(c)
    \/ user = "export" /\ ThenExport(c)
    \/ user = "record" /\ ThenRecord(c)

\* gpg_init does its work once, whatever has come of it.
NewContext(u) ==
    /\ pc = "none"
    /\ init' = IF init = "none" THEN "full" ELSE init
    /\ pc' = "idle"
    /\ user' = u
    /\ call' = "start"
    /\ UNCHANGED <<ref, owners, verified, at, refused>>

\* The version, the engine or the locale is refused; main ends the process.
InitThrows ==
    /\ pc = "none" /\ init = "none"
    /\ init' \in {"none", "version"}
    /\ pc' = "ended"
    /\ UNCHANGED <<user, call, ref, owners, verified, at, refused>>

Call(c) ==
    /\ pc = "idle"
    /\ Then(c)
    /\ call' = c

-----------------------------------------------------------------------------
(***************************************************************************)
(* get_keys.                                                               *)
(***************************************************************************)

\* gpgme_op_keylist_start: the result that there was is destroyed.
StartListing ==
    /\ pc' = "listing"
    /\ ref' = Unref(KeysOf(sigs))
    /\ sigs' = <<>>
    /\ verified' = FALSE
    /\ UNCHANGED <<init, user, keys, list, signers, copies, at, refused>>

GetKeys == \E c \in {"check", "list", "sign"} : Call(c) /\ StartListing

\* GPGME makes a new object of each key that it lists.
NextKey(k) ==
    /\ pc = "listing"
    /\ ref[k] = 0 /\ Held(k) = 0
    /\ Cardinality(keys) < MaxListed
    /\ keys' = keys \cup {k}
    /\ ref' = [ref EXCEPT ![k] = 1]
    /\ UNCHANGED <<init, pc, user, call, list, signers, verified, sigs, copies,
                   at, refused>>

\* The filter refuses it; op_verify_result has none.
NextKeyRefused(k) ==
    /\ pc = "listing" /\ call # "verify"
    /\ ref[k] = 0 /\ Held(k) = 0
    /\ ref' = [ref EXCEPT ![k] = 1]
    /\ refused' = refused \cup {k}
    /\ UNCHANGED <<init, pc, user, call, owners, verified, at>>

\* check_uid looks only whether there is one.
Checked ==
    /\ ref' = Unref(keys)
    /\ keys' = {}
    /\ pc' = "idle"
    /\ UNCHANGED <<list, signers, copies, at>>

Listed ==
    /\ list' = keys
    /\ keys' = {}
    /\ pc' = "idle"
    /\ UNCHANGED <<signers, copies, ref, at>>

\* add_signer: GPGME takes a reference and the list gives its own back.
Sign ==
    /\ Cardinality(keys) = 1
    /\ signers' = signers \cup keys
    /\ keys' = {}
    /\ pc' = "idle"
    /\ UNCHANGED <<list, copies, ref, at>>

\* op_verify_result keeps the first of the keys, if there is one.
LookedUp ==
    /\ IF keys = {} THEN UNCHANGED <<copies, ref>>
       ELSE \E k \in keys : /\ copies' = [copies EXCEPT ![at] = k]
                            /\ ref' = Unref(keys \ {k})
    /\ keys' = {}
    /\ at' = at + 1
    /\ pc' = "lookup"
    /\ UNCHANGED <<list, signers>>

EndListing ==
    /\ pc = "listing"
    /\ \/ call = "check" /\ Checked
       \/ call = "list" /\ Listed
       \/ call = "sign" /\ Sign
       \/ call = "verify" /\ LookedUp
    /\ UNCHANGED <<init, user, call, verified, sigs, refused>>

-----------------------------------------------------------------------------
\* The list of recipients dies after the call.
Encrypt ==
    /\ Call("encrypt")
    /\ ref' = Unref(KeysOf(sigs) \cup list)
    /\ list' = {}
    /\ sigs' = <<>>
    /\ verified' = FALSE
    /\ UNCHANGED <<init, pc, user, keys, signers, copies, at, refused>>

\* With GPGME_DECRYPT_VERIFY: some signatures come with their key, most not.
Decrypt ==
    /\ Call("decrypt")
    /\ \E s \in UNION {[1..n -> KeyObj \cup {NoKey}] : n \in 0..MaxSigs} :
        /\ \A i, j \in DOMAIN s : s[i] = s[j] => i = j \/ s[i] = NoKey
        /\ \A k \in KeysOf(s) : ref[k] = 0 /\ Held(k) = 0
        /\ sigs' = s
        /\ ref' = [k \in KeyObj |-> IF k \in KeysOf(s) THEN 1
                                    ELSE Unref(KeysOf(sigs))[k]]
    /\ verified' = TRUE
    /\ UNCHANGED <<init, pc, user, keys, list, signers, copies, at, refused>>

-----------------------------------------------------------------------------
(***************************************************************************)
(* op_verify_result.                                                       *)
(***************************************************************************)
Verify ==
    /\ Call("verify")
    /\ pc' = "copying"
    /\ at' = 1
    /\ UNCHANGED <<init, user, ref, owners, verified, refused>>

CopySig ==
    /\ pc = "copying" /\ at <= Len(sigs)
    /\ copies' = Append(copies, sigs[at])
    /\ ref' = [k \in KeyObj |-> IF k = sigs[at] THEN ref[k] + 1 ELSE ref[k]]
    /\ at' = at + 1
    /\ UNCHANGED <<init, pc, user, call, keys, list, signers, verified, sigs,
                   refused>>

EndCopy ==
    /\ pc = "copying" /\ at > Len(sigs)
    /\ pc' = "lookup"
    /\ at' = 1
    /\ UNCHANGED <<init, user, call, ref, owners, verified, refused>>

\* The key is null and there is a fingerprint to look it up by.
LookUp ==
    /\ pc = "lookup" /\ at <= Len(copies)
    /\ copies[at] = NoKey
    /\ StartListing
    /\ UNCHANGED call

\* There is a key, or no fingerprint.
LookUpNot ==
    /\ pc = "lookup" /\ at <= Len(copies)
    /\ at' = at + 1
    /\ UNCHANGED <<init, pc, user, call, ref, owners, verified, refused>>

\* check_gpg_verify_result has read the copies, and they die.
EndVerify ==
    /\ pc = "lookup" /\ at > Len(copies)
    /\ ref' = Unref(KeysOf(copies))
    /\ copies' = <<>>
    /\ pc' = "idle"
    /\ UNCHANGED <<init, user, call, keys, list, signers, verified, sigs, at,
                   refused>>

-----------------------------------------------------------------------------
\* Whatever lives is destroyed: lists, copies, the context and its own.
Destroy ==
    /\ ref' = [k \in KeyObj |-> ref[k] - Held(k)]
    /\ keys' = {} /\ list' = {} /\ signers' = {}
    /\ sigs' = <<>> /\ copies' = <<>>
    /\ verified' = FALSE
    /\ at' = 1
    /\ UNCHANGED <<init, refused>>

Finish == Call("end") /\ Destroy /\ pc' = "none" /\ UNCHANGED user

\* Any call may throw: GPGME, or add_signer itself.  No caller goes on.
Throw ==
    /\ pc \notin {"none", "ended"}
    /\ Destroy
    /\ pc' = "ended"
    /\ UNCHANGED <<user, call>>

\* A process that has ended, or has made its last context, and the next one.
NextProcess ==
    /\ pc \in {"none", "ended"}
    /\ init' = "none"
    /\ pc' = "none"
    /\ ref' = [k \in KeyObj |-> 0]
    /\ refused' = {}
    /\ UNCHANGED <<user, call, owners, verified, at>>

Next ==
    \/ \E u \in User : NewContext(u)
    \/ InitThrows
    \/ GetKeys
    \/ \E k \in KeyObj : NextKey(k) \/ NextKeyRefused(k)
    \/ EndListing
    \/ Encrypt \/ Decrypt
    \/ Verify \/ CopySig \/ EndCopy \/ LookUp \/ LookUpNot \/ EndVerify
    \/ Finish \/ Throw \/ NextProcess

Spec == Init /\ [][Next]_vars

-----------------------------------------------------------------------------
(***************************************************************************)
(* Properties.                                                             *)
(***************************************************************************)

\* The shape of the state.
TypeOK ==
    /\ init \in {"none", "version", "full"}
    /\ pc \in {"none", "idle", "listing", "copying", "lookup", "ended"}
    /\ user \in User
    /\ ref \in [KeyObj -> Nat]
    /\ keys \cup list \cup signers \cup refused \subseteq KeyObj
    /\ sigs \in Seq(KeyObj \cup {NoKey})
    /\ copies \in Seq(KeyObj \cup {NoKey})
    /\ verified \in BOOLEAN
    /\ at \in Nat

\* Every key that somebody still points to has its reference, through every
\* hand-over between GPGME, lists and copies, and every exception: no key is
\* freed too early, and none is kept that was not refused by a filter.
OnlyRefusedLeak ==
    \A k \in KeyObj :
        ref[k] = Held(k) + (IF k \in refused THEN 1 ELSE 0)

\* "op_verify_result() may be called only directly after a signature
\* verification operation" (gpg_helper.h:177), and while it reads the
\* signatures nothing destroys them: the lookups come after the copies.
ResultReadInTime ==
    /\ pc = "idle" /\ Then("verify") => verified
    /\ pc = "copying" => verified

\* What the program signs has one signature, by the one key of the uid.
OneSigner ==
    /\ pc = "idle" /\ user \in {"encode", "export"} /\ call = "list" =>
           Cardinality(signers) = 1
    /\ user \notin {"encode", "export"} => signers = {}

\* Which owners there are at which time, and that they own apart.
OwnersApart ==
    /\ pc \in {"none", "ended"} =>
           list = {} /\ signers = {} /\ sigs = <<>> /\ copies = <<>>
    /\ pc # "listing" => keys = {}
    /\ pc = "listing" => sigs = <<>>
    /\ list # {} => pc = "idle" /\ call = "list" /\ sigs = <<>>
    /\ copies # <<>> => pc \in {"copying", "lookup", "listing"}
                        /\ call = "verify"
    /\ keys \cap signers = {}
    /\ keys \cap KeysOf(copies) = {}

\* What a call is in the middle of.
InCall ==
    /\ pc = "listing" => call \in {"check", "list", "sign", "verify"}
    /\ pc \in {"copying", "lookup"} => call = "verify"
    /\ pc \in {"copying", "lookup", "listing"} /\ call = "verify" =>
           user = "read"
    /\ pc = "copying" =>
           /\ at \in 1..(Len(sigs) + 1) /\ Len(copies) = at - 1
           /\ \A i \in 1..(at - 1) : copies[i] = sigs[i]
    /\ \A i, j \in 1..Len(sigs) :
           sigs[i] = sigs[j] => i = j \/ sigs[i] = NoKey
    /\ pc = "listing" /\ call = "verify" =>
           at \in 1..Len(copies) /\ copies[at] = NoKey
    /\ pc = "lookup" => at # 0

\* The context has no signer before add_signer, and one from then on.
Signed ==
    /\ call = "start" => signers = {}
    /\ pc = "listing" /\ call = "sign" =>
           signers = {} /\ user \in {"encode", "export"}
    /\ /\ pc \in {"idle", "listing"} /\ user \in {"encode", "export"}
       /\ call # "start" /\ ~(pc = "listing" /\ call = "sign")
       => Cardinality(signers) = 1

\* The result of a decryption is there until the next operation.
Result ==
    pc = "idle" /\ user = "read" /\ call = "decrypt" => verified

IInv ==
    /\ TypeOK
    /\ OnlyRefusedLeak
    /\ ResultReadInTime
    /\ OneSigner
    /\ OwnersApart
    /\ InCall
    /\ Signed
    /\ Result
=============================================================================
