------------------------------ MODULE TestKey -------------------------------
(***************************************************************************)
(* gen_test_key (src/lib/gpgh/gen_test_key.cc): the test programs, which   *)
(* the build runs in parallel, find or create one passwordless key in a    *)
(* shared keyring, inside a lock made of a named POSIX semaphore.          *)
(*                                                                         *)
(* A name stands for a semaphore or for nothing.  sem_unlink takes the     *)
(* name away from the semaphore; who has it open keeps it.                 *)
(***************************************************************************)
EXTENDS Naturals, FiniteSets

CONSTANTS
    Proc,           \* the test programs that run, each once
    Sem,            \* semaphores
    NoSem           \* what a name without a semaphore stands for

ASSUME NoSemAssumption == NoSem \notin Sem

VARIABLES
    named,          \* the semaphore that the name stands for
    value,          \* the value of each semaphore
    pc,             \* where each process is
    sem,            \* the semaphore each process has open
    threw,          \* the critical section of a process threw
    found,          \* keys.size() inside the critical section
    keys            \* how many suitable keys the keyring has

vars == <<named, value, pc, sem, threw, found, keys>>

Inside == {"locked", "creating"}
Opened == {"waiting", "posting", "unlinking", "closing"} \cup Inside
Over == {"done", "failed", "dead"}
PC == {"start", "waiting", "posting", "unlinking", "closing", "again"}
        \cup Inside \cup Over

Go(p, from, to) ==
    /\ pc[p] = from
    /\ pc' = [pc EXCEPT ![p] = to]

Init ==
    /\ named = NoSem
    /\ value = [s \in Sem |-> 0]
    /\ pc = [p \in Proc |-> "start"]
    /\ sem = [p \in Proc |-> NoSem]
    /\ threw = [p \in Proc |-> FALSE]
    /\ found = [p \in Proc |-> 0]
    /\ keys = 0

\* A semaphore that the kernel may make: nobody refers to it.
Free(s) == s # named /\ \A p \in Proc : sem[p] # s

-----------------------------------------------------------------------------
(***************************************************************************)
(* Wrong forms of the operations below, each with one plausible mistake.   *)
(***************************************************************************)

\* The name is taken from an older semaphore first.
OpenAfresh(p) ==
    /\ Go(p, "start", "waiting")
    /\ \E s \in Sem :
        /\ Free(s)
        /\ value' = [value EXCEPT ![s] = 1]
        /\ named' = s
        /\ sem' = [sem EXCEPT ![p] = s]
    /\ UNCHANGED <<threw, found, keys>>

\* An exception leaves the critical section without sem_post.
PostOnReturnOnly(p) ==
    /\ Go(p, "posting", "unlinking")
    /\ value' = IF threw[p] THEN value
                ELSE [value EXCEPT ![sem[p]] = @ + 1]
    /\ UNCHANGED <<named, sem, threw, found, keys>>

-----------------------------------------------------------------------------
(***************************************************************************)
(* gen_test_key_lock.                                                      *)
(***************************************************************************)

\* sem_open(O_CREAT, 1): the semaphore of that name, or a new one.
Open(p) ==
    /\ Go(p, "start", "waiting")
    /\ \E s \in Sem :
        /\ IF named = NoSem
           THEN Free(s) /\ value' = [value EXCEPT ![s] = 1]
           ELSE s = named /\ UNCHANGED value
        /\ named' = s
        /\ sem' = [sem EXCEPT ![p] = s]
    /\ UNCHANGED <<threw, found, keys>>

OpenFails(p) ==
    /\ Go(p, "start", "failed")
    /\ UNCHANGED <<named, value, sem, threw, found, keys>>

\* sem_wait
Wait(p) ==
    /\ Go(p, "waiting", "locked")
    /\ value[sem[p]] > 0
    /\ value' = [value EXCEPT ![sem[p]] = @ - 1]
    /\ UNCHANGED <<named, sem, threw, found, keys>>

\* sem_wait is interrupted: the semaphore is closed and it throws.
WaitFails(p) ==
    /\ Go(p, "waiting", "failed")
    /\ sem' = [sem EXCEPT ![p] = NoSem]
    /\ UNCHANGED <<named, value, threw, found, keys>>

-----------------------------------------------------------------------------
(***************************************************************************)
(* The critical section of gen_test_key.                                   *)
(***************************************************************************)

GetKeys(p) ==
    /\ Go(p, "locked", IF keys > 0 THEN "posting" ELSE "creating")
    /\ found' = [found EXCEPT ![p] = keys]
    /\ UNCHANGED <<named, value, sem, threw, keys>>

\* gpgme_op_createkey returns and the keyring has one more key.
CreateKey(p) ==
    /\ Go(p, "creating", "posting")
    /\ keys' = keys + 1
    /\ UNCHANGED <<named, value, sem, threw, found>>

\* Listing or creating fails: gerr_check throws and the lock is unwound.
Throw(p) ==
    /\ \/ Go(p, "locked", "posting")
       \/ Go(p, "creating", "posting")
    /\ threw' = [threw EXCEPT ![p] = TRUE]
    /\ UNCHANGED <<named, value, sem, found, keys>>

-----------------------------------------------------------------------------
(***************************************************************************)
(* The deleter of the lock: three calls, one after the other.              *)
(***************************************************************************)

Post(p) ==
    /\ Go(p, "posting", "unlinking")
    /\ value' = [value EXCEPT ![sem[p]] = @ + 1]
    /\ UNCHANGED <<named, sem, threw, found, keys>>

\* The name goes, whichever semaphore it stands for by now.
Unlink(p) ==
    /\ Go(p, "unlinking", "closing")
    /\ named' = NoSem
    /\ UNCHANGED <<value, sem, threw, found, keys>>

Close(p) ==
    /\ Go(p, "closing", IF threw[p] THEN "failed"
                        ELSE IF found[p] > 0 THEN "done" ELSE "again")
    /\ sem' = [sem EXCEPT ![p] = NoSem]
    /\ UNCHANGED <<named, value, threw, found, keys>>

\* The key that was created is looked up, outside the lock.
GetKeysAgain(p) ==
    /\ Go(p, "again", IF keys > 0 THEN "done" ELSE "failed")
    /\ UNCHANGED <<named, value, sem, threw, found, keys>>

\* The test program is killed: the kernel closes its semaphore and does not
\* raise it.
Kill(p) ==
    /\ pc[p] \notin Over
    /\ pc' = [pc EXCEPT ![p] = "dead"]
    /\ sem' = [sem EXCEPT ![p] = NoSem]
    /\ UNCHANGED <<named, value, threw, found, keys>>

-----------------------------------------------------------------------------
\* What a process that has the semaphore open does next: no call in it waits
\* for a user, the key has no passphrase.
Proceed(p) ==
    \/ Wait(p) \/ GetKeys(p) \/ CreateKey(p) \/ Throw(p)
    \/ Post(p) \/ Unlink(p) \/ Close(p)

Next == \E p \in Proc :
    \/ Open(p) \/ OpenFails(p) \/ WaitFails(p)
    \/ Proceed(p)
    \/ GetKeysAgain(p)
    \/ Kill(p)

Spec == Init /\ [][Next]_vars

FairSpec == Spec /\ \A p \in Proc : WF_vars(Proceed(p))

-----------------------------------------------------------------------------
(***************************************************************************)
(* Properties.                                                             *)
(***************************************************************************)

\* The shape of the state.
TypeOK ==
    /\ named \in Sem \cup {NoSem}
    /\ value \in [Sem -> Nat]
    /\ pc \in [Proc -> PC]
    /\ sem \in [Proc -> Sem \cup {NoSem}]
    /\ \A p \in Proc : pc[p] \in Opened <=> sem[p] # NoSem
    /\ threw \in [Proc -> BOOLEAN]
    /\ found \in [Proc -> Nat]
    /\ keys \in Nat

\* "lock" (gen_test_key.cc:68): no two processes are in the braces at once.
MutualExclusion ==
    \A p, q \in Proc : pc[p] \in Inside /\ pc[q] \in Inside => p = q

\* Of two programs only one is: the lock does its work for them, also if one
\* is killed.
ExclusiveForTwo ==
    Cardinality({p \in Proc : pc[p] # "start"}) <= 2 => MutualExclusion

\* "create the testing key if it was not found" (gen_test_key.cc:72): however
\* many programs run, and although the lock lets two of them in together, one
\* key at most is made, unless a critical section throws or a program is
\* killed, wherever it then was.
Clean == \A p \in Proc : ~threw[p] /\ pc[p] # "dead"

KeyOnce == Clean => keys <= 1

\* Who waits gets the semaphore, unless a program was killed.
EveryoneProceeds ==
    \A p \in Proc : pc[p] = "waiting"
        ~> (pc[p] # "waiting" \/ \E q \in Proc : pc[q] = "dead")

(***************************************************************************)
(* The inductive invariant.  Until there is a key nobody has left the      *)
(* critical section, so nobody has unlinked the name, so everybody waits   *)
(* for the same semaphore; once there is one nobody makes another.         *)
(***************************************************************************)

OneSemaphore ==
    /\ \A p \in Proc :
        /\ pc[p] \in {"start", "waiting", "failed"} \cup Inside
        /\ pc[p] \in {"waiting"} \cup Inside => sem[p] = named /\ named # NoSem
    /\ MutualExclusion
    /\ named # NoSem =>
        value[named] = IF \E p \in Proc : pc[p] \in Inside THEN 0 ELSE 1

NobodyCreates == \A p \in Proc : pc[p] # "creating"

IInv ==
    /\ TypeOK
    /\ Clean => /\ keys = 0 => OneSemaphore
                /\ keys = 1 => NobodyCreates
                /\ keys <= 1
=============================================================================
