--------------------------- MODULE DispatcherLease ---------------------------
(***************************************************************************)
(* The dispatcher lease: processes of one host elect the owner of the      *)
(* queue with a lock directory, and repair what dead processes leave, each *)
(* step of the protocol being one file-system operation.  A process is one *)
(* incarnation: a restarted dispatcher is another element of Procs.        *)
(* Heartbeat times and expiry are left out, for expiry decides nothing: a  *)
(* live owner keeps an expired lease, a dead one loses a fresh lease.      *)
(***************************************************************************)
EXTENDS Naturals

CONSTANTS Procs,           \* processes that may acquire or repair the lease
          Ids,             \* identities: directory birth times, UUIDs
          None,            \* no process, no identity
          MaxGeneration    \* bound: no lease of a higher generation is taken

ASSUME LeaseAssumption ==
    /\ None \notin Procs
    /\ None \notin Ids
    /\ MaxGeneration \in Nat

VARIABLES dir,        \* dispatcher.lock: its identity, its maker and its lease.json
          gen,        \* lease-generation.json; 0 when absent
          evidence,   \* lease-evidence: the tokens the preserved directories are filed under
          mutex,      \* dispatcher.reconcile.lock: instance and owner
          buried,     \* the mutex instances moved to reconciliation-locks
          pc,         \* where each process is; "dead" after a crash
          aim,        \* what it repairs the lease for
          seen,       \* the evidence token of its first inspection
          statId,     \* the directory identity its inspection in progress has read
          mine,       \* the instance of its own mutex
          rival,      \* the mutex it found in the way
          mygen       \* the generation of its lease

\* History, read by no action: the generations of all leases ever written.
VARIABLE issued

files == <<dir, gen, evidence, mutex, buried, issued>>
locals == <<aim, seen, statId, mine, rival, mygen>>
vars == <<files, pc, locals>>

NoDir   == [id |-> None, maker |-> None, by |-> None, gen |-> 0]
NoMutex == [inst |-> None, by |-> None]
NoToken == [id |-> None, by |-> None]

Dir   == [id : Ids, maker : Procs, by : Procs \cup {None}, gen : Nat]
Mutex == [inst : Ids, by : Procs]
Token == [id : Ids \cup {None}, by : Procs \cup {None}]

PC == {"idle", "stat", "read", "lock", "owner", "evict", "restat", "reread",
       "preserve", "unlock", "unlink", "generation", "write", "holding",
       "renew", "release", "move", "dead"}

TypeOK ==
    /\ dir \in Dir \cup {NoDir}
    /\ gen \in Nat
    /\ evidence \in SUBSET Token
    /\ mutex \in Mutex \cup {NoMutex}
    /\ buried \in SUBSET Ids
    /\ issued \in SUBSET Nat
    /\ pc \in [Procs -> PC]
    /\ aim \in [Procs -> {"acquire", "quarantine"}]
    /\ seen \in [Procs -> Token]
    /\ statId \in [Procs -> Ids \cup {None}]
    /\ mine \in [Procs -> Ids \cup {None}]
    /\ rival \in [Procs -> Mutex \cup {NoMutex}]
    /\ mygen \in [Procs -> Nat]

Init ==
    /\ dir = NoDir /\ gen = 0 /\ evidence = {} /\ mutex = NoMutex /\ buried = {} /\ issued = {}
    /\ pc = [p \in Procs |-> "idle"]
    /\ aim = [p \in Procs |-> "acquire"]
    /\ seen = [p \in Procs |-> NoToken]
    /\ statId = [p \in Procs |-> None]
    /\ mine = [p \in Procs |-> None]
    /\ rival = [p \in Procs |-> NoMutex]
    /\ mygen = [p \in Procs |-> 0]

-----------------------------------------------------------------------------
\* isProcessAlive: the operating system's answer.
Alive(p) == p # None /\ pc[p] # "dead"

Goto(p, l) == pc' = [pc EXCEPT ![p] = l]

\* Every variable of p that a finished call leaves behind is forgotten.
Forget(p) ==
    /\ aim' = [aim EXCEPT ![p] = "acquire"]
    /\ seen' = [seen EXCEPT ![p] = NoToken]
    /\ statId' = [statId EXCEPT ![p] = None]
    /\ mine' = [mine EXCEPT ![p] = None]
    /\ rival' = [rival EXCEPT ![p] = NoMutex]
    /\ mygen' = [mygen EXCEPT ![p] = 0]

\* The call returns without the lease, or throws.
GiveUp(p) == Goto(p, "idle") /\ Forget(p)

\* Identities nobody remembers: a new directory's birth time, a new UUID.
FreshDirs == {i \in Ids : /\ i # dir.id /\ \A t \in evidence : i # t.id
                          /\ \A p \in Procs : i # seen[p].id /\ i # statId[p]}
FreshInstances == {i \in Ids : /\ i # mutex.inst /\ i \notin buried
                               /\ \A p \in Procs : i # mine[p] /\ i # rival[p].inst}


\* Which of them is taken makes no difference.
New(fresh) == CHOOSE i \in fresh : TRUE

-----------------------------------------------------------------------------
(* acquireLease.                                                           *)

\* Seeded fault: mkdir is recursive, and finds no conflict with what exists.
MakeDirectory_Exists(p) ==
    /\ pc[p] = "idle"
    /\ gen < MaxGeneration
    /\ FreshDirs # {}
    /\ dir' = IF dir = NoDir THEN [id |-> New(FreshDirs), maker |-> p, by |-> None, gen |-> 0] ELSE dir
    /\ Goto(p, "generation")
    /\ UNCHANGED <<gen, evidence, mutex, buried, issued, locals>>

\* mkdir of the lock directory decides the election.
MakeDirectory(p) ==
    /\ pc[p] = "idle"
    /\ dir = NoDir
    /\ gen < MaxGeneration
    /\ FreshDirs # {}
    /\ dir' = [id |-> New(FreshDirs), maker |-> p, by |-> None, gen |-> 0]
    /\ Goto(p, "generation")
    /\ UNCHANGED <<gen, evidence, mutex, buried, issued, locals>>

\* EEXIST: inspect what is in the way; an owner's quarantine starts the same way.
StartInspection(p, purpose) ==
    /\ pc[p] = "idle"
    /\ dir # NoDir
    /\ aim' = [aim EXCEPT ![p] = purpose]
    /\ Goto(p, "stat")
    /\ UNCHANGED <<files, seen, statId, mine, rival, mygen>>

\* Seeded fault: the generation is taken and never stored.
TakeGeneration_Unstored(p) ==
    /\ pc[p] = "generation"
    /\ mygen' = [mygen EXCEPT ![p] = gen + 1]
    /\ Goto(p, "write")
    /\ UNCHANGED <<dir, gen, evidence, mutex, buried, issued, aim, seen, statId, mine, rival>>

\* nextLeaseGeneration.
TakeGeneration(p) ==
    /\ pc[p] = "generation"
    /\ gen' = gen + 1
    /\ mygen' = [mygen EXCEPT ![p] = gen + 1]
    /\ Goto(p, "write")
    /\ UNCHANGED <<dir, evidence, mutex, buried, issued, aim, seen, statId, mine, rival>>

\* writeJsonAtomic of lease.json, which recreates a missing directory.
PutLease(p) ==
    /\ FreshDirs # {}
    /\ dir' = IF dir = NoDir
              THEN [id |-> New(FreshDirs), maker |-> p, by |-> p, gen |-> mygen[p]]
              ELSE [dir EXCEPT !.by = p, !.gen = mygen[p]]

WriteLease(p) ==
    /\ pc[p] = "write"
    /\ PutLease(p)
    /\ issued' = issued \cup {mygen[p]}
    /\ Goto(p, "holding")
    /\ UNCHANGED <<gen, evidence, mutex, buried, locals>>

\* Storage fails while the lease is being made: the directory is removed.
InitializationFails(p) ==
    /\ pc[p] \in {"generation", "write"}
    /\ dir' = NoDir
    /\ GiveUp(p)
    /\ UNCHANGED <<gen, evidence, mutex, buried, issued>>

-----------------------------------------------------------------------------
(* inspectLease: stat of the directory, then read of lease.json.           *)

\* lease.json as a reader finds it now; None when there is none.
LeaseOwner == dir.by

Stat(p) ==
    /\ pc[p] = "stat"
    /\ IF dir = NoDir
       THEN GiveUp(p)
       ELSE /\ statId' = [statId EXCEPT ![p] = dir.id]
            /\ Goto(p, "read")
            /\ UNCHANGED <<aim, seen, mine, rival, mygen>>
    /\ UNCHANGED files

\* Seeded fault: an expired lease is taken for a dead owner's.
DeadOwner_Expired(by) == by # None

\* recoverable-dead-local: the owner is named and its process is absent.
DeadOwner(by) == by # None /\ ~Alive(by)

\* The owner approves the quarantine of a directory that has no lease.json
\* and outlived its grace period, having verified that no dispatcher is still
\* initializing it.
OwnerApproves == dir.by = None /\ \A q \in Procs : pc[q] \notin {"generation", "write"}

Read(p) ==
    /\ pc[p] = "read"
    /\ IF IF aim[p] = "acquire" THEN DeadOwner(LeaseOwner) ELSE OwnerApproves
       THEN /\ seen' = [seen EXCEPT ![p] = [id |-> statId[p], by |-> LeaseOwner]]
            /\ Goto(p, "lock")
            /\ UNCHANGED <<aim, statId, mine, rival, mygen>>
       ELSE GiveUp(p)
    /\ UNCHANGED files

-----------------------------------------------------------------------------
(* withLeaseRecoveryLock: the reconciliation mutex.                        *)

\* A directory that already holds owner.json is renamed into place.
TakeMutex(p) ==
    /\ pc[p] = "lock"
    /\ mutex = NoMutex
    /\ FreshInstances # {}
    /\ mutex' = [inst |-> New(FreshInstances), by |-> p]
    /\ mine' = [mine EXCEPT ![p] = New(FreshInstances)]
    /\ Goto(p, "restat")
    /\ UNCHANGED <<dir, gen, evidence, buried, issued, aim, seen, statId, rival, mygen>>

MutexTaken(p) ==
    /\ pc[p] = "lock"
    /\ mutex # NoMutex
    /\ Goto(p, "owner")
    /\ UNCHANGED <<files, locals>>

\* A live owner, or an owner that has just left, is a conflict.
ReadMutexOwner(p) ==
    /\ pc[p] = "owner"
    /\ IF mutex = NoMutex \/ Alive(mutex.by)
       THEN GiveUp(p)
       ELSE /\ rival' = [rival EXCEPT ![p] = mutex]
            /\ Goto(p, "evict")
            /\ UNCHANGED <<aim, seen, statId, mine, mygen>>
    /\ UNCHANGED files

\* Seeded fault: dead mutexes are removed, not filed under their instance.
EvictDeadMutex_Unfiled(p) ==
    /\ pc[p] = "evict"
    /\ mutex' = NoMutex
    /\ Goto(p, "lock")
    /\ UNCHANGED <<dir, gen, evidence, buried, issued, locals>>

\* preserveDeadReconciliationMutex: whatever mutex is there now is renamed to
\* the evidence path of the instance that was read; the rename fails when that
\* path exists.
EvictDeadMutex(p) ==
    /\ pc[p] = "evict"
    /\ IF mutex = NoMutex \/ rival[p].inst \in buried
       THEN GiveUp(p) /\ UNCHANGED <<mutex, buried>>
       ELSE /\ mutex' = NoMutex
            /\ buried' = buried \cup {rival[p].inst}
            /\ Goto(p, "lock")
            /\ UNCHANGED locals
    /\ UNCHANGED <<dir, gen, evidence, issued>>

\* The second inspection, under the mutex.
Restat(p) ==
    /\ pc[p] = "restat"
    /\ statId' = [statId EXCEPT ![p] = dir.id]
    /\ Goto(p, IF dir = NoDir THEN "unlock" ELSE "reread")
    /\ UNCHANGED <<files, aim, seen, mine, rival, mygen>>

\* Seeded fault: only the state is compared, not the evidence token.
Reread_Untokened(p) ==
    /\ pc[p] = "reread"
    /\ Goto(p, IF IF aim[p] = "acquire" THEN DeadOwner(LeaseOwner) ELSE LeaseOwner = None
               THEN "preserve" ELSE "unlock")
    /\ UNCHANGED <<files, locals>>

\* State and evidence token must be the ones first seen.
Reread(p) ==
    /\ pc[p] = "reread"
    /\ Goto(p, IF /\ seen[p] = [id |-> statId[p], by |-> LeaseOwner]
                  /\ aim[p] = "acquire" => DeadOwner(LeaseOwner)
               THEN "preserve" ELSE "unlock")
    /\ UNCHANGED <<files, locals>>

\* preserveLeaseDirectory: whatever directory is there now is renamed to the
\* evidence path of the token; the rename fails when that path exists.
PreserveLease(p) ==
    /\ pc[p] = "preserve"
    /\ IF dir = NoDir \/ seen[p] \in evidence
       THEN UNCHANGED <<dir, evidence>>
       ELSE dir' = NoDir /\ evidence' = evidence \cup {seen[p]}
    /\ Goto(p, "unlock")
    /\ UNCHANGED <<gen, mutex, buried, issued, locals>>

\* releaseReconciliationMutex: only one's own instance is renamed away.  The
\* recovery then calls acquireLease again, from its beginning.
CheckMutex(p) ==
    /\ pc[p] = "unlock"
    /\ IF mutex.inst = mine[p] THEN Goto(p, "unlink") /\ UNCHANGED locals ELSE GiveUp(p)
    /\ UNCHANGED files

\* Seeded fault: owner.json is deleted in place, before its directory.
UnlinkMutex_InPlace(p) ==
    /\ pc[p] = "unlink"
    /\ mutex' = [mutex EXCEPT !.by = None]
    /\ GiveUp(p)
    /\ UNCHANGED <<dir, gen, evidence, buried, issued>>

UnlinkMutex(p) ==
    /\ pc[p] = "unlink"
    /\ mutex' = NoMutex
    /\ GiveUp(p)
    /\ UNCHANGED <<dir, gen, evidence, buried, issued>>

-----------------------------------------------------------------------------
(* renewLease, releaseLease and the death of a process.                    *)

\* lease.json still is the lease p acquired.
SameLease(p) == dir.by = p /\ dir.gen = mygen[p]

\* A renewal reads lease.json and refuses to renew another lease ...
StartRenewal(p) ==
    /\ pc[p] = "holding"
    /\ IF SameLease(p) THEN Goto(p, "renew") /\ UNCHANGED locals ELSE GiveUp(p)
    /\ UNCHANGED files

\* ... and then writes it anew, whatever is there by now.
WriteRenewal(p) ==
    /\ pc[p] = "renew"
    /\ PutLease(p)
    /\ Goto(p, "holding")
    /\ UNCHANGED <<gen, evidence, mutex, buried, issued, locals>>

Release(p) ==
    /\ pc[p] = "holding"
    /\ Goto(p, "release")
    /\ UNCHANGED <<files, locals>>

\* Only the exact lease that was acquired is removed.
CheckLease(p) ==
    /\ pc[p] = "release"
    /\ IF SameLease(p) THEN Goto(p, "move") /\ UNCHANGED locals ELSE GiveUp(p)
    /\ UNCHANGED files

MoveLease(p) ==
    /\ pc[p] = "move"
    /\ dir' = NoDir
    /\ GiveUp(p)
    /\ UNCHANGED <<gen, evidence, mutex, buried, issued>>

Crash(p) ==
    /\ pc[p] # "dead"
    /\ Goto(p, "dead")
    /\ Forget(p)
    /\ UNCHANGED files

Next == \E p \in Procs :
    \/ MakeDirectory(p) \/ TakeGeneration(p) \/ WriteLease(p) \/ InitializationFails(p)
    \/ \E purpose \in {"acquire", "quarantine"} : StartInspection(p, purpose)
    \/ Stat(p) \/ Read(p)
    \/ TakeMutex(p) \/ MutexTaken(p) \/ ReadMutexOwner(p) \/ EvictDeadMutex(p)
    \/ Restat(p) \/ Reread(p) \/ PreserveLease(p) \/ CheckMutex(p) \/ UnlinkMutex(p)
    \/ StartRenewal(p) \/ WriteRenewal(p) \/ Release(p) \/ CheckLease(p) \/ MoveLease(p)
    \/ Crash(p)

Spec == Init /\ [][Next]_vars

-----------------------------------------------------------------------------
(* Properties.                                                             *)

\* p runs its dispatcher loop.
Owns(p) == pc[p] \in {"holding", "renew"}

\* Two live processes never both own the queue, however deaths, recoveries,
\* evictions of dead repairers and quarantines interleave.
MutualExclusion ==
    \A p, q \in Procs : Owns(p) /\ Owns(q) => p = q

\* A live owner keeps its lease: lease.json names it and its generation, so
\* that renewLease never finds the lease "no longer current".
LeaseIsNeverStolen ==
    \A p \in Procs : Owns(p) => SameLease(p)

\* At most one live process repairs at a time, even when two processes find
\* the same dead repairer's mutex and one of them acts on what it read long ago.
OneRepairer ==
    \A p, q \in Procs :
        pc[p] \in {"restat", "reread", "preserve"} /\ pc[q] \in {"restat", "reread", "preserve"}
        => p = q

\* Only what dead processes left is moved to the evidence: neither a live
\* owner's lease nor a directory a live process is still initializing.
OnlyTheDeadArePreserved ==
    [][evidence' # evidence => ~Alive(dir.maker) /\ ~Alive(dir.by)]_vars

\* Generations fence: every lease written has a higher generation than all
\* leases written before it.
GenerationsFence ==
    [][\A p \in Procs : pc[p] = "write" /\ pc'[p] = "holding"
                       => \A g \in issued : g < mygen[p]]_vars
=============================================================================
