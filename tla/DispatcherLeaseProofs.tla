------------------------ MODULE DispatcherLeaseProofs ------------------------
(***************************************************************************)
(* The lease protocol is proved correct for any set of processes, any set  *)
(* of identities and any bound on generations.  None of its properties is  *)
(* inductive; the invariant LInv says who may still touch the directory    *)
(* and the mutex, and what an inspection made long ago is still worth.     *)
(***************************************************************************)
EXTENDS DispatcherLease, TLAPS

Building  == {"generation", "write"}
Leased    == {"holding", "renew", "release", "move"}
Repairing == {"restat", "reread", "preserve", "unlock", "unlink"}
Judged    == {"lock", "owner", "evict", "restat", "reread", "preserve"}

\* The lock directory belongs to its maker: only the maker writes lease.json
\* into it, and a live maker is building it or holds the lease in it.
DirInv ==
    /\ dir # NoDir => dir.by \in {None, dir.maker}
    /\ \A p \in Procs : pc[p] \in Building => dir # NoDir /\ dir.maker = p /\ dir.by = None
    /\ \A p \in Procs : pc[p] \in Leased => dir # NoDir /\ dir.maker = p /\ SameLease(p)
    /\ dir # NoDir /\ Alive(dir.maker)
       => pc[dir.maker] \in IF dir.by = None THEN Building ELSE Leased

\* The mutex in place is the one its live owner made; whoever is about to
\* evict one has read a dead owner, whose mutex is either there or filed.
MutexInv ==
    /\ \A p \in Procs : pc[p] \in Repairing => mutex.by = p
    /\ \A p \in Procs : pc[p] = "evict" => /\ rival[p] # NoMutex /\ ~Alive(rival[p].by)
                                           /\ mutex = rival[p] \/ rival[p].inst \in buried

\* What an inspection concluded stays true of the directory it inspected: its
\* maker is dead.  A directory judged again under the mutex stays in place.
TokenInv ==
    /\ \A p \in Procs : pc[p] \in Judged /\ dir # NoDir /\ dir.id = seen[p].id
                        => ~Alive(dir.maker)
    /\ \A p \in Procs : pc[p] = "reread" /\ statId[p] = seen[p].id
                        => dir # NoDir /\ dir.id = seen[p].id
    /\ \A p \in Procs : pc[p] = "preserve" => dir # NoDir /\ dir.id = seen[p].id

\* A generation that is taken and not yet written exceeds all written ones.
GenerationInv ==
    /\ \A g \in issued : g <= gen
    /\ \A p \in Procs : pc[p] = "write" => mygen[p] <= gen /\ \A g \in issued : g < mygen[p]

LInv == TypeOK /\ DirInv /\ MutexInv /\ TokenInv /\ GenerationInv

-----------------------------------------------------------------------------
\* A new directory's identity is one that no inspection remembers.
LEMMA FreshDirectory ==
    ASSUME FreshDirs # {}
    PROVE  /\ New(FreshDirs) \in Ids
           /\ \A p \in Procs : New(FreshDirs) # seen[p].id /\ New(FreshDirs) # statId[p]
<1>1. New(FreshDirs) \in FreshDirs
  BY DEF New
<1> QED
  BY <1>1 DEF FreshDirs

\* A new mutex instance is an identity.
LEMMA FreshInstance ==
    ASSUME FreshInstances # {}
    PROVE  New(FreshInstances) \in Ids
<1>1. New(FreshInstances) \in FreshInstances
  BY DEF New
<1> QED
  BY <1>1 DEF FreshInstances

\* Leaving a call preserves the types of all local variables.
LEMMA ForgetType ==
    ASSUME TypeOK, NEW p \in Procs, Forget(p)
    PROVE  /\ aim' \in [Procs -> {"acquire", "quarantine"}]
           /\ seen' \in [Procs -> Token]
           /\ statId' \in [Procs -> Ids \cup {None}]
           /\ mine' \in [Procs -> Ids \cup {None}]
           /\ rival' \in [Procs -> Mutex \cup {NoMutex}]
           /\ mygen' \in [Procs -> Nat]
BY DEF TypeOK, Forget, NoToken, Token

-----------------------------------------------------------------------------
\* Type correctness: every action of every process preserves TypeOK.  That an
\* eviction files an instance, and not None, takes MutexInv.
LEMMA TypeStep ==
    ASSUME TypeOK, MutexInv, [Next]_vars
    PROVE  TypeOK'
<1> USE LeaseAssumption
<1>1. ASSUME NEW p \in Procs, MakeDirectory(p) PROVE TypeOK'
  BY <1>1, FreshDirectory DEF TypeOK, MakeDirectory, Goto, PC, Dir, locals
<1>2. ASSUME NEW p \in Procs, TakeGeneration(p) PROVE TypeOK'
  BY <1>2 DEF TypeOK, TakeGeneration, Goto, PC
<1>3. ASSUME NEW p \in Procs, PutLease(p) PROVE dir' \in Dir \cup {NoDir}
  BY <1>3, FreshDirectory DEF TypeOK, PutLease, Dir
<1>4. ASSUME NEW p \in Procs, WriteLease(p) PROVE TypeOK'
  BY <1>3, <1>4, ZenonT(40) DEF TypeOK, WriteLease, Goto, PC, locals
<1>5. ASSUME NEW p \in Procs, InitializationFails(p) PROVE TypeOK'
  BY <1>5, ForgetType DEF TypeOK, InitializationFails, GiveUp, Goto, PC
<1>6. ASSUME NEW p \in Procs, NEW purpose \in {"acquire", "quarantine"},
             StartInspection(p, purpose)
      PROVE  TypeOK'
  BY <1>6 DEF TypeOK, StartInspection, Goto, PC, files
<1>7. ASSUME NEW p \in Procs, Stat(p) PROVE TypeOK'
  BY <1>7, ForgetType DEF TypeOK, Stat, GiveUp, Goto, PC, files, Dir
<1>8. ASSUME NEW p \in Procs, Read(p) PROVE TypeOK'
  <2>1. LeaseOwner \in Procs \cup {None}
    BY DEF TypeOK, LeaseOwner, Dir, NoDir
  <2> QED
    BY <1>8, <2>1, ForgetType DEF TypeOK, Read, GiveUp, Goto, PC, files, Token
<1>9. ASSUME NEW p \in Procs, TakeMutex(p) PROVE TypeOK'
  BY <1>9, FreshInstance DEF TypeOK, TakeMutex, Goto, PC, Mutex
<1>10. ASSUME NEW p \in Procs, MutexTaken(p) PROVE TypeOK'
  BY <1>10 DEF TypeOK, MutexTaken, Goto, PC, files, locals
<1>11. ASSUME NEW p \in Procs, ReadMutexOwner(p) PROVE TypeOK'
  BY <1>11, ForgetType DEF TypeOK, ReadMutexOwner, GiveUp, Goto, PC, files
<1>12. ASSUME NEW p \in Procs, EvictDeadMutex(p) PROVE TypeOK'
  <2>1. CASE mutex = NoMutex \/ rival[p].inst \in buried
    BY <1>12, <2>1, ForgetType DEF TypeOK, EvictDeadMutex, GiveUp, Goto, PC
  <2>2. CASE ~(mutex = NoMutex \/ rival[p].inst \in buried)
    <3>1. mutex = rival[p]
      BY <1>12, <2>2 DEF EvictDeadMutex, MutexInv
    <3>2. rival[p].inst \in Ids
      BY <2>2, <3>1 DEF TypeOK, Mutex
    <3> QED
      BY <1>12, <2>2, <3>2 DEF TypeOK, EvictDeadMutex, Goto, PC, locals
  <2> QED
    BY <2>1, <2>2
<1>13. ASSUME NEW p \in Procs, Restat(p) PROVE TypeOK'
  BY <1>13 DEF TypeOK, Restat, Goto, PC, files, Dir, NoDir
<1>14. ASSUME NEW p \in Procs, Reread(p) PROVE TypeOK'
  BY <1>14 DEF TypeOK, Reread, Goto, PC, files, locals
<1>15. ASSUME NEW p \in Procs, PreserveLease(p) PROVE TypeOK'
  BY <1>15 DEF TypeOK, PreserveLease, Goto, PC, locals
<1>16. ASSUME NEW p \in Procs, CheckMutex(p) PROVE TypeOK'
  BY <1>16, ForgetType DEF TypeOK, CheckMutex, GiveUp, Goto, PC, files, locals
<1>17. ASSUME NEW p \in Procs, UnlinkMutex(p) PROVE TypeOK'
  BY <1>17, ForgetType DEF TypeOK, UnlinkMutex, GiveUp, Goto, PC
<1>18. ASSUME NEW p \in Procs, StartRenewal(p) PROVE TypeOK'
  BY <1>18, ForgetType DEF TypeOK, StartRenewal, GiveUp, Goto, PC, files, locals
<1>19. ASSUME NEW p \in Procs, WriteRenewal(p) PROVE TypeOK'
  BY <1>3, <1>19 DEF TypeOK, WriteRenewal, Goto, PC, locals
<1>20. ASSUME NEW p \in Procs, Release(p) PROVE TypeOK'
  BY <1>20 DEF TypeOK, Release, Goto, PC, files, locals
<1>21. ASSUME NEW p \in Procs, CheckLease(p) PROVE TypeOK'
  BY <1>21, ForgetType DEF TypeOK, CheckLease, GiveUp, Goto, PC, files, locals
<1>22. ASSUME NEW p \in Procs, MoveLease(p) PROVE TypeOK'
  BY <1>22, ForgetType DEF TypeOK, MoveLease, GiveUp, Goto, PC
<1>23. ASSUME NEW p \in Procs, Crash(p) PROVE TypeOK'
  BY <1>23, ForgetType DEF TypeOK, Crash, Goto, PC, files
<1>24. CASE UNCHANGED vars
  BY <1>24 DEF TypeOK, vars, files, locals
<1> QED
  BY <1>1, <1>2, <1>4, <1>5, <1>6, <1>7, <1>8, <1>9, <1>10, <1>11, <1>12, <1>13, <1>14,
     <1>15, <1>16, <1>17, <1>18, <1>19, <1>20, <1>21, <1>22, <1>23, <1>24 DEF Next

-----------------------------------------------------------------------------
\* What the steps of a repair have in common: p neither builds nor leases the
\* directory, before or after, and leaves it where it is.
Bystander(p) ==
    /\ dir' = dir
    /\ pc[p] \notin Building \cup Leased \cup {"dead"}
    /\ \E l \in PC \ (Building \cup Leased \cup {"dead"}) : pc' = [pc EXCEPT ![p] = l]
    /\ \A q \in Procs \ {p} : mygen'[q] = mygen[q]

\* DirInv is preserved: the directory is replaced only by its live maker, or
\* by the holder of the mutex once its maker is dead.
LEMMA DirStep ==
    ASSUME LInv, [Next]_vars
    PROVE  DirInv'
<1> USE LeaseAssumption DEF DirInv, Building, Leased
<1> TypeOK
  BY DEF LInv
<1> DirInv
  BY DEF LInv
<1> dir = NoDir \/ dir.maker \in Procs
  BY DEF TypeOK, Dir
<1>1. ASSUME NEW p \in Procs, MakeDirectory(p) PROVE DirInv'
  BY <1>1, FreshDirectory DEF TypeOK, MakeDirectory, Goto, NoDir, Alive, SameLease, locals
<1>2. ASSUME NEW p \in Procs, TakeGeneration(p) PROVE DirInv'
  BY <1>2 DEF TypeOK, TakeGeneration, Goto, Alive, SameLease
<1>3. ASSUME NEW p \in Procs, PutLease(p), dir # NoDir, dir.maker = p
      PROVE  dir' # NoDir /\ dir'.maker = p /\ dir'.by = p /\ dir'.gen = mygen[p]
  BY <1>3 DEF TypeOK, PutLease, Dir, NoDir
<1>4. ASSUME NEW p \in Procs, WriteLease(p) PROVE DirInv'
  BY <1>3, <1>4 DEF TypeOK, WriteLease, Goto, Alive, SameLease, locals
<1>5. ASSUME NEW p \in Procs, InitializationFails(p) PROVE DirInv'
  BY <1>5 DEF TypeOK, InitializationFails, GiveUp, Goto
<1>6. ASSUME NEW p \in Procs, Bystander(p) PROVE DirInv'
  BY <1>6 DEF TypeOK, Bystander, Alive, SameLease
<1>7. ASSUME NEW p \in Procs, NEW purpose \in {"acquire", "quarantine"},
             StartInspection(p, purpose)
      PROVE  Bystander(p)
  BY <1>7 DEF StartInspection, Bystander, Goto, PC, files
<1>8. ASSUME NEW p \in Procs, Stat(p) \/ Read(p) PROVE Bystander(p)
  BY <1>8 DEF TypeOK, Stat, Read, Bystander, GiveUp, Forget, Goto, PC, files
<1>9. ASSUME NEW p \in Procs, TakeMutex(p) \/ MutexTaken(p) \/ ReadMutexOwner(p)
      PROVE  Bystander(p)
  BY <1>9 DEF TypeOK, TakeMutex, MutexTaken, ReadMutexOwner, Bystander, GiveUp, Forget, Goto, PC, files, locals
<1>10. ASSUME NEW p \in Procs, EvictDeadMutex(p) PROVE Bystander(p)
  BY <1>10 DEF TypeOK, EvictDeadMutex, Bystander, GiveUp, Forget, Goto, PC, locals
<1>11. ASSUME NEW p \in Procs, Restat(p) \/ Reread(p) PROVE Bystander(p)
  BY <1>11 DEF Restat, Reread, Bystander, Goto, PC, files, locals
<1>12. ASSUME NEW p \in Procs, CheckMutex(p) \/ UnlinkMutex(p) PROVE Bystander(p)
  BY <1>12 DEF TypeOK, CheckMutex, UnlinkMutex, Bystander, GiveUp, Forget, Goto, PC, files, locals
<1>13. ASSUME NEW p \in Procs, PreserveLease(p) PROVE DirInv'
  <2>1. ~Alive(dir.maker)
    BY <1>13 DEF LInv, TokenInv, Judged, PreserveLease
  <2> QED
    BY <1>13, <2>1 DEF TypeOK, PreserveLease, Goto, Alive, SameLease, locals
<1>14. ASSUME NEW p \in Procs, StartRenewal(p) \/ CheckLease(p) PROVE DirInv'
  BY <1>14 DEF TypeOK, StartRenewal, CheckLease, GiveUp, Goto, Alive, SameLease, files, locals
<1>15. ASSUME NEW p \in Procs, WriteRenewal(p) PROVE DirInv'
  BY <1>3, <1>15 DEF TypeOK, WriteRenewal, Goto, Alive, SameLease, locals
<1>16. ASSUME NEW p \in Procs, Release(p) PROVE DirInv'
  BY <1>16 DEF TypeOK, Release, Goto, Alive, SameLease, files, locals
<1>17. ASSUME NEW p \in Procs, MoveLease(p) PROVE DirInv'
  BY <1>17 DEF TypeOK, MoveLease, GiveUp, Goto
<1>18. ASSUME NEW p \in Procs, Crash(p) PROVE DirInv'
  BY <1>18 DEF TypeOK, Crash, Forget, Goto, Alive, SameLease, files
<1>19. CASE UNCHANGED vars
  BY <1>19 DEF Alive, SameLease, vars, files, locals
<1> QED
  BY <1>1, <1>2, <1>4, <1>5, <1>6, <1>7, <1>8, <1>9, <1>10, <1>11, <1>12, <1>13, <1>14,
     <1>15, <1>16, <1>17, <1>18, <1>19 DEF Next

-----------------------------------------------------------------------------
\* The dead stay dead: a restarted dispatcher is another process.
LEMMA DeadStayDead ==
    ASSUME TypeOK, [Next]_vars, NEW q \in Procs \cup {None}, ~Alive(q)
    PROVE  ~Alive(q)'
<1> SUFFICES ASSUME q \in Procs, pc[q] = "dead"
             PROVE  pc'[q] = "dead"
  BY DEF Alive
<1>1. ASSUME NEW p \in Procs, NEW l, pc[p] # "dead", Goto(p, l) PROVE pc'[q] = "dead"
  BY <1>1 DEF TypeOK, Goto
<1>2. CASE UNCHANGED vars
  BY <1>2 DEF vars
<1>3. CASE Next
  <2> PICK p \in Procs :
        \/ MakeDirectory(p) \/ TakeGeneration(p) \/ WriteLease(p) \/ InitializationFails(p)
        \/ \E purpose \in {"acquire", "quarantine"} : StartInspection(p, purpose)
        \/ Stat(p) \/ Read(p)
        \/ TakeMutex(p) \/ MutexTaken(p) \/ ReadMutexOwner(p) \/ EvictDeadMutex(p)
        \/ Restat(p) \/ Reread(p) \/ PreserveLease(p) \/ CheckMutex(p) \/ UnlinkMutex(p)
        \/ StartRenewal(p) \/ WriteRenewal(p) \/ Release(p) \/ CheckLease(p) \/ MoveLease(p)
        \/ Crash(p)
    BY <1>3 DEF Next
  <2>1. CASE MakeDirectory(p) \/ TakeGeneration(p) \/ WriteLease(p) \/ InitializationFails(p)
    BY <1>1, <2>1 DEF MakeDirectory, TakeGeneration, WriteLease, InitializationFails, GiveUp
  <2>2. CASE \E purpose \in {"acquire", "quarantine"} : StartInspection(p, purpose)
    BY <1>1, <2>2 DEF StartInspection
  <2>3. CASE Stat(p) \/ Read(p) \/ TakeMutex(p) \/ MutexTaken(p)
    BY <1>1, <2>3 DEF Stat, Read, TakeMutex, MutexTaken, GiveUp
  <2>4. CASE ReadMutexOwner(p) \/ EvictDeadMutex(p) \/ Restat(p) \/ Reread(p)
    BY <1>1, <2>4 DEF ReadMutexOwner, EvictDeadMutex, Restat, Reread, GiveUp
  <2>5. CASE PreserveLease(p) \/ CheckMutex(p) \/ UnlinkMutex(p) \/ Crash(p)
    BY <1>1, <2>5 DEF PreserveLease, CheckMutex, UnlinkMutex, Crash, GiveUp
  <2>6. CASE \/ StartRenewal(p) \/ WriteRenewal(p) \/ Release(p) \/ CheckLease(p)
             \/ MoveLease(p)
    BY <1>1, <2>6 DEF StartRenewal, WriteRenewal, Release, CheckLease, MoveLease, GiveUp
  <2> QED
    BY <2>1, <2>2, <2>3, <2>4, <2>5, <2>6
<1> QED
  BY <1>2, <1>3

-----------------------------------------------------------------------------
\* What the steps outside the mutex have in common: p neither repairs nor
\* evicts, before or after, and the mutex stays as it is.
OutsideMutex(p) ==
    /\ UNCHANGED <<mutex, buried>>
    /\ pc[p] # "dead"
    /\ \E l \in PC \ (Repairing \cup {"evict"}) : pc' = [pc EXCEPT ![p] = l]
    /\ \A q \in Procs \ {p} : rival'[q] = rival[q]

\* MutexInv is preserved: a mutex is evicted only while it is the dead one
\* that was read, for a second eviction finds its evidence path taken.
LEMMA MutexStep ==
    ASSUME LInv, [Next]_vars
    PROVE  MutexInv'
<1> USE LeaseAssumption DEF MutexInv, Repairing
<1> TypeOK
  BY DEF LInv
<1> MutexInv
  BY DEF LInv
<1>a. \A q \in Procs : rival[q].by \in Procs \cup {None}
  BY DEF TypeOK, Mutex, NoMutex
<1>b. mutex.by \in Procs \cup {None}
  BY DEF TypeOK, Mutex, NoMutex
<1>c. \A r \in Procs \cup {None} : ~Alive(r) => ~Alive(r)'
  BY DeadStayDead
<1>1. ASSUME NEW p \in Procs, OutsideMutex(p) PROVE MutexInv'
  BY <1>a, <1>b, <1>c, <1>1 DEF TypeOK, OutsideMutex, Alive
<1>2. ASSUME NEW p \in Procs, MakeDirectory(p) \/ TakeGeneration(p) \/ WriteLease(p)
      PROVE  OutsideMutex(p)
  BY <1>2 DEF MakeDirectory, TakeGeneration, WriteLease, OutsideMutex, Goto, PC, locals
<1>3. ASSUME NEW p \in Procs, InitializationFails(p) \/ MoveLease(p) PROVE OutsideMutex(p)
  BY <1>3 DEF TypeOK, InitializationFails, MoveLease, OutsideMutex, GiveUp, Forget, Goto, PC
<1>4. ASSUME NEW p \in Procs, NEW purpose \in {"acquire", "quarantine"},
             StartInspection(p, purpose)
      PROVE  OutsideMutex(p)
  BY <1>4 DEF StartInspection, OutsideMutex, Goto, PC, files
<1>5. ASSUME NEW p \in Procs, Stat(p) \/ Read(p) PROVE OutsideMutex(p)
  BY <1>5 DEF TypeOK, Stat, Read, OutsideMutex, GiveUp, Forget, Goto, PC, files
<1>6. ASSUME NEW p \in Procs, MutexTaken(p) \/ Release(p) \/ WriteRenewal(p)
      PROVE  OutsideMutex(p)
  BY <1>6 DEF MutexTaken, Release, WriteRenewal, OutsideMutex, Goto, PC, files, locals
<1>7. ASSUME NEW p \in Procs, StartRenewal(p) \/ CheckLease(p) PROVE OutsideMutex(p)
  BY <1>7 DEF TypeOK, StartRenewal, CheckLease, OutsideMutex, GiveUp, Forget, Goto, PC, files, locals
<1>8. ASSUME NEW p \in Procs, TakeMutex(p) PROVE MutexInv'
  BY <1>a, <1>b, <1>c, <1>8 DEF TypeOK, TakeMutex, Goto, Alive, NoMutex
<1>9. ASSUME NEW p \in Procs, ReadMutexOwner(p) PROVE MutexInv'
  BY <1>a, <1>b, <1>c, <1>9 DEF TypeOK, ReadMutexOwner, GiveUp, Forget, Goto, Alive, files
<1>10. ASSUME NEW p \in Procs, EvictDeadMutex(p) PROVE MutexInv'
  <2>1. CASE mutex = NoMutex \/ rival[p].inst \in buried
    <3>1. OutsideMutex(p)
      BY <1>10, <2>1 DEF TypeOK, EvictDeadMutex, OutsideMutex, GiveUp, Forget, Goto, PC
    <3> QED
      BY <1>1, <3>1
  <2>2. CASE ~(mutex = NoMutex \/ rival[p].inst \in buried)
    <3>1. mutex = rival[p] /\ ~Alive(mutex.by)
      BY <1>10, <2>2 DEF EvictDeadMutex
    <3>2. \A q \in Procs : pc'[q] \notin Repairing
      BY <1>10, <2>2, <3>1 DEF TypeOK, EvictDeadMutex, Goto, Alive
    <3>3. \A q \in Procs : pc'[q] = "evict" => /\ rival'[q] # NoMutex /\ ~Alive(rival[q].by)'
                                                    /\ rival'[q].inst \in buried'
      BY <1>10, <2>2, <3>1, <1>a, <1>c DEF TypeOK, EvictDeadMutex, Goto, Alive, locals
    <3> QED
      BY <3>2, <3>3
  <2> QED
    BY <2>1, <2>2
<1>11. ASSUME NEW p \in Procs, Restat(p) \/ Reread(p) PROVE MutexInv'
  BY <1>a, <1>b, <1>c, <1>11 DEF TypeOK, Restat, Reread, Goto, Alive, files, locals
<1>12. ASSUME NEW p \in Procs, PreserveLease(p) PROVE MutexInv'
  BY <1>a, <1>b, <1>c, <1>12 DEF TypeOK, PreserveLease, Goto, Alive, locals
<1>13. ASSUME NEW p \in Procs, CheckMutex(p) PROVE MutexInv'
  BY <1>a, <1>b, <1>c, <1>13 DEF TypeOK, CheckMutex, GiveUp, Forget, Goto, Alive, files, locals
<1>14. ASSUME NEW p \in Procs, UnlinkMutex(p) PROVE MutexInv'
  BY <1>a, <1>b, <1>c, <1>14 DEF TypeOK, UnlinkMutex, GiveUp, Forget, Goto, Alive
<1>15. ASSUME NEW p \in Procs, Crash(p) PROVE MutexInv'
  BY <1>a, <1>b, <1>c, <1>15 DEF TypeOK, Crash, Forget, Goto, Alive, files
<1>16. CASE UNCHANGED vars
  BY <1>16 DEF Alive, vars, files, locals
<1> QED
  BY <1>1, <1>2, <1>3, <1>4, <1>5, <1>6, <1>7, <1>8, <1>9, <1>10, <1>11, <1>12, <1>13,
     <1>14, <1>15, <1>16 DEF Next

-----------------------------------------------------------------------------
\* What the steps that change no judgement have in common: the directory
\* keeps its identity and its maker, and p keeps the token it judged by.
SameJudgement(p) ==
    /\ dir' = NoDir <=> dir = NoDir
    /\ dir'.id = dir.id /\ dir'.maker = dir.maker
    /\ UNCHANGED seen
    /\ pc'[p] \notin {"reread", "preserve"} /\ (pc'[p] \in Judged => pc[p] \in Judged)
    /\ \A q \in Procs \ {p} : pc'[q] = pc[q] /\ statId'[q] = statId[q]

\* What the steps that end a call have in common.
LeavesCall(p) ==
    /\ UNCHANGED dir
    /\ \E l \in {"idle", "dead"} : Goto(p, l)
    /\ Forget(p)

\* TokenInv is preserved: a new directory has an identity nobody judged, and
\* a judged one has no live process left that would touch it, except the one
\* that holds the mutex.
LEMMA TokenStep ==
    ASSUME LInv, [Next]_vars
    PROVE  TokenInv'
<1> USE LeaseAssumption DEF TokenInv, Judged
<1> TypeOK
  BY DEF LInv
<1> TokenInv
  BY DEF LInv
<1>a. dir = NoDir \/ (dir.maker \in Procs /\ dir.by \in {None, dir.maker})
  BY DEF LInv, DirInv, TypeOK, Dir
<1>b. \A r \in Procs \cup {None} : ~Alive(r) => ~Alive(r)'
  BY DeadStayDead
<1>1. ASSUME NEW p \in Procs, SameJudgement(p) PROVE TokenInv'
  <2>1. dir # NoDir /\ ~Alive(dir.maker) => ~Alive(dir.maker)'
    BY <1>1, <1>a, <1>b DEF SameJudgement
  <2> QED
    BY <1>1, <2>1 DEF SameJudgement
<1>2. ASSUME NEW p \in Procs, LeavesCall(p) PROVE TokenInv'
  BY <1>2, <1>a, <1>b DEF TypeOK, LeavesCall, Goto, Forget
<1>3. ASSUME NEW p \in Procs, MakeDirectory(p) PROVE TokenInv'
  BY <1>3, FreshDirectory DEF TypeOK, MakeDirectory, Goto, locals
<1>4. ASSUME NEW p \in Procs, NEW purpose \in {"acquire", "quarantine"},
             StartInspection(p, purpose)
      PROVE  SameJudgement(p)
  BY <1>4 DEF TypeOK, StartInspection, SameJudgement, Goto, files
<1>5. ASSUME NEW p \in Procs, TakeGeneration(p) PROVE SameJudgement(p)
  BY <1>5 DEF TypeOK, TakeGeneration, SameJudgement, Goto
<1>6. ASSUME NEW p \in Procs, WriteLease(p) \/ WriteRenewal(p) PROVE SameJudgement(p)
  <2>1. dir # NoDir
    BY <1>6 DEF LInv, DirInv, Building, Leased, WriteLease, WriteRenewal
  <2>2. PutLease(p)
    BY <1>6 DEF WriteLease, WriteRenewal
  <2>3. dir' # NoDir /\ dir'.id = dir.id /\ dir'.maker = dir.maker
    BY <2>1, <2>2 DEF TypeOK, Dir, NoDir, PutLease
  <2> QED
    BY <1>6, <2>1, <2>3 DEF TypeOK, WriteLease, WriteRenewal, SameJudgement, Goto, locals
<1>7. ASSUME NEW p \in Procs, InitializationFails(p) \/ MoveLease(p) PROVE TokenInv'
  <2>1. Alive(dir.maker) /\ dir # NoDir /\ dir' = NoDir
    BY <1>7 DEF LInv, DirInv, Building, Leased, InitializationFails, MoveLease, Alive
  <2> QED
    BY <1>7, <2>1 DEF TypeOK, InitializationFails, MoveLease, GiveUp, Forget, Goto
<1>8. ASSUME NEW p \in Procs, Stat(p) PROVE TokenInv'
  <2>1. SameJudgement(p) \/ LeavesCall(p)
    BY <1>8 DEF TypeOK, Stat, SameJudgement, LeavesCall, GiveUp, Goto, files
  <2> QED
    BY <1>1, <1>2, <2>1
<1>9. ASSUME NEW p \in Procs, Read(p) PROVE TokenInv'
  <2>1. CASE IF aim[p] = "acquire" THEN DeadOwner(LeaseOwner) ELSE OwnerApproves
    <3>1. dir # NoDir => ~Alive(dir.maker)
      BY <2>1, <1>a DEF LInv, DirInv, Building, DeadOwner, LeaseOwner, OwnerApproves
    <3>2. dir' = dir /\ statId' = statId /\ pc' = [pc EXCEPT ![p] = "lock"]
          /\ \A q \in Procs \ {p} : seen'[q] = seen[q]
      BY <1>9, <2>1 DEF TypeOK, Read, Goto, files
    <3> QED
      BY <3>1, <3>2, <1>a, <1>b DEF TypeOK
  <2>2. CASE ~IF aim[p] = "acquire" THEN DeadOwner(LeaseOwner) ELSE OwnerApproves
    <3>1. LeavesCall(p)
      BY <1>9, <2>2 DEF Read, LeavesCall, GiveUp, files
    <3> QED
      BY <1>2, <3>1
  <2> QED
    BY <2>1, <2>2
<1>10. ASSUME NEW p \in Procs, TakeMutex(p) \/ MutexTaken(p) PROVE SameJudgement(p)
  BY <1>10 DEF TypeOK, TakeMutex, MutexTaken, SameJudgement, Goto, files, locals
<1>11. ASSUME NEW p \in Procs, ReadMutexOwner(p) \/ EvictDeadMutex(p)
       PROVE  SameJudgement(p) \/ LeavesCall(p)
  BY <1>11 DEF TypeOK, ReadMutexOwner, EvictDeadMutex, SameJudgement, LeavesCall, GiveUp, Goto, files, locals
<1>12. ASSUME NEW p \in Procs, Restat(p) PROVE TokenInv'
  BY <1>12, <1>a, <1>b DEF TypeOK, Restat, Goto, files
<1>13. ASSUME NEW p \in Procs, Reread(p) PROVE TokenInv'
  BY <1>13, <1>a, <1>b DEF TypeOK, Reread, Goto, files, locals
<1>14. ASSUME NEW p \in Procs, PreserveLease(p) PROVE TokenInv'
  <2>1. \A q \in Procs : q # p => pc[q] \notin {"reread", "preserve"}
    BY <1>14 DEF LInv, MutexInv, Repairing, PreserveLease
  <2> QED
    BY <1>14, <2>1, <1>a, <1>b DEF TypeOK, PreserveLease, Goto, locals
<1>15. ASSUME NEW p \in Procs, CheckMutex(p) PROVE SameJudgement(p) \/ LeavesCall(p)
  BY <1>15 DEF TypeOK, CheckMutex, SameJudgement, LeavesCall, GiveUp, Goto, files, locals
<1>16. ASSUME NEW p \in Procs, UnlinkMutex(p) \/ Crash(p) PROVE LeavesCall(p)
  BY <1>16 DEF UnlinkMutex, Crash, LeavesCall, GiveUp, files
<1>17. ASSUME NEW p \in Procs, StartRenewal(p) \/ CheckLease(p)
       PROVE  SameJudgement(p) \/ LeavesCall(p)
  BY <1>17 DEF TypeOK, StartRenewal, CheckLease, SameJudgement, LeavesCall, GiveUp, Goto, files, locals
<1>18. ASSUME NEW p \in Procs, Release(p) PROVE SameJudgement(p)
  BY <1>18 DEF TypeOK, Release, SameJudgement, Goto, files, locals
<1>19. CASE UNCHANGED vars
  BY <1>19 DEF Alive, vars, files, locals
<1> QED
  BY <1>1, <1>2, <1>3, <1>4, <1>5, <1>6, <1>7, <1>8, <1>9, <1>10, <1>11, <1>12, <1>13,
     <1>14, <1>15, <1>16, <1>17, <1>18, <1>19 DEF Next
-----------------------------------------------------------------------------
\* What all steps but three have in common: no generation is taken or written.
NoGeneration(p) ==
    /\ UNCHANGED <<gen, issued>>
    /\ pc'[p] # "write"
    /\ \A q \in Procs \ {p} : pc'[q] = pc[q] /\ mygen'[q] = mygen[q]

\* GenerationInv is preserved: only one process at a time builds the lease.
LEMMA GenerationStep ==
    ASSUME LInv, [Next]_vars
    PROVE  GenerationInv'
<1> USE DEF GenerationInv
<1> TypeOK
  BY DEF LInv
<1> GenerationInv
  BY DEF LInv
<1>1. ASSUME NEW p \in Procs, NoGeneration(p) PROVE GenerationInv'
  BY <1>1 DEF NoGeneration
<1>2. ASSUME NEW p \in Procs, TakeGeneration(p) PROVE GenerationInv'
  <2>1. \A g \in issued : g \in Nat /\ g < gen + 1
    BY DEF TypeOK
  <2> QED
    BY <1>2, <2>1 DEF TypeOK, TakeGeneration, Goto
<1>3. ASSUME NEW p \in Procs, WriteLease(p) PROVE GenerationInv'
  <2>1. \A q \in Procs : q # p => pc[q] # "write"
    BY <1>3 DEF LInv, DirInv, Building, WriteLease
  <2> QED
    BY <1>3, <2>1 DEF TypeOK, WriteLease, Goto, locals
<1>4. ASSUME NEW p \in Procs, MakeDirectory(p) \/ InitializationFails(p) \/ MoveLease(p)
      PROVE  NoGeneration(p)
  BY <1>4 DEF TypeOK, MakeDirectory, InitializationFails, MoveLease, NoGeneration, GiveUp, Forget, Goto, locals
<1>5. ASSUME NEW p \in Procs, NEW purpose \in {"acquire", "quarantine"},
             StartInspection(p, purpose)
      PROVE  NoGeneration(p)
  BY <1>5 DEF TypeOK, StartInspection, NoGeneration, Goto, files
<1>6. ASSUME NEW p \in Procs, Stat(p) \/ Read(p) PROVE NoGeneration(p)
  BY <1>6 DEF TypeOK, Stat, Read, NoGeneration, GiveUp, Forget, Goto, files
<1>7. ASSUME NEW p \in Procs, TakeMutex(p) \/ MutexTaken(p) PROVE NoGeneration(p)
  BY <1>7 DEF TypeOK, TakeMutex, MutexTaken, NoGeneration, Goto, files, locals
<1>8. ASSUME NEW p \in Procs, ReadMutexOwner(p) \/ EvictDeadMutex(p) PROVE NoGeneration(p)
  BY <1>8 DEF TypeOK, ReadMutexOwner, EvictDeadMutex, NoGeneration, GiveUp, Forget, Goto, files, locals
<1>9. ASSUME NEW p \in Procs, Restat(p) \/ Reread(p) \/ PreserveLease(p) PROVE NoGeneration(p)
  BY <1>9 DEF TypeOK, Restat, Reread, PreserveLease, NoGeneration, Goto, files, locals
<1>10. ASSUME NEW p \in Procs, CheckMutex(p) \/ UnlinkMutex(p) \/ Crash(p) PROVE NoGeneration(p)
  BY <1>10 DEF TypeOK, CheckMutex, UnlinkMutex, Crash, NoGeneration, GiveUp, Forget, Goto, files, locals
<1>11. ASSUME NEW p \in Procs, StartRenewal(p) \/ CheckLease(p) PROVE NoGeneration(p)
  BY <1>11 DEF TypeOK, StartRenewal, CheckLease, NoGeneration, GiveUp, Forget, Goto, files, locals
<1>12. ASSUME NEW p \in Procs, WriteRenewal(p) \/ Release(p) PROVE NoGeneration(p)
  BY <1>12 DEF TypeOK, WriteRenewal, Release, NoGeneration, Goto, files, locals
<1>13. CASE UNCHANGED vars
  BY <1>13 DEF vars, files, locals
<1> QED
  BY <1>1, <1>2, <1>3, <1>4, <1>5, <1>6, <1>7, <1>8, <1>9, <1>10, <1>11, <1>12, <1>13 DEF Next

-----------------------------------------------------------------------------
\* The inductive invariant holds in every reachable state of the protocol.
THEOREM LeaseInvariant == Spec => []LInv
<1>1. Init => LInv
  <2> SUFFICES ASSUME Init PROVE LInv
    OBVIOUS
  <2>1. TypeOK
    BY LeaseAssumption DEF Init, TypeOK, PC, Token, NoToken
  <2>2. DirInv
    BY DEF Init, DirInv, Building, Leased
  <2>3. MutexInv
    BY DEF Init, MutexInv, Repairing
  <2>4. TokenInv
    BY DEF Init, TokenInv, Judged
  <2>5. GenerationInv
    BY DEF Init, GenerationInv
  <2> QED
    BY <2>1, <2>2, <2>3, <2>4, <2>5 DEF LInv
<1>2. LInv /\ [Next]_vars => LInv'
  <2> SUFFICES ASSUME LInv, [Next]_vars PROVE LInv'
    OBVIOUS
  <2>1. TypeOK /\ MutexInv
    BY DEF LInv
  <2> QED
    BY <2>1, TypeStep, DirStep, MutexStep, TokenStep, GenerationStep DEF LInv
<1> QED
  BY <1>1, <1>2, PTL DEF Spec

\* Every variable of every process keeps its type.
THEOREM LeaseTypeOK == Spec => []TypeOK
<1>1. LInv => TypeOK
  BY DEF LInv
<1> QED
  BY <1>1, LeaseInvariant, PTL

\* Election: at most one live process runs the dispatcher, for any number of
\* processes and however deaths, recoveries and quarantines interleave.
THEOREM LeaseMutualExclusion == Spec => []MutualExclusion
<1>1. LInv => MutualExclusion
  BY DEF LInv, DirInv, MutualExclusion, Owns, Leased
<1> QED
  BY <1>1, LeaseInvariant, PTL

\* A live owner's lease is the one in place, so no renewal finds it gone.
THEOREM LeaseKept == Spec => []LeaseIsNeverStolen
<1>1. LInv => LeaseIsNeverStolen
  BY DEF LInv, DirInv, LeaseIsNeverStolen, Owns, Leased
<1> QED
  BY <1>1, LeaseInvariant, PTL

\* At most one live process repairs under the reconciliation mutex.
THEOREM LeaseOneRepairer == Spec => []OneRepairer
<1>1. LInv => OneRepairer
  BY DEF LInv, MutexInv, OneRepairer, Repairing
<1> QED
  BY <1>1, LeaseInvariant, PTL

\* The only directories moved to the evidence are those of dead processes.
THEOREM LeasePreservesTheDead == Spec => OnlyTheDeadArePreserved
<1>1. ASSUME LInv, [Next]_vars
      PROVE  [evidence' # evidence => ~Alive(dir.maker) /\ ~Alive(dir.by)]_vars
  <2> SUFFICES ASSUME evidence' # evidence
               PROVE  ~Alive(dir.maker) /\ ~Alive(dir.by)
    OBVIOUS
  <2>1. PICK p \in Procs : PreserveLease(p)
    BY <1>1 DEF Next, MakeDirectory, TakeGeneration, WriteLease, InitializationFails, StartInspection, Stat, Read, TakeMutex, MutexTaken, ReadMutexOwner, EvictDeadMutex, Restat, Reread, CheckMutex, UnlinkMutex, StartRenewal, WriteRenewal, Release, CheckLease, MoveLease, Crash, vars, files
  <2>2. dir # NoDir /\ ~Alive(dir.maker)
    BY <1>1, <2>1 DEF LInv, TokenInv, Judged, PreserveLease
  <2>3. dir.by \in {None, dir.maker}
    BY <1>1, <2>2 DEF LInv, DirInv
  <2> QED
    BY <2>2, <2>3 DEF Alive
<1> QED
  BY <1>1, LeaseInvariant, PTL DEF Spec, OnlyTheDeadArePreserved

\* Every lease written has a higher generation than all leases before it.
THEOREM LeaseGenerationsFence == Spec => GenerationsFence
<1>1. LInv => [\A p \in Procs : pc[p] = "write" /\ pc'[p] = "holding"
                               => \A g \in issued : g < mygen[p]]_vars
  BY DEF LInv, GenerationInv
<1> QED
  BY <1>1, LeaseInvariant, PTL DEF Spec, GenerationsFence
=============================================================================
