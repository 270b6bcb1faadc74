------------------------- MODULE ModelServiceProofs -------------------------
(***************************************************************************)
(* The model service is proved safe for any set of managers, profiles and  *)
(* workloads, any number of launches and of deaths.  SInv collects what    *)
(* the transitions rely on while the watchers, the other managers and the  *)
(* processes move under them.                                              *)
(***************************************************************************)
EXTENDS ModelService, FiniteSetTheorems, TLAPS

\* A manager in a transition, or with a watcher, has a record in memory, and one
\* that is idle has nothing left of its last transition.
MemInv ==
    /\ \A m \in Managers : pc[m].at \notin {"idle", "dead"} => mem[m] # None
    /\ \A p \in watch : mem[Owner(p)] # None
    /\ \A m \in Managers : pc[m].at = "idle" => pc[m] = Idle

\* Where a transition has the fence's release function.
Fenced == {"hash", "spawn", "own", "stopFailed", "stopped", "catch", "release", "rmdir"}
Held(t) == /\ t.at \in Fenced => t.holds
           /\ t.holds => t.at \in Fenced \cup {"await", "mark"}
HoldInv == \A m \in Managers : Held(pc[m])

\* While nobody has died the fence belongs to one manager, which is between mkdir
\* and rmdir, and nobody finds a reason to evict it.
AllRunning == \A m \in Managers : Running(m)
Fencing(m) == pc[m].at = "claim" \/ pc[m].holds
FenceInv ==
    AllRunning =>
        /\ \A m, n \in Managers : Fencing(m) /\ Fencing(n) => m = n
        /\ \A m \in Managers : Fencing(m) =>
              fence.exists /\ fence.claim = IF pc[m].at \in {"claim", "rmdir"} THEN None ELSE m
        /\ fence.exists => \E m \in Managers : Fencing(m)
        /\ ~ fence.exists => fence.claim = None
        /\ ~ fence.aged
        /\ \A m \in Managers : pc[m].at \notin {"recover", "evict"}

\* What a manager may launch beside, and which process a transition is about: the
\* handle is replaced only when it is dead or gone, and until then it is either the
\* one the transition captured or was cleared by the watcher.
Starting == {"mkdir", "claim", "judge", "recover", "evict", "hash", "spawn"}
Targeting == {"await", "stopFailed", "inUse", "stopping"}
Handled(m) ==
    /\ handle[m] # None => Owner(handle[m]) = m /\ proc[handle[m]] # "none"
    /\ pc[m].at \in Starting => handle[m] = None \/ ~ Alive(handle[m])
    /\ pc[m].at = "own" => handle[m] # None /\ handle[m] \notin watch
    /\ pc[m].at \in Targeting => /\ pc[m].target # None /\ proc[pc[m].target] # "none"
                                /\ handle[m] \in {None, pc[m].target}
HandleInv == (\A p \in watch : proc[p] # "none") /\ \A m \in Managers : Handled(m)

SInv == TypeOK /\ MemInv /\ HoldInv /\ FenceInv /\ HandleInv /\ NoAbandonedProcess

-----------------------------------------------------------------------------
\* A record stays a record when it is advanced, adopted or marked as failed.
LEMMA RecordTypes ==
    ASSUME TypeOK, NEW m \in Managers, mem[m] # None
    PROVE  /\ mem[m] \in Record
           /\ \A r \in Record : advance(m, r) \in Record /\ advance(m, r).op = r.op
           /\ refreshLatest(m) \in Record /\ refreshLatest(m) \in {disk, mem[m]}
           /\ \A op \in Operation : FailedRecord(m, op) \in Record /\ FailedRecord(m, op).op = op
<1>1. mem[m] \in Record /\ disk \in {None} \cup Record
  BY DEF TypeOK
<1>2. ASSUME NEW r \in Record PROVE advance(m, r) \in Record /\ advance(m, r).op = r.op
  <2>1. Profile[m] \in {Profile[n] : n \in Managers}
    OBVIOUS
  <2>2. mem[m].rev + 1 \in Nat
    BY <1>1 DEF Record
  <2> QED
    BY <2>1, <2>2 DEF advance, Record
<1>3. refreshLatest(m) \in Record /\ refreshLatest(m) \in {disk, mem[m]}
  BY <1>1 DEF refreshLatest
<1>4. \A op \in Operation : [mem[m] EXCEPT !.op = op] \in Record /\ [mem[m] EXCEPT !.op = op].op = op
  BY <1>1 DEF Record
<1> QED
  BY <1>1, <1>2, <1>3, <1>4 DEF FailedRecord

\* Writing a record keeps the types of the file and of the memory.
LEMMA PersistType ==
    ASSUME TypeOK, NEW m \in Managers, NEW r \in Record, Persist(m, r)
    PROVE  /\ mem' \in [Managers -> {None} \cup Record] /\ disk' \in {None} \cup Record
           /\ mem' = [mem EXCEPT ![m] = r] /\ disk' = r
BY DEF TypeOK, Persist, writeJsonAtomic

\* Moving on keeps the type of the transitions, and touches only its own.
LEMMA GotoType ==
    ASSUME TypeOK, NEW m \in Managers, NEW place \in Places, Goto(m, place)
    PROVE  /\ pc' \in [Managers -> Transition]
           /\ \A n \in Managers : n # m => pc'[n] = pc[n]
           /\ pc'[m] = IF place = "idle" THEN Idle ELSE [pc[m] EXCEPT !.at = place]
<1>1. Idle \in Transition
  BY DEF Idle, Transition, Places
<1>2. pc[m] \in Transition
  BY DEF TypeOK
<1>3. [pc[m] EXCEPT !.at = place] \in Transition
  BY <1>2 DEF Transition
<1> QED
  BY <1>1, <1>3 DEF TypeOK, Goto

\* A record with the next revision, and with its owner kept or cleared, is a record.
LEMMA NextRevision ==
    ASSUME NEW r \in Record
    PROVE  /\ [r EXCEPT !.rev = @ + 1] \in Record /\ [r EXCEPT !.rev = @ + 1].op = r.op
           /\ \A o \in {None, r.own} : /\ [r EXCEPT !.rev = @ + 1, !.own = o] \in Record
                                    /\ [r EXCEPT !.rev = @ + 1, !.own = o].op = r.op
<1>1. r.rev + 1 \in Nat
  BY DEF Record
<1> QED
  BY <1>1 DEF Record

\* Completing whatever operation there is gives an operation.
LEMMA CompletedType ==
    ASSUME NEW m, mem[m] \in Record
    PROVE  completeCurrentOperation(m) \in Operation
<1>1. mem[m].op \in Operation
  BY DEF Record
<1>2. CASE mem[m].op = NoOp
  BY <1>2 DEF completeCurrentOperation, NoOp, Operation
<1>3. CASE mem[m].op # NoOp
  <2> DEFINE op == mem[m].op
  <2>1. [op EXCEPT !.status = "completed"] \in Operation
    BY <1>1, <1>3 DEF Operation
  <2> QED
    BY <1>1, <2>1 DEF completeCurrentOperation
<1> QED
  BY <1>2, <1>3

\* What the file operations on the fence leave is a fence.
LEMMA FenceTypes ==
    /\ NoFence \in FenceState /\ NewFence \in FenceState
    /\ \A f \in FenceState : /\ \A c \in {None} \cup Managers : [f EXCEPT !.claim = c] \in FenceState
                           /\ [f EXCEPT !.recovery = TRUE] \in FenceState
                           /\ [f EXCEPT !.aged = TRUE] \in FenceState
BY DEF NoFence, NewFence, FenceState

\* failStart writes a record and goes on to the release.
LEMMA FailStartType ==
    ASSUME TypeOK, NEW m \in Managers, mem[m] # None, FailStart(m)
    PROVE  \E r \in Record : Persist(m, r) /\ Goto(m, "release")
<1> DEFINE op == IF mem[m].op = NoOp THEN NoOp
                 ELSE [mem[m].op EXCEPT !.status = "failed"]
<1>1. mem[m].op \in Operation
  BY RecordTypes DEF Record
<1>2. op \in Operation
  BY <1>1 DEF Operation, NoOp
<1>3. FailedRecord(m, op) \in Record /\ FailedRecord(m, op).op = op
  BY <1>2, RecordTypes
<1> QED
  BY <1>2, <1>3 DEF FailStart

-----------------------------------------------------------------------------
\* A step of m writes at most one record, to its memory, the file or both.
Writes(m) ==
    \E r \in Record : mem' \in {mem, [mem EXCEPT ![m] = r]} /\ disk' \in {disk, r}

\* A manager that is idle or dead takes no step of a transition.
LEMMA Awake ==
    ASSUME NEW m \in Managers, Step(m)
    PROVE  pc[m].at \notin {"idle", "dead"}
BY DEF Step, InitialWrite, Refused, ProbeReachable, ObserveUnreachable, LoadUnreachable,
   ObserveReachable, MarkReachable, ExternalTimeout, MakeFence, ClaimFence, JudgeFence,
   RecoverFence, EvictFence, ReleaseFence, HashLaunch, Spawn, RecordOwnership, AwaitReady,
   AwaitExited, AwaitFails, StopFailedStart, StartTimedOut, CatchStart, UnloadCheck,
   UnloadRequest, UnloadDone, UnloadUnproven

\* A transition writes at most one record, to the file, to its memory or to both.
LEMMA RecordEffect ==
    ASSUME TypeOK, MemInv, HandleInv, NEW m \in Managers, Step(m)
    PROVE  Writes(m)
<1>r. mem[m] # None /\ mem[m] \in Record
  <2>1. pc[m].at \notin {"idle", "dead"}
    BY Awake
  <2> QED
    BY <2>1 DEF MemInv, TypeOK
<1>u. NoPersist \/ UNCHANGED <<mem, disk>> => Writes(m)
  BY <1>r DEF NoPersist, Writes
<1>1. CASE Refused(m) \/ ProbeReachable(m) \/ ObserveUnreachable(m) \/ MakeFence(m) \/
          ClaimFence(m) \/ JudgeFence(m) \/ RecoverFence(m) \/ EvictFence(m) \/
          ReleaseFence(m)
  BY <1>1, <1>u DEF Refused, ProbeReachable, ObserveUnreachable, MakeFence, ClaimFence,
     JudgeFence, RecoverFence, EvictFence, ReleaseFence
<1>2. ASSUME InitialWrite(m) PROVE Writes(m)
  BY <1>2, <1>r DEF InitialWrite, writeJsonAtomic, Writes
<1>3. ASSUME NEW r \in {"offline", "unknown"}, LoadUnreachable(m, r) PROVE Writes(m)
  <2>1. FailedRecord(m, mem[m].op) \in Record
    BY <1>r, RecordTypes DEF Record
  <2> QED
    BY <1>3, <2>1, <1>u, PersistType DEF LoadUnreachable, Fail, NoPersist, Writes
<1>4. ASSUME ExternalTimeout(m) PROVE Writes(m)
  <2>1. FailedRecord(m, mem[m].op) \in Record
    BY <1>r, RecordTypes DEF Record
  <2> QED
    BY <1>4, <2>1, <1>u, PersistType DEF ExternalTimeout, Fail, NoPersist, Writes
<1>5. ASSUME AwaitExited(m) PROVE Writes(m)
  <2>1. FailedRecord(m, mem[m].op) \in Record
    BY <1>r, RecordTypes DEF Record
  <2> QED
    BY <1>5, <2>1, <1>u, PersistType DEF AwaitExited, Fail, NoPersist, Writes
<1>6. ASSUME StartTimedOut(m) PROVE Writes(m)
  <2>1. FailedRecord(m, mem[m].op) \in Record
    BY <1>r, RecordTypes DEF Record
  <2> QED
    BY <1>6, <2>1, <1>u, PersistType DEF StartTimedOut, Fail, NoPersist, Writes
<1>7. ASSUME NEW why \in {"mismatch", "timeout"}, AwaitFails(m, why) PROVE Writes(m)
  <2>1. FailedRecord(m, mem[m].op) \in Record
    BY <1>r, RecordTypes DEF Record
  <2> QED
    BY <1>7, <2>1, <1>u, PersistType DEF AwaitFails, Fail, NoPersist, Writes
<1>8. ASSUME ObserveReachable(m) PROVE Writes(m)
  <2>1. refreshLatest(m) \in Record
    BY <1>r, RecordTypes, RecordAssumption 
  <2> QED
    BY <1>8, <2>1 DEF ObserveReachable, Writes
<1>9. ASSUME UnloadCheck(m) PROVE Writes(m)
  <2>1. refreshLatest(m) \in Record
    BY <1>r, RecordTypes, RecordAssumption 
  <2> QED
    BY <1>9, <2>1 DEF UnloadCheck, Writes
<1>10. ASSUME MarkReachable(m) PROVE Writes(m)
  <2> DEFINE r == [refreshLatest(m) EXCEPT !.rev = @ + 1]
  <2>1. refreshLatest(m) \in Record /\ refreshLatest(m) \in {disk, mem[m]}
    BY <1>r, RecordTypes
  <2>2. r \in Record /\ r.op = refreshLatest(m).op
    BY <2>1, NextRevision
  <2> HIDE DEF r
  <2>4. Persist(m, r)
    BY <1>10 DEF MarkReachable, r
  <2> QED
    BY <2>2, <2>4, PersistType DEF Writes
<1>11. ASSUME HashLaunch(m) PROVE Writes(m)
  <2>1. CASE FailStart(m)
    BY <2>1, <1>r, FailStartType, PersistType DEF Writes
  <2>2. CASE Persist(m, advance(m, [mem[m] EXCEPT !.op = StartOp]))
    <3>1. StartOp \in Operation
      BY DEF StartOp, Operation
    <3>2. FailedRecord(m, StartOp) \in Record /\ FailedRecord(m, StartOp).op = StartOp
      BY <3>1, <1>r, RecordTypes
    <3> QED
      BY <2>2, <3>1, <3>2, PersistType DEF FailedRecord, Writes
  <2> QED
    BY <1>11, <2>1, <2>2 DEF HashLaunch
<1>12. ASSUME Spawn(m) PROVE Writes(m)
  <2>1. CASE FailStart(m)
    BY <2>1, <1>r, FailStartType, PersistType DEF Writes
  <2> QED
    BY <1>12, <2>1, <1>u DEF Spawn, NoPersist
<1>13. ASSUME CatchStart(m) PROVE Writes(m)
  <2>1. CASE FailStart(m)
    BY <2>1, <1>r, FailStartType, PersistType DEF Writes
  <2> QED
    BY <1>13, <2>1, <1>u DEF CatchStart, NoPersist
<1>14. ASSUME RecordOwnership(m) PROVE Writes(m)
  <2>1. handle[m] \in Processes
    BY <1>14 DEF RecordOwnership, HandleInv, Handled, TypeOK
  <2> DEFINE s == [mem[m] EXCEPT !.own = handle[m]]
  <2>2. s \in Record /\ s.op = mem[m].op
    BY <2>1, <1>r DEF Record
  <2>3. advance(m, s) \in Record
    BY <2>2, <1>r, RecordTypes 
  <2> QED
    BY <1>14, <2>3, PersistType DEF RecordOwnership, Writes
<1>15. ASSUME AwaitReady(m) PROVE Writes(m)
  <2>1. completeCurrentOperation(m) \in Operation
    BY <1>r, CompletedType
  <2>3. FailedRecord(m, completeCurrentOperation(m)) \in Record
        /\ FailedRecord(m, completeCurrentOperation(m)).op = completeCurrentOperation(m)
    BY <2>1, <1>r, RecordTypes
  <2> QED
    BY <1>15, <2>3, PersistType DEF AwaitReady, FailedRecord, Writes
<1>16. ASSUME StopFailedStart(m) PROVE Writes(m)
  <2>1. [mem[m] EXCEPT !.own = None] \in Record /\ [mem[m] EXCEPT !.own = None].op = mem[m].op
    BY <1>r DEF Record
  <2> DEFINE s == [mem[m] EXCEPT !.own = None]
  <2> HIDE DEF s
  <2>2. advance(m, mem[m]) \in Record /\ advance(m, mem[m]).op = mem[m].op
    BY <1>r, RecordTypes
  <2>3. advance(m, s) \in Record /\ advance(m, s).op = mem[m].op
    BY <2>1, <1>r, RecordTypes DEF s
  <2> QED
    BY <1>16, <2>2, <2>3, PersistType DEF StopFailedStart, Writes, s
<1>17. ASSUME UnloadRequest(m) PROVE Writes(m)
  <2> DEFINE op == StopOp("requested")
  <2>2. op \in Operation
    BY DEF StopOp, Operation
  <2>3. FailedRecord(m, op) \in Record /\ FailedRecord(m, op).op = op
    BY <2>2, <1>r, RecordTypes
  <2> QED
    BY <1>17, <2>2, <2>3, <1>u, PersistType DEF UnloadRequest, FailedRecord, NoPersist,
       Writes
<1>18. ASSUME UnloadUnproven(m) PROVE Writes(m)
  <2> DEFINE op == StopOp("failed")
  <2>2. op \in Operation
    BY DEF StopOp, Operation
  <2>3. FailedRecord(m, op) \in Record /\ FailedRecord(m, op).op = op
    BY <2>2, <1>r, RecordTypes
  <2> QED
    BY <1>18, <2>2, <2>3, <1>u, PersistType DEF UnloadUnproven, FailedRecord, NoPersist,
       Writes
<1>19. ASSUME UnloadDone(m) PROVE Writes(m)
  <2> DEFINE op == StopOp("completed")
             s  == [mem[m] EXCEPT !.own = None, !.op = op]
  <2>1. op \in Operation
    BY DEF StopOp, Operation
  <2>2. s \in Record
    BY <2>1, <1>r DEF Record
  <2>3. advance(m, s) \in Record
    BY <2>2, <1>r, RecordTypes
  <2>4. Persist(m, advance(m, s))
    BY <1>19 DEF UnloadDone
  <2> HIDE DEF op, s
  <2> QED
    BY <2>3, <2>4, PersistType DEF Writes
<1> QED
  BY <1>1, <1>2, <1>3, <1>4, <1>5, <1>6, <1>7, <1>8, <1>9, <1>10, <1>11, <1>12, <1>13,
     <1>14, <1>15, <1>16, <1>17, <1>18, <1>19 DEF Step

-----------------------------------------------------------------------------
\* Where a step leaves its own transition: never dead, with nothing left over when it
\* is idle, and holding the fence only where startOwnedService does.
Moved(m) ==
    \E t \in Transition : /\ pc' = [pc EXCEPT ![m] = t] /\ t.at # "dead"
                          /\ t.at = "idle" => t = Idle
                          /\ Held(t)

\* Moving on by Goto, to a place that agrees with what the transition holds.
LEMMA GotoMoves ==
    ASSUME TypeOK, NEW m \in Managers, NEW place \in Places \ {"dead"}, Goto(m, place),
           place \in Fenced => pc[m].holds,
           pc[m].holds => place \in Fenced \cup {"await", "mark", "idle"}
    PROVE  Moved(m)
<1>1. pc[m] \in Transition /\ Idle \in Transition
  BY DEF TypeOK, Idle, Transition, Places
<1>2. [pc[m] EXCEPT !.at = place] \in Transition
  BY <1>1 DEF Transition
<1>3. CASE place = "idle"
  BY <1>1, <1>3 DEF Goto, Moved, Held, Idle, Fenced
<1>4. CASE place # "idle"
  <2> DEFINE t == [pc[m] EXCEPT !.at = place]
  <2>1. t.at = place /\ t.holds = pc[m].holds
    BY <1>1 DEF Transition
  <2>2. pc' = [pc EXCEPT ![m] = t]
    BY <1>4 DEF Goto
  <2> HIDE DEF t
  <2> QED
    BY <1>2, <1>4, <2>1, <2>2 DEF Moved, Held, t
<1> QED
  BY <1>3, <1>4

\* A transition moves only itself.
LEMMA PcEffect ==
    ASSUME TypeOK, HoldInv, HandleInv, NEW m \in Managers, Step(m)
    PROVE  Moved(m)
<1>t. pc[m] \in Transition /\ Held(pc[m])
  BY DEF TypeOK, HoldInv
<1> USE DEF Places, Fenced
<1>1. CASE \/ InitialWrite(m) \/ Refused(m) \/ ProbeReachable(m) \/ ObserveUnreachable(m)
           \/ ObserveReachable(m)
  BY <1>1, <1>t, GotoMoves DEF InitialWrite, Refused, ProbeReachable, ObserveUnreachable,
     ObserveReachable, Held
<1>2. CASE \/ MarkReachable(m) \/ ExternalTimeout(m) \/ AwaitReady(m) \/ AwaitExited(m) \/ StartTimedOut(m)
  <2>1. Goto(m, Done(m))
    BY <1>2 DEF MarkReachable, ExternalTimeout, AwaitReady, AwaitExited, StartTimedOut, Fail
  <2> QED
    BY <2>1, <1>t, GotoMoves DEF Done
<1>3. ASSUME NEW r \in {"offline", "unknown"}, LoadUnreachable(m, r) PROVE Moved(m)
  <2>1. CASE Goto(m, Done(m))
    BY <2>1, <1>t, GotoMoves DEF Done
  <2>2. CASE Goto(m, "mkdir")
    BY <1>3, <2>2, <1>t, GotoMoves DEF LoadUnreachable, Held
  <2>3. CASE pc' = [pc EXCEPT ![m].at = "await", ![m].target = handle[m]]
    <3> DEFINE t == [pc[m] EXCEPT !.at = "await", !.target = handle[m]]
    <3>1. t \in Transition /\ t.at = "await" /\ t.holds = pc[m].holds
      BY <1>t DEF TypeOK, Transition
    <3>2. pc' = [pc EXCEPT ![m] = t]
      BY <2>3
    <3> HIDE DEF t
    <3> QED
      BY <3>1, <3>2, <1>3 DEF Moved, Held
  <2> QED
    BY <1>3, <2>1, <2>2, <2>3 DEF LoadUnreachable, Fail
<1>4. CASE MakeFence(m) \/ JudgeFence(m) \/ RecoverFence(m) \/ EvictFence(m) \/ ReleaseFence(m)
  BY <1>4, <1>t, GotoMoves DEF MakeFence, JudgeFence, RecoverFence, EvictFence, ReleaseFence, Held
<1>5. CASE ClaimFence(m)
  <2>1. CASE pc' = [pc EXCEPT ![m].at = "hash", ![m].holds = TRUE]
    <3> DEFINE t == [pc[m] EXCEPT !.at = "hash", !.holds = TRUE]
    <3>1. t \in Transition /\ t.at = "hash" /\ t.holds
      BY <1>t DEF Transition
    <3>2. pc' = [pc EXCEPT ![m] = t]
      BY <2>1
    <3> HIDE DEF t
    <3> QED
      BY <3>1, <3>2 DEF Moved, Held
  <2> QED
    BY <1>5, <2>1, <1>t, GotoMoves DEF ClaimFence, Held
<1>6. CASE HashLaunch(m) \/ Spawn(m) \/ StopFailedStart(m) \/ CatchStart(m)
  BY <1>6, <1>t, GotoMoves DEF HashLaunch, Spawn, StopFailedStart, CatchStart, FailStart, Held
<1>7. CASE RecordOwnership(m)
  <2> DEFINE t == [pc[m] EXCEPT !.at = "await", !.target = handle[m]]
  <2>1. t \in Transition /\ t.at = "await" /\ t.holds = pc[m].holds
    BY <1>t DEF TypeOK, Transition
  <2>2. pc' = [pc EXCEPT ![m] = t]
    BY <1>7 DEF RecordOwnership
  <2> HIDE DEF t
  <2> QED
    BY <2>1, <2>2 DEF Moved, Held
<1>8. ASSUME NEW why \in {"mismatch", "timeout"}, AwaitFails(m, why) PROVE Moved(m)
  <2>1. CASE Goto(m, Done(m))
    BY <2>1, <1>t, GotoMoves DEF Done
  <2>2. CASE pc' = [pc EXCEPT ![m].why = why, ![m].at = IF pc[m].holds THEN "stopFailed" ELSE "mark"]
    <3> DEFINE place == IF pc[m].holds THEN "stopFailed" ELSE "mark"
               t == [pc[m] EXCEPT !.why = why, !.at = place]
    <3>1. t \in Transition /\ t.at = place /\ t.holds = pc[m].holds
      BY <1>t DEF Transition
    <3>2. pc' = [pc EXCEPT ![m] = t]
      BY <2>2
    <3> HIDE DEF t
    <3> QED
      BY <3>1, <3>2 DEF Moved, Held
  <2> QED
    BY <1>8, <2>1, <2>2 DEF AwaitFails, Fail
<1>9. CASE UnloadCheck(m)
  <2>1. CASE pc' = [pc EXCEPT ![m].at = "inUse", ![m].target = handle[m]]
    <3> DEFINE t == [pc[m] EXCEPT !.at = "inUse", !.target = handle[m]]
    <3>1. t \in Transition /\ t.at = "inUse" /\ t.holds = pc[m].holds
      BY <1>t DEF TypeOK, Transition
    <3>2. pc' = [pc EXCEPT ![m] = t]
      BY <2>1
    <3> HIDE DEF t
    <3> QED
      BY <1>9, <1>t, <3>1, <3>2 DEF UnloadCheck, Moved, Held
  <2> QED
    BY <1>9, <2>1, <1>t, GotoMoves DEF UnloadCheck, Held
<1>10. CASE UnloadRequest(m) \/ UnloadDone(m) \/ UnloadUnproven(m)
  BY <1>10, <1>t, GotoMoves DEF UnloadRequest, UnloadDone, UnloadUnproven, Held
<1> QED
  BY <1>1, <1>2, <1>3, <1>4, <1>5, <1>6, <1>7, <1>8, <1>9, <1>10 DEF Step

\* Which transitions touch the fence, the handle, the processes and the watchers.
LEMMA StepFrame ==
    ASSUME NEW m \in Managers, Step(m)
    PROVE  /\ UNCHANGED <<blocked, todo, late, ended>>
           /\ \/ UNCHANGED fence
              \/ MakeFence(m) \/ ClaimFence(m) \/ RecoverFence(m) \/ EvictFence(m) \/ ReleaseFence(m)
           /\ UNCHANGED <<handle, proc>> \/ Spawn(m) \/ StopFailedStart(m) \/ UnloadDone(m)
           /\ UNCHANGED watch \/ RecordOwnership(m)
BY DEF own, world, InitialWrite, Refused, ProbeReachable, ObserveUnreachable,
   LoadUnreachable, ObserveReachable, MarkReachable, ExternalTimeout, MakeFence, ClaimFence,
   JudgeFence, RecoverFence, EvictFence, ReleaseFence, HashLaunch, Spawn, RecordOwnership,
   AwaitReady, AwaitExited, AwaitFails, StopFailedStart, StartTimedOut, CatchStart,
   UnloadCheck, UnloadRequest, UnloadDone, UnloadUnproven, Step

-----------------------------------------------------------------------------
\* A transition keeps the types.
LEMMA TransitionTypes ==
    ASSUME TypeOK, MemInv, HoldInv, HandleInv, NEW m \in Managers, Step(m)
    PROVE  TypeOK'
<1>1. mem' \in [Managers -> {None} \cup Record] /\ disk' \in {None} \cup Record
  BY RecordEffect DEF Writes, TypeOK
<1>2. pc' \in [Managers -> Transition]
  BY PcEffect DEF Moved, TypeOK
<1>3. fence' \in FenceState
  <2>1. fence \in FenceState /\ NoFence \in FenceState /\ NewFence \in FenceState
    BY FenceTypes DEF TypeOK
  <2>2. /\ [fence EXCEPT !.claim = m] \in FenceState /\ [fence EXCEPT !.claim = None] \in FenceState
        /\ [fence EXCEPT !.recovery = TRUE] \in FenceState
    BY <2>1, FenceTypes
  <2> QED
    BY <2>1, <2>2, StepFrame DEF MakeFence, ClaimFence, RecoverFence, EvictFence, ReleaseFence
<1>4. /\ handle' \in [Managers -> {None} \cup Processes]
      /\ proc' \in [Processes -> {"none", "loading", "serving", "gone"}]
  <2>1. CASE UNCHANGED <<handle, proc>>
    BY <2>1 DEF TypeOK
  <2>2. CASE StopFailedStart(m) \/ UnloadDone(m)
    BY <2>2 DEF TypeOK, StopFailedStart, UnloadDone, world
  <2>3. ASSUME NEW p \in Unused(m), proc' = [proc EXCEPT ![p] = "loading"],
               handle' = [handle EXCEPT ![m] = p]
        PROVE  /\ handle' \in [Managers -> {None} \cup Processes]
               /\ proc' \in [Processes -> {"none", "loading", "serving", "gone"}]
    BY <2>3 DEF TypeOK, Unused
  <2> QED
    BY <2>1, <2>2, <2>3, StepFrame DEF Spawn
<1>5. watch' \subseteq Processes
  <2>1. CASE RecordOwnership(m)
    <3>1. handle[m] \in Processes
      BY <2>1 DEF RecordOwnership, HandleInv, Handled, TypeOK
    <3> QED
      BY <2>1, <3>1 DEF RecordOwnership, TypeOK
  <2> QED
    BY <2>1, StepFrame DEF TypeOK
<1> QED
  BY <1>1, <1>2, <1>3, <1>4, <1>5, StepFrame DEF TypeOK

\* Every step keeps the types.
LEMMA TypeStep ==
    ASSUME TypeOK, MemInv, HoldInv, HandleInv, [Next]_vars
    PROVE  TypeOK'
<1> USE DEF TypeOK, own, world
<1>1. ASSUME NEW m \in Managers, Step(m) PROVE TypeOK'
  BY <1>1, TransitionTypes
<1>2. ASSUME NEW m \in Managers, WatcherWrites(m) PROVE TypeOK'
  BY <1>2 DEF WatcherWrites, writeJsonAtomic
<1>3. ASSUME NEW m \in Managers, Initialize(m) PROVE TypeOK'
  <2>1. mem' \in [Managers -> {None} \cup Record]
    <3>1. blankRecord(m) \in Record
      <4>1. Profile[m] \in {Profile[n] : n \in Managers}
        OBVIOUS
      <4> QED
        BY <4>1 DEF blankRecord, Record, Operation
    <3>2. disk # None => \A o \in {None, disk.own} : [disk EXCEPT !.rev = @ + 1, !.own = o] \in Record
      BY NextRevision
    <3> QED
      BY <1>3, <3>1, <3>2 DEF Initialize
  <2>2. pc[m] \in Transition
    OBVIOUS
  <2>3. \A place \in {"begin", "init"} : [pc[m] EXCEPT !.call = "observe", !.at = place] \in Transition
    BY <2>2 DEF Transition, Places
  <2>4. pc' \in [Managers -> Transition]
    BY <1>3, <2>3 DEF Initialize
  <2>5. blocked' \in [Managers -> BOOLEAN]
    BY <1>3 DEF Initialize, ForeignOwner
  <2> QED
    BY <1>3, <2>1, <2>4, <2>5 DEF Initialize
<1>4. ASSUME NEW m \in Managers, Call(m) PROVE TypeOK'
  <2>1. pc[m] \in Transition
    OBVIOUS
  <2>2. todo[m] \in Seq({"load", "unload"}) /\ todo[m] # <<>>
    BY <1>4 DEF Call
  <2>3. Head(todo[m]) \in {"load", "unload"} /\ Tail(todo[m]) \in Seq({"load", "unload"})
    BY <2>2
  <2>4. [pc[m] EXCEPT !.at = "begin", !.call = Head(todo[m])] \in Transition
    BY <2>1, <2>3 DEF Transition, Places
  <2> QED
    BY <1>4, <2>3, <2>4 DEF Call
<1>5. ASSUME NEW m \in Managers, Die(m) PROVE TypeOK'
  <2>1. [Idle EXCEPT !.at = "dead"] \in Transition
    BY DEF Idle, Transition, Places
  <2> QED
    BY <1>5, <2>1 DEF Die
<1>6. ASSUME NEW p \in Processes, WatcherFires(p) PROVE TypeOK'
  <2>0. Owner(p) \in Managers
    BY DEF Owner, Processes
  <2>1. mem[Owner(p)] # None
    BY <1>6 DEF WatcherFires, MemInv
  <2>2. mem[Owner(p)] \in Record
    BY <2>0, <2>1
  <2>3. [mem[Owner(p)] EXCEPT !.own = None] \in Record
    BY <2>2 DEF Record
  <2>4. advance(Owner(p), [mem[Owner(p)] EXCEPT !.own = None]) \in Record
    BY <2>0, <2>1, <2>3, RecordTypes
  <2>5. /\ mem' \in [Managers -> {None} \cup Record] /\ late' \in [Managers -> {None} \cup Record]
        /\ handle' \in [Managers -> {None} \cup Processes] /\ watch' \subseteq Processes
    BY <1>6, <2>0, <2>4, ZenonT(40) DEF WatcherFires
  <2> QED
    BY <1>6, <2>5 DEF WatcherFires
<1>7. ASSUME NEW p \in Processes, Serve(p) \/ Exits(p) PROVE TypeOK'
  BY <1>7, ZenonT(40) DEF Serve, Exits
<1>8. ASSUME NEW p \in Processes, NEW s \in {"proven", "unproven"}, Completes(p, s) PROVE TypeOK'
  BY <1>8 DEF Completes
<1>9. CASE FenceAges
  BY <1>9, FenceTypes DEF FenceAges
<1>10. CASE UNCHANGED vars
  BY <1>10 DEF vars
<1> QED
  BY <1>1, <1>2, <1>3, <1>4, <1>5, <1>6, <1>7, <1>8, <1>9, <1>10 DEF Next, Watcher

\* A manager that is not idle has a record, and an idle one nothing left over.
LEMMA MemStep ==
    ASSUME TypeOK, MemInv, HoldInv, HandleInv, [Next]_vars
    PROVE  MemInv' /\ HoldInv'
<1> USE DEF MemInv, HoldInv
<1>1. ASSUME NEW m \in Managers, Step(m) PROVE MemInv' /\ HoldInv'
  <2>1. PICK r \in Record : mem' \in {mem, [mem EXCEPT ![m] = r]} /\ r # None
    BY <1>1, RecordEffect, RecordAssumption DEF Writes
  <2>2. PICK t \in Transition : /\ pc' = [pc EXCEPT ![m] = t] /\ t.at # "dead"
                                /\ t.at = "idle" => t = Idle
                                /\ Held(t)
    BY <1>1, PcEffect DEF Moved
  <2>3. mem[m] # None
    BY <1>1, Awake
  <2>4. watch' \subseteq watch \cup {handle[m]}
    BY <1>1, StepFrame DEF RecordOwnership
  <2>5. watch' # watch => handle[m] \in Processes /\ Owner(handle[m]) = m
    BY <1>1, StepFrame DEF RecordOwnership, HandleInv, Handled, TypeOK
  <2>6. \A p \in watch' : Owner(p) \in Managers /\ mem[Owner(p)] # None
    BY <2>3, <2>4, <2>5 DEF TypeOK, Owner, Processes
  <2> QED
    BY <2>1, <2>2, <2>3, <2>6 DEF TypeOK
<1>2. ASSUME NEW m \in Managers, WatcherWrites(m) PROVE MemInv' /\ HoldInv'
  BY <1>2 DEF WatcherWrites
<1>3. ASSUME NEW m \in Managers, Initialize(m) PROVE MemInv' /\ HoldInv'
  <2>1. mem'[m] # None
    <3>1. blankRecord(m) # None
      <4>1. Profile[m] \in {Profile[n] : n \in Managers}
        OBVIOUS
      <4>2. blankRecord(m) \in Record
        BY <4>1 DEF blankRecord, Record, Operation
      <4> QED
        BY <4>2, RecordAssumption
    <3>2. ASSUME disk # None, NEW o \in {None, disk.own}
          PROVE  [disk EXCEPT !.rev = @ + 1, !.own = o] # None
      <4>1. [disk EXCEPT !.rev = @ + 1, !.own = o] \in Record
        BY <3>2, NextRevision DEF TypeOK
      <4> QED
        BY <4>1, RecordAssumption
    <3> QED
      BY <1>3, <3>1, <3>2 DEF Initialize, TypeOK
  <2>2. \A n \in Managers \ {m} : mem'[n] = mem[n] /\ pc'[n] = pc[n]
    BY <1>3 DEF Initialize, TypeOK
  <2>3. pc'[m].at \in {"begin", "init"} /\ pc'[m].holds = pc[m].holds
    BY <1>3 DEF Initialize, TypeOK, Transition
  <2>4. Held(pc'[m])
    BY <1>3, <2>3 DEF Initialize, Held, Idle, Fenced
  <2> QED
    BY <1>3, <2>1, <2>2, <2>3, <2>4 DEF Initialize, TypeOK, Owner, Processes
<1>4. ASSUME NEW m \in Managers, Call(m) PROVE MemInv' /\ HoldInv'
  <2>1. pc'[m].at = "begin" /\ pc'[m].holds = pc[m].holds
    BY <1>4 DEF Call, TypeOK, Transition
  <2>2. Held(pc'[m])
    BY <1>4, <2>1 DEF Call, Held, Idle, Fenced
  <2>3. \A n \in Managers \ {m} : pc'[n] = pc[n]
    BY <1>4 DEF Call, TypeOK
  <2> QED
    BY <1>4, <2>1, <2>2, <2>3 DEF Call
<1>5. ASSUME NEW m \in Managers, Die(m) PROVE MemInv' /\ HoldInv'
  BY <1>5 DEF Die, TypeOK, Held, Idle, Fenced, Owner, Processes
<1>6. ASSUME NEW p \in Processes, WatcherFires(p) PROVE MemInv' /\ HoldInv'
  <2>1. Owner(p) \in Managers /\ mem[Owner(p)] \in Record
    BY <1>6 DEF WatcherFires, Owner, Processes, TypeOK
  <2>2. [mem[Owner(p)] EXCEPT !.own = None] \in Record
    BY <2>1 DEF Record
  <2>3. advance(Owner(p), [mem[Owner(p)] EXCEPT !.own = None]) # None
    BY <1>6, <2>1, <2>2, RecordTypes, RecordAssumption DEF WatcherFires
  <2>4. \A n \in Managers : mem[n] # None => mem'[n] # None
    BY <1>6, <2>1, <2>3 DEF WatcherFires, TypeOK
  <2>5. UNCHANGED pc /\ watch' \subseteq watch
    BY <1>6 DEF WatcherFires
  <2> QED
    BY <2>4, <2>5 DEF TypeOK, Owner, Processes
<1>7. ASSUME NEW p \in Processes, Serve(p) \/ Exits(p) PROVE MemInv' /\ HoldInv'
  BY <1>7 DEF Serve, Exits, own
<1>8. ASSUME NEW p \in Processes, NEW s \in {"proven", "unproven"}, Completes(p, s)
      PROVE  MemInv' /\ HoldInv'
  BY <1>8 DEF Completes, own
<1>9. CASE FenceAges \/ UNCHANGED vars
  BY <1>9 DEF FenceAges, own, vars
<1> QED
  BY <1>1, <1>2, <1>3, <1>4, <1>5, <1>6, <1>7, <1>8, <1>9 DEF Next, Watcher

\* Outside acquireStartFence and its release a transition keeps what it holds, and
\* it judges no fence to be evicted while everybody runs.
Fencers(m) == MakeFence(m) \/ ClaimFence(m) \/ RecoverFence(m) \/ EvictFence(m) \/ ReleaseFence(m)
LEMMA Unfenced ==
    ASSUME TypeOK, HoldInv, FenceInv, AllRunning, NEW m \in Managers, Step(m), ~ Fencers(m)
    PROVE  /\ pc'[m].holds = pc[m].holds
           /\ pc[m].at \notin {"claim", "rmdir"}
           /\ pc'[m].at \notin {"claim", "rmdir", "recover", "evict"}
<1> DEFINE Goal == /\ pc'[m].holds = pc[m].holds
                   /\ pc[m].at \notin {"claim", "rmdir"}
                   /\ pc'[m].at \notin {"claim", "rmdir", "recover", "evict"}
<1> SUFFICES Goal
  OBVIOUS
<1>t. pc[m] \in Transition /\ Held(pc[m]) /\ pc \in [Managers -> Transition]
  BY DEF TypeOK, HoldInv
<1>g. ASSUME NEW place \in Places \ {"claim", "rmdir", "recover", "evict"}, Goto(m, place),
             place = "idle" => ~ pc[m].holds,
             pc[m].at \notin {"claim", "rmdir"}
      PROVE  Goal
  <2>1. pc'[m] = IF place = "idle" THEN Idle ELSE [pc[m] EXCEPT !.at = place]
    BY <1>g, GotoType
  <2>2. CASE place = "idle"
    <3>1. pc[m].holds \in BOOLEAN
      BY <1>t DEF Transition
    <3>2. pc'[m].holds = FALSE /\ pc'[m].at = "idle"
      BY <2>1, <2>2 DEF Idle
    <3>3. pc'[m].holds = pc[m].holds
      BY <1>g, <2>2, <3>1, <3>2
    <3> QED
      BY <1>g, <3>2, <3>3
  <2>3. CASE place # "idle"
    BY <1>g, <1>t, <2>1, <2>3 DEF Transition
  <2> QED
    BY <2>2, <2>3
<1>d. ASSUME Goto(m, Done(m)), pc[m].at \notin {"claim", "rmdir"} PROVE Goal
  BY <1>d, <1>g DEF Done, Places
<1> HIDE DEF Goal
<1>1. CASE \/ InitialWrite(m) \/ Refused(m) \/ ProbeReachable(m) \/ ObserveUnreachable(m)
           \/ ObserveReachable(m) \/ UnloadRequest(m) \/ UnloadDone(m) \/ UnloadUnproven(m)
  BY <1>1, <1>t, <1>g DEF InitialWrite, Refused, ProbeReachable, ObserveUnreachable,
     ObserveReachable, UnloadRequest, UnloadDone, UnloadUnproven, Held, Fenced, Places
<1>2. CASE \/ MarkReachable(m) \/ ExternalTimeout(m) \/ AwaitReady(m) \/ AwaitExited(m) \/ StartTimedOut(m)
  BY <1>2, <1>d DEF MarkReachable, ExternalTimeout, AwaitReady, AwaitExited, StartTimedOut, Fail
<1>3. ASSUME NEW r \in {"offline", "unknown"}, LoadUnreachable(m, r) PROVE Goal
  <2>1. CASE pc' = [pc EXCEPT ![m].at = "await", ![m].target = handle[m]]
    BY <1>3, <2>1, <1>t DEF LoadUnreachable, Goal, Transition
  <2> QED
    BY <1>3, <2>1, <1>d, <1>g DEF LoadUnreachable, Fail, Places
<1>4. CASE HashLaunch(m) \/ Spawn(m) \/ StopFailedStart(m) \/ CatchStart(m)
  BY <1>4, <1>g DEF HashLaunch, Spawn, StopFailedStart, CatchStart, FailStart, Places
<1>5. CASE RecordOwnership(m)
  BY <1>5, <1>t DEF RecordOwnership, Goal, Transition
<1>6. ASSUME NEW why \in {"mismatch", "timeout"}, AwaitFails(m, why) PROVE Goal
  <2>1. CASE pc' = [pc EXCEPT ![m].why = why, ![m].at = IF pc[m].holds THEN "stopFailed" ELSE "mark"]
    BY <1>6, <2>1, <1>t DEF AwaitFails, Goal, Transition
  <2> QED
    BY <1>6, <2>1, <1>d DEF AwaitFails, Fail
<1>7. CASE UnloadCheck(m)
  <2>1. CASE pc' = [pc EXCEPT ![m].at = "inUse", ![m].target = handle[m]]
    BY <1>7, <2>1, <1>t DEF UnloadCheck, Goal, Transition
  <2> QED
    BY <1>7, <2>1, <1>t, <1>g DEF UnloadCheck, Held, Fenced, Places
<1>8. CASE JudgeFence(m)
  <2>1. ~ fence.aged /\ (readFence # None => Running(readFence))
    BY DEF FenceInv, AllRunning, readFence, TypeOK, FenceState
  <2> QED
    BY <1>8, <2>1, <1>t, <1>g DEF JudgeFence, Places
<1> QED
  BY <1>1, <1>2, <1>3, <1>4, <1>5, <1>6, <1>7, <1>8 DEF Step, Fencers, Goal

\* While everybody runs, the fence has one owner.
LEMMA FenceStep ==
    ASSUME TypeOK, MemInv, HoldInv, FenceInv, HandleInv, [Next]_vars
    PROVE  FenceInv'
<1> SUFFICES ASSUME AllRunning' PROVE FenceInv'
  BY DEF FenceInv
<1>1. ASSUME NEW m \in Managers, Step(m) PROVE FenceInv'
  <2>1. PICK t \in Transition : pc' = [pc EXCEPT ![m] = t] /\ t.at # "dead" /\ Held(t)
    BY <1>1, PcEffect DEF Moved
  <2>2. AllRunning /\ pc[m] \in Transition /\ Held(pc[m])
    BY <1>1, <2>1, Awake DEF TypeOK, HoldInv, AllRunning, Running
  <2>3. pc'[m] = t /\ \A n \in Managers \ {m} : pc'[n] = pc[n]
    BY <2>1 DEF TypeOK
  <2>4. fence \in FenceState /\ m # None /\ \A n \in Managers : n # None
    BY NoneAssumption DEF TypeOK
  <2>5. /\ pc[m].at \notin {"recover", "evict"}
        /\ ~ fence.exists => ~ Fencing(m) /\ \A n \in Managers : ~ Fencing(n)
        /\ \A n \in Managers : Fencing(m) /\ Fencing(n) => m = n
        /\ Fencing(m) => fence.exists
        /\ Fencing(m) => fence.claim = IF pc[m].at \in {"claim", "rmdir"} THEN None ELSE m
    BY <2>2 DEF FenceInv
  <2>6. CASE ~ Fencers(m)
    <3>1. /\ t.holds = pc[m].holds /\ pc[m].at \notin {"claim", "rmdir"}
          /\ t.at \notin {"claim", "rmdir", "recover", "evict"}
      BY <2>2, <2>3, <2>6, <1>1, Unfenced
    <3>2. UNCHANGED fence
      BY <1>1, <2>6, StepFrame DEF Fencers
    <3> QED
      BY <2>2, <2>3, <3>1, <3>2 DEF FenceInv, Fencing
  <2>7. CASE MakeFence(m)
    <3>0. ~ pc[m].holds /\ pc[m].at = "mkdir"
      BY <2>2, <2>7 DEF MakeFence, Held, Fenced
    <3>1. CASE ~ fence.exists /\ fence' = NewFence /\ Goto(m, "claim")
      <4>1. t.at = "claim" /\ ~ t.holds
        BY <2>2, <2>3, <3>0, <3>1 DEF Goto, TypeOK, Transition
      <4>2. fence'.exists /\ fence'.claim = None /\ ~ fence'.aged
        BY <3>1 DEF NewFence, NoFence
      <4> QED
        BY <2>2, <2>3, <2>5, <3>1, <4>1, <4>2 DEF FenceInv, Fencing
    <3>2. CASE UNCHANGED fence /\ (Goto(m, "judge") \/ Goto(m, "idle"))
      <4>1. t.at \in {"judge", "idle"} /\ ~ t.holds
        BY <2>2, <2>3, <3>0, <3>2 DEF Goto, TypeOK, Transition, Idle
      <4> QED
        BY <2>2, <2>3, <3>0, <3>2, <4>1 DEF FenceInv, Fencing
    <3> QED
      BY <2>7, <3>1, <3>2 DEF MakeFence
  <2>8. CASE ClaimFence(m)
    <3>1. fence.exists /\ fence.claim = None /\ pc[m].at = "claim"
      BY <2>5, <2>8 DEF ClaimFence, Fencing
    <3>2. fence' = [fence EXCEPT !.claim = m] /\ pc' = [pc EXCEPT ![m].at = "hash", ![m].holds = TRUE]
      BY <2>8, <3>1 DEF ClaimFence
    <3>3. t.at = "hash" /\ t.holds /\ fence'.exists = fence.exists /\ fence'.claim = m
          /\ fence'.aged = fence.aged
      BY <2>2, <2>3, <2>4, <3>2 DEF TypeOK, Transition, FenceState
    <3> QED
      BY <2>2, <2>3, <2>5, <3>1, <3>3 DEF FenceInv, Fencing
  <2>9. CASE RecoverFence(m) \/ EvictFence(m)
    BY <2>5, <2>9 DEF RecoverFence, EvictFence
  <2>10. CASE ReleaseFence(m)
    <3>0. pc[m].holds /\ pc[m].at \in {"release", "rmdir"}
      BY <2>2, <2>10 DEF ReleaseFence, Held, Fenced
    <3>1. CASE pc[m].at = "release"
      <4>1. fence' = [fence EXCEPT !.claim = None] /\ Goto(m, "rmdir")
        BY <2>5, <2>10, <3>0, <3>1 DEF ReleaseFence, readFence, Fencing
      <4>2. t.at = "rmdir" /\ t.holds /\ fence'.exists = fence.exists /\ fence'.claim = None
            /\ fence'.aged = fence.aged
        BY <2>2, <2>3, <2>4, <3>0, <4>1 DEF Goto, TypeOK, Transition, FenceState
      <4> QED
        BY <2>2, <2>3, <2>5, <3>0, <4>2 DEF FenceInv, Fencing
    <3>2. CASE pc[m].at = "rmdir"
      <4>1. fence' = NoFence /\ t = Idle
        BY <2>3, <2>10, <3>2, <2>2 DEF ReleaseFence, Goto, TypeOK
      <4>2. ~ fence'.exists /\ fence'.claim = None /\ ~ fence'.aged /\ t.at = "idle" /\ ~ t.holds
        BY <4>1 DEF NoFence, Idle
      <4> QED
        BY <2>2, <2>3, <2>5, <3>0, <4>2 DEF FenceInv, Fencing
    <3> QED
      BY <3>0, <3>1, <3>2
  <2> QED
    BY <2>6, <2>7, <2>8, <2>9, <2>10 DEF Fencers
<1>2. ASSUME NEW m \in Managers, Initialize(m) \/ Call(m) PROVE FenceInv'
  <2>0. pc[m] \in Transition /\ pc[m].at = "idle" /\ ~ pc[m].holds
    BY <1>2 DEF Initialize, Call, TypeOK, HoldInv, Held, Fenced
  <2>1. /\ ~ pc'[m].holds /\ pc[m].at = "idle" /\ ~ pc[m].holds
        /\ pc'[m].at \in {"begin", "init"}
        /\ UNCHANGED fence /\ \A n \in Managers \ {m} : pc'[n] = pc[n]
    <3>1. CASE Initialize(m)
      BY <2>0, <3>1 DEF Initialize, TypeOK, Transition
    <3>2. CASE Call(m)
      BY <2>0, <3>2 DEF Call, TypeOK, Transition
    <3> QED
      BY <1>2, <3>1, <3>2
  <2>2. AllRunning
    BY <2>1 DEF AllRunning, Running
  <2> QED
    BY <2>1, <2>2 DEF FenceInv, Fencing
<1>3. ASSUME NEW m \in Managers, Die(m) PROVE FenceInv'
  BY <1>3 DEF Die, TypeOK, AllRunning, Running, Idle
<1>4. CASE FenceAges
  <2>1. AllRunning /\ fence.exists /\ fence.claim = None /\ \A m \in Managers : pc[m].at \notin {"claim", "rmdir"}
    BY <1>4 DEF FenceAges, AllRunning, Running
  <2>2. PICK m \in Managers : Fencing(m) /\ fence.claim = m
    BY <2>1 DEF FenceInv
  <2> QED
    BY <2>1, <2>2, NoneAssumption
<1>5. CASE UNCHANGED <<fence, pc>>
  BY <1>5 DEF FenceInv, AllRunning, Running, Fencing
<1>6. ASSUME NEW p \in Processes,
             \/ WatcherFires(p) \/ Serve(p) \/ Exits(p) \/ \E s \in {"proven", "unproven"} : Completes(p, s)
      PROVE  UNCHANGED <<fence, pc>>
  BY <1>6 DEF WatcherFires, Serve, Exits, Completes
<1>7. ASSUME NEW m \in Managers, WatcherWrites(m) PROVE UNCHANGED <<fence, pc>>
  BY <1>7 DEF WatcherWrites
<1> QED
  BY <1>1, <1>2, <1>3, <1>4, <1>5, <1>6, <1>7 DEF Next, Watcher, vars

-----------------------------------------------------------------------------
\* What a step of one manager, or of a process, may do to the others' handles: their
\* processes do not come to life, and no process becomes unlaunched again.
LEMMA OtherHandles ==
    ASSUME TypeOK, NEW m, NEW n \in Managers, n # m, Handled(n),
           pc'[n] = pc[n], handle'[n] = handle[n],
           \A p \in Processes : proc[p] # "none" => proc'[p] # "none",
           \A p \in Processes : Alive(p)' => Alive(p) \/ Owner(p) = m,
           \A p \in watch' \ watch : Owner(p) = m
    PROVE  Handled(n)'
<1>1. handle[n] # None => handle[n] \in Processes
  BY DEF TypeOK
<1>2. pc[n].target # None => pc[n].target \in Processes
  BY DEF TypeOK, Transition
<1>3. handle[n] # None => Owner(handle[n]) # m
  BY DEF Handled
<1>4. handle'[n] # None => Owner(handle'[n]) = n /\ proc'[handle'[n]] # "none"
  <2> SUFFICES ASSUME handle[n] # None PROVE Owner(handle[n]) = n /\ proc'[handle[n]] # "none"
    OBVIOUS
  <2>1. handle[n] \in Processes /\ proc[handle[n]] # "none" /\ Owner(handle[n]) = n
    BY <1>1 DEF Handled
  <2> QED
    BY <2>1
<1>5. pc'[n].at \in Starting => handle'[n] = None \/ ~ Alive(handle[n])'
  BY <1>1, <1>3 DEF Handled, Alive
<1>6. pc'[n].at = "own" => handle'[n] # None /\ handle'[n] \notin watch'
  BY <1>3 DEF Handled
<1>7. pc'[n].at \in Targeting => /\ pc'[n].target # None /\ proc'[pc'[n].target] # "none"
                                /\ handle'[n] \in {None, pc'[n].target}
  <2> SUFFICES ASSUME pc[n].at \in Targeting
               PROVE  /\ pc[n].target # None /\ proc'[pc[n].target] # "none"
                      /\ handle[n] \in {None, pc[n].target}
    OBVIOUS
  <2>1. /\ pc[n].target \in Processes /\ proc[pc[n].target] # "none"
        /\ handle[n] \in {None, pc[n].target} /\ pc[n].target # None
    BY <1>2 DEF Handled
  <2> QED
    BY <2>1
<1> QED
  BY <1>4, <1>5, <1>6, <1>7 DEF Handled

\* The handle of a live process is kept, and a new process is launched only when there
\* is none: a step of a transition.
LEMMA HandleTransition ==
    ASSUME TypeOK, HoldInv, HandleInv, NoAbandonedProcess, NEW m \in Managers, Step(m)
    PROVE  HandleInv' /\ NoAbandonedProcess'
<1>t. pc[m] \in Transition /\ pc \in [Managers -> Transition] /\ Running(m)
  BY Awake DEF TypeOK, Running
<1>n. \A n \in Managers \ {m} : pc'[n] = pc[n]
  BY PcEffect DEF Moved, TypeOK
<1>h. Handled(m) /\ \A p \in watch : proc[p] # "none"
  BY DEF HandleInv
<1>o. \A p \in Processes : Owner(p) \in Managers /\ p # None
  BY NoneAssumption DEF Owner, Processes
<1>p. (handle[m] # None => handle[m] \in Processes) /\ (pc[m].target # None => pc[m].target \in Processes)
  BY <1>t DEF TypeOK, Transition
<1>r. ASSUME NEW n \in Managers, Running(n)' PROVE Running(n)
  BY <1>r, <1>n, <1>t DEF Running
\* where the processes and the handle stay, it is enough that the place agrees with them
<1>q. ASSUME UNCHANGED <<handle, proc>>, Handled(m)',
             watch' \subseteq watch \cup {p \in Processes : Owner(p) = m /\ proc[p] # "none"}
      PROVE  HandleInv' /\ NoAbandonedProcess'
  <2>1. \A n \in Managers \ {m} : Handled(n)'
    BY <1>q, <1>n, OtherHandles DEF Alive, HandleInv
  <2>2. \A p \in watch' : proc'[p] # "none"
    BY <1>q, <1>h
  <2>3. NoAbandonedProcess'
    BY <1>q, <1>r, <1>o, StepFrame DEF NoAbandonedProcess, Alive
  <2> QED
    BY <1>q, <2>1, <2>2, <2>3 DEF HandleInv
<1>1. CASE Spawn(m) /\ ~ UNCHANGED <<handle, proc>>
  <2>1. PICK p \in Unused(m) : /\ proc' = [proc EXCEPT ![p] = "loading"]
                               /\ handle' = [handle EXCEPT ![m] = p] /\ Goto(m, "own")
    BY <1>1 DEF Spawn
  <2>2. p \in Processes /\ Owner(p) = m /\ proc[p] = "none" /\ p \notin watch
    BY <1>h DEF Unused
  <2>3. pc'[m].at = "own" /\ UNCHANGED <<watch, ended>>
    BY <1>1, <2>1, <1>t DEF Spawn, Goto, Transition
  <2>4. /\ \A q \in Processes : proc'[q] = IF q = p THEN "loading" ELSE proc[q]
        /\ \A n \in Managers : handle'[n] = IF n = m THEN p ELSE handle[n]
    BY <2>1 DEF TypeOK
  <2>5. Handled(m)'
    BY <2>2, <2>3, <2>4, <1>o DEF Handled, Starting, Targeting
  <2>6. \A n \in Managers \ {m} : Handled(n)'
    BY <2>2, <2>3, <2>4, <1>n, OtherHandles DEF Alive, HandleInv
  <2>7. \A q \in watch' : proc'[q] # "none"
    BY <2>3, <2>4, <1>h DEF TypeOK
  <2>8. handle[m] = None \/ ~ Alive(handle[m])
    BY <1>1, <1>h DEF Spawn, Handled, Starting
  <2>9. NoAbandonedProcess'
    BY <2>2, <2>3, <2>4, <2>8, <1>r, <1>o DEF NoAbandonedProcess, Alive
  <2> QED
    BY <2>5, <2>6, <2>7, <2>9 DEF HandleInv
<1>2. CASE (StopFailedStart(m) \/ UnloadDone(m)) /\ ~ UNCHANGED <<handle, proc>>
  <2>1. /\ ProvenStop(m) /\ handle' = [handle EXCEPT ![m] = None] /\ pc[m].at \in Targeting
        /\ UNCHANGED <<watch, proc, ended>>
    BY <1>2 DEF StopFailedStart, UnloadDone, world, Targeting
  <2>2. pc'[m].at \in {"mark", "stopped", "catch", "idle"}
    BY <1>2, <1>t DEF StopFailedStart, UnloadDone, Goto, Transition, Idle
  <2>3. \A n \in Managers : handle'[n] = IF n = m THEN None ELSE handle[n]
    BY <2>1 DEF TypeOK
  <2>4. Handled(m)'
    BY <2>2, <2>3 DEF Handled, Starting, Targeting
  <2>5. \A n \in Managers \ {m} : Handled(n)'
    BY <2>1, <2>3, <1>n, OtherHandles DEF Alive, HandleInv
  <2>6. NoAbandonedProcess'
    BY <2>1, <2>3, <1>h, <1>r, <1>o DEF NoAbandonedProcess, ProvenStop, Handled, Alive
  <2> QED
    BY <2>1, <2>4, <2>5, <2>6, <1>h DEF HandleInv
<1>3. CASE RecordOwnership(m)
  <2>1. handle[m] \in Processes /\ Owner(handle[m]) = m /\ proc[handle[m]] # "none"
    BY <1>3, <1>h, <1>p DEF RecordOwnership, Handled
  <2>2. pc'[m].at = "await" /\ pc'[m].target = handle[m]
    BY <1>3, <1>t DEF RecordOwnership, Transition
  <2>3. UNCHANGED <<handle, proc>> /\ watch' = watch \cup {handle[m]}
    BY <1>3 DEF RecordOwnership, world
  <2>4. Handled(m)'
    BY <2>1, <2>2, <2>3, <1>o DEF Handled, Starting
  <2> QED
    BY <2>1, <2>3, <2>4, <1>q
<1>4. CASE UNCHANGED <<handle, proc, watch>> /\ ~ RecordOwnership(m)
  <2> SUFFICES Handled(m)'
    BY <1>4, <1>q
  <2> DEFINE Stays == \/ pc'[m].at \notin Starting \cup Targeting \cup {"own"}
                      \/ pc[m].at \in Starting /\ pc'[m].at \in Starting
                      \/ pc[m].at \in Targeting /\ pc'[m].at \in Targeting /\ pc'[m].target = pc[m].target
                      \/ handle[m] # None /\ pc'[m].at \in Targeting /\ pc'[m].target = handle[m]
                      \/ pc'[m].at = "mkdir" /\ (handle[m] = None \/ ~ Alive(handle[m]))
  <2>1. Stays => Handled(m)'
    BY <1>4, <1>h DEF Handled, Alive, Starting, Targeting
  <2>g. ASSUME NEW place \in Places, Goto(m, place)
        PROVE  pc'[m].at = place /\ (place # "idle" => pc'[m].target = pc[m].target)
    <3>1. pc'[m] = IF place = "idle" THEN Idle ELSE [pc[m] EXCEPT !.at = place]
      BY <2>g, GotoType
    <3> QED
      BY <3>1, <1>t DEF Idle, Transition
  <2> USE DEF Starting, Targeting, Places
  <2>2. CASE \/ InitialWrite(m) \/ Refused(m) \/ ProbeReachable(m) \/ ObserveUnreachable(m)
             \/ ObserveReachable(m) \/ MarkReachable(m) \/ ExternalTimeout(m) \/ AwaitReady(m)
             \/ AwaitExited(m) \/ StartTimedOut(m)
    BY <2>2, <2>g, <2>1 DEF InitialWrite, Refused, ProbeReachable, ObserveUnreachable,
       ObserveReachable, MarkReachable, ExternalTimeout, AwaitReady, AwaitExited,
       StartTimedOut, Fail, Done
  <2>3. ASSUME NEW r \in {"offline", "unknown"}, LoadUnreachable(m, r) PROVE Handled(m)'
    <3>1. CASE pc' = [pc EXCEPT ![m].at = "await", ![m].target = handle[m]] /\ handle[m] # None
      BY <3>1, <1>t, <2>1 DEF Transition
    <3>2. CASE Goto(m, "mkdir") /\ ~ (handle[m] # None /\ Alive(handle[m]))
      BY <3>2, <2>g, <2>1
    <3>3. CASE Fail(m)
      BY <3>3, <2>g, <2>1 DEF Fail, Done
    <3> QED
      BY <2>3, <3>1, <3>2, <3>3 DEF LoadUnreachable
  <2>4. CASE MakeFence(m) \/ JudgeFence(m) \/ RecoverFence(m) \/ EvictFence(m) \/ ReleaseFence(m)
    BY <2>4, <2>g, <2>1 DEF MakeFence, JudgeFence, RecoverFence, EvictFence, ReleaseFence
  <2>5. CASE ClaimFence(m)
    <3>1. CASE pc' = [pc EXCEPT ![m].at = "hash", ![m].holds = TRUE]
      BY <2>5, <3>1, <1>t, <2>1 DEF ClaimFence, Transition
    <3> QED
      BY <2>5, <3>1, <2>g, <2>1 DEF ClaimFence
  <2>6. CASE HashLaunch(m) \/ StopFailedStart(m) \/ CatchStart(m)
    BY <2>6, <2>g, <2>1 DEF HashLaunch, StopFailedStart, CatchStart, FailStart
  <2>7. CASE Spawn(m)
    BY <2>7, <1>4, <2>g, <2>1 DEF Spawn, Unused, FailStart, TypeOK
  <2>8. ASSUME NEW why \in {"mismatch", "timeout"}, AwaitFails(m, why) PROVE Handled(m)'
    <3>1. CASE pc' = [pc EXCEPT ![m].why = why, ![m].at = IF pc[m].holds THEN "stopFailed" ELSE "mark"]
      BY <2>8, <3>1, <1>t, <2>1 DEF AwaitFails, Transition
    <3> QED
      BY <2>8, <3>1, <2>g, <2>1 DEF AwaitFails, Fail, Done
  <2>9. CASE UnloadCheck(m)
    <3>1. CASE pc' = [pc EXCEPT ![m].at = "inUse", ![m].target = handle[m]] /\ handle[m] # None
      BY <3>1, <1>t, <2>1 DEF Transition
    <3> QED
      BY <2>9, <3>1, <2>g, <2>1 DEF UnloadCheck, canUnload
  <2>10. CASE UnloadRequest(m) \/ UnloadDone(m) \/ UnloadUnproven(m)
    BY <2>10, <2>g, <2>1 DEF UnloadRequest, UnloadDone, UnloadUnproven
  <2> QED
    BY <1>4, <2>2, <2>3, <2>4, <2>5, <2>6, <2>7, <2>8, <2>9, <2>10 DEF Step
<1> QED
  BY <1>1, <1>2, <1>3, <1>4, StepFrame

\* The watchers, the processes and the deaths keep the handles too.
LEMMA HandleStep ==
    ASSUME TypeOK, MemInv, HoldInv, HandleInv, NoAbandonedProcess, [Next]_vars
    PROVE  HandleInv' /\ NoAbandonedProcess'
<1>o. \A p \in Processes : Owner(p) \in Managers /\ p # None
  BY NoneAssumption DEF Owner, Processes
<1>h. /\ \A n \in Managers : handle[n] # None => handle[n] \in Processes
      /\ \A n \in Managers : pc[n] \in Transition
      /\ \A n \in Managers : pc[n].target # None => pc[n].target \in Processes
  BY DEF TypeOK, Transition
<1>1. ASSUME NEW m \in Managers, Step(m) PROVE HandleInv' /\ NoAbandonedProcess'
  BY <1>1, HandleTransition
<1>2. ASSUME NEW m \in Managers, Initialize(m) \/ Call(m) PROVE HandleInv' /\ NoAbandonedProcess'
  <2>1. UNCHANGED <<handle, watch, proc, ended>> /\ pc[m].at = "idle"
    BY <1>2 DEF Initialize, Call, world
  <2>2. pc'[m].at \in {"begin", "init"} /\ \A n \in Managers \ {m} : pc'[n] = pc[n]
    <3>1. CASE Initialize(m)
      BY <1>h, <3>1 DEF Initialize, TypeOK, Transition
    <3>2. CASE Call(m)
      BY <1>h, <3>2 DEF Call, TypeOK, Transition
    <3> QED
      BY <1>2, <3>1, <3>2
  <2>3. \A n \in Managers : Handled(n)'
    BY <2>1, <2>2 DEF HandleInv, Handled, Alive, Starting, Targeting
  <2>4. NoAbandonedProcess'
    BY <2>1, <2>2, <1>o DEF NoAbandonedProcess, Alive, Running
  <2> QED
    BY <2>1, <2>3, <2>4 DEF HandleInv
<1>3. ASSUME NEW m \in Managers, Die(m) PROVE HandleInv' /\ NoAbandonedProcess'
  <2>1. /\ UNCHANGED <<proc, ended>> /\ watch' \subseteq watch
        /\ \A n \in Managers : handle'[n] = IF n = m THEN None ELSE handle[n]
        /\ \A n \in Managers \ {m} : pc'[n] = pc[n]
        /\ pc'[m].at = "dead"
    BY <1>3 DEF Die, TypeOK, world, Idle
  <2>2. Handled(m)'
    BY <2>1 DEF Handled, Starting, Targeting
  <2>3. \A n \in Managers \ {m} : Handled(n)'
    BY <2>1, OtherHandles DEF Alive, HandleInv
  <2>4. NoAbandonedProcess'
    BY <2>1, <1>o DEF NoAbandonedProcess, Alive, Running
  <2> QED
    BY <2>1, <2>2, <2>3, <2>4 DEF HandleInv
<1>4. ASSUME NEW p \in Processes, WatcherFires(p) PROVE HandleInv' /\ NoAbandonedProcess'
  <2> DEFINE m == Owner(p)
  <2>0. m \in Managers
    BY <1>o
  <2>1. /\ UNCHANGED <<proc, ended, pc>> /\ watch' \subseteq watch /\ p \in watch /\ ended[p] # "no"
        /\ handle' = handle \/ (handle[m] = p /\ handle' = [handle EXCEPT ![m] = None])
    BY <1>4 DEF WatcherFires, world
  <2> HIDE DEF m
  <2>2. \A n \in Managers \ {m} : handle'[n] = handle[n]
    BY <2>1 DEF TypeOK
  <2>3. handle'[m] = handle[m] \/ (handle[m] = p /\ handle'[m] = None)
    BY <2>0, <2>1 DEF TypeOK
  <2>4. Handled(m)
    BY <2>0 DEF HandleInv
  <2>5. Handled(m)'
    BY <2>1, <2>3, <2>4 DEF Handled, Alive
  <2>6. \A n \in Managers \ {m} : Handled(n)'
    BY <2>1, <2>2, OtherHandles DEF Alive, HandleInv
  <2>7. NoAbandonedProcess'
    BY <2>1, <2>2, <2>3, <1>o DEF NoAbandonedProcess, Alive, Running
  <2> QED
    BY <2>1, <2>5, <2>6, <2>7 DEF HandleInv
<1>5. ASSUME NEW p \in Processes, Serve(p) \/ Exits(p) PROVE HandleInv' /\ NoAbandonedProcess'
  <2>1. UNCHANGED <<pc, handle, watch, ended>>
    BY <1>5 DEF Serve, Exits, own
  <2>2. Alive(p) /\ \E s \in {"serving", "gone"} : proc' = [proc EXCEPT ![p] = s]
    BY <1>5 DEF Serve, Exits, Alive
  <2>3. \A q \in Processes : (proc[q] # "none" => proc'[q] # "none") /\ (Alive(q)' => Alive(q))
    BY <2>2 DEF Alive, TypeOK
  <2>4. \A n \in Managers : Handled(n)'
    <3> SUFFICES ASSUME NEW n \in Managers PROVE Handled(n)'
      OBVIOUS
    <3>1. Handled(n)
      BY DEF HandleInv
    <3>2. handle[n] # None => proc[handle[n]] # "none" /\ proc'[handle[n]] # "none" /\ (Alive(handle[n])' => Alive(handle[n]))
      BY <2>1, <2>3, <3>1, <1>h DEF Handled, Alive
    <3>3. pc[n].at \in Targeting => pc[n].target # None /\ proc'[pc[n].target] # "none"
      BY <2>3, <3>1, <1>h DEF Handled
    <3> QED
      BY <2>1, <3>1, <3>2, <3>3 DEF Handled
  <2>5. NoAbandonedProcess'
    BY <2>1, <2>3, <1>o DEF NoAbandonedProcess, Running, Alive
  <2>6. \A q \in watch' : proc'[q] # "none"
    BY <2>1, <2>3 DEF HandleInv, TypeOK
  <2> QED
    BY <2>4, <2>5, <2>6 DEF HandleInv
<1>6. ASSUME NEW p \in Processes, NEW s \in {"proven", "unproven"}, Completes(p, s)
      PROVE  HandleInv' /\ NoAbandonedProcess'
  <2>1. UNCHANGED <<pc, handle, watch, proc>> /\ ended' = [ended EXCEPT ![p] = s]
    BY <1>6 DEF Completes, own
  <2>2. \A q \in Processes : ended'[q] = "no" => ended[q] = "no"
    BY <2>1 DEF TypeOK
  <2> QED
    BY <2>1, <2>2 DEF HandleInv, Handled, NoAbandonedProcess, Running, Alive
<1>7. CASE UNCHANGED <<pc, handle, watch, proc, ended>>
  BY <1>7 DEF HandleInv, Handled, NoAbandonedProcess, Running, Alive
<1>8. CASE FenceAges
  BY <1>7, <1>8 DEF FenceAges, own, world
<1>9. ASSUME NEW m \in Managers, WatcherWrites(m) PROVE HandleInv' /\ NoAbandonedProcess'
  BY <1>7, <1>9 DEF WatcherWrites, world
<1> QED
  BY <1>1, <1>2, <1>3, <1>4, <1>5, <1>6, <1>7, <1>8, <1>9 DEF Next, Watcher, vars

-----------------------------------------------------------------------------
\* The inductive invariant of the model service: it holds at the start and every
\* step of a manager, a watcher, a process or a death keeps it.
THEOREM ServiceInvariant == Spec => []SInv
<1>1. Init => SInv
  <2> SUFFICES ASSUME Init PROVE SInv
    OBVIOUS
  <2>1. TypeOK
    <3>1. Idle \in Transition
      BY DEF Idle, Transition, Places
    <3>2. todo \in [Managers -> Seq({"load", "unload"})]
      BY WorkloadsAssumption DEF Init
    <3> QED
      BY <3>1, <3>2, FenceTypes DEF Init, TypeOK
  <2>2. \A m \in Managers : pc[m] = Idle /\ handle[m] = None /\ mem[m] = None /\ late[m] = None
    BY DEF Init
  <2>3. MemInv /\ HoldInv
    BY <2>2 DEF Init, MemInv, HoldInv, Held, Idle, Fenced
  <2>4. FenceInv
    BY <2>2 DEF Init, FenceInv, Fencing, Idle, NoFence
  <2>5. HandleInv /\ NoAbandonedProcess
    BY <2>2 DEF Init, HandleInv, Handled, Idle, Starting, Targeting, NoAbandonedProcess, Alive
  <2> QED
    BY <2>1, <2>3, <2>4, <2>5 DEF SInv
<1>2. SInv /\ [Next]_vars => SInv'
  BY TypeStep, MemStep, FenceStep, HandleStep DEF SInv
<1> QED
  BY <1>1, <1>2, PTL DEF Spec

\* Type correctness of the model service.
THEOREM ModelServiceType == Spec => []TypeOK
BY ServiceInvariant, PTL DEF SInv

\* At most one manager is behind the start fence while nobody has died, for any number
\* of managers (acquireStartFence, manager.ts).
THEOREM FenceExcludes == Spec => []OneStarter
<1>1. SInv => OneStarter
  <2> SUFFICES ASSUME SInv, AllRunning PROVE Cardinality({m \in Managers : pc[m].holds}) <= 1
    BY DEF OneStarter, AllRunning
  <2> DEFINE H == {m \in Managers : pc[m].holds}
  <2>1. \A m, n \in H : m = n
    BY DEF SInv, FenceInv, Fencing
  <2>2. CASE H = {}
    BY <2>2, FS_EmptySet
  <2>3. CASE H # {}
    <3>1. PICK m : H = {m}
      BY <2>1, <2>3
    <3>2. Cardinality({m}) = 1
      BY FS_Singleton
    <3> QED
      BY <3>1, <3>2
  <2> QED
    BY <2>2, <2>3
<1> QED
  BY <1>1, ServiceInvariant, PTL

\* A live manager keeps the handle of every process that its guardian still supervises,
\* whatever watcher or failed stop runs beside its transition (ownedProcess, manager.ts).
THEOREM HandleIsKept == Spec => []NoAbandonedProcess
BY ServiceInvariant, PTL DEF SInv
=============================================================================
