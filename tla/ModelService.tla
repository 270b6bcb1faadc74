---------------------------- MODULE ModelService ----------------------------
(***************************************************************************)
(* ModelServiceManager: several managers (one per console or MCP process)  *)
(* share one local model endpoint, one record file without                 *)
(* compare-and-swap, and a start fence made of a directory.  A manager is  *)
(* one incarnation: a restart is another member of Managers.  A model      *)
(* process is named by its manager and a number.                           *)
(*                                                                         *)
(* Every await of the code that reads or writes shared state ends an       *)
(* action.  The transitions of a manager are serialized (pc); the watcher  *)
(* of a process is not (watch, late).                                      *)
(***************************************************************************)
EXTENDS Naturals, FiniteSets, Sequences

CONSTANTS
    Managers,       \* the instances of ModelServiceManager
    Profile,        \* the fingerprint of each manager's profile
    Launchable,     \* the managers whose profile has a launch section
    Workloads,      \* what each manager may be asked to do: sequences of requests
    MaxLaunches,    \* bound on the processes each manager launches
    MaxDeaths,      \* bound on the managers that die
    None

ASSUME WorkloadsAssumption == Workloads \subseteq [Managers -> Seq({"load", "unload"})]
ASSUME MaxLaunchesAssumption == MaxLaunches \in Nat
ASSUME MaxDeathsAssumption == MaxDeaths \in Nat
ASSUME LaunchableAssumption == Launchable \subseteq Managers
ASSUME NoneAssumption == None \notin Managers \cup (Managers \X (1 .. MaxLaunches))

VARIABLES
    disk,       \* model-service.json
    fence,      \* the start-fence directory
    mem,        \* this.record of each manager
    handle,     \* this.ownedProcess
    blocked,    \* this.foreignOwnershipBlocked
    pc,         \* where the manager's transition has got to
    todo,       \* the requests the manager has still to get
    watch,      \* the processes whose completion observeUnexpectedExit awaits
    late,       \* the record that watcher is writing
    proc,       \* the operating system's truth about the model processes
    ended       \* what their guardians reported

vars == <<disk, fence, mem, handle, blocked, pc, todo, watch, late, proc, ended>>

own == <<handle, blocked, todo, watch, late>>
world == <<proc, ended>>

Processes == Managers \X (1 .. MaxLaunches)
Owner(p) == p[1]

\* The record's operation.
NoOp == [kind |-> "none", status |-> "none"]
Operation == {NoOp} \cup [kind : {"start", "stop"}, status : {"requested", "completed", "failed"}]
Record == [rev : Nat, profile : {Profile[m] : m \in Managers},
           own : {None} \cup Processes, op : Operation]
ASSUME RecordAssumption == None \notin Record

FenceState == [exists : BOOLEAN, claim : {None} \cup Managers, recovery : BOOLEAN, aged : BOOLEAN]
NoFence == [exists |-> FALSE, claim |-> None, recovery |-> FALSE, aged |-> FALSE]
NewFence == [NoFence EXCEPT !.exists = TRUE]

\* Where a transition is, and its locals: what was called, the handle it captured,
\* why a start failed, whether it has the fence's release function.
Idle == [at |-> "idle", call |-> "none", target |-> None, why |-> "none", holds |-> FALSE]

Places == {"idle", "dead", "init", "begin", "observe", "mark", "external", "mkdir", "claim", "judge",
           "recover", "evict", "release", "rmdir", "hash", "spawn", "own", "await", "stopFailed",
           "stopped", "catch", "inUse", "stopping"}
Transition == [at : Places, call : {"none", "observe", "load", "unload"},
               target : {None} \cup Processes, why : {"none", "mismatch", "timeout"}, holds : BOOLEAN]

TypeOK ==
    /\ disk \in {None} \cup Record
    /\ fence \in FenceState
    /\ mem \in [Managers -> {None} \cup Record]
    /\ handle \in [Managers -> {None} \cup Processes] /\ blocked \in [Managers -> BOOLEAN]
    /\ pc \in [Managers -> Transition]
    /\ todo \in [Managers -> Seq({"load", "unload"})]
    /\ watch \subseteq Processes
    /\ late \in [Managers -> {None} \cup Record]
    /\ proc \in [Processes -> {"none", "loading", "serving", "gone"}]
    /\ ended \in [Processes -> {"no", "proven", "unproven"}]

Init ==
    /\ disk = None /\ fence = NoFence
    /\ mem = [m \in Managers |-> None] /\ handle = [m \in Managers |-> None]
    /\ blocked = [m \in Managers |-> FALSE] /\ pc = [m \in Managers |-> Idle]
    /\ todo \in Workloads
    /\ watch = {} /\ late = [m \in Managers |-> None]
    /\ proc = [p \in Processes |-> "none"] /\ ended = [p \in Processes |-> "no"]

-----------------------------------------------------------------------------
(* Processes, the endpoint and the record                                  *)

Running(m) == pc[m].at # "dead"
Alive(p) == proc[p] \in {"loading", "serving"}
PortTaken == \E p \in Processes : proc[p] = "serving"

\* What a probe() that got no answer may report: only a refused connection counts
\* as offline.
Probe == IF PortTaken THEN {"unknown"} ELSE {"offline", "unknown"}

blankRecord(m) == [rev |-> 0, profile |-> Profile[m], own |-> None, op |-> NoOp]

\* advance(): the patched record, one revision on and under this profile.
advance(m, r) == [r EXCEPT !.rev = mem[m].rev + 1, !.profile = Profile[m]]

\* refreshLatest(): the file's record when it is this profile's and newer.
refreshLatest(m) ==
    IF disk # None /\ disk.profile = Profile[m] /\ disk.rev > mem[m].rev THEN disk ELSE mem[m]

Goto(m, place) ==
    pc' = [pc EXCEPT ![m] = IF place = "idle" THEN Idle ELSE [@ EXCEPT !.at = place]]

\* Where a transition ends: startOwnedService releases the fence in its finally.
Done(m) == IF pc[m].holds THEN "release" ELSE "idle"

\* this.record = ...; await this.persist(): the file is replaced whatever it holds.
\* A death in between is a death before it; only the watcher's write can be late.
writeJsonAtomic(r) == disk' = r
Persist(m, r) == mem' = [mem EXCEPT ![m] = r] /\ writeJsonAtomic(r)
NoPersist == UNCHANGED <<mem, disk>>

\* fail(): advances what this manager has in memory, without reading the file.
FailedRecord(m, op) == advance(m, [mem[m] EXCEPT !.op = op])
Fail(m) == Persist(m, FailedRecord(m, mem[m].op)) /\ Goto(m, Done(m))

-----------------------------------------------------------------------------
(* Requests, and initialize                                                *)

\* The owner's requests come after the observation that startControlConsole makes.
Call(m) ==
    /\ pc[m].at = "idle" /\ mem[m] # None /\ todo[m] # <<>>
    /\ todo' = [todo EXCEPT ![m] = Tail(@)]
    /\ pc' = [pc EXCEPT ![m].at = "begin", ![m].call = Head(todo[m])]
    /\ UNCHANGED <<disk, fence, mem, handle, blocked, watch, late, world>>

\* reconcilePreviousOwner on the record that was read: a live process of another
\* profile is left alone, a dead owner's record is brought up to date.
ForeignOwner(m) == disk # None /\ disk.profile # Profile[m] /\ disk.own # None /\ Alive(disk.own)
Orphaned(m) ==
    disk # None /\ disk.profile = Profile[m] /\ disk.own # None /\ ~ Running(Owner(disk.own))

\* startControlConsole observes first; initialize reads the file and has its result
\* in memory,
Initialize(m) ==
    /\ pc[m].at = "idle" /\ mem[m] = None /\ todo[m] # <<>>
    /\ blocked' = [blocked EXCEPT ![m] = ForeignOwner(m)]
    /\ mem' = [mem EXCEPT ![m] =
         IF disk = None THEN blankRecord(m)
         ELSE IF disk.profile # Profile[m] /\ ~ ForeignOwner(m) THEN blankRecord(m)
         ELSE IF Orphaned(m)
              THEN [disk EXCEPT !.rev = @ + 1,
                                !.own = IF Alive(@) THEN @ ELSE None]
         ELSE disk]
    /\ pc' = [pc EXCEPT ![m].call = "observe",
                        ![m].at = IF mem'[m] = disk THEN "begin" ELSE "init"]
    /\ UNCHANGED <<disk, fence, handle, todo, watch, late, world>>

\* and writes it unless it is what the file held.
InitialWrite(m) ==
    /\ pc[m].at = "init"
    /\ writeJsonAtomic(mem[m])
    /\ Goto(m, "begin")
    /\ UNCHANGED <<fence, mem, own, world>>

-----------------------------------------------------------------------------
(* observe and ensureReady                                                 *)

Refused(m) ==
    /\ pc[m].at = "begin" /\ pc[m].call # "unload" /\ blocked[m]
    /\ Goto(m, "idle")
    /\ UNCHANGED <<disk, fence, mem, own, world>>

\* A reachable endpoint, ready or not: the result is applied after refreshLatest.
ProbeReachable(m) ==
    /\ PortTaken
    /\ \/ pc[m].at = "begin" /\ pc[m].call # "unload" /\ ~ blocked[m]
       \/ pc[m].at = "external"
    /\ Goto(m, IF pc[m].call = "observe" \/ pc[m].at = "external" THEN "observe" ELSE "mark")
    /\ UNCHANGED <<disk, fence, mem, own, world>>

\* observeReady, observeMismatch: nothing is written.
ObserveReachable(m) ==
    /\ pc[m].at = "observe"
    /\ mem' = [mem EXCEPT ![m] = refreshLatest(m)]
    /\ Goto(m, "idle")
    /\ UNCHANGED <<disk, fence, own, world>>

\* markReady, markMismatch.
MarkReachable(m) ==
    /\ pc[m].at = "mark"
    /\ Persist(m, [refreshLatest(m) EXCEPT !.rev = @ + 1])
    /\ Goto(m, Done(m))
    /\ UNCHANGED <<fence, own, world>>

\* An endpoint that does not answer, or refuses: only the state shown changes.
ObserveUnreachable(m) ==
    /\ pc[m].at = "begin" /\ pc[m].call = "observe" /\ ~ blocked[m]
    /\ Goto(m, "idle")
    /\ UNCHANGED <<disk, fence, mem, own, world>>

\* Only a refused connection leads to a start, or back to a process that is loading.
LoadUnreachable(m, r) ==
    /\ pc[m].at = "begin" /\ pc[m].call = "load" /\ ~ blocked[m]
    /\ r \in Probe
    /\ LET loading == handle[m] # None /\ Alive(handle[m]) IN
       \/ r = "unknown" /\ Fail(m)
       \/ /\ r = "offline" /\ loading
          /\ pc' = [pc EXCEPT ![m].at = "await", ![m].target = handle[m]]
          /\ NoPersist
       \/ r = "offline" /\ ~ loading /\ m \in Launchable /\ Goto(m, "mkdir") /\ NoPersist
       \/ r = "offline" /\ ~ loading /\ m \notin Launchable /\ Fail(m)
    /\ UNCHANGED <<fence, own, world>>

\* waitForExternalStarter: its deadline.
ExternalTimeout(m) ==
    /\ pc[m].at = "external"
    /\ Fail(m)
    /\ UNCHANGED <<fence, own, world>>

-----------------------------------------------------------------------------
(* acquireStartFence                                                       *)

\* readFence(): the claim, or nothing when there is none to read.
readFence == fence.claim

\* Seeded fault: mkdir is recursive and does not fail on an existing fence.
MakeFence_recursive(m) ==
    /\ pc[m].at = "mkdir"
    /\ fence' = [fence EXCEPT !.exists = TRUE] /\ Goto(m, "claim")
    /\ UNCHANGED <<disk, mem, own, world>>

\* mkdir, or the twentieth attempt has failed.
MakeFence(m) ==
    /\ pc[m].at = "mkdir"
    /\ \/ ~ fence.exists /\ fence' = NewFence /\ Goto(m, "claim")
       \/ fence.exists /\ UNCHANGED fence /\ (Goto(m, "judge") \/ Goto(m, "idle"))
    /\ UNCHANGED <<disk, mem, own, world>>

\* claim.json is created exclusively in whatever directory has the name now; a
\* failure removes that directory, and one that says the file exists is taken for
\* a fence that is held.
ClaimFence(m) ==
    /\ pc[m].at = "claim"
    /\ \/ /\ fence.exists /\ fence.claim = None
          /\ fence' = [fence EXCEPT !.claim = m]
          /\ pc' = [pc EXCEPT ![m].at = "hash", ![m].holds = TRUE]
       \/ /\ fence.exists => fence.claim # None
          /\ fence' = NoFence
          /\ Goto(m, IF fence.exists THEN "judge" ELSE "idle")
    /\ UNCHANGED <<disk, mem, own, world>>

\* A live owner is waited for, a young fence without an owner looked at again.
JudgeFence(m) ==
    /\ pc[m].at = "judge"
    /\ Goto(m, IF readFence # None
               THEN IF Running(readFence) THEN "external" ELSE "recover"
               ELSE IF fence.aged THEN "recover" ELSE "mkdir")
    /\ UNCHANGED <<disk, fence, mem, own, world>>

\* recovery.claim, created exclusively in whatever directory has the name now.
RecoverFence(m) ==
    /\ pc[m].at = "recover"
    /\ IF fence.exists /\ ~ fence.recovery
       THEN fence' = [fence EXCEPT !.recovery = TRUE] /\ Goto(m, "evict")
       ELSE UNCHANGED fence /\ Goto(m, "external")
    /\ UNCHANGED <<disk, mem, own, world>>

EvictFence(m) ==
    /\ pc[m].at = "evict"
    /\ fence' = NoFence
    /\ Goto(m, "mkdir")
    /\ UNCHANGED <<disk, mem, own, world>>

\* The release function: rm removes claim.json first, then the directory.
ReleaseFence(m) ==
    /\ \/ /\ pc[m].at = "release" /\ readFence = m
          /\ fence' = [fence EXCEPT !.claim = None] /\ Goto(m, "rmdir")
       \/ pc[m].at = "release" /\ readFence # m /\ UNCHANGED fence /\ Goto(m, "idle")
       \/ pc[m].at = "rmdir" /\ fence' = NoFence /\ Goto(m, "idle")
    /\ UNCHANGED <<disk, mem, own, world>>

\* Two seconds pass.  Assumption: a live manager needs less than that between
\* mkdir and its claim, and between the two steps of a removal.
FenceAges ==
    /\ fence.exists /\ fence.claim = None /\ ~ fence.aged
    /\ \A m \in Managers : pc[m].at \notin {"claim", "rmdir"}
    /\ fence' = [fence EXCEPT !.aged = TRUE]
    /\ UNCHANGED <<disk, mem, pc, own, world>>

-----------------------------------------------------------------------------
(* startOwnedService behind the fence, and waitForReadiness                *)

StartOp == [kind |-> "start", status |-> "requested"]

\* failStart: the operation is marked failed, whatever it was.
FailStart(m) ==
    /\ Persist(m, FailedRecord(m, IF mem[m].op = NoOp THEN NoOp
                                  ELSE [mem[m].op EXCEPT !.status = "failed"]))
    /\ Goto(m, "release")

\* hashLaunchFiles, which may fail, and the record of the start.
HashLaunch(m) ==
    /\ pc[m].at = "hash"
    /\ \/ /\ Persist(m, advance(m, [mem[m] EXCEPT !.op = StartOp]))
          /\ Goto(m, "spawn")
       \/ FailStart(m)
    /\ UNCHANGED <<fence, own, world>>

Unused(m) == {p \in Processes : Owner(p) = m /\ proc[p] = "none"}

\* launchOwnedModelProcess: a process under a guardian, or an error.
Spawn(m) ==
    /\ pc[m].at = "spawn"
    /\ \/ \E p \in Unused(m) :
            /\ \A q \in Unused(m) : p[2] <= q[2]
            /\ proc' = [proc EXCEPT ![p] = "loading"]
            /\ handle' = [handle EXCEPT ![m] = p]
            /\ Goto(m, "own") /\ NoPersist
       \/ FailStart(m) /\ UNCHANGED <<proc, handle>>
    /\ UNCHANGED <<fence, blocked, todo, watch, late, ended>>

\* The ownership is recorded and observeUnexpectedExit started.
RecordOwnership(m) ==
    /\ pc[m].at = "own"
    /\ Persist(m, advance(m, [mem[m] EXCEPT !.own = handle[m]]))
    /\ watch' = watch \cup {handle[m]}
    /\ pc' = [pc EXCEPT ![m].at = "await", ![m].target = handle[m]]
    /\ UNCHANGED <<fence, handle, blocked, todo, late, world>>

\* Whatever operation the record has, also another manager's stop.
completeCurrentOperation(m) ==
    IF mem[m].op.status = "requested" THEN [mem[m].op EXCEPT !.status = "completed"]
    ELSE mem[m].op

AwaitReady(m) ==
    /\ pc[m].at = "await" /\ PortTaken
    /\ Persist(m, advance(m, [mem[m] EXCEPT !.op = completeCurrentOperation(m)]))
    /\ Goto(m, Done(m))
    /\ UNCHANGED <<fence, own, world>>

\* The endpoint is somebody else's or the deadline has passed: a process this
\* transition started is aborted first (its guardian then ends it: Exits).
AwaitFails(m, why) ==
    /\ pc[m].at = "await"
    /\ IF why = "mismatch" THEN PortTaken ELSE Alive(pc[m].target)
    /\ \/ /\ pc[m].holds \/ why = "mismatch"
          /\ pc' = [pc EXCEPT ![m].why = why, ![m].at = IF pc[m].holds THEN "stopFailed" ELSE "mark"]
          /\ NoPersist
       \/ ~ pc[m].holds /\ why = "timeout" /\ Fail(m)
    /\ UNCHANGED <<fence, own, world>>

AwaitExited(m) ==
    /\ pc[m].at = "await" /\ ~ Alive(pc[m].target)
    /\ Fail(m)
    /\ UNCHANGED <<fence, own, world>>

\* stopWithTimeout resolved with closure proof.  The watcher of the process was
\* registered first and has run by then.
ProvenStop(m) ==
    ended[pc[m].target] = "proven" /\ ~ Alive(pc[m].target) /\ pc[m].target \notin watch

\* It resolved without proof, or the timer was first.
UnprovenStop(m) ==
    ended[pc[m].target] # "no" => ended[pc[m].target] = "unproven" /\ pc[m].target \notin watch

\* stopFailedStart: without proof it throws, after an error record.
StopFailedStart(m) ==
    /\ pc[m].at = "stopFailed"
    /\ \/ /\ ProvenStop(m)
          /\ handle' = [handle EXCEPT ![m] = None]
          /\ Persist(m, advance(m, [mem[m] EXCEPT !.own = None]))
          /\ Goto(m, IF pc[m].why = "mismatch" THEN "mark" ELSE "stopped")
       \/ /\ UnprovenStop(m)
          /\ Persist(m, advance(m, mem[m]))
          /\ Goto(m, "catch")
          /\ UNCHANGED handle
    /\ UNCHANGED <<fence, blocked, todo, watch, late, world>>

StartTimedOut(m) ==
    /\ pc[m].at = "stopped"
    /\ Fail(m)
    /\ UNCHANGED <<fence, own, world>>

\* The catch of startOwnedService: the unverified stop is already recorded, unless
\* the watcher has cleared it since.
CatchStart(m) ==
    /\ pc[m].at = "catch"
    /\ IF ended[pc[m].target] = "proven" /\ pc[m].target \notin watch
       THEN FailStart(m) ELSE Goto(m, "release") /\ NoPersist
    /\ UNCHANGED <<fence, own, world>>

-----------------------------------------------------------------------------
(* stop                                                                    *)

\* Authority is the handle and a record that names it together.
canUnload(m, record) == handle[m] # None /\ record.own = handle[m]

UnloadCheck(m) ==
    /\ pc[m].at = "begin" /\ pc[m].call = "unload"
    /\ mem' = [mem EXCEPT ![m] = refreshLatest(m)]
    /\ IF canUnload(m, refreshLatest(m))
       THEN pc' = [pc EXCEPT ![m].at = "inUse", ![m].target = handle[m]]
       ELSE Goto(m, "idle")
    /\ UNCHANGED <<disk, fence, own, world>>

\* Whoever has the port answers; an endpoint that does not leaves the usage unknown.
slotUsage == IF PortTaken THEN {"idle", "busy", "unknown"} ELSE {"unknown"}

StopOp(status) == [kind |-> "stop", status |-> status]

\* inUse or slotUsage refuses, or the stop is recorded and the process aborted.
UnloadRequest(m) ==
    /\ pc[m].at = "inUse"
    /\ \E inUse \in BOOLEAN, slots \in slotUsage :
         IF inUse \/ slots # "idle" THEN Goto(m, "idle") /\ NoPersist
         ELSE /\ Persist(m, advance(m, [mem[m] EXCEPT !.op = StopOp("requested")]))
              /\ Goto(m, "stopping")
    /\ UNCHANGED <<fence, own, world>>

UnloadDone(m) ==
    /\ pc[m].at = "stopping" /\ ProvenStop(m)
    /\ handle' = [handle EXCEPT ![m] = None]
    /\ Persist(m, advance(m, [mem[m] EXCEPT !.own = None, !.op = StopOp("completed")]))
    /\ Goto(m, "idle")
    /\ UNCHANGED <<fence, blocked, todo, watch, late, world>>

UnloadUnproven(m) ==
    /\ pc[m].at = "stopping" /\ UnprovenStop(m)
    /\ Persist(m, advance(m, [mem[m] EXCEPT !.op = StopOp("failed")]))
    /\ Goto(m, "idle")
    /\ UNCHANGED <<fence, own, world>>

-----------------------------------------------------------------------------
(* observeUnexpectedExit, beside whatever transition runs                  *)

StopRequested(m) == mem[m].op.kind = "stop" /\ mem[m].op.status = "requested"

\* Seeded fault: the watcher does not compare its handle with the current one.
WatcherFires_anyHandle(p) ==
    LET m == Owner(p)
        next == advance(m, [mem[m] EXCEPT !.own = None]) IN
    /\ p \in watch /\ ended[p] # "no" /\ late[m] = None
    /\ watch' = watch \ {p}
    /\ IF StopRequested(m) THEN UNCHANGED <<mem, handle, late>>
       ELSE /\ handle' = [handle EXCEPT ![m] = None]
            /\ mem' = [mem EXCEPT ![m] = next]
            /\ late' = [late EXCEPT ![m] = next]
    /\ UNCHANGED <<disk, fence, blocked, pc, todo, world>>

\* Its change is made at once, its write may be overtaken by the transition's.
WatcherFires(p) ==
    LET m == Owner(p)
        next == advance(m, [mem[m] EXCEPT !.own = None]) IN
    /\ p \in watch /\ ended[p] # "no" /\ late[m] = None
    /\ watch' = watch \ {p}
    /\ IF handle[m] # p \/ StopRequested(m) THEN UNCHANGED <<mem, handle, late>>
       ELSE /\ handle' = [handle EXCEPT ![m] = None]
            /\ mem' = [mem EXCEPT ![m] = next]
            /\ late' = [late EXCEPT ![m] = next]
    /\ UNCHANGED <<disk, fence, blocked, pc, todo, world>>

WatcherWrites(m) ==
    /\ Running(m) /\ late[m] # None
    /\ writeJsonAtomic(late[m])
    /\ late' = [late EXCEPT ![m] = None]
    /\ UNCHANGED <<fence, mem, handle, blocked, pc, todo, watch, world>>

-----------------------------------------------------------------------------
(* The processes around the managers                                       *)

\* The model is loaded and the port free.
Serve(p) ==
    /\ proc[p] = "loading" /\ ~ PortTaken
    /\ proc' = [proc EXCEPT ![p] = "serving"]
    /\ UNCHANGED <<disk, fence, mem, pc, own, ended>>

\* It crashes, finds the port taken, or its guardian ends it.
Exits(p) ==
    /\ Alive(p)
    /\ proc' = [proc EXCEPT ![p] = "gone"]
    /\ UNCHANGED <<disk, fence, mem, pc, own, ended>>

\* runProcess resolves: with proof the tree is gone; without proof (the guardian
\* was killed, or the platform has none) it may be there.
Completes(p, status) ==
    /\ proc[p] # "none" /\ ended[p] = "no" /\ Running(Owner(p))
    /\ status = "proven" => ~ Alive(p)
    /\ ended' = [ended EXCEPT ![p] = status]
    /\ UNCHANGED <<disk, fence, mem, pc, own, proc>>

\* The manager's process dies; its model processes may survive their guardian.
Die(m) ==
    /\ Running(m) /\ mem[m] # None
    /\ Cardinality({n \in Managers : ~ Running(n)}) < MaxDeaths
    /\ pc' = [pc EXCEPT ![m] = [Idle EXCEPT !.at = "dead"]]
    /\ mem' = [mem EXCEPT ![m] = None] /\ handle' = [handle EXCEPT ![m] = None]
    /\ watch' = {p \in watch : Owner(p) # m} /\ late' = [late EXCEPT ![m] = None]
    /\ UNCHANGED <<disk, fence, blocked, todo, world>>

Step(m) ==
    \/ InitialWrite(m) \/ Refused(m) \/ ProbeReachable(m)
    \/ ObserveUnreachable(m)
    \/ \E r \in {"offline", "unknown"} : LoadUnreachable(m, r)
    \/ ObserveReachable(m) \/ MarkReachable(m) \/ ExternalTimeout(m)
    \/ MakeFence(m) \/ ClaimFence(m) \/ JudgeFence(m) \/ RecoverFence(m) \/ EvictFence(m) \/ ReleaseFence(m)
    \/ HashLaunch(m) \/ Spawn(m) \/ RecordOwnership(m) \/ AwaitReady(m) \/ AwaitExited(m)
    \/ \E why \in {"mismatch", "timeout"} : AwaitFails(m, why)
    \/ StopFailedStart(m) \/ StartTimedOut(m) \/ CatchStart(m)
    \/ UnloadCheck(m) \/ UnloadRequest(m) \/ UnloadDone(m) \/ UnloadUnproven(m)

Watcher(m) == WatcherWrites(m) \/ \E p \in Processes : Owner(p) = m /\ WatcherFires(p)

Next ==
    \/ \E m \in Managers : Step(m) \/ Watcher(m) \/ Initialize(m) \/ Call(m) \/ Die(m)
    \/ \E p \in Processes : Serve(p) \/ Exits(p) \/ \E s \in {"proven", "unproven"} : Completes(p, s)
    \/ FenceAges

Spec == Init /\ [][Next]_vars

-----------------------------------------------------------------------------
\* At most one manager launches at a time, as long as no manager has died
\* (acquireStartFence).  After a death a late judgement of the dead owner's fence
\* can evict the fence of the manager that replaced it.
OneStarter ==
    (\A m \in Managers : Running(m)) => Cardinality({m \in Managers : pc[m].holds}) <= 1

\* A live manager never loses the handle of a process that its guardian still
\* supervises: it is the only thing that can stop it.
NoAbandonedProcess ==
    \A p \in Processes :
        Alive(p) /\ ended[p] = "no" /\ Running(Owner(p)) => handle[Owner(p)] = p
=============================================================================
