---------------------------- MODULE ProcessRunner ----------------------------
(***************************************************************************)
(* One call of runProcess: the Conductor process that called it (the       *)
(* owner), the guardian it spawns, and the worker's process tree as the    *)
(* operating system has it.                                                *)
(*                                                                         *)
(* On POSIX the guardian is process-guardian.mjs: the owner starts it by a *)
(* message and stops it by closing its standard input.  On Windows it is   *)
(* windows-job-host.ps1 with process-guardian.mjs inside a Job Object: the *)
(* owner starts and stops it by writing a file.  Either way it answers by  *)
(* events in order.                                                        *)
(***************************************************************************)
EXTENDS Naturals, Sequences

CONSTANTS
    Platforms,      \* the platforms considered
    MaxKills        \* bound on the guardians that something else kills

ASSUME PlatformsAssumption == Platforms \subseteq {"posix", "win32"}
ASSUME MaxKillsAssumption == MaxKills \in Nat

VARIABLES
    platform,       \* process.platform
    hasCleanup,     \* invocation.cleanup is given
    owner,          \* how far runProcess has got
    signal,         \* options.signal.aborted
    terminated,     \* timedOut and cancelled
    chain,          \* what callbackChain is at
    durable,        \* onGuardianReady has recorded the guardian's identity
    seen,           \* what the owner knows from the events: workerPid, treeCleanup
    result,         \* result.termination.status
    start,          \* the start message or file was sent
    stop,           \* the channel is closed, or the stop file is there
    events,         \* the events on their way to the owner
    guardian,       \* how far the guardian has got
    kills,          \* how many guardians were killed
    born,           \* a worker has been started
    tree            \* the live processes of the run

ownerVars == <<owner, terminated, chain, durable, seen, result>>
channel == <<start, stop>>
runVars == <<born, tree>>
fixed == <<platform, hasCleanup>>
vars == <<fixed, ownerVars, signal, channel, events, guardian, kills, runVars>>

Windows == platform = "win32"

\* The worker, a descendant that stays in its process group or job, and one that
\* made a session of its own, which no job lets go.
Family == {"worker", "child"} \cup (IF Windows THEN {} ELSE {"escaped"})
Cleanups == {"proven", "unknown", "failed"}
EventTypes == {"ownership-ready", "worker-spawn", "worker-close", "output-limit"} \cup Cleanups
Final == {"resolved", "rejected", "dead"}

TypeOK ==
    /\ platform \in Platforms /\ hasCleanup \in BOOLEAN
    /\ owner \in {"called", "opening", "listening", "closing"} \cup Final
    /\ signal \in BOOLEAN /\ terminated \in {"no", "timeout", "cancelled"}
    /\ chain \in {"idle", "ready", "start", "onSpawn", "done", "failed"}
    /\ durable \in BOOLEAN /\ start \in BOOLEAN /\ stop \in BOOLEAN /\ born \in BOOLEAN
    /\ seen \in [pid : BOOLEAN, cleanup : {"none"} \cup Cleanups]
    /\ result \in {"none"} \cup Cleanups
    /\ events \in Seq(EventTypes)
    /\ guardian \in {"none", "booting", "waiting", "spawning", "running", "stopping", "exited"}
    /\ kills \in 0 .. MaxKills /\ tree \subseteq Family

Init ==
    /\ platform \in Platforms /\ hasCleanup \in BOOLEAN
    /\ owner = "called" /\ signal = FALSE /\ terminated = "no" /\ chain = "idle"
    /\ durable = FALSE /\ start = FALSE /\ stop = FALSE /\ born = FALSE /\ tree = {}
    /\ seen = [pid |-> FALSE, cleanup |-> "none"]
    /\ result = "none" /\ events = <<>> /\ guardian = "none" /\ kills = 0

-----------------------------------------------------------------------------
(* runProcess                                                              *)

Listening == owner \in {"listening", "closing"}

\* A signal that is already aborted starts nothing.
Enter ==
    /\ owner = "called"
    /\ IF signal THEN owner' = "resolved" /\ terminated' = "cancelled" /\ result' = "proven"
       ELSE owner' = "opening" /\ UNCHANGED <<terminated, result>>
    /\ UNCHANGED <<fixed, chain, durable, seen, signal, channel, events, guardian, kills, runVars>>

\* The log files are open: the guardian is spawned, and only now the timer and the
\* listener for the signal are there.  Or no guardian can be started.
SpawnGuardian ==
    /\ owner = "opening"
    /\ \/ owner' = "listening" /\ guardian' = IF Windows THEN "booting" ELSE "waiting"
       \/ owner' = "rejected" /\ UNCHANGED guardian
    /\ UNCHANGED <<fixed, terminated, chain, durable, seen, result, signal, channel, events,
                   kills, runVars>>

\* Seeded fault: terminate() takes note of the reason and asks nobody to stop.
terminate_flagOnly(reason) ==
    /\ terminated' = IF terminated # "no" THEN terminated ELSE reason
    /\ UNCHANGED stop

\* terminate(): the first reason wins.  The POSIX signal to the guardian's process
\* group finds no such group; what stops the guardian is its closed channel.
terminate(reason) ==
    IF terminated # "no" THEN UNCHANGED <<terminated, stop>>
    ELSE terminated' = reason /\ stop' = TRUE

Timeout ==
    /\ Listening /\ terminated = "no"
    /\ terminate("timeout")
    /\ UNCHANGED <<fixed, owner, chain, durable, seen, result, signal, start, events, guardian,
                   kills, runVars>>

\* The caller aborts, at any time; before the listener is there nothing hears it.
Abort ==
    /\ ~ signal /\ owner \notin Final
    /\ signal' = TRUE
    /\ IF Listening THEN terminate("cancelled") ELSE UNCHANGED <<terminated, stop>>
    /\ UNCHANGED <<fixed, owner, chain, durable, seen, result, start, events, guardian, kills,
                   runVars>>

\* The guardian's spawn event, on POSIX: a run that is already to end starts nothing.
GuardianSpawned ==
    /\ ~ Windows /\ owner = "listening" /\ chain = "idle"
    /\ chain' = IF terminated = "no" THEN "ready" ELSE "done"
    /\ UNCHANGED <<fixed, owner, terminated, durable, seen, result, signal, channel, events,
                   guardian, kills, runVars>>

\* Seeded fault: a failure to record the identity is swallowed.
GuardianReady_swallowed ==
    /\ chain = "ready" /\ owner # "dead"
    /\ durable' \in BOOLEAN /\ chain' = "start"
    /\ UNCHANGED <<owner, stop>>
    /\ UNCHANGED <<fixed, terminated, seen, result, signal, start, events, guardian, kills, runVars>>

\* onGuardianReady records the identity or fails.  The failure rejects the run at
\* once on POSIX (its finally closes the channel) and asks for a stop on Windows.
GuardianReady ==
    /\ chain = "ready" /\ owner # "dead"
    /\ \/ /\ durable' = TRUE
          /\ chain' = IF Windows /\ terminated # "no" THEN "done" ELSE "start"
          /\ UNCHANGED <<owner, stop>>
       \/ /\ chain' = "failed" /\ stop' = TRUE
          /\ owner' = IF Windows \/ owner \in Final THEN owner ELSE "rejected"
          /\ UNCHANGED durable
    /\ UNCHANGED <<fixed, terminated, seen, result, signal, start, events, guardian, kills, runVars>>

\* A write to a closed channel is lost; the start file is written beside a stop file,
\* or cannot be written, which asks for a stop.  (A write after the channel's end may
\* also raise an error that ends the owner: OwnerDies.)
SendStart ==
    /\ chain = "start" /\ owner # "dead"
    /\ \/ start' = (Windows \/ ~ stop) /\ chain' = "done" /\ UNCHANGED stop
       \/ Windows /\ stop' = TRUE /\ chain' = "failed" /\ UNCHANGED start
    /\ UNCHANGED <<fixed, owner, terminated, durable, seen, result, signal, events, guardian,
                   kills, runVars>>

\* readGuardianEvents: one event after the other, in the order they were sent.
readGuardianEvents(e) == events # <<>> /\ e = Head(events) /\ events' = Tail(events)

ReceiveEvent ==
    /\ owner = "listening"
    /\ \E e \in EventTypes :
       /\ readGuardianEvents(e)
       /\ seen' = [seen EXCEPT !.pid = @ \/ e = "worker-spawn",
                               !.cleanup = IF e \in Cleanups THEN e ELSE @]
       /\ chain' = IF e = "ownership-ready" THEN "ready" ELSE IF e = "worker-spawn" THEN "onSpawn"
                   ELSE chain
    /\ UNCHANGED <<fixed, owner, terminated, durable, result, signal, channel, guardian, kills, runVars>>

\* onSpawn; its failure is noticed when the guardian has closed.
WorkerSpawned ==
    /\ chain = "onSpawn" /\ owner # "dead"
    /\ chain' \in {"done", "failed"}
    /\ UNCHANGED <<fixed, owner, terminated, durable, seen, result, signal, channel, events,
                   guardian, kills, runVars>>

\* Seeded fault: the exit event is awaited, which may come before the last output.
GuardianClosed_onExit ==
    /\ owner = "listening" /\ guardian = "exited"
    /\ owner' = "closing"
    /\ UNCHANGED <<fixed, terminated, chain, durable, seen, result, signal, channel, events,
                   guardian, kills, runVars>>

\* Seeded fault: a run that was told to stop does not wait for its guardian.
GuardianClosed_early ==
    /\ owner = "listening"
    /\ terminated = "no" => guardian = "exited" /\ events = <<>>
    /\ owner' = "closing"
    /\ UNCHANGED <<fixed, terminated, chain, durable, seen, result, signal, channel, events,
                   guardian, kills, runVars>>

\* The close event comes after the last line of the guardian's output.
GuardianClosed ==
    /\ owner = "listening" /\ guardian = "exited" /\ events = <<>>
    /\ owner' = "closing"
    /\ UNCHANGED <<fixed, terminated, chain, durable, seen, result, signal, channel, events,
                   guardian, kills, runVars>>

finalTermination ==
    IF seen.cleanup # "none" THEN seen.cleanup ELSE IF seen.pid THEN "unknown" ELSE "proven"

\* runCleanupInvocation runs the cleanup like this and throws unless its termination
\* is proven, which POSIX never gives.
CleanupMaySucceed == hasCleanup => Windows

\* The chain has settled; a cleanup may throw.
Settle ==
    /\ owner = "closing" /\ chain \in {"idle", "done", "failed"}
    /\ \/ /\ chain # "failed" /\ CleanupMaySucceed
          /\ owner' = "resolved" /\ result' = finalTermination
       \/ (chain = "failed" \/ hasCleanup) /\ owner' = "rejected" /\ UNCHANGED result
    /\ stop' = TRUE
    /\ UNCHANGED <<fixed, terminated, chain, durable, seen, signal, start, events, guardian,
                   kills, runVars>>

\* The Conductor process dies: its pipes close, and the job host sees it gone.
OwnerDies ==
    /\ owner \notin Final
    /\ owner' = "dead" /\ stop' = TRUE
    /\ UNCHANGED <<fixed, terminated, chain, durable, seen, result, signal, start, events,
                   guardian, kills, runVars>>

-----------------------------------------------------------------------------
(* The guardian                                                            *)

GuardianOnly == UNCHANGED <<fixed, ownerVars, signal, channel, kills>>

\* The job host: the guardian is in a verified job, or the host gives up.
HostBoots ==
    /\ guardian = "booting"
    /\ \/ events' = Append(events, "ownership-ready") /\ guardian' = "waiting"
       \/ events' = Append(events, "failed") /\ guardian' = "exited"
    /\ UNCHANGED runVars /\ GuardianOnly

\* Where a guardian whose worker is over goes: the job is still to be emptied.
AfterWorker == IF Windows \/ born THEN "stopping" ELSE "exited"

\* The start message comes before the end of the channel, and the start file is
\* looked for before the stop file.  The worker is started, or cannot be.
StartWorker ==
    /\ guardian = "waiting" /\ start
    /\ \/ /\ guardian' = "spawning" /\ born' = TRUE /\ tree' = {"worker"}
          /\ UNCHANGED events
       \/ /\ events' \in {events, Append(events, "worker-close")}
          /\ guardian' = AfterWorker
          /\ UNCHANGED runVars
    /\ GuardianOnly

ReportSpawn ==
    /\ guardian = "spawning"
    /\ events' = Append(events, "worker-spawn") /\ guardian' = "running"
    /\ UNCHANGED runVars /\ GuardianOnly

\* Seeded fault: the end of the channel is only listened for once a worker runs.
StopRequested_runningOnly ==
    /\ stop /\ guardian = "running"
    /\ guardian' = AfterWorker
    /\ UNCHANGED <<events, runVars>> /\ GuardianOnly

\* stop(): the channel has closed; the host also stops a guardian that has not
\* reported its worker yet.
StopRequested ==
    /\ stop
    /\ \/ guardian = "waiting" /\ ~ start
       \/ guardian = "running"
       \/ guardian = "spawning" /\ Windows
    /\ guardian' = AfterWorker
    /\ UNCHANGED <<events, runVars>> /\ GuardianOnly

\* finishWorker().
WorkerClosed ==
    /\ guardian = "running" /\ "worker" \notin tree
    /\ events' = Append(events, "worker-close") /\ guardian' = "stopping"
    /\ UNCHANGED runVars /\ GuardianOnly

\* captureBounded(): a process of the run writes past a limit.
OutputLimit ==
    /\ guardian = "running" /\ tree # {}
    /\ events' = Append(events, "output-limit") /\ guardian' = "stopping"
    /\ UNCHANGED runVars /\ GuardianOnly

\* Terminate the tree, report, exit.  POSIX empties the process group or fails to;
\* on Windows the exit of the host empties the job when the host could not.
CleanTree ==
    /\ guardian = "stopping"
    /\ guardian' = "exited"
    /\ \/ /\ tree' = tree \cap {"escaped"}
          /\ events' = Append(events, IF Windows THEN "proven" ELSE "unknown")
       \/ /\ tree' = IF Windows THEN {} ELSE tree
          /\ events' = Append(events, "failed")
    /\ UNCHANGED born /\ GuardianOnly

\* Something kills the guardian (on Windows: the host, which closes the job, or
\* the guardian inside, which the host notices).
KillGuardian ==
    /\ guardian \notin {"none", "exited"} /\ kills < MaxKills
    /\ kills' = kills + 1
    /\ \/ guardian' = "exited" /\ tree' = IF Windows THEN {} ELSE tree
       \/ /\ Windows /\ guardian \in {"spawning", "running"}
          /\ guardian' = "stopping" /\ UNCHANGED tree
    /\ UNCHANGED <<fixed, ownerVars, signal, channel, events, born>>

-----------------------------------------------------------------------------
(* The worker's processes                                                  *)

Forks(x) ==
    /\ "worker" \in tree /\ x \in Family \ tree
    /\ tree' = tree \cup {x}
    /\ UNCHANGED <<fixed, ownerVars, signal, channel, events, guardian, kills, born>>

Exits(x) ==
    /\ x \in tree
    /\ tree' = tree \ {x}
    /\ UNCHANGED <<fixed, ownerVars, signal, channel, events, guardian, kills, born>>

Owner ==
    \/ Enter \/ SpawnGuardian \/ GuardianSpawned \/ GuardianReady \/ SendStart
    \/ ReceiveEvent \/ WorkerSpawned \/ GuardianClosed \/ Settle

Guardian == HostBoots \/ StartWorker \/ ReportSpawn \/ StopRequested \/ WorkerClosed \/ CleanTree

Next ==
    \/ Owner \/ Timeout \/ Abort \/ OwnerDies
    \/ Guardian \/ OutputLimit \/ KillGuardian
    \/ \E x \in {"worker", "child", "escaped"} : Forks(x) \/ Exits(x)

Spec == Init /\ [][Next]_vars

\* The owner's event loop runs while it lives, its timer fires, the guardian runs.
\* The worker may run for ever, and nobody has to abort.
Fairness == WF_vars(Owner) /\ WF_vars(Timeout) /\ WF_vars(Guardian)

FairSpec == Spec /\ Fairness

-----------------------------------------------------------------------------
\* On Windows, the lane whose containment the kernel enforces, a termination that
\* finalTermination reports as proven means that no process of the run is left:
\* whoever killed the guardian or its host, and in whatever order the events, the
\* stop and the exits came.  (Not so on POSIX: a guardian that is killed between
\* the start of the worker and its report leaves no event that names a worker,
\* and the run counts as never started.)
ProvenMeansGone == Windows /\ result = "proven" => tree = {}

\* No worker is ever started before the identity of its guardian is durable,
\* whatever fails and whenever the run is aborted (runProcess, onGuardianReady).
IdentityBeforeWorker == born => durable

\* A run that had a worker returns what became of its tree, unless something killed
\* the guardian: no event is overtaken by the guardian's exit (the close event).
EvidenceIsNotLost ==
    owner = "resolved" /\ born /\ kills = 0 => seen.cleanup # "none"

\* Nothing starts once runProcess has returned or thrown.
SettledRunStartsNothing ==
    [][(owner \in {"resolved", "rejected"}) => born' = born]_vars

\* What the guardian is able to end is ended when nobody kills it and nothing makes
\* the signals fail: all of the tree on Windows, on POSIX what kept its session.
Contained ==
    /\ guardian \in {"none", "exited"}
    /\ \/ tree \subseteq (IF Windows THEN {} ELSE {"escaped"})
       \/ ~ Windows /\ (kills > 0 \/ seen.cleanup = "failed" \/ "failed" \in {events[i] : i \in 1 .. Len(events)})

\* A timeout, an abort that was heard or the death of the owner ends the tree.
StopEndsTree == terminated # "no" \/ owner = "dead" ~> Contained

\* Every run ends: no order of callbacks, events, aborts and guardian failures
\* leaves runProcess waiting.
RunSettles == owner = "called" ~> owner \in Final
=============================================================================
