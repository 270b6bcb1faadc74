------------------------------ MODULE Dispatch ------------------------------
(***************************************************************************)
(* The dispatcher process: the durable queue, the durable attempts, the    *)
(* executions the process holds in memory and the worker processes they    *)
(* spawn.  Every queue and attempt update is one atomic compare-and-swap   *)
(* (module TransitionJournal shows that commitTransition provides it).     *)
(* The process may die between any two updates; workers outlive it.        *)
(***************************************************************************)
EXTENDS Contracts, FiniteSets

CONSTANTS Jobs,
          Deps,            \* Deps[j]: the jobs that j depends on
          Rank,            \* Rank[j]: j's place in list() order
          MaxConcurrent,   \* the dispatcher's maxConcurrent
          MaxAttempts,     \* MaxAttempts[j]: contract.resources.maxAttemptsPerJob
          MaxAutoRetries,  \* MaxAutoRetries[j]: contract.resources.maxAutomaticRetries
          Retained,        \* jobs with execution.retainWorkspace
          Removable,       \* bound: jobs whose workspaces the owner may remove
          Contained        \* jobs whose guardians are kernel-enforced Windows jobs

ASSUME DispatchAssumption ==
    /\ Deps \in [Jobs -> SUBSET Jobs]
    /\ Rank \in [Jobs -> Nat]
    /\ \A j, k \in Jobs : Rank[j] = Rank[k] => j = k
    /\ MaxConcurrent \in Nat \ {0}
    /\ MaxAttempts \in [Jobs -> Nat \ {0}]
    /\ MaxAutoRetries \in [Jobs -> Nat]
    /\ Retained \subseteq Jobs
    /\ Removable \subseteq Jobs
    /\ Contained \subseteq Jobs

\* The jobs that others depend on: a pass looks these up in the list it read.
Needed == UNION {Deps[j] : j \in Jobs}

\* An attempt is named by its job and its ordinal; ordinal 0 is "no attempt".
Attempts == UNION {{j} \X (1 .. MaxAttempts[j]) : j \in Jobs}

VARIABLES item,      \* the queue: the durable item of each job
          attempt,   \* the store: the durable manifest and cleanup of each attempt
          tree,      \* the process tree an attempt has spawned
          phase,     \* the dispatcher process
          live,      \* activeAttempts and executions: an attempt's abort handle
          exec,      \* the executeItem call of each job ("active" in the code)
          lock,      \* withStateLock: where its holder is, and for which job
          pass,      \* dispatchAvailable: what its pass over the queue has read
          rec,       \* recoverInterruptedItems: how far it is
          awaited    \* the executions an ending loop waits for

durable == <<item, attempt>>
memory  == <<phase, live, exec, lock, pass, rec, awaited>>
vars    == <<durable, tree, memory>>

-----------------------------------------------------------------------------
(* Shapes.                                                                 *)
Ordinal == Nat

Item == [status  : QueueStatus \cup {"absent"},
         op      : Nat,       \* dispatchOperationId; 0 when undefined
         att     : Ordinal,   \* attemptId
         done    : Ordinal,   \* completion.attemptId
         retries : Nat]      \* automaticRetryCount

\* The evidence on an attempt's process trees: none is registered; the last one
\* is not accounted for; all are proven gone, with the worker still to be
\* started ("ready") or started; the last one's end is not proven.
Processes == {"none", "pending", "ready", "proven", "unknown"}

Attempt == [status   : AttemptStatus \cup {"absent"},
            op       : Nat,
            parents  : SUBSET Attempts,          \* lineage.contributions
            eligible : BOOLEAN,                  \* verificationStatus
            orphaned : BOOLEAN,                  \* failure.kind is "orphaned"
            proc     : Processes,                \* process-tree evidence
            ws       : {"none", "pending", "proven", "failed"}]   \* workspace evidence

\* How far recoverInterruptedAttempt is with an attempt: at its beginning, past
\* the evidence on its processes, past the terminal update, or at one of its
\* dispositions.
Dispositions == {"safe-to-retry", "still-running", "unknown"}
Found == {"none", "cleared", "closing"} \cup Dispositions

NoItem    == [status |-> "absent", op |-> 0, att |-> 0, done |-> 0, retries |-> 0]
NoAttempt == [status |-> "absent", op |-> 0, parents |-> {}, eligible |-> FALSE,
              orphaned |-> FALSE, proc |-> "none", ws |-> "none"]
NoExec    == [at |-> "off", att |-> 0, res |-> "none"]
Free      == [at |-> "free", job |-> "none"]
NoPass    == [by |-> "none", todo |-> {}, seen |-> [d \in Needed |-> NoItem]]
NoRec     == [stage |-> "off", todo |-> {}, sweep |-> {}, found |-> "none"]

TypeOK ==
    /\ item \in [Jobs -> Item]
    /\ \A j \in Jobs : item[j].att <= MaxAttempts[j] /\ item[j].retries <= MaxAutoRetries[j]
    /\ attempt \in [Attempts -> Attempt]
    /\ tree \in [Attempts -> {"none", "guarded", "orphaned"}]
    /\ phase \in {"down", "recovering", "looping", "draining", "released"}
    /\ live \in [Attempts -> {"none", "running", "aborted"}]
    /\ exec \in [Jobs -> [at : {"off", "starting", "claimed", "waiting", "finishing", "failing"},
                          att : Ordinal, res : Terminal \cup {"none"}]]
    /\ lock \in [at : {"free", "scan", "intent", "reserved", "claim", "cancel"},
                 job : Jobs \cup {"none"}]
    /\ pass \in [by : {"none", "loop", "submit"}, todo : SUBSET Jobs,
                 seen : [Needed -> Item]]
    /\ rec \in [stage : {"off", "bind", "settle", "sweep"}, todo : SUBSET Jobs,
                sweep : SUBSET Attempts, found : Found]
    /\ awaited \in SUBSET Attempts

\* No dispatcher process: nothing is in memory.
NoProcess ==
    /\ phase = "down"
    /\ live = [a \in Attempts |-> "none"]
    /\ exec = [j \in Jobs |-> NoExec]
    /\ lock = Free
    /\ pass = NoPass
    /\ rec = NoRec
    /\ awaited = {}

Init ==
    /\ item = [j \in Jobs |-> NoItem]
    /\ attempt = [a \in Attempts |-> NoAttempt]
    /\ tree = [a \in Attempts |-> "none"]
    /\ NoProcess

-----------------------------------------------------------------------------
(* Helpers.                                                                *)
Active == {j \in Jobs : exec[j].at # "off"}

\* The attempt that job j's queue item is bound to.
Bound(j) == <<j, item[j].att>>

\* list() order: the next job of a set to be visited.
First(S) == CHOOSE j \in S : \A k \in S : Rank[j] <= Rank[k]

\* randomUUID: a value that no record holds any more.
FreshOp(j) ==
    LET used == {item[j].op} \cup {attempt[a].op : a \in {b \in Attempts : b[1] = j}}
    IN  CHOOSE n \in 1 .. (MaxAttempts[j] + 2) :
            n \notin used /\ \A m \in 1 .. (n - 1) : m \in used

\* The cleanup status of an attempt, from its two subjects.
AllProven(m) == m.proc \in {"ready", "proven"}
Cleanup(m) ==
    deriveCleanupStatus({IF AllProven(m) THEN "proven" ELSE m.proc, m.ws} \ {"none"})
Unresolved(m) == m.proc \in {"pending", "unknown"}
IsSafe(m) == Cleanup(m) \in CleanupSafe

\* projectQueueCompletion of a terminal attempt and its cleanup as they are now.
Outcome(a) ==
    ProjectedStatus(attempt[a].status,
                    IF attempt[a].eligible THEN "eligible" ELSE "ineligible",
                    Cleanup(attempt[a]))

\* finishItem: the item after the outcome of its nth attempt is applied.
Completed(it, n, outcome) == [it EXCEPT !.status = outcome, !.att = n, !.done = n]

\* queue.update of one job, and transitionAttempt of one attempt.
SetItem(j, it) == item' = [item EXCEPT ![j] = it]
SetAttempt(a, m) == attempt' = [attempt EXCEPT ![a] = m]

\* The MCP server and the console call the dispatcher while its process runs,
\* from the end of recovery on: also while the loop drains and after it ended.
Serving == phase \in {"looping", "draining", "released"}
HoldsLease == phase \in {"recovering", "looping", "draining"}

-----------------------------------------------------------------------------
(* Enqueueing and the dispatch pass (dispatchAvailable).                   *)

\* A new contract enters the queue; a replay of a known one changes nothing.
Enqueue(j) ==
    /\ Serving
    /\ item[j].status = "absent"
    /\ SetItem(j, [NoItem EXCEPT !.status = "queued"])
    /\ UNCHANGED <<attempt, tree, memory>>

\* The loop, or a submission, takes the state lock and lists the queue.  A
\* pass over a queue without queued items changes nothing and is left out.
StartPass(by) ==
    /\ lock.at = "free"
    /\ phase \in (IF by = "loop" THEN {"looping"} ELSE {"looping", "draining"})
    /\ \E j \in Jobs : item[j].status = "queued"
    /\ lock' = [at |-> "scan", job |-> "none"]
    /\ pass' = [by |-> by, seen |-> [d \in Needed |-> item[d]],
                todo |-> {j \in Jobs : item[j].status = "queued"}]
    /\ UNCHANGED <<durable, tree, phase, live, exec, rec, awaited>>

\* The pass judges dependencies by the items it listed.
FailedDependency(j) ==
    \E d \in Deps[j] : pass.seen[d].status \in Terminal \ {"completed"}
\* Seeded fault: a dependency that ended in any way counts as completed.
DependenciesCompleted_AnyEnd(j) ==
    \A d \in Deps[j] : pass.seen[d].status \in Terminal
DependenciesCompleted(j) ==
    \A d \in Deps[j] : pass.seen[d].status = "completed"

Visiting(j) == lock.at = "scan" /\ pass.todo # {} /\ j = First(pass.todo)
Visited(j) == pass' = [pass EXCEPT !.todo = @ \ {j}]

\* Already executing, or a dependency is missing or not finished.
SkipItem(j) ==
    /\ Visiting(j)
    /\ \/ j \in Active
       \/ ~FailedDependency(j) /\ ~DependenciesCompleted(j)
    /\ Visited(j)
    /\ UNCHANGED <<durable, tree, phase, live, exec, lock, rec, awaited>>

FailDependent(j) ==
    /\ Visiting(j)
    /\ j \notin Active
    /\ FailedDependency(j)
    /\ SetItem(j, [item[j] EXCEPT !.status = "needs-input"])
    /\ Visited(j)
    /\ UNCHANGED <<attempt, tree, phase, live, exec, lock, rec, awaited>>

\* The pass ends at the first dispatchable item that finds no free slot.
StopAtLimit(j) ==
    /\ Visiting(j)
    /\ j \notin Active
    /\ DependenciesCompleted(j)
    /\ Cardinality(Active) >= MaxConcurrent
    /\ pass' = [pass EXCEPT !.todo = {}]
    /\ UNCHANGED <<durable, tree, phase, live, exec, lock, rec, awaited>>

\* Seeded fault: the concurrency limit is off by one.
RecordIntent_OneTooMany(j) ==
    /\ Visiting(j)
    /\ j \notin Active
    /\ DependenciesCompleted(j)
    /\ Cardinality(Active) <= MaxConcurrent
    /\ SetItem(j, [item[j] EXCEPT !.status = "dispatching", !.op = FreshOp(j), !.att = 0])
    /\ lock' = [at |-> "intent", job |-> j]
    /\ UNCHANGED <<attempt, tree, phase, live, exec, pass, rec, awaited>>

\* The durable dispatch intent, with a new operation identity.
RecordIntent(j) ==
    /\ Visiting(j)
    /\ j \notin Active
    /\ DependenciesCompleted(j)
    /\ Cardinality(Active) < MaxConcurrent
    /\ SetItem(j, [item[j] EXCEPT !.status = "dispatching", !.op = FreshOp(j), !.att = 0])
    /\ lock' = [at |-> "intent", job |-> j]
    /\ UNCHANGED <<attempt, tree, phase, live, exec, pass, rec, awaited>>

\* reserveAttempt claims the first ordinal whose directory does not exist.
FreeOrdinals(j) == {n \in 1 .. MaxAttempts[j] : attempt[<<j, n>>].status = "absent"}

ReserveAttempt(j) ==
    /\ lock = [at |-> "intent", job |-> j]
    /\ \E n \in FreeOrdinals(j) :
          /\ \A m \in FreeOrdinals(j) : n <= m
          /\ SetAttempt(<<j, n>>,
                [NoAttempt EXCEPT !.status = "reserved", !.op = item[j].op,
                                  !.parents = {<<d, pass.seen[d].done>> : d \in Deps[j]}])
    /\ lock' = [lock EXCEPT !.at = "reserved"]
    /\ UNCHANGED <<item, tree, phase, live, exec, pass, rec, awaited>>

\* buildProposalLineage refuses the parents' evidence (ProposalLineageError).
RejectLineage(j) ==
    /\ lock = [at |-> "intent", job |-> j]
    /\ Deps[j] # {}
    /\ SetItem(j, [item[j] EXCEPT !.status = "needs-input"])
    /\ lock' = [at |-> "scan", job |-> "none"]
    /\ Visited(j)
    /\ UNCHANGED <<attempt, tree, phase, live, exec, rec, awaited>>

\* The queue item is bound to the attempt it just reserved, executeItem starts.
BindAttempt(j) ==
    /\ lock = [at |-> "reserved", job |-> j]
    /\ \E n \in 1 .. MaxAttempts[j] :
          /\ attempt[<<j, n>>].op = item[j].op
          /\ SetItem(j, [item[j] EXCEPT !.status = "running", !.att = n])
          /\ exec' = [exec EXCEPT ![j] = [NoExec EXCEPT !.at = "starting", !.att = n]]
    /\ lock' = [at |-> "scan", job |-> "none"]
    /\ Visited(j)
    /\ UNCHANGED <<attempt, tree, phase, live, rec, awaited>>

EndPass ==
    /\ lock.at = "scan"
    /\ pass.todo = {}
    /\ lock' = Free
    /\ pass' = NoPass
    /\ UNCHANGED <<durable, tree, phase, live, exec, rec, awaited>>

-----------------------------------------------------------------------------
(* The end of the loop.                                                    *)

\* The loop ends: it waits for the executions that are active at that moment.
\* After an error, and in stop({cancelActive}), it first aborts the attempts
\* that running and cancelling items are bound to.
EndLoop(abort) ==
    /\ phase' = "draining"
    /\ awaited' = {<<j, exec[j].att>> : j \in Active}
    /\ live' = [a \in Attempts |->
                  IF /\ abort /\ live[a] = "running" /\ a = Bound(a[1])
                     /\ item[a[1]].status \in {"running", "cancelling"}
                  THEN "aborted" ELSE live[a]]

\* An error after the intent or after the reservation: no ordinal is left, the
\* worker adapter is unavailable, or storage fails.  It ends the loop when the
\* pass is the loop's, and is returned to the caller when it is a submission's.
PassThrows(j) ==
    /\ lock.at \in {"intent", "reserved"}
    /\ lock.job = j
    /\ IF pass.by = "loop" THEN EndLoop(TRUE) ELSE UNCHANGED <<phase, live, awaited>>
    /\ lock' = Free
    /\ pass' = NoPass
    /\ UNCHANGED <<durable, tree, exec, rec>>

\* stop(), and an error outside a pass (the lease cannot be renewed).
StopLoop(abort) ==
    /\ phase = "looping"
    /\ pass.by # "loop"
    /\ EndLoop(abort)
    /\ UNCHANGED <<durable, tree, exec, lock, pass, rec>>

\* Every awaited execution has settled: the lease is released.
ReleaseLease ==
    /\ phase = "draining"
    /\ \A a \in awaited : exec[a[1]] = NoExec \/ exec[a[1]].att # a[2]
    /\ phase' = "released"
    /\ awaited' = {}
    /\ UNCHANGED <<durable, tree, live, exec, lock, pass, rec>>

-----------------------------------------------------------------------------
(* executeItem.                                                            *)

\* Under the state lock: the item must still be running; its reserved attempt
\* is claimed.
ClaimAttempt(j) ==
    /\ exec[j].at = "starting"
    /\ lock.at = "free"
    /\ item[j].status = "running"
    /\ attempt[Bound(j)].status = "reserved"
    /\ attempt[Bound(j)].op = item[j].op
    /\ SetAttempt(Bound(j), [attempt[Bound(j)] EXCEPT !.status = "claimed"])
    /\ exec' = [exec EXCEPT ![j].at = "claimed"]
    /\ lock' = [at |-> "claim", job |-> j]
    /\ UNCHANGED <<item, tree, phase, live, pass, rec, awaited>>

\* Seeded fault: the early return forgets to leave the active set.
AbandonStart_Leaks(j) ==
    /\ exec[j].at = "starting"
    /\ lock.at = "free"
    /\ item[j].status # "running"
    /\ UNCHANGED vars

\* The item was cancelled while executeItem waited for the lock.
AbandonStart(j) ==
    /\ exec[j].at = "starting"
    /\ lock.at = "free"
    /\ item[j].status # "running"
    /\ exec' = [exec EXCEPT ![j] = NoExec]
    /\ UNCHANGED <<durable, tree, phase, live, lock, pass, rec, awaited>>

\* The claim throws: the sandbox profile changed, the adapter is unavailable,
\* or storage fails.
ClaimFails(j) ==
    /\ exec[j].at = "starting"
    /\ lock.at = "free"
    /\ item[j].status = "running"
    /\ exec' = [exec EXCEPT ![j].at = "failing"]
    /\ UNCHANGED <<durable, tree, phase, live, lock, pass, rec, awaited>>

\* launchClaimedAttempt registers the abort handle and starts executeAttempt.
LaunchAttempt(j) ==
    /\ lock = [at |-> "claim", job |-> j]
    /\ live' = [live EXCEPT ![Bound(j)] = "running"]
    /\ exec' = [exec EXCEPT ![j].at = "waiting"]
    /\ lock' = Free
    /\ UNCHANGED <<durable, tree, phase, pass, rec, awaited>>

LaunchFails(j) ==
    /\ lock = [at |-> "claim", job |-> j]
    /\ exec' = [exec EXCEPT ![j].at = "failing"]
    /\ lock' = Free
    /\ UNCHANGED <<durable, tree, phase, live, pass, rec, awaited>>

\* waitForAttempt: the execution has ended; its outcome is summarised now and
\* applied when the state lock is free.
AwaitAttempt(j) ==
    LET a == <<j, exec[j].att>>
    IN  /\ exec[j].at = "waiting"
        /\ live[a] = "none"
        /\ exec' = [exec EXCEPT ![j] = [@ EXCEPT !.at = "finishing", !.res = Outcome(a)]]
        /\ UNCHANGED <<durable, tree, phase, live, lock, pass, rec, awaited>>

\* The evidence of the ended attempt cannot be read.
AwaitFails(j) ==
    /\ exec[j].at = "waiting"
    /\ live[<<j, exec[j].att>>] = "none"
    /\ exec' = [exec EXCEPT ![j].at = "failing"]
    /\ UNCHANGED <<durable, tree, phase, live, lock, pass, rec, awaited>>

\* Seeded fault: the outcome of an item that is being cancelled is dropped.
FinishItem_SkipsCancelling(j) ==
    /\ exec[j].at = "finishing"
    /\ lock.at = "free"
    /\ IF /\ item[j].status # "cancelling"
          /\ exec[j].res \in allowedQueueTransitions[item[j].status]
       THEN SetItem(j, Completed(item[j], exec[j].att, exec[j].res))
       ELSE UNCHANGED item
    /\ exec' = [exec EXCEPT ![j] = NoExec]
    /\ UNCHANGED <<attempt, tree, phase, live, lock, pass, rec, awaited>>

\* finishItem applies the outcome to the item as it is by then.  An illegal
\* transition, and a storage error, throw into the catch clause.
FinishItem(j) ==
    LET it == Completed(item[j], exec[j].att, exec[j].res)
    IN  /\ exec[j].at = "finishing"
        /\ lock.at = "free"
        /\ \/ /\ it.status \in allowedQueueTransitions[item[j].status]
              /\ SetItem(j, it)
              /\ exec' = [exec EXCEPT ![j] = NoExec]
           \/ /\ exec' = [exec EXCEPT ![j].at = "failing"]
              /\ UNCHANGED item
        /\ UNCHANGED <<attempt, tree, phase, live, lock, pass, rec, awaited>>

\* The catch clause: the item fails unless it is cancelled or may not fail any
\* more (the error of that second update is dropped).
FailItem(j) ==
    /\ exec[j].at = "failing"
    /\ lock.at = "free"
    /\ SetItem(j, IF /\ item[j].status # "cancelled"
                     /\ "failed" \in allowedQueueTransitions[item[j].status]
                  THEN [item[j] EXCEPT !.status = "failed"] ELSE item[j])
    /\ exec' = [exec EXCEPT ![j] = NoExec]
    /\ UNCHANGED <<attempt, tree, phase, live, lock, pass, rec, awaited>>

\* The catch clause cannot read or update the item: the execution is over (its
\* error is dropped) and the item stays as it is.
FailItemFails(j) ==
    /\ exec[j].at = "failing"
    /\ lock.at = "free"
    /\ exec' = [exec EXCEPT ![j] = NoExec]
    /\ UNCHANGED <<durable, tree, phase, live, lock, pass, rec, awaited>>

-----------------------------------------------------------------------------
(* executeAttempt, outside the state lock.  Setup and acceptance commands  *)
(* and the worker are process trees with a guardian; their requirement is  *)
(* registered before they start.                                           *)
Executing(a, states) == live[a] # "none" /\ attempt[a].status \in states

\* A command of the attempt exited with code 0 and its termination is proven:
\* anything else throws (assertProcessCleanupProven).  Only a guardian with
\* kernel containment proves it of a command that ran; the others report
\* "unknown".
Succeeded(a) == attempt[a].proc = "proven" /\ a[1] \in Contained

PrepareAttempt(a) ==
    /\ Executing(a, {"claimed"})
    /\ SetAttempt(a, [attempt[a] EXCEPT !.status = "preparing",
                          !.ws = IF a[1] \in Retained THEN "none" ELSE "pending"])
    /\ UNCHANGED <<item, tree, memory>>

\* The attempt is recorded as running; the worker's guardian is not there yet.
StartWorker(a) ==
    /\ Executing(a, {"preparing"})
    /\ attempt[a].proc = "none" \/ Succeeded(a)
    /\ SetAttempt(a, [attempt[a] EXCEPT !.status = "running",
                          !.proc = IF @ = "proven" THEN "ready" ELSE @])
    /\ UNCHANGED <<item, tree, memory>>

\* A setup command, the worker (once) or an acceptance command starts.
Spawn(a) ==
    /\ \/ Executing(a, {"preparing"}) /\ (attempt[a].proc = "none" \/ Succeeded(a))
       \/ Executing(a, {"running"}) /\ attempt[a].proc \in {"none", "ready"}
       \/ Executing(a, {"verifying"}) /\ Succeeded(a)
    /\ SetAttempt(a, [attempt[a] EXCEPT !.proc = "pending"])
    /\ tree' = [tree EXCEPT ![a] = "guarded"]
    /\ UNCHANGED <<item, memory>>

\* The tree ends by itself, by a timeout or an abort, or because its guardian
\* sees the owner's pipe close.  Without kernel containment the guardian may
\* go while descendants live on.
TreeEnds(a, left) ==
    /\ \/ tree[a] = "guarded"
       \/ tree[a] = "orphaned" /\ left = "none"
    /\ left = "orphaned" => a[1] \notin Contained
    /\ tree' = [tree EXCEPT ![a] = left]
    /\ UNCHANGED <<durable, memory>>

\* Seeded fault: the termination of a tree is recorded as proven unseen.
RecordTermination_Unseen(a, status) ==
    /\ live[a] # "none"
    /\ attempt[a].proc = "pending"
    /\ attempt[a].status \notin Terminal
    /\ SetAttempt(a, [attempt[a] EXCEPT !.proc = status])
    /\ UNCHANGED <<item, tree, memory>>

\* recordProcessCleanup ("unknown" stands for every status that is not proven).
\* Kernel containment proves a termination only when the tree is gone.  Without
\* it a guardian that was killed before it reported its worker is taken for one
\* that never started it: "proven", whatever lives on (module ProcessRunner).
RecordTermination(a, status) ==
    /\ live[a] # "none"
    /\ attempt[a].proc = "pending"
    /\ attempt[a].status \notin Terminal
    /\ tree[a] # "guarded"
    /\ status = "proven" => tree[a] = "none" \/ a[1] \notin Contained
    /\ SetAttempt(a, [attempt[a] EXCEPT !.proc = status])
    /\ UNCHANGED <<item, tree, memory>>

\* The worker exited with code 0 and its proposal was captured.
StartVerification(a) ==
    /\ Executing(a, {"running"})
    /\ Succeeded(a)
    /\ SetAttempt(a, [attempt[a] EXCEPT !.status = "verifying"])
    /\ UNCHANGED <<item, tree, memory>>

\* The terminal manifest.  A failure may be an error of any phase; a budget
\* breach is raised before the termination of the process is recorded.
EndAttempt(a, status, eligible) ==
    /\ Executing(a, {"claimed", "preparing", "running", "verifying"})
    /\ tree[a] # "guarded"
    /\ \/ status = "failed"
       \/ status = "cancelled" /\ live[a] = "aborted"
       \/ status = "needs-input" /\ attempt[a].status = "preparing"
                                 /\ attempt[a].parents # {} /\ attempt[a].proc = "none"
       \/ status = "completed" /\ attempt[a].status = "verifying" /\ Succeeded(a)
    /\ eligible => status = "completed"
    /\ SetAttempt(a, [attempt[a] EXCEPT !.status = status, !.eligible = eligible])
    /\ UNCHANGED <<item, tree, memory>>

\* The finally clauses: remove a worktree that is not retained (never while
\* other subjects are unproven), then drop the handle.
SettleAttempt(a, ws) ==
    /\ Executing(a, Terminal)
    /\ \/ ws = attempt[a].ws /\ (ws = "pending" => attempt[a].proc = "none")
       \/ attempt[a].ws = "pending" /\ ws = "failed"
       \/ attempt[a].ws = "pending" /\ ws = "proven" /\ ~Unresolved(attempt[a])
    /\ SetAttempt(a, [attempt[a] EXCEPT !.ws = ws])
    /\ live' = [live EXCEPT ![a] = "none"]
    /\ UNCHANGED <<item, tree, phase, exec, lock, pass, rec, awaited>>

\* Storage fails inside executeAttempt: the execution promise rejects and the
\* attempt stays as it is.
RejectExecution(a) ==
    /\ live[a] # "none"
    /\ tree[a] # "guarded"
    /\ live' = [live EXCEPT ![a] = "none"]
    /\ exec' = [exec EXCEPT ![a[1]].at = "failing"]
    /\ UNCHANGED <<durable, tree, phase, lock, pass, rec, awaited>>

-----------------------------------------------------------------------------
(* The owner's requests.                                                   *)

\* The cancel_attempt tool.
AbortAttempt(a) ==
    /\ Serving
    /\ live[a] = "running"
    /\ live' = [live EXCEPT ![a] = "aborted"]
    /\ UNCHANGED <<durable, tree, phase, exec, lock, pass, rec, awaited>>

\* cancel() of an item that has no attempt yet.
CancelWaiting(j) ==
    /\ Serving
    /\ lock.at = "free"
    /\ item[j].status \in {"queued", "dispatching"}
    /\ SetItem(j, [item[j] EXCEPT !.status = "cancelled"])
    /\ UNCHANGED <<attempt, tree, memory>>

\* cancel() of a running item, first update.
CancelRunning(j) ==
    /\ Serving
    /\ lock.at = "free"
    /\ item[j].status = "running"
    /\ SetItem(j, [item[j] EXCEPT !.status = "cancelling"])
    /\ lock' = [at |-> "cancel", job |-> j]
    /\ UNCHANGED <<attempt, tree, phase, live, exec, pass, rec, awaited>>

Cancelling(j) == lock = [at |-> "cancel", job |-> j]

\* Seeded fault: the item is reported cancelled before its attempt is terminal.
CancelSignal_Eager(j) ==
    /\ Cancelling(j)
    /\ live[Bound(j)] # "none"
    /\ live' = [live EXCEPT ![Bound(j)] = "aborted"]
    /\ SetItem(j, [item[j] EXCEPT !.status = "cancelled"])
    /\ lock' = Free
    /\ UNCHANGED <<attempt, tree, phase, exec, pass, rec, awaited>>

\* The attempt executes: abort it and leave the item cancelling.
CancelSignal(j) ==
    /\ Cancelling(j)
    /\ live[Bound(j)] # "none"
    /\ live' = [live EXCEPT ![Bound(j)] = "aborted"]
    /\ lock' = Free
    /\ UNCHANGED <<durable, tree, phase, exec, pass, rec, awaited>>

\* Seeded fault: the status of the attempt is not looked at again.
CancelReserved_Blind(j) ==
    /\ Cancelling(j)
    /\ live[Bound(j)] = "none"
    /\ SetAttempt(Bound(j), [attempt[Bound(j)] EXCEPT !.status = "cancelled"])
    /\ UNCHANGED <<item, tree, memory>>

\* It was never launched: cancelReservedAttempt.
CancelReserved(j) ==
    /\ Cancelling(j)
    /\ live[Bound(j)] = "none"
    /\ attempt[Bound(j)].status \in {"reserved", "claimed"}
    /\ SetAttempt(Bound(j), [attempt[Bound(j)] EXCEPT !.status = "cancelled"])
    /\ UNCHANGED <<item, tree, memory>>

\* It is terminal (also because it has just finished by itself).
CancelConclude(j) ==
    /\ Cancelling(j)
    /\ live[Bound(j)] = "none"
    /\ attempt[Bound(j)].status \in Terminal
    /\ SetItem(j, [item[j] EXCEPT !.status = "cancelled"])
    /\ lock' = Free
    /\ UNCHANGED <<attempt, tree, phase, live, exec, pass, rec, awaited>>

\* Neither: its execution was rejected by storage.
CancelPending(j) ==
    /\ Cancelling(j)
    /\ live[Bound(j)] = "none"
    /\ attempt[Bound(j)].status \in {"preparing", "running", "verifying"}
    /\ lock' = Free
    /\ UNCHANGED <<durable, tree, phase, live, exec, pass, rec, awaited>>

\* A storage error in cancelReservedAttempt or in the last update: it is
\* returned to the caller and the item stays cancelling (a repeated cancel()
\* returns it as it is).
CancelFails(j) ==
    /\ Cancelling(j)
    /\ live[Bound(j)] = "none"
    /\ lock' = Free
    /\ UNCHANGED <<durable, tree, phase, live, exec, pass, rec, awaited>>

\* retry(): refused while the attempt is not terminal or its cleanup not safe.
Retry(j) ==
    /\ Serving
    /\ lock.at = "free"
    /\ item[j].status \in Terminal
    /\ item[j].att # 0 => /\ attempt[Bound(j)].status \in Terminal
                          /\ IsSafe(attempt[Bound(j)])
    /\ SetItem(j, [NoItem EXCEPT !.status = "queued", !.retries = item[j].retries])
    /\ UNCHANGED <<attempt, tree, memory>>

\* removeAttemptWorkspace: refused before the attempt is terminal and while its
\* processes are unproven.  An attempt without processes has a worktree to
\* remove only when its requirement is registered.
RemoveWorkspace(a, ws) ==
    /\ Serving
    /\ a[1] \in Removable
    /\ attempt[a].status \in Terminal
    /\ attempt[a].ws # "proven"
    /\ AllProven(attempt[a]) \/ (attempt[a].proc = "none" /\ attempt[a].ws # "none")
    /\ SetAttempt(a, [attempt[a] EXCEPT !.ws = ws])
    /\ UNCHANGED <<item, tree, memory>>

-----------------------------------------------------------------------------
(* start(): the lease is taken and recoverInterruptedItems runs before any *)
(* request is served.                                                      *)
Nonterminal == AttemptStatus \ Terminal

Start ==
    /\ phase = "down"
    /\ phase' = "recovering"
    /\ rec' = [NoRec EXCEPT !.stage = "bind",
                            !.todo = {j \in Jobs : item[j].status = "dispatching"}]
    /\ UNCHANGED <<durable, tree, live, exec, lock, pass, awaited>>

\* A dispatch intent is joined to the attempts reserved under its operation.
Matching(j) == {a \in Attempts : a[1] = j /\ attempt[a].op = item[j].op}

RecoveredIntent(j) ==
    CASE item[j].op = 0 \/ Cardinality(Matching(j)) > 1 ->
            [item[j] EXCEPT !.status = "needs-input"]
      [] item[j].op # 0 /\ Matching(j) = {} ->
            [item[j] EXCEPT !.status = "queued", !.op = 0, !.att = 0]
      [] OTHER ->
            [item[j] EXCEPT !.status = "running", !.att = (CHOOSE a \in Matching(j) : TRUE)[2]]

RecoverIntent(j) ==
    /\ rec.stage = "bind"
    /\ rec.todo # {}
    /\ j = First(rec.todo)
    /\ SetItem(j, RecoveredIntent(j))
    /\ rec' = [rec EXCEPT !.todo = @ \ {j}]
    /\ UNCHANGED <<attempt, tree, phase, live, exec, lock, pass, awaited>>

\* Seeded fault: cancelling items are forgotten.
StartSettling_OnlyRunning ==
    /\ rec.stage = "bind"
    /\ rec.todo = {}
    /\ rec' = [rec EXCEPT !.stage = "settle",
                 !.todo = {j \in Jobs : item[j].status = "running"}]
    /\ UNCHANGED <<durable, tree, phase, live, exec, lock, pass, awaited>>

StartSettling ==
    /\ rec.stage = "bind"
    /\ rec.todo = {}
    /\ rec' = [rec EXCEPT !.stage = "settle",
                 !.todo = {j \in Jobs : item[j].status \in {"running", "cancelling"}}]
    /\ UNCHANGED <<durable, tree, phase, live, exec, lock, pass, awaited>>

Settling(j) == rec.stage = "settle" /\ rec.todo # {} /\ j = First(rec.todo)

\* The item names no attempt, or one that is already terminal (finishItem).
RecoverFinish(j) ==
    /\ Settling(j)
    /\ rec.found = "none"
    /\ item[j].att # 0 => attempt[Bound(j)].status \in Terminal
    /\ SetItem(j, IF item[j].att = 0
                  THEN [item[j] EXCEPT !.status = "needs-input"]
                  ELSE Completed(item[j], item[j].att, Outcome(Bound(j))))
    /\ rec' = [rec EXCEPT !.todo = @ \ {j}]
    /\ UNCHANGED <<attempt, tree, phase, live, exec, lock, pass, awaited>>

\* The attempt that recoverInterruptedAttempt is working on.
Recovering(a) ==
    \/ rec.stage = "settle" /\ rec.todo # {} /\ a = Bound(First(rec.todo))
    \/ rec.stage = "sweep" /\ rec.sweep # {} /\ a = (CHOOSE b \in rec.sweep : TRUE)

\* Never launched: cancelled as orphaned.
RecoverUnlaunched(a, found, next) ==
    /\ found = "none"
    /\ attempt[a].status \in {"reserved", "claimed"}
    /\ SetAttempt(a, [attempt[a] EXCEPT !.status = "cancelled", !.orphaned = TRUE])
    /\ next = "safe-to-retry"

Interrupted(a) == attempt[a].status \in {"preparing", "running", "verifying"}
GuardianGone(a) == Unresolved(attempt[a]) /\ tree[a] # "guarded"

\* Seeded fault: an attempt without a registered process is waited for.
RecoverBlocked_Waits(a, found, next) ==
    /\ found = "none"
    /\ Interrupted(a)
    /\ Unresolved(attempt[a])
    /\ tree[a] = "guarded"
    /\ next = "still-running"
    /\ UNCHANGED attempt

\* No process was ever registered, or a guardian outlives the grace period.
RecoverBlocked(a, found, next) ==
    /\ found = "none"
    /\ Interrupted(a)
    /\ \/ attempt[a].proc = "none" /\ next = "unknown"
       \/ Unresolved(attempt[a]) /\ tree[a] = "guarded" /\ next = "still-running"
    /\ UNCHANGED attempt

\* The guardian is gone: only kernel containment proves its descendants gone.
RecoverEvidence(a, found, next) ==
    /\ found = "none"
    /\ Interrupted(a)
    /\ GuardianGone(a)
    /\ LET proven == a[1] \in Contained IN
          /\ SetAttempt(a, [attempt[a] EXCEPT !.proc = IF proven THEN "proven" ELSE "unknown"])
          /\ next = IF proven THEN "cleared" ELSE "unknown"

\* Seeded fault: the attempt may have ended meanwhile.
RecoverFail_AnyStatus(a, found, next) ==
    /\ found \in {"none", "cleared"}
    /\ attempt[a].status \notin {"absent", "reserved", "claimed"}
    /\ AllProven(attempt[a])
    /\ SetAttempt(a, [attempt[a] EXCEPT !.status = "failed", !.orphaned = TRUE])
    /\ next = "closing"

RecoverFail(a, found, next) ==
    /\ found \in {"none", "cleared"}
    /\ Interrupted(a)
    /\ AllProven(attempt[a])
    /\ SetAttempt(a, [attempt[a] EXCEPT !.status = "failed", !.orphaned = TRUE])
    /\ next = "closing"

\* Remove the worktree unless it is retained; the cleanup must then be safe.
RecoverWorkspace(a, found, next) ==
    /\ found = "closing"
    /\ \E ws \in (IF attempt[a].ws = "none" THEN {"none"} ELSE {"proven", "failed"}) :
          LET m == [attempt[a] EXCEPT !.ws = ws] IN
             /\ SetAttempt(a, m)
             /\ next = IF IsSafe(m) THEN "safe-to-retry" ELSE "unknown"

\* recoverInterruptedAttempt, one durable update at a time.
RecoveryStep(a, found, next) ==
    \/ RecoverUnlaunched(a, found, next) \/ RecoverBlocked(a, found, next)
    \/ RecoverEvidence(a, found, next) \/ RecoverFail(a, found, next)
    \/ RecoverWorkspace(a, found, next)

\* Seeded fault: one automatic retry too many.
RecoveredItem_OneTooMany(j, it, found) ==
    CASE found # "safe-to-retry" -> [it EXCEPT !.status = "needs-input"]
      [] found = "safe-to-retry" /\ it.status = "cancelling" ->
            [it EXCEPT !.status = "cancelled", !.op = 0, !.done = 0]
      [] OTHER ->
            IF it.retries > MaxAutoRetries[j]
            THEN [it EXCEPT !.status = "needs-input"]
            ELSE [NoItem EXCEPT !.status = "queued", !.retries = it.retries + 1]

\* The queue item after its attempt's recovery.
RecoveredItem(j, it, found) ==
    CASE found # "safe-to-retry" -> [it EXCEPT !.status = "needs-input"]
      [] found = "safe-to-retry" /\ it.status = "cancelling" ->
            [it EXCEPT !.status = "cancelled", !.op = 0, !.done = 0]
      [] OTHER ->
            IF it.retries >= MaxAutoRetries[j]
            THEN [it EXCEPT !.status = "needs-input"]
            ELSE [NoItem EXCEPT !.status = "queued", !.retries = it.retries + 1]

RecoverItem(j) ==
    /\ Settling(j)
    /\ rec.found \in Dispositions
    /\ SetItem(j, RecoveredItem(j, item[j], rec.found))
    /\ rec' = [rec EXCEPT !.todo = @ \ {j}, !.found = "none"]
    /\ UNCHANGED <<attempt, tree, phase, live, exec, lock, pass, awaited>>

Referenced(a) == a = Bound(a[1])

StartSweep ==
    /\ rec.stage = "settle"
    /\ rec.todo = {}
    /\ rec' = [rec EXCEPT !.stage = "sweep",
                 !.sweep = {a \in Attempts : attempt[a].status \in Nonterminal /\ ~Referenced(a)}]
    /\ UNCHANGED <<durable, tree, phase, live, exec, lock, pass, awaited>>

Swept(a) ==
    /\ rec.stage = "sweep"
    /\ Recovering(a)
    /\ rec.found \in Dispositions
    /\ rec' = [rec EXCEPT !.sweep = @ \ {a}, !.found = "none"]
    /\ UNCHANGED <<durable, tree, phase, live, exec, lock, pass, awaited>>

StartLoop ==
    /\ rec.stage = "sweep"
    /\ rec.sweep = {}
    /\ phase' = "looping"
    /\ rec' = NoRec
    /\ UNCHANGED <<durable, tree, live, exec, lock, pass, awaited>>

\* The process exits or dies; only files and worker processes remain.
Crash ==
    /\ phase # "down"
    /\ phase' = "down"
    /\ live' = [a \in Attempts |-> "none"]
    /\ exec' = [j \in Jobs |-> NoExec]
    /\ lock' = Free
    /\ pass' = NoPass
    /\ rec' = NoRec
    /\ awaited' = {}
    /\ UNCHANGED <<durable, tree>>

-----------------------------------------------------------------------------
DispatchStep(j) ==
    \/ SkipItem(j) \/ FailDependent(j) \/ StopAtLimit(j) \/ RecordIntent(j)
    \/ ReserveAttempt(j) \/ RejectLineage(j) \/ BindAttempt(j) \/ PassThrows(j)

ExecuteStep(j) ==
    \/ ClaimAttempt(j) \/ AbandonStart(j) \/ ClaimFails(j)
    \/ LaunchAttempt(j) \/ LaunchFails(j)
    \/ AwaitAttempt(j) \/ AwaitFails(j) \/ FinishItem(j)
    \/ FailItem(j) \/ FailItemFails(j)

CancelStep(j) ==
    \/ CancelSignal(j) \/ CancelReserved(j) \/ CancelConclude(j)
    \/ CancelPending(j) \/ CancelFails(j)

AttemptStep(a) ==
    \/ PrepareAttempt(a)
    \/ StartWorker(a)
    \/ Spawn(a)
    \/ \E s \in {"proven", "unknown"} : RecordTermination(a, s)
    \/ StartVerification(a)
    \/ \E s \in Terminal, e \in BOOLEAN : EndAttempt(a, s, e)
    \/ \E ws \in {"none", "pending", "proven", "failed"} : SettleAttempt(a, ws)
    \/ RejectExecution(a)

RecoverJob(j) == RecoverIntent(j) \/ RecoverFinish(j) \/ RecoverItem(j)

RecoverAttempt(a) ==
    \/ /\ Recovering(a)
       /\ \E next \in Found : /\ RecoveryStep(a, rec.found, next)
                              /\ rec' = [rec EXCEPT !.found = next]
       /\ UNCHANGED <<item, tree, phase, live, exec, lock, pass, awaited>>
    \/ Swept(a)

Request ==
    \/ \E j \in Jobs : Enqueue(j) \/ CancelWaiting(j) \/ CancelRunning(j) \/ Retry(j)
    \/ \E a \in Attempts : \/ AbortAttempt(a)
                           \/ \E ws \in {"proven", "failed"} : RemoveWorkspace(a, ws)
    \/ StartPass("submit")
    \/ \E abort \in BOOLEAN : StopLoop(abort)

\* What the running process does by itself.
Internal ==
    \/ StartPass("loop") \/ EndPass \/ ReleaseLease
    \/ \E j \in Jobs : DispatchStep(j) \/ ExecuteStep(j) \/ CancelStep(j)
    \/ \E a \in Attempts : AttemptStep(a)

Recovery ==
    \/ StartSettling \/ StartSweep \/ StartLoop
    \/ \E j \in Jobs : RecoverJob(j)
    \/ \E a \in Attempts : RecoverAttempt(a)

ProcessStep == \E a \in Attempts, left \in {"none", "orphaned"} : TreeEnds(a, left)

Next == Request \/ Internal \/ Recovery \/ ProcessStep \/ Start \/ Crash

Spec == Init /\ [][Next]_vars

\* What the code's scheduling justifies: the process runs its callbacks, the
\* state lock is a FIFO queue (so a waiter is served even though the lock is
\* taken in between), every attempt has a deadline (attemptTimeoutMs) and every
\* process tree is killed at its timeout.  Requests, crashes, restarts and the
\* owner's actions carry no fairness.
Fairness ==
    /\ SF_vars(StartPass("loop"))
    /\ WF_vars(EndPass)
    /\ WF_vars(ReleaseLease)
    /\ WF_vars(Recovery)
    /\ \A j \in Jobs : /\ WF_vars(DispatchStep(j))
                       /\ SF_vars(ExecuteStep(j))
                       /\ WF_vars(CancelStep(j))
    /\ \A a \in Attempts :
          /\ SF_vars(\E s \in Terminal, e \in BOOLEAN : EndAttempt(a, s, e))
          /\ WF_vars(\E ws \in {"none", "pending", "proven", "failed"} : SettleAttempt(a, ws))
          /\ WF_vars(TreeEnds(a, "none"))

FairSpec == Spec /\ Fairness

-----------------------------------------------------------------------------
(* Properties.                                                             *)

\* Two attempts of one job with kernel containment never work at the same time:
\* while one of them has a live process tree or an abort handle, no other
\* attempt of the job does.  Crashes, recovery, cancellation and retries
\* included: this is what "retry would duplicate active work" and "automatic
\* duplication is prohibited" guard.  (A job without containment has no such
\* guarantee, see RecordTermination.)
Busy(a) == tree[a] # "none" \/ live[a] # "none"
NoDuplicateWork ==
    \A a, b \in Attempts :
        a[1] \in Contained /\ a[1] = b[1] /\ Busy(a) /\ Busy(b) => a = b

\* A completed item is backed by the attempt it names: completed, eligible,
\* its processes proven gone and really gone.
CompletedHasEvidence ==
    \A j \in Jobs : item[j].status = "completed" =>
        /\ item[j].done = item[j].att /\ item[j].att # 0
        /\ LET m == attempt[Bound(j)] IN
              m.status = "completed" /\ m.eligible /\ m.proc = "proven"
        /\ tree[Bound(j)] = "none"

\* Every parent an attempt builds on is, for good, a completed and eligible
\* attempt of the dependency, even when the dependency itself is retried while
\* the child is being dispatched or runs.
LineageIsEvidence ==
    \A a \in Attempts :
        /\ attempt[a].status # "absent" => {p[1] : p \in attempt[a].parents} = Deps[a[1]]
        /\ \A p \in attempt[a].parents :
              p \in Attempts /\ attempt[p].status = "completed" /\ attempt[p].eligible

\* An attempt with an abort handle is the one its queue item is bound to, and
\* that item is running or cancelling: what executes is always visible and can
\* be cancelled through the queue.
ExecutionIsBound ==
    \A a \in Attempts : live[a] # "none" =>
        a = Bound(a[1]) /\ item[a[1]].status \in {"running", "cancelling"}

\* The process never executes more attempts than maxConcurrent.
ConcurrencyBound == Cardinality({a \in Attempts : live[a] # "none"}) <= MaxConcurrent

\* When the loop starts, recovery has settled everything a dead process left:
\* no item is dispatching, running or cancelling, and no attempt that could
\* still be launched or is still running is unknown to the queue, unless its
\* processes could not be proven gone.
RecoverySettles ==
    [][phase = "recovering" /\ phase' = "looping" =>
          /\ \A j \in Jobs : item'[j].status \notin {"dispatching", "running", "cancelling"}
          /\ \A a \in Attempts :
                attempt'[a].status \in Nonterminal =>
                    Referenced(a)' /\ item'[a[1]].status \in {"needs-input", "failed"}]_vars

\* Queue items move along allowedQueueTransitions, attempts along
\* allowedAttemptTransitions: no handler asks the store for an illegal update
\* except finishItem and its catch clause, whose refusal is handled.
StepsAreLegal ==
    [][/\ \A j \in Jobs : item[j] # item'[j] /\ item[j].status # "absent" =>
              item'[j].status \in allowedQueueTransitions[item[j].status]
       /\ \A a \in Attempts :
              attempt[a].status # attempt'[a].status /\ attempt[a].status # "absent" =>
              attempt'[a].status \in allowedAttemptTransitions[attempt[a].status]]_vars

\* An item that may run is not forgotten: while the loop runs and its
\* dependencies stay completed, it leaves "queued", whatever executions of
\* earlier attempts are still being wound up.
ReadyItemsAreDispatched ==
    \A j \in Jobs :
        LET Ready == /\ item[j].status = "queued"
                     /\ phase = "looping"
                     /\ \A d \in Deps[j] : item[d].status = "completed"
        IN  Ready ~> ~Ready

\* Recovery always comes to an end: a start serves requests or the process dies.
RecoveryEnds == phase = "recovering" ~> phase \in {"looping", "down"}

-----------------------------------------------------------------------------
(* What the documents say and the code does not do (see the findings).     *)

\* "stale callback after retry ... current state remains unchanged": the
\* completion recorded for an item is that of the attempt it is bound to.
StaleCallbackChangesNothing ==
    [][\A j \in Jobs :
          item'[j].done \notin {0, item[j].done} => item'[j].done = item[j].att]_vars

\* "Only one dispatcher lease owns queue-to-process transitions": nothing
\* executes in a process that has released its lease.
LeaseCoversExecutions == phase = "released" => Active = {}

\* "cancel the orphan attempt, clear the binding, then permit one new attempt":
\* a running item whose attempt recovery cancelled as an orphan is requeued,
\* it does not end cancelled.
OrphanIsRequeued ==
    [][\A j \in Jobs :
          /\ item[j].status = "running"
          /\ item'[j].status = "cancelled"
          => ~attempt[Bound(j)].orphaned]_vars
=============================================================================
