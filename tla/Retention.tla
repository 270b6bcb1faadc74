------------------------------ MODULE Retention ------------------------------
(***************************************************************************)
(* RetentionManager: plans for the removal of expired attempts and their   *)
(* application, by several owner processes, beside removeAttemptWorkspace  *)
(* called through MCP and beside the attempts themselves.                  *)
(*                                                                         *)
(* A plan is a file: any owner may apply it, at any later time, again, or  *)
(* while another owner does.  Every await between a check and the change   *)
(* that relies on it ends an action.                                       *)
(***************************************************************************)
EXTENDS Naturals, Sequences, FiniteSets, FiniteSetsExt

CONSTANTS
    NAttempts,      \* number of attempts; they are listed in this order
    NFiles,         \* number of prunable files of an attempt, removed in this order
    Retained,       \* the attempts whose contract retains the workspace
    Plans,          \* the plans that are made
    Owners,         \* processes that apply plans
    Callers,        \* MCP processes that remove workspaces
    MaxCalls,       \* bound on the calls of the MCP processes
    MaxCrashes,     \* bound on the processes that die
    None

ASSUME NumbersAssumption == NAttempts \in Nat /\ NFiles \in Nat /\ MaxCalls \in Nat /\ MaxCrashes \in Nat
ASSUME RetainedAssumption == Retained \subseteq 1 .. NAttempts
ASSUME ActorsAssumption == Owners \cap Callers = {} /\ None \notin Plans
ASSUME NoneAssumption == None \notin [plan : Plans, files : SUBSET (1 .. NFiles)]

VARIABLES
    attempt,    \* the manifest, the cleanup record and the files of each attempt
    plan,       \* the plans on disk
    action,     \* gc/actions/<planId>.json
    actor,      \* what each process is doing
    dirty,      \* the plans under which something has been deleted
    calls,      \* how many calls the MCP processes have made
    crashes     \* how many processes have died

vars == <<attempt, plan, action, actor, dirty, calls, crashes>>
count == <<calls, crashes>>

Attempts == 1 .. NAttempts
Files == 1 .. NFiles
Actors == Owners \cup Callers

\* The tombstone of pruned artifacts: the plan and the files that it removed.
Tomb == [plan : Plans, files : SUBSET Files]

\* The latest evidence on the worker's process tree (proc) and on the worktree
\* (ws); none while the worktree is not registered.
Attempt == [status : {"running", "terminal"}, eligible : BOOLEAN, expired : BOOLEAN,
            worktree : BOOLEAN, files : SUBSET Files, tomb : {None} \cup Tomb,
            crev : Nat, proc : {"pending", "proven", "unknown"},
            ws : {"none", "pending", "proven", "failed"}]

Candidate == [attempt : Attempts, kind : {"workspace", "attempt-artifacts"}, crev : Nat,
              files : SUBSET Files]

Idle == [at |-> "idle", plan |-> None, target |-> None, k |-> 1, left |-> {}, late |-> FALSE]

Places == {"idle", "validate", "complete", "check", "register", "look", "git", "append",
           "appendFailed", "rm", "fail"}
Activity == [at : Places, plan : {None} \cup Plans, target : {None} \cup Attempts,
             k : 1 .. NAttempts + 1, left : SUBSET Files, late : BOOLEAN]

TypeOK ==
    /\ attempt \in [Attempts -> Attempt]
    /\ plan \in [Plans -> {None} \cup Seq(Candidate)]
    /\ action \in [Plans -> {"none", "approved", "failed", "completed"}]
    /\ actor \in [Actors -> Activity]
    /\ dirty \subseteq Plans /\ calls \in 0 .. MaxCalls /\ crashes \in 0 .. MaxCrashes

Init ==
    /\ attempt = [a \in Attempts |->
         [status |-> "running", eligible |-> FALSE, expired |-> FALSE, worktree |-> TRUE,
          files |-> Files, tomb |-> None, crev |-> 0, proc |-> "pending",
          ws |-> IF a \in Retained THEN "none" ELSE "pending"]]
    /\ plan = [p \in Plans |-> None] /\ action = [p \in Plans |-> "none"]
    /\ actor = [x \in Actors |-> Idle] /\ dirty = {} /\ calls = 0 /\ crashes = 0

-----------------------------------------------------------------------------
(* Attempts                                                                *)

Cleanup(a, c) == attempt' = [attempt EXCEPT ![a] = [c EXCEPT !.crev = attempt[a].crev + 1]]

\* executeAttempt ends: the process tree's evidence and the verdict are recorded
\* (eligible: completed, and eligible for review).  An unproven termination fails it.
Finish(a, eligible, proc) ==
    /\ attempt[a].status = "running" /\ (eligible => proc = "proven")
    /\ Cleanup(a, [attempt[a] EXCEPT !.status = "terminal", !.eligible = eligible, !.proc = proc])
    /\ UNCHANGED <<plan, action, actor, dirty, count>>

\* Its finally removes a workspace that is not retained, once every other subject
\* is proven.
RemoveOwn(a) ==
    /\ attempt[a].status # "running" /\ attempt[a].ws = "pending" /\ a \notin Retained
    /\ \/ attempt[a].proc = "proven" /\ Cleanup(a, [attempt[a] EXCEPT !.worktree = FALSE, !.ws = "proven"])
       \/ Cleanup(a, [attempt[a] EXCEPT !.ws = "failed"])
    /\ UNCHANGED <<plan, action, actor, dirty, count>>

\* The retention period of the contract passes.
Expire(a) ==
    /\ attempt[a].status # "running" /\ ~ attempt[a].expired
    /\ attempt' = [attempt EXCEPT ![a].expired = TRUE]
    /\ UNCHANGED <<plan, action, actor, dirty, count>>

deriveCleanupStatus(c) ==
    LET states == {c.proc, c.ws} IN
    IF "failed" \in states THEN "failed"
    ELSE IF "unknown" \in states THEN "unknown"
    ELSE IF "pending" \in states THEN "pending" ELSE "proven"

-----------------------------------------------------------------------------
(* dryRun                                                                  *)

\* Seeded fault: a proposal that waits for its review is like any other attempt.
classifyRetention_unreviewed(a) ==
    LET c == attempt[a] IN
    IF c.status = "running" THEN "active"
    ELSE IF deriveCleanupStatus(c) # "proven" THEN "quarantine"
    ELSE IF c.expired THEN "expired" ELSE "retained"

\* No code gives an attempt an authoritative review disposition.
classifyRetention(a) ==
    LET c == attempt[a] IN
    IF c.status = "running" THEN "active"
    ELSE IF deriveCleanupStatus(c) # "proven" THEN "quarantine"
    ELSE IF c.eligible THEN "reviewable"
    ELSE IF c.expired THEN "expired" ELSE "retained"

\* Seeded fault: one pass, in which the files do not wait for the worktree.
Proposed_onePass(a) ==
    LET c == attempt[a] IN
    IF classifyRetention(a) # "expired" \/ c.files = {} THEN {}
    ELSE {[attempt |-> a, kind |-> "attempt-artifacts", crev |-> c.crev, files |-> c.files]}

\* What a dry run proposes for an attempt: first the worktree, and the files only
\* when that is proven gone.
Proposed(a) ==
    LET c == attempt[a]
        unproven == a \in Retained /\ c.ws # "proven"
        entry(kind, files) == {[attempt |-> a, kind |-> kind, crev |-> c.crev, files |-> files]} IN
    IF classifyRetention(a) # "expired" THEN {}
    ELSE IF unproven /\ c.worktree THEN entry("workspace", {})
    ELSE IF unproven \/ c.files = {} THEN {}
    ELSE entry("attempt-artifacts", c.files)

\* The candidates in the order of listAttempts: the one sequence that lists them all.
candidates ==
    LET all == UNION {Proposed(a) : a \in Attempts} IN
    {s \in [1 .. Cardinality(all) -> all] :
        \A i, j \in DOMAIN s : i < j => s[i].attempt < s[j].attempt}

\* A plan without candidates is not worth keeping.
DryRun(p) ==
    /\ plan[p] = None
    /\ \E s \in candidates : s # <<>> /\ plan' = [plan EXCEPT ![p] = s]
    /\ UNCHANGED <<attempt, action, actor, dirty, count>>

-----------------------------------------------------------------------------
(* apply: every check, then the action record, then the deletions          *)

At(x, place) == actor[x].at = place
Goto(x, place) == actor' = [actor EXCEPT ![x].at = place]
Stop(x) == actor' = [actor EXCEPT ![x] = Idle]
Throw(x) == IF x \in Owners THEN Goto(x, "fail") ELSE Stop(x)

current(x) == plan[actor[x].plan]
candidate(x) == current(x)[actor[x].k]

\* The loop over plan.candidates, at candidate k.
Take(x, k) ==
    actor' = [actor EXCEPT ![x] =
        IF k > Len(current(x)) THEN [@ EXCEPT !.at = "complete", !.k = k]
        ELSE LET c == current(x)[k] IN
             [@ EXCEPT !.at = IF c.kind = "workspace" THEN "check" ELSE "rm", !.k = k,
                       !.target = c.attempt, !.left = c.files]]

\* assertPlanIntegrity and assertApproval.  The plan's expiry only refuses, so every
\* time is taken to be inside its validity window.
Begin(x, p) ==
    /\ At(x, "idle") /\ plan[p] # None
    /\ actor' = [actor EXCEPT ![x] = [Idle EXCEPT !.at = "validate", !.plan = p, !.late = p \in dirty]]
    /\ UNCHANGED <<attempt, plan, action, dirty, count>>

\* Seeded fault: the revisions are compared, the files are not.
Bound_revisionOnly(c) ==
    /\ attempt[c.attempt].crev = c.crev
    /\ c.kind = "workspace" => attempt[c.attempt].worktree

\* The bindings of a candidate still hold.
Bound(c) ==
    /\ attempt[c.attempt].crev = c.crev
    /\ c.kind = "workspace" => attempt[c.attempt].worktree
    /\ c.files \subseteq attempt[c.attempt].files

\* revalidate, candidate by candidate; a stale one ends the call and leaves no trace.
Validate(x) ==
    /\ At(x, "validate") /\ actor[x].k <= Len(current(x))
    /\ IF Bound(candidate(x)) THEN actor' = [actor EXCEPT ![x].k = @ + 1]
       ELSE Stop(x)
    /\ UNCHANGED <<attempt, plan, action, dirty, count>>

\* Seeded fault: the first action record is the one of the outcome.
Approve_unrecorded(x) ==
    /\ At(x, "validate") /\ actor[x].k > Len(current(x))
    /\ Take(x, 1)
    /\ UNCHANGED <<attempt, plan, action, dirty, count>>

\* The action record is written before the first deletion.
Approve(x) ==
    /\ At(x, "validate") /\ actor[x].k > Len(current(x))
    /\ action' = [action EXCEPT ![actor[x].plan] = "approved"]
    /\ Take(x, 1)
    /\ UNCHANGED <<attempt, plan, dirty, count>>

\* Seeded fault: a file that cannot be removed is skipped.
RemoveFile_skips(x) ==
    /\ At(x, "rm") /\ actor[x].left # {}
    /\ LET f == Min(actor[x].left) IN
       /\ attempt' \in {attempt, [attempt EXCEPT ![actor[x].target].files = @ \ {f}]}
       /\ actor' = [actor EXCEPT ![x].left = @ \ {f}]
    /\ dirty' = dirty \cup {actor[x].plan}
    /\ UNCHANGED <<plan, action, count>>

\* One rm, which fails when the file is gone or cannot be removed.
RemoveFile(x) ==
    /\ At(x, "rm") /\ actor[x].left # {}
    /\ LET f == Min(actor[x].left) IN
       \/ /\ f \in attempt[actor[x].target].files
          /\ attempt' = [attempt EXCEPT ![actor[x].target].files = @ \ {f}]
          /\ actor' = [actor EXCEPT ![x].left = @ \ {f}]
          /\ dirty' = dirty \cup {actor[x].plan}
       \/ Throw(x) /\ UNCHANGED <<attempt, dirty>>
    /\ UNCHANGED <<plan, action, count>>

Tombstone(x) ==
    /\ At(x, "rm") /\ actor[x].left = {}
    /\ attempt' = [attempt EXCEPT ![actor[x].target].tomb =
                     [plan |-> actor[x].plan, files |-> candidate(x).files]]
    /\ Take(x, actor[x].k + 1)
    /\ UNCHANGED <<plan, action, dirty, count>>

Complete(x) ==
    /\ At(x, "complete")
    /\ action' = [action EXCEPT ![actor[x].plan] = "completed"]
    /\ Stop(x)
    /\ UNCHANGED <<attempt, plan, dirty, count>>

RecordFailure(x) ==
    /\ At(x, "fail")
    /\ action' = [action EXCEPT ![actor[x].plan] = "failed"]
    /\ Stop(x)
    /\ UNCHANGED <<attempt, plan, dirty, count>>

-----------------------------------------------------------------------------
(* removeAttemptWorkspace, for a candidate or for an MCP caller            *)

Call(x, a) ==
    /\ At(x, "idle") /\ calls < MaxCalls
    /\ calls' = calls + 1
    /\ actor' = [actor EXCEPT ![x].at = "check", ![x].target = a]
    /\ UNCHANGED <<attempt, plan, action, dirty, crashes>>

Return(x) == IF x \in Owners THEN Take(x, actor[x].k + 1) ELSE Stop(x)

\* An active attempt and an unresolved subject throw; a workspace that is not
\* retained, or proven gone, is left alone.
CheckRemoval(x) ==
    /\ At(x, "check")
    /\ LET a == actor[x].target IN
       IF attempt[a].status = "running" THEN Throw(x)
       ELSE IF a \notin Retained THEN Return(x)
       ELSE IF attempt[a].proc # "proven" THEN Throw(x)
       ELSE IF attempt[a].ws = "proven" THEN Return(x)
       ELSE Goto(x, "register")
    /\ UNCHANGED <<attempt, plan, action, dirty, count>>

\* A change of the cleanup record that another process makes as well: the record's
\* revision makes one of the two fail.
Contended(x) ==
    \E y \in Actors \ {x} : /\ actor[y].target = actor[x].target
                            /\ actor[y].at \in {"register", "append", "appendFailed"}

\* registerCleanupRequirement: nothing changes when the subject is registered.
Register(x) ==
    /\ At(x, "register")
    /\ LET a == actor[x].target IN
       \/ /\ IF attempt[a].ws = "none" THEN Cleanup(a, [attempt[a] EXCEPT !.ws = "pending"])
             ELSE UNCHANGED attempt
          /\ Goto(x, "look")
       \/ Contended(x) /\ attempt[a].ws = "none" /\ Throw(x) /\ UNCHANGED attempt
    /\ UNCHANGED <<plan, action, dirty, count>>

\* workspaces.remove: a worktree that is not there only has to be pruned.
LookForWorktree(x) ==
    /\ At(x, "look")
    /\ IF attempt[actor[x].target].worktree THEN Goto(x, "git")
       ELSE Goto(x, "append") \/ Goto(x, "appendFailed")
    /\ UNCHANGED <<attempt, plan, action, dirty, count>>

\* git worktree remove: it fails when somebody else was first, and it may have
\* removed the worktree when its closure is not proven.
GitRemove(x) ==
    /\ At(x, "git")
    /\ LET there == attempt[actor[x].target].worktree IN
       /\ attempt' \in {attempt, [attempt EXCEPT ![actor[x].target].worktree = FALSE]}
       /\ \/ there /\ attempt' # attempt /\ Goto(x, "append")
          \/ Goto(x, "appendFailed")
    /\ dirty' = IF attempt' # attempt /\ x \in Owners THEN dirty \cup {actor[x].plan} ELSE dirty
    /\ UNCHANGED <<plan, action, count>>

\* The evidence, or a conflict: the catch then records a failure.
AppendProven(x) ==
    /\ At(x, "append")
    /\ \/ Cleanup(actor[x].target, [attempt[actor[x].target] EXCEPT !.ws = "proven"]) /\ Return(x)
       \/ Contended(x) /\ Goto(x, "appendFailed") /\ UNCHANGED attempt
    /\ UNCHANGED <<plan, action, dirty, count>>

AppendFailed(x) ==
    /\ At(x, "appendFailed")
    /\ \/ Cleanup(actor[x].target, [attempt[actor[x].target] EXCEPT !.ws = "failed"])
       \/ Contended(x) /\ UNCHANGED attempt
    /\ Throw(x)
    /\ UNCHANGED <<plan, action, dirty, count>>

-----------------------------------------------------------------------------
\* A process dies; the action it was at stays approved.
Crash(x) ==
    /\ ~ At(x, "idle") /\ crashes < MaxCrashes
    /\ crashes' = crashes + 1
    /\ Stop(x)
    /\ UNCHANGED <<attempt, plan, action, dirty, calls>>

\* inspectActions: the actions shown as pending or failed.
inspectActions == {p \in Plans : action[p] \in {"approved", "failed"}}

Apply(x) ==
    \/ \E p \in Plans : Begin(x, p)
    \/ Validate(x) \/ Approve(x) \/ RemoveFile(x) \/ Tombstone(x)
    \/ Complete(x) \/ RecordFailure(x)

RemoveWorkspace(x) ==
    \/ CheckRemoval(x) \/ Register(x) \/ LookForWorktree(x) \/ GitRemove(x)
    \/ AppendProven(x) \/ AppendFailed(x)

Next ==
    \/ \E a \in Attempts, e \in BOOLEAN, r \in {"proven", "unknown"} : Finish(a, e, r)
    \/ \E a \in Attempts : RemoveOwn(a) \/ Expire(a)
    \/ \E p \in Plans : DryRun(p)
    \/ \E x \in Owners : Apply(x)
    \/ \E x \in Callers, a \in Attempts : Call(x, a)
    \/ \E x \in Actors : RemoveWorkspace(x) \/ Crash(x)

Spec == Init /\ [][Next]_vars

-----------------------------------------------------------------------------
\* Only what is terminal, expired and not waiting for a review loses files,
\* whatever happens between the plan and its application (dryRun, revalidate).
OnlyExpiredIsPruned ==
    \A a \in Attempts : attempt[a].files # Files =>
        /\ attempt[a].status = "terminal" /\ attempt[a].expired /\ ~ attempt[a].eligible
        /\ attempt[a].proc = "proven"

\* The evidence of an attempt outlives its worktree: no file goes while the worktree
\* is there (the two passes of dryRun).
WorktreeFirst == \A a \in Attempts : attempt[a].files # Files => ~ attempt[a].worktree

\* A file that is gone is named by the attempt's tombstone, or by an action that
\* inspectActions shows: no crash and no concurrent application loses track of a
\* deletion.
DeletionIsAccounted ==
    \A a \in Attempts : \A f \in Files \ attempt[a].files :
        \/ attempt[a].tomb # None /\ f \in attempt[a].tomb.files
        \/ \E p \in inspectActions : \E i \in 1 .. Len(plan[p]) :
                                  LET c == plan[p][i] IN c.attempt = a /\ f \in c.files

\* An action that is recorded as completed has removed everything that it names.
CompletedMeansRemoved ==
    \A p \in Plans : action[p] = "completed" =>
        \A i \in 1 .. Len(plan[p]) :
            LET c == plan[p][i] IN
            IF c.kind = "workspace" THEN ~ attempt[c.attempt].worktree
            ELSE c.files \cap attempt[c.attempt].files = {} /\ attempt[c.attempt].tomb # None

\* Once something has been deleted under a plan, no later application of that plan
\* gets past revalidate: an interrupted action is never replayed.
NoReplay == \A x \in Owners : actor[x].late => actor[x].at \in {"idle", "validate"}
=============================================================================
