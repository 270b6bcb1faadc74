----------------------------- MODULE Reconciler -----------------------------
(***************************************************************************)
(* The runtime reconciler beside the dispatcher: it inspects the queue and *)
(* the attempts, proposes repairs, and applies those the owner approved    *)
(* while it holds the dispatcher lease.  Callers of apply() run in         *)
(* processes of their own: they may interleave, die between any two steps  *)
(* and repeat an action they do not know the result of.                    *)
(*                                                                         *)
(* An evidence token is a hash of whole records, revisions included.  What *)
(* matters of it is whether those records were updated since they were     *)
(* read, so a proposal carries the set of its records that were.           *)
(***************************************************************************)
EXTENDS Dispatch

CONSTANTS Callers,   \* calls to inspect() and apply() that run concurrently
          Actions,   \* bound: identities of the approved actions
          None       \* no caller, no action

ASSUME ReconcilerAssumption == None \notin Callers /\ None \notin Actions

VARIABLES approved,  \* the proposal each approved action carries
          results,   \* result.json of each action: its disposition
          holder,    \* the caller that holds the dispatcher lease
          call       \* each caller: where it is and what it has read

\* History, read by no action: the queue updates that each action has made.
VARIABLE applied

own == <<approved, results, holder, call, applied>>
allvars == <<vars, own>>

Kinds == {"reset", "quarantine", "bind", "synchronize", "recover"}
Records == {"item", "manifest", "cleanup"}

\* The records whose state a proposal's evidence token binds.
TokenOf(kind) ==
    CASE kind \in {"reset", "quarantine"} -> {"item"}
      [] kind = "bind"        -> {"item", "manifest"}
      [] kind = "synchronize" -> Records
      [] kind = "recover"     -> {"manifest", "cleanup"}

\* A proposal names an item, an attempt (0 when it has none), for a binding
\* also the dispatch operation, and the records that were updated since.
Proposal == [kind : Kinds, job : Jobs, att : Ordinal, op : Nat, moved : SUBSET Records]
NoProposal == [kind |-> "none"]
Subject(p) == <<p.job, p.att>>
Proposes(kind, j, n, op) == [kind |-> kind, job |-> j, att |-> n, op |-> op, moved |-> {}]

\* can: the lease inspection found no owner; seen: the items listed; moved: the
\* jobs whose items were updated since they were read; same: the record that a
\* decision rests on is still the one it was; next: the item to be written.
Nobody == [j \in Jobs |-> NoItem]
Idle == [at |-> "idle", id |-> None, can |-> FALSE, seen |-> Nobody, moved |-> {},
         same |-> FALSE, next |-> NoItem, found |-> "none", out |-> "none"]

\* The disposition a result records; "none" while there is no result.
ResultStatus == {"none", "applied", "blocked"}

ReconcilerTypeOK ==
    /\ approved \in [Actions -> Proposal \cup {NoProposal}]
    /\ results \in [Actions -> ResultStatus]
    /\ holder \in Callers \cup {None}
    /\ call \in [Callers -> [at : {"idle", "replay", "items", "attempts", "recheck", "acquire",
                                   "check", "mutate", "repair", "record"},
                             id : Actions \cup {None}, can : BOOLEAN, seen : [Jobs -> Item],
                             moved : SUBSET Jobs, same : BOOLEAN, next : Item,
                             found : Found, out : ResultStatus]]
    /\ applied \in [Actions -> Nat]

OwnInit ==
    /\ approved = [i \in Actions |-> NoProposal]
    /\ results = [i \in Actions |-> "none"]
    /\ holder = None
    /\ call = [c \in Callers |-> Idle]
    /\ applied = [i \in Actions |-> 0]

-----------------------------------------------------------------------------
(* inspectQueueAttemptRelationships, for a queue without an owner: what is *)
(* offered for the items listed and the attempts in the store.             *)
Exists(a) == a \in Attempts /\ attempt[a].status # "absent"

SameOperation(j, op) == {a \in Attempts : a[1] = j /\ Exists(a) /\ attempt[a].op = op}

Bare(it) == it.op = 0 /\ it.att = 0 /\ it.done = 0

\* A dispatch intent that names no attempt, and an item that names one.
Intent(it) == it.status = "dispatching" /\ it.op # 0 /\ it.att = 0
Names(it) == it.att # 0 /\ it.status \notin {"absent", "queued"}
                        /\ (it.status = "dispatching" => it.op # 0)

\* The attempt an item is joined to by exact identity, as a set.  (An attempt
\* of another job counts as missing.)
JoinedTo(j, it) ==
    IF Intent(it)
    THEN {a \in SameOperation(j, it.op) : SameOperation(j, it.op) = {a}}
    ELSE {a \in {<<j, it.att>>} : Names(it) /\ Exists(a) /\ attempt[a].op = it.op}

\* queueMatchesAttempt.  The completion's copy of the evidence is the status it
\* implies.
QueueMatchesAttempt(it, a) ==
    it.status = Outcome(a) /\ it.att = a[2] /\ it.done = a[2]

ResetOffered(j, it) ==
    \/ it.status = "queued" /\ ~Bare(it)
    \/ Intent(it) /\ SameOperation(j, it.op) = {}

QuarantineOffered(j, it) ==
    \/ it.status = "dispatching" /\ it.op = 0
    \/ it.status \in {"running", "cancelling"} /\ it.att = 0
    \/ Intent(it) /\ Cardinality(SameOperation(j, it.op)) > 1
    \/ it.status \in Terminal /\ it.att = 0 /\ (it.status = "completed" \/ it.done # 0)
    \/ Names(it) /\ JoinedTo(j, it) = {}

BindOffered(it, a) == it.status = "dispatching" /\ attempt[a].status \notin Terminal

SynchronizeOffered(it, a) ==
    /\ attempt[a].status \in Terminal
    /\ it.status \in Terminal => ~QueueMatchesAttempt(it, a)

\* Seeded fault: only attempts that no item is joined to are recovered.
RecoverOffered_Unreferenced(items, a) ==
    /\ Exists(a) /\ attempt[a].status \notin Terminal
    /\ \A j \in Jobs : a \notin JoinedTo(j, items[j])

\* Every attempt that is not terminal, unless a binding is offered for it.
RecoverOffered(items, a) ==
    /\ Exists(a) /\ attempt[a].status \notin Terminal
    /\ \A j \in Jobs : a \in JoinedTo(j, items[j]) => items[j].status # "dispatching"

Offers(items) ==
    {Proposes("reset", j, 0, 0) : j \in {k \in Jobs : ResetOffered(k, items[k])}}
    \cup {Proposes("quarantine", j, 0, 0) : j \in {k \in Jobs : QuarantineOffered(k, items[k])}}
    \cup (UNION {{Proposes("bind", j, a[2], items[j].op) :
                    a \in {b \in JoinedTo(j, items[j]) : BindOffered(items[j], b)}} : j \in Jobs})
    \cup (UNION {{Proposes("synchronize", j, a[2], 0) :
                    a \in {b \in JoinedTo(j, items[j]) : SynchronizeOffered(items[j], b)}} : j \in Jobs})
    \cup {Proposes("recover", a[1], a[2], 0) : a \in {b \in Attempts : RecoverOffered(items, b)}}

-----------------------------------------------------------------------------
(* Evidence tokens.                                                        *)
Manifest(m) == <<m.status, m.op, m.parents, m.eligible, m.orphaned>>
CleanupRecord(m) == <<m.proc, m.ws>>

\* A recovery that appends "unknown" once more leaves only a new revision.
Reappended(a) ==
    /\ GuardianGone(a)
    /\ \/ Recovering(a) /\ rec.found = "none" /\ rec'.found = "unknown"
       \/ \E c \in Callers : /\ call[c].at = "repair" /\ a = Subject(approved[call[c].id])
                             /\ call[c].found = "none" /\ call'[c].found = "unknown"

\* The records of a proposal's token that this step updates.
Updated(p) ==
    LET a == Subject(p) IN
    {r \in TokenOf(p.kind) :
        \/ r = "item" /\ item'[p.job] # item[p.job]
        \/ r = "manifest" /\ Manifest(attempt'[a]) # Manifest(attempt[a])
        \/ r = "cleanup" /\ CleanupRecord(attempt'[a]) # CleanupRecord(attempt[a])
        \/ r = "cleanup" /\ Reappended(a)}

\* Every step that updates records ages what was read before it.
Aged(p) == IF p = NoProposal THEN p ELSE [p EXCEPT !.moved = @ \cup Updated(p)]
AgeProposals == approved' = [i \in Actions |-> Aged(approved[i])]
AgedCall(k) ==
    CASE k.at = "mutate" \/ (k.at = "attempts" /\ k.id = None) ->
            [k EXCEPT !.moved = @ \cup {j \in Jobs : item'[j] # item[j]}]
      [] k.at = "repair" /\ k.found = "cleared" ->
            LET a == Subject(approved[k.id]) IN
            [k EXCEPT !.same = @ /\ Manifest(attempt'[a]) = Manifest(attempt[a])]
      [] OTHER -> k

\* The token of an action, computed now, is the one of its proposal.
TokenHolds(p) == p.moved = {}

-----------------------------------------------------------------------------
(* inspect(): the lease, then the items, then the attempts.                *)
Goto(c, at) == call' = [call EXCEPT ![c].at = at]
NobodyOwns == ~HoldsLease /\ holder = None

\* A report that offers nothing, or whose offers nobody approves, changes nothing
\* and is left out.
InspectLease(c) ==
    /\ \/ call[c].at = "idle" /\ NobodyOwns /\ \E i \in Actions : approved[i] = NoProposal
       \/ call[c].at = "replay" /\ results[call[c].id] = "none"
    /\ call' = [call EXCEPT ![c].at = "items", ![c].can = NobodyOwns]
    /\ UNCHANGED <<vars, approved, results, holder, applied>>

ListItems(c) ==
    /\ call[c].at = "items"
    /\ call' = [call EXCEPT ![c].at = "attempts", ![c].seen = item,
                  ![c].same = call[c].id # None /\ "item" \notin approved[call[c].id].moved]
    /\ UNCHANGED <<vars, approved, results, holder, applied>>

\* The attempts and their cleanup are read, the report is complete and the
\* owner approves one of its proposals.
Approve(c, i) ==
    /\ call[c].at = "attempts"
    /\ call[c].id = None
    /\ call[c].can
    /\ approved[i] = NoProposal
    /\ \E p \in Offers(call[c].seen) :
          approved' = [approved EXCEPT ![i] =
              [p EXCEPT !.moved = {r \in TokenOf(p.kind) : r = "item" /\ p.job \in call[c].moved}]]
    /\ call' = [call EXCEPT ![c] = Idle]
    /\ UNCHANGED <<vars, results, holder, applied>>

-----------------------------------------------------------------------------
(* applyRuntimeAction.                                                     *)
Acting(c, at) == call[c].at = at /\ call[c].id # None
ActionOf(c) == approved[call[c].id]

\* persistActionIntent: the same action always finds the same intent.
PersistIntent(c, i) ==
    /\ call[c] = Idle
    /\ approved[i] # NoProposal
    /\ call' = [call EXCEPT ![c].at = "replay", ![c].id = i]
    /\ UNCHANGED <<vars, approved, results, holder, applied>>

\* An action that has a result is not applied again.
Replay(c) ==
    /\ Acting(c, "replay")
    /\ results[call[c].id] # "none"
    /\ call' = [call EXCEPT ![c] = Idle]
    /\ UNCHANGED <<vars, approved, results, holder, applied>>

\* The exact proposal, its token included, must be in a new report.
CheckOffered(c) ==
    /\ Acting(c, "attempts")
    /\ LET p == ActionOf(c)
           offered == /\ call[c].can
                      /\ [p EXCEPT !.moved = {}] \in Offers(call[c].seen)
                      /\ "item" \in TokenOf(p.kind) => call[c].same
                      /\ p.moved \subseteq {"item"}
       IN  call' = [call EXCEPT ![c].at = IF offered THEN "acquire" ELSE "recheck",
                                ![c].can = FALSE, ![c].seen = Nobody, ![c].same = FALSE]
    /\ UNCHANGED <<vars, approved, results, holder, applied>>

\* runtimeActionPostcondition: the disposition of an action whose effect is
\* already there, "none" when it is not.
Postcondition(p) ==
    LET it == item[p.job]
        a  == Subject(p)
        If(b) == IF b THEN "applied" ELSE "none"
    IN  CASE p.kind = "reset"       -> If(it.status = "queued" /\ Bare(it))
          [] p.kind = "quarantine"  -> If(it.status = "needs-input" /\ Bare(it))
          [] p.kind = "bind"        -> If(it.status = "running" /\ it.att = p.att /\ it.op = p.op)
          [] p.kind = "synchronize" ->
                If(attempt[a].status \in Terminal /\ QueueMatchesAttempt(it, a))
          [] p.kind = "recover"     ->
                IF attempt[a].status \in Terminal
                THEN IF IsSafe(attempt[a]) THEN "applied" ELSE "blocked"
                ELSE IF "cleanup" \in p.moved THEN "blocked" ELSE "none"

\* Not offered: refused, unless an earlier call died after its effect.
Recheck(c) ==
    /\ Acting(c, "recheck")
    /\ IF Postcondition(ActionOf(c)) = "none"
       THEN call' = [call EXCEPT ![c] = Idle] ELSE Goto(c, "acquire")
    /\ UNCHANGED <<vars, approved, results, holder, applied>>

\* inspectLease and acquireLease; a live owner is a conflict.
AcquireLease(c) ==
    /\ Acting(c, "acquire")
    /\ IF NobodyOwns
       THEN holder' = c /\ Goto(c, "check")
       ELSE UNCHANGED holder /\ call' = [call EXCEPT ![c] = Idle]
    /\ UNCHANGED <<vars, approved, results, applied>>

\* Seeded fault: the item gets the attempt's status, whatever its verification
\* and its cleanup.
Repaired_RawStatus(p, it) ==
    CASE p.kind = "reset"       -> [it EXCEPT !.status = "queued", !.op = 0, !.att = 0, !.done = 0]
      [] p.kind = "quarantine"  -> [it EXCEPT !.status = "needs-input", !.op = 0, !.att = 0, !.done = 0]
      [] p.kind = "bind"        -> [it EXCEPT !.status = "running", !.op = p.op, !.att = p.att, !.done = 0]
      [] p.kind = "synchronize" -> Completed(it, p.att, attempt[Subject(p)].status)

\* The item that executeRuntimeAction writes.
Repaired(p, it) ==
    CASE p.kind = "reset"       -> [it EXCEPT !.status = "queued", !.op = 0, !.att = 0, !.done = 0]
      [] p.kind = "quarantine"  -> [it EXCEPT !.status = "needs-input", !.op = 0, !.att = 0, !.done = 0]
      [] p.kind = "bind"        -> [it EXCEPT !.status = "running", !.op = p.op, !.att = p.att, !.done = 0]
      [] p.kind = "synchronize" -> Completed(it, p.att, Outcome(Subject(p)))

\* Seeded fault: the token is not compared again under the lease.
CheckToken_Skipped(c) ==
    /\ Acting(c, "check")
    /\ LET p == ActionOf(c) IN
       IF p.kind = "recover" THEN Goto(c, "repair") /\ UNCHANGED holder
       ELSE call' = [call EXCEPT ![c].at = "mutate", ![c].next = Repaired(p, item[p.job])]
            /\ UNCHANGED holder
    /\ UNCHANGED <<vars, approved, results, applied>>

\* Under the lease the records are read again and the token is compared.
CheckToken(c) ==
    /\ Acting(c, "check")
    /\ LET p == ActionOf(c) IN
       \/ /\ TokenHolds(p) /\ p.kind = "recover"
          /\ Goto(c, "repair")
          /\ UNCHANGED holder
       \/ /\ TokenHolds(p) /\ p.kind # "recover"
          /\ call' = [call EXCEPT ![c].at = "mutate", ![c].next = Repaired(p, item[p.job])]
          /\ UNCHANGED holder
       \/ /\ ~TokenHolds(p) /\ Postcondition(p) # "none"
          /\ call' = [call EXCEPT ![c].at = "record", ![c].out = Postcondition(p)]
          /\ UNCHANGED holder
       \/ /\ ~TokenHolds(p) /\ Postcondition(p) = "none"
          /\ call' = [call EXCEPT ![c] = Idle]
          /\ holder' = None
    /\ UNCHANGED <<vars, approved, results, applied>>

\* assertQueueReconciliationTransition.
LegalRepair(kind, current, next) ==
    CASE kind = "reset"       -> current.status \in {"queued", "dispatching"}
                                 /\ next.status = "queued" /\ Bare(next)
      [] kind = "quarantine"  -> next.status = "needs-input" /\ Bare(next)
      [] kind = "bind"        -> current.status = "dispatching" /\ next.status = "running"
                                 /\ next.op # 0 /\ next.att # 0 /\ next.done = 0
      [] kind = "synchronize" -> next.status \in Terminal /\ next.att # 0 /\ next.done = next.att

\* queue.reconcile: a compare-and-swap of the item that was read, and the
\* transition must be a legal one for the kind of action.
UpdateItem(c) ==
    LET p == ActionOf(c) IN
    /\ Acting(c, "mutate")
    /\ p.job \notin call[c].moved
    /\ LegalRepair(p.kind, item[p.job], call[c].next)
    /\ SetItem(p.job, call[c].next)
    /\ call' = [d \in Callers |-> IF d = c THEN [call[c] EXCEPT !.at = "record", !.next = NoItem,
                                                                !.moved = {}, !.out = "applied"]
                                  ELSE AgedCall(call[d])]
    /\ applied' = [applied EXCEPT ![call[c].id] = @ + 1]
    /\ UNCHANGED <<attempt, tree, memory, results, holder>>
    /\ AgeProposals

\* recoverInterruptedAttempt.  The terminal update is a compare-and-swap of the
\* manifest it began with.
RepairAttempt(c) ==
    LET k == call[c] IN
    /\ Acting(c, "repair")
    /\ k.found = "cleared" => k.same
    /\ \E next \in Found : /\ RecoveryStep(Subject(ActionOf(c)), k.found, next)
                           /\ call' = [call EXCEPT ![c].found = next, ![c].same = (next = "cleared")]
    /\ UNCHANGED <<item, tree, memory, results, holder, applied>>
    /\ AgeProposals

\* Its disposition ("terminal" when it had nothing to do), with the cleanup as
\* it is now, decides the result.
ConcludeRepair(c) ==
    LET m == attempt[Subject(ActionOf(c))] IN
    /\ Acting(c, "repair")
    /\ \/ call[c].found \in Dispositions
       \/ call[c].found = "none" /\ m.status \in Terminal
    /\ call' = [call EXCEPT ![c].at = "record", ![c].found = "none",
                  ![c].out = IF call[c].found \in {"none", "safe-to-retry"} /\ IsSafe(m)
                             THEN "applied" ELSE "blocked"]
    /\ UNCHANGED <<vars, approved, results, holder, applied>>

\* result.json is written and the lease released.
RecordResult(c) ==
    /\ Acting(c, "record")
    /\ results' = [results EXCEPT ![call[c].id] = call[c].out]
    /\ holder' = None
    /\ call' = [call EXCEPT ![c] = Idle]
    /\ UNCHANGED <<vars, approved, applied>>

\* The call throws (a conflict, an illegal transition, failing storage), its
\* process dies, or its report is not acted on.  The lease of a dead process is
\* as good as released.
Interrupt(c) ==
    /\ call[c] # Idle
    /\ call' = [call EXCEPT ![c] = Idle]
    /\ holder' = IF holder = c THEN None ELSE holder
    /\ UNCHANGED <<vars, approved, results, applied>>

-----------------------------------------------------------------------------
Reconcile(c) ==
    \/ InspectLease(c) \/ ListItems(c)
    \/ \E i \in Actions : Approve(c, i) \/ PersistIntent(c, i)
    \/ Replay(c) \/ CheckOffered(c) \/ Recheck(c) \/ AcquireLease(c) \/ CheckToken(c)
    \/ UpdateItem(c) \/ RepairAttempt(c) \/ ConcludeRepair(c) \/ RecordResult(c)
    \/ Interrupt(c)

\* A step of the dispatcher and its workers.  It starts only with the lease.
DispatcherStep ==
    /\ Next
    /\ phase = "down" /\ phase' = "recovering" => holder = None
    /\ call' = [c \in Callers |-> AgedCall(call[c])]
    /\ AgeProposals
    /\ UNCHANGED <<results, holder, applied>>

ReconcilerInit == Init /\ OwnInit
ReconcilerNext == DispatcherStep \/ \E c \in Callers : Reconcile(c)
ReconcilerSpec == ReconcilerInit /\ [][ReconcilerNext]_allvars
-----------------------------------------------------------------------------
(* Properties.                                                             *)

\* What a queue without an owner looks like when nothing is left to repair.
Settled ==
    /\ \A a \in Attempts : attempt[a].status \in Terminal \cup {"absent"}
    /\ \A j \in Jobs :
          \/ item[j].status = "absent"
          \/ item[j].status = "queued" /\ Bare(item[j])
          \/ item[j].status \in Terminal \ {"completed"} /\ item[j].att = 0 /\ item[j].done = 0
          \/ /\ Exists(Bound(j)) /\ item[j].done = item[j].att
             /\ attempt[Bound(j)].status \in Terminal
             /\ attempt[Bound(j)].op = item[j].op
             /\ item[j].status = Outcome(Bound(j))

\* "every synthesized inconsistent pair has a typed action": the classifier
\* offers nothing exactly when nothing is inconsistent, for whatever the
\* dispatcher, its crashes and earlier repairs have left behind.
EveryInconsistencyHasAnAction == Offers(item) = {} <=> Settled

\* An approved action updates the queue at most once, however often it is
\* repeated, by however many callers, and wherever the earlier calls died.
AppliedOnce == \A i \in Actions : applied[i] <= 1

\* Repairs converge: a repair of the queue removes its own reason, and what it
\* makes newly necessary is always of a lower level than itself, so repairs
\* neither repeat nor undo each other.
Level(kind) ==
    CASE kind = "quarantine" -> 5 [] kind = "reset" -> 4 [] kind = "bind" -> 3
      [] kind = "recover" -> 2 [] kind = "synchronize" -> 1
RepairsConverge ==
    [][\A i \in Actions : applied'[i] # applied[i] =>
          LET done == [approved[i] EXCEPT !.moved = {}] IN
          \A p \in Offers(item)' :
              p # done /\ (p \in Offers(item) \/ Level(p.kind) < Level(done.kind))]_allvars

\* No repair rewrites terminal attempt evidence, although attempts end by
\* themselves while they are being recovered.
OutcomesAreImmutable ==
    [][\A a \in Attempts : attempt[a].status \in Terminal =>
          Manifest(attempt'[a]) = Manifest(attempt[a])]_allvars
=============================================================================
