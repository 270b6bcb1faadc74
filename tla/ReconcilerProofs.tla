-------------------------- MODULE ReconcilerProofs --------------------------
(***************************************************************************)
(* The reconciler is proved correct beside any dispatcher and on any       *)
(* records: nothing is assumed of the items and attempts it meets but      *)
(* their types, because whatever wrote them may have died anywhere.        *)
(***************************************************************************)
EXTENDS Reconciler, DispatchProofs

\* The types that survive the interference of two writers.  (A lineage may then name
\* an attempt that does not exist.)
StoredAttempt ==
    [status : AttemptStatus \cup {"absent"}, op : Nat, parents : SUBSET (Jobs \X Ordinal),
     eligible : BOOLEAN, orphaned : BOOLEAN, proc : Processes,
     ws : {"none", "pending", "proven", "failed"}]
Places == {"idle", "replay", "items", "attempts", "recheck", "acquire",
           "check", "mutate", "repair", "record"}
Call == [at : Places, id : Actions \cup {None}, can : BOOLEAN, seen : [Jobs -> Item],
         moved : SUBSET Jobs, same : BOOLEAN, next : Item, found : Found, out : ResultStatus]
StoreInv ==
    /\ item \in [Jobs -> Item]
    /\ attempt \in [Attempts -> StoredAttempt]
    /\ exec \in [Jobs -> [at : {"off", "starting", "claimed", "waiting", "finishing", "failing"},
                          att : Ordinal, res : Terminal \cup {"none"}]]
    /\ \A j \in Jobs : exec[j].at = "finishing" => exec[j].res # "none"
    /\ pass \in [by : {"none", "loop", "submit"}, todo : SUBSET Jobs, seen : [Needed -> Item]]

\* What an action is for, as far as the records that its token binds tell.
Needs(p) ==
    /\ p.kind = "reset" => ~ (item[p.job].status = "queued" /\ Bare(item[p.job]))
    /\ p.kind = "quarantine" => ~ (item[p.job].status = "needs-input" /\ Bare(item[p.job]))
    /\ p.kind = "bind" => item[p.job].status = "dispatching"
    /\ p.kind = "synchronize" => ~ QueueMatchesAttempt(item[p.job], Subject(p))

\* A token that holds stands for a need, and no token holds after an application.
ActionOK(i) ==
    /\ approved[i] # NoProposal /\ TokenHolds(approved[i]) => Needs(approved[i])
    /\ applied[i] # 0 => applied[i] = 1 /\ approved[i] # NoProposal /\ "item" \in approved[i].moved

\* What a caller has read is what is there, unless it was told otherwise; who is about to
\* write an item writes something new, for an action that was not applied.
CallOK(k) ==
    /\ k.id # None => approved[k.id] # NoProposal
    /\ k.at = "attempts" /\ k.id = None => \A j \in Jobs \ k.moved : k.seen[j] = item[j]
    /\ k.at = "mutate" =>
          /\ k.id # None /\ approved[k.id].kind # "recover"
          /\ approved[k.id].job \notin k.moved =>
                k.next # item[approved[k.id].job] /\ applied[k.id] = 0

CInv == /\ StoreInv /\ ReconcilerTypeOK
        /\ \A i \in Actions : ActionOK(i)
        /\ \A c \in Callers : CallOK(call[c])

-----------------------------------------------------------------------------
(* The dispatcher's steps, whatever they find.                             *)

\* What every step keeps of an attempt: the manifest of an ended one, and the
\* operation that it was reserved under.
Kept(b, m) ==
    /\ m \in StoredAttempt
    /\ attempt[b].status \in Terminal => Manifest(m) = Manifest(attempt[b])
    /\ attempt[b].status # "absent" => m.status # "absent" /\ m.op = attempt[b].op
AttemptsKept ==
    /\ attempt' \in [Attempts -> StoredAttempt]
    /\ \A b \in Attempts : Kept(b, attempt'[b])

LEMMA SameAttempts ==
    ASSUME StoreInv, attempt' = attempt
    PROVE  AttemptsKept
BY DEF StoreInv, AttemptsKept, Kept

LEMMA OneKept ==
    ASSUME StoreInv, NEW a, NEW m, a \in Attempts => Kept(a, m), SetAttempt(a, m)
    PROVE  AttemptsKept
<1>1. attempt \in [Attempts -> StoredAttempt]
  BY DEF StoreInv
<1>2. CASE a \in Attempts
  <2>1. m \in StoredAttempt
    BY <1>2 DEF Kept
  <2>2. /\ attempt' \in [Attempts -> StoredAttempt] /\ attempt'[a] = m
        /\ \A b \in Attempts \ {a} : attempt'[b] = attempt[b]
    BY <1>1, <1>2, <2>1 DEF SetAttempt
  <2>3. \A b \in Attempts \ {a} : Kept(b, attempt[b])
    BY <1>1 DEF Kept
  <2> QED
    BY <1>2, <2>2, <2>3 DEF AttemptsKept
<1>3. CASE a \notin Attempts
  <2>1. attempt' = attempt
    BY <1>1, <1>3 DEF SetAttempt
  <2> QED
    BY <2>1, SameAttempts
<1> QED
  BY <1>2, <1>3

\* The ways in which records are updated: a new status before the end, or new
\* evidence at any time.
LEMMA NewStatus ==
    ASSUME NEW a, NEW m \in StoredAttempt, attempt[a].status \notin Terminal,
           m.op = attempt[a].op, m.status # "absent"
    PROVE  Kept(a, m)
BY DEF Kept

LEMMA NewEvidence ==
    ASSUME NEW a, NEW M \in StoredAttempt, M = attempt[a], NEW m,
           \/ \E ws \in {"none", "pending", "proven", "failed"} : m = [M EXCEPT !.ws = ws]
           \/ \E p \in Processes : m = [M EXCEPT !.proc = p]
    PROVE  Kept(a, m)
<1>1. m \in StoredAttempt /\ m.op = M.op /\ m.status = M.status /\ Manifest(m) = Manifest(M)
  BY DEF StoredAttempt, Manifest
<1> QED
  BY <1>1 DEF Kept

\* recoverInterruptedAttempt, by the dispatcher or by the reconciler.
LEMMA RecoveryKeeps ==
    ASSUME StoreInv, NEW a, NEW found, NEW next, RecoveryStep(a, found, next)
    PROVE  AttemptsKept
<1> DEFINE M == attempt[a]
<1>0. a \in Attempts => M \in StoredAttempt
  BY DEF StoreInv
<1> HIDE DEF M
<1>1. CASE RecoverUnlaunched(a, found, next)
  <2>1. M.status \in {"reserved", "claimed"} /\ SetAttempt(a, [M EXCEPT !.status = "cancelled", !.orphaned = TRUE])
    BY <1>1 DEF RecoverUnlaunched, M
  <2> DEFINE m == [M EXCEPT !.status = "cancelled", !.orphaned = TRUE]
  <2>2. a \in Attempts => m \in StoredAttempt /\ m.op = M.op /\ m.status # "absent"
    BY <1>0 DEF StoredAttempt, AttemptStatus
  <2>3. a \in Attempts => Kept(a, m)
    BY <2>1, <2>2, NewStatus DEF Terminal, M
  <2> QED
    BY <2>1, <2>3, OneKept
<1>2. CASE RecoverBlocked(a, found, next)
  BY <1>2, SameAttempts DEF RecoverBlocked
<1>3. CASE RecoverEvidence(a, found, next)
  <2>1. PICK p \in Processes : SetAttempt(a, [M EXCEPT !.proc = p])
    BY <1>3 DEF RecoverEvidence, Processes, M
  <2>2. a \in Attempts => Kept(a, [M EXCEPT !.proc = p])
    BY <1>0, NewEvidence DEF M
  <2> QED
    BY <2>1, <2>2, OneKept
<1>4. CASE RecoverFail(a, found, next)
  <2>1. /\ M.status \in {"preparing", "running", "verifying"}
        /\ SetAttempt(a, [M EXCEPT !.status = "failed", !.orphaned = TRUE])
    BY <1>4 DEF RecoverFail, Interrupted, M
  <2> DEFINE m == [M EXCEPT !.status = "failed", !.orphaned = TRUE]
  <2>2. a \in Attempts => m \in StoredAttempt /\ m.op = M.op /\ m.status # "absent"
    BY <1>0 DEF StoredAttempt, AttemptStatus
  <2>3. a \in Attempts => Kept(a, m)
    BY <2>1, <2>2, NewStatus DEF Terminal, M
  <2> QED
    BY <2>1, <2>3, OneKept
<1>5. CASE RecoverWorkspace(a, found, next)
  <2>1. PICK ws \in {"none", "pending", "proven", "failed"} : SetAttempt(a, [M EXCEPT !.ws = ws])
    BY <1>5 DEF RecoverWorkspace, M
  <2>2. a \in Attempts => Kept(a, [M EXCEPT !.ws = ws])
    BY <1>0, NewEvidence DEF M
  <2> QED
    BY <2>1, <2>2, OneKept
<1> QED
  BY <1>1, <1>2, <1>3, <1>4, <1>5 DEF RecoveryStep

\* executeAttempt.
LEMMA ExecutionKeeps ==
    ASSUME StoreInv, NEW a \in Attempts, AttemptStep(a)
    PROVE  AttemptsKept
<1> DEFINE M == attempt[a]
           Ws == {"none", "pending", "proven", "failed"}
<1>0. M \in StoredAttempt
  BY DEF StoreInv
<1> HIDE DEF M
<1>1. ASSUME NEW ws \in Ws, SetAttempt(a, [M EXCEPT !.ws = ws]) PROVE AttemptsKept
  <2>1. Kept(a, [M EXCEPT !.ws = ws])
    BY <1>0, NewEvidence DEF M
  <2> QED
    BY <1>1, <2>1, OneKept
<1>2. ASSUME NEW p \in Processes, SetAttempt(a, [M EXCEPT !.proc = p]) PROVE AttemptsKept
  <2>1. Kept(a, [M EXCEPT !.proc = p])
    BY <1>0, NewEvidence DEF M
  <2> QED
    BY <1>2, <2>1, OneKept
<1>3. CASE PrepareAttempt(a)
  <2>1. PICK ws \in Ws : SetAttempt(a, [M EXCEPT !.status = "preparing", !.ws = ws]) /\ M.status = "claimed"
    BY <1>3 DEF PrepareAttempt, Executing, M
  <2> DEFINE m == [M EXCEPT !.status = "preparing", !.ws = ws]
  <2>2. m \in StoredAttempt /\ m.op = M.op /\ m.status # "absent"
    BY <1>0, <2>1 DEF StoredAttempt, AttemptStatus, Terminal
  <2>3. Kept(a, m)
    BY <2>1, <2>2, NewStatus DEF Terminal, M
  <2> QED
    BY <2>1, <2>3, OneKept
<1>4. CASE StartWorker(a)
  <2>1. /\ M.status = "preparing"
        /\ \E p : SetAttempt(a, [M EXCEPT !.status = "running", !.proc = p])
                  /\ p = IF M.proc = "proven" THEN "ready" ELSE M.proc
    <3>1. [M EXCEPT !.status = "running", !.proc = IF @ = "proven" THEN "ready" ELSE @]
          = [M EXCEPT !.status = "running", !.proc = IF M.proc = "proven" THEN "ready" ELSE M.proc]
      BY <1>0 DEF StoredAttempt
    <3> QED
      BY <1>4, <3>1 DEF StartWorker, Executing, M
  <2>2. PICK p : SetAttempt(a, [M EXCEPT !.status = "running", !.proc = p]) /\ p \in Processes
    BY <1>0, <2>1 DEF StoredAttempt, Processes
  <2> DEFINE m == [M EXCEPT !.status = "running", !.proc = p]
  <2>3. m \in StoredAttempt /\ m.op = M.op /\ m.status # "absent"
    BY <1>0, <2>2 DEF StoredAttempt, AttemptStatus
  <2>4. Kept(a, m)
    BY <2>1, <2>3, NewStatus DEF Terminal, M
  <2> QED
    BY <2>2, <2>4, OneKept
<1>5. CASE Spawn(a)
  BY <1>2, <1>5 DEF Spawn, Processes, M
<1>6. ASSUME NEW s \in {"proven", "unknown"}, RecordTermination(a, s) PROVE AttemptsKept
  BY <1>2, <1>6 DEF RecordTermination, Processes, M
<1>7. CASE StartVerification(a)
  <2>1. SetAttempt(a, [M EXCEPT !.status = "verifying"]) /\ M.status = "running"
    BY <1>7 DEF StartVerification, Executing, M
  <2> DEFINE m == [M EXCEPT !.status = "verifying"]
  <2>2. m \in StoredAttempt /\ m.op = M.op /\ m.status # "absent"
    BY <1>0, <2>1 DEF StoredAttempt, AttemptStatus, Terminal
  <2>3. Kept(a, m)
    BY <2>1, <2>2, NewStatus DEF Terminal, M
  <2> QED
    BY <2>1, <2>3, OneKept
<1>8. ASSUME NEW s \in Terminal, NEW e \in BOOLEAN, EndAttempt(a, s, e) PROVE AttemptsKept
  <2>1. /\ SetAttempt(a, [M EXCEPT !.status = s, !.eligible = e])
        /\ M.status \in {"claimed", "preparing", "running", "verifying"}
    BY <1>8 DEF EndAttempt, Executing, M
  <2> DEFINE m == [M EXCEPT !.status = s, !.eligible = e]
  <2>2. m \in StoredAttempt /\ m.op = M.op /\ m.status # "absent"
    BY <1>0, <2>1 DEF StoredAttempt, AttemptStatus, Terminal
  <2>3. Kept(a, m)
    BY <2>1, <2>2, NewStatus DEF Terminal, M
  <2> QED
    BY <2>1, <2>3, OneKept
<1>9. ASSUME NEW ws \in Ws, SettleAttempt(a, ws) PROVE AttemptsKept
  BY <1>1, <1>9 DEF SettleAttempt, M
<1>10. CASE RejectExecution(a)
  BY <1>10, SameAttempts DEF RejectExecution, durable
<1> QED
  BY <1>3, <1>4, <1>5, <1>6, <1>7, <1>8, <1>9, <1>10 DEF AttemptStep

LEMMA NextKeeps ==
    ASSUME StoreInv, Next
    PROVE  AttemptsKept
<1>1. ASSUME NEW a, NEW s \in {"claimed", "cancelled"}, SetAttempt(a, [attempt[a] EXCEPT !.status = s]),
             attempt[a].status \in {"reserved", "claimed"}
      PROVE  AttemptsKept
  <2>1. a \in Attempts => attempt[a] \in StoredAttempt
    BY DEF StoreInv
  <2> DEFINE m == [attempt[a] EXCEPT !.status = s]
  <2>2. a \in Attempts => m \in StoredAttempt /\ m.op = attempt[a].op /\ m.status # "absent"
    BY <2>1 DEF StoredAttempt, AttemptStatus
  <2>3. a \in Attempts => Kept(a, m)
    BY <1>1, <2>2, NewStatus DEF Terminal
  <2> QED
    BY <1>1, <2>3, OneKept
<1>2. ASSUME NEW j \in Jobs, ReserveAttempt(j) PROVE AttemptsKept
  <2> DEFINE m == [NoAttempt EXCEPT !.status = "reserved", !.op = item[j].op,
                                    !.parents = {<<d, pass.seen[d].done>> : d \in Deps[j]}]
  <2>1. PICK n \in 1 .. MaxAttempts[j] : attempt[<<j, n>>].status = "absent" /\ SetAttempt(<<j, n>>, m)
    BY <1>2 DEF ReserveAttempt, FreeOrdinals
  <2>2. m \in StoredAttempt
    <3>1. item[j].op \in Nat
      BY DEF StoreInv, Item
    <3>2. \A d \in Deps[j] : d \in Jobs /\ d \in Needed /\ pass.seen[d].done \in Ordinal
      BY DispatchAssumption DEF StoreInv, Item, Needed
    <3>3. {<<d, pass.seen[d].done>> : d \in Deps[j]} \in SUBSET (Jobs \X Ordinal)
      BY <3>2
    <3> QED
      BY <3>1, <3>3 DEF NoAttempt, StoredAttempt, AttemptStatus, Processes
  <2>3. Kept(<<j, n>>, m)
    BY <2>1, <2>2 DEF Kept, Terminal
  <2> QED
    BY <2>1, <2>3, OneKept
<1>3. ASSUME NEW a \in Attempts, NEW ws \in {"proven", "failed"}, RemoveWorkspace(a, ws) PROVE AttemptsKept
  <2>1. attempt[a] \in StoredAttempt
    BY DEF StoreInv
  <2>2. Kept(a, [attempt[a] EXCEPT !.ws = ws])
    BY <2>1, NewEvidence
  <2> QED
    BY <1>3, <2>2, OneKept DEF RemoveWorkspace
<1>4. ASSUME NEW j \in Jobs, DispatchStep(j) PROVE AttemptsKept
  BY <1>2, <1>4, SameAttempts DEF DispatchStep, SkipItem, FailDependent, StopAtLimit, RecordIntent, RejectLineage,
     BindAttempt, PassThrows, durable
<1>5. ASSUME NEW j \in Jobs, ExecuteStep(j) PROVE AttemptsKept
  <2>1. CASE ClaimAttempt(j)
    BY <1>1, <2>1 DEF ClaimAttempt
  <2> QED
    BY <1>5, <2>1, SameAttempts DEF ExecuteStep, AbandonStart, ClaimFails, LaunchAttempt, LaunchFails, AwaitAttempt,
       AwaitFails, FinishItem, FailItem, FailItemFails, durable
<1>6. ASSUME NEW j \in Jobs, CancelStep(j) PROVE AttemptsKept
  <2>1. CASE CancelReserved(j)
    BY <1>1, <2>1 DEF CancelReserved
  <2> QED
    BY <1>6, <2>1, SameAttempts DEF CancelStep, CancelSignal, CancelConclude, CancelPending, CancelFails, durable
<1>7. CASE Request
  BY <1>3, <1>7, SameAttempts DEF Request, Enqueue, CancelWaiting, CancelRunning, Retry, AbortAttempt, StartPass,
     StopLoop, durable
<1>8. CASE Internal
  BY <1>4, <1>5, <1>6, <1>8, ExecutionKeeps, SameAttempts DEF Internal, StartPass, EndPass, ReleaseLease, durable
<1>9. CASE Recovery
  BY <1>9, RecoveryKeeps, SameAttempts DEF Recovery, StartSettling, StartSweep, StartLoop, RecoverJob, RecoverIntent,
     RecoverFinish, RecoverItem, RecoverAttempt, Swept, durable
<1>10. CASE ProcessStep \/ Start \/ Crash
  BY <1>10, SameAttempts DEF ProcessStep, TreeEnds, Start, Crash, durable
<1> QED
  BY <1>7, <1>8, <1>9, <1>10 DEF Next

LEMMA OutcomeEnds ==
    ASSUME NEW a
    PROVE  Outcome(a) \in Terminal
<1> DEFINE verdict == IF attempt[a].eligible THEN "eligible" ELSE "ineligible"
           cleanup == Cleanup(attempt[a])
<1>1. Outcome(a) = ProjectedStatus(attempt[a].status, verdict, cleanup)
  BY DEF Outcome
<1> HIDE DEF verdict, cleanup
<1> QED
  BY <1>1 DEF ProjectedStatus, Terminal

LEMMA OneItemTyped ==
    ASSUME StoreInv, NEW j \in Jobs, NEW it \in Item, SetItem(j, it)
    PROVE  item' \in [Jobs -> Item]
BY DEF StoreInv, SetItem

\* The items that recovery writes.
LEMMA RecoveredTyped ==
    ASSUME StoreInv, NEW j \in Jobs
    PROVE  /\ RecoveredIntent(j) \in Item
           /\ \A found : RecoveredItem(j, item[j], found) \in Item
           /\ item[j].att \in Ordinal
           /\ \A n \in Ordinal : \A s \in Terminal : Completed(item[j], n, s) \in Item
<1> DEFINE it == item[j]
<1>0. it \in Item
  BY DEF StoreInv
<1>1. RecoveredIntent(j) \in Item
  <2> DEFINE n == (CHOOSE a \in Matching(j) : TRUE)[2]
  <2>1. /\ [it EXCEPT !.status = "needs-input"] \in Item
        /\ [it EXCEPT !.status = "queued", !.op = 0, !.att = 0] \in Item
        /\ n \in Nat => [it EXCEPT !.status = "running", !.att = n] \in Item
    BY <1>0 DEF Item, QueueStatus, Ordinal
  <2>2. Matching(j) # {} => n \in Nat
    <3>1. Matching(j) # {} => (CHOOSE a \in Matching(j) : TRUE) \in Attempts
      BY DEF Matching
    <3> QED
      BY <3>1, AttemptNames, DispatchAssumption
  <2>3. \/ RecoveredIntent(j) = [it EXCEPT !.status = "needs-input"]
        \/ RecoveredIntent(j) = [it EXCEPT !.status = "queued", !.op = 0, !.att = 0]
        \/ Matching(j) # {} /\ RecoveredIntent(j) = [it EXCEPT !.status = "running", !.att = n]
    BY DEF RecoveredIntent
  <2> HIDE DEF n, it
  <2> QED
    BY <2>1, <2>2, <2>3
<1>2. ASSUME NEW found PROVE RecoveredItem(j, it, found) \in Item
  <2>1. /\ [it EXCEPT !.status = "needs-input"] \in Item
        /\ [it EXCEPT !.status = "cancelled", !.op = 0, !.done = 0] \in Item
        /\ [NoItem EXCEPT !.status = "queued", !.retries = it.retries + 1] \in Item
    <3>1. it.retries + 1 \in Nat
      BY <1>0 DEF Item
    <3> HIDE DEF it
    <3> QED
      BY <1>0, <3>1 DEF Item, QueueStatus, Ordinal, NoItem
  <2> HIDE DEF it
  <2> QED
    BY <2>1 DEF RecoveredItem
<1>3. \A n \in Ordinal : \A s \in Terminal : Completed(it, n, s) \in Item
  BY <1>0 DEF Completed, Item, Ordinal, Terminal, QueueStatus
<1>4. it.att \in Ordinal
  BY <1>0 DEF Item
<1> QED
  BY <1>1, <1>2, <1>3, <1>4

LEMMA ItemsStayTyped ==
    ASSUME StoreInv, Next
    PROVE  item' \in [Jobs -> Item]
<1>0. item \in [Jobs -> Item]
  BY DEF StoreInv
<1>1. ASSUME item' = item PROVE item' \in [Jobs -> Item]
  BY <1>0, <1>1
<1>2. ASSUME NEW j \in Jobs
      PROVE  /\ \A s \in QueueStatus : [item[j] EXCEPT !.status = s] \in Item
             /\ \A s \in QueueStatus : \A n \in Nat : [item[j] EXCEPT !.status = s, !.att = n] \in Item
             /\ \A s \in QueueStatus : \A n \in Nat : [item[j] EXCEPT !.status = s, !.op = n, !.att = 0] \in Item
             /\ [NoItem EXCEPT !.status = "queued"] \in Item
             /\ [NoItem EXCEPT !.status = "queued", !.retries = item[j].retries] \in Item
             /\ item[j] \in Item
  <2>1. item[j] \in Item
    BY <1>0
  <2> QED
    BY <2>1 DEF Item, NoItem, QueueStatus, Ordinal
<1>3. ASSUME NEW j \in Jobs, DispatchStep(j) PROVE item' \in [Jobs -> Item]
  <2>1. CASE RecordIntent(j)
    <3>1. FreshOp(j) \in Nat
      BY FreshOpExists
    <3> QED
      BY <1>2, <2>1, <3>1, OneItemTyped DEF RecordIntent, QueueStatus
  <2>2. CASE FailDependent(j) \/ RejectLineage(j)
    BY <1>2, <2>2, OneItemTyped DEF FailDependent, RejectLineage, QueueStatus
  <2>3. CASE BindAttempt(j)
    <3>1. PICK n \in 1 .. MaxAttempts[j] : SetItem(j, [item[j] EXCEPT !.status = "running", !.att = n])
      BY <2>3 DEF BindAttempt
    <3>2. n \in Nat /\ "running" \in QueueStatus
      BY DispatchAssumption DEF QueueStatus
    <3> QED
      BY <1>2, <3>1, <3>2, OneItemTyped
  <2>4. CASE SkipItem(j) \/ StopAtLimit(j) \/ ReserveAttempt(j) \/ PassThrows(j)
    BY <1>1, <2>4 DEF SkipItem, StopAtLimit, ReserveAttempt, PassThrows, durable
  <2> QED
    BY <1>3, <2>1, <2>2, <2>3, <2>4 DEF DispatchStep
<1>4. ASSUME NEW j \in Jobs, ExecuteStep(j) PROVE item' \in [Jobs -> Item]
  <2>1. CASE FinishItem(j)
    <3>1. exec[j].att \in Ordinal /\ exec[j].res \in Terminal
      BY <2>1 DEF StoreInv, FinishItem
    <3>2. Completed(item[j], exec[j].att, exec[j].res) \in Item
      BY <3>1, RecoveredTyped
    <3> QED
      BY <1>1, <2>1, <3>2, OneItemTyped DEF FinishItem
  <2>2. CASE FailItem(j)
    <3>1. PICK it \in Item : SetItem(j, it)
      BY <1>2, <2>2 DEF FailItem, QueueStatus
    <3> QED
      BY <3>1, OneItemTyped
  <2> QED
    BY <1>1, <1>4, <2>1, <2>2 DEF ExecuteStep, ClaimAttempt, AbandonStart, ClaimFails, LaunchAttempt, LaunchFails,
       AwaitAttempt, AwaitFails, FailItemFails, durable
<1>5. ASSUME NEW j \in Jobs, CancelStep(j) PROVE item' \in [Jobs -> Item]
  <2>1. CASE CancelConclude(j)
    BY <1>2, <2>1, OneItemTyped DEF CancelConclude, QueueStatus
  <2> QED
    BY <1>1, <1>5, <2>1 DEF CancelStep, CancelSignal, CancelReserved, CancelPending, CancelFails, durable
<1>6. ASSUME NEW j \in Jobs, Enqueue(j) \/ CancelWaiting(j) \/ CancelRunning(j) \/ Retry(j)
      PROVE  item' \in [Jobs -> Item]
  BY <1>2, <1>6, OneItemTyped DEF Enqueue, CancelWaiting, CancelRunning, Retry, QueueStatus
<1>7. ASSUME NEW j \in Jobs, RecoverJob(j) PROVE item' \in [Jobs -> Item]
  <2>1. Outcome(Bound(j)) \in Terminal
    BY OutcomeEnds
  <2>2. CASE RecoverFinish(j)
    <3>1. [item[j] EXCEPT !.status = "needs-input"] \in Item
      BY <1>2 DEF QueueStatus
    <3>2. Completed(item[j], item[j].att, Outcome(Bound(j))) \in Item
      BY <2>1, RecoveredTyped DEF StoreInv, Item
    <3> QED
      BY <2>2, <3>1, <3>2, OneItemTyped DEF RecoverFinish
  <2> QED
    BY <1>7, <2>2, RecoveredTyped, OneItemTyped DEF RecoverJob, RecoverIntent, RecoverItem
<1>8. CASE Request
  BY <1>1, <1>6, <1>8 DEF Request, AbortAttempt, RemoveWorkspace, StartPass, StopLoop, durable
<1>9. CASE Internal
  BY <1>1, <1>3, <1>4, <1>5, <1>9 DEF Internal, StartPass, EndPass, ReleaseLease, AttemptStep, PrepareAttempt,
     StartWorker, Spawn, RecordTermination, StartVerification, EndAttempt, SettleAttempt, RejectExecution, durable
<1>10. CASE Recovery
  BY <1>1, <1>7, <1>10 DEF Recovery, StartSettling, StartSweep, StartLoop, RecoverAttempt, Swept, durable
<1>11. CASE ProcessStep \/ Start \/ Crash
  BY <1>1, <1>11 DEF ProcessStep, TreeEnds, Start, Crash, durable
<1> QED
  BY <1>8, <1>9, <1>10, <1>11 DEF Next

LEMMA MemoryStaysTyped ==
    ASSUME StoreInv, Next
    PROVE  /\ exec' \in [Jobs -> [at : {"off", "starting", "claimed", "waiting", "finishing", "failing"},
                                  att : Ordinal, res : Terminal \cup {"none"}]]
           /\ \A j \in Jobs : exec'[j].at = "finishing" => exec'[j].res # "none"
           /\ pass' \in [by : {"none", "loop", "submit"}, todo : SUBSET Jobs, seen : [Needed -> Item]]
<1> DEFINE E == [at : {"off", "starting", "claimed", "waiting", "finishing", "failing"},
                 att : Ordinal, res : Terminal \cup {"none"}]
           P == [by : {"none", "loop", "submit"}, todo : SUBSET Jobs, seen : [Needed -> Item]]
           Execs == exec' \in [Jobs -> E] /\ \A j \in Jobs : exec'[j].at = "finishing" => exec'[j].res # "none"
<1>0. /\ item \in [Jobs -> Item] /\ exec \in [Jobs -> E] /\ pass \in P
      /\ \A j \in Jobs : exec[j].at = "finishing" => exec[j].res # "none"
  BY DEF StoreInv
<1>1. ASSUME exec' = exec PROVE Execs
  BY <1>0, <1>1
<1>2. ASSUME NEW j \in Jobs, NEW e \in E, exec' = [exec EXCEPT ![j] = e], e.at = "finishing" => e.res # "none"
      PROVE  Execs
  BY <1>0, <1>2
<1>3. NoExec \in E /\ NoExec.at = "off"
  BY DEF NoExec, Ordinal
<1>4. ASSUME NEW j \in Jobs, NEW s \in {"starting", "claimed", "waiting", "failing"}, exec' = [exec EXCEPT ![j].at = s]
      PROVE  Execs
  <2>1. exec[j] \in E
    BY <1>0
  <2>2. [exec[j] EXCEPT !.at = s] \in E /\ [exec[j] EXCEPT !.at = s].at = s
    BY <2>1
  <2>3. exec' = [exec EXCEPT ![j] = [exec[j] EXCEPT !.at = s]]
    BY <1>4
  <2> QED
    BY <1>2, <2>2, <2>3
<1>5. NoPass \in P
  BY DEF NoPass, NoItem, Item, Ordinal
<1>6. ASSUME NEW j, pass' = [pass EXCEPT !.todo = @ \ {j}] PROVE pass' \in P
  BY <1>0, <1>6
<1>7. pass' \in P
  <2>1. ASSUME NEW j \in Jobs, DispatchStep(j) PROVE pass' \in P
    <3>1. CASE StopAtLimit(j)
      BY <1>0, <3>1 DEF StopAtLimit
    <3>2. CASE SkipItem(j) \/ FailDependent(j) \/ RejectLineage(j) \/ BindAttempt(j)
      BY <1>6, <3>2 DEF SkipItem, FailDependent, RejectLineage, BindAttempt, Visited
    <3>3. CASE PassThrows(j)
      BY <1>5, <3>3 DEF PassThrows
    <3>4. CASE RecordIntent(j) \/ ReserveAttempt(j)
      BY <1>0, <3>4 DEF RecordIntent, ReserveAttempt
    <3> QED
      BY <2>1, <3>1, <3>2, <3>3, <3>4 DEF DispatchStep
  <2>2. ASSUME NEW by \in {"loop", "submit"}, StartPass(by) PROVE pass' \in P
    <3>1. [d \in Needed |-> item[d]] \in [Needed -> Item]
      BY <1>0, DispatchAssumption DEF Needed
    <3> QED
      BY <2>2, <3>1 DEF StartPass
  <2>3. CASE Request
    BY <1>0, <2>2, <2>3 DEF Request, Enqueue, CancelWaiting, CancelRunning, Retry, AbortAttempt, RemoveWorkspace,
       StopLoop, memory
  <2>4. CASE Internal
    BY <1>0, <1>5, <2>1, <2>2, <2>4, ZenonT(40) DEF Internal, EndPass, ReleaseLease, ExecuteStep, CancelStep, AttemptStep,
       ClaimAttempt, AbandonStart, ClaimFails, LaunchAttempt, LaunchFails, AwaitAttempt, AwaitFails, FinishItem,
       FailItem, FailItemFails, CancelSignal, CancelReserved, CancelConclude, CancelPending, CancelFails, PrepareAttempt, StartWorker, Spawn,
       RecordTermination, StartVerification, EndAttempt, SettleAttempt, RejectExecution, memory
  <2>5. CASE Recovery
    BY <1>0, <2>5 DEF Recovery, StartSettling, StartSweep, StartLoop, RecoverJob, RecoverIntent, RecoverFinish,
       RecoverItem, RecoverAttempt, Swept
  <2>6. CASE ProcessStep \/ Start \/ Crash
    BY <1>0, <1>5, <2>6 DEF ProcessStep, TreeEnds, Start, Crash, memory
  <2> QED
    BY <2>3, <2>4, <2>5, <2>6 DEF Next
<1>8. Execs
  <2>1. ASSUME NEW j \in Jobs, DispatchStep(j) PROVE Execs
    <3>1. CASE BindAttempt(j)
      <4>1. PICK n \in 1 .. MaxAttempts[j] : exec' = [exec EXCEPT ![j] = [NoExec EXCEPT !.at = "starting", !.att = n]]
        BY <3>1 DEF BindAttempt
      <4>2. /\ [NoExec EXCEPT !.at = "starting", !.att = n] \in E
            /\ [NoExec EXCEPT !.at = "starting", !.att = n].at # "finishing"
        <5>1. n \in Nat
          BY DispatchAssumption
        <5> QED
          BY <5>1 DEF NoExec, Ordinal
      <4> QED
        BY <1>2, <4>1, <4>2
    <3> QED
      BY <1>1, <2>1, <3>1 DEF DispatchStep, SkipItem, FailDependent, StopAtLimit, RecordIntent, ReserveAttempt,
         RejectLineage, PassThrows
  <2>2. ASSUME NEW j \in Jobs, ExecuteStep(j) PROVE Execs
    <3>1. CASE AwaitAttempt(j)
      <4> DEFINE out == Outcome(<<j, exec[j].att>>)
                 e == [exec[j] EXCEPT !.at = "finishing", !.res = out]
      <4>1. out \in Terminal /\ out # "none"
        BY OutcomeEnds DEF Terminal
      <4>2. exec' = [exec EXCEPT ![j] = e]
        BY <3>1 DEF AwaitAttempt
      <4> HIDE DEF out
      <4>3. e \in E /\ e.res # "none"
        BY <1>0, <4>1
      <4> HIDE DEF e
      <4> QED
        BY <1>2, <4>2, <4>3
    <3>2. CASE FinishItem(j)
      BY <1>2, <1>3, <1>4, <3>2 DEF FinishItem
    <3>3. CASE AbandonStart(j) \/ FailItem(j) \/ FailItemFails(j)
      BY <1>2, <1>3, <3>3 DEF AbandonStart, FailItem, FailItemFails
    <3>4. CASE ClaimAttempt(j) \/ ClaimFails(j) \/ LaunchAttempt(j) \/ LaunchFails(j) \/ AwaitFails(j)
      BY <1>4, <3>4 DEF ClaimAttempt, ClaimFails, LaunchAttempt, LaunchFails, AwaitFails
    <3> QED
      BY <2>2, <3>1, <3>2, <3>3, <3>4 DEF ExecuteStep
  <2>3. ASSUME NEW a \in Attempts, AttemptStep(a) PROVE Execs
    <3>1. CASE RejectExecution(a)
      BY <1>4, <3>1, AttemptNames DEF RejectExecution
    <3> QED
      BY <1>1, <2>3, <3>1 DEF AttemptStep, PrepareAttempt, StartWorker, Spawn, RecordTermination, StartVerification,
         EndAttempt, SettleAttempt, memory
  <2>4. CASE Request
    BY <1>1, <2>4 DEF Request, Enqueue, CancelWaiting, CancelRunning, Retry, AbortAttempt, RemoveWorkspace, StartPass,
       StopLoop, memory
  <2>5. CASE Internal
    BY <1>1, <2>1, <2>2, <2>3, <2>5 DEF Internal, StartPass, EndPass, ReleaseLease, CancelStep, CancelSignal,
       CancelReserved, CancelConclude, CancelPending, CancelFails, memory
  <2>6. CASE Recovery
    BY <1>1, <2>6 DEF Recovery, StartSettling, StartSweep, StartLoop, RecoverJob, RecoverIntent, RecoverFinish,
       RecoverItem, RecoverAttempt, Swept
  <2>7. CASE ProcessStep \/ Start
    BY <1>1, <2>7 DEF ProcessStep, TreeEnds, Start, memory
  <2>8. CASE Crash
    BY <1>3, <2>8 DEF Crash
  <2> QED
    BY <2>4, <2>5, <2>6, <2>7, <2>8 DEF Next
<1> QED
  BY <1>7, <1>8

LEMMA NextStore ==
    ASSUME StoreInv, Next
    PROVE  StoreInv' /\ AttemptsKept
<1>1. AttemptsKept
  BY NextKeeps
<1> QED
  BY <1>1, ItemsStayTyped, MemoryStaysTyped DEF StoreInv, AttemptsKept

-----------------------------------------------------------------------------
(* Proposals                                                               *)

LEMMA NoProposalIsNone == NoProposal \notin Proposal
BY DEF NoProposal, Proposal, Kinds

\* An attempt that an item is joined to is one of the job's.
LEMMA JoinedIsOwn ==
    ASSUME NEW j \in Jobs, NEW it, NEW a \in JoinedTo(j, it)
    PROVE  /\ a \in Attempts /\ a = <<j, a[2]>> /\ a[2] \in Ordinal /\ a[2] # 0
           /\ Exists(a) /\ attempt[a].op = it.op
<1>1. a \in Attempts /\ a[1] = j /\ Exists(a) /\ attempt[a].op = it.op
  <2>1. CASE Intent(it)
    BY <2>1 DEF JoinedTo, SameOperation
  <2>2. CASE ~ Intent(it)
    BY <2>2 DEF JoinedTo, Exists
  <2> QED
    BY <2>1, <2>2
<1> QED
  BY <1>1, AttemptNames, DispatchAssumption DEF Ordinal

\* Where an offer comes from.
LEMMA OfferCases ==
    ASSUME NEW items, NEW p \in Offers(items)
    PROVE  \/ \E j \in Jobs : ResetOffered(j, items[j]) /\ p = Proposes("reset", j, 0, 0)
           \/ \E j \in Jobs : QuarantineOffered(j, items[j]) /\ p = Proposes("quarantine", j, 0, 0)
           \/ \E j \in Jobs : \E a \in JoinedTo(j, items[j]) :
                 BindOffered(items[j], a) /\ p = Proposes("bind", j, a[2], items[j].op)
           \/ \E j \in Jobs : \E a \in JoinedTo(j, items[j]) :
                 SynchronizeOffered(items[j], a) /\ p = Proposes("synchronize", j, a[2], 0)
           \/ \E a \in Attempts : RecoverOffered(items, a) /\ p = Proposes("recover", a[1], a[2], 0)
<1> DEFINE R == {Proposes("reset", j, 0, 0) : j \in {k \in Jobs : ResetOffered(k, items[k])}}
           Q == {Proposes("quarantine", j, 0, 0) : j \in {k \in Jobs : QuarantineOffered(k, items[k])}}
           B == UNION {{Proposes("bind", j, a[2], items[j].op) :
                    a \in {b \in JoinedTo(j, items[j]) : BindOffered(items[j], b)}} : j \in Jobs}
           S == UNION {{Proposes("synchronize", j, a[2], 0) :
                    a \in {b \in JoinedTo(j, items[j]) : SynchronizeOffered(items[j], b)}} : j \in Jobs}
           V == {Proposes("recover", a[1], a[2], 0) : a \in {b \in Attempts : RecoverOffered(items, b)}}
<1>0. Offers(items) = R \cup Q \cup B \cup S \cup V
  BY DEF Offers
<1>1. p \in R \/ p \in Q \/ p \in B \/ p \in S \/ p \in V
  <2> HIDE DEF R, Q, B, S, V
  <2> QED
    BY <1>0
<1>2. p \in R => \E j \in Jobs : ResetOffered(j, items[j]) /\ p = Proposes("reset", j, 0, 0)
  OBVIOUS
<1>3. p \in Q => \E j \in Jobs : QuarantineOffered(j, items[j]) /\ p = Proposes("quarantine", j, 0, 0)
  OBVIOUS
<1>4. p \in B => \E j \in Jobs : \E a \in JoinedTo(j, items[j]) :
                    BindOffered(items[j], a) /\ p = Proposes("bind", j, a[2], items[j].op)
  OBVIOUS
<1>5. p \in S => \E j \in Jobs : \E a \in JoinedTo(j, items[j]) :
                    SynchronizeOffered(items[j], a) /\ p = Proposes("synchronize", j, a[2], 0)
  OBVIOUS
<1>6. p \in V => \E a \in Attempts : RecoverOffered(items, a) /\ p = Proposes("recover", a[1], a[2], 0)
  OBVIOUS
<1> QED
  BY <1>1, <1>2, <1>3, <1>4, <1>5, <1>6

\* What a proposal says.
LEMMA ProposesFields ==
    ASSUME NEW kind, NEW j, NEW n, NEW op
    PROVE  LET p == Proposes(kind, j, n, op) IN
           p.kind = kind /\ p.job = j /\ p.att = n /\ p.op = op /\ p.moved = {} /\ Subject(p) = <<j, n>>
BY DEF Proposes, Subject

\* An offer is a proposal, and it says what the item needs.
LEMMA OfferIsNeeded ==
    ASSUME NEW items \in [Jobs -> Item], NEW p \in Offers(items)
    PROVE  /\ p \in Proposal /\ p.moved = {}
           /\ p.kind = "reset" => ~ (items[p.job].status = "queued" /\ Bare(items[p.job]))
           /\ p.kind = "quarantine" => ~ (items[p.job].status = "needs-input" /\ Bare(items[p.job]))
           /\ p.kind = "bind" => items[p.job].status = "dispatching"
           /\ p.kind = "synchronize" => ~ QueueMatchesAttempt(items[p.job], Subject(p))
<1>0. /\ \A j \in Jobs : items[j] \in Item /\ items[j].op \in Nat
      /\ \A k \in Kinds : \A j \in Jobs : \A n \in Ordinal : \A op \in Nat : Proposes(k, j, n, op) \in Proposal
  BY DEF Item, Proposes, Proposal, Records
<1>1. ASSUME NEW j \in Jobs, ResetOffered(j, items[j]), p = Proposes("reset", j, 0, 0)
      PROVE  /\ p \in Proposal /\ p.moved = {} /\ p.kind = "reset"
             /\ ~ (items[p.job].status = "queued" /\ Bare(items[p.job]))
  <2>1. p.job = j /\ p.kind = "reset" /\ p.moved = {}
    BY <1>1, ProposesFields
  <2>2. p \in Proposal
    BY <1>0, <1>1 DEF Kinds, Ordinal
  <2> QED
    BY <1>1, <2>1, <2>2 DEF ResetOffered, Intent
<1>2. ASSUME NEW j \in Jobs, QuarantineOffered(j, items[j]), p = Proposes("quarantine", j, 0, 0)
      PROVE  /\ p \in Proposal /\ p.moved = {} /\ p.kind = "quarantine"
             /\ ~ (items[p.job].status = "needs-input" /\ Bare(items[p.job]))
  <2>1. p.job = j /\ p.kind = "quarantine" /\ p.moved = {}
    BY <1>2, ProposesFields
  <2>2. p \in Proposal
    BY <1>0, <1>2 DEF Kinds, Ordinal
  <2> QED
    BY <1>2, <2>1, <2>2 DEF QuarantineOffered, Intent, Names, Bare
<1>3. ASSUME NEW j \in Jobs, NEW a \in JoinedTo(j, items[j]), BindOffered(items[j], a),
             p = Proposes("bind", j, a[2], items[j].op)
      PROVE  p \in Proposal /\ p.moved = {} /\ p.kind = "bind" /\ items[p.job].status = "dispatching"
  <2>1. p.job = j /\ p.kind = "bind" /\ p.moved = {}
    BY <1>3, ProposesFields
  <2>2. p \in Proposal
    BY <1>0, <1>3, JoinedIsOwn DEF Kinds
  <2> QED
    BY <1>3, <2>1, <2>2 DEF BindOffered
<1>4. ASSUME NEW j \in Jobs, NEW a \in JoinedTo(j, items[j]), SynchronizeOffered(items[j], a),
             p = Proposes("synchronize", j, a[2], 0)
      PROVE  /\ p \in Proposal /\ p.moved = {} /\ p.kind = "synchronize"
             /\ ~ QueueMatchesAttempt(items[p.job], Subject(p))
  <2>1. p.job = j /\ p.kind = "synchronize" /\ p.moved = {} /\ Subject(p) = <<j, a[2]>>
    BY <1>4, ProposesFields
  <2>2. p \in Proposal
    BY <1>0, <1>4, JoinedIsOwn DEF Kinds
  <2>3. ~ QueueMatchesAttempt(items[j], a)
    BY <1>4, OutcomeEnds DEF SynchronizeOffered, QueueMatchesAttempt
  <2> QED
    BY <2>1, <2>2, <2>3, JoinedIsOwn
<1>5. ASSUME NEW a \in Attempts, p = Proposes("recover", a[1], a[2], 0)
      PROVE  p \in Proposal /\ p.moved = {} /\ p.kind = "recover"
  <2>1. p.kind = "recover" /\ p.moved = {}
    BY <1>5, ProposesFields
  <2>2. a[1] \in Jobs /\ a[2] \in Ordinal
    BY AttemptNames, DispatchAssumption DEF Ordinal
  <2> QED
    BY <1>0, <1>5, <2>1, <2>2 DEF Kinds
<1> QED
  BY <1>1, <1>2, <1>3, <1>4, <1>5, OfferCases

\* A repair of what is needed changes the item.
LEMMA RepairIsNew ==
    ASSUME StoreInv, NEW p \in Proposal, p.kind # "recover", Needs(p)
    PROVE  Repaired(p, item[p.job]) \in Item /\ Repaired(p, item[p.job]) # item[p.job]
<1> DEFINE it == item[p.job]
<1>0. it \in Item /\ p.op \in Nat /\ p.att \in Ordinal /\ p.kind \in Kinds
  BY DEF StoreInv, Proposal
<1>n. Needs(p)
  OBVIOUS
<1>1. CASE p.kind = "reset"
  <2>1. Repaired(p, it) = [it EXCEPT !.status = "queued", !.op = 0, !.att = 0, !.done = 0]
    BY <1>1 DEF Repaired
  <2>2. ~ (it.status = "queued" /\ Bare(it))
    BY <1>1, <1>n DEF Needs
  <2>3. PICK x \in Item : x = it
    BY <1>0
  <2>4. PICK y : y = Repaired(p, it)
    OBVIOUS
  <2>5. y = [x EXCEPT !.status = "queued", !.op = 0, !.att = 0, !.done = 0] /\ ~ (x.status = "queued" /\ Bare(x))
    BY <2>1, <2>2, <2>3, <2>4
  <2>6. y \in Item /\ y # x
    BY <2>5 DEF Item, Bare, QueueStatus, Ordinal
  <2> QED
    BY <2>3, <2>4, <2>6
<1>2. CASE p.kind = "quarantine"
  <2>1. Repaired(p, it) = [it EXCEPT !.status = "needs-input", !.op = 0, !.att = 0, !.done = 0]
    BY <1>2 DEF Repaired
  <2>2. ~ (it.status = "needs-input" /\ Bare(it))
    BY <1>2, <1>n DEF Needs
  <2>3. PICK x \in Item : x = it
    BY <1>0
  <2>4. PICK y : y = Repaired(p, it)
    OBVIOUS
  <2>5. y = [x EXCEPT !.status = "needs-input", !.op = 0, !.att = 0, !.done = 0] /\ ~ (x.status = "needs-input" /\ Bare(x))
    BY <2>1, <2>2, <2>3, <2>4
  <2>6. y \in Item /\ y # x
    BY <2>5 DEF Item, Bare, QueueStatus, Ordinal
  <2> QED
    BY <2>3, <2>4, <2>6
<1>3. CASE p.kind = "bind"
  <2>1. Repaired(p, it) = [it EXCEPT !.status = "running", !.op = p.op, !.att = p.att, !.done = 0]
    BY <1>3 DEF Repaired
  <2>2. it.status = "dispatching"
    BY <1>3, <1>n DEF Needs
  <2>3. PICK x \in Item : x = it
    BY <1>0
  <2>4. PICK y : y = Repaired(p, it)
    OBVIOUS
  <2>5. y = [x EXCEPT !.status = "running", !.op = p.op, !.att = p.att, !.done = 0] /\ x.status = "dispatching"
    BY <2>1, <2>2, <2>3, <2>4
  <2>6. y \in Item /\ y # x
    BY <1>0, <2>5 DEF Item, QueueStatus, Ordinal
  <2> QED
    BY <2>3, <2>4, <2>6
<1>4. CASE p.kind = "synchronize"
  <2> DEFINE out == Outcome(Subject(p))
  <2>1. Repaired(p, it) = [it EXCEPT !.status = out, !.att = p.att, !.done = p.att]
    BY <1>4 DEF Repaired, Completed
  <2>2. ~ (it.status = out /\ it.att = p.att /\ it.done = p.att)
    BY <1>4, <1>n DEF Needs, QueueMatchesAttempt, Subject
  <2>3. out \in QueueStatus
    BY OutcomeEnds DEF Terminal, QueueStatus
  <2>4. PICK x \in Item : x = it
    BY <1>0
  <2>5. PICK y : y = Repaired(p, it)
    OBVIOUS
  <2> HIDE DEF out
  <2>6. /\ y = [x EXCEPT !.status = out, !.att = p.att, !.done = p.att]
        /\ ~ (x.status = out /\ x.att = p.att /\ x.done = p.att)
    BY <2>1, <2>2, <2>4, <2>5
  <2>7. y \in Item /\ y # x
    BY <1>0, <2>3, <2>6 DEF Item
  <2> QED
    BY <2>4, <2>5, <2>7
<1> QED
  BY <1>0, <1>1, <1>2, <1>3, <1>4 DEF Kinds

-----------------------------------------------------------------------------
(* What a step does to those who have read the records before it.          *)

\* The records of an attempt decide its outcome.
LEMMA OutcomeOfRecords ==
    ASSUME NEW a, Manifest(attempt'[a]) = Manifest(attempt[a]), CleanupRecord(attempt'[a]) = CleanupRecord(attempt[a])
    PROVE  Outcome(a)' = Outcome(a)
<1>1. /\ attempt'[a].status = attempt[a].status /\ attempt'[a].eligible = attempt[a].eligible
      /\ attempt'[a].proc = attempt[a].proc /\ attempt'[a].ws = attempt[a].ws
  BY DEF Manifest, CleanupRecord
<1> QED
  BY <1>1 DEF Outcome, Cleanup, AllProven

\* An aged proposal is the same proposal; it lost its token if a record of it moved.
LEMMA AgedProposal ==
    ASSUME CInv, AgeProposals, NEW i \in Actions
    PROVE  /\ approved'[i] \in Proposal \cup {NoProposal}
           /\ approved[i] = NoProposal => approved'[i] = NoProposal
           /\ approved[i] # NoProposal =>
                 /\ approved'[i] \in Proposal
                 /\ approved'[i].kind = approved[i].kind /\ approved'[i].job = approved[i].job
                 /\ approved'[i].att = approved[i].att /\ approved'[i].op = approved[i].op
                 /\ approved'[i].moved = approved[i].moved \cup Updated(approved[i])
<1> DEFINE p == approved[i]
<1>1. p \in Proposal \cup {NoProposal}
  BY DEF CInv, ReconcilerTypeOK
<1>2. approved'[i] = Aged(p)
  BY DEF AgeProposals
<1>3. p # NoProposal => Updated(p) \subseteq Records
  <2>1. p # NoProposal => p.kind \in Kinds
    BY <1>1 DEF Proposal
  <2> QED
    BY <2>1 DEF Updated, TokenOf, Records, Kinds
<1> HIDE DEF p
<1>4. p # NoProposal => Aged(p) = [p EXCEPT !.moved = @ \cup Updated(p)]
  BY DEF Aged
<1>5. p = NoProposal => Aged(p) = p
  BY DEF Aged
<1> QED
  BY <1>1, <1>2, <1>3, <1>4, <1>5 DEF Proposal, p

\* A token that still holds has seen no change.
LEMMA NeedLasts ==
    ASSUME NEW p \in Proposal, Needs(p), Updated(p) = {},
           NEW q, q.kind = p.kind, q.job = p.job, q.att = p.att
    PROVE  Needs(q)'
<1>1. p.kind \in Kinds /\ Subject(q) = Subject(p)
  BY DEF Proposal, Subject
<1>2. p.kind # "recover" => item'[p.job] = item[p.job]
  <2>1. p.kind # "recover" => "item" \in TokenOf(p.kind)
    BY <1>1 DEF TokenOf, Kinds, Records
  <2> QED
    BY <2>1 DEF Updated
<1>3. p.kind = "synchronize" => Outcome(Subject(p))' = Outcome(Subject(p))
  <2>1. p.kind = "synchronize" => TokenOf(p.kind) = {"item", "manifest", "cleanup"}
    BY DEF TokenOf, Records
  <2>2. p.kind = "synchronize" => /\ Manifest(attempt'[Subject(p)]) = Manifest(attempt[Subject(p)])
                                  /\ CleanupRecord(attempt'[Subject(p)]) = CleanupRecord(attempt[Subject(p)])
    BY <2>1 DEF Updated
  <2> QED
    BY <2>2, OutcomeOfRecords
<1>4. QueueMatchesAttempt(item[p.job], Subject(p)) /\ p.kind = "synchronize"
      <=> QueueMatchesAttempt(item[p.job], Subject(p))' /\ p.kind = "synchronize"
  BY <1>2, <1>3 DEF QueueMatchesAttempt
<1> QED
  BY <1>1, <1>2, <1>4 DEF Needs, Bare

LEMMA AgedAction ==
    ASSUME CInv, AgeProposals, NEW i \in Actions, applied'[i] = applied[i]
    PROVE  ActionOK(i)'
<1>1. PICK p : p = approved[i]
  OBVIOUS
<1>2. PICK q : q = approved'[i]
  OBVIOUS
<1>3. /\ p \in Proposal \cup {NoProposal} /\ ActionOK(i)
      /\ p = NoProposal => q = NoProposal
      /\ p # NoProposal =>
            /\ q \in Proposal /\ q.kind = p.kind /\ q.job = p.job /\ q.att = p.att
            /\ q.moved = p.moved \cup Updated(p)
  BY <1>1, <1>2, AgedProposal DEF CInv, ReconcilerTypeOK
<1>4. ASSUME q # NoProposal, q.moved = {} PROVE Needs(q)'
  <2>1. p \in Proposal /\ p.moved = {} /\ Updated(p) = {}
    BY <1>3, <1>4
  <2>2. Needs(p)
    BY <1>1, <1>3, <2>1, NoProposalIsNone DEF ActionOK, TokenHolds
  <2> QED
    BY <1>3, <2>1, <2>2, NeedLasts, NoProposalIsNone
<1>5. approved'[i] # NoProposal /\ TokenHolds(approved[i])' => Needs(approved[i])'
  BY <1>2, <1>4 DEF TokenHolds
<1>6. applied'[i] # 0 => applied'[i] = 1 /\ approved'[i] # NoProposal /\ "item" \in approved'[i].moved
  BY <1>1, <1>2, <1>3, NoProposalIsNone DEF ActionOK
<1> QED
  BY <1>5, <1>6 DEF ActionOK

\* What ageing does to a caller.
LEMMA AgedCaller ==
    ASSUME CInv, NEW c \in Callers
    PROVE  LET k == AgedCall(call[c]) IN
           /\ k \in Call
           /\ k.at = call[c].at /\ k.id = call[c].id /\ k.seen = call[c].seen /\ k.next = call[c].next
           /\ k.at = "mutate" \/ (k.at = "attempts" /\ k.id = None) =>
                 k.moved = call[c].moved \cup {j \in Jobs : item'[j] # item[j]}
<1> DEFINE T == {j \in Jobs : item'[j] # item[j]}
<1>1. PICK k : k = call[c]
  OBVIOUS
<1>2. k \in Call
  BY <1>1 DEF CInv, ReconcilerTypeOK, Call, Places
<1>3. ASSUME k.at = "mutate" \/ (k.at = "attempts" /\ k.id = None)
      PROVE  AgedCall(k) = [k EXCEPT !.moved = @ \cup T]
  BY <1>3 DEF AgedCall
<1>4. ASSUME ~ (k.at = "mutate" \/ (k.at = "attempts" /\ k.id = None))
      PROVE  AgedCall(k) = k \/ \E b \in BOOLEAN : AgedCall(k) = [k EXCEPT !.same = b]
  <2>1. k.same \in BOOLEAN
    BY <1>2 DEF Call
  <2>2. CASE k.at = "repair" /\ k.found = "cleared"
    <3> DEFINE b == k.same /\ Manifest(attempt'[Subject(approved[k.id])]) = Manifest(attempt[Subject(approved[k.id])])
    <3>1. b \in BOOLEAN
      BY <2>1
    <3>2. AgedCall(k) = [k EXCEPT !.same = b]
      BY <1>2, <2>2 DEF AgedCall, Call
    <3> HIDE DEF b
    <3> QED
      BY <3>1, <3>2
  <2>3. CASE ~ (k.at = "repair" /\ k.found = "cleared")
    BY <1>4, <2>3 DEF AgedCall
  <2> QED
    BY <2>2, <2>3
<1>5. T \subseteq Jobs
  OBVIOUS
<1> HIDE DEF T
<1>6. CASE k.at = "mutate" \/ (k.at = "attempts" /\ k.id = None)
  <2>1. AgedCall(k) = [k EXCEPT !.moved = k.moved \cup T]
    BY <1>2, <1>3, <1>6 DEF Call
  <2>2. [k EXCEPT !.moved = k.moved \cup T] \in Call
    BY <1>2, <1>5 DEF Call
  <2> QED
    BY <1>1, <1>2, <2>1, <2>2 DEF T, Call
<1>7. CASE ~ (k.at = "mutate" \/ (k.at = "attempts" /\ k.id = None))
  BY <1>1, <1>2, <1>4, <1>7 DEF Call
<1> QED
  BY <1>6, <1>7

\* A caller stays right when it is told of the items that change.
LEMMA AgedCallerOK ==
    ASSUME CInv, AgeProposals, NEW c \in Callers,
           call'[c].at = call[c].at, call'[c].id = call[c].id, call'[c].seen = call[c].seen,
           call'[c].next = call[c].next,
           call[c].at = "mutate" \/ (call[c].at = "attempts" /\ call[c].id = None) =>
              call'[c].moved = call[c].moved \cup {j \in Jobs : item'[j] # item[j]},
           \A i \in Actions : applied'[i] # applied[i] => item'[approved[i].job] # item[approved[i].job]
    PROVE  CallOK(call[c])'
<1> DEFINE i == call[c].id
<1>1. i \in Actions \cup {None} /\ CallOK(call[c])
  BY DEF CInv, ReconcilerTypeOK
<1>2. i # None => /\ approved'[i] # NoProposal /\ approved[i] \in Proposal
                  /\ approved'[i].kind = approved[i].kind /\ approved'[i].job = approved[i].job
  BY <1>1, AgedProposal, NoProposalIsNone DEF CallOK, CInv, ReconcilerTypeOK
<1>3. call'[c].at = "attempts" /\ call'[c].id = None =>
         \A j \in Jobs \ call'[c].moved : call'[c].seen[j] = item'[j]
  BY <1>1 DEF CallOK
<1>4. ASSUME call'[c].at = "mutate" PROVE
         /\ call'[c].id # None /\ approved'[call'[c].id].kind # "recover"
         /\ approved'[call'[c].id].job \notin call'[c].moved =>
               call'[c].next # item'[approved'[call'[c].id].job] /\ applied'[call'[c].id] = 0
  <2>1. i # None /\ approved[i].kind # "recover"
    BY <1>1, <1>4 DEF CallOK
  <2>2. approved[i].job \in Jobs
    BY <1>2, <2>1 DEF Proposal
  <2>3. approved[i].job \notin call'[c].moved =>
           /\ approved[i].job \notin call[c].moved /\ item'[approved[i].job] = item[approved[i].job]
           /\ applied'[i] = applied[i]
    BY <1>1, <1>4, <2>1, <2>2
  <2> QED
    BY <1>1, <1>2, <1>4, <2>1, <2>3 DEF CallOK
<1> QED
  BY <1>2, <1>3, <1>4 DEF CallOK

-----------------------------------------------------------------------------
(* The reconciler's steps.                                                 *)

LEMMA IdleIsTyped == Idle \in Call /\ Idle.at = "idle" /\ Idle.id = None
<1>1. Nobody \in [Jobs -> Item] /\ NoItem \in Item
  BY DEF Nobody, NoItem, Item, Ordinal
<1> QED
  BY <1>1 DEF Idle, Call, Places, Found, ResultStatus

\* One caller goes on, and the records stay as they are.
LEMMA OneCaller ==
    ASSUME CInv, UNCHANGED <<vars, approved, applied>>,
           results' \in [Actions -> ResultStatus], holder' \in Callers \cup {None},
           NEW c \in Callers, NEW k \in Call, call' = [call EXCEPT ![c] = k], CallOK(k)
    PROVE  CInv'
<1>1. /\ item' = item /\ attempt' = attempt /\ exec' = exec /\ pass' = pass
      /\ approved' = approved /\ applied' = applied
  BY DEF vars, durable, memory
<1>2. StoreInv'
  BY <1>1 DEF CInv, StoreInv
<1>3. call \in [Callers -> Call]
  BY DEF CInv, ReconcilerTypeOK, Call, Places
<1>4. call' \in [Callers -> Call] /\ call'[c] = k /\ \A d \in Callers \ {c} : call'[d] = call[d]
  BY <1>3
<1>5. ReconcilerTypeOK'
  BY <1>1, <1>4 DEF CInv, ReconcilerTypeOK, Call, Places
<1>6. ASSUME NEW i \in Actions PROVE ActionOK(i)'
  <2>1. ActionOK(i)
    BY DEF CInv
  <2> QED
    BY <1>1, <2>1 DEF ActionOK, TokenHolds, Needs, Bare, QueueMatchesAttempt, Subject, Outcome, Cleanup, AllProven
<1>7. ASSUME NEW d \in Callers PROVE CallOK(call[d])'
  <2>1. CallOK(call[d]) /\ CallOK(k)
    BY DEF CInv
  <2>2. PICK x : x = call'[d]
    OBVIOUS
  <2>3. CallOK(x)
    BY <1>4, <2>1, <2>2
  <2> QED
    BY <1>1, <2>2, <2>3 DEF CallOK
<1> QED
  BY <1>2, <1>5, <1>6, <1>7 DEF CInv

\* A caller that is neither listing nor writing has nothing to be wrong about.
LEMMA HarmlessPlace ==
    ASSUME NEW k, k.at \notin {"attempts", "mutate"}, k.id # None => approved[k.id] # NoProposal
    PROVE  CallOK(k)
BY DEF CallOK

LEMMA Postconditions ==
    ASSUME NEW p \in Proposal
    PROVE  Postcondition(p) \in ResultStatus
<1>1. p.kind \in Kinds
  BY DEF Proposal
<1> QED
  BY <1>1 DEF Postcondition, ResultStatus, Kinds

\* The caller's steps that only read, and those that only it can see.
LEMMA ReadingSteps ==
    ASSUME CInv, NEW c \in Callers,
           \/ InspectLease(c) \/ ListItems(c) \/ (\E i \in Actions : PersistIntent(c, i)) \/ Replay(c)
           \/ CheckOffered(c) \/ Recheck(c) \/ AcquireLease(c) \/ ConcludeRepair(c) \/ RecordResult(c) \/ Interrupt(c)
    PROVE  CInv'
<1>1. PICK k : k = call[c]
  OBVIOUS
<1>2. /\ k \in Call /\ CallOK(k) /\ call \in [Callers -> Call]
      /\ results \in [Actions -> ResultStatus] /\ holder \in Callers \cup {None}
  BY <1>1 DEF CInv, ReconcilerTypeOK, Call, Places
<1>3. k.id # None => approved[k.id] # NoProposal
  BY <1>2 DEF CallOK
<1>i. ASSUME UNCHANGED <<vars, approved, applied>>, call' = [call EXCEPT ![c] = Idle],
             results' \in [Actions -> ResultStatus], holder' \in Callers \cup {None}
      PROVE  CInv'
  BY <1>i, OneCaller, IdleIsTyped, HarmlessPlace
<1>4. CASE InspectLease(c)
  <2>1. PICK b : b = NobodyOwns
    OBVIOUS
  <2>2. b \in BOOLEAN
    BY <2>1, Zenon DEF NobodyOwns
  <2> DEFINE n == [k EXCEPT !.at = "items", !.can = b]
  <2>3. n \in Call /\ n.at = "items" /\ n.id = k.id
    BY <1>2, <2>2 DEF Call, Places
  <2>4. call' = [call EXCEPT ![c] = n]
    BY <1>1, <1>2, <1>4, <2>1 DEF InspectLease
  <2> HIDE DEF n
  <2>5. CallOK(n)
    BY <1>3, <2>3, HarmlessPlace
  <2> QED
    BY <1>2, <1>4, <2>3, <2>4, <2>5, OneCaller DEF InspectLease
<1>5. CASE ListItems(c)
  <2>1. PICK b : b = (call[c].id # None /\ "item" \notin approved[call[c].id].moved)
    OBVIOUS
  <2>2. b \in BOOLEAN
    BY <2>1, Zenon
  <2> DEFINE n == [k EXCEPT !.at = "attempts", !.seen = item, !.same = b]
  <2>3. item \in [Jobs -> Item]
    BY DEF CInv, StoreInv
  <2>4. n \in Call /\ n.at = "attempts" /\ n.id = k.id /\ n.seen = item
    BY <1>2, <2>2, <2>3 DEF Call, Places
  <2>5. call' = [call EXCEPT ![c] = n]
    BY <1>1, <1>2, <1>5, <2>1 DEF ListItems
  <2>6. PICK m : m = n
    OBVIOUS
  <2>7. m \in Call /\ call' = [call EXCEPT ![c] = m] /\ m.at = "attempts" /\ m.id = k.id /\ m.seen = item
    BY <2>4, <2>5, <2>6
  <2>8. CallOK(m)
    BY <1>3, <2>7 DEF CallOK
  <2> QED
    BY <1>2, <1>5, <2>7, <2>8, OneCaller DEF ListItems
<1>6. ASSUME NEW i \in Actions, PersistIntent(c, i) PROVE CInv'
  <2> DEFINE n == [Idle EXCEPT !.at = "replay", !.id = i]
  <2>1. n \in Call /\ n.at = "replay" /\ n.id = i
    BY IdleIsTyped DEF Call, Places
  <2>2. k = Idle /\ call' = [call EXCEPT ![c] = [call[c] EXCEPT !.at = "replay", !.id = i]]
    BY <1>1, <1>6 DEF PersistIntent
  <2>3. call' = [call EXCEPT ![c] = n]
    BY <1>1, <2>2
  <2> HIDE DEF n
  <2>4. CallOK(n)
    BY <1>6, <2>1, HarmlessPlace DEF PersistIntent
  <2> QED
    BY <1>2, <1>6, <2>1, <2>3, <2>4, OneCaller DEF PersistIntent
<1>7. CASE CheckOffered(c)
  <2>1. PICK at \in {"acquire", "recheck"} :
           call' = [call EXCEPT ![c] = [call[c] EXCEPT !.at = at, !.can = FALSE, !.seen = Nobody, !.same = FALSE]]
    BY <1>7 DEF CheckOffered
  <2> DEFINE n == [k EXCEPT !.at = at, !.can = FALSE, !.seen = Nobody, !.same = FALSE]
  <2>2. Nobody \in [Jobs -> Item]
    BY DEF Nobody, NoItem, Item, Ordinal
  <2>3. n \in Call /\ n.at = at /\ n.id = k.id
    BY <1>2, <2>2 DEF Call, Places
  <2>4. call' = [call EXCEPT ![c] = n]
    BY <1>1, <2>1
  <2> HIDE DEF n
  <2>5. CallOK(n)
    BY <1>3, <2>3, HarmlessPlace
  <2> QED
    BY <1>2, <1>7, <2>3, <2>4, <2>5, OneCaller DEF CheckOffered
<1>8. ASSUME NEW at \in {"acquire", "check"}, UNCHANGED <<vars, approved, applied>>, Goto(c, at),
             results' \in [Actions -> ResultStatus], holder' \in Callers \cup {None}
      PROVE  CInv'
  <2> DEFINE n == [k EXCEPT !.at = at]
  <2>1. n \in Call /\ n.at = at /\ n.id = k.id
    BY <1>2 DEF Call, Places
  <2>2. call' = [call EXCEPT ![c] = n]
    BY <1>1, <1>8 DEF Goto
  <2> HIDE DEF n
  <2>3. CallOK(n)
    BY <1>3, <2>1, HarmlessPlace
  <2> QED
    BY <1>8, <2>1, <2>2, <2>3, OneCaller
<1>9. CASE Recheck(c)
  BY <1>2, <1>8, <1>9, <1>i DEF Recheck
<1>10. CASE AcquireLease(c)
  BY <1>2, <1>8, <1>10, <1>i DEF AcquireLease
<1>11. CASE ConcludeRepair(c)
  <2>1. PICK out \in ResultStatus :
           call' = [call EXCEPT ![c] = [call[c] EXCEPT !.at = "record", !.found = "none", !.out = out]]
    BY <1>11 DEF ConcludeRepair, ResultStatus
  <2> DEFINE n == [k EXCEPT !.at = "record", !.found = "none", !.out = out]
  <2>2. n \in Call /\ n.at = "record" /\ n.id = k.id
    BY <1>2 DEF Call, Places, Found
  <2>3. call' = [call EXCEPT ![c] = n]
    BY <1>1, <2>1
  <2> HIDE DEF n
  <2>4. CallOK(n)
    BY <1>3, <2>2, HarmlessPlace
  <2> QED
    BY <1>2, <1>11, <2>2, <2>3, <2>4, OneCaller DEF ConcludeRepair
<1>12. CASE RecordResult(c)
  <2>1. call[c].out \in ResultStatus
    BY <1>1, <1>2 DEF Call
  <2>2. results' \in [Actions -> ResultStatus] /\ holder' \in Callers \cup {None}
    BY <1>2, <1>12, <2>1 DEF RecordResult
  <2> QED
    BY <1>12, <1>i, <2>2 DEF RecordResult
<1>13. CASE Replay(c)
  BY <1>2, <1>13, <1>i DEF Replay
<1>14. CASE Interrupt(c)
  BY <1>2, <1>14, <1>i DEF Interrupt
<1> QED
  BY <1>4, <1>5, <1>6, <1>7, <1>9, <1>10, <1>11, <1>12, <1>13, <1>14

\* The token is compared under the lease.
LEMMA CheckingStep ==
    ASSUME CInv, NEW c \in Callers, CheckToken(c)
    PROVE  CInv'
<1>1. PICK k : k = call[c]
  OBVIOUS
<1>2. /\ k \in Call /\ CallOK(k) /\ call \in [Callers -> Call]
      /\ results \in [Actions -> ResultStatus] /\ holder \in Callers \cup {None}
  BY <1>1 DEF CInv, ReconcilerTypeOK, Call, Places
<1>3. PICK p : p = approved[k.id]
  OBVIOUS
<1>4. /\ k.id \in Actions /\ ActionOK(k.id) /\ p \in Proposal /\ p # NoProposal
      /\ p = ActionOf(c) /\ UNCHANGED <<vars, approved, results, applied>>
  <2>1. k.id # None
    BY <1>1 DEF CheckToken, Acting
  <2>2. k.id \in Actions /\ p # NoProposal
    BY <1>2, <1>3, <2>1 DEF Call, CallOK
  <2> QED
    BY <1>1, <1>3, <2>2 DEF CInv, ReconcilerTypeOK, CheckToken, ActionOf
<1>5. CASE TokenHolds(p) /\ p.kind = "recover" /\ Goto(c, "repair") /\ UNCHANGED holder
  <2> DEFINE n == [k EXCEPT !.at = "repair"]
  <2>1. n \in Call /\ n.at = "repair" /\ n.id = k.id
    BY <1>2 DEF Call, Places
  <2>2. call' = [call EXCEPT ![c] = n]
    BY <1>1, <1>5 DEF Goto
  <2> HIDE DEF n
  <2>3. CallOK(n)
    BY <1>3, <1>4, <2>1, HarmlessPlace
  <2> QED
    BY <1>2, <1>4, <1>5, <2>1, <2>2, <2>3, OneCaller
<1>6. CASE /\ TokenHolds(p) /\ p.kind # "recover" /\ UNCHANGED holder
           /\ call' = [call EXCEPT ![c].at = "mutate", ![c].next = Repaired(p, item[p.job])]
  <2>1. PICK new : new = Repaired(p, item[p.job])
    OBVIOUS
  <2>2. Needs(p) /\ applied[k.id] = 0
    <3>1. p.moved = {}
      BY <1>6 DEF TokenHolds
    <3> QED
      BY <1>3, <1>4, <1>6, <3>1 DEF ActionOK
  <2>3. new \in Item /\ new # item[p.job]
    BY <1>4, <1>6, <2>1, <2>2, RepairIsNew DEF CInv
  <2> DEFINE n == [k EXCEPT !.at = "mutate", !.next = new]
  <2>4. n \in Call /\ n.at = "mutate" /\ n.id = k.id /\ n.next = new
    BY <1>2, <2>3 DEF Call, Places
  <2>5. call' = [call EXCEPT ![c] = n]
    BY <1>1, <1>6, <2>1
  <2> HIDE DEF n
  <2>6. CallOK(n)
    <3>1. n.id # None
      BY <1>4, <2>4, ReconcilerAssumption
    <3> QED
      BY <1>3, <1>4, <1>6, <2>2, <2>3, <2>4, <3>1 DEF CallOK
  <2> QED
    BY <1>2, <1>4, <1>6, <2>4, <2>5, <2>6, OneCaller
<1>7. CASE /\ call' = [call EXCEPT ![c].at = "record", ![c].out = Postcondition(p)]
           /\ UNCHANGED holder
  <2>1. PICK out : out = Postcondition(p)
    OBVIOUS
  <2>2. out \in ResultStatus
    BY <1>4, <2>1, Postconditions
  <2> DEFINE n == [k EXCEPT !.at = "record", !.out = out]
  <2>3. n \in Call /\ n.at = "record" /\ n.id = k.id
    BY <1>2, <2>2 DEF Call, Places
  <2>4. call' = [call EXCEPT ![c] = n]
    BY <1>1, <1>7, <2>1
  <2> HIDE DEF n
  <2>5. CallOK(n)
    BY <1>3, <1>4, <2>3, HarmlessPlace
  <2> QED
    BY <1>2, <1>4, <1>7, <2>3, <2>4, <2>5, OneCaller
<1>8. CASE call' = [call EXCEPT ![c] = Idle] /\ holder' = None
  BY <1>2, <1>4, <1>8, OneCaller, IdleIsTyped, HarmlessPlace
<1> QED
  BY <1>4, <1>5, <1>6, <1>7, <1>8 DEF CheckToken

\* A proposal is approved: it needs its action, unless its item has moved.
LEMMA ApprovingStep ==
    ASSUME CInv, NEW c \in Callers, NEW i \in Actions, Approve(c, i)
    PROVE  CInv'
<1>1. PICK k : k = call[c]
  OBVIOUS
<1>2. /\ k \in Call /\ CallOK(k) /\ call \in [Callers -> Call] /\ approved \in [Actions -> Proposal \cup {NoProposal}]
      /\ k.at = "attempts" /\ k.id = None /\ approved[i] = NoProposal
  BY <1>1 DEF CInv, ReconcilerTypeOK, Call, Places, Approve
<1>0. \E p \in Offers(call[c].seen) :
         approved' = [approved EXCEPT ![i] =
             [p EXCEPT !.moved = {r \in TokenOf(p.kind) : r = "item" /\ p.job \in call[c].moved}]]
  BY DEF Approve
<1>3. PICK p \in Offers(k.seen) :
         approved' = [approved EXCEPT ![i] =
             [p EXCEPT !.moved = {r \in TokenOf(p.kind) : r = "item" /\ p.job \in k.moved}]]
  BY <1>0, <1>1
<1>4. /\ call' = [call EXCEPT ![c] = Idle]
      /\ item' = item /\ attempt' = attempt /\ exec' = exec /\ pass' = pass
      /\ results' = results /\ holder' = holder /\ applied' = applied
  BY DEF Approve, vars, durable, memory
<1>5. k.seen \in [Jobs -> Item]
  BY <1>2 DEF Call
<1> DEFINE q == [p EXCEPT !.moved = {r \in TokenOf(p.kind) : r = "item" /\ p.job \in k.moved}]
<1>6. /\ p \in Proposal /\ p.moved = {} /\ p.kind \in Kinds /\ p.job \in Jobs
      /\ p.kind = "reset" => ~ (k.seen[p.job].status = "queued" /\ Bare(k.seen[p.job]))
      /\ p.kind = "quarantine" => ~ (k.seen[p.job].status = "needs-input" /\ Bare(k.seen[p.job]))
      /\ p.kind = "bind" => k.seen[p.job].status = "dispatching"
      /\ p.kind = "synchronize" => ~ QueueMatchesAttempt(k.seen[p.job], Subject(p))
  BY <1>5, OfferIsNeeded DEF Proposal
<1>7. /\ q \in Proposal /\ q.kind = p.kind /\ q.job = p.job /\ q.att = p.att
      /\ q.moved = {r \in TokenOf(p.kind) : r = "item" /\ p.job \in k.moved}
  <2>1. {r \in TokenOf(p.kind) : r = "item" /\ p.job \in k.moved} \in SUBSET Records
    BY DEF Records
  <2> QED
    BY <1>6, <2>1 DEF Proposal
<1>8. q.moved = {} => Needs(q)
  <2>1. ASSUME q.moved = {}, q.kind # "recover" PROVE k.seen[q.job] = item[q.job]
    <3>1. "item" \in TokenOf(p.kind)
      BY <1>6, <1>7, <2>1 DEF TokenOf, Kinds, Records
    <3>2. p.job \notin k.moved
      BY <1>7, <2>1, <3>1
    <3> QED
      BY <1>2, <1>6, <1>7, <3>2 DEF CallOK
  <2>2. Subject(q) = Subject(p)
    BY <1>7 DEF Subject
  <2> QED
    BY <1>6, <1>7, <2>1, <2>2 DEF Needs
<1> HIDE DEF q
<1>9. approved' = [approved EXCEPT ![i] = q]
  BY <1>3 DEF q
<1>10. /\ approved'[i] = q /\ q # NoProposal /\ \A j \in Actions \ {i} : approved'[j] = approved[j]
       /\ approved' \in [Actions -> Proposal \cup {NoProposal}]
  BY <1>2, <1>7, <1>9, NoProposalIsNone
<1>11. call' \in [Callers -> Call] /\ call'[c] = Idle /\ \A d \in Callers \ {c} : call'[d] = call[d]
  BY <1>2, <1>4, IdleIsTyped
<1>12. StoreInv' /\ ReconcilerTypeOK'
  BY <1>4, <1>10, <1>11 DEF CInv, StoreInv, ReconcilerTypeOK, Call, Places
<1>13. ASSUME NEW j \in Actions PROVE ActionOK(j)'
  <2>1. ActionOK(j)
    BY DEF CInv
  <2>2. CASE j # i
    BY <1>4, <1>10, <2>1, <2>2 DEF ActionOK, TokenHolds, Needs, Bare, QueueMatchesAttempt, Subject, Outcome, Cleanup,
       AllProven
  <2>3. CASE j = i
    <3>1. applied'[j] = 0
      BY <1>2, <1>4, <2>1, <2>3 DEF ActionOK
    <3>2. q.moved = {} => Needs(q)'
      BY <1>4, <1>8 DEF Needs, Bare, QueueMatchesAttempt, Subject, Outcome, Cleanup, AllProven
    <3>3. TokenHolds(approved[j])' => Needs(approved[j])'
      BY <1>10, <2>3, <3>2 DEF TokenHolds
    <3> QED
      BY <3>1, <3>3 DEF ActionOK
  <2> QED
    BY <2>2, <2>3
<1>14. ASSUME NEW d \in Callers PROVE CallOK(call[d])'
  <2>1. CallOK(call[d]) /\ call[d].id \in Actions \cup {None}
    BY <1>2 DEF CInv, Call
  <2>2. CASE d = c
    BY <1>11, <2>2, IdleIsTyped DEF CallOK
  <2>3. CASE d # c
    <3>1. call'[d] = call[d]
      BY <1>11, <2>3
    <3>2. call[d].id # None => approved'[call[d].id] = approved[call[d].id] /\ approved[call[d].id] # NoProposal
      BY <1>2, <1>10, <2>1 DEF CallOK
    <3> QED
      BY <1>4, <2>1, <3>1, <3>2 DEF CallOK
  <2> QED
    BY <2>2, <2>3
<1> QED
  BY <1>12, <1>13, <1>14 DEF CInv

\* The queue is updated: the token of the action is gone, and so are the chances of those
\* who would apply it too.
LEMMA UpdatingStep ==
    ASSUME CInv, NEW c \in Callers, UpdateItem(c)
    PROVE  CInv'
<1>1. PICK k : k = call[c]
  OBVIOUS
<1>2. PICK p : p = approved[k.id]
  OBVIOUS
<1>3. /\ k \in Call /\ CallOK(k) /\ call \in [Callers -> Call] /\ k.at = "mutate" /\ k.id # None /\ k.id \in Actions
      /\ p \in Proposal /\ p # NoProposal /\ p.kind # "recover" /\ p.job \in Jobs /\ p.kind \in Kinds
      /\ p.job \notin k.moved /\ k.next # item[p.job] /\ applied[k.id] = 0 /\ k.next \in Item
  <2>1. k \in Call /\ CallOK(k) /\ call \in [Callers -> Call] /\ k.at = "mutate" /\ k.id # None
    BY <1>1 DEF CInv, ReconcilerTypeOK, Call, Places, UpdateItem, Acting
  <2>2. p.job \notin k.moved
    BY <1>1, <1>2 DEF UpdateItem, ActionOf
  <2>3. k.id \in Actions /\ p # NoProposal
    BY <1>2, <2>1 DEF Call, CallOK
  <2>4. p \in Proposal
    BY <1>2, <2>3 DEF CInv, ReconcilerTypeOK
  <2> QED
    BY <1>2, <2>1, <2>2, <2>3, <2>4 DEF CallOK, Proposal, Call
<1>4. /\ SetItem(p.job, k.next) /\ AgeProposals
      /\ applied' = [applied EXCEPT ![k.id] = @ + 1]
      /\ attempt' = attempt /\ exec' = exec /\ pass' = pass /\ results' = results /\ holder' = holder
      /\ call' = [d \in Callers |-> IF d = c THEN [k EXCEPT !.at = "record", !.next = NoItem,
                                                          !.moved = {}, !.out = "applied"]
                                    ELSE AgedCall(call[d])]
  BY <1>1, <1>2 DEF UpdateItem, ActionOf, memory
<1>5. /\ item' \in [Jobs -> Item] /\ item'[p.job] = k.next
      /\ \A j \in Jobs \ {p.job} : item'[j] = item[j]
  BY <1>3, <1>4 DEF CInv, StoreInv, SetItem
<1>6. StoreInv'
  BY <1>4, <1>5 DEF CInv, StoreInv
<1>7. applied \in [Actions -> Nat]
  BY DEF CInv, ReconcilerTypeOK
<1>8. applied' \in [Actions -> Nat] /\ applied'[k.id] = 1 /\ \A i \in Actions \ {k.id} : applied'[i] = applied[i]
  BY <1>3, <1>4, <1>7
<1>9. ASSUME NEW d \in Callers \ {c}
      PROVE  /\ call'[d] \in Call /\ call'[d].at = call[d].at /\ call'[d].id = call[d].id
             /\ call'[d].seen = call[d].seen /\ call'[d].next = call[d].next
             /\ call[d].at = "mutate" \/ (call[d].at = "attempts" /\ call[d].id = None) =>
                   call'[d].moved = call[d].moved \cup {j \in Jobs : item'[j] # item[j]}
  <2>1. call'[d] = AgedCall(call[d])
    BY <1>4
  <2> QED
    BY <2>1, AgedCaller
<1>10. call'[c] \in Call /\ call'[c].at = "record" /\ call'[c].id = k.id
  <2>1. NoItem \in Item
    BY DEF NoItem, Item, Ordinal
  <2>2. call'[c] = [k EXCEPT !.at = "record", !.next = NoItem, !.moved = {}, !.out = "applied"]
    BY <1>4
  <2> QED
    BY <1>3, <2>1, <2>2 DEF Call, Places, ResultStatus
<1>11. call' \in [Callers -> Call]
  <2>1. call' = [d \in Callers |-> call'[d]]
    BY <1>4
  <2>2. \A d \in Callers : call'[d] \in Call
    BY <1>9, <1>10
  <2> QED
    BY <2>1, <2>2
<1>12. approved' \in [Actions -> Proposal \cup {NoProposal}]
  <2>1. approved' = [i \in Actions |-> approved'[i]]
    BY <1>4 DEF AgeProposals
  <2>2. \A i \in Actions : approved'[i] \in Proposal \cup {NoProposal}
    BY <1>4, AgedProposal
  <2> QED
    BY <2>1, <2>2
<1>13. ReconcilerTypeOK'
  BY <1>4, <1>8, <1>11, <1>12 DEF CInv, ReconcilerTypeOK, Call, Places
<1>14. /\ approved'[k.id] # NoProposal /\ "item" \in approved'[k.id].moved
       /\ approved'[k.id].kind = p.kind /\ approved'[k.id].job = p.job
  <2>1. "item" \in TokenOf(p.kind)
    BY <1>3 DEF TokenOf, Kinds, Records
  <2>2. "item" \in Updated(p)
    BY <1>3, <1>5, <2>1 DEF Updated
  <2> QED
    BY <1>2, <1>3, <1>4, <2>2, AgedProposal, NoProposalIsNone
<1>15. ASSUME NEW i \in Actions PROVE ActionOK(i)'
  <2>1. CASE i = k.id
    BY <1>8, <1>14, <2>1 DEF ActionOK, TokenHolds
  <2>2. CASE i # k.id
    BY <1>4, <1>8, <2>2, AgedAction
  <2> QED
    BY <2>1, <2>2
<1>16. ASSUME NEW d \in Callers PROVE CallOK(call[d])'
  <2>1. CASE d = c
    BY <1>10, <1>14, <2>1 DEF CallOK
  <2>2. CASE d # c
    <3>1. \A i \in Actions : applied'[i] # applied[i] => item'[approved[i].job] # item[approved[i].job]
      BY <1>2, <1>3, <1>5, <1>8
    <3> QED
      BY <1>4, <1>9, <2>2, <3>1, AgedCallerOK
  <2> QED
    BY <2>1, <2>2
<1> QED
  BY <1>6, <1>13, <1>15, <1>16 DEF CInv

\* Steps that update records and apply no action: the dispatcher's, and a recovery.
LEMMA AgeingStep ==
    ASSUME CInv, StoreInv', AgeProposals, results' = results, holder' = holder, applied' = applied,
           call' \in [Callers -> Call],
           \A c \in Callers : /\ call'[c].at = call[c].at /\ call'[c].id = call[c].id
                              /\ call'[c].seen = call[c].seen /\ call'[c].next = call[c].next
                              /\ call[c].at = "mutate" \/ (call[c].at = "attempts" /\ call[c].id = None) =>
                                    call'[c].moved = call[c].moved \cup {j \in Jobs : item'[j] # item[j]}
    PROVE  CInv'
<1>1. approved' \in [Actions -> Proposal \cup {NoProposal}]
  <2>1. approved' = [i \in Actions |-> approved'[i]]
    BY DEF AgeProposals
  <2>2. \A i \in Actions : approved'[i] \in Proposal \cup {NoProposal}
    BY AgedProposal
  <2> QED
    BY <2>1, <2>2
<1>2. ReconcilerTypeOK'
  BY <1>1 DEF CInv, ReconcilerTypeOK, Call, Places
<1>3. \A i \in Actions : ActionOK(i)'
  BY AgedAction
<1>4. ASSUME NEW c \in Callers PROVE CallOK(call[c])'
  BY AgedCallerOK
<1> QED
  BY <1>2, <1>3, <1>4 DEF CInv

LEMMA RepairingStep ==
    ASSUME CInv, NEW c \in Callers, RepairAttempt(c)
    PROVE  CInv' /\ AttemptsKept
<1>1. PICK k : k = call[c]
  OBVIOUS
<1>2. k \in Call /\ call \in [Callers -> Call]
  BY <1>1 DEF CInv, ReconcilerTypeOK, Call, Places
<1>3. PICK next \in Found : /\ RecoveryStep(Subject(ActionOf(c)), k.found, next)
                            /\ call' = [call EXCEPT ![c].found = next, ![c].same = (next = "cleared")]
  BY <1>1 DEF RepairAttempt
<1>4. /\ item' = item /\ exec' = exec /\ pass' = pass /\ results' = results /\ holder' = holder /\ applied' = applied
      /\ AgeProposals /\ k.at = "repair"
  BY <1>1 DEF RepairAttempt, memory, Acting
<1>5. AttemptsKept
  BY <1>3, RecoveryKeeps DEF CInv
<1>6. StoreInv'
  BY <1>4, <1>5 DEF CInv, StoreInv, AttemptsKept
<1>7. PICK b \in BOOLEAN : b = (next = "cleared")
  OBVIOUS
<1> DEFINE n == [k EXCEPT !.found = next, !.same = b]
<1>8. n \in Call /\ n.at = k.at /\ n.id = k.id /\ n.seen = k.seen /\ n.next = k.next
  BY <1>2 DEF Call
<1>9. call' = [call EXCEPT ![c] = n]
  BY <1>1, <1>3, <1>7
<1> HIDE DEF n
<1>10. call' \in [Callers -> Call] /\ call'[c] = n /\ \A d \in Callers \ {c} : call'[d] = call[d]
  BY <1>2, <1>8, <1>9
<1>11. {j \in Jobs : item'[j] # item[j]} = {}
  BY <1>4
<1>12. \A d \in Callers : /\ call'[d].at = call[d].at /\ call'[d].id = call[d].id
                          /\ call'[d].seen = call[d].seen /\ call'[d].next = call[d].next
                          /\ call[d].at = "mutate" \/ (call[d].at = "attempts" /\ call[d].id = None) =>
                                call'[d].moved = call[d].moved \cup {j \in Jobs : item'[j] # item[j]}
  BY <1>1, <1>4, <1>8, <1>10, <1>11
<1> QED
  BY <1>4, <1>5, <1>6, <1>10, <1>12, AgeingStep

LEMMA DispatchingStep ==
    ASSUME CInv, DispatcherStep
    PROVE  CInv' /\ AttemptsKept
<1>1. /\ Next /\ AgeProposals /\ results' = results /\ holder' = holder /\ applied' = applied
      /\ call' = [c \in Callers |-> AgedCall(call[c])]
  BY DEF DispatcherStep
<1>2. StoreInv' /\ AttemptsKept
  BY <1>1, NextStore DEF CInv
<1>3. ASSUME NEW c \in Callers
      PROVE  /\ call'[c] \in Call /\ call'[c].at = call[c].at /\ call'[c].id = call[c].id
             /\ call'[c].seen = call[c].seen /\ call'[c].next = call[c].next
             /\ call[c].at = "mutate" \/ (call[c].at = "attempts" /\ call[c].id = None) =>
                   call'[c].moved = call[c].moved \cup {j \in Jobs : item'[j] # item[j]}
  <2>1. call'[c] = AgedCall(call[c])
    BY <1>1
  <2> QED
    BY <2>1, AgedCaller
<1>4. call' \in [Callers -> Call]
  <2>1. call' = [c \in Callers |-> call'[c]]
    BY <1>1
  <2> QED
    BY <1>3, <2>1
<1> QED
  BY <1>1, <1>2, <1>3, <1>4, AgeingStep

\* Every step keeps the invariant and the attempts.
LEMMA CStep ==
    ASSUME CInv, [ReconcilerNext]_allvars
    PROVE  CInv' /\ AttemptsKept
<1>0. StoreInv
  BY DEF CInv
<1>1. CASE DispatcherStep
  BY <1>1, DispatchingStep
<1>2. ASSUME NEW c \in Callers, Reconcile(c) PROVE CInv' /\ AttemptsKept
  <2>1. CASE RepairAttempt(c)
    BY <2>1, RepairingStep
  <2>2. CASE UpdateItem(c)
    <3>1. attempt' = attempt
      BY <2>2 DEF UpdateItem
    <3> QED
      BY <1>0, <2>2, <3>1, UpdatingStep, SameAttempts
  <2>3. CASE CheckToken(c)
    <3>1. attempt' = attempt
      BY <2>3 DEF CheckToken, vars, durable
    <3> QED
      BY <1>0, <2>3, <3>1, CheckingStep, SameAttempts
  <2>4. ASSUME NEW i \in Actions, Approve(c, i) PROVE CInv' /\ AttemptsKept
    <3>1. attempt' = attempt
      BY <2>4 DEF Approve, vars, durable
    <3> QED
      BY <1>0, <2>4, <3>1, ApprovingStep, SameAttempts
  <2>5. CASE \/ InspectLease(c) \/ ListItems(c) \/ (\E i \in Actions : PersistIntent(c, i)) \/ Replay(c)
             \/ CheckOffered(c) \/ Recheck(c) \/ AcquireLease(c) \/ ConcludeRepair(c) \/ RecordResult(c) \/ Interrupt(c)
    <3>1. attempt' = attempt
      BY <2>5 DEF InspectLease, ListItems, PersistIntent, Replay, CheckOffered, Recheck, AcquireLease, ConcludeRepair,
         RecordResult, Interrupt, vars, durable
    <3> QED
      BY <1>0, <2>5, <3>1, ReadingSteps, SameAttempts
  <2> QED
    BY <1>2, <2>1, <2>2, <2>3, <2>4, <2>5 DEF Reconcile
<1>3. CASE UNCHANGED allvars
  <2>1. /\ item' = item /\ attempt' = attempt /\ exec' = exec /\ pass' = pass /\ approved' = approved
        /\ results' = results /\ holder' = holder /\ call' = call /\ applied' = applied
    BY <1>3 DEF allvars, own, vars, durable, memory
  <2>2. StoreInv' /\ ReconcilerTypeOK'
    BY <2>1 DEF CInv, StoreInv, ReconcilerTypeOK
  <2>3. \A i \in Actions : ActionOK(i)'
    BY <2>1, ZenonT(40) DEF CInv, ActionOK, TokenHolds, Needs, Bare, QueueMatchesAttempt, Subject, Outcome, Cleanup, AllProven
  <2>4. \A c \in Callers : CallOK(call[c])'
    BY <2>1 DEF CInv, CallOK
  <2> QED
    BY <1>0, <2>1, <2>2, <2>3, <2>4, SameAttempts DEF CInv
<1> QED
  BY <1>1, <1>2, <1>3 DEF ReconcilerNext

-----------------------------------------------------------------------------
(* The classifier                                                          *)

\* The attempts of one operation are none, one, or more than one.
LEMMA OneOrMore ==
    ASSUME NEW j \in Jobs, NEW op, SameOperation(j, op) # {}, ~ (Cardinality(SameOperation(j, op)) > 1)
    PROVE  \E a \in SameOperation(j, op) : SameOperation(j, op) = {a}
<1> DEFINE S == SameOperation(j, op)
           N == 1 .. MaxAttempts[j]
<1>1. IsFiniteSet(N)
  BY DispatchAssumption, FS_Interval
<1>2. IsFiniteSet({j} \X N)
  BY <1>1, FS_Singleton, FS_Product
<1>3. S \subseteq {j} \X N
  <2>1. ASSUME NEW a \in S PROVE a \in {j} \X N
    <3>1. a \in Attempts /\ a[1] = j
      BY <2>1 DEF SameOperation
    <3>2. a[2] \in N /\ a = <<j, a[2]>>
      BY <3>1, AttemptNames
    <3> QED
      BY <3>2
  <2> QED
    BY <2>1
<1> HIDE DEF N
<1>4. IsFiniteSet(S)
  BY <1>2, <1>3, FS_Subset
<1>5. PICK a : a \in S
  OBVIOUS
<1> HIDE DEF S
<1>6. /\ IsFiniteSet(S \ {a}) /\ Cardinality(S \ {a}) = Cardinality(S) - 1
      /\ Cardinality(S) \in Nat /\ Cardinality(S \ {a}) \in Nat
  BY <1>4, <1>5, FS_RemoveElement, FS_CardinalityType
<1>7. Cardinality(S \ {a}) = 0
  BY <1>6 DEF S
<1>8. S \ {a} = {}
  BY <1>6, <1>7, FS_EmptySet
<1> QED
  BY <1>5, <1>8 DEF S

LEMMA OffersThat ==
    ASSUME NEW items
    PROVE  /\ \A j \in Jobs : ResetOffered(j, items[j]) => Proposes("reset", j, 0, 0) \in Offers(items)
           /\ \A j \in Jobs : QuarantineOffered(j, items[j]) => Proposes("quarantine", j, 0, 0) \in Offers(items)
           /\ \A j \in Jobs : \A a \in JoinedTo(j, items[j]) :
                 /\ BindOffered(items[j], a) => Proposes("bind", j, a[2], items[j].op) \in Offers(items)
                 /\ SynchronizeOffered(items[j], a) => Proposes("synchronize", j, a[2], 0) \in Offers(items)
           /\ \A a \in Attempts : RecoverOffered(items, a) => Proposes("recover", a[1], a[2], 0) \in Offers(items)
<1> DEFINE R == {Proposes("reset", j, 0, 0) : j \in {k \in Jobs : ResetOffered(k, items[k])}}
           Q == {Proposes("quarantine", j, 0, 0) : j \in {k \in Jobs : QuarantineOffered(k, items[k])}}
           B == UNION {{Proposes("bind", j, a[2], items[j].op) :
                    a \in {b \in JoinedTo(j, items[j]) : BindOffered(items[j], b)}} : j \in Jobs}
           S == UNION {{Proposes("synchronize", j, a[2], 0) :
                    a \in {b \in JoinedTo(j, items[j]) : SynchronizeOffered(items[j], b)}} : j \in Jobs}
           V == {Proposes("recover", a[1], a[2], 0) : a \in {b \in Attempts : RecoverOffered(items, b)}}
<1>1. Offers(items) = R \cup Q \cup B \cup S \cup V
  BY DEF Offers
<1>2. R \subseteq Offers(items) /\ Q \subseteq Offers(items) /\ B \subseteq Offers(items)
      /\ S \subseteq Offers(items) /\ V \subseteq Offers(items)
  <2> HIDE DEF R, Q, B, S, V
  <2> QED
    BY <1>1
<1>3. ASSUME NEW j \in Jobs, ResetOffered(j, items[j])
      PROVE  Proposes("reset", j, 0, 0) \in R
  BY <1>3
<1>4. ASSUME NEW j \in Jobs, QuarantineOffered(j, items[j])
      PROVE  Proposes("quarantine", j, 0, 0) \in Q
  BY <1>4
<1>5. ASSUME NEW j \in Jobs, NEW a \in JoinedTo(j, items[j]), BindOffered(items[j], a)
      PROVE  Proposes("bind", j, a[2], items[j].op) \in B
  BY <1>5
<1>6. ASSUME NEW j \in Jobs, NEW a \in JoinedTo(j, items[j]), SynchronizeOffered(items[j], a)
      PROVE  Proposes("synchronize", j, a[2], 0) \in S
  BY <1>6
<1>7. ASSUME NEW a \in Attempts, RecoverOffered(items, a)
      PROVE  Proposes("recover", a[1], a[2], 0) \in V
  BY <1>7
<1> HIDE DEF R, Q, B, S, V
<1> QED
  BY <1>2, <1>3, <1>4, <1>5, <1>6, <1>7

\* When nothing is offered.
LEMMA NoOffers ==
    ASSUME NEW items
    PROVE  Offers(items) = {} <=>
              /\ \A j \in Jobs : ~ ResetOffered(j, items[j]) /\ ~ QuarantineOffered(j, items[j])
              /\ \A j \in Jobs : \A a \in JoinedTo(j, items[j]) :
                    ~ BindOffered(items[j], a) /\ ~ SynchronizeOffered(items[j], a)
              /\ \A a \in Attempts : ~ RecoverOffered(items, a)
<1>1. ASSUME Offers(items) # {}
      PROVE  \/ \E j \in Jobs : ResetOffered(j, items[j]) \/ QuarantineOffered(j, items[j])
             \/ \E j \in Jobs : \E a \in JoinedTo(j, items[j]) :
                   BindOffered(items[j], a) \/ SynchronizeOffered(items[j], a)
             \/ \E a \in Attempts : RecoverOffered(items, a)
  BY <1>1, OfferCases
<1>2. /\ \A j \in Jobs : ResetOffered(j, items[j]) => Proposes("reset", j, 0, 0) \in Offers(items)
      /\ \A j \in Jobs : QuarantineOffered(j, items[j]) => Proposes("quarantine", j, 0, 0) \in Offers(items)
      /\ \A j \in Jobs : \A a \in JoinedTo(j, items[j]) :
            /\ BindOffered(items[j], a) => Proposes("bind", j, a[2], items[j].op) \in Offers(items)
            /\ SynchronizeOffered(items[j], a) => Proposes("synchronize", j, a[2], 0) \in Offers(items)
      /\ \A a \in Attempts : RecoverOffered(items, a) => Proposes("recover", a[1], a[2], 0) \in Offers(items)
  BY OffersThat
<1> QED
  BY <1>1, <1>2

\* What Settled says of one job.
SettledJob(j) ==
    \/ item[j].status = "absent"
    \/ item[j].status = "queued" /\ Bare(item[j])
    \/ item[j].status \in Terminal \ {"completed"} /\ item[j].att = 0 /\ item[j].done = 0
    \/ /\ Exists(Bound(j)) /\ item[j].done = item[j].att
       /\ attempt[Bound(j)].status \in Terminal
       /\ attempt[Bound(j)].op = item[j].op
       /\ item[j].status = Outcome(Bound(j))

LEMMA Classified ==
    ASSUME StoreInv
    PROVE  EveryInconsistencyHasAnAction
<1>1. ASSUME Offers(item) = {} PROVE Settled
  <2>1. /\ \A j \in Jobs : ~ ResetOffered(j, item[j]) /\ ~ QuarantineOffered(j, item[j])
        /\ \A j \in Jobs : \A a \in JoinedTo(j, item[j]) :
              ~ BindOffered(item[j], a) /\ ~ SynchronizeOffered(item[j], a)
        /\ \A a \in Attempts : ~ RecoverOffered(item, a)
    BY <1>1, NoOffers
  <2>2. ASSUME NEW a \in Attempts PROVE attempt[a].status \in Terminal \cup {"absent"}
    BY <2>1 DEF RecoverOffered, BindOffered, Exists
  <2>3. ASSUME NEW j \in Jobs PROVE SettledJob(j)
    <3> DEFINE it == item[j]
    <3>1. it.status \in QueueStatus \cup {"absent"} /\ it.att \in Nat /\ it.op \in Nat /\ it.done \in Nat
      BY DEF StoreInv, Item, Ordinal
    <3>2. ASSUME NEW a \in JoinedTo(j, it) PROVE it.status \in Terminal /\ QueueMatchesAttempt(it, a) /\ attempt[a].status \in Terminal
      <4>1. Exists(a) /\ a \in Attempts
        BY JoinedIsOwn
      <4>2. attempt[a].status \in Terminal
        BY <2>2, <4>1 DEF Exists
      <4> QED
        BY <2>1, <4>2 DEF SynchronizeOffered
    <3>3. ASSUME it.att # 0, Names(it) PROVE it.status \in Terminal /\ SettledJob(j)
      <4>1. ~ Intent(it)
        BY <3>3 DEF Intent
      <4>2. JoinedTo(j, it) # {}
        BY <2>1, <3>3 DEF QuarantineOffered
      <4>3. Bound(j) \in JoinedTo(j, it)
        BY <4>1, <4>2 DEF JoinedTo, Bound
      <4>4. Exists(Bound(j)) /\ attempt[Bound(j)].op = it.op
        BY <4>3, JoinedIsOwn
      <4>5. it.status \in Terminal /\ QueueMatchesAttempt(it, Bound(j)) /\ attempt[Bound(j)].status \in Terminal
        BY <3>2, <4>3
      <4>6. it.done = it.att /\ it.status = Outcome(Bound(j))
        BY <4>5 DEF QueueMatchesAttempt, Bound
      <4> QED
        BY <4>4, <4>5, <4>6 DEF SettledJob
    <3>4. ASSUME Intent(it) PROVE FALSE
      <4>1. SameOperation(j, it.op) # {} /\ ~ (Cardinality(SameOperation(j, it.op)) > 1)
        BY <2>1, <3>4 DEF ResetOffered, QuarantineOffered
      <4>2. PICK a \in SameOperation(j, it.op) : SameOperation(j, it.op) = {a}
        BY <4>1, OneOrMore
      <4>3. a \in JoinedTo(j, it)
        BY <3>4, <4>2 DEF JoinedTo
      <4> QED
        BY <3>2, <3>4, <4>3 DEF Intent, Terminal
    <3>5. CASE it.status = "queued"
      BY <2>1, <3>5 DEF ResetOffered, SettledJob
    <3>6. CASE it.status = "dispatching"
      BY <2>1, <3>1, <3>3, <3>4, <3>6 DEF QuarantineOffered, Intent, Names, Terminal
    <3>7. CASE it.status \in {"running", "cancelling"}
      BY <2>1, <3>3, <3>7 DEF QuarantineOffered, Names, Terminal
    <3>8. CASE it.status \in Terminal
      <4>1. CASE it.att = 0
        BY <2>1, <3>8, <4>1 DEF QuarantineOffered, SettledJob
      <4>2. CASE it.att # 0
        BY <3>3, <3>8, <4>2 DEF Names, Terminal
      <4> QED
        BY <4>1, <4>2
    <3>9. CASE it.status = "absent"
      BY <3>9 DEF SettledJob
    <3> QED
      BY <3>1, <3>5, <3>6, <3>7, <3>8, <3>9 DEF QueueStatus, Terminal
  <2> QED
    BY <2>2, <2>3 DEF Settled, SettledJob
<1>2. ASSUME Settled PROVE Offers(item) = {}
  <2>1. \A a \in Attempts : ~ RecoverOffered(item, a)
    BY <1>2 DEF Settled, RecoverOffered, Exists
  <2>2. ASSUME NEW j \in Jobs
        PROVE  /\ ~ ResetOffered(j, item[j]) /\ ~ QuarantineOffered(j, item[j])
               /\ \A a \in JoinedTo(j, item[j]) : ~ BindOffered(item[j], a) /\ ~ SynchronizeOffered(item[j], a)
    <3> DEFINE it == item[j]
    <3>1. SettledJob(j)
      BY <1>2 DEF Settled, SettledJob
    <3>2. CASE it.status = "absent"
      BY <3>2 DEF ResetOffered, QuarantineOffered, JoinedTo, Intent, Names, Terminal
    <3>3. CASE it.status = "queued" /\ Bare(it)
      BY <3>3 DEF ResetOffered, QuarantineOffered, JoinedTo, Intent, Names, Terminal
    <3>4. CASE it.status \in Terminal \ {"completed"} /\ it.att = 0 /\ it.done = 0
      BY <3>4 DEF ResetOffered, QuarantineOffered, JoinedTo, Intent, Names, Terminal
    <3>5. CASE /\ Exists(Bound(j)) /\ it.done = it.att /\ attempt[Bound(j)].status \in Terminal
               /\ attempt[Bound(j)].op = it.op /\ it.status = Outcome(Bound(j))
      <4>1. it.status \in Terminal
        BY <3>5, OutcomeEnds
      <4>2. it.att # 0 /\ Bound(j)[2] = it.att
        BY <3>5, AttemptNames DEF Exists, Bound
      <4>3. ~ Intent(it) /\ Names(it)
        BY <4>1, <4>2 DEF Intent, Names, Terminal
      <4>4. JoinedTo(j, it) = {Bound(j)}
        BY <3>5, <4>3 DEF JoinedTo, Bound
      <4>5. QueueMatchesAttempt(it, Bound(j))
        BY <3>5, <4>2 DEF QueueMatchesAttempt
      <4>6. ~ ResetOffered(j, it) /\ ~ QuarantineOffered(j, it)
        BY <4>1, <4>2, <4>3, <4>4 DEF ResetOffered, QuarantineOffered, Terminal
      <4> QED
        BY <4>1, <4>4, <4>5, <4>6 DEF BindOffered, SynchronizeOffered, Terminal
    <3> QED
      BY <3>1, <3>2, <3>3, <3>4, <3>5 DEF SettledJob
  <2> QED
    BY <2>1, <2>2, NoOffers
<1> QED
  BY <1>1, <1>2 DEF EveryInconsistencyHasAnAction

-----------------------------------------------------------------------------
(* Theorems                                                                *)

\* The reconciler and the dispatcher on any records: whatever has been written, by
\* whomever.  ReconcilerSpec starts on an empty store.
AnySpec == StoreInv /\ OwnInit /\ [][ReconcilerNext]_allvars

\* The composition of Reconciler is one of these.
THEOREM EmptyStore == ReconcilerSpec => AnySpec
<1>1. ReconcilerInit => StoreInv /\ OwnInit
  <2>1. NoItem \in Item /\ NoAttempt \in StoredAttempt
    BY DEF NoItem, Item, Ordinal, NoAttempt, StoredAttempt, Processes
  <2>2. [d \in Needed |-> NoItem] \in [Needed -> Item]
    BY <2>1
  <2> QED
    BY <2>1, <2>2 DEF ReconcilerInit, Init, NoProcess, StoreInv, NoExec, NoPass, Ordinal
<1> QED
  BY <1>1, PTL DEF ReconcilerSpec, AnySpec

\* CInv is an invariant of the reconciler beside the dispatcher.
THEOREM CInvariant == AnySpec => []CInv
<1>1. StoreInv /\ OwnInit => CInv
  <2> SUFFICES ASSUME StoreInv, OwnInit PROVE CInv
    OBVIOUS
  <2>1. /\ \A i \in Actions : approved[i] = NoProposal /\ applied[i] = 0
        /\ \A c \in Callers : call[c] = Idle
    BY DEF OwnInit
  <2>2. ReconcilerTypeOK
    BY IdleIsTyped DEF OwnInit, ReconcilerTypeOK, Call, Places, ResultStatus
  <2>3. \A i \in Actions : ActionOK(i)
    BY <2>1 DEF ActionOK
  <2>4. \A c \in Callers : CallOK(call[c])
    BY <2>1, IdleIsTyped DEF CallOK
  <2> QED
    BY <2>2, <2>3, <2>4 DEF CInv
<1>2. CInv /\ [ReconcilerNext]_allvars => CInv'
  BY CStep
<1> QED
  BY <1>1, <1>2, PTL DEF AnySpec

\* An approved action updates the queue at most once: queue.reconcile is a
\* compare-and-swap, and the update that it makes invalidates the action's own token.
THEOREM AppliesOnce == AnySpec => []AppliedOnce
<1>1. CInv => AppliedOnce
  <2> SUFFICES ASSUME CInv, NEW i \in Actions PROVE applied[i] <= 1
    BY DEF AppliedOnce
  <2>1. ActionOK(i) /\ applied[i] \in Nat
    BY DEF CInv, ReconcilerTypeOK
  <2> QED
    BY <2>1 DEF ActionOK
<1> QED
  BY <1>1, CInvariant, PTL

\* inspectQueueAttemptRelationships offers nothing exactly when nothing is left to
\* repair, whatever records it meets.
THEOREM NothingIsMissed == AnySpec => []EveryInconsistencyHasAnAction
<1>1. CInv => EveryInconsistencyHasAnAction
  BY Classified DEF CInv
<1> QED
  BY <1>1, CInvariant, PTL

\* Neither the dispatcher nor a repair rewrites the manifest of an ended attempt.
THEOREM OutcomesLast == AnySpec => OutcomesAreImmutable
<1>1. CInv /\ [ReconcilerNext]_allvars =>
         [\A a \in Attempts : attempt[a].status \in Terminal =>
             Manifest(attempt'[a]) = Manifest(attempt[a])]_allvars
  BY CStep DEF AttemptsKept, Kept
<1> QED
  BY <1>1, CInvariant, PTL DEF AnySpec, OutcomesAreImmutable
=============================================================================
