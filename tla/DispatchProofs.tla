--------------------------- MODULE DispatchProofs ---------------------------
(***************************************************************************)
(* Dispatch is proved safe for any set of jobs, any dependencies between   *)
(* them and any budgets.  DInv says what the dispatcher process may rely   *)
(* on between two awaits: who holds the state lock, which execution works  *)
(* for which attempt, and which records can no longer change.              *)
(***************************************************************************)
EXTENDS Dispatch, FiniteSetTheorems, WellFoundedInduction, TLAPS

\* A process that is down or recovering holds nothing in memory but its recovery.
MemoryInv ==
    /\ phase \in {"down", "recovering"} =>
          /\ \A j \in Jobs : exec[j].at = "off"
          /\ \A a \in Attempts : live[a] = "none"
          /\ lock = Free /\ pass = NoPass
    /\ rec.stage # "off" <=> phase = "recovering"

\* What the holder of the state lock has found out is still true.
LockInv ==
    /\ lock.at \in {"intent", "reserved"} =>
          /\ lock.job \in pass.todo /\ item[lock.job].status = "dispatching"
          /\ lock.job \notin Active /\ Cardinality(Active) < MaxConcurrent
          /\ \A d \in Deps[lock.job] : pass.seen[d].status = "completed"
    /\ lock.at = "claim" => /\ lock.job \in Jobs /\ item[lock.job].status = "running"
                            /\ exec[lock.job].at = "claimed"
    /\ lock.at = "cancel" => lock.job \in Jobs /\ item[lock.job].status = "cancelling"

\* The items of a pass are queued until it visits them; a parent that it has seen
\* completed has evidence that lasts.
PassInv ==
    /\ lock.at \in {"free", "claim", "cancel"} => pass.todo = {}
    /\ \A j \in pass.todo :
          item[j].status = IF lock.at \in {"intent", "reserved"} /\ j = lock.job
                           THEN "dispatching" ELSE "queued"
    /\ \A d \in Needed : pass.seen[d].status = "completed" =>
          /\ <<d, pass.seen[d].done>> \in Attempts
          /\ attempt[<<d, pass.seen[d].done>>].status = "completed"
          /\ attempt[<<d, pass.seen[d].done>>].eligible

\* The executions fit the limit.
LimitInv == IsFiniteSet(Active) /\ Cardinality(Active) <= MaxConcurrent

\* A queue item names an attempt from its launch on; an execution works for that one,
\* unless the item was retried meanwhile and names none.
ItemOK(j) ==
    /\ item[j].status \in {"absent", "queued", "dispatching"} => item[j].att = 0
    /\ item[j].status \in {"running", "cancelling"} => item[j].att # 0
    /\ j \in Active => item[j].status # "absent" /\ (item[j].att # 0 => item[j].att = exec[j].att)

\* An execution that waits has an abort handle or its attempt has ended, and the
\* outcome it brings back is that of an ended attempt.
ExecOK(j) ==
    LET a == <<j, exec[j].att>> IN
    j \in Active =>
        /\ a \in Attempts
        /\ exec[j].at = "waiting" => live[a] # "none" \/ attempt[a].status \in Terminal
        /\ exec[j].at = "finishing" =>
              /\ attempt[a].status \in Terminal
              /\ exec[j].res = "completed" => attempt[a].status = "completed" /\ attempt[a].eligible

\* Of a job's attempts, only the one that the item names has an abort handle, has a
\* process tree (kernel containment given) or has been claimed and has not ended.
NamedOK(j) ==
    \A a \in Attempts : a[1] = j =>
        /\ live[a] # "none" =>
              /\ item[j].att = a[2] /\ item[j].status \in {"running", "cancelling"}
              /\ exec[j].at = "waiting" /\ exec[j].att = a[2]
        /\ tree[a] # "none" /\ j \in Contained => item[j].att = a[2]
        /\ attempt[a].status \in Nonterminal =>
              IF item[j].att = a[2]
              THEN item[j].status \in {"running", "cancelling", "needs-input", "failed"}
              ELSE attempt[a].status = "reserved"

\* The evidence behind a completed item.
EvidenceOK(j) ==
    item[j].status = "completed" =>
        /\ item[j].done = item[j].att /\ Bound(j) \in Attempts
        /\ attempt[Bound(j)].status = "completed" /\ attempt[Bound(j)].eligible

JobOK(j) == ItemOK(j) /\ ExecOK(j) /\ NamedOK(j) /\ EvidenceOK(j)
JobsInv == \A j \in Jobs : JobOK(j)

\* What an attempt's record says, and that it admits the processes that are there.
\* Both need kernel containment: only a guardian with it proves the termination of a
\* command that ran, and only its proof is one.
RecordOK(m) ==
    /\ m.status \in {"absent", "reserved", "claimed"} => m.proc = "none"
    /\ m.eligible => m.status = "completed"
    /\ m.status = "completed" => m.proc = "proven"
RecordInv ==
    \A a \in Attempts : /\ RecordOK(attempt[a])
                        /\ attempt[a].status = "completed" => a[1] \in Contained
TreeInv ==
    \A a \in Attempts : a[1] \in Contained =>
        tree[a] # "orphaned" /\ (tree[a] # "none" => Unresolved(attempt[a]))

\* Recovery leaves nothing behind: what a stage has not settled is in its list, and an
\* attempt that it calls safe to retry has ended and, kernel containment given, has no
\* processes.
RecInv ==
    /\ rec.stage = "bind" => /\ rec.todo = {j \in Jobs : item[j].status = "dispatching"}
                             /\ rec.found = "none"
    /\ rec.stage \in {"settle", "sweep"} => \A j \in Jobs : item[j].status # "dispatching"
    /\ rec.stage = "settle" =>
          /\ rec.todo = {j \in Jobs : item[j].status \in {"running", "cancelling"}}
          /\ rec.todo = {} => rec.found = "none"
          /\ rec.todo # {} /\ rec.found \in {"closing", "safe-to-retry"} =>
                LET a == Bound(First(rec.todo)) IN
                /\ attempt[a].status \in Terminal
                /\ rec.found = "safe-to-retry" /\ a[1] \in Contained => tree[a] = "none"
    /\ rec.stage = "sweep" =>
          /\ \A j \in Jobs : item[j].status \notin {"running", "cancelling"}
          /\ rec.found \in {"none", "safe-to-retry"}
          /\ \A a \in rec.sweep : ~ Referenced(a)
          /\ \A a \in Attempts : attempt[a].status \in Nonterminal /\ ~ Referenced(a) => a \in rec.sweep
          /\ rec.sweep # {} /\ rec.found # "none" =>
                attempt[CHOOSE b \in rec.sweep : TRUE].status \in Terminal

DInv == /\ TypeOK /\ MemoryInv /\ LockInv /\ PassInv /\ LimitInv /\ JobsInv
        /\ RecordInv /\ TreeInv /\ RecInv /\ LineageIsEvidence

-----------------------------------------------------------------------------
(* What every step keeps of the attempts, whoever takes it: the record of  *)
(* an ended attempt is final, only an attempt with an abort handle gets a  *)
(* process tree, and a record says what its tree is.                       *)
Final(a) ==
    attempt[a].status \in Terminal =>
        /\ attempt'[a].status = attempt[a].status /\ attempt'[a].eligible = attempt[a].eligible
        /\ attempt'[a].proc = attempt[a].proc
Advances(a) ==
    \/ attempt'[a].status = attempt[a].status
    \/ attempt'[a].status \in Terminal
    \/ Referenced(a) /\ attempt[a].status \in Nonterminal
    \/ ~ Referenced(a) /\ attempt'[a].status = "reserved"
AttemptsOK ==
    /\ attempt' \in [Attempts -> Attempt]
    /\ tree' \in [Attempts -> {"none", "guarded", "orphaned"}]
    /\ RecordInv' /\ TreeInv' /\ LineageIsEvidence'
    /\ \A a \in Attempts : Final(a) /\ Advances(a) /\ (tree'[a] # "none" => Busy(a))

-----------------------------------------------------------------------------
(* Operators                                                               *)

\* An attempt is a job with one of its ordinals.
LEMMA AttemptNames ==
    /\ \A a \in Attempts : a[1] \in Jobs /\ a[2] \in 1 .. MaxAttempts[a[1]] /\ a = <<a[1], a[2]>>
    /\ \A j \in Jobs : \A n \in 1 .. MaxAttempts[j] : <<j, n>> \in Attempts
  BY DEF Attempts

\* The lists of a pass and of a recovery have a first item.
LEMMA FirstInSet ==
    ASSUME NEW S \in SUBSET Jobs, S # {}
    PROVE  First(S) \in S
<1> DEFINE R == {ss \in Nat \X Nat : ss[1] < ss[2]}
           T == {Rank[j] : j \in S}
<1>1. T \subseteq Nat /\ T # {}
  BY DispatchAssumption
<1>w. IsWellFoundedOn(R, Nat)
  BY NatLessThanWellFounded, Zenon DEF OpToRel
<1> HIDE DEF R, T
<1>2. PICK x \in T : \A y \in T : ~ (<<y, x>> \in R)
  BY <1>1, <1>w, WFMin
<1>3. PICK j \in S : Rank[j] = x
  BY <1>2 DEF T
<1>4. ASSUME NEW k \in S PROVE Rank[j] <= Rank[k]
  <2>1. Rank[k] \in T /\ Rank[k] \in Nat /\ x \in Nat
    BY <1>1 DEF T
  <2>2. Rank[k] < x => <<Rank[k], x>> \in R
    BY <2>1 DEF R
  <2> QED
    BY <1>2, <1>3, <2>1, <2>2
<1> QED
  BY <1>3, <1>4 DEF First

\* randomUUID finds a value: the records of a job are fewer than the values.
LEMMA FreshOpExists ==
    ASSUME NEW j \in Jobs
    PROVE  FreshOp(j) \in Nat
<1> DEFINE M == MaxAttempts[j]
           ops == {attempt[a].op : a \in {b \in Attempts : b[1] = j}}
           used == {item[j].op} \cup ops
           V == 1 .. (M + 2)
           D == 0 .. M
           g == [n \in V |-> IF n = item[j].op THEN 0
                             ELSE CHOOSE k \in 1 .. M : attempt[<<j, k>>].op = n]
<1>1. M \in Nat /\ M + 1 \in Nat /\ M + 2 \in Nat
  BY DispatchAssumption
<1>2. ASSUME NEW n \in ops PROVE \E k \in 1 .. M : attempt[<<j, k>>].op = n
  <2>1. PICK a \in Attempts : a[1] = j /\ n = attempt[a].op
    OBVIOUS
  <2> QED
    BY <2>1, AttemptNames
<1> HIDE DEF M, ops
<1>3. \E n \in V : n \notin used
  <2> SUFFICES ASSUME \A n \in V : n \in used PROVE FALSE
    OBVIOUS
  <2>1. ASSUME NEW n \in V, n # item[j].op
        PROVE  g[n] \in 1 .. M /\ attempt[<<j, g[n]>>].op = n
    <3>1. \E k \in 1 .. M : attempt[<<j, k>>].op = n
      BY <2>1, <1>2
    <3>2. g[n] = CHOOSE k \in 1 .. M : attempt[<<j, k>>].op = n
      BY <2>1
    <3> QED
      BY <3>1, <3>2
  <2>2. \A n \in V : n = item[j].op => g[n] = 0
    OBVIOUS
  <2>3. g \in [V -> D]
    <3>1. ASSUME NEW n \in V PROVE g[n] \in D
      <4> HIDE DEF g, V, used
      <4>1. CASE n = item[j].op
        BY <1>1, <2>2, <4>1
      <4>2. CASE n # item[j].op
        <5>1. g[n] \in 1 .. M
          BY <2>1, <4>2
        <5> QED
          BY <1>1, <5>1
      <4> QED
        BY <4>1, <4>2
    <3>2. g = [n \in V |-> g[n]]
      OBVIOUS
    <3> HIDE DEF g
    <3> QED
      BY <3>1, <3>2
  <2>4. IsFiniteSet(V) /\ IsFiniteSet(D) /\ Cardinality(V) = M + 2 /\ Cardinality(D) = M + 1
    <3>1. IsFiniteSet(1 .. (M + 2)) /\ Cardinality(1 .. (M + 2)) = M + 2
      BY <1>1, FS_Interval
    <3>2. IsFiniteSet(0 .. M) /\ Cardinality(0 .. M) = M + 1
      BY <1>1, FS_Interval
    <3> QED
      BY <3>1, <3>2
  <2> HIDE DEF g, D
  <2>5. PICK x, y \in V : x # y /\ g[x] = g[y]
    <3>1. Cardinality(D) < Cardinality(V)
      BY <1>1, <2>4
    <3> HIDE DEF V
    <3> QED
      BY <2>3, <2>4, <3>1, FS_PigeonHole
  <2>6. CASE x # item[j].op /\ y # item[j].op
    <3>1. attempt[<<j, g[x]>>].op = x /\ attempt[<<j, g[y]>>].op = y
      BY <2>1, <2>6
    <3> QED
      BY <2>5, <3>1
  <2>7. CASE x = item[j].op
    <3>1. g[x] = 0 /\ y # item[j].op
      BY <2>2, <2>5, <2>7
    <3>2. g[y] \in 1 .. M
      BY <2>1, <3>1
    <3> QED
      BY <1>1, <2>5, <3>1, <3>2
  <2>8. CASE y = item[j].op
    <3>1. g[y] = 0 /\ x # item[j].op
      BY <2>2, <2>5, <2>8
    <3>2. g[x] \in 1 .. M
      BY <2>1, <3>1
    <3> QED
      BY <1>1, <2>5, <3>1, <3>2
  <2> QED
    BY <2>6, <2>7, <2>8
<1> DEFINE R == {ss \in Nat \X Nat : ss[1] < ss[2]}
           F == V \ used
<1>w. IsWellFoundedOn(R, Nat)
  BY NatLessThanWellFounded, Zenon DEF OpToRel
<1>4. F \subseteq Nat /\ F # {}
  BY <1>1, <1>3
<1> HIDE DEF R, F
<1>5. PICK n \in F : \A m \in F : ~ (<<m, n>> \in R)
  BY <1>4, <1>w, WFMin
<1>6. n \in V /\ n \notin used
  BY <1>5 DEF F
<1>7. ASSUME NEW m \in 1 .. (n - 1) PROVE m \in used
  <2>1. m \in V /\ m \in Nat /\ n \in Nat /\ m < n
    BY <1>1, <1>6
  <2>2. <<m, n>> \in R
    BY <2>1 DEF R
  <2> QED
    BY <1>5, <2>1, <2>2 DEF F
<1> HIDE DEF used
<1>8. FreshOp(j) = CHOOSE x \in V : x \notin used /\ \A m \in 1 .. (x - 1) : m \in used
  BY DEF FreshOp, used, ops, M
<1>9. FreshOp(j) \in V
  BY <1>6, <1>7, <1>8
<1> QED
  BY <1>1, <1>9

\* The outcome of an attempt is a terminal status, "completed" only for a completed
\* and eligible attempt.
LEMMA OutcomeIsTerminal ==
    ASSUME NEW a \in Attempts
    PROVE  /\ Outcome(a) \in Terminal
           /\ Outcome(a) = "completed" => attempt[a].status = "completed" /\ attempt[a].eligible
<1> DEFINE verdict == IF attempt[a].eligible THEN "eligible" ELSE "ineligible"
           cleanup == Cleanup(attempt[a])
<1>1. Outcome(a) = ProjectedStatus(attempt[a].status, verdict, cleanup)
  BY DEF Outcome
<1>2. verdict = "eligible" => attempt[a].eligible
  OBVIOUS
<1> HIDE DEF verdict, cleanup
<1> QED
  BY <1>1, <1>2 DEF ProjectedStatus, Terminal

\* A cleanup that is safe has no process that may be there.
LEMMA SafeIsResolved ==
    ASSUME NEW m \in Attempt, IsSafe(m)
    PROVE  ~ Unresolved(m)
<1> SUFFICES ASSUME Unresolved(m) PROVE FALSE
  OBVIOUS
<1>1. m.proc \in {"pending", "unknown"} /\ ~ AllProven(m)
  BY DEF Unresolved, AllProven
<1>2. Cleanup(m) = deriveCleanupStatus({m.proc, m.ws} \ {"none"})
  BY <1>1 DEF Cleanup
<1>3. m.proc \in {m.proc, m.ws} \ {"none"}
  BY <1>1
<1> QED
  BY <1>1, <1>2, <1>3 DEF IsSafe, CleanupSafe, deriveCleanupStatus

-----------------------------------------------------------------------------
(* Attempts                                                                *)

LEMMA Untouched ==
    ASSUME DInv, UNCHANGED <<attempt, tree>>
    PROVE  AttemptsOK
<1>1. attempt' = attempt /\ tree' = tree
  OBVIOUS
<1>2. RecordInv' /\ TreeInv' /\ LineageIsEvidence'
  BY <1>1 DEF DInv, RecordInv, RecordOK, TreeInv, Unresolved, LineageIsEvidence
<1> QED
  BY <1>1, <1>2 DEF DInv, TypeOK, AttemptsOK, Final, Advances, Busy

\* The conditions on the new record m and the tree t of one attempt.
Successor(a, m, t) ==
    /\ m \in Attempt /\ t \in {"none", "guarded", "orphaned"}
    /\ m.status # "absent" /\ attempt[a].status # "absent"
    /\ m.parents = attempt[a].parents
    /\ attempt[a].status \in Terminal =>
          m.status = attempt[a].status /\ m.eligible = attempt[a].eligible /\ m.proc = attempt[a].proc
    /\ \/ m.status = attempt[a].status
       \/ m.status \in Terminal
       \/ Referenced(a) /\ attempt[a].status \in Nonterminal
    /\ RecordOK(m)
    /\ m.status = "completed" => a[1] \in Contained
    /\ t # "none" => Busy(a)
    /\ a[1] \in Contained => t # "orphaned" /\ (t # "none" => Unresolved(m))

LEMMA OneAttempt ==
    ASSUME DInv, NEW a \in Attempts, NEW m, NEW t, Successor(a, m, t),
           attempt' = [attempt EXCEPT ![a] = m], tree' = [tree EXCEPT ![a] = t]
    PROVE  AttemptsOK
<1>1. attempt \in [Attempts -> Attempt] /\ tree \in [Attempts -> {"none", "guarded", "orphaned"}]
  BY DEF DInv, TypeOK
<1>2. /\ attempt' \in [Attempts -> Attempt] /\ tree' \in [Attempts -> {"none", "guarded", "orphaned"}]
      /\ attempt'[a] = m /\ tree'[a] = t
      /\ \A b \in Attempts \ {a} : attempt'[b] = attempt[b] /\ tree'[b] = tree[b]
  BY <1>1 DEF Successor
<1>3. RecordInv'
  BY <1>2 DEF DInv, RecordInv, RecordOK, Successor
<1>4. TreeInv'
  BY <1>2 DEF DInv, TreeInv, Unresolved, Successor
<1>5. \A b \in Attempts : Final(b) /\ Advances(b) /\ (tree'[b] # "none" => Busy(b))
  <2>1. Final(a) /\ Advances(a) /\ (tree'[a] # "none" => Busy(a))
    BY <1>2 DEF Final, Advances, Busy, Successor
  <2>2. \A b \in Attempts \ {a} : Final(b) /\ Advances(b) /\ (tree'[b] # "none" => Busy(b))
    BY <1>2 DEF Final, Advances, Busy
  <2> QED
    BY <2>1, <2>2
<1>6. LineageIsEvidence'
  <2>1. \A b \in Attempts : /\ attempt'[b].parents = attempt[b].parents
                            /\ attempt'[b].status # "absent" => attempt[b].status # "absent"
    BY <1>2 DEF Successor
  <2>2. \A p \in Attempts : attempt[p].status = "completed" /\ attempt[p].eligible =>
                            attempt'[p].status = "completed" /\ attempt'[p].eligible
    BY <1>5 DEF Final, Terminal
  <2> QED
    BY <2>1, <2>2 DEF DInv, LineageIsEvidence
<1> QED
  BY <1>2, <1>3, <1>4, <1>5, <1>6 DEF AttemptsOK

\* A step that only writes a record.
LEMMA OneRecord ==
    ASSUME DInv, NEW a \in Attempts, NEW m, Successor(a, m, tree[a]), SetAttempt(a, m), tree' = tree
    PROVE  AttemptsOK
<1>1. attempt' = [attempt EXCEPT ![a] = m] /\ tree' = [tree EXCEPT ![a] = tree[a]]
  BY DEF SetAttempt, DInv, TypeOK
<1> QED
  BY <1>1, OneAttempt

\* What an attempt with an abort handle is.
LEMMA LiveAttempt ==
    ASSUME DInv, NEW a \in Attempts, live[a] # "none"
    PROVE  /\ Busy(a) /\ Referenced(a) /\ Serving
           /\ rec.stage = "off" /\ a[1] \in Jobs /\ a[1] \in Active
           /\ exec[a[1]].at = "waiting" /\ exec[a[1]].att = a[2]
           /\ item[a[1]].status \in {"running", "cancelling"} /\ item[a[1]].att = a[2]
<1>1. a[1] \in Jobs /\ a = <<a[1], a[2]>>
  BY AttemptNames
<1>2. /\ exec[a[1]].at = "waiting" /\ exec[a[1]].att = a[2]
      /\ item[a[1]].status \in {"running", "cancelling"} /\ item[a[1]].att = a[2]
  BY <1>1 DEF DInv, JobsInv, JobOK, NamedOK
<1>3. phase \notin {"down", "recovering"}
  BY DEF DInv, MemoryInv
<1> QED
  BY <1>1, <1>2, <1>3 DEF Busy, Referenced, Bound, Serving, Active, DInv, TypeOK, MemoryInv

\* What a record and its tree agree on.
LEMMA AttemptFacts ==
    ASSUME DInv, NEW a \in Attempts
    PROVE  /\ attempt[a] \in Attempt /\ RecordOK(attempt[a])
           /\ tree[a] \in {"none", "guarded", "orphaned"}
           /\ attempt[a].status = "completed" => a[1] \in Contained
           /\ tree[a] # "none" => Busy(a)
           /\ a[1] \in Contained => tree[a] # "orphaned" /\ (tree[a] # "none" => Unresolved(attempt[a]))
  BY DEF DInv, TypeOK, RecordInv, TreeInv, Busy

LEMMA ExecuteAttempts ==
    ASSUME DInv, NEW a \in Attempts, AttemptStep(a)
    PROVE  AttemptsOK /\ live[a] # "none"
<1> DEFINE M == attempt[a]
<1>0. live[a] # "none"
  BY DEF AttemptStep, PrepareAttempt, StartWorker, Spawn, RecordTermination, StartVerification,
         EndAttempt, SettleAttempt, RejectExecution, Executing
<1>1. Busy(a) /\ Referenced(a)
  BY <1>0, LiveAttempt
<1>2. /\ M \in Attempt /\ RecordOK(M) /\ tree[a] \in {"none", "guarded", "orphaned"}
      /\ M.status = "completed" => a[1] \in Contained
      /\ a[1] \in Contained => tree[a] # "orphaned" /\ (tree[a] # "none" => Unresolved(M))
  BY AttemptFacts
<1>3. CASE PrepareAttempt(a)
  <2> DEFINE m(w) == [M EXCEPT !.status = "preparing", !.ws = w]
  <2>1. M.status = "claimed" /\ SetAttempt(a, m(IF a[1] \in Retained THEN "none" ELSE "pending"))
        /\ tree' = tree
    BY <1>3 DEF PrepareAttempt, Executing
  <2>2. PICK w \in {"none", "pending"} : w = IF a[1] \in Retained THEN "none" ELSE "pending"
    OBVIOUS
  <2>3. Successor(a, m(w), tree[a])
    BY <1>1, <1>2, <2>1 DEF Successor, Attempt, AttemptStatus, Terminal, Nonterminal, RecordOK, Unresolved
  <2> QED
    BY <1>0, <2>1, <2>2, <2>3, OneRecord
<1>4. CASE StartWorker(a)
  <2> DEFINE m(p) == [M EXCEPT !.status = "running", !.proc = p]
  <2>1. M.status = "preparing" /\ M.proc \in {"none", "proven"} /\ tree' = tree
        /\ SetAttempt(a, m(IF M.proc = "proven" THEN "ready" ELSE M.proc))
    BY <1>4 DEF StartWorker, Executing, Succeeded
  <2>2. PICK p \in {"none", "ready"} : p = IF M.proc = "proven" THEN "ready" ELSE M.proc
    BY <2>1
  <2>3. Successor(a, m(p), tree[a])
    BY <1>1, <1>2, <2>1 DEF Successor, Attempt, AttemptStatus, Processes, Terminal, Nonterminal, RecordOK, Unresolved
  <2> QED
    BY <1>0, <2>1, <2>2, <2>3, OneRecord
<1>5. CASE Spawn(a)
  <2> DEFINE m == [M EXCEPT !.proc = "pending"]
  <2>1. M.status \in {"preparing", "running", "verifying"}
    BY <1>5 DEF Spawn, Executing
  <2>2. attempt' = [attempt EXCEPT ![a] = m] /\ tree' = [tree EXCEPT ![a] = "guarded"]
    BY <1>5 DEF Spawn, SetAttempt
  <2>3. Successor(a, m, "guarded")
    BY <1>1, <1>2, <2>1 DEF Successor, Attempt, AttemptStatus, Processes, Terminal, Nonterminal, RecordOK, Unresolved
  <2> QED
    BY <1>0, <2>2, <2>3, OneAttempt
<1>6. ASSUME NEW s \in {"proven", "unknown"}, RecordTermination(a, s)
      PROVE  AttemptsOK
  <2> DEFINE m == [M EXCEPT !.proc = s]
  <2>1. M.status \notin Terminal /\ M.proc = "pending" /\ SetAttempt(a, m) /\ tree' = tree
        /\ (s = "proven" /\ a[1] \in Contained => tree[a] = "none")
    BY <1>6 DEF RecordTermination
  <2>2. Successor(a, m, tree[a])
    BY <1>1, <1>2, <2>1 DEF Successor, Attempt, AttemptStatus, Processes, Terminal, Nonterminal, RecordOK, Unresolved
  <2> QED
    BY <2>1, <2>2, OneRecord
<1>7. CASE StartVerification(a)
  <2> DEFINE m == [M EXCEPT !.status = "verifying"]
  <2>1. M.status = "running" /\ SetAttempt(a, m) /\ tree' = tree
    BY <1>7 DEF StartVerification, Executing
  <2>2. Successor(a, m, tree[a])
    BY <1>1, <1>2, <2>1 DEF Successor, Attempt, AttemptStatus, Processes, Terminal, Nonterminal, RecordOK, Unresolved
  <2> QED
    BY <1>0, <2>1, <2>2, OneRecord
<1>8. ASSUME NEW s \in Terminal, NEW e \in BOOLEAN, EndAttempt(a, s, e)
      PROVE  AttemptsOK
  <2> DEFINE m == [M EXCEPT !.status = s, !.eligible = e]
  <2>1. /\ M.status \in {"claimed", "preparing", "running", "verifying"}
        /\ SetAttempt(a, m) /\ tree' = tree
        /\ s = "completed" => M.proc = "proven" /\ a[1] \in Contained
        /\ e => s = "completed"
    BY <1>8 DEF EndAttempt, Executing, Succeeded, Terminal
  <2>2. Successor(a, m, tree[a])
    BY <1>1, <1>2, <2>1 DEF Successor, Attempt, AttemptStatus, Processes, Terminal, Nonterminal, RecordOK, Unresolved
  <2> QED
    BY <2>1, <2>2, OneRecord
<1>9. ASSUME NEW ws \in {"none", "pending", "proven", "failed"}, SettleAttempt(a, ws)
      PROVE  AttemptsOK
  <2> DEFINE m == [M EXCEPT !.ws = ws]
  <2>1. M.status \in Terminal /\ SetAttempt(a, m) /\ tree' = tree
    BY <1>9 DEF SettleAttempt, Executing
  <2>2. Successor(a, m, tree[a])
    BY <1>1, <1>2, <2>1 DEF Successor, Attempt, AttemptStatus, Processes, Terminal, Nonterminal, RecordOK, Unresolved
  <2> QED
    BY <2>1, <2>2, OneRecord
<1>10. CASE RejectExecution(a)
  BY <1>0, <1>10, Untouched DEF RejectExecution, durable
<1> QED
  BY <1>0, <1>3, <1>4, <1>5, <1>6, <1>7, <1>8, <1>9, <1>10 DEF AttemptStep

\* The attempt that a running or cancelling item names.
LEMMA NamedAttempt ==
    ASSUME DInv, NEW j \in Jobs, item[j].att # 0
    PROVE  Bound(j) \in Attempts /\ Bound(j)[1] = j /\ Bound(j)[2] = item[j].att /\ Referenced(Bound(j))
<1>1. item[j].att \in 1 .. MaxAttempts[j]
  BY DispatchAssumption DEF DInv, TypeOK, Item, Ordinal
<1> QED
  BY <1>1, AttemptNames DEF Bound, Referenced

\* The claim and the cancellation of a reserved attempt.
LEMMA ReservedAttempts ==
    ASSUME DInv, NEW j \in Jobs, ClaimAttempt(j) \/ CancelReserved(j)
    PROVE  AttemptsOK /\ item[j].att # 0 /\ Bound(j) \in Attempts
<1> DEFINE a == Bound(j)
           M == attempt[a]
<1>1. item[j].status \in {"running", "cancelling"}
  BY DEF ClaimAttempt, CancelReserved, Cancelling, DInv, LockInv
<1>2. item[j].att # 0
  BY <1>1 DEF DInv, JobsInv, JobOK, ItemOK
<1>3. a \in Attempts /\ Referenced(a)
  BY <1>2, NamedAttempt
<1> HIDE DEF a
<1>4. PICK s \in {"claimed", "cancelled"} :
         /\ M.status \in {"reserved", "claimed"} /\ tree' = tree
         /\ SetAttempt(a, [M EXCEPT !.status = s])
  BY DEF ClaimAttempt, CancelReserved, a
<1>5. Successor(a, [M EXCEPT !.status = s], tree[a])
  BY <1>3, <1>4, AttemptFacts
     DEF Successor, Attempt, AttemptStatus, Terminal, Nonterminal, RecordOK, Unresolved
<1> QED
  BY <1>2, <1>3, <1>4, <1>5, OneRecord DEF a

\* A reservation records the evidence that the pass has seen.
LEMMA Reservation ==
    ASSUME DInv, NEW j \in Jobs, ReserveAttempt(j)
    PROVE  AttemptsOK
<1> DEFINE P == {<<d, pass.seen[d].done>> : d \in Deps[j]}
           m == [NoAttempt EXCEPT !.status = "reserved", !.op = item[j].op, !.parents = P]
<1>1. PICK n \in 1 .. MaxAttempts[j] :
         /\ attempt[<<j, n>>].status = "absent"
         /\ attempt' = [attempt EXCEPT ![<<j, n>>] = m]
  BY DEF ReserveAttempt, FreeOrdinals, SetAttempt
<1>2. PICK a \in Attempts : a = <<j, n>> /\ a[1] = j
  BY <1>1, AttemptNames
<1>3. tree' = tree /\ lock.at = "intent" /\ lock.job = j
  BY DEF ReserveAttempt
<1>4. Deps[j] \subseteq Needed /\ \A d \in Deps[j] : pass.seen[d].status = "completed"
  BY <1>3, DispatchAssumption DEF DInv, LockInv, Needed
<1>5. \A p \in P : p \in Attempts /\ attempt[p].status = "completed" /\ attempt[p].eligible
  BY <1>4 DEF DInv, PassInv
<1>6. {p[1] : p \in P} = Deps[j]
  <2>1. ASSUME NEW p \in P PROVE p[1] \in Deps[j]
    OBVIOUS
  <2>2. ASSUME NEW d \in Deps[j] PROVE \E p \in P : d = p[1]
    <3>1. <<d, pass.seen[d].done>> \in P /\ d = <<d, pass.seen[d].done>>[1]
      OBVIOUS
    <3> HIDE DEF P
    <3> QED
      BY <3>1
  <2> HIDE DEF P
  <2> QED
    BY <2>1, <2>2
<1>7. attempt \in [Attempts -> Attempt] /\ tree \in [Attempts -> {"none", "guarded", "orphaned"}]
      /\ item[j].op \in Nat
  BY DEF DInv, TypeOK, Item
<1>8. P \subseteq Attempts
  BY <1>5
<1> HIDE DEF P
<1>9. /\ m \in Attempt /\ m.status = "reserved" /\ m.proc = "none" /\ m.parents = P
      /\ m.eligible = FALSE
  BY <1>7, <1>8 DEF Attempt, AttemptStatus, Processes, NoAttempt
<1> HIDE DEF m
<1>10. /\ attempt' \in [Attempts -> Attempt] /\ attempt'[a] = m
       /\ \A b \in Attempts \ {a} : attempt'[b] = attempt[b]
  BY <1>1, <1>2, <1>7, <1>9
<1>11. attempt[a].status = "absent" /\ attempt[a].proc = "none"
       /\ (a[1] \in Contained => tree[a] = "none")
  BY <1>1, <1>2, AttemptFacts DEF RecordOK, Unresolved
<1>12. RecordInv'
  BY <1>9, <1>10 DEF DInv, RecordInv, RecordOK
<1>13. TreeInv'
  BY <1>3, <1>10, <1>11 DEF DInv, TreeInv, Unresolved
<1>14. LineageIsEvidence'
  <2>1. \A p \in Attempts : attempt[p].status = "completed" => attempt'[p] = attempt[p]
    BY <1>10, <1>11
  <2>2. ASSUME NEW b \in Attempts \ {a}
        PROVE  /\ attempt'[b].status # "absent" => {p[1] : p \in attempt'[b].parents} = Deps[b[1]]
               /\ \A p \in attempt'[b].parents :
                     p \in Attempts /\ attempt'[p].status = "completed" /\ attempt'[p].eligible
    BY <1>10, <2>1 DEF DInv, LineageIsEvidence
  <2>3. /\ {p[1] : p \in attempt'[a].parents} = Deps[a[1]]
        /\ \A p \in attempt'[a].parents :
              p \in Attempts /\ attempt'[p].status = "completed" /\ attempt'[p].eligible
    BY <1>2, <1>5, <1>6, <1>9, <1>10, <2>1
  <2> QED
    BY <2>2, <2>3 DEF LineageIsEvidence
<1>15. ~ Referenced(a)
  <2>1. item[j].att = 0
    BY <1>3 DEF DInv, LockInv, JobsInv, JobOK, ItemOK
  <2> QED
    BY <1>1, <1>2, <2>1 DEF Referenced, Bound
<1>16. \A b \in Attempts : Final(b) /\ Advances(b) /\ (tree'[b] # "none" => Busy(b))
  BY <1>3, <1>9, <1>10, <1>11, <1>15 DEF Final, Advances, Busy, Terminal
<1> QED
  BY <1>3, <1>7, <1>10, <1>12, <1>13, <1>14, <1>16 DEF AttemptsOK

\* The owner removes the worktree of an ended attempt.
LEMMA RemovedWorkspace ==
    ASSUME DInv, NEW a \in Attempts, NEW ws \in {"proven", "failed"}, RemoveWorkspace(a, ws)
    PROVE  AttemptsOK
<1> DEFINE m == [attempt[a] EXCEPT !.ws = ws]
<1>1. attempt[a].status \in Terminal /\ SetAttempt(a, m) /\ tree' = tree
  BY DEF RemoveWorkspace
<1>2. Successor(a, m, tree[a])
  BY <1>1, AttemptFacts DEF Successor, Attempt, AttemptStatus, Terminal, Nonterminal, RecordOK, Unresolved
<1> QED
  BY <1>1, <1>2, OneRecord

\* A process tree ends, or loses its guardian.
LEMMA EndedTree ==
    ASSUME DInv, NEW a \in Attempts, NEW left \in {"none", "orphaned"}, TreeEnds(a, left)
    PROVE  AttemptsOK
<1>1. attempt' = attempt /\ tree' = [tree EXCEPT ![a] = left] /\ tree[a] # "none"
      /\ (left = "orphaned" => a[1] \notin Contained)
  BY DEF TreeEnds, durable
<1>2. /\ tree \in [Attempts -> {"none", "guarded", "orphaned"}]
      /\ tree' \in [Attempts -> {"none", "guarded", "orphaned"}] /\ tree'[a] = left
      /\ \A b \in Attempts \ {a} : tree'[b] = tree[b]
  BY <1>1 DEF DInv, TypeOK
<1>3. RecordInv' /\ LineageIsEvidence'
  BY <1>1 DEF DInv, RecordInv, RecordOK, LineageIsEvidence
<1>4. TreeInv'
  BY <1>1, <1>2 DEF DInv, TreeInv, Unresolved
<1> QED
  BY <1>1, <1>2, <1>3, <1>4 DEF AttemptsOK, Final, Advances, Busy, DInv, TypeOK

\* Recovery ends an attempt, or records what has become of its processes.  In the
\* end it calls safe to retry what has ended and, kernel containment given, has no
\* processes.
LEMMA RecoveredAttempt ==
    ASSUME DInv, NEW a \in Attempts, NEW next \in Found, RecoveryStep(a, rec.found, next), tree' = tree,
           rec.found = "closing" => attempt[a].status \in Terminal
    PROVE  /\ AttemptsOK
           /\ next \in {"closing", "safe-to-retry"} => attempt'[a].status \in Terminal
           /\ next = "safe-to-retry" /\ a[1] \in Contained => tree'[a] = "none"
           /\ \A b \in Attempts \ {a} : attempt'[b] = attempt[b]
           /\ attempt[a].status = "reserved" => next = "safe-to-retry"
           /\ rec.found # "closing" => attempt[a].status \in Nonterminal
<1> DEFINE M == attempt[a]
<1>0. /\ M \in Attempt /\ RecordOK(M) /\ tree[a] \in {"none", "guarded", "orphaned"}
      /\ M.status = "completed" => a[1] \in Contained
      /\ tree[a] # "none" => Busy(a)
      /\ a[1] \in Contained => tree[a] # "orphaned" /\ (tree[a] # "none" => Unresolved(M))
      /\ attempt \in [Attempts -> Attempt]
  BY AttemptFacts DEF DInv, TypeOK
<1>1. CASE RecoverUnlaunched(a, rec.found, next)
  <2> DEFINE m == [M EXCEPT !.status = "cancelled", !.orphaned = TRUE]
  <2>1. M.status \in {"reserved", "claimed"} /\ SetAttempt(a, m) /\ next = "safe-to-retry"
    BY <1>1 DEF RecoverUnlaunched
  <2>2. M.proc = "none" /\ (a[1] \in Contained => tree[a] = "none")
    BY <1>0, <2>1 DEF RecordOK, Unresolved
  <2>3. Successor(a, m, tree[a])
    BY <1>0, <2>1, <2>2 DEF Successor, Attempt, AttemptStatus, Terminal, Nonterminal, RecordOK, Unresolved
  <2>4. AttemptsOK
    BY <2>1, <2>3, OneRecord
  <2>5. attempt'[a].status = "cancelled" /\ \A b \in Attempts \ {a} : attempt'[b] = attempt[b]
    BY <1>0, <2>1 DEF SetAttempt, Attempt
  <2> QED
    BY <2>1, <2>2, <2>4, <2>5 DEF Terminal, Nonterminal, AttemptStatus
<1>2. CASE RecoverBlocked(a, rec.found, next)
  <2>1. attempt' = attempt /\ next \in {"unknown", "still-running"} /\ Interrupted(a)
    BY <1>2 DEF RecoverBlocked
  <2> QED
    BY <2>1, Untouched DEF Interrupted, Terminal, Nonterminal, AttemptStatus
<1>3. CASE RecoverEvidence(a, rec.found, next)
  <2> DEFINE m(p) == [M EXCEPT !.proc = p]
  <2>1. /\ Interrupted(a) /\ Unresolved(M) /\ tree[a] # "guarded"
        /\ SetAttempt(a, m(IF a[1] \in Contained THEN "proven" ELSE "unknown"))
        /\ next \in {"cleared", "unknown"}
    BY <1>3 DEF RecoverEvidence, GuardianGone
  <2>2. PICK p \in {"proven", "unknown"} : p = IF a[1] \in Contained THEN "proven" ELSE "unknown"
    OBVIOUS
  <2>3. p = "proven" => a[1] \in Contained /\ tree[a] = "none"
    BY <1>0, <2>1, <2>2
  <2>4. Successor(a, m(p), tree[a])
    BY <1>0, <2>1, <2>3 DEF Successor, Interrupted, Attempt, AttemptStatus, Processes, Terminal, Nonterminal, RecordOK, Unresolved
  <2>5. AttemptsOK
    BY <2>1, <2>2, <2>4, OneRecord
  <2>6. \A b \in Attempts \ {a} : attempt'[b] = attempt[b]
    BY <1>0, <2>1 DEF SetAttempt
  <2> QED
    BY <2>1, <2>5, <2>6 DEF Interrupted, Terminal, Nonterminal, AttemptStatus
<1>4. CASE RecoverFail(a, rec.found, next)
  <2> DEFINE m == [M EXCEPT !.status = "failed", !.orphaned = TRUE]
  <2>1. Interrupted(a) /\ AllProven(M) /\ SetAttempt(a, m) /\ next = "closing"
    BY <1>4 DEF RecoverFail
  <2>3. Successor(a, m, tree[a])
    BY <1>0, <2>1 DEF Successor, Interrupted, AllProven, Attempt, AttemptStatus, Terminal, Nonterminal, RecordOK, Unresolved
  <2>4. AttemptsOK
    BY <2>1, <2>3, OneRecord
  <2>5. attempt'[a].status = "failed" /\ \A b \in Attempts \ {a} : attempt'[b] = attempt[b]
    BY <1>0, <2>1 DEF SetAttempt, Attempt
  <2> QED
    BY <2>1, <2>4, <2>5 DEF Terminal, Interrupted, Nonterminal, AttemptStatus
<1>5. CASE RecoverWorkspace(a, rec.found, next)
  <2>0. M.status \in Terminal /\ rec.found = "closing"
    BY <1>5 DEF RecoverWorkspace
  <2>1. PICK ws \in {"none", "proven", "failed"} :
           /\ SetAttempt(a, [M EXCEPT !.ws = ws])
           /\ next = IF IsSafe([M EXCEPT !.ws = ws]) THEN "safe-to-retry" ELSE "unknown"
    BY <1>5 DEF RecoverWorkspace
  <2> DEFINE m == [M EXCEPT !.ws = ws]
  <2>2. m \in Attempt /\ m.proc = M.proc /\ m.status = M.status
    BY <1>0, <2>1 DEF Attempt
  <2>3. Successor(a, m, tree[a])
    BY <1>0, <2>0, <2>1 DEF Successor, Attempt, AttemptStatus, Terminal, Nonterminal, RecordOK, Unresolved
  <2> HIDE DEF m
  <2>4. SetAttempt(a, m) /\ (next = "safe-to-retry" => IsSafe(m)) /\ next \in {"safe-to-retry", "unknown"}
    BY <2>1 DEF m
  <2>5. AttemptsOK
    BY <2>3, <2>4, OneRecord
  <2>6. next = "safe-to-retry" => ~ Unresolved(m)
    BY <2>2, <2>4, SafeIsResolved
  <2>7. next = "safe-to-retry" /\ a[1] \in Contained => tree[a] = "none"
    BY <1>0, <2>2, <2>6 DEF Unresolved
  <2>8. attempt'[a] = m /\ \A b \in Attempts \ {a} : attempt'[b] = attempt[b]
    BY <1>0, <2>4 DEF SetAttempt
  <2> QED
    BY <2>0, <2>2, <2>4, <2>5, <2>7, <2>8 DEF Terminal
<1> QED
  BY <1>1, <1>2, <1>3, <1>4, <1>5 DEF RecoveryStep

-----------------------------------------------------------------------------
(* Frames: what a step leaves true of the jobs and the locks it does not   *)
(* touch.                                                                  *)

SameHandles(j) == \A a \in Attempts : a[1] = j => (live'[a] = "none" <=> live[a] = "none")

LEMMA SameJob ==
    ASSUME DInv, AttemptsOK, NEW j \in Jobs, item'[j] = item[j], exec'[j] = exec[j], SameHandles(j)
    PROVE  JobOK(j)'
<1>0. JobOK(j)
  BY DEF DInv, JobsInv
<1>1. (j \in Active)' <=> j \in Active
  BY DEF Active
<1>2. ItemOK(j)'
  BY <1>0, <1>1 DEF JobOK, ItemOK
<1>3. ExecOK(j)'
  <2> SUFFICES ASSUME j \in Active
               PROVE  LET a == <<j, exec[j].att>> IN
                      /\ a \in Attempts
                      /\ exec[j].at = "waiting" => live'[a] # "none" \/ attempt'[a].status \in Terminal
                      /\ exec[j].at = "finishing" =>
                            /\ attempt'[a].status \in Terminal
                            /\ exec[j].res = "completed" => attempt'[a].status = "completed" /\ attempt'[a].eligible
    BY <1>1 DEF ExecOK
  <2>1. PICK a \in Attempts : a = <<j, exec[j].att>> /\ a[1] = j
    BY <1>0, AttemptNames DEF JobOK, ExecOK
  <2>2. Final(a) /\ (live'[a] = "none" <=> live[a] = "none")
    BY <2>1 DEF AttemptsOK, SameHandles
  <2> QED
    BY <1>0, <2>1, <2>2 DEF JobOK, ExecOK, Final
<1>4. NamedOK(j)'
  <2> SUFFICES ASSUME NEW a \in Attempts, a[1] = j
               PROVE  /\ live'[a] # "none" =>
                            /\ item[j].att = a[2] /\ item[j].status \in {"running", "cancelling"}
                            /\ exec[j].at = "waiting" /\ exec[j].att = a[2]
                      /\ tree'[a] # "none" /\ j \in Contained => item[j].att = a[2]
                      /\ attempt'[a].status \in Nonterminal =>
                            IF item[j].att = a[2]
                            THEN item[j].status \in {"running", "cancelling", "needs-input", "failed"}
                            ELSE attempt'[a].status = "reserved"
    BY DEF NamedOK
  <2>1. Advances(a) /\ (tree'[a] # "none" => Busy(a)) /\ (live'[a] = "none" <=> live[a] = "none")
    BY DEF AttemptsOK, SameHandles
  <2>2. Referenced(a) <=> item[j].att = a[2]
    BY AttemptNames DEF Referenced, Bound
  <2> QED
    BY <1>0, <2>1, <2>2 DEF JobOK, NamedOK, Busy, Advances, Nonterminal
<1>5. EvidenceOK(j)'
  <2> SUFFICES ASSUME item[j].status = "completed"
               PROVE  /\ item[j].done = item[j].att /\ Bound(j) \in Attempts
                      /\ attempt'[Bound(j)].status = "completed" /\ attempt'[Bound(j)].eligible
    BY DEF EvidenceOK, Bound
  <2>1. /\ item[j].done = item[j].att /\ Bound(j) \in Attempts
        /\ attempt[Bound(j)].status = "completed" /\ attempt[Bound(j)].eligible
    BY <1>0 DEF JobOK, EvidenceOK
  <2>2. Final(Bound(j))
    BY <2>1 DEF AttemptsOK
  <2> QED
    BY <2>1, <2>2 DEF Final, Terminal
<1> QED
  BY <1>2, <1>3, <1>4, <1>5 DEF JobOK

LEMMA OneJob ==
    ASSUME DInv, AttemptsOK, NEW j \in Jobs, JobOK(j)',
           \A k \in Jobs \ {j} : item'[k] = item[k] /\ exec'[k] = exec[k] /\ SameHandles(k)
    PROVE  JobsInv'
<1>1. ASSUME NEW k \in Jobs \ {j} PROVE JobOK(k)'
  BY SameJob
<1> QED
  BY <1>1 DEF JobsInv

LEMMA SameJobs ==
    ASSUME DInv, AttemptsOK, item' = item, exec' = exec, \A j \in Jobs : SameHandles(j)
    PROVE  JobsInv'
<1>1. ASSUME NEW k \in Jobs PROVE JobOK(k)'
  BY SameJob
<1> QED
  BY <1>1 DEF JobsInv

\* A process that serves requests is not recovering.
LEMMA ServingFrame ==
    ASSUME DInv, Serving, Serving', rec' = rec
    PROVE  MemoryInv' /\ RecInv'
<1>1. rec.stage = "off"
  BY DEF DInv, MemoryInv, Serving
<1> QED
  BY <1>1 DEF MemoryInv, RecInv, Serving

\* The evidence that a pass has seen lasts.
LEMMA SeenLasts ==
    ASSUME DInv, AttemptsOK, pass'.seen = pass.seen
    PROVE  \A d \in Needed : pass'.seen[d].status = "completed" =>
              /\ <<d, pass'.seen[d].done>> \in Attempts
              /\ attempt'[<<d, pass'.seen[d].done>>].status = "completed"
              /\ attempt'[<<d, pass'.seen[d].done>>].eligible
<1> SUFFICES ASSUME NEW d \in Needed, pass.seen[d].status = "completed"
             PROVE  LET a == <<d, pass.seen[d].done>> IN
                    a \in Attempts /\ attempt'[a].status = "completed" /\ attempt'[a].eligible
  OBVIOUS
<1>1. PICK a \in Attempts : /\ a = <<d, pass.seen[d].done>>
                            /\ attempt[a].status = "completed" /\ attempt[a].eligible
  BY DEF DInv, PassInv
<1>2. Final(a)
  BY DEF AttemptsOK
<1> QED
  BY <1>1, <1>2 DEF Final, Terminal

\* While the lock is held, the items that its holder has looked at keep still.
LEMMA LockFrame ==
    ASSUME DInv, AttemptsOK, lock' = lock, pass' = pass,
           lock.at # "free" =>
              /\ \A j \in Jobs : item'[j] = item[j] \/ item[j].status = "absent"
              /\ \A j \in Jobs : exec'[j] = exec[j] \/ (exec[j].at = "waiting" /\ exec'[j].at # "off")
    PROVE  LockInv' /\ PassInv'
<1>0. pass.todo \subseteq Jobs
  BY DEF DInv, TypeOK
<1>1. CASE lock.at = "free"
  <2>1. LockInv'
    BY <1>1 DEF LockInv
  <2>2. pass.todo = {}
    BY <1>1 DEF DInv, PassInv
  <2> QED
    BY <1>1, <2>1, <2>2, SeenLasts DEF PassInv
<1>2. CASE lock.at # "free"
  <2>1. Active' = Active
    BY <1>2 DEF Active
  <2>2. \A j \in Jobs : item[j].status # "absent" => item'[j] = item[j]
    BY <1>2
  <2>3. lock.at \in {"intent", "reserved", "claim", "cancel"} => lock.job \in Jobs
    BY <1>0 DEF DInv, LockInv
  <2>4. LockInv'
    BY <1>0, <1>2, <2>1, <2>2, <2>3 DEF DInv, LockInv
  <2>5. \A j \in pass.todo : item[j].status \in {"queued", "dispatching"}
    BY DEF DInv, PassInv
  <2>6. \A j \in pass.todo : item'[j] = item[j]
    BY <1>0, <2>2, <2>5
  <2>7. PassInv'
    BY <1>2, <2>6, SeenLasts DEF DInv, PassInv
  <2> QED
    BY <2>4, <2>7
<1> QED
  BY <1>1, <1>2

LEMMA LimitFrame ==
    ASSUME DInv, Active' \subseteq Active
    PROVE  LimitInv'
<1>1. IsFiniteSet(Active) /\ Cardinality(Active) <= MaxConcurrent /\ Cardinality(Active) \in Nat
  BY FS_CardinalityType DEF DInv, LimitInv
<1>2. IsFiniteSet(Active') /\ Cardinality(Active') <= Cardinality(Active) /\ Cardinality(Active') \in Nat
  BY <1>1, FS_Subset, FS_CardinalityType
<1> QED
  BY <1>1, <1>2, DispatchAssumption DEF LimitInv

\* A step outside the state lock, in a process that serves requests.
LEMMA QuietStep ==
    ASSUME DInv, AttemptsOK, JobsInv', Serving, Serving', rec' = rec, lock' = lock, pass' = pass,
           \A j \in Jobs : item'[j] = item[j] \/ item[j].status = "absent",
           \A j \in Jobs : exec'[j] = exec[j] \/ (exec[j].at = "waiting" /\ exec'[j].at # "off"),
           TypeOK'
    PROVE  DInv'
<1>1. MemoryInv' /\ RecInv'
  BY ServingFrame
<1>2. LockInv' /\ PassInv'
  BY LockFrame
<1>3. Active' \subseteq Active
  BY DEF Active
<1>4. LimitInv'
  BY <1>3, LimitFrame
<1> QED
  BY <1>1, <1>2, <1>4 DEF DInv, AttemptsOK

\* The attempts at work.
LEMMA AttemptWorks ==
    ASSUME DInv, NEW a \in Attempts, AttemptStep(a)
    PROVE  DInv'
<1>0. AttemptsOK /\ live[a] # "none"
  BY ExecuteAttempts
<1>1. /\ Serving /\ a[1] \in Jobs /\ a[1] \in Active /\ exec[a[1]].at = "waiting" /\ exec[a[1]].att = a[2]
      /\ item[a[1]].att = a[2] /\ item[a[1]].status \in {"running", "cancelling"} /\ a = <<a[1], a[2]>>
  BY <1>0, LiveAttempt, AttemptNames
<1>2. CASE UNCHANGED <<item, memory>>
  <2>1. JobsInv'
    BY <1>0, <1>2, SameJobs DEF memory, SameHandles
  <2>2. TypeOK'
    BY <1>0, <1>2 DEF memory, DInv, TypeOK, AttemptsOK
  <2> QED
    BY <1>0, <1>1, <1>2, <2>1, <2>2, QuietStep DEF memory, Serving
<1>3. ASSUME NEW ws \in {"none", "pending", "proven", "failed"}, SettleAttempt(a, ws)
      PROVE  DInv'
  <2> DEFINE j == a[1]
  <2>0. live' = [live EXCEPT ![a] = "none"] /\ UNCHANGED <<item, tree, phase, exec, lock, pass, rec, awaited>>
        /\ attempt[a].status \in Terminal
    BY <1>3 DEF SettleAttempt, Executing
  <2>1. live \in [Attempts -> {"none", "running", "aborted"}] /\ live' \in [Attempts -> {"none", "running", "aborted"}]
        /\ live'[a] = "none" /\ \A b \in Attempts \ {a} : live'[b] = live[b]
    BY <2>0 DEF DInv, TypeOK
  <2>2. TypeOK'
    BY <1>0, <2>0, <2>1 DEF DInv, TypeOK, AttemptsOK
  <2>3. \A k \in Jobs \ {j} : SameHandles(k)
    BY <2>1 DEF SameHandles
  <2>4. attempt'[a].status \in Terminal
    BY <1>0, <2>0 DEF AttemptsOK, Final
  <2>5. JobOK(j) /\ Final(a)
    BY <1>0, <1>1 DEF DInv, JobsInv, AttemptsOK
  <2>6. ItemOK(j)'
    BY <2>0, <2>5 DEF JobOK, ItemOK, Active
  <2>7. ExecOK(j)'
    <3>1. <<j, exec[j].att>> = a /\ exec[j].at = "waiting"
      BY <1>1
    <3> QED
      BY <2>0, <2>4, <3>1 DEF ExecOK
  <2>8. NamedOK(j)'
    <3> SUFFICES ASSUME NEW b \in Attempts, b[1] = j
                 PROVE  /\ live'[b] = "none"
                        /\ tree'[b] # "none" /\ j \in Contained => item[j].att = b[2]
                        /\ attempt'[b].status \in Nonterminal =>
                              IF item[j].att = b[2]
                              THEN item[j].status \in {"running", "cancelling", "needs-input", "failed"}
                              ELSE attempt'[b].status = "reserved"
      BY <2>0 DEF NamedOK
    <3>1. live'[b] = "none"
      BY <1>1, <2>1, <2>5, AttemptNames DEF JobOK, NamedOK
    <3>2. Advances(b) /\ tree'[b] = tree[b] /\ (Referenced(b) <=> item[j].att = b[2])
      BY <1>0, <2>0, AttemptNames DEF AttemptsOK, Referenced, Bound
    <3> QED
      BY <2>5, <3>1, <3>2 DEF JobOK, NamedOK, Advances, Nonterminal
  <2>9. EvidenceOK(j)'
    BY <1>1, <2>0 DEF EvidenceOK
  <2>10. JobsInv'
    BY <1>0, <1>1, <2>0, <2>3, <2>6, <2>7, <2>8, <2>9, OneJob DEF JobOK
  <2> QED
    BY <1>0, <1>1, <2>0, <2>2, <2>10, QuietStep DEF Serving
<1>4. CASE RejectExecution(a)
  <2> DEFINE j == a[1]
  <2>0. /\ live' = [live EXCEPT ![a] = "none"] /\ exec' = [exec EXCEPT ![j].at = "failing"]
        /\ UNCHANGED <<item, attempt, tree, phase, lock, pass, rec, awaited>>
    BY <1>4 DEF RejectExecution, durable
  <2>1. live \in [Attempts -> {"none", "running", "aborted"}] /\ live' \in [Attempts -> {"none", "running", "aborted"}]
        /\ live'[a] = "none" /\ \A b \in Attempts \ {a} : live'[b] = live[b]
    BY <2>0 DEF DInv, TypeOK
  <2>e. /\ exec'[j].at = "failing" /\ exec'[j].att = exec[j].att /\ \A k \in Jobs \ {j} : exec'[k] = exec[k]
        /\ exec' \in [Jobs -> [at : {"off", "starting", "claimed", "waiting", "finishing", "failing"},
                               att : Ordinal, res : Terminal \cup {"none"}]]
    <3> DEFINE E == [at : {"off", "starting", "claimed", "waiting", "finishing", "failing"},
                     att : Ordinal, res : Terminal \cup {"none"}]
               e == [exec[j] EXCEPT !.at = "failing"]
    <3>1. exec \in [Jobs -> E] /\ j \in Jobs
      BY <1>1 DEF DInv, TypeOK
    <3>2. exec[j] \in E
      BY <3>1
    <3>3. e \in E /\ e.at = "failing" /\ e.att = exec[j].att
      BY <3>2
    <3>4. exec' = [exec EXCEPT ![j] = e]
      BY <2>0
    <3> HIDE DEF E, e
    <3>5. exec' \in [Jobs -> E] /\ exec'[j] = e /\ \A k \in Jobs \ {j} : exec'[k] = exec[k]
      BY <3>1, <3>3, <3>4
    <3> QED
      BY <3>3, <3>5 DEF E
  <2>2. TypeOK'
    BY <1>0, <2>0, <2>1, <2>e DEF DInv, TypeOK
  <2>3. \A k \in Jobs \ {j} : SameHandles(k)
    BY <2>1 DEF SameHandles
  <2>5. JobOK(j)
    BY <1>1 DEF DInv, JobsInv
  <2>6. ItemOK(j)'
    BY <1>1, <2>0, <2>e, <2>5 DEF JobOK, ItemOK, Active
  <2>7. ExecOK(j)'
    BY <1>1, <2>0, <2>e, <2>5 DEF JobOK, ExecOK, Active
  <2>8. NamedOK(j)'
    <3>1. ASSUME NEW b \in Attempts, b[1] = j PROVE live'[b] = "none"
      BY <1>1, <2>1, <2>5, <3>1, AttemptNames DEF JobOK, NamedOK
    <3> QED
      BY <2>0, <2>5, <3>1 DEF JobOK, NamedOK
  <2>9. EvidenceOK(j)'
    BY <1>1, <2>0 DEF EvidenceOK
  <2>10. JobsInv'
    BY <1>0, <1>1, <2>0, <2>3, <2>e, <2>6, <2>7, <2>8, <2>9, OneJob DEF JobOK
  <2> QED
    BY <1>0, <1>1, <2>0, <2>2, <2>e, <2>10, QuietStep DEF Serving
<1> QED
  BY <1>2, <1>3, <1>4
     DEF AttemptStep, PrepareAttempt, StartWorker, Spawn, RecordTermination, StartVerification, EndAttempt

\* An execution learns that its attempt has ended, or that it cannot be read.
LEMMA AttemptAwaited ==
    ASSUME DInv, NEW j \in Jobs, AwaitAttempt(j) \/ AwaitFails(j)
    PROVE  DInv'
<1> DEFINE a == <<j, exec[j].att>>
           E == exec[j]
<1>0. /\ exec[j].at = "waiting" /\ live[a] = "none" /\ j \in Active
      /\ UNCHANGED <<item, attempt, tree, phase, live, lock, pass, rec, awaited>>
  BY DEF AwaitAttempt, AwaitFails, durable, Active
<1>1. JobOK(j)
  BY DEF DInv, JobsInv
<1>2. a \in Attempts /\ a[1] = j /\ a[2] = exec[j].att /\ attempt[a].status \in Terminal
  BY <1>0, <1>1 DEF JobOK, ExecOK
<1>3. Serving
  BY <1>0 DEF DInv, MemoryInv, Serving, TypeOK
<1>4. AttemptsOK
  BY <1>0, Untouched
<1>5. Outcome(a) \in Terminal /\ (Outcome(a) = "completed" => attempt[a].status = "completed" /\ attempt[a].eligible)
  BY <1>2, OutcomeIsTerminal
<1> HIDE DEF a
<1>6. \/ exec' = [exec EXCEPT ![j] = [E EXCEPT !.at = "finishing", !.res = Outcome(a)]]
      \/ exec' = [exec EXCEPT ![j].at = "failing"]
  BY DEF AwaitAttempt, AwaitFails, a
<1>7. /\ exec' \in [Jobs -> [at : {"off", "starting", "claimed", "waiting", "finishing", "failing"},
                             att : Ordinal, res : Terminal \cup {"none"}]]
      /\ exec'[j].att = exec[j].att /\ \A k \in Jobs \ {j} : exec'[k] = exec[k]
      /\ exec'[j].at \in {"finishing", "failing"}
      /\ exec'[j].at = "finishing" => exec'[j].res = Outcome(a)
  <2>1. PICK o \in Terminal : o = Outcome(a)
    BY <1>5
  <2>2. exec \in [Jobs -> [at : {"off", "starting", "claimed", "waiting", "finishing", "failing"},
                           att : Ordinal, res : Terminal \cup {"none"}]]
    BY DEF DInv, TypeOK
  <2>3. CASE exec' = [exec EXCEPT ![j].at = "failing"]
    BY <2>2, <2>3
  <2>4. CASE exec' = [exec EXCEPT ![j] = [E EXCEPT !.at = "finishing", !.res = o]]
    BY <2>1, <2>2, <2>4
  <2> QED
    BY <1>6, <2>1, <2>3, <2>4
<1>8. TypeOK'
  BY <1>0, <1>7 DEF DInv, TypeOK
<1>9. ItemOK(j)'
  BY <1>0, <1>1, <1>7 DEF JobOK, ItemOK, Active
<1>10. ExecOK(j)'
  BY <1>0, <1>2, <1>5, <1>7 DEF ExecOK, a
<1>11. NamedOK(j)'
  <2>1. ASSUME NEW b \in Attempts, b[1] = j PROVE live[b] = "none"
    BY <1>0, <1>1, <1>2, <2>1, AttemptNames DEF JobOK, NamedOK
  <2> QED
    BY <1>0, <1>1, <2>1 DEF JobOK, NamedOK
<1>12. EvidenceOK(j)'
  BY <1>0, <1>1 DEF JobOK, EvidenceOK, Bound
<1>13. JobsInv'
  BY <1>0, <1>4, <1>7, <1>9, <1>10, <1>11, <1>12, OneJob DEF JobOK, SameHandles
<1> QED
  BY <1>0, <1>3, <1>4, <1>7, <1>8, <1>13, QuietStep DEF Serving

\* The loop ends: handles change from running to aborted only.
LEMMA LoopEnds ==
    ASSUME DInv, NEW abort \in BOOLEAN, EndLoop(abort)
    PROVE  /\ live' \in [Attempts -> {"none", "running", "aborted"}] /\ \A j \in Jobs : SameHandles(j)
           /\ awaited' \subseteq Attempts /\ phase' = "draining"
<1>1. \A j \in Active : <<j, exec[j].att>> \in Attempts
  BY DEF DInv, JobsInv, JobOK, ExecOK, Active
<1>2. awaited' \subseteq Attempts
  BY <1>1 DEF EndLoop
<1>3. live \in [Attempts -> {"none", "running", "aborted"}]
  BY DEF DInv, TypeOK
<1>4. \A a \in Attempts : live'[a] = live[a] \/ (live[a] = "running" /\ live'[a] = "aborted")
  BY DEF EndLoop
<1>5. live' = [a \in Attempts |-> live'[a]]
  BY DEF EndLoop
<1>6. live' \in [Attempts -> {"none", "running", "aborted"}]
  BY <1>3, <1>4, <1>5
<1> QED
  BY <1>2, <1>3, <1>4, <1>6 DEF SameHandles, EndLoop

\* Requests that need no lock, and the end of the loop.
LEMMA Submitted ==
    ASSUME DInv, NEW j \in Jobs, Enqueue(j)
    PROVE  DInv'
<1> DEFINE it == [NoItem EXCEPT !.status = "queued"]
<1>0. Serving /\ item[j].status = "absent" /\ item' = [item EXCEPT ![j] = it]
      /\ UNCHANGED <<attempt, tree, phase, live, exec, lock, pass, rec, awaited>>
  BY DEF Enqueue, SetItem, memory
<1>1. it \in Item /\ it.status = "queued" /\ it.att = 0 /\ it.retries = 0
  BY DEF Item, NoItem, QueueStatus, Ordinal
<1> HIDE DEF it
<1>2. /\ item' \in [Jobs -> Item] /\ item'[j] = it /\ \A k \in Jobs \ {j} : item'[k] = item[k]
  BY <1>0, <1>1 DEF DInv, TypeOK
<1>3. TypeOK'
  BY <1>0, <1>1, <1>2, DispatchAssumption DEF DInv, TypeOK
<1>4. AttemptsOK
  BY <1>0, Untouched
<1>5. JobOK(j) /\ item[j].att = 0
  BY <1>0 DEF DInv, JobsInv, JobOK, ItemOK
<1>6. ItemOK(j)' /\ ExecOK(j)' /\ EvidenceOK(j)'
  BY <1>0, <1>1, <1>2, <1>5 DEF JobOK, ItemOK, ExecOK, EvidenceOK, Active
<1>7. NamedOK(j)'
  BY <1>0, <1>1, <1>2, <1>5, AttemptNames DEF JobOK, NamedOK
<1>8. JobsInv'
  BY <1>0, <1>2, <1>4, <1>6, <1>7, OneJob DEF JobOK, SameHandles
<1> QED
  BY <1>0, <1>2, <1>3, <1>4, <1>8, QuietStep DEF Serving

LEMMA OtherRequests ==
    ASSUME DInv, \/ \E a \in Attempts : AbortAttempt(a)
                 \/ \E a \in Attempts, ws \in {"proven", "failed"} : RemoveWorkspace(a, ws)
                 \/ \E abort \in BOOLEAN : StopLoop(abort)
                 \/ ReleaseLease
    PROVE  DInv'
<1>1. ASSUME NEW a \in Attempts, AbortAttempt(a) PROVE DInv'
  <2>0. Serving /\ live[a] = "running" /\ live' = [live EXCEPT ![a] = "aborted"]
        /\ UNCHANGED <<item, attempt, tree, phase, exec, lock, pass, rec, awaited>>
    BY <1>1 DEF AbortAttempt, durable
  <2>1. /\ live' \in [Attempts -> {"none", "running", "aborted"}] /\ live'[a] = "aborted"
        /\ \A b \in Attempts \ {a} : live'[b] = live[b]
    BY <2>0 DEF DInv, TypeOK
  <2>2. AttemptsOK /\ TypeOK'
    BY <2>0, <2>1, Untouched DEF DInv, TypeOK
  <2>3. \A j \in Jobs : SameHandles(j)
    BY <2>0, <2>1 DEF SameHandles
  <2>4. JobsInv'
    BY <2>0, <2>2, <2>3, SameJobs
  <2> QED
    BY <2>0, <2>2, <2>4, QuietStep DEF Serving
<1>2. ASSUME NEW a \in Attempts, NEW ws \in {"proven", "failed"}, RemoveWorkspace(a, ws) PROVE DInv'
  <2>0. Serving /\ UNCHANGED <<item, memory>>
    BY <1>2 DEF RemoveWorkspace
  <2>1. AttemptsOK
    BY <1>2, RemovedWorkspace
  <2>2. TypeOK'
    BY <2>0, <2>1 DEF AttemptsOK, DInv, TypeOK, memory
  <2>3. JobsInv'
    BY <2>0, <2>1, SameJobs DEF SameHandles, memory
  <2> QED
    BY <2>0, <2>1, <2>2, <2>3, QuietStep DEF Serving, memory
<1>3. ASSUME NEW abort \in BOOLEAN, StopLoop(abort) PROVE DInv'
  <2>0. phase = "looping" /\ EndLoop(abort) /\ UNCHANGED <<item, attempt, tree, exec, lock, pass, rec>>
    BY <1>3 DEF StopLoop, durable
  <2>1. /\ live' \in [Attempts -> {"none", "running", "aborted"}] /\ \A j \in Jobs : SameHandles(j)
        /\ awaited' \subseteq Attempts /\ phase' = "draining"
    BY <2>0, LoopEnds
  <2>2. AttemptsOK /\ TypeOK'
    BY <2>0, <2>1, Untouched DEF DInv, TypeOK
  <2>3. JobsInv'
    BY <2>0, <2>1, <2>2, SameJobs
  <2> QED
    BY <2>0, <2>1, <2>2, <2>3, QuietStep DEF Serving
<1>4. CASE ReleaseLease
  <2>0. phase = "draining" /\ phase' = "released" /\ awaited' = {}
        /\ UNCHANGED <<item, attempt, tree, live, exec, lock, pass, rec>>
    BY <1>4 DEF ReleaseLease, durable
  <2>2. AttemptsOK /\ TypeOK'
    BY <2>0, Untouched DEF DInv, TypeOK
  <2>3. JobsInv'
    BY <2>0, <2>2, SameJobs DEF SameHandles
  <2> QED
    BY <2>0, <2>2, <2>3, QuietStep DEF Serving
<1> QED
  BY <1>1, <1>2, <1>3, <1>4

-----------------------------------------------------------------------------
(* The dispatch pass                                                       *)

\* A step of the holder of the state lock.
LEMMA LockedStep ==
    ASSUME DInv, AttemptsOK, lock.at # "free", Serving' \/ phase' = phase, rec' = rec,
           TypeOK', LockInv', PassInv', LimitInv', JobsInv'
    PROVE  DInv'
<1>1. Serving
  BY DEF DInv, MemoryInv, TypeOK, Serving, Free
<1>2. MemoryInv' /\ RecInv'
  BY <1>1, ServingFrame DEF Serving
<1> QED
  BY <1>2 DEF DInv, AttemptsOK

LEMMA PassStarts ==
    ASSUME DInv, NEW by \in {"loop", "submit"}, StartPass(by)
    PROVE  DInv'
<1> DEFINE todo == {j \in Jobs : item[j].status = "queued"}
           seen == [d \in Needed |-> item[d]]
<1>0. /\ Serving /\ lock' = [at |-> "scan", job |-> "none"]
      /\ pass' = [by |-> by, seen |-> seen, todo |-> todo]
      /\ UNCHANGED <<item, attempt, tree, phase, live, exec, rec, awaited>>
  BY DEF StartPass, durable, Serving
<1>1. Needed \subseteq Jobs
  BY DispatchAssumption DEF Needed
<1>2. seen \in [Needed -> Item]
  BY <1>1 DEF DInv, TypeOK
<1>3. AttemptsOK
  BY <1>0, Untouched
<1>4. TypeOK'
  <2>1. todo \in SUBSET Jobs
    OBVIOUS
  <2> HIDE DEF todo, seen
  <2>2. pass' \in [by : {"none", "loop", "submit"}, todo : SUBSET Jobs, seen : [Needed -> Item]]
    BY <1>0, <1>2, <2>1
  <2> QED
    BY <1>0, <2>2 DEF DInv, TypeOK
<1>5. JobsInv'
  BY <1>0, <1>3, SameJobs DEF SameHandles
<1>6. LockInv'
  BY <1>0 DEF LockInv
<1>7. PassInv'
  <2>1. ASSUME NEW d \in Needed, pass'.seen[d].status = "completed"
        PROVE  LET a == <<d, pass'.seen[d].done>> IN
               a \in Attempts /\ attempt'[a].status = "completed" /\ attempt'[a].eligible
    <3>1. pass'.seen[d] = item[d] /\ d \in Jobs /\ item[d].status = "completed"
      BY <1>0, <1>1, <2>1
    <3>2. EvidenceOK(d)
      BY <3>1 DEF DInv, JobsInv, JobOK
    <3> QED
      BY <1>0, <3>1, <3>2 DEF EvidenceOK, Bound
  <2>2. lock'.at = "scan" /\ pass'.todo = todo /\ item' = item
    BY <1>0
  <2> QED
    BY <2>1, <2>2 DEF PassInv
<1>8. LimitInv'
  BY <1>0, LimitFrame DEF Active
<1>9. MemoryInv' /\ RecInv'
  BY <1>0, ServingFrame DEF Serving
<1> QED
  BY <1>3, <1>4, <1>5, <1>6, <1>7, <1>8, <1>9 DEF DInv, AttemptsOK

LEMMA PassEnds ==
    ASSUME DInv, EndPass \/ \E j \in Jobs : PassThrows(j)
    PROVE  DInv'
<1>0. /\ lock.at # "free" /\ lock' = Free /\ pass' = NoPass
      /\ UNCHANGED <<item, attempt, tree, exec, rec>>
  BY DEF EndPass, PassThrows, durable
<1>1. /\ live' \in [Attempts -> {"none", "running", "aborted"}] /\ \A j \in Jobs : SameHandles(j)
      /\ awaited' \subseteq Attempts /\ (phase' = "draining" \/ phase' = phase)
  <2>1. CASE UNCHANGED <<phase, live, awaited>>
    BY <2>1 DEF DInv, TypeOK, SameHandles
  <2>2. CASE EndLoop(TRUE)
    BY <2>2, LoopEnds
  <2> QED
    BY <2>1, <2>2 DEF EndPass, PassThrows
<1>2. AttemptsOK
  BY <1>0, Untouched
<1>3. NoPass \in [by : {"none", "loop", "submit"}, todo : SUBSET Jobs, seen : [Needed -> Item]]
  BY DEF NoPass, NoItem, Item, QueueStatus, Ordinal
<1>4. TypeOK'
  BY <1>0, <1>1, <1>3 DEF DInv, TypeOK, Free
<1>5. JobsInv'
  BY <1>0, <1>1, <1>2, SameJobs
<1>6. LockInv' /\ PassInv'
  BY <1>0 DEF LockInv, PassInv, NoPass, NoItem, Free
<1>7. LimitInv'
  BY <1>0, LimitFrame DEF Active
<1> QED
  BY <1>0, <1>1, <1>2, <1>4, <1>5, <1>6, <1>7, LockedStep DEF Serving

\* An item that is not dispatched: it is left for a later pass, or needs input.
LEMMA ItemPassedOver ==
    ASSUME DInv, NEW j \in Jobs,
           SkipItem(j) \/ StopAtLimit(j) \/ FailDependent(j) \/ RejectLineage(j)
    PROVE  DInv'
<1>0. /\ lock.at \in {"scan", "intent"} /\ j \in pass.todo
      /\ lock.at = "intent" => lock.job = j
      /\ UNCHANGED <<attempt, tree, phase, live, exec, rec, awaited>>
  BY FirstInSet DEF SkipItem, StopAtLimit, FailDependent, RejectLineage, Visiting, durable, DInv, TypeOK, LockInv
<1>1. \/ item' = item \/ item' = [item EXCEPT ![j] = [item[j] EXCEPT !.status = "needs-input"]]
  BY DEF SkipItem, StopAtLimit, FailDependent, RejectLineage, SetItem, durable
<1>2. /\ lock' \in [at : {"scan"}, job : Jobs \cup {"none"}]
      /\ \E T \in SUBSET (pass.todo \ {j}) : pass' = [pass EXCEPT !.todo = T]
  BY DEF SkipItem, StopAtLimit, FailDependent, RejectLineage, Visiting, Visited, DInv, TypeOK
<1>3. item[j].status \in {"queued", "dispatching"}
  BY <1>0 DEF DInv, PassInv
<1>4. item[j].att = 0 /\ JobOK(j)
  BY <1>3 DEF DInv, JobsInv, JobOK, ItemOK
<1>5. AttemptsOK
  BY <1>0, Untouched
<1>6. /\ item' \in [Jobs -> Item] /\ \A k \in Jobs \ {j} : item'[k] = item[k]
      /\ item'[j].att = item[j].att /\ item'[j].done = item[j].done /\ item'[j].retries = item[j].retries
      /\ item'[j].status \in {item[j].status, "needs-input"}
  BY <1>1 DEF DInv, TypeOK, Item, QueueStatus
<1>7. /\ pass' \in [by : {"none", "loop", "submit"}, todo : SUBSET Jobs, seen : [Needed -> Item]]
      /\ pass'.todo \subseteq pass.todo \ {j} /\ pass'.seen = pass.seen
  <2>1. pass \in [by : {"none", "loop", "submit"}, todo : SUBSET Jobs, seen : [Needed -> Item]]
    BY DEF DInv, TypeOK
  <2>2. PICK T \in SUBSET (pass.todo \ {j}) : pass' = [pass EXCEPT !.todo = T]
    BY <1>2
  <2>3. T \in SUBSET Jobs
    BY <2>1
  <2> QED
    BY <2>1, <2>2, <2>3
<1>8. TypeOK'
  <2>1. \A k \in Jobs : item'[k].att <= MaxAttempts[k] /\ item'[k].retries <= MaxAutoRetries[k]
    BY <1>6 DEF DInv, TypeOK
  <2> QED
    BY <1>0, <1>2, <1>6, <1>7, <2>1 DEF DInv, TypeOK
<1>9. JobOK(j)'
  <2>1. ItemOK(j)' /\ ExecOK(j)' /\ EvidenceOK(j)'
    BY <1>0, <1>3, <1>4, <1>6 DEF JobOK, ItemOK, ExecOK, EvidenceOK, Active
  <2>2. NamedOK(j)'
    BY <1>0, <1>4, <1>6, AttemptNames DEF JobOK, NamedOK
  <2> QED
    BY <2>1, <2>2 DEF JobOK
<1>10. JobsInv'
  BY <1>0, <1>5, <1>6, <1>9, OneJob DEF SameHandles
<1>11. LockInv'
  BY <1>2 DEF LockInv
<1>12. PassInv'
  <2>1. \A k \in pass'.todo : k \in Jobs /\ k # j /\ item[k].status = "queued"
    BY <1>0, <1>7 DEF DInv, PassInv, TypeOK
  <2>2. \A k \in pass'.todo : item'[k].status = "queued"
    BY <1>6, <2>1
  <2> QED
    BY <1>2, <1>5, <1>7, <2>2, SeenLasts DEF PassInv
<1>13. LimitInv'
  BY <1>0, LimitFrame DEF Active
<1> QED
  BY <1>0, <1>5, <1>8, <1>10, <1>11, <1>12, <1>13, LockedStep

LEMMA IntentRecorded ==
    ASSUME DInv, NEW j \in Jobs, RecordIntent(j)
    PROVE  DInv'
<1> DEFINE it == [item[j] EXCEPT !.status = "dispatching", !.op = FreshOp(j), !.att = 0]
<1>0. /\ lock.at = "scan" /\ pass.todo # {} /\ j = First(pass.todo) /\ j \notin Active
      /\ DependenciesCompleted(j) /\ Cardinality(Active) < MaxConcurrent
      /\ item' = [item EXCEPT ![j] = it] /\ lock' = [at |-> "intent", job |-> j]
      /\ UNCHANGED <<attempt, tree, phase, live, exec, pass, rec, awaited>>
  BY DEF RecordIntent, Visiting, SetItem
<1>1. j \in pass.todo /\ pass.todo \subseteq Jobs
  BY <1>0, FirstInSet DEF DInv, TypeOK
<1>2. item[j].status = "queued"
  BY <1>0, <1>1 DEF DInv, PassInv
<1>3. item[j].att = 0 /\ JobOK(j)
  BY <1>2 DEF DInv, JobsInv, JobOK, ItemOK
<1>4. /\ it \in Item /\ it.status = "dispatching" /\ it.att = 0 /\ it.retries = item[j].retries
  <2>1. item[j] \in Item
    BY DEF DInv, TypeOK
  <2>2. PICK o \in Nat : o = FreshOp(j)
    BY FreshOpExists DEF DInv
  <2>3. it = [item[j] EXCEPT !.status = "dispatching", !.op = o, !.att = 0]
    BY <2>2
  <2> HIDE DEF it
  <2> QED
    BY <2>1, <2>2, <2>3 DEF Item, QueueStatus, Ordinal
<1> HIDE DEF it
<1>5. /\ item' \in [Jobs -> Item] /\ item'[j] = it /\ \A k \in Jobs \ {j} : item'[k] = item[k]
  BY <1>0, <1>4 DEF DInv, TypeOK
<1>6. TypeOK'
  <2>1. \A k \in Jobs : item'[k].att <= MaxAttempts[k] /\ item'[k].retries <= MaxAutoRetries[k]
    BY <1>3, <1>4, <1>5 DEF DInv, TypeOK
  <2> QED
    BY <1>0, <1>5, <2>1 DEF DInv, TypeOK
<1>7. AttemptsOK
  BY <1>0, Untouched
<1>8. JobOK(j)'
  <2>1. ItemOK(j)' /\ ExecOK(j)' /\ EvidenceOK(j)'
    BY <1>0, <1>3, <1>4, <1>5 DEF JobOK, ItemOK, ExecOK, EvidenceOK, Active
  <2>2. NamedOK(j)'
    BY <1>0, <1>3, <1>4, <1>5, AttemptNames DEF JobOK, NamedOK
  <2> QED
    BY <2>1, <2>2 DEF JobOK
<1>9. JobsInv'
  BY <1>0, <1>5, <1>7, <1>8, OneJob DEF SameHandles
<1>10. Active' = Active
  BY <1>0 DEF Active
<1>11. LockInv'
  BY <1>0, <1>1, <1>4, <1>5, <1>10 DEF LockInv, DependenciesCompleted
<1>12. PassInv'
  <2>1. \A k \in pass.todo \ {j} : item'[k].status = "queued"
    BY <1>0, <1>1, <1>5 DEF DInv, PassInv
  <2> QED
    BY <1>0, <1>4, <1>5, <1>7, <2>1, SeenLasts DEF PassInv
<1>13. LimitInv'
  BY <1>10, LimitFrame
<1> QED
  BY <1>0, <1>6, <1>7, <1>9, <1>11, <1>12, <1>13, LockedStep

LEMMA AttemptReserved ==
    ASSUME DInv, NEW j \in Jobs, ReserveAttempt(j)
    PROVE  DInv'
<1>0. /\ lock.at = "intent" /\ lock.job = j /\ lock' = [lock EXCEPT !.at = "reserved"]
      /\ UNCHANGED <<item, tree, phase, live, exec, pass, rec, awaited>>
  BY DEF ReserveAttempt
<1>1. AttemptsOK
  BY Reservation
<1>2. lock'.at = "reserved" /\ lock'.job = j /\ TypeOK'
  BY <1>0, <1>1 DEF AttemptsOK, DInv, TypeOK
<1>3. JobsInv'
  BY <1>0, <1>1, SameJobs DEF SameHandles
<1>4. Active' = Active
  BY <1>0 DEF Active
<1>5. LockInv'
  BY <1>0, <1>2, <1>4 DEF DInv, LockInv
<1>6. PassInv'
  BY <1>0, <1>1, <1>2, SeenLasts DEF DInv, PassInv
<1>7. LimitInv'
  BY <1>4, LimitFrame
<1> QED
  BY <1>0, <1>1, <1>2, <1>3, <1>5, <1>6, <1>7, LockedStep

\* The execution that starts is counted in the limit: it was free when the intent was
\* recorded, and only this pass takes slots.
LEMMA AttemptBound ==
    ASSUME DInv, NEW j \in Jobs, BindAttempt(j)
    PROVE  DInv'
<1>1. PICK n \in 1 .. MaxAttempts[j] :
         /\ item' = [item EXCEPT ![j] = [item[j] EXCEPT !.status = "running", !.att = n]]
         /\ exec' = [exec EXCEPT ![j] = [NoExec EXCEPT !.at = "starting", !.att = n]]
  BY DEF BindAttempt, SetItem
<1>2. /\ lock.at = "reserved" /\ lock.job = j /\ lock' = [at |-> "scan", job |-> "none"]
      /\ pass' = [pass EXCEPT !.todo = pass.todo \ {j}]
      /\ UNCHANGED <<attempt, tree, phase, live, rec, awaited>>
  BY DEF BindAttempt, Visited
<1>3. /\ j \in pass.todo /\ item[j].status = "dispatching" /\ j \notin Active
      /\ Cardinality(Active) < MaxConcurrent
  BY <1>2 DEF DInv, LockInv
<1>4. item[j].att = 0 /\ JobOK(j)
  BY <1>3 DEF DInv, JobsInv, JobOK, ItemOK
<1>5. n \in Nat /\ n # 0 /\ n <= MaxAttempts[j] /\ <<j, n>> \in Attempts
  BY AttemptNames, DispatchAssumption
<1>6. /\ item' \in [Jobs -> Item] /\ \A k \in Jobs \ {j} : item'[k] = item[k]
      /\ item'[j].att = n /\ item'[j].status = "running" /\ item'[j].retries = item[j].retries
  <2> DEFINE it == [item[j] EXCEPT !.status = "running", !.att = n]
  <2>1. item[j] \in Item /\ item \in [Jobs -> Item]
    BY DEF DInv, TypeOK
  <2>2. it \in Item /\ it.att = n /\ it.status = "running" /\ it.retries = item[j].retries
    BY <1>5, <2>1 DEF Item, QueueStatus, Ordinal
  <2>3. item' = [item EXCEPT ![j] = it]
    BY <1>1
  <2> HIDE DEF it
  <2> QED
    BY <2>1, <2>2, <2>3
<1>7. /\ exec'[j].at = "starting" /\ exec'[j].att = n /\ \A k \in Jobs \ {j} : exec'[k] = exec[k]
      /\ exec' \in [Jobs -> [at : {"off", "starting", "claimed", "waiting", "finishing", "failing"},
                             att : Ordinal, res : Terminal \cup {"none"}]]
  BY <1>1, <1>5 DEF DInv, TypeOK, NoExec, Ordinal
<1>8. /\ pass' \in [by : {"none", "loop", "submit"}, todo : SUBSET Jobs, seen : [Needed -> Item]]
      /\ pass'.todo = pass.todo \ {j} /\ pass'.seen = pass.seen
  BY <1>2 DEF DInv, TypeOK
<1>9. TypeOK'
  <2>1. \A k \in Jobs : item'[k].att <= MaxAttempts[k] /\ item'[k].retries <= MaxAutoRetries[k]
    BY <1>5, <1>6 DEF DInv, TypeOK
  <2> QED
    BY <1>2, <1>6, <1>7, <1>8, <2>1 DEF DInv, TypeOK
<1>10. AttemptsOK
  BY <1>2, Untouched
<1>11. JobOK(j)'
  <2>1. ItemOK(j)' /\ ExecOK(j)' /\ EvidenceOK(j)'
    BY <1>5, <1>6, <1>7 DEF ItemOK, ExecOK, EvidenceOK, Active
  <2>2. ASSUME NEW a \in Attempts, a[1] = j
        PROVE  /\ live[a] = "none" /\ (j \in Contained => tree[a] = "none")
               /\ attempt[a].status \in Nonterminal => attempt[a].status = "reserved"
    BY <1>3, <1>4, <2>2, AttemptNames DEF JobOK, NamedOK
  <2>3. NamedOK(j)'
    BY <1>2, <1>6, <2>2 DEF NamedOK
  <2> QED
    BY <2>1, <2>3 DEF JobOK
<1>12. JobsInv'
  BY <1>2, <1>6, <1>7, <1>10, <1>11, OneJob DEF SameHandles
<1>13. LockInv'
  BY <1>2 DEF LockInv
<1>14. PassInv'
  <2>1. \A k \in pass'.todo : k \in Jobs /\ k # j /\ item[k].status = "queued"
    BY <1>2, <1>8 DEF DInv, PassInv, TypeOK
  <2>2. \A k \in pass'.todo : item'[k].status = "queued"
    BY <1>6, <2>1
  <2> QED
    BY <1>2, <1>8, <1>10, <2>2, SeenLasts DEF PassInv
<1>15. LimitInv'
  <2>1. Active' = Active \cup {j}
    BY <1>7 DEF Active
  <2>2. IsFiniteSet(Active) /\ Cardinality(Active) \in Nat
    BY FS_CardinalityType DEF DInv, LimitInv
  <2>3. IsFiniteSet(Active \cup {j}) /\ Cardinality(Active \cup {j}) = Cardinality(Active) + 1
    BY <1>3, <2>2, FS_AddElement
  <2> QED
    BY <1>3, <2>1, <2>2, <2>3, DispatchAssumption DEF LimitInv
<1> QED
  BY <1>2, <1>9, <1>10, <1>12, <1>13, <1>14, <1>15, LockedStep

LEMMA DispatchSteps ==
    ASSUME DInv, NEW j \in Jobs, DispatchStep(j)
    PROVE  DInv'
  BY ItemPassedOver, IntentRecorded, AttemptReserved, AttemptBound, PassEnds DEF DispatchStep

-----------------------------------------------------------------------------
(* Executions and cancellations                                            *)

\* A step that takes, keeps or leaves the state lock when no pass holds it.
LEMMA OutsidePass ==
    ASSUME DInv, AttemptsOK, Serving, phase' = phase, rec' = rec, pass' = pass,
           lock.at \in {"free", "claim", "cancel"}, lock'.at \in {"free", "claim", "cancel"},
           Active' \subseteq Active, TypeOK', LockInv', JobsInv'
    PROVE  DInv'
<1>1. MemoryInv' /\ RecInv'
  BY ServingFrame DEF Serving
<1>2. PassInv'
  <2>1. pass.todo = {}
    BY DEF DInv, PassInv
  <2> QED
    BY <2>1, SeenLasts DEF PassInv
<1> QED
  BY <1>1, <1>2, LimitFrame DEF DInv, AttemptsOK

\* An execution that does not wait for its attempt moves on, or ends.
LEMMA ExecMoves ==
    ASSUME DInv, AttemptsOK, NEW j \in Jobs, NEW e, item' = item, exec' = [exec EXCEPT ![j] = e],
           exec[j].at \in {"starting", "claimed", "finishing"}, live' = live,
           e \in [at : {"off", "claimed", "failing"}, att : Ordinal, res : Terminal \cup {"none"}],
           e.at = "off" \/ e.att = exec[j].att
    PROVE  /\ JobsInv' /\ Active' \subseteq Active /\ exec'[j] = e
           /\ exec' \in [Jobs -> [at : {"off", "starting", "claimed", "waiting", "finishing", "failing"},
                                  att : Ordinal, res : Terminal \cup {"none"}]]
<1>0. /\ exec' \in [Jobs -> [at : {"off", "starting", "claimed", "waiting", "finishing", "failing"},
                             att : Ordinal, res : Terminal \cup {"none"}]]
      /\ exec'[j] = e /\ \A k \in Jobs \ {j} : exec'[k] = exec[k]
  BY DEF DInv, TypeOK
<1>1. JobOK(j) /\ j \in Active
  BY DEF DInv, JobsInv, Active
<1>2. ItemOK(j)'
  BY <1>0, <1>1 DEF JobOK, ItemOK, Active
<1>3. ExecOK(j)'
  BY <1>0, <1>1 DEF JobOK, ExecOK, Active
<1>4. NamedOK(j)'
  <2> SUFFICES ASSUME NEW a \in Attempts, a[1] = j
               PROVE  /\ live[a] = "none"
                      /\ tree'[a] # "none" /\ j \in Contained => item[j].att = a[2]
                      /\ attempt'[a].status \in Nonterminal =>
                            IF item[j].att = a[2]
                            THEN item[j].status \in {"running", "cancelling", "needs-input", "failed"}
                            ELSE attempt'[a].status = "reserved"
    BY DEF NamedOK
  <2>1. Advances(a) /\ (tree'[a] # "none" => Busy(a))
    BY DEF AttemptsOK
  <2>2. Referenced(a) <=> item[j].att = a[2]
    BY AttemptNames DEF Referenced, Bound
  <2>3. live[a] = "none"
    BY <1>1 DEF JobOK, NamedOK
  <2> QED
    BY <1>1, <2>1, <2>2, <2>3 DEF JobOK, NamedOK, Busy, Advances, Nonterminal
<1>5. EvidenceOK(j)'
  <2> SUFFICES ASSUME item[j].status = "completed"
               PROVE  /\ item[j].done = item[j].att /\ Bound(j) \in Attempts
                      /\ attempt'[Bound(j)].status = "completed" /\ attempt'[Bound(j)].eligible
    BY DEF EvidenceOK, Bound
  <2>1. /\ item[j].done = item[j].att /\ Bound(j) \in Attempts
        /\ attempt[Bound(j)].status = "completed" /\ attempt[Bound(j)].eligible
    BY <1>1 DEF JobOK, EvidenceOK
  <2>2. Final(Bound(j))
    BY <2>1 DEF AttemptsOK
  <2> QED
    BY <2>1, <2>2 DEF Final, Terminal
<1>6. JobsInv'
  BY <1>0, <1>2, <1>3, <1>4, <1>5, OneJob DEF JobOK, SameHandles
<1>7. Active' \subseteq Active
  BY <1>0, <1>1 DEF Active
<1> QED
  BY <1>0, <1>6, <1>7

\* An item is cancelled, fails or is being cancelled, and keeps its attempt.
LEMMA StatusMoves ==
    ASSUME DInv, UNCHANGED <<attempt, tree>>, NEW j \in Jobs, item[j].status # "absent",
           NEW s \in {"cancelling", "cancelled", "failed", item[j].status},
           item' = [item EXCEPT ![j] = [item[j] EXCEPT !.status = s]],
           exec' \in [Jobs -> [at : {"off", "starting", "claimed", "waiting", "finishing", "failing"},
                               att : Ordinal, res : Terminal \cup {"none"}]],
           exec'[j] = exec[j] \/ exec'[j].at = "off",
           \A k \in Jobs \ {j} : exec'[k] = exec[k],
           live' = live,
           s = "cancelling" => item[j].att # 0,
           (s = "cancelling" /\ exec' = exec) \/ \A a \in Attempts : a[1] = j => live[a] = "none",
           s = "cancelled" => \A a \in Attempts : a[1] = j /\ a[2] = item[j].att => attempt[a].status \notin Nonterminal
    PROVE  /\ JobsInv' /\ Active' \subseteq Active
           /\ item' \in [Jobs -> Item]
           /\ \A k \in Jobs : item'[k].att <= MaxAttempts[k] /\ item'[k].retries <= MaxAutoRetries[k]
           /\ item'[j].status = s /\ \A k \in Jobs \ {j} : item'[k] = item[k]
<1> DEFINE it == [item[j] EXCEPT !.status = s]
<1>1. item[j] \in Item /\ item \in [Jobs -> Item]
  BY DEF DInv, TypeOK
<1>2. /\ it \in Item /\ it.att = item[j].att /\ it.done = item[j].done /\ it.status = s
      /\ it.retries = item[j].retries
  BY <1>1 DEF Item, QueueStatus
<1>3. item' = [item EXCEPT ![j] = it]
  OBVIOUS
<1> HIDE DEF it
<1>4. item' \in [Jobs -> Item] /\ item'[j] = it /\ \A k \in Jobs \ {j} : item'[k] = item[k]
  BY <1>1, <1>2, <1>3
<1>5. \A k \in Jobs : item'[k].att <= MaxAttempts[k] /\ item'[k].retries <= MaxAutoRetries[k]
  BY <1>2, <1>4 DEF DInv, TypeOK
<1>6. JobOK(j) /\ AttemptsOK
  BY Untouched DEF DInv, JobsInv
<1>7. Active' \subseteq Active
  BY DEF Active
<1>8. ItemOK(j)'
  BY <1>2, <1>4, <1>6, <1>7 DEF JobOK, ItemOK, Active
<1>9. ExecOK(j)'
  BY <1>6 DEF JobOK, ExecOK, Active
<1>10. NamedOK(j)'
  <2>1. CASE s = "cancelling" /\ exec' = exec
    BY <1>2, <1>4, <1>6, <2>1 DEF JobOK, NamedOK
  <2>2. CASE \A a \in Attempts : a[1] = j => live[a] = "none"
    BY <1>2, <1>4, <1>6, <2>2 DEF JobOK, NamedOK
  <2> QED
    BY <2>1, <2>2
<1>11. EvidenceOK(j)'
  BY <1>2, <1>4, <1>6 DEF JobOK, EvidenceOK, Bound
<1>12. JobsInv'
  BY <1>4, <1>6, <1>8, <1>9, <1>10, <1>11, OneJob DEF JobOK, SameHandles
<1> QED
  BY <1>2, <1>4, <1>5, <1>7, <1>12

LEMMA AttemptClaimed ==
    ASSUME DInv, NEW j \in Jobs, ClaimAttempt(j)
    PROVE  DInv'
<1> DEFINE e == [exec[j] EXCEPT !.at = "claimed"]
<1>0. /\ exec[j].at = "starting" /\ lock.at = "free" /\ item[j].status = "running"
      /\ exec' = [exec EXCEPT ![j] = e] /\ lock' = [at |-> "claim", job |-> j]
      /\ UNCHANGED <<item, tree, phase, live, pass, rec, awaited>>
  BY DEF ClaimAttempt
<1>1. AttemptsOK
  BY ReservedAttempts
<1>2. /\ e \in [at : {"off", "claimed", "failing"}, att : Ordinal, res : Terminal \cup {"none"}]
      /\ e.att = exec[j].att /\ e.at = "claimed"
  BY DEF DInv, TypeOK
<1> HIDE DEF e
<1>3. /\ JobsInv' /\ Active' \subseteq Active /\ exec'[j] = e
      /\ exec' \in [Jobs -> [at : {"off", "starting", "claimed", "waiting", "finishing", "failing"},
                             att : Ordinal, res : Terminal \cup {"none"}]]
  BY <1>0, <1>1, <1>2, ExecMoves
<1>4. Serving
  BY <1>0 DEF DInv, MemoryInv, Serving, TypeOK
<1>5. TypeOK'
  BY <1>0, <1>1, <1>3 DEF AttemptsOK, DInv, TypeOK
<1>6. LockInv'
  BY <1>0, <1>2, <1>3 DEF LockInv
<1> QED
  BY <1>0, <1>1, <1>3, <1>4, <1>5, <1>6, OutsidePass

LEMMA ExecutionFails ==
    ASSUME DInv, NEW j \in Jobs, AbandonStart(j) \/ ClaimFails(j) \/ LaunchFails(j)
    PROVE  DInv'
<1>0. /\ exec[j].at \in {"starting", "claimed"} /\ lock.at \in {"free", "claim"}
      /\ lock'.at = "free" /\ lock' \in {lock, Free}
      /\ UNCHANGED <<item, attempt, tree, phase, live, pass, rec, awaited>>
  BY DEF AbandonStart, ClaimFails, LaunchFails, durable, DInv, LockInv, Free
<1>1. PICK e \in {NoExec, [exec[j] EXCEPT !.at = "failing"]} : exec' = [exec EXCEPT ![j] = e]
  BY DEF AbandonStart, ClaimFails, LaunchFails
<1>2. AttemptsOK
  BY <1>0, Untouched
<1>3. /\ e \in [at : {"off", "claimed", "failing"}, att : Ordinal, res : Terminal \cup {"none"}]
      /\ e.at = "off" \/ e.att = exec[j].att
  BY DEF DInv, TypeOK, NoExec, Ordinal
<1>4. /\ JobsInv' /\ Active' \subseteq Active
      /\ exec' \in [Jobs -> [at : {"off", "starting", "claimed", "waiting", "finishing", "failing"},
                             att : Ordinal, res : Terminal \cup {"none"}]]
  BY <1>0, <1>1, <1>2, <1>3, ExecMoves
<1>5. Serving
  BY <1>0 DEF DInv, MemoryInv, Serving, TypeOK
<1>6. TypeOK'
  BY <1>0, <1>4 DEF DInv, TypeOK, Free
<1>7. LockInv'
  BY <1>0 DEF LockInv
<1> QED
  BY <1>0, <1>2, <1>4, <1>5, <1>6, <1>7, OutsidePass

\* The handle that a launch registers is the job's only one.
LEMMA AttemptLaunched ==
    ASSUME DInv, NEW j \in Jobs, LaunchAttempt(j)
    PROVE  DInv'
<1> DEFINE a == Bound(j)
           e == [exec[j] EXCEPT !.at = "waiting"]
<1>0. /\ lock.at = "claim" /\ lock.job = j /\ lock' = Free
      /\ live' = [live EXCEPT ![a] = "running"] /\ exec' = [exec EXCEPT ![j] = e]
      /\ UNCHANGED <<item, attempt, tree, phase, pass, rec, awaited>>
  BY DEF LaunchAttempt, durable
<1>1. item[j].status = "running" /\ exec[j].at = "claimed" /\ j \in Active
  BY <1>0 DEF DInv, LockInv, Active
<1>2. JobOK(j)
  BY DEF DInv, JobsInv
<1>3. item[j].att # 0 /\ item[j].att = exec[j].att
  BY <1>1, <1>2 DEF JobOK, ItemOK
<1>4. a \in Attempts /\ a[1] = j /\ a[2] = item[j].att /\ a = <<j, exec[j].att>>
  BY <1>3, NamedAttempt DEF Bound
<1> HIDE DEF a
<1>5. /\ live' \in [Attempts -> {"none", "running", "aborted"}] /\ live'[a] = "running"
      /\ \A b \in Attempts \ {a} : live'[b] = live[b]
  BY <1>0, <1>4 DEF DInv, TypeOK
<1>6. /\ exec' \in [Jobs -> [at : {"off", "starting", "claimed", "waiting", "finishing", "failing"},
                             att : Ordinal, res : Terminal \cup {"none"}]]
      /\ exec'[j].at = "waiting" /\ exec'[j].att = exec[j].att /\ \A k \in Jobs \ {j} : exec'[k] = exec[k]
  <2>1. exec \in [Jobs -> [at : {"off", "starting", "claimed", "waiting", "finishing", "failing"},
                           att : Ordinal, res : Terminal \cup {"none"}]]
    BY DEF DInv, TypeOK
  <2>2. exec' = [exec EXCEPT ![j] = e]
    BY <1>0
  <2>3. /\ e \in [at : {"off", "starting", "claimed", "waiting", "finishing", "failing"},
                  att : Ordinal, res : Terminal \cup {"none"}]
        /\ e.at = "waiting" /\ e.att = exec[j].att
    BY <2>1
  <2> HIDE DEF e
  <2> QED
    BY <2>1, <2>2, <2>3
<1>7. TypeOK'
  BY <1>0, <1>5, <1>6 DEF DInv, TypeOK, Free
<1>8. AttemptsOK
  BY <1>0, Untouched
<1>9. ItemOK(j)' /\ EvidenceOK(j)'
  BY <1>0, <1>1, <1>3, <1>6 DEF ItemOK, EvidenceOK, Active
<1>10. ExecOK(j)'
  BY <1>4, <1>5, <1>6 DEF ExecOK
<1>11. NamedOK(j)'
  <2>1. ASSUME NEW b \in Attempts, b[1] = j, b # a PROVE live'[b] = "none"
    BY <1>1, <1>2, <1>5, <2>1 DEF JobOK, NamedOK
  <2> QED
    BY <1>0, <1>1, <1>2, <1>3, <1>4, <1>6, <2>1 DEF JobOK, NamedOK
<1>12. \A k \in Jobs \ {j} : SameHandles(k)
  BY <1>4, <1>5 DEF SameHandles
<1>13. JobsInv'
  BY <1>0, <1>6, <1>8, <1>9, <1>10, <1>11, <1>12, OneJob DEF JobOK
<1>14. Active' \subseteq Active
  BY <1>1, <1>6 DEF Active
<1>15. Serving
  BY <1>0 DEF DInv, MemoryInv, Serving, TypeOK, Free
<1>16. LockInv'
  BY <1>0 DEF LockInv, Free
<1> QED
  BY <1>0, <1>7, <1>8, <1>13, <1>14, <1>15, <1>16, OutsidePass DEF Free

\* A status that the table allows and that is the outcome of an attempt is terminal.
LEMMA LegalOutcome ==
    ASSUME NEW s \in QueueStatus, NEW r \in Terminal \cup {"none"}, r \in allowedQueueTransitions[s]
    PROVE  r \in Terminal
  BY DEF QueueStatus, Terminal, allowedQueueTransitions

\* finishItem: the item names the attempt whose outcome it takes over, also when it
\* named none because it was retried meanwhile.
LEMMA ItemFinished ==
    ASSUME DInv, NEW j \in Jobs, FinishItem(j)
    PROVE  DInv'
<1> DEFINE r == exec[j].res
           n == exec[j].att
           a == <<j, n>>
           it == Completed(item[j], n, r)
<1>0. /\ exec[j].at = "finishing" /\ lock.at = "free" /\ j \in Active
      /\ UNCHANGED <<attempt, tree, phase, live, lock, pass, rec, awaited>>
  BY DEF FinishItem, Active
<1>1. \/ item' = item /\ exec' = [exec EXCEPT ![j] = [exec[j] EXCEPT !.at = "failing"]]
      \/ /\ it.status \in allowedQueueTransitions[item[j].status]
         /\ item' = [item EXCEPT ![j] = it] /\ exec' = [exec EXCEPT ![j] = NoExec]
  BY DEF FinishItem, SetItem
<1>2. JobOK(j) /\ item[j] \in Item /\ item \in [Jobs -> Item] /\ n \in Ordinal /\ r \in Terminal \cup {"none"}
  BY DEF DInv, JobsInv, TypeOK
<1>3. AttemptsOK
  BY <1>0, Untouched
<1>4. Serving
  BY <1>0 DEF DInv, MemoryInv, Serving, TypeOK
<1>5. LockInv'
  BY <1>0 DEF LockInv
<1>6. CASE item' = item /\ exec' = [exec EXCEPT ![j] = [exec[j] EXCEPT !.at = "failing"]]
  <2> DEFINE e == [exec[j] EXCEPT !.at = "failing"]
  <2>1. /\ e \in [at : {"off", "claimed", "failing"}, att : Ordinal, res : Terminal \cup {"none"}]
        /\ e.att = exec[j].att
    BY DEF DInv, TypeOK
  <2>2. exec' = [exec EXCEPT ![j] = e]
    BY <1>6
  <2> HIDE DEF e
  <2>3. /\ JobsInv' /\ Active' \subseteq Active
        /\ exec' \in [Jobs -> [at : {"off", "starting", "claimed", "waiting", "finishing", "failing"},
                               att : Ordinal, res : Terminal \cup {"none"}]]
    BY <1>0, <1>3, <1>6, <2>1, <2>2, ExecMoves
  <2>4. TypeOK'
    BY <1>0, <1>6, <2>3 DEF DInv, TypeOK
  <2> QED
    BY <1>0, <1>3, <1>4, <1>5, <2>3, <2>4, OutsidePass
<1>7. CASE /\ it.status \in allowedQueueTransitions[item[j].status]
           /\ item' = [item EXCEPT ![j] = it] /\ exec' = [exec EXCEPT ![j] = NoExec]
  <2>1. /\ a \in Attempts /\ a[1] = j /\ a[2] = n /\ attempt[a].status \in Terminal
        /\ r = "completed" => attempt[a].status = "completed" /\ attempt[a].eligible
    BY <1>0, <1>2 DEF JobOK, ExecOK
  <2>2. it.status = r /\ it.att = n /\ it.done = n /\ it.retries = item[j].retries
    BY <1>2 DEF Completed, Item
  <2>3. item[j].status \in QueueStatus
    BY <1>0, <1>2 DEF JobOK, ItemOK, Item
  <2>4. r \in Terminal
    BY <1>2, <1>7, <2>2, <2>3, LegalOutcome
  <2>5. it \in Item /\ n <= MaxAttempts[j] /\ n # 0
    <3>1. n \in 1 .. MaxAttempts[j] /\ MaxAttempts[j] \in Nat
      BY <2>1, AttemptNames, DispatchAssumption
    <3>2. r \in QueueStatus
      BY <2>4 DEF Terminal, QueueStatus
    <3>3. it = [item[j] EXCEPT !.status = r, !.att = n, !.done = n]
      BY DEF Completed
    <3>4. it \in Item
      BY <1>2, <3>2, <3>3 DEF Item
    <3> QED
      BY <3>1, <3>4
  <2> HIDE DEF it
  <2>6. item' \in [Jobs -> Item] /\ item'[j] = it /\ \A k \in Jobs \ {j} : item'[k] = item[k]
    BY <1>2, <1>7, <2>5
  <2>7. /\ exec' \in [Jobs -> [at : {"off", "starting", "claimed", "waiting", "finishing", "failing"},
                               att : Ordinal, res : Terminal \cup {"none"}]]
        /\ exec'[j].at = "off" /\ \A k \in Jobs \ {j} : exec'[k] = exec[k]
    BY <1>7 DEF DInv, TypeOK, NoExec, Ordinal
  <2>8. TypeOK'
    <3>1. \A k \in Jobs : item'[k].att <= MaxAttempts[k] /\ item'[k].retries <= MaxAutoRetries[k]
      BY <2>2, <2>5, <2>6 DEF DInv, TypeOK
    <3> QED
      BY <1>0, <2>6, <2>7, <3>1 DEF DInv, TypeOK
  <2>9. ItemOK(j)' /\ ExecOK(j)'
    BY <2>2, <2>4, <2>6, <2>7 DEF ItemOK, ExecOK, Active, Terminal
  <2>10. NamedOK(j)'
    <3> SUFFICES ASSUME NEW b \in Attempts, b[1] = j
                 PROVE  /\ live[b] = "none"
                        /\ tree[b] # "none" /\ j \in Contained => n = b[2]
                        /\ attempt[b].status \in Nonterminal => n # b[2] /\ attempt[b].status = "reserved"
      BY <1>0, <2>2, <2>6 DEF NamedOK
    <3>1. b = <<j, b[2]>> /\ b[2] # 0
      BY AttemptNames, DispatchAssumption
    <3>2. live[b] = "none"
      BY <1>0, <1>2 DEF JobOK, NamedOK
    <3>3. item[j].att = b[2] => n = b[2]
      BY <1>0, <1>2, <3>1 DEF JobOK, ItemOK
    <3>4. attempt[b].status \in Nonterminal => n # b[2]
      BY <2>1, <3>1 DEF Nonterminal
    <3> QED
      BY <1>2, <3>2, <3>3, <3>4 DEF JobOK, NamedOK
  <2>11. EvidenceOK(j)'
    BY <1>0, <2>1, <2>2, <2>6 DEF EvidenceOK, Bound
  <2>12. JobsInv'
    BY <1>0, <1>3, <2>6, <2>7, <2>9, <2>10, <2>11, OneJob DEF JobOK, SameHandles
  <2>13. Active' \subseteq Active
    BY <2>7 DEF Active
  <2> QED
    BY <1>0, <1>3, <1>4, <1>5, <2>8, <2>12, <2>13, OutsidePass
<1> QED
  BY <1>1, <1>6, <1>7

LEMMA ItemFailed ==
    ASSUME DInv, NEW j \in Jobs, FailItem(j) \/ FailItemFails(j)
    PROVE  DInv'
<1>0. /\ exec[j].at = "failing" /\ lock.at = "free" /\ j \in Active /\ exec' = [exec EXCEPT ![j] = NoExec]
      /\ UNCHANGED <<attempt, tree, phase, live, lock, pass, rec, awaited>>
  BY DEF FailItem, FailItemFails, Active, durable
<1>1. JobOK(j) /\ item[j] \in Item /\ item \in [Jobs -> Item]
  BY DEF DInv, JobsInv, TypeOK
<1>2. item[j].status # "absent"
  BY <1>0, <1>1 DEF JobOK, ItemOK
<1>3. PICK s \in {"failed", item[j].status} : item' = [item EXCEPT ![j] = [item[j] EXCEPT !.status = s]]
  <2>1. item[j] = [item[j] EXCEPT !.status = item[j].status]
    BY <1>1 DEF Item
  <2>2. item = [item EXCEPT ![j] = item[j]]
    BY <1>1
  <2> QED
    BY <2>1, <2>2 DEF FailItem, FailItemFails, SetItem, durable
<1>4. /\ exec' \in [Jobs -> [at : {"off", "starting", "claimed", "waiting", "finishing", "failing"},
                             att : Ordinal, res : Terminal \cup {"none"}]]
      /\ exec'[j].at = "off" /\ \A k \in Jobs \ {j} : exec'[k] = exec[k]
  BY <1>0 DEF DInv, TypeOK, NoExec, Ordinal
<1>5. \A a \in Attempts : a[1] = j => live[a] = "none"
  BY <1>0, <1>1 DEF JobOK, NamedOK
<1>6. s = "cancelling" => item[j].att # 0
  BY <1>1, <1>3 DEF JobOK, ItemOK
<1>7. s = "cancelled" => \A a \in Attempts : a[1] = j /\ a[2] = item[j].att => attempt[a].status \notin Nonterminal
  BY <1>1, <1>3 DEF JobOK, NamedOK
<1>8. /\ JobsInv' /\ Active' \subseteq Active
      /\ item' \in [Jobs -> Item]
      /\ \A k \in Jobs : item'[k].att <= MaxAttempts[k] /\ item'[k].retries <= MaxAutoRetries[k]
  BY <1>0, <1>2, <1>3, <1>4, <1>5, <1>6, <1>7, StatusMoves
<1>9. TypeOK'
  BY <1>0, <1>4, <1>8 DEF DInv, TypeOK
<1>10. Serving /\ AttemptsOK
  BY <1>0, Untouched DEF DInv, MemoryInv, Serving, TypeOK
<1>11. LockInv'
  BY <1>0 DEF LockInv
<1> QED
  BY <1>0, <1>8, <1>9, <1>10, <1>11, OutsidePass

LEMMA ExecuteSteps ==
    ASSUME DInv, NEW j \in Jobs, ExecuteStep(j)
    PROVE  DInv'
  BY AttemptClaimed, ExecutionFails, AttemptLaunched, AttemptAwaited, ItemFinished, ItemFailed DEF ExecuteStep

LEMMA CancelSteps ==
    ASSUME DInv, NEW j \in Jobs, CancelStep(j)
    PROVE  DInv'
<1> DEFINE a == Bound(j)
<1>0. lock.at = "cancel" /\ lock.job = j /\ UNCHANGED <<tree, phase, exec, pass, rec, awaited>>
  BY DEF CancelStep, CancelSignal, CancelReserved, CancelConclude, CancelPending, CancelFails,
         Cancelling, durable, memory
<1>1. item[j].status = "cancelling" /\ JobOK(j)
  BY <1>0 DEF DInv, LockInv, JobsInv
<1>2. item[j].att # 0
  BY <1>1 DEF JobOK, ItemOK
<1>3. a \in Attempts /\ a[1] = j /\ a[2] = item[j].att
  BY <1>2, NamedAttempt
<1>4. Serving /\ Active' \subseteq Active
  BY <1>0 DEF DInv, MemoryInv, Serving, TypeOK, Free, Active
<1>5. CASE CancelSignal(j)
  <2>0. live[a] # "none" /\ live' = [live EXCEPT ![a] = "aborted"] /\ lock' = Free /\ UNCHANGED <<item, attempt>>
    BY <1>5 DEF CancelSignal, durable
  <2> HIDE DEF a
  <2>1. /\ live' \in [Attempts -> {"none", "running", "aborted"}] /\ live'[a] = "aborted"
        /\ \A b \in Attempts \ {a} : live'[b] = live[b]
    BY <1>3, <2>0 DEF DInv, TypeOK
  <2>2. AttemptsOK /\ TypeOK' /\ \A k \in Jobs : SameHandles(k)
    BY <1>0, <2>0, <2>1, Untouched DEF DInv, TypeOK, Free, SameHandles
  <2>3. JobsInv' /\ LockInv'
    BY <1>0, <2>0, <2>2, SameJobs DEF LockInv, Free
  <2> QED
    BY <1>0, <1>4, <2>0, <2>2, <2>3, OutsidePass DEF Free
<1>6. CASE CancelReserved(j)
  <2>0. UNCHANGED <<item, live, lock>>
    BY <1>6 DEF CancelReserved, memory
  <2>1. AttemptsOK
    BY <1>6, ReservedAttempts
  <2>2. TypeOK'
    BY <1>0, <2>0, <2>1 DEF AttemptsOK, DInv, TypeOK
  <2>3. JobsInv' /\ LockInv'
    BY <1>0, <2>0, <2>1, SameJobs, LockFrame DEF SameHandles
  <2> QED
    BY <1>0, <1>4, <2>0, <2>1, <2>2, <2>3, OutsidePass
<1>7. CASE CancelConclude(j)
  <2>0. /\ live[a] = "none" /\ attempt[a].status \in Terminal /\ UNCHANGED <<attempt, live>> /\ lock' = Free
        /\ item' = [item EXCEPT ![j] = [item[j] EXCEPT !.status = "cancelled"]]
    BY <1>7 DEF CancelConclude, SetItem
  <2>1. \A b \in Attempts : b[1] = j /\ b[2] = item[j].att => b = a
    BY <1>3, AttemptNames
  <2>2. \A b \in Attempts : b[1] = j => live[b] = "none"
    BY <1>1, <2>0, <2>1 DEF JobOK, NamedOK
  <2>3. \A b \in Attempts : b[1] = j /\ b[2] = item[j].att => attempt[b].status \notin Nonterminal
    BY <2>0, <2>1 DEF Nonterminal
  <2>4. /\ exec' \in [Jobs -> [at : {"off", "starting", "claimed", "waiting", "finishing", "failing"},
                               att : Ordinal, res : Terminal \cup {"none"}]]
        /\ exec' = exec
    BY <1>0 DEF DInv, TypeOK
  <2>5. /\ JobsInv' /\ item' \in [Jobs -> Item]
        /\ \A k \in Jobs : item'[k].att <= MaxAttempts[k] /\ item'[k].retries <= MaxAutoRetries[k]
    BY <1>0, <1>1, <2>0, <2>2, <2>3, <2>4, StatusMoves
  <2>6. TypeOK'
    BY <1>0, <2>0, <2>5 DEF DInv, TypeOK, Free
  <2>7. LockInv' /\ AttemptsOK
    BY <1>0, <2>0, Untouched DEF LockInv, Free
  <2> QED
    BY <1>0, <1>4, <2>0, <2>5, <2>6, <2>7, OutsidePass DEF Free
<1>8. CASE CancelPending(j) \/ CancelFails(j)
  <2>0. UNCHANGED <<item, attempt, live>> /\ lock' = Free
    BY <1>8 DEF CancelPending, CancelFails, durable
  <2>1. AttemptsOK /\ TypeOK'
    BY <1>0, <2>0, Untouched DEF DInv, TypeOK, Free
  <2>2. JobsInv' /\ LockInv'
    BY <1>0, <2>0, <2>1, SameJobs DEF SameHandles, LockInv, Free
  <2> QED
    BY <1>0, <1>4, <2>0, <2>1, <2>2, OutsidePass DEF Free
<1> QED
  BY <1>5, <1>6, <1>7, <1>8 DEF CancelStep

LEMMA CancelRequests ==
    ASSUME DInv, NEW j \in Jobs, CancelWaiting(j) \/ CancelRunning(j)
    PROVE  DInv'
<1>0. /\ Serving /\ lock.at = "free"
      /\ UNCHANGED <<attempt, tree, phase, live, exec, pass, rec, awaited>>
  BY DEF CancelWaiting, CancelRunning, memory
<1>1. JobOK(j) /\ AttemptsOK /\ Active' \subseteq Active
  BY <1>0, Untouched DEF DInv, JobsInv, Active
<1>2. exec' \in [Jobs -> [at : {"off", "starting", "claimed", "waiting", "finishing", "failing"},
                          att : Ordinal, res : Terminal \cup {"none"}]]
  BY <1>0 DEF DInv, TypeOK
<1>3. CASE CancelWaiting(j)
  <2>0. /\ item[j].status \in {"queued", "dispatching"} /\ lock' = lock
        /\ item' = [item EXCEPT ![j] = [item[j] EXCEPT !.status = "cancelled"]]
    BY <1>3 DEF CancelWaiting, SetItem, memory
  <2>1. item[j].att = 0
    BY <1>1, <2>0 DEF JobOK, ItemOK
  <2>2. \A a \in Attempts : a[1] = j => live[a] = "none"
    BY <1>1, <2>0 DEF JobOK, NamedOK
  <2>3. \A a \in Attempts : a[1] = j /\ a[2] = item[j].att => attempt[a].status \notin Nonterminal
    BY <1>1, <2>0 DEF JobOK, NamedOK
  <2>4. /\ JobsInv' /\ item' \in [Jobs -> Item]
        /\ \A k \in Jobs : item'[k].att <= MaxAttempts[k] /\ item'[k].retries <= MaxAutoRetries[k]
    BY <1>0, <1>2, <2>0, <2>2, <2>3, StatusMoves
  <2>5. TypeOK' /\ LockInv'
    BY <1>0, <2>0, <2>4 DEF DInv, TypeOK, LockInv
  <2> QED
    BY <1>0, <1>1, <2>0, <2>4, <2>5, OutsidePass
<1>4. CASE CancelRunning(j)
  <2>0. /\ item[j].status = "running" /\ lock' = [at |-> "cancel", job |-> j]
        /\ item' = [item EXCEPT ![j] = [item[j] EXCEPT !.status = "cancelling"]]
    BY <1>4 DEF CancelRunning, SetItem
  <2>1. item[j].att # 0
    BY <1>1, <2>0 DEF JobOK, ItemOK
  <2>4. /\ JobsInv' /\ item' \in [Jobs -> Item] /\ item'[j].status = "cancelling"
        /\ \A k \in Jobs : item'[k].att <= MaxAttempts[k] /\ item'[k].retries <= MaxAutoRetries[k]
    BY <1>0, <1>2, <2>0, <2>1, StatusMoves
  <2>5. TypeOK' /\ LockInv'
    BY <1>0, <2>0, <2>4 DEF DInv, TypeOK, LockInv
  <2> QED
    BY <1>0, <1>1, <2>0, <2>4, <2>5, OutsidePass
<1> QED
  BY <1>3, <1>4

\* An item is queued again: the attempt that it named has ended and, kernel containment
\* given, left nothing, so nothing of the job is at work.
LEMMA Requeued ==
    ASSUME DInv, UNCHANGED <<attempt, tree, live, exec>>, NEW j \in Jobs, NEW it \in Item,
           item' = [item EXCEPT ![j] = it], it.status = "queued", it.att = 0,
           it.retries <= MaxAutoRetries[j], item[j].status # "absent",
           \A a \in Attempts : a[1] = j =>
              /\ live[a] = "none" /\ (item[j].att = a[2] => attempt[a].status \notin Nonterminal)
              /\ item[j].att = a[2] /\ j \in Contained => tree[a] = "none"
    PROVE  /\ JobsInv' /\ item' \in [Jobs -> Item]
           /\ \A k \in Jobs : item'[k].att <= MaxAttempts[k] /\ item'[k].retries <= MaxAutoRetries[k]
           /\ item'[j] = it /\ \A k \in Jobs \ {j} : item'[k] = item[k]
<1>1. item' \in [Jobs -> Item] /\ item'[j] = it /\ \A k \in Jobs \ {j} : item'[k] = item[k]
  BY DEF DInv, TypeOK
<1>2. \A k \in Jobs : item'[k].att <= MaxAttempts[k] /\ item'[k].retries <= MaxAutoRetries[k]
  <2>1. 0 <= MaxAttempts[j]
    BY DispatchAssumption
  <2> QED
    BY <1>1, <2>1 DEF DInv, TypeOK
<1>3. JobOK(j) /\ AttemptsOK
  BY Untouched DEF DInv, JobsInv
<1>4. ItemOK(j)' /\ ExecOK(j)' /\ EvidenceOK(j)'
  BY <1>1, <1>3 DEF JobOK, ItemOK, ExecOK, EvidenceOK, Active
<1>5. NamedOK(j)'
  <2>1. \A a \in Attempts : a[2] # 0
    BY AttemptNames, DispatchAssumption
  <2> QED
    BY <1>1, <1>3, <2>1 DEF JobOK, NamedOK
<1>6. JobsInv'
  BY <1>1, <1>3, <1>4, <1>5, OneJob DEF JobOK, SameHandles
<1> QED
  BY <1>1, <1>2, <1>6

LEMMA Retried ==
    ASSUME DInv, NEW j \in Jobs, Retry(j)
    PROVE  DInv'
<1> DEFINE it == [NoItem EXCEPT !.status = "queued", !.retries = item[j].retries]
<1>0. /\ Serving /\ lock.at = "free" /\ item[j].status \in Terminal /\ item' = [item EXCEPT ![j] = it]
      /\ item[j].att # 0 => attempt[Bound(j)].status \in Terminal /\ IsSafe(attempt[Bound(j)])
      /\ UNCHANGED <<attempt, tree, phase, live, exec, lock, pass, rec, awaited>>
  BY DEF Retry, SetItem, memory
<1>1. JobOK(j) /\ AttemptsOK /\ Active' \subseteq Active
  BY <1>0, Untouched DEF DInv, JobsInv, Active
<1>2. it \in Item /\ it.status = "queued" /\ it.att = 0 /\ it.retries = item[j].retries
  BY DEF DInv, TypeOK, NoItem, Item, QueueStatus, Ordinal
<1> HIDE DEF it
<1>3. it.retries <= MaxAutoRetries[j] /\ item[j].status # "absent"
  BY <1>0, <1>2 DEF DInv, TypeOK, Terminal
<1>4. ASSUME NEW a \in Attempts, a[1] = j
      PROVE  /\ live[a] = "none" /\ (item[j].att = a[2] => attempt[a].status \notin Nonterminal)
             /\ item[j].att = a[2] /\ j \in Contained => tree[a] = "none"
  <2>1. live[a] = "none"
    BY <1>0, <1>1, <1>4 DEF JobOK, NamedOK, Terminal
  <2>2. CASE item[j].att = a[2]
    <3>1. a = Bound(j) /\ item[j].att # 0
      BY <1>4, <2>2, AttemptNames, DispatchAssumption DEF Bound
    <3>2. attempt[a] \in Attempt /\ IsSafe(attempt[a]) /\ attempt[a].status \in Terminal
      BY <1>0, <3>1 DEF DInv, TypeOK
    <3>3. ~ Unresolved(attempt[a])
      BY <3>2, SafeIsResolved
    <3> QED
      <4>1. j \in Contained => tree[a] = "none"
        BY <1>4, <3>3 DEF DInv, TreeInv
      <4> QED
        BY <2>1, <3>2, <4>1 DEF Nonterminal
  <2> QED
    BY <2>1, <2>2
<1>5. /\ JobsInv' /\ item' \in [Jobs -> Item]
      /\ \A k \in Jobs : item'[k].att <= MaxAttempts[k] /\ item'[k].retries <= MaxAutoRetries[k]
  BY <1>0, <1>2, <1>3, <1>4, Requeued
<1>6. TypeOK' /\ LockInv'
  BY <1>0, <1>5 DEF DInv, TypeOK, LockInv
<1> QED
  BY <1>0, <1>1, <1>5, <1>6, OutsidePass

-----------------------------------------------------------------------------
(* Recovery                                                                *)

\* A recovering process has no executions and nobody holds the lock.
LEMMA RecoveryFrame ==
    ASSUME DInv, AttemptsOK, rec.stage # "off", rec'.stage # "off", TypeOK', JobsInv', RecInv',
           UNCHANGED <<phase, live, exec, lock, pass, awaited>>
    PROVE  DInv'
<1>1. phase = "recovering"
  BY DEF DInv, MemoryInv
<1>2. MemoryInv'
  BY <1>1 DEF DInv, MemoryInv
<1>3. lock.at = "free"
  BY <1>1 DEF DInv, MemoryInv, Free
<1>4. LockInv' /\ PassInv'
  BY <1>3, LockFrame
<1>5. LimitInv'
  BY LimitFrame DEF Active
<1> QED
  BY <1>2, <1>4, <1>5 DEF DInv, AttemptsOK

LEMMA NothingRuns ==
    ASSUME DInv, rec.stage # "off", NEW j \in Jobs
    PROVE  exec[j].at = "off" /\ j \notin Active /\ \A a \in Attempts : live[a] = "none"
  BY DEF DInv, MemoryInv, Active

\* An item under recovery gets a status that keeps its attempt.
LEMMA RecoveredStatus ==
    ASSUME DInv, rec.stage # "off", UNCHANGED <<attempt, tree, live, exec>>, NEW j \in Jobs, NEW it \in Item,
           item' = [item EXCEPT ![j] = it], it.att = item[j].att, it.retries = item[j].retries,
           it.status \in Terminal,
           it.status = "completed" => it.done = it.att /\ Bound(j) \in Attempts
              /\ attempt[Bound(j)].status = "completed" /\ attempt[Bound(j)].eligible,
           \/ it.status = "needs-input"
           \/ \A a \in Attempts : a[1] = j /\ item[j].att = a[2] => attempt[a].status \notin Nonterminal
    PROVE  /\ JobsInv' /\ item' \in [Jobs -> Item]
           /\ \A k \in Jobs : item'[k].att <= MaxAttempts[k] /\ item'[k].retries <= MaxAutoRetries[k]
           /\ item'[j] = it /\ \A k \in Jobs \ {j} : item'[k] = item[k]
<1>1. item' \in [Jobs -> Item] /\ item'[j] = it /\ \A k \in Jobs \ {j} : item'[k] = item[k]
  BY DEF DInv, TypeOK
<1>2. \A k \in Jobs : item'[k].att <= MaxAttempts[k] /\ item'[k].retries <= MaxAutoRetries[k]
  BY <1>1 DEF DInv, TypeOK
<1>3. JobOK(j) /\ AttemptsOK
  BY Untouched DEF DInv, JobsInv
<1>4. exec[j].at = "off" /\ j \notin Active /\ \A a \in Attempts : live[a] = "none"
  BY NothingRuns
<1>5. ItemOK(j)' /\ ExecOK(j)'
  BY <1>1, <1>4 DEF ItemOK, ExecOK, Active, Terminal
<1>6. EvidenceOK(j)'
  BY <1>1 DEF EvidenceOK, Bound
<1>7. NamedOK(j)'
  BY <1>1, <1>3, <1>4 DEF JobOK, NamedOK
<1>8. JobsInv'
  BY <1>1, <1>3, <1>5, <1>6, <1>7, OneJob DEF JobOK, SameHandles
<1> QED
  BY <1>1, <1>2, <1>8

\* A dispatch intent is given up, queued again or joined to its attempt.
LEMMA IntentRecovered ==
    ASSUME DInv, NEW j \in Jobs, RecoverIntent(j)
    PROVE  DInv'
<1> DEFINE it == RecoveredIntent(j)
<1>0. /\ rec.stage = "bind" /\ rec.todo # {} /\ j = First(rec.todo)
      /\ item' = [item EXCEPT ![j] = it] /\ rec' = [rec EXCEPT !.todo = rec.todo \ {j}]
      /\ UNCHANGED <<attempt, tree, phase, live, exec, lock, pass, awaited>>
  BY DEF RecoverIntent, SetItem
<1>1. rec.todo = {k \in Jobs : item[k].status = "dispatching"} /\ rec.found = "none"
  BY <1>0 DEF DInv, RecInv
<1>2. item[j].status = "dispatching"
  BY <1>0, <1>1, FirstInSet
<1>3. JobOK(j) /\ item[j].att = 0 /\ item[j] \in Item /\ AttemptsOK
  BY <1>0, <1>2, Untouched DEF DInv, JobsInv, JobOK, ItemOK, TypeOK
<1>4. exec[j].at = "off" /\ j \notin Active /\ \A a \in Attempts : live[a] = "none"
  BY <1>0, NothingRuns
<1>5. /\ it \in Item /\ it.retries = item[j].retries /\ it.status \in {"needs-input", "queued", "running"}
      /\ it.att = 0 \/ (it.att \in 1 .. MaxAttempts[j])
      /\ it.status = "running" <=> it.att # 0
  <2>1. CASE item[j].op = 0 \/ Cardinality(Matching(j)) > 1
    <3>0. ~ (item[j].op # 0 /\ Matching(j) = {})
      BY <2>1, FS_EmptySet
    <3>1. it = [item[j] EXCEPT !.status = "needs-input"]
      BY <2>1, <3>0 DEF RecoveredIntent
    <3> QED
      BY <1>3, <3>1 DEF Item, QueueStatus
  <2>2. CASE item[j].op # 0 /\ Matching(j) = {} /\ ~ (Cardinality(Matching(j)) > 1)
    <3>1. it = [item[j] EXCEPT !.status = "queued", !.op = 0, !.att = 0]
      BY <2>2 DEF RecoveredIntent
    <3> QED
      BY <1>3, <3>1 DEF Item, QueueStatus, Ordinal
  <2>3. CASE item[j].op # 0 /\ Matching(j) # {} /\ ~ (Cardinality(Matching(j)) > 1)
    <3>1. it = [item[j] EXCEPT !.status = "running", !.att = (CHOOSE a \in Matching(j) : TRUE)[2]]
      BY <2>3 DEF RecoveredIntent
    <3>2. PICK a \in Matching(j) : a = CHOOSE b \in Matching(j) : TRUE
      BY <2>3
    <3>3. a[2] \in 1 .. MaxAttempts[j]
      BY AttemptNames DEF Matching
    <3>4. a[2] \in Ordinal /\ a[2] # 0
      BY <3>3, DispatchAssumption DEF Ordinal
    <3>5. it = [item[j] EXCEPT !.status = "running", !.att = a[2]]
      BY <3>1, <3>2
    <3> HIDE DEF it
    <3> QED
      BY <1>3, <3>3, <3>4, <3>5 DEF Item, QueueStatus
  <2> QED
    BY <2>1, <2>2, <2>3
<1> HIDE DEF it
<1>6. item' \in [Jobs -> Item] /\ item'[j] = it /\ \A k \in Jobs \ {j} : item'[k] = item[k]
  BY <1>0, <1>5 DEF DInv, TypeOK
<1>7. /\ rec'.stage = "bind" /\ rec'.todo = rec.todo \ {j} /\ rec'.found = "none"
      /\ rec' \in [stage : {"off", "bind", "settle", "sweep"}, todo : SUBSET Jobs,
                   sweep : SUBSET Attempts, found : Found]
  BY <1>0, <1>1 DEF DInv, TypeOK
<1>8. TypeOK'
  <2>1. it.att <= MaxAttempts[j]
    BY <1>5, DispatchAssumption
  <2>2. \A k \in Jobs : item'[k].att <= MaxAttempts[k] /\ item'[k].retries <= MaxAutoRetries[k]
    BY <1>5, <1>6, <2>1 DEF DInv, TypeOK
  <2> QED
    BY <1>0, <1>6, <1>7, <2>2 DEF DInv, TypeOK
<1>9. ItemOK(j)' /\ ExecOK(j)' /\ EvidenceOK(j)'
  BY <1>0, <1>4, <1>5, <1>6 DEF ItemOK, ExecOK, EvidenceOK, Active
<1>10. NamedOK(j)'
  <2>1. ASSUME NEW a \in Attempts, a[1] = j
        PROVE  /\ j \in Contained => tree[a] = "none"
               /\ attempt[a].status \in Nonterminal => attempt[a].status = "reserved"
    <3>1. a[2] # 0
      BY AttemptNames, DispatchAssumption
    <3> QED
      BY <1>3, <2>1, <3>1 DEF JobOK, NamedOK
  <2>2. \A a \in Attempts : a[2] # 0
    BY AttemptNames, DispatchAssumption
  <2> QED
    BY <1>0, <1>4, <1>5, <1>6, <2>1, <2>2 DEF NamedOK
<1>11. JobsInv'
  BY <1>0, <1>3, <1>6, <1>9, <1>10, OneJob DEF JobOK, SameHandles
<1>12. RecInv'
  <2>1. rec'.todo = {k \in Jobs : item'[k].status = "dispatching"}
    BY <1>1, <1>5, <1>6, <1>7
  <2> QED
    BY <1>7, <2>1 DEF RecInv
<1> QED
  BY <1>0, <1>3, <1>7, <1>8, <1>11, <1>12, RecoveryFrame

\* The item that is being settled, and what recovery has found out about it.
LEMMA SettledItem ==
    ASSUME DInv, NEW j \in Jobs, Settling(j)
    PROVE  /\ rec.todo = {k \in Jobs : item[k].status \in {"running", "cancelling"}} /\ j \in rec.todo
           /\ item[j].status \in {"running", "cancelling"} /\ item[j].att # 0 /\ Bound(j) \in Attempts
           /\ \A a \in Attempts : a[1] = j /\ item[j].att = a[2] => a = Bound(j)
           /\ rec.found \in {"closing", "safe-to-retry"} => attempt[Bound(j)].status \in Terminal
           /\ rec.found = "safe-to-retry" /\ j \in Contained => tree[Bound(j)] = "none"
<1>1. rec.stage = "settle" /\ rec.todo # {} /\ j = First(rec.todo)
  BY DEF Settling
<1>2. rec.todo = {k \in Jobs : item[k].status \in {"running", "cancelling"}}
  BY <1>1 DEF DInv, RecInv
<1>3. j \in rec.todo
  BY <1>1, <1>2, FirstInSet
<1>4. item[j].status \in {"running", "cancelling"}
  BY <1>2, <1>3
<1>5. item[j].att # 0
  BY <1>4 DEF DInv, JobsInv, JobOK, ItemOK
<1>6. Bound(j) \in Attempts
  BY <1>5, NamedAttempt
<1> QED
  BY <1>1, <1>2, <1>3, <1>4, <1>5, <1>6, AttemptNames DEF DInv, RecInv, Bound

\* An item has been settled: the rest of the list waits.
LEMMA SettlingGoesOn ==
    ASSUME DInv, NEW j \in Jobs, Settling(j), rec' = [rec EXCEPT !.todo = rec.todo \ {j}, !.found = "none"],
           item' \in [Jobs -> Item], \A k \in Jobs \ {j} : item'[k] = item[k],
           item'[j].status \notin {"running", "cancelling", "dispatching"}
    PROVE  /\ RecInv' /\ rec'.stage = "settle"
           /\ rec' \in [stage : {"off", "bind", "settle", "sweep"}, todo : SUBSET Jobs,
                        sweep : SUBSET Attempts, found : Found]
<1>1. rec.stage = "settle" /\ rec.todo = {k \in Jobs : item[k].status \in {"running", "cancelling"}}
  BY SettledItem DEF Settling
<1>2. /\ rec'.stage = "settle" /\ rec'.todo = rec.todo \ {j} /\ rec'.found = "none"
      /\ rec' \in [stage : {"off", "bind", "settle", "sweep"}, todo : SUBSET Jobs,
                   sweep : SUBSET Attempts, found : Found]
  BY <1>1 DEF DInv, TypeOK, Found
<1>3. rec'.todo = {k \in Jobs : item'[k].status \in {"running", "cancelling"}}
  BY <1>1, <1>2
<1>4. \A k \in Jobs : item'[k].status # "dispatching"
  BY <1>1 DEF DInv, RecInv
<1> QED
  BY <1>2, <1>3, <1>4 DEF RecInv

LEMMA FinishRecovered ==
    ASSUME DInv, NEW j \in Jobs, RecoverFinish(j)
    PROVE  DInv'
<1> DEFINE a == Bound(j)
           r == Outcome(a)
           it == Completed(item[j], item[j].att, r)
<1>0. /\ Settling(j) /\ rec.found = "none" /\ attempt[a].status \in Terminal
      /\ item' = [item EXCEPT ![j] = it] /\ rec' = [rec EXCEPT !.todo = rec.todo \ {j}]
      /\ UNCHANGED <<attempt, tree, phase, live, exec, lock, pass, awaited>>
  <2>1. Settling(j)
    BY DEF RecoverFinish
  <2>2. item[j].att # 0
    BY <2>1, SettledItem
  <2> QED
    BY <2>2 DEF RecoverFinish, SetItem
<1>1. /\ rec.stage = "settle" /\ a \in Attempts
      /\ \A b \in Attempts : b[1] = j /\ item[j].att = b[2] => b = a
  BY <1>0, SettledItem DEF Settling
<1>2. r \in Terminal /\ (r = "completed" => attempt[a].status = "completed" /\ attempt[a].eligible)
  BY <1>1, OutcomeIsTerminal
<1>3. item[j] \in Item
  BY DEF DInv, TypeOK
<1> HIDE DEF r
<1>4. /\ it \in Item /\ it.att = item[j].att /\ it.done = item[j].att /\ it.status = r
      /\ it.retries = item[j].retries
  <2>1. r \in QueueStatus
    BY <1>2 DEF Terminal, QueueStatus
  <2> QED
    BY <1>3, <2>1 DEF Completed, Item
<1> HIDE DEF it
<1>5. \A b \in Attempts : b[1] = j /\ item[j].att = b[2] => attempt[b].status \notin Nonterminal
  BY <1>0, <1>1 DEF Nonterminal
<1>6. /\ JobsInv' /\ item' \in [Jobs -> Item]
      /\ \A k \in Jobs : item'[k].att <= MaxAttempts[k] /\ item'[k].retries <= MaxAutoRetries[k]
      /\ item'[j] = it /\ \A k \in Jobs \ {j} : item'[k] = item[k]
  BY <1>0, <1>1, <1>2, <1>4, <1>5, RecoveredStatus
<1>7. rec' = [rec EXCEPT !.todo = rec.todo \ {j}, !.found = "none"]
  BY <1>0 DEF DInv, TypeOK
<1>8. item'[j].status \notin {"running", "cancelling", "dispatching"}
  BY <1>2, <1>4, <1>6 DEF Terminal
<1>9. /\ RecInv' /\ rec'.stage = "settle"
      /\ rec' \in [stage : {"off", "bind", "settle", "sweep"}, todo : SUBSET Jobs,
                   sweep : SUBSET Attempts, found : Found]
  BY <1>0, <1>6, <1>7, <1>8, SettlingGoesOn
<1>10. TypeOK' /\ AttemptsOK
  BY <1>0, <1>6, <1>9, Untouched DEF DInv, TypeOK
<1> QED
  BY <1>0, <1>1, <1>6, <1>9, <1>10, RecoveryFrame

\* The retry budget holds, and an item is queued again only when its attempt left nothing.
LEMMA ItemRecovered ==
    ASSUME DInv, NEW j \in Jobs, RecoverItem(j)
    PROVE  DInv'
<1> DEFINE a == Bound(j)
           it == RecoveredItem(j, item[j], rec.found)
           queued == [NoItem EXCEPT !.status = "queued", !.retries = item[j].retries + 1]
<1>0. /\ Settling(j) /\ rec.stage = "settle" /\ rec.found \in Dispositions
      /\ item' = [item EXCEPT ![j] = it] /\ rec' = [rec EXCEPT !.todo = rec.todo \ {j}, !.found = "none"]
      /\ UNCHANGED <<attempt, tree, phase, live, exec, lock, pass, awaited>>
  BY DEF RecoverItem, SetItem, Settling
<1>1. /\ a \in Attempts /\ item[j].status \in {"running", "cancelling"}
      /\ \A b \in Attempts : b[1] = j /\ item[j].att = b[2] => b = a
      /\ rec.found = "safe-to-retry" => attempt[a].status \in Terminal
      /\ rec.found = "safe-to-retry" /\ j \in Contained => tree[a] = "none"
  BY <1>0, SettledItem
<1>2. item[j] \in Item /\ AttemptsOK /\ MaxAutoRetries[j] \in Nat
  BY <1>0, Untouched, DispatchAssumption DEF DInv, TypeOK
<1>3. \A b \in Attempts : live[b] = "none"
  BY <1>0, NothingRuns
<1> HIDE DEF a
<1>4. /\ JobsInv' /\ item' \in [Jobs -> Item]
      /\ \A k \in Jobs : item'[k].att <= MaxAttempts[k] /\ item'[k].retries <= MaxAutoRetries[k]
      /\ item'[j] = it /\ \A k \in Jobs \ {j} : item'[k] = item[k]
      /\ it.status \in {"needs-input", "cancelled", "queued"}
  <2>1. CASE it = [item[j] EXCEPT !.status = "needs-input"]
    <3> HIDE DEF it
    <3>1. it \in Item /\ it.att = item[j].att /\ it.retries = item[j].retries /\ it.status = "needs-input"
      BY <1>2, <2>1 DEF Item, QueueStatus
    <3> QED
      BY <1>0, <3>1, RecoveredStatus DEF Terminal
  <2>2. CASE it = [item[j] EXCEPT !.status = "cancelled", !.op = 0, !.done = 0] /\ rec.found = "safe-to-retry"
    <3> HIDE DEF it
    <3>1. it \in Item /\ it.att = item[j].att /\ it.retries = item[j].retries /\ it.status = "cancelled"
      BY <1>2, <2>2 DEF Item, QueueStatus, Ordinal
    <3>2. \A b \in Attempts : b[1] = j /\ item[j].att = b[2] => attempt[b].status \notin Nonterminal
      BY <1>1, <2>2 DEF Nonterminal
    <3> QED
      BY <1>0, <3>1, <3>2, RecoveredStatus DEF Terminal
  <2>3. CASE it = queued /\ rec.found = "safe-to-retry" /\ ~ (item[j].retries >= MaxAutoRetries[j])
    <3>1. item[j].retries \in Nat
      BY <1>2 DEF Item
    <3>2. PICK n \in Nat : n = item[j].retries + 1
      BY <3>1
    <3>3. it = [NoItem EXCEPT !.status = "queued", !.retries = n]
      BY <2>3, <3>2
    <3> HIDE DEF it
    <3>4. it \in Item /\ it.att = 0 /\ it.retries = n /\ it.status = "queued"
      BY <3>3 DEF NoItem, Item, QueueStatus, Ordinal
    <3>5. n <= MaxAutoRetries[j]
      BY <1>2, <2>3, <3>1, <3>2
    <3>6. \A b \in Attempts : b[1] = j =>
             /\ live[b] = "none" /\ (item[j].att = b[2] => attempt[b].status \notin Nonterminal)
             /\ item[j].att = b[2] /\ j \in Contained => tree[b] = "none"
      BY <1>1, <1>3, <2>3 DEF Nonterminal
    <3> QED
      BY <1>0, <1>1, <3>4, <3>5, <3>6, Requeued, ZenonT(40)
  <2>4. \/ it = [item[j] EXCEPT !.status = "needs-input"]
        \/ it = [item[j] EXCEPT !.status = "cancelled", !.op = 0, !.done = 0] /\ rec.found = "safe-to-retry"
        \/ it = queued /\ rec.found = "safe-to-retry" /\ ~ (item[j].retries >= MaxAutoRetries[j])
    BY DEF RecoveredItem
  <2> QED
    BY <2>1, <2>2, <2>3, <2>4
<1> HIDE DEF it
<1>5. /\ RecInv' /\ rec'.stage = "settle"
      /\ rec' \in [stage : {"off", "bind", "settle", "sweep"}, todo : SUBSET Jobs,
                   sweep : SUBSET Attempts, found : Found]
  BY <1>0, <1>4, SettlingGoesOn
<1>6. TypeOK'
  BY <1>0, <1>4, <1>5 DEF DInv, TypeOK
<1> QED
  BY <1>0, <1>2, <1>4, <1>5, <1>6, RecoveryFrame

LEMMA StageChanges ==
    ASSUME DInv, StartSettling \/ StartSweep \/ StartLoop
    PROVE  DInv'
<1>0. UNCHANGED <<item, attempt, tree, live, exec, lock, pass, awaited>>
  BY DEF StartSettling, StartSweep, StartLoop, durable
<1>1. AttemptsOK
  BY <1>0, Untouched
<1>2. JobsInv'
  BY <1>0, <1>1, SameJobs DEF SameHandles
<1>3. CASE StartSettling
  <2> DEFINE T == {j \in Jobs : item[j].status \in {"running", "cancelling"}}
  <2>0. rec.stage = "bind" /\ rec.todo = {} /\ rec' = [rec EXCEPT !.stage = "settle", !.todo = T] /\ phase' = phase
    BY <1>3 DEF StartSettling
  <2>1. T \in SUBSET Jobs
    OBVIOUS
  <2>2. {j \in Jobs : item[j].status = "dispatching"} = {} /\ rec.found = "none"
    BY <2>0 DEF DInv, RecInv
  <2> HIDE DEF T
  <2>3. /\ rec'.stage = "settle" /\ rec'.todo = T /\ rec'.found = "none"
        /\ rec' \in [stage : {"off", "bind", "settle", "sweep"}, todo : SUBSET Jobs,
                     sweep : SUBSET Attempts, found : Found]
    BY <2>0, <2>1, <2>2 DEF DInv, TypeOK
  <2>4. RecInv'
    <3>1. T = {j \in Jobs : item'[j].status \in {"running", "cancelling"}}
      BY <1>0 DEF T
    <3> QED
      BY <1>0, <2>2, <2>3, <3>1 DEF RecInv
  <2>5. TypeOK'
    BY <1>0, <2>0, <2>3 DEF DInv, TypeOK
  <2> QED
    BY <1>0, <1>1, <1>2, <2>0, <2>3, <2>4, <2>5, RecoveryFrame
<1>4. CASE StartSweep
  <2> DEFINE S == {a \in Attempts : attempt[a].status \in Nonterminal /\ ~ Referenced(a)}
  <2>0. rec.stage = "settle" /\ rec.todo = {} /\ rec' = [rec EXCEPT !.stage = "sweep", !.sweep = S] /\ phase' = phase
    BY <1>4 DEF StartSweep
  <2>1. S \in SUBSET Attempts
    OBVIOUS
  <2>2. /\ {j \in Jobs : item[j].status \in {"running", "cancelling"}} = {} /\ rec.found = "none"
        /\ \A j \in Jobs : item[j].status # "dispatching"
    BY <2>0 DEF DInv, RecInv
  <2> HIDE DEF S
  <2>3. /\ rec'.stage = "sweep" /\ rec'.sweep = S /\ rec'.found = "none"
        /\ rec' \in [stage : {"off", "bind", "settle", "sweep"}, todo : SUBSET Jobs,
                     sweep : SUBSET Attempts, found : Found]
    BY <2>0, <2>1, <2>2 DEF DInv, TypeOK
  <2>4. RecInv'
    <3>1. \A a \in S : ~ Referenced(a)'
      BY <1>0 DEF S, Referenced, Bound
    <3>2. \A a \in Attempts : attempt'[a].status \in Nonterminal /\ ~ Referenced(a)' => a \in S
      BY <1>0 DEF S, Referenced, Bound
    <3> QED
      BY <1>0, <2>2, <2>3, <3>1, <3>2 DEF RecInv
  <2>5. TypeOK'
    BY <1>0, <2>0, <2>3 DEF DInv, TypeOK
  <2> QED
    BY <1>0, <1>1, <1>2, <2>0, <2>3, <2>4, <2>5, RecoveryFrame
<1>5. CASE StartLoop
  <2>0. rec.stage = "sweep" /\ phase' = "looping" /\ rec' = NoRec
    BY <1>5 DEF StartLoop
  <2>1. lock.at = "free"
    BY <2>0 DEF DInv, MemoryInv, Free
  <2>2. LockInv' /\ PassInv' /\ LimitInv'
    BY <1>0, <1>1, <2>1, LockFrame, LimitFrame DEF Active
  <2>3. MemoryInv' /\ RecInv'
    BY <2>0 DEF MemoryInv, RecInv, NoRec
  <2>4. TypeOK'
    BY <1>0, <2>0 DEF DInv, TypeOK, NoRec, Found
  <2> QED
    BY <1>1, <1>2, <2>2, <2>3, <2>4 DEF DInv, AttemptsOK
<1> QED
  BY <1>3, <1>4, <1>5

\* recoverInterruptedAttempt.  Outside the queue there are only attempts that were
\* never launched: a sweep ends each of them.
LEMMA AttemptRecovered ==
    ASSUME DInv, NEW a \in Attempts, RecoverAttempt(a)
    PROVE  DInv'
<1>1. ASSUME NEW next \in Found, Recovering(a), RecoveryStep(a, rec.found, next),
             rec' = [rec EXCEPT !.found = next],
             UNCHANGED <<item, tree, phase, live, exec, lock, pass, awaited>>
      PROVE  DInv'
  <2>1. \/ rec.stage = "settle" /\ rec.todo # {} /\ a = Bound(First(rec.todo))
        \/ rec.stage = "sweep" /\ rec.sweep # {} /\ a = CHOOSE b \in rec.sweep : TRUE
    BY <1>1 DEF Recovering
  <2>2. rec.found = "closing" => attempt[a].status \in Terminal
    BY <2>1 DEF DInv, RecInv
  <2>3. /\ AttemptsOK
        /\ next \in {"closing", "safe-to-retry"} => attempt'[a].status \in Terminal
        /\ next = "safe-to-retry" /\ a[1] \in Contained => tree'[a] = "none"
        /\ \A b \in Attempts \ {a} : attempt'[b] = attempt[b]
        /\ attempt[a].status = "reserved" => next = "safe-to-retry"
        /\ rec.found # "closing" => attempt[a].status \in Nonterminal
    BY <1>1, <2>2, RecoveredAttempt
  <2>4. /\ rec'.stage = rec.stage /\ rec'.todo = rec.todo /\ rec'.sweep = rec.sweep /\ rec'.found = next
        /\ rec' \in [stage : {"off", "bind", "settle", "sweep"}, todo : SUBSET Jobs,
                     sweep : SUBSET Attempts, found : Found]
    BY <1>1 DEF DInv, TypeOK
  <2>5. JobsInv'
    BY <1>1, <2>3, SameJobs DEF SameHandles
  <2>6. TypeOK'
    BY <1>1, <2>3, <2>4 DEF AttemptsOK, DInv, TypeOK
  <2>7. RecInv'
    <3>1. CASE rec.stage = "settle"
      <4>1. a = Bound(First(rec.todo))'
        BY <1>1, <2>1, <2>4, <3>1 DEF Bound, First
      <4>2. rec.todo = {j \in Jobs : item[j].status \in {"running", "cancelling"}} /\ rec.todo # {}
        BY <2>1, <3>1 DEF DInv, RecInv
      <4>3. \A j \in Jobs : item[j].status # "dispatching"
        BY <3>1 DEF DInv, RecInv
      <4> QED
        BY <1>1, <2>3, <2>4, <3>1, <4>1, <4>2, <4>3 DEF RecInv
    <3>2. CASE rec.stage = "sweep"
      <4>1. /\ rec.sweep # {} /\ a = (CHOOSE b \in rec.sweep : TRUE) /\ rec.found # "closing"
            /\ \A b \in rec.sweep : ~ Referenced(b)
            /\ \A b \in Attempts : attempt[b].status \in Nonterminal /\ ~ Referenced(b) => b \in rec.sweep
            /\ \A j \in Jobs : item[j].status \notin {"running", "cancelling", "dispatching"}
        BY <2>1, <3>2 DEF DInv, RecInv
      <4>2. a \in rec.sweep /\ ~ Referenced(a)
        BY <4>1
      <4>3. a[1] \in Jobs /\ a = <<a[1], a[2]>>
        BY AttemptNames
      <4>4. item[a[1]].att # a[2]
        BY <4>2, <4>3 DEF Referenced, Bound
      <4>5. attempt[a].status = "reserved"
        BY <2>3, <4>1, <4>3, <4>4 DEF DInv, JobsInv, JobOK, NamedOK
      <4>6. next = "safe-to-retry" /\ attempt'[a].status \in Terminal
        BY <2>3, <4>5
      <4>7. \A b \in Attempts : Referenced(b)' <=> Referenced(b)
        BY <1>1 DEF Referenced, Bound
      <4>8. \A b \in rec.sweep : ~ Referenced(b)'
        BY <4>1, <4>7 DEF DInv, TypeOK
      <4>9. \A b \in Attempts : attempt'[b].status \in Nonterminal /\ ~ Referenced(b)' => b \in rec.sweep
        BY <2>3, <4>1, <4>2, <4>7
      <4> QED
        BY <1>1, <2>4, <3>2, <4>1, <4>6, <4>8, <4>9 DEF RecInv
    <3> QED
      BY <2>1, <3>1, <3>2
  <2> QED
    BY <1>1, <2>1, <2>3, <2>4, <2>5, <2>6, <2>7, RecoveryFrame
<1>2. CASE Swept(a)
  <2>0. /\ rec.stage = "sweep" /\ rec.found \in Dispositions /\ Recovering(a)
        /\ rec' = [rec EXCEPT !.sweep = rec.sweep \ {a}, !.found = "none"]
        /\ UNCHANGED <<item, attempt, tree, phase, live, exec, lock, pass, awaited>>
    BY <1>2 DEF Swept, durable
  <2>1. rec.sweep # {} /\ a = CHOOSE b \in rec.sweep : TRUE
    BY <2>0 DEF Recovering
  <2>2. AttemptsOK
    BY <2>0, Untouched
  <2>3. /\ rec'.stage = "sweep" /\ rec'.sweep = rec.sweep \ {a} /\ rec'.found = "none"
        /\ rec' \in [stage : {"off", "bind", "settle", "sweep"}, todo : SUBSET Jobs,
                     sweep : SUBSET Attempts, found : Found]
    BY <2>0 DEF DInv, TypeOK, Found
  <2>4. JobsInv'
    BY <2>0, <2>2, SameJobs DEF SameHandles
  <2>5. TypeOK'
    BY <2>0, <2>3 DEF DInv, TypeOK
  <2>6. RecInv'
    <3>1. /\ attempt[a].status \in Terminal
          /\ \A b \in rec.sweep : ~ Referenced(b)
          /\ \A b \in Attempts : attempt[b].status \in Nonterminal /\ ~ Referenced(b) => b \in rec.sweep
          /\ \A j \in Jobs : item[j].status \notin {"running", "cancelling", "dispatching"}
      BY <2>0, <2>1 DEF DInv, RecInv, Dispositions
    <3>2. \A b \in Attempts : Referenced(b)' <=> Referenced(b)
      BY <2>0 DEF Referenced, Bound
    <3>3. \A b \in rec.sweep : ~ Referenced(b)'
      BY <3>1, <3>2 DEF DInv, TypeOK
    <3>4. \A b \in Attempts : attempt'[b].status \in Nonterminal /\ ~ Referenced(b)' => b \in rec.sweep \ {a}
      BY <2>0, <3>1, <3>2 DEF Nonterminal
    <3> QED
      BY <2>0, <2>3, <3>1, <3>3, <3>4 DEF RecInv
  <2> QED
    BY <2>0, <2>2, <2>3, <2>4, <2>5, <2>6, RecoveryFrame
<1> QED
  BY <1>1, <1>2 DEF RecoverAttempt

-----------------------------------------------------------------------------
(* Processes                                                               *)

LEMMA TreeEnded ==
    ASSUME DInv, NEW a \in Attempts, NEW left \in {"none", "orphaned"}, TreeEnds(a, left)
    PROVE  DInv'
<1>0. tree[a] # "none" /\ tree' = [tree EXCEPT ![a] = left]
      /\ UNCHANGED <<item, attempt, phase, live, exec, lock, pass, rec, awaited>>
  BY DEF TreeEnds, durable, memory
<1>1. AttemptsOK
  BY EndedTree
<1>2. JobsInv'
  BY <1>0, <1>1, SameJobs DEF SameHandles
<1>3. TypeOK'
  BY <1>0, <1>1 DEF AttemptsOK, DInv, TypeOK
<1>4. MemoryInv' /\ LockInv' /\ PassInv' /\ LimitInv'
  BY <1>0, <1>1, LockFrame, LimitFrame DEF DInv, MemoryInv, Active
<1>5. RecInv'
  <2>1. \A b \in Attempts : tree[b] = "none" => tree'[b] = "none"
    BY <1>0 DEF DInv, TypeOK
  <2>2. ASSUME rec.stage = "settle", rec.todo # {} PROVE Bound(First(rec.todo)) \in Attempts
    <3>1. rec.todo = {k \in Jobs : item[k].status \in {"running", "cancelling"}}
      BY <2>2 DEF DInv, RecInv
    <3>2. First(rec.todo) \in Jobs
      BY <2>2, <3>1, FirstInSet
    <3>3. Settling(First(rec.todo))
      BY <2>2 DEF Settling
    <3> QED
      BY <3>2, <3>3, SettledItem
  <2>3. Bound(First(rec.todo))' = Bound(First(rec.todo)) /\ \A b \in Attempts : Referenced(b)' = Referenced(b)
    BY <1>0 DEF Bound, First, Referenced
  <2>4. \A b \in rec.sweep : b \in Attempts
    BY DEF DInv, TypeOK
  <2> QED
    BY <1>0, <2>1, <2>2, <2>3, <2>4 DEF DInv, RecInv
<1> QED
  BY <1>1, <1>2, <1>3, <1>4, <1>5 DEF DInv, AttemptsOK

LEMMA ProcessStarts ==
    ASSUME DInv, Start
    PROVE  DInv'
<1> DEFINE T == {j \in Jobs : item[j].status = "dispatching"}
<1>0. /\ phase = "down" /\ phase' = "recovering" /\ rec' = [NoRec EXCEPT !.stage = "bind", !.todo = T]
      /\ UNCHANGED <<item, attempt, tree, live, exec, lock, pass, awaited>>
  BY DEF Start, durable
<1>1. T \in SUBSET Jobs
  OBVIOUS
<1>2. T = {j \in Jobs : item'[j].status = "dispatching"}
  BY <1>0
<1> HIDE DEF T
<1>3. /\ rec'.stage = "bind" /\ rec'.todo = T /\ rec'.found = "none"
      /\ rec' \in [stage : {"off", "bind", "settle", "sweep"}, todo : SUBSET Jobs,
                   sweep : SUBSET Attempts, found : Found]
  BY <1>0, <1>1 DEF NoRec, Found
<1>4. TypeOK'
  BY <1>0, <1>3 DEF DInv, TypeOK
<1>5. AttemptsOK
  BY <1>0, Untouched
<1>6. JobsInv'
  BY <1>0, <1>5, SameJobs DEF SameHandles
<1>7. MemoryInv' /\ lock.at = "free"
  BY <1>0, <1>3 DEF DInv, MemoryInv, Free
<1>8. LockInv' /\ PassInv' /\ LimitInv'
  BY <1>0, <1>5, <1>7, LockFrame, LimitFrame DEF Active
<1>9. RecInv'
  BY <1>2, <1>3 DEF RecInv
<1> QED
  BY <1>4, <1>5, <1>6, <1>7, <1>8, <1>9 DEF DInv, AttemptsOK

\* Of the process nothing is left: what holds of the records holds after it, too.
LEMMA ProcessEnds ==
    ASSUME DInv, Crash
    PROVE  DInv'
<1>0. /\ phase' = "down" /\ live' = [a \in Attempts |-> "none"] /\ exec' = [j \in Jobs |-> NoExec]
      /\ lock' = Free /\ pass' = NoPass /\ rec' = NoRec /\ awaited' = {} /\ UNCHANGED <<item, attempt, tree>>
  BY DEF Crash, durable
<1>1. AttemptsOK
  BY <1>0, Untouched
<1>2. \A j \in Jobs : exec'[j].at = "off" /\ \A a \in Attempts : live'[a] = "none"
  BY <1>0 DEF NoExec
<1>3. Active' = {}
  BY <1>2 DEF Active
<1>4. TypeOK'
  <2>1. NoPass \in [by : {"none", "loop", "submit"}, todo : SUBSET Jobs, seen : [Needed -> Item]]
    BY DEF NoPass, NoItem, Item, QueueStatus, Ordinal
  <2>2. exec' \in [Jobs -> [at : {"off", "starting", "claimed", "waiting", "finishing", "failing"},
                            att : Ordinal, res : Terminal \cup {"none"}]]
    BY <1>0 DEF NoExec, Ordinal
  <2> QED
    BY <1>0, <2>1, <2>2 DEF DInv, TypeOK, Free, NoRec, Found
<1>5. JobsInv'
  <2> SUFFICES ASSUME NEW j \in Jobs PROVE JobOK(j)'
    BY DEF JobsInv
  <2>1. JobOK(j)
    BY DEF DInv, JobsInv
  <2>2. ItemOK(j)' /\ ExecOK(j)'
    BY <1>0, <1>3, <2>1 DEF JobOK, ItemOK, ExecOK
  <2>3. NamedOK(j)'
    BY <1>0, <1>2, <2>1 DEF JobOK, NamedOK
  <2>4. EvidenceOK(j)'
    BY <1>0, <2>1 DEF JobOK, EvidenceOK, Bound
  <2> QED
    BY <2>2, <2>3, <2>4 DEF JobOK
<1>6. MemoryInv' /\ LockInv' /\ PassInv' /\ RecInv'
  BY <1>0, <1>2 DEF MemoryInv, LockInv, PassInv, RecInv, Free, NoPass, NoItem, NoRec
<1>7. LimitInv'
  BY <1>3, LimitFrame
<1> QED
  BY <1>1, <1>4, <1>5, <1>6, <1>7 DEF DInv, AttemptsOK

-----------------------------------------------------------------------------
(* The inductive invariant                                                 *)

LEMMA Initially ==
    ASSUME Init
    PROVE  DInv
<1>0. /\ item = [j \in Jobs |-> NoItem] /\ attempt = [a \in Attempts |-> NoAttempt]
      /\ tree = [a \in Attempts |-> "none"] /\ phase = "down" /\ live = [a \in Attempts |-> "none"]
      /\ exec = [j \in Jobs |-> NoExec] /\ lock = Free /\ pass = NoPass /\ rec = NoRec /\ awaited = {}
  BY DEF Init, NoProcess
<1>1. NoItem \in Item /\ NoItem.status = "absent" /\ NoItem.att = 0 /\ NoItem.retries = 0
  BY DEF NoItem, Item, QueueStatus, Ordinal
<1>2. /\ NoAttempt \in Attempt /\ NoAttempt.status = "absent" /\ NoAttempt.proc = "none"
      /\ NoAttempt.eligible = FALSE /\ NoAttempt.parents = {}
  BY DEF NoAttempt, Attempt, AttemptStatus, Processes
<1>3. NoPass \in [by : {"none", "loop", "submit"}, todo : SUBSET Jobs, seen : [Needed -> Item]]
  BY DEF NoPass, NoItem, Item, QueueStatus, Ordinal
<1>4. exec \in [Jobs -> [at : {"off", "starting", "claimed", "waiting", "finishing", "failing"},
                         att : Ordinal, res : Terminal \cup {"none"}]]
  BY <1>0 DEF NoExec, Ordinal
<1>5. TypeOK
  BY <1>0, <1>1, <1>2, <1>3, <1>4, DispatchAssumption DEF TypeOK, Free, NoRec, Found
<1>6. Active = {}
  BY <1>0 DEF Active, NoExec
<1>7. MemoryInv /\ LockInv /\ PassInv /\ RecInv
  BY <1>0 DEF MemoryInv, LockInv, PassInv, RecInv, Free, NoPass, NoItem, NoRec, NoExec
<1>8. LimitInv
  BY <1>6, FS_EmptySet, DispatchAssumption DEF LimitInv
<1>9. JobsInv
  <2>1. \A j \in Jobs : item[j] = NoItem
    BY <1>0
  <2>2. \A a \in Attempts : live[a] = "none" /\ tree[a] = "none" /\ attempt[a].status = "absent"
    BY <1>0, <1>2
  <2>3. "absent" \notin Nonterminal
    BY DEF Nonterminal, AttemptStatus
  <2> QED
    BY <1>1, <1>6, <2>1, <2>2, <2>3 DEF JobsInv, JobOK, ItemOK, ExecOK, NamedOK, EvidenceOK
<1>10. RecordInv /\ TreeInv /\ LineageIsEvidence
  BY <1>0, <1>2 DEF RecordInv, RecordOK, TreeInv, LineageIsEvidence
<1> QED
  BY <1>5, <1>7, <1>8, <1>9, <1>10 DEF DInv

LEMMA Inductive ==
    ASSUME DInv, [Next]_vars
    PROVE  DInv'
<1>1. CASE Request
  BY <1>1, Submitted, CancelRequests, Retried, OtherRequests, PassStarts DEF Request
<1>2. CASE Internal
  BY <1>2, PassStarts, PassEnds, OtherRequests, DispatchSteps, ExecuteSteps, CancelSteps, AttemptWorks DEF Internal
<1>3. CASE Recovery
  BY <1>3, StageChanges, IntentRecovered, FinishRecovered, ItemRecovered, AttemptRecovered
     DEF Recovery, RecoverJob
<1>4. CASE ProcessStep
  BY <1>4, TreeEnded DEF ProcessStep
<1>5. CASE Start
  BY <1>5, ProcessStarts
<1>6. CASE Crash
  BY <1>6, ProcessEnds
<1>7. CASE UNCHANGED vars
  <2>0. UNCHANGED <<item, attempt, tree, phase, live, exec, lock, pass, rec, awaited>>
    BY <1>7 DEF vars, durable, memory
  <2>1. AttemptsOK
    BY <2>0, Untouched
  <2>2. JobsInv'
    BY <2>0, <2>1, SameJobs DEF SameHandles
  <2>3. TypeOK' /\ MemoryInv'
    BY <2>0 DEF DInv, TypeOK, MemoryInv
  <2>4. LockInv' /\ PassInv' /\ LimitInv'
    BY <2>0, <2>1, LockFrame, LimitFrame DEF Active
  <2>5. RecInv'
    BY <2>0 DEF DInv, RecInv, Bound, First, Referenced
  <2> QED
    BY <2>1, <2>2, <2>3, <2>4, <2>5 DEF DInv, AttemptsOK
<1> QED
  BY <1>1, <1>2, <1>3, <1>4, <1>5, <1>6, <1>7 DEF Next

\* DInv holds in every reachable state.
THEOREM Invariant == Spec => []DInv
<1>1. Init => DInv
  BY Initially
<1>2. DInv /\ [Next]_vars => DInv'
  BY Inductive
<1> QED
  BY <1>1, <1>2, PTL DEF Spec

-----------------------------------------------------------------------------
(* Theorems                                                                *)

\* Every record, in memory and on disk, keeps its shape; ordinals and automatic
\* retries stay within the contract's budgets.
THEOREM TypeCorrect == Spec => []TypeOK
<1>1. DInv => TypeOK
  BY DEF DInv
<1> QED
  BY <1>1, Invariant, PTL

\* Retries, cancellations, crashes and recoveries never let two attempts of a job with
\* kernel containment work at the same time.
THEOREM WorkIsNotDuplicated == Spec => []NoDuplicateWork
<1>1. DInv => NoDuplicateWork
  <2> SUFFICES ASSUME DInv, NEW a \in Attempts, NEW b \in Attempts, a[1] \in Contained,
                      a[1] = b[1], Busy(a), Busy(b)
               PROVE  a = b
    BY DEF NoDuplicateWork
  <2>1. \A c \in Attempts : c[1] \in Contained /\ Busy(c) => item[c[1]].att = c[2]
    BY AttemptNames DEF DInv, JobsInv, JobOK, NamedOK, Busy
  <2> QED
    BY <2>1, AttemptNames
<1> QED
  BY <1>1, Invariant, PTL

\* A completed item has an attempt that completed with an eligible verdict and whose
\* processes are proven to be gone, and are.
THEOREM CompletionIsBacked == Spec => []CompletedHasEvidence
<1>1. DInv => CompletedHasEvidence
  <2> SUFFICES ASSUME DInv, NEW j \in Jobs, item[j].status = "completed"
               PROVE  /\ item[j].done = item[j].att /\ item[j].att # 0
                      /\ attempt[Bound(j)].status = "completed" /\ attempt[Bound(j)].eligible
                      /\ attempt[Bound(j)].proc = "proven" /\ tree[Bound(j)] = "none"
    BY DEF CompletedHasEvidence
  <2>1. PICK a \in Attempts : /\ a = Bound(j) /\ item[j].done = item[j].att
                              /\ attempt[a].status = "completed" /\ attempt[a].eligible
    BY DEF DInv, JobsInv, JobOK, EvidenceOK
  <2>2. item[j].att # 0
    BY <2>1, AttemptNames, DispatchAssumption DEF Bound
  <2>3. attempt[a].proc = "proven" /\ a[1] \in Contained
    BY <2>1 DEF DInv, RecordInv, RecordOK
  <2>4. tree[a] = "none"
    BY <2>3 DEF DInv, TreeInv, Unresolved
  <2> QED
    BY <2>1, <2>2, <2>3, <2>4
<1> QED
  BY <1>1, Invariant, PTL

\* The lineage of an attempt names, for good, completed and eligible attempts of
\* exactly the jobs it depends on.
THEOREM LineageHolds == Spec => []LineageIsEvidence
<1>1. DInv => LineageIsEvidence
  BY DEF DInv
<1> QED
  BY <1>1, Invariant, PTL

\* What executes can be found and cancelled through the queue.
THEOREM ExecutionsAreBound == Spec => []ExecutionIsBound
<1>1. DInv => ExecutionIsBound
  <2> SUFFICES ASSUME DInv, NEW a \in Attempts, live[a] # "none"
               PROVE  a = Bound(a[1]) /\ item[a[1]].status \in {"running", "cancelling"}
    BY DEF ExecutionIsBound
  <2> QED
    BY LiveAttempt DEF Referenced
<1> QED
  BY <1>1, Invariant, PTL

\* No interleaving of passes, submissions and retries executes more than
\* maxConcurrent attempts: each has an execution of its own.
THEOREM ConcurrencyIsBounded == Spec => []ConcurrencyBound
<1>1. DInv => ConcurrencyBound
  <2> SUFFICES ASSUME DInv PROVE ConcurrencyBound
    OBVIOUS
  <2> DEFINE L == {a \in Attempts : live[a] # "none"}
             f == [a \in L |-> a[1]]
  <2>1. \A a \in L : a[1] \in Active /\ exec[a[1]].att = a[2] /\ a = <<a[1], a[2]>>
    BY LiveAttempt, AttemptNames
  <2>2. f \in Injection(L, Active)
    <3>1. f \in [L -> Active]
      BY <2>1
    <3>2. \A a, b \in L : f[a] = f[b] => a = b
      BY <2>1
    <3> HIDE DEF f, L
    <3> QED
      BY <3>1, <3>2 DEF Injection, IsInjective
  <2>3. IsFiniteSet(Active) /\ Cardinality(Active) <= MaxConcurrent /\ Cardinality(Active) \in Nat
    BY FS_CardinalityType DEF DInv, LimitInv
  <2> HIDE DEF f, L
  <2>4. IsFiniteSet(L) /\ Cardinality(L) <= Cardinality(Active)
    BY <2>2, <2>3, FS_Injection
  <2>5. Cardinality(L) \in Nat
    BY <2>4, FS_CardinalityType
  <2> QED
    BY <2>3, <2>4, <2>5, DispatchAssumption DEF ConcurrencyBound, L
<1> QED
  BY <1>1, Invariant, PTL

\* When the loop starts, recovery has settled everything that a dead process left.
THEOREM RecoveryIsComplete == Spec => RecoverySettles
<1>1. ASSUME DInv, [Next]_vars, phase = "recovering", phase' = "looping"
      PROVE  /\ \A j \in Jobs : item'[j].status \notin {"dispatching", "running", "cancelling"}
             /\ \A a \in Attempts :
                   attempt'[a].status \in Nonterminal =>
                       Referenced(a)' /\ item'[a[1]].status \in {"needs-input", "failed"}
  <2>1. /\ lock = Free /\ pass = NoPass /\ \A j \in Jobs : exec[j].at = "off"
        /\ \A a \in Attempts : live[a] = "none"
    BY <1>1 DEF DInv, MemoryInv
  <2>2. StartLoop
    <3>1. ~ Request /\ ~ Start /\ ~ Crash /\ ~ ProcessStep /\ ~ UNCHANGED vars
      BY <1>1, <2>1 DEF Request, Enqueue, CancelWaiting, CancelRunning, Retry, AbortAttempt, RemoveWorkspace,
         Serving, StartPass, StopLoop, Start, Crash, ProcessStep, TreeEnds, vars, memory
    <3>2. ~ Internal
      <4>1. ~ StartPass("loop") /\ ~ EndPass /\ ~ ReleaseLease
        BY <1>1, <2>1 DEF StartPass, EndPass, ReleaseLease
      <4>2. ASSUME NEW j \in Jobs PROVE ~ DispatchStep(j) /\ ~ ExecuteStep(j) /\ ~ CancelStep(j)
        BY <2>1 DEF DispatchStep, SkipItem, FailDependent, StopAtLimit, RecordIntent, ReserveAttempt,
           RejectLineage, BindAttempt, PassThrows, Visiting, ExecuteStep, ClaimAttempt, AbandonStart,
           ClaimFails, LaunchAttempt, LaunchFails, AwaitAttempt, AwaitFails, FinishItem, FailItem,
           FailItemFails, CancelStep, CancelSignal, CancelReserved, CancelConclude, CancelPending, CancelFails,
           Cancelling, Free
      <4>3. ASSUME NEW a \in Attempts PROVE ~ AttemptStep(a)
        BY <1>1, <2>1, ExecuteAttempts
      <4> QED
        BY <4>1, <4>2, <4>3 DEF Internal
    <3>3. Recovery
      BY <1>1, <3>1, <3>2 DEF Next
    <3> QED
      BY <1>1, <3>3 DEF Recovery, StartSettling, StartSweep, RecoverJob, RecoverIntent, RecoverFinish,
         RecoverItem, RecoverAttempt, Swept
  <2>3. rec.stage = "sweep" /\ rec.sweep = {} /\ item' = item /\ attempt' = attempt
    BY <2>2 DEF StartLoop, durable
  <2>4. \A j \in Jobs : item[j].status \notin {"dispatching", "running", "cancelling"}
    BY <1>1, <2>3 DEF DInv, RecInv
  <2>5. ASSUME NEW a \in Attempts, attempt[a].status \in Nonterminal
        PROVE  Referenced(a) /\ item[a[1]].status \in {"needs-input", "failed"}
    <3>1. Referenced(a)
      BY <1>1, <2>3, <2>5 DEF DInv, RecInv
    <3>2. a[1] \in Jobs /\ item[a[1]].att = a[2]
      BY <3>1, AttemptNames DEF Referenced, Bound
    <3>3. item[a[1]].status \in {"running", "cancelling", "needs-input", "failed"}
      BY <1>1, <2>5, <3>2 DEF DInv, JobsInv, JobOK, NamedOK
    <3> QED
      BY <2>4, <3>1, <3>2, <3>3
  <2> QED
    BY <2>3, <2>4, <2>5 DEF Referenced, Bound
<1> QED
  BY <1>1, Invariant, PTL DEF Spec, RecoverySettles

-----------------------------------------------------------------------------
(* The transition tables                                                   *)

LegalItem(j, it) ==
    item[j].status # "absent" /\ it # item[j] => it.status \in allowedQueueTransitions[item[j].status]
LegalItems == \A j \in Jobs : LegalItem(j, item'[j])
LegalAttempts ==
    \A a \in Attempts :
        attempt[a].status # attempt'[a].status /\ attempt[a].status # "absent" =>
        attempt'[a].status \in allowedAttemptTransitions[attempt[a].status]

LEMMA OneLegalItem ==
    ASSUME DInv, NEW j \in Jobs, NEW it, SetItem(j, it), LegalItem(j, it)
    PROVE  LegalItems
<1>1. item'[j] = it /\ \A k \in Jobs \ {j} : item'[k] = item[k]
  BY DEF SetItem, DInv, TypeOK
<1> QED
  BY <1>1 DEF LegalItems, LegalItem

\* What the items are before a pass, a cancellation or an execution changes them.
LEMMA ItemsStayLegal ==
    ASSUME DInv, Next
    PROVE  LegalItems
<1> USE DEF allowedQueueTransitions, QueueStatus, Terminal
<1>1. ASSUME UNCHANGED item PROVE LegalItems
  BY <1>1 DEF LegalItems, LegalItem
<1>2. ASSUME NEW j \in Jobs, DispatchStep(j) PROVE LegalItems
  <2>0. item[j] \in Item
    BY DEF DInv, TypeOK
  <2>1. CASE FailDependent(j)
    <3>1. item[j].status = "queued"
      BY <2>1, FirstInSet DEF FailDependent, Visiting, DInv, TypeOK, PassInv
    <3>2. LegalItem(j, [item[j] EXCEPT !.status = "needs-input"])
      BY <2>0, <3>1 DEF LegalItem, Item
    <3> QED
      BY <2>1, <3>2, OneLegalItem DEF FailDependent
  <2>2. CASE RecordIntent(j)
    <3> DEFINE it(o) == [item[j] EXCEPT !.status = "dispatching", !.op = o, !.att = 0]
    <3>1. item[j].status = "queued"
      BY <2>2, FirstInSet DEF RecordIntent, Visiting, DInv, TypeOK, PassInv
    <3>2. PICK o \in Nat : o = FreshOp(j)
      BY FreshOpExists DEF DInv
    <3>3. LegalItem(j, it(o))
      BY <2>0, <3>1 DEF LegalItem, Item
    <3>4. SetItem(j, it(o))
      BY <2>2, <3>2 DEF RecordIntent
    <3> QED
      BY <3>3, <3>4, OneLegalItem
  <2>3. CASE RejectLineage(j)
    <3>1. item[j].status = "dispatching"
      BY <2>3 DEF RejectLineage, DInv, LockInv
    <3>2. LegalItem(j, [item[j] EXCEPT !.status = "needs-input"])
      BY <2>0, <3>1 DEF LegalItem, Item
    <3> QED
      BY <2>3, <3>2, OneLegalItem DEF RejectLineage
  <2>4. CASE BindAttempt(j)
    <3>1. item[j].status = "dispatching"
      BY <2>4 DEF BindAttempt, DInv, LockInv
    <3>2. PICK n \in 1 .. MaxAttempts[j] : SetItem(j, [item[j] EXCEPT !.status = "running", !.att = n])
      BY <2>4 DEF BindAttempt
    <3>3. LegalItem(j, [item[j] EXCEPT !.status = "running", !.att = n])
      BY <2>0, <3>1 DEF LegalItem, Item
    <3> QED
      BY <3>2, <3>3, OneLegalItem
  <2> QED
    BY <1>1, <1>2, <2>1, <2>2, <2>3, <2>4
       DEF DispatchStep, SkipItem, StopAtLimit, ReserveAttempt, PassThrows, durable
<1>3. ASSUME NEW j \in Jobs, ExecuteStep(j) PROVE LegalItems
  <2>0. item[j] \in Item
    BY DEF DInv, TypeOK
  <2>1. CASE FinishItem(j)
    <3> DEFINE it == Completed(item[j], exec[j].att, exec[j].res)
    <3>1. \/ UNCHANGED item
          \/ it.status \in allowedQueueTransitions[item[j].status] /\ SetItem(j, it)
      BY <2>1, Zenon DEF FinishItem
    <3> HIDE DEF it
    <3>2. it.status \in allowedQueueTransitions[item[j].status] => LegalItem(j, it)
      BY Zenon DEF LegalItem
    <3> QED
      BY <1>1, <3>1, <3>2, OneLegalItem, Zenon
  <2>2. CASE FailItem(j)
    <3> DEFINE it == [item[j] EXCEPT !.status = "failed"]
    <3>1. it.status = "failed"
      BY <2>0 DEF Item
    <3>2. SetItem(j, IF /\ item[j].status # "cancelled"
                        /\ "failed" \in allowedQueueTransitions[item[j].status] THEN it ELSE item[j])
      BY <2>2 DEF FailItem
    <3> HIDE DEF it
    <3>3. \/ SetItem(j, item[j])
          \/ SetItem(j, it) /\ "failed" \in allowedQueueTransitions[item[j].status]
      BY <3>2, Zenon
    <3>4. LegalItem(j, item[j]) /\ ("failed" \in allowedQueueTransitions[item[j].status] => LegalItem(j, it))
      BY <3>1, Zenon DEF LegalItem
    <3> QED
      BY <3>3, <3>4, OneLegalItem, Zenon
  <2> QED
    BY <1>1, <1>3, <2>1, <2>2
       DEF ExecuteStep, ClaimAttempt, AbandonStart, ClaimFails, LaunchAttempt, LaunchFails, AwaitAttempt,
           AwaitFails, FailItemFails, durable
<1>4. ASSUME NEW j \in Jobs, CancelStep(j) PROVE LegalItems
  <2>1. CASE CancelConclude(j)
    <3>1. item[j].status = "cancelling" /\ item[j] \in Item
      BY <2>1 DEF CancelConclude, Cancelling, DInv, LockInv, TypeOK
    <3>2. LegalItem(j, [item[j] EXCEPT !.status = "cancelled"])
      BY <3>1 DEF LegalItem, Item
    <3> QED
      BY <2>1, <3>2, OneLegalItem DEF CancelConclude
  <2> QED
    BY <1>1, <1>4, <2>1 DEF CancelStep, CancelSignal, CancelReserved, CancelPending, CancelFails, durable
<1>5. ASSUME NEW j \in Jobs, RecoverJob(j) PROVE LegalItems
  <2>0. item[j] \in Item /\ item' = [item EXCEPT ![j] = item'[j]]
    BY <1>5 DEF RecoverJob, RecoverIntent, RecoverFinish, RecoverItem, SetItem, DInv, TypeOK
  <2>1. CASE RecoverIntent(j)
    <3>1. item[j].status = "dispatching"
      BY <2>1, FirstInSet DEF RecoverIntent, DInv, RecInv, TypeOK
    <3>2. RecoveredIntent(j).status \in {"needs-input", "queued", "running"}
      BY <2>0, FS_EmptySet DEF RecoveredIntent, Item
    <3>3. LegalItem(j, RecoveredIntent(j))
      BY <3>1, <3>2 DEF LegalItem
    <3> QED
      BY <2>1, <3>3, OneLegalItem DEF RecoverIntent
  <2>2. CASE RecoverFinish(j)
    <3> DEFINE it == Completed(item[j], item[j].att, Outcome(Bound(j)))
    <3>1. item[j].status \in {"running", "cancelling"} /\ item[j].att # 0 /\ Bound(j) \in Attempts
      BY <2>2, SettledItem DEF RecoverFinish
    <3>2. it.status = Outcome(Bound(j)) /\ Outcome(Bound(j)) \in Terminal
      BY <2>0, <3>1, OutcomeIsTerminal DEF Completed, Item
    <3>3. SetItem(j, it)
      BY <2>2, <3>1 DEF RecoverFinish
    <3> HIDE DEF it
    <3>4. LegalItem(j, it)
      BY <3>1, <3>2 DEF LegalItem
    <3> QED
      BY <3>3, <3>4, OneLegalItem
  <2>3. CASE RecoverItem(j)
    <3> DEFINE it == RecoveredItem(j, item[j], rec.found)
    <3>1. item[j].status \in {"running", "cancelling"}
      BY <2>3, SettledItem DEF RecoverItem
    <3>2. it.status \in {"needs-input", "cancelled"} \/ (it.status = "queued" /\ item[j].status # "cancelling")
      BY <2>0 DEF RecoveredItem, Item, NoItem
    <3>3. SetItem(j, it)
      BY <2>3 DEF RecoverItem
    <3> HIDE DEF it
    <3>4. LegalItem(j, it)
      BY <3>1, <3>2 DEF LegalItem
    <3> QED
      BY <3>3, <3>4, OneLegalItem
  <2> QED
    BY <1>5, <2>1, <2>2, <2>3 DEF RecoverJob
<1>6. ASSUME NEW j \in Jobs, Enqueue(j) \/ CancelWaiting(j) \/ CancelRunning(j) \/ Retry(j) PROVE LegalItems
  <2>0. item[j] \in Item
    BY DEF DInv, TypeOK
  <2>1. CASE Enqueue(j)
    <3>1. item[j].status = "absent" /\ SetItem(j, [NoItem EXCEPT !.status = "queued"])
      BY <2>1 DEF Enqueue
    <3>2. LegalItem(j, [NoItem EXCEPT !.status = "queued"])
      BY <3>1 DEF LegalItem
    <3> QED
      BY <3>1, <3>2, OneLegalItem
  <2>2. CASE CancelWaiting(j)
    <3>1. LegalItem(j, [item[j] EXCEPT !.status = "cancelled"])
      BY <2>0, <2>2 DEF CancelWaiting, LegalItem, Item
    <3> QED
      BY <2>2, <3>1, OneLegalItem DEF CancelWaiting
  <2>3. CASE CancelRunning(j)
    <3>1. LegalItem(j, [item[j] EXCEPT !.status = "cancelling"])
      BY <2>0, <2>3 DEF CancelRunning, LegalItem, Item
    <3> QED
      BY <2>3, <3>1, OneLegalItem DEF CancelRunning
  <2>4. CASE Retry(j)
    <3> DEFINE it == [NoItem EXCEPT !.status = "queued", !.retries = item[j].retries]
    <3>1. it.status = "queued"
      BY DEF NoItem
    <3>2. item[j].status \in Terminal /\ SetItem(j, it)
      BY <2>4 DEF Retry
    <3> HIDE DEF it
    <3>3. LegalItem(j, it)
      BY <3>1, <3>2 DEF LegalItem
    <3> QED
      BY <3>2, <3>3, OneLegalItem
  <2> QED
    BY <1>6, <2>1, <2>2, <2>3, <2>4
<1> QED
  <2>1. CASE Request
    BY <1>1, <1>6, <2>1 DEF Request, AbortAttempt, RemoveWorkspace, StartPass, StopLoop, durable
  <2>2. CASE Internal
    <3>1. ASSUME NEW a \in Attempts, AttemptStep(a) PROVE UNCHANGED item
      BY <3>1 DEF AttemptStep, PrepareAttempt, StartWorker, Spawn, RecordTermination, StartVerification,
         EndAttempt, SettleAttempt, RejectExecution, durable
    <3> QED
      BY <1>1, <1>2, <1>3, <1>4, <2>2, <3>1 DEF Internal, StartPass, EndPass, ReleaseLease, durable
  <2>3. CASE Recovery
    <3>1. ASSUME NEW a \in Attempts, RecoverAttempt(a) PROVE UNCHANGED item
      BY <3>1 DEF RecoverAttempt, Swept, durable
    <3> QED
      BY <1>1, <1>5, <2>3, <3>1 DEF Recovery, StartSettling, StartSweep, StartLoop, durable
  <2>4. CASE ProcessStep \/ Start \/ Crash
    BY <1>1, <2>4 DEF ProcessStep, TreeEnds, Start, Crash, durable
  <2> QED
    BY <2>1, <2>2, <2>3, <2>4 DEF Next

LegalAttempt(a, m) ==
    m.status # attempt[a].status /\ attempt[a].status # "absent" =>
        m.status \in allowedAttemptTransitions[attempt[a].status]

LEMMA OneLegalAttempt ==
    ASSUME DInv, NEW a \in Attempts, NEW m, SetAttempt(a, m), LegalAttempt(a, m)
    PROVE  LegalAttempts
<1>1. attempt'[a] = m /\ \A b \in Attempts \ {a} : attempt'[b] = attempt[b]
  BY DEF SetAttempt, DInv, TypeOK
<1> QED
  BY <1>1 DEF LegalAttempts, LegalAttempt

\* A new record with another status only.
LEMMA LegalStatus ==
    ASSUME DInv, NEW a \in Attempts, NEW m, m.status \in allowedAttemptTransitions[attempt[a].status],
           SetAttempt(a, m)
    PROVE  LegalAttempts
  BY OneLegalAttempt, Zenon DEF LegalAttempt

LEMMA AttemptsStayLegal ==
    ASSUME DInv, Next
    PROVE  LegalAttempts
<1>1. ASSUME UNCHANGED attempt PROVE LegalAttempts
  BY <1>1 DEF LegalAttempts
<1>2. ASSUME NEW a \in Attempts, AttemptStep(a) PROVE LegalAttempts
  <2> DEFINE M == attempt[a]
  <2>0. M \in Attempt
    BY DEF DInv, TypeOK
  <2> HIDE DEF M
  <2>1. CASE PrepareAttempt(a)
    <3>1. PICK w : SetAttempt(a, [M EXCEPT !.status = "preparing", !.ws = w])
      BY <2>1 DEF PrepareAttempt, M
    <3>2. M.status = "claimed"
      BY <2>1 DEF PrepareAttempt, Executing, M
    <3>3. [M EXCEPT !.status = "preparing", !.ws = w].status \in allowedAttemptTransitions[M.status]
      BY <2>0, <3>2 DEF Attempt, allowedAttemptTransitions, AttemptStatus
    <3> QED
      BY <3>1, <3>3, LegalStatus DEF M
  <2>2. CASE StartWorker(a)
    <3>1. PICK p : SetAttempt(a, [M EXCEPT !.status = "running", !.proc = p])
      BY <2>2 DEF StartWorker, M
    <3>2. M.status = "preparing"
      BY <2>2 DEF StartWorker, Executing, M
    <3>3. [M EXCEPT !.status = "running", !.proc = p].status \in allowedAttemptTransitions[M.status]
      BY <2>0, <3>2 DEF Attempt, allowedAttemptTransitions, AttemptStatus
    <3> QED
      BY <3>1, <3>3, LegalStatus DEF M
  <2>3. ASSUME \/ Spawn(a)
               \/ \E s \in {"proven", "unknown"} : RecordTermination(a, s)
               \/ \E ws \in {"none", "pending", "proven", "failed"} : SettleAttempt(a, ws)
        PROVE  LegalAttempts
    <3>1. PICK m : SetAttempt(a, m) /\ m.status = M.status
      BY <2>0, <2>3 DEF Spawn, RecordTermination, SettleAttempt, Attempt, M
    <3> QED
      BY <3>1, OneLegalAttempt DEF LegalAttempt, M
  <2>4. CASE StartVerification(a)
    <3>1. M.status = "running" /\ SetAttempt(a, [M EXCEPT !.status = "verifying"])
      BY <2>4 DEF StartVerification, Executing, M
    <3>2. [M EXCEPT !.status = "verifying"].status \in allowedAttemptTransitions[M.status]
      BY <2>0, <3>1 DEF Attempt, allowedAttemptTransitions, AttemptStatus
    <3> QED
      BY <3>1, <3>2, LegalStatus DEF M
  <2>5. ASSUME NEW s \in Terminal, NEW e \in BOOLEAN, EndAttempt(a, s, e) PROVE LegalAttempts
    <3>1. /\ M.status \in {"claimed", "preparing", "running", "verifying"}
          /\ SetAttempt(a, [M EXCEPT !.status = s, !.eligible = e])
          /\ \/ s \in {"failed", "cancelled"}
             \/ s = "needs-input" /\ M.status = "preparing"
             \/ s = "completed" /\ M.status = "verifying"
      BY <2>5 DEF EndAttempt, Executing, M
    <3>2. [M EXCEPT !.status = s, !.eligible = e].status \in allowedAttemptTransitions[M.status]
      BY <2>0, <3>1 DEF Attempt, allowedAttemptTransitions, AttemptStatus
    <3> QED
      BY <3>1, <3>2, LegalStatus DEF M
  <2> QED
    BY <1>1, <1>2, <2>1, <2>2, <2>3, <2>4, <2>5 DEF AttemptStep, RejectExecution, durable
<1>3. ASSUME NEW j \in Jobs, ClaimAttempt(j) \/ CancelReserved(j) PROVE LegalAttempts
  <2>1. PICK a \in Attempts : a = Bound(j)
    BY <1>3, ReservedAttempts
  <2>2. attempt[a] \in Attempt
    BY DEF DInv, TypeOK
  <2>3. \/ attempt[a].status = "reserved" /\ SetAttempt(a, [attempt[a] EXCEPT !.status = "claimed"])
        \/ attempt[a].status \in {"reserved", "claimed"} /\ SetAttempt(a, [attempt[a] EXCEPT !.status = "cancelled"])
    BY <1>3, <2>1 DEF ClaimAttempt, CancelReserved
  <2>4. PICK s \in {"claimed", "cancelled"} :
           SetAttempt(a, [attempt[a] EXCEPT !.status = s]) /\ s \in allowedAttemptTransitions[attempt[a].status]
    BY <2>2, <2>3 DEF allowedAttemptTransitions, AttemptStatus
  <2>5. [attempt[a] EXCEPT !.status = s].status = s
    BY <2>2 DEF Attempt
  <2> QED
    BY <2>4, <2>5, LegalStatus
<1>4. ASSUME NEW j \in Jobs, ReserveAttempt(j) PROVE LegalAttempts
  <2>1. PICK n \in 1 .. MaxAttempts[j] :
           attempt[<<j, n>>].status = "absent" /\ \E m : SetAttempt(<<j, n>>, m)
    BY <1>4 DEF ReserveAttempt, FreeOrdinals
  <2>2. <<j, n>> \in Attempts
    BY AttemptNames
  <2> QED
    BY <2>1, <2>2, OneLegalAttempt DEF LegalAttempt
<1>5. ASSUME NEW a \in Attempts, NEW ws \in {"proven", "failed"}, RemoveWorkspace(a, ws) PROVE LegalAttempts
  <2>1. PICK m : SetAttempt(a, m) /\ m.status = attempt[a].status
    BY <1>5 DEF RemoveWorkspace, DInv, TypeOK, Attempt
  <2> QED
    BY <2>1, OneLegalAttempt DEF LegalAttempt
<1>6. ASSUME NEW a \in Attempts, RecoverAttempt(a) PROVE LegalAttempts
  <2> DEFINE M == attempt[a]
  <2>0. M \in Attempt
    BY DEF DInv, TypeOK
  <2> HIDE DEF M
  <2>1. ASSUME NEW next \in Found, RecoveryStep(a, rec.found, next) PROVE LegalAttempts
    <3>1. CASE RecoverUnlaunched(a, rec.found, next)
      <4>1. M.status \in {"reserved", "claimed"}
            /\ SetAttempt(a, [M EXCEPT !.status = "cancelled", !.orphaned = TRUE])
        BY <3>1 DEF RecoverUnlaunched, M
      <4>2. [M EXCEPT !.status = "cancelled", !.orphaned = TRUE].status \in allowedAttemptTransitions[M.status]
        BY <2>0, <4>1 DEF Attempt, allowedAttemptTransitions, AttemptStatus
      <4> QED
        BY <4>1, <4>2, LegalStatus DEF M
    <3>2. CASE RecoverFail(a, rec.found, next)
      <4>1. M.status \in {"preparing", "running", "verifying"}
            /\ SetAttempt(a, [M EXCEPT !.status = "failed", !.orphaned = TRUE])
        BY <3>2 DEF RecoverFail, Interrupted, M
      <4>2. [M EXCEPT !.status = "failed", !.orphaned = TRUE].status \in allowedAttemptTransitions[M.status]
        BY <2>0, <4>1 DEF Attempt, allowedAttemptTransitions, AttemptStatus
      <4> QED
        BY <4>1, <4>2, LegalStatus DEF M
    <3>3. CASE RecoverEvidence(a, rec.found, next)
      <4>1. PICK p : SetAttempt(a, [M EXCEPT !.proc = p])
        BY <3>3 DEF RecoverEvidence, M
      <4>2. [M EXCEPT !.proc = p].status = M.status
        BY <2>0 DEF Attempt
      <4> QED
        BY <4>1, <4>2, OneLegalAttempt DEF LegalAttempt, M
    <3>4. CASE RecoverWorkspace(a, rec.found, next)
      <4>1. PICK ws : SetAttempt(a, [M EXCEPT !.ws = ws])
        BY <3>4 DEF RecoverWorkspace, M
      <4>2. [M EXCEPT !.ws = ws].status = M.status
        BY <2>0 DEF Attempt
      <4> QED
        BY <4>1, <4>2, OneLegalAttempt DEF LegalAttempt, M
    <3>5. CASE RecoverBlocked(a, rec.found, next)
      BY <1>1, <3>5 DEF RecoverBlocked
    <3> QED
      BY <2>1, <3>1, <3>2, <3>3, <3>4, <3>5 DEF RecoveryStep
  <2> QED
    BY <1>1, <1>6, <2>1 DEF RecoverAttempt, Swept, durable
<1>7. CASE Request
  BY <1>1, <1>5, <1>7 DEF Request, Enqueue, CancelWaiting, CancelRunning, Retry, AbortAttempt, StartPass,
     StopLoop, durable
<1>8. CASE Internal
  <2>1. ASSUME NEW j \in Jobs, DispatchStep(j) PROVE LegalAttempts
    BY <1>1, <1>4, <2>1 DEF DispatchStep, SkipItem, FailDependent, StopAtLimit, RecordIntent, RejectLineage,
       BindAttempt, PassThrows, durable
  <2>2. ASSUME NEW j \in Jobs, ExecuteStep(j) PROVE LegalAttempts
    BY <1>1, <1>3, <2>2 DEF ExecuteStep, AbandonStart, ClaimFails, LaunchAttempt, LaunchFails, AwaitAttempt,
       AwaitFails, FinishItem, FailItem, FailItemFails, durable
  <2>3. ASSUME NEW j \in Jobs, CancelStep(j) PROVE LegalAttempts
    BY <1>1, <1>3, <2>3 DEF CancelStep, CancelSignal, CancelConclude, CancelPending, CancelFails, durable
  <2> QED
    BY <1>1, <1>2, <1>8, <2>1, <2>2, <2>3 DEF Internal, StartPass, EndPass, ReleaseLease, durable
<1>9. CASE Recovery
  BY <1>1, <1>6, <1>9 DEF Recovery, StartSettling, StartSweep, StartLoop, RecoverJob, RecoverIntent,
     RecoverFinish, RecoverItem, durable
<1>10. CASE ProcessStep \/ Start \/ Crash
  BY <1>1, <1>10 DEF ProcessStep, TreeEnds, Start, Crash, durable
<1> QED
  BY <1>7, <1>8, <1>9, <1>10 DEF Next

\* No handler asks the store for an update that the transition tables refuse: what it
\* has read under the state lock is still so when it writes.
THEOREM UpdatesAreLegal == Spec => StepsAreLegal
<1>1. ASSUME DInv, [Next]_vars
      PROVE  [/\ \A j \in Jobs : item[j] # item'[j] /\ item[j].status # "absent" =>
                    item'[j].status \in allowedQueueTransitions[item[j].status]
              /\ \A a \in Attempts :
                    attempt[a].status # attempt'[a].status /\ attempt[a].status # "absent" =>
                    attempt'[a].status \in allowedAttemptTransitions[attempt[a].status]]_vars
  BY <1>1, ItemsStayLegal, AttemptsStayLegal, Zenon DEF LegalItems, LegalItem, LegalAttempts
<1> QED
  BY <1>1, Invariant, PTL DEF Spec, StepsAreLegal
=============================================================================
