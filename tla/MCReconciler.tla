---------------------------- MODULE MCReconciler ----------------------------
(***************************************************************************)
(* Instances of Reconciler: beside a dispatcher that runs one job, and     *)
(* alone on every combination of readable records, whoever wrote them.     *)
(***************************************************************************)
EXTENDS Reconciler, TLC

CONSTANTS solo, c1, c2

MCDeps == [j \in Jobs |-> {}]
MCRank == [j \in Jobs |-> 1]
MCTwoAttempts == [j \in Jobs |-> 2]
MCMaxAutoRetries == [j \in Jobs |-> 0]
MCSymmetry == Permutations(Callers)

\* Items of every status, with and without an operation, an attempt and a
\* completion.
MatrixItem == [status : QueueStatus, op : 0 .. 1, att : 0 .. 1, done : 0 .. 1, retries : {0}]

\* First attempts of every status that the reconciler and the recovery tell apart
\* (not yet launched, interrupted, and each way to end); a second attempt is
\* missing or reserved under the operation of the first, which makes the
\* operation ambiguous.
MatrixAttempt(n) ==
    {NoAttempt} \cup
    {m \in [status : IF n = 1 THEN Terminal \cup {"claimed", "running"} ELSE {"reserved"},
            op : IF n = 1 THEN 0 .. 1 ELSE {1}, parents : {{}}, eligible : BOOLEAN, orphaned : {FALSE},
            proc : IF n = 1 THEN {"none", "pending", "proven"} ELSE {"none"}, ws : {"none"}] :
        m.eligible => m.status = "completed"}

MatrixInit ==
    /\ NoProcess /\ OwnInit
    /\ item \in [Jobs -> MatrixItem]
    /\ attempt \in {f \in [Attempts -> MatrixAttempt(1) \cup MatrixAttempt(2)] :
                      \A a \in Attempts : /\ f[a] \in MatrixAttempt(a[2])
                                        /\ f[a].op <= f[<<a[1], 1>>].op}
    /\ tree \in {f \in [Attempts -> {"none", "guarded"}] :
                   \A a \in Attempts : f[a] = "guarded" => attempt[a].proc = "pending"}

MatrixSpec == MatrixInit /\ [][\E c \in Callers : Reconcile(c)]_allvars

\* A caller that reads a report for its approval, or repeats an action that has a
\* result, changes nothing: the other is idle meanwhile.
Harmless(k) == k.at # "idle" /\ (k.id # None => k.at = "replay" /\ results[k.id] # "none")
OneByOne == \A c, d \in Callers : c # d /\ Harmless(call[c]) => call[d] = Idle

\* Bounds the composition: once there is a second attempt nobody cancels or
\* stops, the process that reserved it survives, no report read before it is
\* approved any more and an action whose result is recorded is not repeated.
Calm ==
    \A j \in Jobs : attempt[<<j, 2>>].status # "absent" =>
        /\ phase \notin {"down", "draining", "released"}
        /\ \A a \in Attempts : live[a] # "aborted"
        /\ item[j].status # "cancelling"
        /\ \A c \in Callers : call[c] # Idle => call[c].id # None /\ results[call[c].id] = "none"

\* The view of the composition: with one caller, an action whose result is
\* recorded is never applied again, so its proposal and result no longer matter.
Pending ==
    <<vars, holder, call, [i \in Actions |-> IF results[i] = "none" THEN approved[i] ELSE "recorded"]>>
=============================================================================
