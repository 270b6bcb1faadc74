----------------------------- MODULE Contracts -----------------------------
(***************************************************************************)
(* The vocabulary shared by the queue, the dispatcher, the attempt store   *)
(* and the reconciler: the statuses, the legal-transition tables and the   *)
(* pure functions over them.  Nothing here has state.                      *)
(***************************************************************************)
EXTENDS Naturals

\* Queue item statuses (queueItemStatusSchema).
QueueStatus == {"queued", "dispatching", "running", "cancelling",
                "completed", "failed", "needs-input", "cancelled"}

\* Attempt statuses (attemptStatusSchema).
AttemptStatus == {"reserved", "claimed", "preparing", "running", "verifying",
                  "completed", "failed", "needs-input", "cancelled"}

CleanupStatus == {"not-required", "pending", "proven", "failed", "unknown"}

VerificationStatus == {"not-run", "running", "eligible", "ineligible"}

\* isTerminal and isAttemptTerminal name the same four statuses.
Terminal == {"completed", "failed", "needs-input", "cancelled"}

\* cleanupSafe: the two cleanup states that permit completion and retry.
CleanupSafe == {"not-required", "proven"}

\* The table assertQueueTransition consults, for ordinary updates.
allowedQueueTransitions ==
    [s \in QueueStatus |->
        CASE s = "queued"      -> {"queued", "dispatching", "cancelled", "needs-input"}
          [] s = "dispatching" -> {"dispatching", "queued", "running", "cancelled", "needs-input"}
          [] s = "running"     -> {"running", "queued", "cancelling"} \cup Terminal
          [] s = "cancelling"  -> {"cancelling"} \cup Terminal
          [] OTHER             -> {s, "queued"}]

\* The table assertAttemptTransition consults; a terminal attempt has no successor.
allowedAttemptTransitions ==
    [s \in AttemptStatus |->
        CASE s = "reserved"  -> {"reserved", "claimed", "cancelled"}
          [] s = "claimed"   -> {"claimed", "preparing", "cancelled", "failed"}
          [] s = "preparing" -> {"preparing", "running", "needs-input", "failed", "cancelled"}
          [] s = "running"   -> {"running", "verifying", "failed", "cancelled"}
          [] s = "verifying" -> {"verifying", "completed", "failed", "cancelled"}
          [] OTHER           -> {}]

\* deriveCleanupStatus, given for every required subject the status of its
\* latest evidence ("pending" when it has none): the worst one wins.
deriveCleanupStatus(states) ==
    IF states = {} THEN "not-required"
    ELSE IF "failed" \in states THEN "failed"
    ELSE IF "unknown" \in states THEN "unknown"
    ELSE IF "pending" \in states THEN "pending" ELSE "proven"

\* The queue status that projectQueueCompletion derives from an attempt's
\* terminal status, its verification verdict and its cleanup state.
ProjectedStatus(status, verification, cleanup) ==
    IF cleanup \notin CleanupSafe THEN "needs-input"
    ELSE CASE status = "cancelled"   -> "cancelled"
           [] status = "completed"   ->
                 IF verification = "eligible" THEN "completed" ELSE "needs-input"
           [] status = "needs-input" -> "needs-input"
           [] OTHER -> "failed"
=============================================================================
