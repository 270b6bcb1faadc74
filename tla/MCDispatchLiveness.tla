------------------------- MODULE MCDispatchLiveness -------------------------
(***************************************************************************)
(* The liveness of one job's cancellation.  A storage error may take an    *)
(* item from everyone who would settle it; the variable lost remembers for *)
(* which jobs that happened, and constrains nothing.                       *)
(***************************************************************************)
EXTENDS MCDispatch

VARIABLE lost    \* jobs whose running or cancelling item nobody looks after

\* The catch clause could not write the item, or cancel() failed on an attempt
\* that its execution, having seen the item cancelling, will not launch.
Loses(j) == FailItemFails(j) \/ (CancelFails(j) /\ exec[j].at = "starting")

Remember ==
    lost' = {j \in Jobs : /\ phase' # "down"
                          /\ item'[j].status \in {"running", "cancelling"}
                          /\ j \in lost \/ Loses(j)}

LivenessSpec ==
    /\ Init /\ lost = {}
    /\ [][Next /\ Remember]_<<vars, lost>>
    /\ Fairness

\* A cancellation that was accepted is settled: as long as the process lives, a
\* cancelling item reaches a terminal status, also when the attempt ends by
\* itself, cannot be written any more, or was about to be launched.  Only a
\* storage error in the catch clause of executeItem, or in cancel() itself
\* before the attempt was launched, leaves the item cancelling until the next
\* start: an error anywhere else does not.
CancellationSettles ==
    \A j \in Jobs :
        item[j].status = "cancelling" ~>
            item[j].status \in Terminal \/ phase = "down" \/ j \in lost
=============================================================================
