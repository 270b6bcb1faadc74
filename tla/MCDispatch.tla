----------------------------- MODULE MCDispatch -----------------------------
(***************************************************************************)
(* Instances of Dispatch: one job with two attempts, and a parent with two *)
(* attempts and a child that builds on its proposal.                       *)
(***************************************************************************)
EXTENDS Dispatch

CONSTANTS solo, parent, child

MCDeps == [j \in Jobs |-> IF j = child THEN {parent} ELSE {}]
MCRank == [j \in Jobs |-> IF j = child THEN 2 ELSE 1]
MCMaxAttempts == [j \in Jobs |-> IF j = child THEN 1 ELSE 2]
MCMaxAutoRetries == [j \in Jobs |-> IF j = solo THEN 1 ELSE 0]

\* Bounds the lineage run: the child's only attempt has not ended (after it no
\* lineage is recorded any more), the worktree of the parent's first attempt is
\* kept and the removal of the second succeeds (removals only forbid retries).
Unfinished ==
    /\ attempt[<<child, 1>>].status \notin Terminal
    /\ attempt[<<parent, 1>>].ws = "none"
    /\ attempt[<<parent, 2>>].ws # "failed"
=============================================================================
