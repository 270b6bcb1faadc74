----------------------------- MODULE MCRetention -----------------------------
(***************************************************************************)
(* Owner processes are interchangeable.                                    *)
(***************************************************************************)
EXTENDS Retention, TLC

Symmetry == Permutations(Owners) \cup Permutations(Plans)
=============================================================================
