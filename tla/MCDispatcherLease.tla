------------------------- MODULE MCDispatcherLease -------------------------
(***************************************************************************)
(* Processes are interchangeable; identities need no symmetry, a new one   *)
(* being chosen deterministically.                                         *)
(***************************************************************************)
EXTENDS DispatcherLease, TLC

MCSymmetry == Permutations(Procs)
=============================================================================
