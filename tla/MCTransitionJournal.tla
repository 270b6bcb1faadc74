------------------------ MODULE MCTransitionJournal ------------------------
(***************************************************************************)
(* The attempt manifest's journal: the record is the attempt status and    *)
(* the table is allowedAttemptTransitions.                                 *)
(***************************************************************************)
EXTENDS TransitionJournal, Contracts

MCValues == {"reserved", "claimed", "preparing", "cancelled"}
MCLegal == {p \in MCValues \X MCValues : p[2] \in allowedAttemptTransitions[p[1]]}
=============================================================================
