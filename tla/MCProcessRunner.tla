--------------------------- MODULE MCProcessRunner ---------------------------
(***************************************************************************)
(* Both platforms, with a guardian that may be killed once.                *)
(***************************************************************************)
EXTENDS ProcessRunner, TLC
=============================================================================
