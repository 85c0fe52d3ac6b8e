---------------------------- MODULE MCEnsureLoop ----------------------------
(* A short interval for TLC.                                               *)
EXTENDS EnsureLoop
=============================================================================
