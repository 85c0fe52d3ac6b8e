----------------------------- MODULE MCBootTry -----------------------------
(* Two revisions of each snap for TLC.                                     *)
EXTENDS BootTry

CONSTANTS k1, k2, k3, b1, b2
=============================================================================
