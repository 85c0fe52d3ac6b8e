--------------------------- MODULE MCConfdbAccess ---------------------------
(* A confdb with a handful of requests for TLC.                            *)
EXTENDS ConfdbAccess

CONSTANTS r1, r2, w1, w2, k1, k2
=============================================================================
