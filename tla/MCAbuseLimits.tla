--------------------------- MODULE MCAbuseLimits ---------------------------
(* Small instances of AbuseLimits.                                         *)
EXTENDS AbuseLimits
=============================================================================
