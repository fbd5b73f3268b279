---------------------------- MODULE MCUsageLimits ----------------------------
(* Small instances of UsageLimits. *)
EXTENDS UsageLimits, TLC

CONSTANTS u1, u2, p1, x1, x2

SameUploaders == Permutations({u1, u2})
=============================================================================
