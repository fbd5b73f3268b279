------------------------- MODULE MCContentRetention -------------------------
(* Small instances of ContentRetention. *)
EXTENDS ContentRetention, TLC

CONSTANTS a1, a2, r1, r2, w1, w2

Interchangeable == Permutations({w1, w2})
=============================================================================
