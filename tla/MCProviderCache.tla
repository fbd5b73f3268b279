--------------------------- MODULE MCProviderCache ---------------------------
(* Small instances of ProviderCache. *)
EXTENDS ProviderCache, TLC

CONSTANTS x1, x2, x3, k1, m1, m2
=============================================================================
