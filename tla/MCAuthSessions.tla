--------------------------- MODULE MCAuthSessions ---------------------------
(* Small instances of AuthSessions. *)
EXTENDS AuthSessions, TLC

CONSTANTS t1, t2, t3, f1, f2

SameTabs == Permutations({t1, t2, t3})
=============================================================================
