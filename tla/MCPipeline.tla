----------------------------- MODULE MCPipeline -----------------------------
(* Small instances of Pipeline: two critical steps then a non-critical one. *)
EXTENDS Pipeline, TLC

CONSTANTS a1, a2

=============================================================================
