----------------------------- MODULE MCRollups -----------------------------
(* Instance of Rollups for TLC. *)
EXTENDS Rollups, TLC

CONSTANTS c1, c2

Alike == Permutations({c1, c2})
=============================================================================
