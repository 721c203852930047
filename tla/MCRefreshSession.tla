--------------------------- MODULE MCRefreshSession ---------------------------
(* Small instances of RefreshSession for TLC. *)
EXTENDS RefreshSession, TLC

Symmetry == Permutations(Calls)
=============================================================================
