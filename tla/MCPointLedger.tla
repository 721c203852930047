---------------------------- MODULE MCPointLedger ----------------------------
(* Small instances of PointLedger for TLC. *)
EXTENDS PointLedger, TLC

\* Interchangeable, and used where no liveness is checked.
Symmetry == Permutations(Calls) \cup Permutations(Prices)
              \cup Permutations(Verifications)
=============================================================================
