------------------------- MODULE MCPriceVerification -------------------------
(* Small instances of PriceVerification for TLC. *)
EXTENDS PriceVerification, TLC

\* Interchangeable, and used where no liveness is checked.
Symmetry == Permutations(Users) \cup Permutations(Prices) \cup Permutations(Calls)
=============================================================================
