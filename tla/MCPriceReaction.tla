--------------------------- MODULE MCPriceReaction ---------------------------
(* Small instances of PriceReaction for TLC. *)
EXTENDS PriceReaction, TLC

\* Calls are interchangeable, and so are users.
Symmetry == Permutations(Calls) \cup Permutations(Users)
=============================================================================
