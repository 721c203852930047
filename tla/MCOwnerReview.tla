---------------------------- MODULE MCOwnerReview ----------------------------
(* Small instances of OwnerReview for TLC. *)
EXTENDS OwnerReview, TLC

\* Interchangeable.
Symmetry == Permutations(Users) \cup Permutations(Stores) \cup Permutations(Calls)
              \cup Permutations(AppIds) \cup Permutations(FlyerIds)
=============================================================================
