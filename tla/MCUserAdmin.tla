----------------------------- MODULE MCUserAdmin -----------------------------
(***************************************************************************)
(* UserAdmin for TLC: requests differ in nothing but their slot.           *)
(***************************************************************************)
EXTENDS UserAdmin, TLC

WorkerSymmetry == Permutations(Workers)
=============================================================================
