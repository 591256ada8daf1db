------------------------------ MODULE MCAccount ------------------------------
(* An instance of Account for TLC. *)
EXTENDS Account, TLC

Symmetry == Permutations(Users) \union Permutations(Requests)
=============================================================================
