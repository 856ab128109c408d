----------------------------- MODULE MCUserSync -----------------------------
(* Two workers, two users and two tenants. *)
EXTENDS UserSync, TLC

Symmetry == Permutations(Callers) \cup Permutations(Members) \cup Permutations(Tenants)
=============================================================================
