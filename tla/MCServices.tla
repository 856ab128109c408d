----------------------------- MODULE MCServices -----------------------------
(***************************************************************************)
(* Services for TLC.  The callers are interchangeable, and so are in each  *)
(* part the two things of a kind; since a behaviour shows one part, those  *)
(* of all parts may change places together (Exchange).                     *)
(***************************************************************************)
EXTENDS Services, TLC

CONSTANTS o1, o2, s1, s2, g1, g2, x1, x2

Swap(a, b) == (a :> b) @@ (b :> a)
Exchange == Swap(o1, o2) @@ Swap(s1, s2) @@ Swap(g1, g2) @@ Swap(x1, x2)

Symmetry == Permutations(Callers) \cup {Exchange}

(* The accounts of the run are of one tenant; the others are strangers.    *)
OneTenant == [a \in Accounts |-> CHOOSE t \in Tenants : TRUE]
=============================================================================
